------------------------ MODULE AdvancedLoggerMemory ------------------------
(***************************************************************************)
(* The in-memory log of AdvLoggerPkg: concurrent callers of                *)
(* AdvancedLoggerMemoryLoggerWrite (AdvancedLoggerCommon.c) claim space    *)
(* with a compare-and-exchange on LogCurrent, fill the claimed entry, and  *)
(* store its signature last; readers walk the entries with                 *)
(* AdvancedLoggerAccessLibGetNextMessageBlock (AdvancedLoggerAccessLib.c). *)
(*                                                                         *)
(* Addresses are offsets from LogBuffer, so LogBuffer itself is 0.         *)
(* A writer is any context that can run DEBUG(): the BSP at some TPL, the  *)
(* callback that preempted it, an SMI handler, an AP.  The steps of a      *)
(* call are its accesses to shared memory, in program order.  A message is *)
(* its writer, the number of the call, and its length; the text, the time  *)
(* stamp and the debug level are represented by the first two.             *)
(***************************************************************************)
EXTENDS Integers, Sequences, FiniteSets, FiniteSetsExt

CONSTANTS Writers,        \* contexts that write
          Readers,        \* contexts that read (one per access-library user)
          LogBufferSize,  \* bytes available for entries
          Lengths,        \* values of NumberOfBytes the callers pass
          MaxCalls,       \* bound: calls per writer
          MAX_UINT16,     \* largest MessageLen
          UINT32_SPAN,    \* DiscardedSize is a UINT32: 2^32 in the code
          NULL            \* a pointer that points nowhere

\* LogBufferSize is itself a UINT32 field, and a length is a UINTN.
ASSUME SizesAssumption == /\ LogBufferSize \in Nat
                          /\ MaxCalls \in Nat
                          /\ MAX_UINT16 \in Nat
                          /\ UINT32_SPAN \in Nat \ {0}
                          /\ Lengths \subseteq Nat
                          /\ NULL \notin Nat
                          /\ NULL \notin [by : Writers, no : 1 .. MaxCalls, len : Lengths]

\* sizeof (ADVANCED_LOGGER_MESSAGE_ENTRY): packed UINT32, UINT32, UINT64, UINT16.
EntryHeader == 18

MESSAGE_ENTRY_SIZE(len) == 8 * ((EntryHeader + len + 7) \div 8)

MESSAGE_ENTRY_SIGNATURE == "ALMS"
NoSignature == "none"

\* Where an entry can start.
Slots == {o \in 0 .. LogBufferSize : o % 8 = 0}

Messages == [by : Writers, no : 1 .. MaxCalls, len : Lengths]

\* What the memory at the start of an entry holds.
Headers == [Signature : {NoSignature, MESSAGE_ENTRY_SIGNATURE},
            MessageLen : {0} \cup Lengths, Text : Messages \cup {NULL}]

\* The buffer starts zeroed
\* (ZeroMem in AdvancedLoggerGetLoggerInfo of PeiCore).
Blank == [Signature |-> NoSignature, MessageLen |-> 0, Text |-> NULL]

VARIABLES LogCurrent,     \* LoggerInfo->LogCurrent
          DiscardedSize,  \* LoggerInfo->DiscardedSize
          memory,         \* [Slots -> what an entry header there says]
          pc,             \* [Writers -> where in the write it is]
          msg,            \* [Writers -> the message of the call in progress]
          local,          \* [Writers -> CurrentBuffer, later CurrentSize]
          calls,          \* [Writers -> calls made]
          rpc,            \* [Readers -> where in GetNextMessageBlock it is]
          Message,        \* [Readers -> BlockEntry->Message: the entry it points into]
          LogEntry,       \* [Readers -> the entry the call looks at]
          entries,        \* history: claimed entries, [at, msg]
          lost,           \* history: messages counted as discarded
          got,            \* history: [Readers -> entries returned, in order]
          status          \* [Readers -> status of the last finished call]

info    == <<LogCurrent, DiscardedSize, memory>>
writer  == <<pc, msg, local, calls>>
reader  == <<rpc, Message, LogEntry, got, status>>
history == <<entries, lost>>
vars    == <<info, writer, reader, history>>

Init ==
  /\ LogCurrent = 0 /\ DiscardedSize = 0
  /\ memory = [o \in Slots |-> Blank]
  /\ pc = [w \in Writers |-> "idle"]
  /\ msg = [w \in Writers |-> NULL]
  /\ local = [w \in Writers |-> 0]
  /\ calls = [w \in Writers |-> 0]
  /\ rpc = [r \in Readers |-> "idle"]
  /\ Message = [r \in Readers |-> NULL]
  /\ LogEntry = [r \in Readers |-> 0]
  /\ got = [r \in Readers |-> << >>]
  /\ status = [r \in Readers |-> "none"]
  /\ entries = {} /\ lost = {}

-----------------------------------------------------------------------------
(* AdvancedLoggerMemoryLoggerWrite, called with NumberOfBytes = n.         *)

\* An empty or an oversized message returns at once and leaves nothing.
Call(w, n) ==
  /\ pc[w] = "idle"
  /\ calls[w] < MaxCalls
  /\ calls' = [calls EXCEPT ![w] = @ + 1]
  /\ IF n = 0 \/ n > MAX_UINT16
     THEN UNCHANGED <<pc, msg>>
     ELSE /\ pc' = [pc EXCEPT ![w] = "load"]
          /\ msg' = [msg EXCEPT ![w] = [by |-> w, no |-> calls[w] + 1, len |-> n]]
  /\ UNCHANGED <<info, local, reader, history>>

\* Mutation of Full: an entry that fits exactly is refused.
FullOffByOne(UsedSize, EntrySize) ==
  UsedSize >= LogBufferSize \/ LogBufferSize - UsedSize <= EntrySize

\* The entry does not fit behind UsedSize bytes of log.
Full(UsedSize, EntrySize) ==
  \/ UsedSize >= LogBufferSize
  \/ LogBufferSize - UsedSize < EntrySize

\* CurrentBuffer = LoggerInfo->LogCurrent, and the test for room.
LoadLogCurrent(w) ==
  /\ pc[w] = "load"
  /\ local' = [local EXCEPT ![w] = LogCurrent]
  /\ pc' = [pc EXCEPT ![w] = IF Full(LogCurrent, MESSAGE_ENTRY_SIZE(msg[w].len))
                             THEN "count" ELSE "claim"]
  /\ UNCHANGED <<info, msg, calls, reader, history>>

\* Mutations of InterlockedCompareExchange: a plain store, of either or of
\* DiscardedSize only.
PlainStore(w, value) == TRUE
PlainStoreOfDiscarded(w, value) == pc[w] = "discard" \/ value = local[w]

\* The exchange takes place: the location still holds what the writer loaded.
InterlockedCompareExchange(w, value) == value = local[w]

\* The exchange on LogCurrent; a failure loads it again.
ClaimEntry(w) ==
  /\ pc[w] = "claim"
  /\ IF InterlockedCompareExchange(w, LogCurrent)
     THEN /\ LogCurrent' = local[w] + MESSAGE_ENTRY_SIZE(msg[w].len)
          /\ pc' = [pc EXCEPT ![w] = "fill"]
          /\ entries' = entries \cup {[at |-> local[w], msg |-> msg[w]]}
     ELSE /\ pc' = [pc EXCEPT ![w] = "load"]
          /\ UNCHANGED <<LogCurrent, entries>>
  /\ UNCHANGED <<DiscardedSize, memory, msg, local, calls, reader, lost>>

\* Mutation of Filled: the signature is stored before the text.
FilledSignedFirst(entry, m) ==
  [Signature |-> MESSAGE_ENTRY_SIGNATURE, MessageLen |-> m.len, Text |-> NULL]

\* The entry once TimeStamp, DebugLevel, MessageLen and the text are stored.
Filled(entry, m) == [Signature |-> entry.Signature, MessageLen |-> m.len, Text |-> m]

FillEntry(w) ==
  /\ pc[w] = "fill"
  /\ memory' = [memory EXCEPT ![local[w]] = Filled(memory[local[w]], msg[w])]
  /\ pc' = [pc EXCEPT ![w] = "sign"]
  /\ UNCHANGED <<LogCurrent, DiscardedSize, msg, local, calls, reader, history>>

\* Entry->Signature = MESSAGE_ENTRY_SIGNATURE, and the call returns.
SignEntry(w) ==
  /\ pc[w] = "sign"
  /\ memory' = [memory EXCEPT ![local[w]].Signature = MESSAGE_ENTRY_SIGNATURE]
  /\ pc' = [pc EXCEPT ![w] = "idle"]
  /\ UNCHANGED <<LogCurrent, DiscardedSize, msg, local, calls, reader, history>>

\* CurrentSize = LoggerInfo->DiscardedSize.
LoadDiscardedSize(w) ==
  /\ pc[w] = "count"
  /\ local' = [local EXCEPT ![w] = DiscardedSize]
  /\ pc' = [pc EXCEPT ![w] = "discard"]
  /\ UNCHANGED <<info, msg, calls, reader, history>>

\* Mutation of RetryDiscard: a retry that does not load again.
RetryStale == "discard"

\* Where the inner loop goes on when its exchange failed.
RetryDiscard == "count"

\* The exchange on DiscardedSize, and the call returns.
Discard(w) ==
  /\ pc[w] = "discard"
  /\ IF InterlockedCompareExchange(w, DiscardedSize)
     THEN /\ DiscardedSize' = (local[w] + msg[w].len) % UINT32_SPAN
          /\ pc' = [pc EXCEPT ![w] = "idle"]
          /\ lost' = lost \cup {msg[w]}
     ELSE /\ pc' = [pc EXCEPT ![w] = RetryDiscard]
          /\ UNCHANGED <<DiscardedSize, lost>>
  /\ UNCHANGED <<LogCurrent, memory, msg, local, calls, reader, entries>>

-----------------------------------------------------------------------------
(* AdvancedLoggerAccessLibGetNextMessageBlock                              *)

Return(r, s) ==
  /\ status' = [status EXCEPT ![r] = s]
  /\ rpc' = [rpc EXCEPT ![r] = "idle"]

Signed(at) == memory[at].Signature = MESSAGE_ENTRY_SIGNATURE

NEXT_LOG_ENTRY(at) == at + MESSAGE_ENTRY_SIZE(memory[at].MessageLen)

\* Mutation of NextEntry: the entry returned last is not stepped over.
NextEntryAgain(r) == IF Message[r] = NULL THEN 0 ELSE Message[r]

\* The entry after the one returned last.
NextEntry(r) == IF Message[r] = NULL THEN 0 ELSE NEXT_LOG_ENTRY(Message[r])

\* Mutation of AtEnd: the comparison is with the end of the entry's header.
AtEndOfHeader(at) == at + EntryHeader + 6 >= LogCurrent

AtEnd(at) == at >= LogCurrent

\* The tests up to the comparison with LogCurrent, in their order.
LocateStatus(r) ==
  CASE LogCurrent = 0 -> "EFI_END_OF_FILE"
    [] LogCurrent # 0 /\ Message[r] # NULL /\ ~ Signed(Message[r]) ->
         "EFI_INVALID_PARAMETER"
    [] OTHER ->
         IF NextEntry(r) % 8 # 0 \/ NextEntry(r) > LogBufferSize THEN "EFI_INVALID_PARAMETER"
         ELSE IF AtEnd(NextEntry(r)) THEN "EFI_END_OF_FILE"
         ELSE "EFI_SUCCESS"

\* From the start of the call to the comparison with LogCurrent.
LocateEntry(r) ==
  /\ rpc[r] = "idle"
  /\ IF LocateStatus(r) = "EFI_SUCCESS"
     THEN /\ LogEntry' = [LogEntry EXCEPT ![r] = NextEntry(r)]
          /\ rpc' = [rpc EXCEPT ![r] = "read"]
          /\ UNCHANGED status
     ELSE Return(r, LocateStatus(r)) /\ UNCHANGED LogEntry
  /\ UNCHANGED <<info, writer, history, Message, got>>

\* The test of the entry's signature and the copy of its fields.
ReadEntry(r) ==
  /\ rpc[r] = "read"
  /\ IF Signed(LogEntry[r])
     THEN /\ Message' = [Message EXCEPT ![r] = LogEntry[r]]
          /\ got' = [got EXCEPT ![r] = Append(@, [at |-> LogEntry[r],
                                                msg |-> memory[LogEntry[r]].Text])]
          /\ Return(r, "EFI_SUCCESS")
     ELSE Return(r, "EFI_COMPROMISED_DATA") /\ UNCHANGED <<Message, got>>
  /\ UNCHANGED <<info, writer, history, LogEntry>>

-----------------------------------------------------------------------------
WriterStep(w) ==
  \/ LoadLogCurrent(w) \/ ClaimEntry(w) \/ FillEntry(w) \/ SignEntry(w)
  \/ LoadDiscardedSize(w) \/ Discard(w)

ReaderStep(r) == LocateEntry(r) \/ ReadEntry(r)

Next ==
  \/ \E w \in Writers : WriterStep(w) \/ \E n \in Lengths : Call(w, n)
  \/ \E r \in Readers : ReaderStep(r)

Spec == Init /\ [][Next]_vars

\* A context that has begun a call runs on: nothing in the call waits.  A
\* reader polls: its driver calls it again from a timer or an event.
Fairness == /\ \A w \in Writers : WF_vars(WriterStep(w))
            /\ \A r \in Readers : WF_vars(ReaderStep(r))

FairSpec == Spec /\ Fairness

-----------------------------------------------------------------------------
(* Properties                                                              *)

EntryEnd(e) == e.at + MESSAGE_ENTRY_SIZE(e.msg.len)

\* Type invariant: every variable, and every pointer a context holds, stays in
\* its range; LogCurrent never passes the end of the buffer.
TypeOK ==
  /\ LogCurrent \in Slots
  /\ DiscardedSize \in 0 .. UINT32_SPAN - 1
  /\ memory \in [Slots -> Headers]
  /\ pc \in [Writers -> {"idle", "load", "claim", "fill", "sign", "count", "discard"}]
  /\ msg \in [Writers -> Messages \cup {NULL}]
  /\ local \in [Writers -> Nat]
  /\ calls \in [Writers -> 0 .. MaxCalls]
  /\ rpc \in [Readers -> {"idle", "read"}]
  /\ Message \in [Readers -> Slots \cup {NULL}]
  /\ LogEntry \in [Readers -> Slots]
  /\ got \in [Readers -> Seq([at : Slots, msg : Messages])]
  /\ status \in [Readers -> {"none", "EFI_SUCCESS", "EFI_END_OF_FILE",
                             "EFI_INVALID_PARAMETER", "EFI_COMPROMISED_DATA"}]
  /\ entries \subseteq [at : Slots, msg : Messages]
  /\ lost \subseteq Messages

\* Claimed entries never overlap and lie inside the part of the buffer in use,
\* whatever compare-and-exchange of LogCurrent fails or is retried.
EntriesDisjoint ==
  /\ \A e \in entries : EntryEnd(e) <= LogCurrent
  /\ \A e, f \in entries : e = f \/ EntryEnd(e) <= f.at \/ EntryEnd(f) <= e.at

\* The entries tile the used part: one starts at LogBuffer and where one ends
\* the next one starts or LogCurrent is, so NEXT_LOG_ENTRY always lands on an
\* entry.
EntriesContiguous ==
  /\ LogCurrent = 0 \/ \E e \in entries : e.at = 0
  /\ \A e \in entries : EntryEnd(e) = LogCurrent \/ \E f \in entries : f.at = EntryEnd(e)

\* Claimed entries tile the used part of the buffer, without overlap or gap.
EntriesTile == EntriesDisjoint /\ EntriesContiguous

\* The writer that is still filling entry e.
Filling(w, e) == pc[w] \in {"fill", "sign"} /\ local[w] = e.at

\* A signature in memory means a complete entry: it holds the length and the
\* text its writer was called with, and it is there for every finished write.
SignedIsComplete ==
  \A e \in entries :
    IF \E w \in Writers : Filling(w, e)
    THEN memory[e.at].Signature = NoSignature
    ELSE memory[e.at] = [Signature |-> MESSAGE_ENTRY_SIGNATURE,
                         MessageLen |-> e.msg.len, Text |-> e.msg]

\* Every message handed to the logger is, once its call is over, in the log or
\* counted as discarded, and never both or twice.
LoggedOrLost ==
  /\ \A e, f \in entries : e.msg = f.msg => e = f
  /\ \A e \in entries : e.msg \notin lost
  /\ \A w \in Writers :
       pc[w] = "idle" /\ msg[w] # NULL =>
         msg[w] \in lost \/ \E e \in entries : e.msg = msg[w]

\* A message is discarded only when the room left is too small for it, and it
\* stays too small: a discarded message never would have fitted.
LostOnlyWhenFull ==
  \A m \in lost : LogBufferSize - LogCurrent < MESSAGE_ENTRY_SIZE(m.len)

\* No message vanishes: a finished call has left it in the log or counted it,
\* once, and counted it only because there was and is no room for it.
NothingVanishes == LoggedOrLost /\ LostOnlyWhenFull

\* DiscardedSize counts every discarded byte, modulo its width, although
\* several contexts add to it at once.
DiscardedSizeIsExact == 
  DiscardedSize = MapThenSumSet(LAMBDA m : m.len, lost) % UINT32_SPAN

\* What a reader has been given so far is the log from its first entry on, in
\* order, none skipped, repeated or torn, and its resume pointer is the last.
ReaderFollowsLog ==
  \A r \in Readers :
    LET seen == got[r] IN
    /\ Message[r] = IF seen = << >> THEN NULL ELSE seen[Len(seen)].at
    /\ seen # << >> => seen[1].at = 0
    /\ \A i \in 1 .. Len(seen) : seen[i] \in entries
    /\ \A i \in 1 .. Len(seen) - 1 : seen[i + 1].at = EntryEnd(seen[i])

\* The walk never derails: the tests for a bad resume pointer, a misaligned or
\* an outlying entry (EFI_INVALID_PARAMETER) never trip.
ReaderNeverDerails == \A r \in Readers : status[r] # "EFI_INVALID_PARAMETER"

\* Entries stay: no step removes a claimed entry, changes a signed one, or
\* moves LogCurrent or a reader back.
LogOnlyGrows ==
  [][/\ entries \subseteq entries' /\ LogCurrent <= LogCurrent'
     /\ \A o \in Slots : Signed(o) => memory'[o] = memory[o]
     /\ \A r \in Readers : Len(got[r]) <= Len(got'[r])]_vars

\* Every call returns, although its compare-and-exchange may fail any number of
\* times while others succeed.
WritesFinish == \A w \in Writers : (pc[w] # "idle") ~> (pc[w] = "idle")

\* A reader that keeps polling is given every entry that was ever claimed,
\* although it may run into an entry not signed yet.
EveryEntryIsRead ==
  \A r \in Readers : \A o \in Slots :
    (\E e \in entries : e.at = o) ~> (\E i \in 1 .. Len(got[r]) : got[r][i].at = o)

\* Nobody is kept out: every call of AdvancedLoggerMemoryLoggerWrite returns, and
\* a polling reader is given every entry.
EveryoneProgresses == WritesFinish /\ EveryEntryIsRead
=============================================================================
