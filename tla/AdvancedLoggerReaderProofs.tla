--------------------- MODULE AdvancedLoggerReaderProofs ---------------------
(***************************************************************************)
(* The last part of the proof about the in-memory log: the steps of a      *)
(* reader keep MemoryInv, so MemoryInv is an invariant, and the safety     *)
(* properties of AdvancedLoggerMemory follow from it.                      *)
(***************************************************************************)
EXTENDS AdvancedLoggerWriteProofs

-----------------------------------------------------------------------------
(* The actions of a reader.                                                *)

\* What Append does.
LEMMA AppendFacts ==
  ASSUME NEW S, NEW seen \in Seq(S), NEW e \in S
  PROVE  /\ Len(Append(seen, e)) = Len(seen) + 1 /\ Len(seen) \in Nat
         /\ \A i \in 1 .. Len(seen) : Append(seen, e)[i] = seen[i]
         /\ Append(seen, e)[Len(seen) + 1] = e
         /\ Append(seen, e) # << >>
<1>1. Len(Append(seen, e)) = Len(seen) + 1 /\ Len(seen) \in Nat
  OBVIOUS
<1>2. /\ \A i \in 1 .. Len(seen) : Append(seen, e)[i] = seen[i]
      /\ Append(seen, e)[Len(seen) + 1] = e
  OBVIOUS
<1> QED
  BY <1>1, <1>2

\* A reader leaves everything of the writers alone.
LEMMA ReaderKeepsWriterInv ==
  ASSUME MemoryInv, UNCHANGED <<info, writer, history>>
  PROVE  WriterInv'
<1> USE DEF info, writer, history
<1>1. WriterKnows' /\ MadeByCalls' /\ UnusedIsBlank'
  BY DEF MemoryInv, WriterInv, WriterKnows, MadeByCalls, UnusedIsBlank
<1>2. EntriesDisjoint' /\ EntriesContiguous' /\ LoggedOrLost' /\ LostOnlyWhenFull'
  BY DEF MemoryInv, WriterInv, EntriesDisjoint, EntriesContiguous, LoggedOrLost,
         LostOnlyWhenFull, EntryEnd
<1>3. SignedIsComplete'
  BY DEF MemoryInv, WriterInv, SignedIsComplete, Filling
<1> QED
  BY <1>1, <1>2, <1>3 DEF WriterInv

\* The last entry a reader was given lies in the log, complete, and is the one
\* its resume pointer points at.
LEMMA LastSeen ==
  ASSUME MemoryInv, NEW r \in Readers, got[r] # << >>
  PROVE  LET e == got[r][Len(got[r])] IN
         /\ e \in entries /\ Message[r] = e.at /\ Message[r] # NULL
         /\ Signed(Message[r]) /\ NextEntry(r) = EntryEnd(e)
<1> DEFINE e == got[r][Len(got[r])]
<1>1. Len(got[r]) \in 1 .. Len(got[r])
  BY DEF MemoryInv, TypeOK
<1>2. e \in entries /\ Message[r] = e.at
  BY <1>1 DEF MemoryInv, ReaderInv, ReaderFollowsLog
<1>3. memory[e.at] = [Signature |-> MESSAGE_ENTRY_SIGNATURE, MessageLen |-> e.msg.len, Text |-> e.msg]
  BY <1>1 DEF MemoryInv, ReaderInv, SeenIsSigned
<1>4. e.at \in Nat /\ e.at # NULL
  BY <1>2, SizesAssumption, SlotsAreNat DEF MemoryInv, TypeOK
<1> QED
  BY <1>2, <1>3, <1>4 DEF Signed, NextEntry, NEXT_LOG_ENTRY, EntryEnd

\* Where a reader goes on is a slot of the buffer, not behind LogCurrent, and an
\* entry starts there unless it is the end of the log.
LEMMA NextEntryIsEntry ==
  ASSUME MemoryInv, NEW r \in Readers
  PROVE  /\ NextEntry(r) \in Slots /\ NextEntry(r) <= LogCurrent
         /\ NextEntry(r) < LogCurrent => \E e \in entries : e.at = NextEntry(r)
         /\ NextEntry(r) = IF got[r] = << >> THEN 0 ELSE EntryEnd(got[r][Len(got[r])])
<1>0. LogCurrent \in Slots /\ LogCurrent \in Nat /\ LogBufferSize \in Nat /\ LogCurrent <= LogBufferSize
  BY SizesAssumption DEF MemoryInv, TypeOK, Slots
<1>1. CASE got[r] = << >>
  <2>1. NextEntry(r) = 0
    BY <1>1 DEF MemoryInv, ReaderInv, ReaderFollowsLog, NextEntry
  <2>2. 0 \in Slots
    BY <1>0 DEF Slots
  <2> QED
    BY <1>0, <1>1, <2>1, <2>2 DEF MemoryInv, WriterInv, EntriesContiguous
<1>2. CASE got[r] # << >>
  <2> DEFINE e == got[r][Len(got[r])]
  <2>1. e \in entries /\ NextEntry(r) = EntryEnd(e)
    BY <1>2, LastSeen
  <2>2. e.at \in Nat /\ e.at % 8 = 0 /\ e.msg.len \in Nat
    <3>1. e.at \in Slots /\ e.msg \in Messages
      BY <2>1 DEF MemoryInv, TypeOK
    <3> QED
      BY <3>1, LengthsAreNat DEF Slots
  <2>3. EntryEnd(e) <= LogCurrent
    BY <2>1 DEF MemoryInv, WriterInv, EntriesDisjoint
  <2>4. EntryEnd(e) \in Nat /\ EntryEnd(e) % 8 = 0
    <3>1. MESSAGE_ENTRY_SIZE(e.msg.len) \in Nat
      BY ZenonT(30), <2>2, EntrySize
    <3>2. (e.at + MESSAGE_ENTRY_SIZE(e.msg.len)) % 8 = 0
      BY <2>2, EntryAligned
    <3> QED
      BY <2>2, <3>1, <3>2 DEF EntryEnd
  <2>5. EntryEnd(e) \in Slots
    BY <1>0, <2>3, <2>4 DEF Slots
  <2>6. EntryEnd(e) = LogCurrent \/ \E f \in entries : f.at = EntryEnd(e)
    BY <2>1 DEF MemoryInv, WriterInv, EntriesContiguous
  <2> QED
    BY <1>0, <1>2, <2>1, <2>3, <2>4, <2>5, <2>6
<1> QED
  BY <1>1, <1>2

\* The tests that end in EFI_INVALID_PARAMETER do not trip.
LEMMA LocateStatusValues ==
  ASSUME MemoryInv, NEW r \in Readers
  PROVE  /\ LocateStatus(r) \in {"EFI_END_OF_FILE", "EFI_SUCCESS"}
         /\ LocateStatus(r) = "EFI_SUCCESS" => NextEntry(r) < LogCurrent
<1>1. Message[r] = NULL \/ Signed(Message[r])
  <2>1. got[r] = << >> => Message[r] = NULL
    BY DEF MemoryInv, ReaderInv, ReaderFollowsLog
  <2> QED
    BY <2>1, LastSeen
<1>2. /\ NextEntry(r) \in Nat /\ NextEntry(r) % 8 = 0 /\ ~ NextEntry(r) > LogBufferSize
  BY NextEntryIsEntry, SizesAssumption DEF Slots
<1>3. LogCurrent \in Nat
  BY SlotsAreNat DEF MemoryInv, TypeOK
<1> QED
  BY <1>1, <1>2, <1>3 DEF LocateStatus, AtEnd

LEMMA LocateEntryMemoryInv ==
  ASSUME MemoryInv, NEW r \in Readers, LocateEntry(r)
  PROVE  MemoryInv'
<1> USE DEF LocateEntry, Return
<1>1. WriterInv'
  BY ReaderKeepsWriterInv
<1>2. TypeOK'
  <2>1. NextEntry(r) \in Slots
    BY NextEntryIsEntry
  <2>2. LogEntry' \in [Readers -> Slots]
    BY ZenonT(30), <2>1 DEF MemoryInv, TypeOK
  <2>3. rpc' \in [Readers -> {"idle", "read"}]
    <3>1. rpc \in [Readers -> {"idle", "read"}]
      BY DEF MemoryInv, TypeOK
    <3> QED
      BY <3>1
  <2>4. status' \in [Readers -> {"none", "EFI_SUCCESS", "EFI_END_OF_FILE",
                                 "EFI_INVALID_PARAMETER", "EFI_COMPROMISED_DATA"}]
    BY ZenonT(30), LocateStatusValues DEF MemoryInv, TypeOK
  <2> QED
    BY ZenonT(30), <2>2, <2>3, <2>4 DEF MemoryInv, TypeOK, info, writer, history
<1>3. ReaderNeverDerails'
  BY ZenonT(30), LocateStatusValues DEF MemoryInv, TypeOK, ReaderInv, ReaderNeverDerails
<1>4. ReaderKnows'
  <2> SUFFICES ASSUME NEW q \in Readers, rpc'[q] = "read"
               PROVE  /\ \E e \in entries : e.at = LogEntry'[q]
                      /\ LogEntry'[q] = IF got[q] = << >> THEN 0
                                        ELSE EntryEnd(got[q][Len(got[q])])
    BY DEF ReaderKnows, history, EntryEnd
  <2>1. CASE q = r
    <3>1. LocateStatus(r) = "EFI_SUCCESS" /\ LogEntry'[r] = NextEntry(r)
      BY <2>1 DEF MemoryInv, TypeOK
    <3> QED
      BY <2>1, <3>1, LocateStatusValues, NextEntryIsEntry
  <2>2. CASE q # r
    <3>1. rpc[q] = "read" /\ LogEntry'[q] = LogEntry[q]
      BY <2>2 DEF MemoryInv, TypeOK
    <3> QED
      BY <3>1 DEF MemoryInv, ReaderInv, ReaderKnows
  <2> QED
    BY <2>1, <2>2
<1>5. ReaderFollowsLog' /\ SeenIsSigned'
  BY DEF MemoryInv, ReaderInv, ReaderFollowsLog, SeenIsSigned, EntryEnd, info, history
<1> QED
  BY <1>1, <1>2, <1>3, <1>4, <1>5 DEF MemoryInv, ReaderInv
LEMMA ReadEntryMemoryInv ==
  ASSUME MemoryInv, NEW r \in Readers, ReadEntry(r)
  PROVE  MemoryInv'
<1> USE DEF ReadEntry, Return
<1>1. WriterInv'
  BY ReaderKeepsWriterInv
<1>2. PICK e \in entries : e.at = LogEntry[r]
  BY DEF MemoryInv, ReaderInv, ReaderKnows
<1>3. e \in [at : Slots, msg : Messages]
  BY <1>2 DEF MemoryInv, TypeOK
<1>4. Signed(LogEntry[r]) =>
        /\ memory[e.at] = [Signature |-> MESSAGE_ENTRY_SIGNATURE, MessageLen |-> e.msg.len,
                           Text |-> e.msg]
        /\ [at |-> LogEntry[r], msg |-> memory[LogEntry[r]].Text] = e
  <2>1. Signed(LogEntry[r]) =>
          memory[e.at] = [Signature |-> MESSAGE_ENTRY_SIGNATURE, MessageLen |-> e.msg.len,
                          Text |-> e.msg]
    BY <1>2 DEF MemoryInv, WriterInv, SignedIsComplete, Signed, MESSAGE_ENTRY_SIGNATURE, NoSignature
  <2> QED
    BY <1>2, <1>3, <2>1
<1>5. got[r] \in Seq([at : Slots, msg : Messages])
  BY ZenonT(30) DEF MemoryInv, TypeOK
<1>6. CASE ~ Signed(LogEntry[r])
  <2>1. TypeOK'
    BY ZenonT(30), <1>6 DEF MemoryInv, TypeOK, info, writer, history
  <2>0. UNCHANGED <<Message, got, memory, entries, LogEntry>>
    BY <1>6 DEF info, history
  <2>2. ReaderFollowsLog' /\ SeenIsSigned'
    BY <2>0 DEF MemoryInv, ReaderInv, ReaderFollowsLog, SeenIsSigned, EntryEnd
  <2>3. ReaderNeverDerails' /\ ReaderKnows'
    BY <1>6 DEF MemoryInv, TypeOK, ReaderInv, ReaderNeverDerails, ReaderKnows, EntryEnd, history
  <2> QED
    BY <1>1, <2>1, <2>2, <2>3 DEF MemoryInv, ReaderInv
<1>7. CASE Signed(LogEntry[r])
  <2> DEFINE seen == got[r]
  <2>0. /\ got' = [got EXCEPT ![r] = Append(got[r], e)]
        /\ Message' = [Message EXCEPT ![r] = LogEntry[r]]
    BY <1>7, <1>4
  <2>1. got'[r] = Append(seen, e) /\ Message'[r] = e.at
    BY <2>0, <1>2 DEF MemoryInv, TypeOK
  <2>2. /\ Len(Append(seen, e)) = Len(seen) + 1 /\ Len(seen) \in Nat
        /\ \A i \in 1 .. Len(seen) : Append(seen, e)[i] = seen[i]
        /\ Append(seen, e)[Len(seen) + 1] = e
        /\ Append(seen, e) # << >>
    BY <1>3, <1>5, AppendFacts
  <2>3. \A q \in Readers : q # r => got'[q] = got[q] /\ Message'[q] = Message[q]
    BY <2>0 DEF MemoryInv, TypeOK
  <2>4. TypeOK'
    <3>1. got' \in [Readers -> Seq([at : Slots, msg : Messages])]
      <4>1. Append(got[r], e) \in Seq([at : Slots, msg : Messages])
        BY <1>3, <1>5
      <4>2. got \in [Readers -> Seq([at : Slots, msg : Messages])]
        BY ZenonT(30) DEF MemoryInv, TypeOK
      <4> QED
        BY ZenonT(30), <2>0, <4>1, <4>2
    <3>2. Message' \in [Readers -> Slots \cup {NULL}]
      BY <2>0 DEF MemoryInv, TypeOK
    <3>3. /\ rpc' \in [Readers -> {"idle", "read"}]
          /\ status' \in [Readers -> {"none", "EFI_SUCCESS", "EFI_END_OF_FILE",
                                      "EFI_INVALID_PARAMETER", "EFI_COMPROMISED_DATA"}]
      <4>1. /\ rpc \in [Readers -> {"idle", "read"}]
            /\ status \in [Readers -> {"none", "EFI_SUCCESS", "EFI_END_OF_FILE",
                                       "EFI_INVALID_PARAMETER", "EFI_COMPROMISED_DATA"}]
        BY DEF MemoryInv, TypeOK
      <4> QED
        BY <4>1, <1>7
    <3> QED
      BY ZenonT(30), <3>1, <3>2, <3>3 DEF MemoryInv, TypeOK, info, writer, history
  <2>5. LogEntry[r] = IF seen = << >> THEN 0 ELSE EntryEnd(seen[Len(seen)])
    BY DEF MemoryInv, ReaderInv, ReaderKnows
  <2>6. ReaderFollowsLog'
    <3> SUFFICES ASSUME NEW q \in Readers
                 PROVE  /\ Message'[q] = IF got'[q] = << >> THEN NULL ELSE got'[q][Len(got'[q])].at
                        /\ got'[q] # << >> => got'[q][1].at = 0
                        /\ \A i \in 1 .. Len(got'[q]) : got'[q][i] \in entries
                        /\ \A i \in 1 .. Len(got'[q]) - 1 : got'[q][i + 1].at = EntryEnd(got'[q][i])
      BY DEF ReaderFollowsLog, history, EntryEnd
    <3>1. CASE q # r
      BY <2>3, <3>1 DEF MemoryInv, ReaderInv, ReaderFollowsLog
    <3>2. CASE q = r
      <4>0. /\ seen # << >> => seen[1].at = 0
            /\ \A i \in 1 .. Len(seen) : seen[i] \in entries
            /\ \A i \in 1 .. Len(seen) - 1 : seen[i + 1].at = EntryEnd(seen[i])
        BY DEF MemoryInv, ReaderInv, ReaderFollowsLog
      <4>1. Append(seen, e)[1].at = 0
        <5>1. CASE seen = << >>
          BY <5>1, <2>2, <2>5, <1>2
        <5>2. CASE seen # << >>
          <6>1. 1 \in 1 .. Len(seen)
            BY <5>2, <1>5
          <6> QED
            BY <6>1, <5>2, <4>0, <2>2
        <5> QED
          BY <5>1, <5>2
      <4>2. \A i \in 1 .. Len(seen) + 1 : Append(seen, e)[i] \in entries
        BY <4>0, <2>2, <1>2
      <4>3. \A i \in 1 .. Len(seen) : Append(seen, e)[i + 1].at = EntryEnd(Append(seen, e)[i])
        <5> SUFFICES ASSUME NEW i \in 1 .. Len(seen)
                     PROVE  Append(seen, e)[i + 1].at = EntryEnd(seen[i])
          BY <2>2
        <5>1. CASE i = Len(seen)
          <6>1. seen # << >>
            BY <5>1, <1>5
          <6> QED
            BY <5>1, <6>1, <2>2, <2>5, <1>2
        <5>2. CASE i # Len(seen)
          <6>1. i \in 1 .. Len(seen) - 1 /\ i + 1 \in 1 .. Len(seen)
            BY <5>2, <2>2
          <6> QED
            BY <6>1, <4>0, <2>2
        <5> QED
          BY <5>1, <5>2
      <4> QED
        <5>1. Len(got'[r]) = Len(seen) + 1 /\ Len(got'[r]) - 1 = Len(seen)
          BY <2>1, <2>2
        <5>2. got'[r] # << >> /\ Message'[r] = got'[r][Len(got'[r])].at
          BY <2>1, <2>2, <5>1
        <5>3. /\ \A i \in 1 .. Len(got'[r]) : got'[r][i] \in entries
              /\ \A i \in 1 .. Len(got'[r]) - 1 : got'[r][i + 1].at = EntryEnd(got'[r][i])
          BY <2>1, <4>2, <4>3, <5>1
        <5> QED
          BY <3>2, <2>1, <4>1, <5>2, <5>3
    <3> QED
      BY <3>1, <3>2
  <2>7. SeenIsSigned'
    <3> SUFFICES ASSUME NEW q \in Readers, NEW i \in 1 .. Len(got'[q])
                 PROVE  memory[got'[q][i].at] =
                          [Signature |-> MESSAGE_ENTRY_SIGNATURE, MessageLen |-> got'[q][i].msg.len,
                           Text |-> got'[q][i].msg]
      BY DEF SeenIsSigned, info
    <3>1. CASE q # r
      BY <2>3, <3>1 DEF MemoryInv, ReaderInv, SeenIsSigned
    <3>2. CASE q = r /\ i = Len(seen) + 1
      BY <3>2, <2>1, <2>2, <1>4, <1>7
    <3>3. CASE q = r /\ i \in 1 .. Len(seen)
      BY <3>3, <2>1, <2>2 DEF MemoryInv, ReaderInv, SeenIsSigned
    <3> QED
      <4>1. q = r => i = Len(seen) + 1 \/ i \in 1 .. Len(seen)
        BY <2>1, <2>2
      <4> QED
        BY <4>1, <3>1, <3>2, <3>3
  <2>8. ReaderNeverDerails'
    BY <1>7 DEF MemoryInv, TypeOK, ReaderInv, ReaderNeverDerails
  <2>9. ReaderKnows'
    <3>1. rpc'[r] = "idle" /\ \A q \in Readers : q # r => rpc'[q] = rpc[q]
      BY <1>7 DEF MemoryInv, TypeOK
    <3> QED
      BY <2>3, <3>1 DEF MemoryInv, ReaderInv, ReaderKnows, EntryEnd, history
  <2> QED
    BY <1>1, <2>4, <2>6, <2>7, <2>8, <2>9 DEF MemoryInv, ReaderInv
<1> QED
  BY <1>6, <1>7

-----------------------------------------------------------------------------
(* The theorems.                                                           *)

\* MemoryInv holds in every reachable state: every step of a writer or of a
\* reader, in any interleaving, keeps it.
THEOREM MemoryInvariant == Spec => []MemoryInv
<1>1. MemoryInv /\ [Next]_vars => MemoryInv'
  <2> SUFFICES ASSUME MemoryInv, [Next]_vars PROVE MemoryInv'
    OBVIOUS
  <2>1. ASSUME NEW w \in Writers, WriterStep(w) PROVE MemoryInv'
    BY <2>1, LoadLogCurrentMemoryInv, ClaimEntryMemoryInv, FillEntryMemoryInv,
       SignEntryMemoryInv, LoadDiscardedSizeMemoryInv, DiscardMemoryInv DEF WriterStep
  <2>2. ASSUME NEW w \in Writers, NEW n \in Lengths, Call(w, n) PROVE MemoryInv'
    BY <2>2, CallMemoryInv
  <2>3. ASSUME NEW r \in Readers, ReaderStep(r) PROVE MemoryInv'
    BY <2>3, LocateEntryMemoryInv, ReadEntryMemoryInv DEF ReaderStep
  <2>4. CASE UNCHANGED vars
    <3>1. UNCHANGED <<info, writer, history>> /\ UNCHANGED reader
      BY <2>4 DEF vars
    <3>2. WriterInv'
      BY <3>1, ReaderKeepsWriterInv
    <3>3. TypeOK'
      BY ZenonT(30), <3>1 DEF MemoryInv, TypeOK, info, writer, history, reader
    <3>4. ReaderInv'
      BY <3>1 DEF MemoryInv, ReaderInv, ReaderFollowsLog, ReaderNeverDerails, ReaderKnows,
                  SeenIsSigned, EntryEnd, info, history, reader
    <3> QED
      BY <3>2, <3>3, <3>4 DEF MemoryInv
  <2> QED
    BY <2>1, <2>2, <2>3, <2>4 DEF Next
<1> QED
  BY <1>1, InitMemoryInv, PTL DEF Spec
\* Every variable and every pointer a context holds stays in its range; in
\* particular LogCurrent never passes the end of the buffer.
THEOREM MemoryTypeCorrect == Spec => []TypeOK
  BY MemoryInvariant, PTL DEF MemoryInv

\* Whatever the order in which contexts load LogCurrent, lose and retry the
\* exchange, the entries they claim are disjoint and tile the used buffer.
THEOREM EntriesTileTheLog == Spec => []EntriesTile
  BY MemoryInvariant, PTL DEF MemoryInv, WriterInv, EntriesTile

\* A signature is only ever seen on an entry whose length and text are in place.
THEOREM SignatureMeansComplete == Spec => []SignedIsComplete
  BY MemoryInvariant, PTL DEF MemoryInv, WriterInv

\* A finished call has put its message in the log or counted it as discarded,
\* and a discarded message would not have fitted, then or later.
THEOREM NoMessageVanishes == Spec => []NothingVanishes
  BY MemoryInvariant, PTL DEF MemoryInv, WriterInv, NothingVanishes

\* Every reader is given the log in order, from the first entry, without a gap,
\* a repetition or a torn entry, while the writers go on.
THEOREM ReaderSeesPrefix == Spec => []ReaderFollowsLog
  BY MemoryInvariant, PTL DEF MemoryInv, ReaderInv

\* The tests for a bad resume pointer or a misplaced entry never trip.
THEOREM ReaderStaysOnTrack == Spec => []ReaderNeverDerails
  BY MemoryInvariant, PTL DEF MemoryInv, ReaderInv

\* No step takes a claimed entry away, alters a signed one, or moves LogCurrent
\* or a reader back.
THEOREM LogIsAppendOnly == Spec => LogOnlyGrows
<1> DEFINE Grows == /\ entries \subseteq entries' /\ LogCurrent <= LogCurrent'
                    /\ \A o \in Slots : Signed(o) => memory'[o] = memory[o]
                    /\ \A r \in Readers : Len(got[r]) <= Len(got'[r])
<1>1. MemoryInv /\ [Next]_vars => [Grows]_vars
  <2> SUFFICES ASSUME MemoryInv, Next PROVE Grows
    OBVIOUS
  <2>0. /\ LogCurrent \in Nat /\ \A r \in Readers : Len(got[r]) \in Nat
        /\ \A w \in Writers : local[w] \in Nat
    BY SlotsAreNat DEF MemoryInv, TypeOK
  <2>1. ASSUME NEW w \in Writers, ClaimEntry(w) PROVE Grows
    <3>1. msg[w].len \in Nat
      BY ZenonT(30), <2>1, LengthsAreNat DEF ClaimEntry, MemoryInv, WriterInv, WriterKnows
    <3>2. MESSAGE_ENTRY_SIZE(msg[w].len) \in Nat
      BY <3>1, EntrySize
    <3>3. LogCurrent' = LogCurrent \/ LogCurrent' = LogCurrent + MESSAGE_ENTRY_SIZE(msg[w].len)
      BY <2>1 DEF ClaimEntry, InterlockedCompareExchange
    <3>4. LogCurrent <= LogCurrent'
      BY <2>0, <3>2, <3>3
    <3>5. entries \subseteq entries' /\ UNCHANGED <<memory, got>>
      BY <2>1 DEF ClaimEntry, reader
    <3> QED
      BY <2>0, <3>4, <3>5
  <2>2. ASSUME NEW w \in Writers, FillEntry(w) \/ SignEntry(w) PROVE Grows
    <3>1. ~ Signed(local[w])
      <4>1. /\ [at |-> local[w], msg |-> msg[w]] \in entries
            /\ Filling(w, [at |-> local[w], msg |-> msg[w]])
        <5>1. pc[w] \in {"fill", "sign"}
          BY <2>2 DEF FillEntry, SignEntry
        <5> QED
          BY ZenonT(30), <5>1 DEF MemoryInv, WriterInv, WriterKnows, Filling
      <4> QED
        BY ZenonT(30), <4>1 DEF MemoryInv, WriterInv, SignedIsComplete, Signed, MESSAGE_ENTRY_SIGNATURE,
                    NoSignature
    <3>2. \A o \in Slots : o # local[w] => memory'[o] = memory[o]
      BY <2>2 DEF FillEntry, SignEntry, MemoryInv, TypeOK
    <3> QED
      BY <2>0, <2>2, <3>1, <3>2 DEF FillEntry, SignEntry, reader, history
  <2>3. ASSUME NEW w \in Writers,
               LoadLogCurrent(w) \/ LoadDiscardedSize(w) \/ Discard(w) \/ \E n \in Lengths : Call(w, n)
        PROVE  Grows
    <3>1. UNCHANGED <<entries, LogCurrent, memory, got>>
      BY <2>3 DEF LoadLogCurrent, LoadDiscardedSize, Discard, Call, info, reader, history
    <3> QED
      BY <2>0, <3>1
  <2>4. ASSUME NEW r \in Readers, ReaderStep(r) PROVE Grows
    <3>1. \A q \in Readers : Len(got[q]) <= Len(got'[q])
      <4> SUFFICES ASSUME NEW q \in Readers PROVE Len(got[q]) <= Len(got'[q])
        OBVIOUS
      <4> DEFINE e == [at |-> LogEntry[r], msg |-> memory[LogEntry[r]].Text]
      <4>0. got \in [Readers -> Seq([at : Slots, msg : Messages])]
        BY ZenonT(30) DEF MemoryInv, TypeOK
      <4>1. got'[q] = got[q] \/ got'[q] = Append(got[q], e)
        BY <2>4, <4>0 DEF ReaderStep, LocateEntry, ReadEntry
      <4> QED
        BY <2>0, <4>1 DEF MemoryInv, TypeOK
    <3> QED
      BY <2>0, <2>4, <3>1 DEF ReaderStep, LocateEntry, ReadEntry, info, history
  <2> QED
    BY <2>1, <2>2, <2>3, <2>4 DEF Next, WriterStep
<1> QED
  BY <1>1, MemoryInvariant, PTL DEF Spec, LogOnlyGrows
=============================================================================
