--------------------- MODULE AdvancedLoggerMemoryProofs ---------------------
(***************************************************************************)
(* Proofs about the in-memory log, for any writers, readers, buffer size   *)
(* and message lengths.  MemoryInv is the inductive invariant: the safety  *)
(* properties of AdvancedLoggerMemory plus what a writer knows while it is *)
(* between two accesses to the log.  This module holds the invariant, the  *)
(* initial state and the steps of a write up to the claim of an entry;     *)
(* AdvancedLoggerWriteProofs the steps that fill the entry or discard the  *)
(* message; AdvancedLoggerReaderProofs the readers and the theorems.       *)
(***************************************************************************)
EXTENDS AdvancedLoggerMemory, TLAPS

\* What a call in progress relies on from its last step to its next one.
WriterKnows ==
  \A w \in Writers :
    /\ msg[w] # NULL => msg[w] \in Messages /\ msg[w].by = w /\ msg[w].no <= calls[w]
    /\ pc[w] # "idle" => msg[w] # NULL
    /\ pc[w] = "claim" => /\ local[w] \in Slots /\ local[w] <= LogCurrent
                          /\ LogBufferSize - local[w] >= MESSAGE_ENTRY_SIZE(msg[w].len)
    /\ pc[w] \in {"fill", "sign"} => /\ local[w] \in Slots
                                     /\ [at |-> local[w], msg |-> msg[w]] \in entries
    /\ pc[w] = "sign" => memory[local[w]] = [Signature |-> NoSignature, MessageLen |-> msg[w].len,
                                             Text |-> msg[w]]
    /\ pc[w] \in {"count", "discard"} =>
         LogBufferSize - LogCurrent < MESSAGE_ENTRY_SIZE(msg[w].len)
    /\ pc[w] \in {"load", "claim", "count", "discard"} =>
         msg[w] \notin lost /\ \A e \in entries : e.msg # msg[w]

\* A message in the log or counted as discarded belongs to a call already made.
MadeByCalls ==
  /\ \A e \in entries : e.msg.no <= calls[e.msg.by]
  /\ \A m \in lost : m.no <= calls[m.by]

\* Nothing is written behind LogCurrent.
UnusedIsBlank == \A o \in Slots : o >= LogCurrent => memory[o] = Blank

\* A reader about to test a signature looks at an entry of the log, the one
\* that follows what it was given last.
ReaderKnows ==
  \A r \in Readers :
    rpc[r] = "read" => /\ \E e \in entries : e.at = LogEntry[r]
                       /\ LogEntry[r] = IF got[r] = << >> THEN 0
                                        ELSE EntryEnd(got[r][Len(got[r])])

\* What a reader was given is complete in memory.
SeenIsSigned ==
  \A r \in Readers : \A i \in 1 .. Len(got[r]) :
    memory[got[r][i].at] = [Signature |-> MESSAGE_ENTRY_SIGNATURE, MessageLen |-> got[r][i].msg.len,
                            Text |-> got[r][i].msg]

\* The writers' part, which no reader can disturb.
WriterInv ==
  /\ EntriesDisjoint /\ EntriesContiguous /\ SignedIsComplete
  /\ LoggedOrLost /\ LostOnlyWhenFull
  /\ WriterKnows /\ MadeByCalls /\ UnusedIsBlank

ReaderInv == ReaderFollowsLog /\ ReaderNeverDerails /\ ReaderKnows /\ SeenIsSigned

MemoryInv == TypeOK /\ WriterInv /\ ReaderInv

-----------------------------------------------------------------------------
\* MESSAGE_ENTRY_SIZE is a positive number.
LEMMA EntrySize == \A n \in Nat : MESSAGE_ENTRY_SIZE(n) \in Nat /\ MESSAGE_ENTRY_SIZE(n) > 0
  BY DEF MESSAGE_ENTRY_SIZE, EntryHeader

\* MESSAGE_ENTRY_SIZE keeps addresses aligned to 8 bytes.
LEMMA EntryAligned ==
  \A n, a \in Nat : a % 8 = 0 => (a + MESSAGE_ENTRY_SIZE(n)) % 8 = 0
  BY DEF MESSAGE_ENTRY_SIZE, EntryHeader

\* An entry starts at a number.
LEMMA SlotsAreNat == ASSUME NEW o \in Slots PROVE o \in Nat
  BY DEF Slots

\* The length of a message is a number.
LEMMA LengthsAreNat == ASSUME NEW m \in Messages PROVE m.len \in Nat
  BY ZenonT(30), SizesAssumption DEF Messages

\* The initial state satisfies the invariant: the log is empty, nobody is in a call.
LEMMA InitMemoryInv == Init => MemoryInv
<1> SUFFICES ASSUME Init PROVE MemoryInv
  OBVIOUS
<1> USE SizesAssumption DEF Init
<1>1. TypeOK
  BY DEF TypeOK, Slots, Blank, Headers
<1>2. WriterInv
  BY DEF WriterInv, EntriesDisjoint, EntriesContiguous, SignedIsComplete, LoggedOrLost,
         LostOnlyWhenFull, WriterKnows, MadeByCalls, UnusedIsBlank
<1>3. ReaderInv
  BY DEF ReaderInv, ReaderFollowsLog, ReaderNeverDerails, ReaderKnows, SeenIsSigned
<1> QED
  BY <1>1, <1>2, <1>3 DEF MemoryInv

-----------------------------------------------------------------------------
(* The actions of a writer.                                                *)

\* Two entries that start at the same address are one entry.
LEMMA EntryByAddress ==
  ASSUME MemoryInv, NEW e \in entries, NEW f \in entries, e.at = f.at
  PROVE  e = f
<1>1. e.msg.len \in Nat /\ f.msg.len \in Nat /\ e.at \in Nat
  BY LengthsAreNat DEF MemoryInv, TypeOK, Slots
<1>2. /\ MESSAGE_ENTRY_SIZE(e.msg.len) \in Nat /\ MESSAGE_ENTRY_SIZE(e.msg.len) > 0
      /\ MESSAGE_ENTRY_SIZE(f.msg.len) \in Nat /\ MESSAGE_ENTRY_SIZE(f.msg.len) > 0
  BY <1>1, EntrySize
<1> QED
  BY <1>1, <1>2 DEF MemoryInv, WriterInv, EntriesDisjoint, EntryEnd

\* The call as such changes nothing that is in the log.
LEMMA CallMemoryInv ==
  ASSUME MemoryInv, NEW w \in Writers, NEW n \in Lengths, Call(w, n)
  PROVE  MemoryInv'
<1> USE SizesAssumption
<1> USE DEF Call, info, reader, history, MemoryInv
<1>0. calls[w] \in 0 .. MaxCalls /\ calls'[w] = calls[w] + 1
      /\ \A v \in Writers : calls[v] <= calls'[v] /\ calls'[v] \in 0 .. MaxCalls
  BY DEF TypeOK
<1>1. TypeOK'
  <2>1. pc' \in [Writers -> {"idle", "load", "claim", "fill", "sign", "count", "discard"}]
    BY ZenonT(30) DEF TypeOK
  <2>2. msg' \in [Writers -> Messages \cup {NULL}]
    <3>1. [by |-> w, no |-> calls[w] + 1, len |-> n] \in Messages
      BY <1>0 DEF Messages
    <3> QED
      BY ZenonT(30), <3>1 DEF TypeOK
  <2>3. calls' \in [Writers -> 0 .. MaxCalls]
    BY <1>0 DEF TypeOK
  <2> QED
    BY ZenonT(30), <2>1, <2>2, <2>3 DEF TypeOK
<1>2. WriterKnows'
  <2> SUFFICES ASSUME NEW v \in Writers PROVE WriterKnows!(v)'
    BY DEF WriterKnows
  <2>1. CASE v # w
    BY <2>1, <1>0 DEF WriterInv, WriterKnows, TypeOK
  <2>2. CASE v = w
    BY <2>2, <1>0, <1>1 DEF WriterInv, WriterKnows, TypeOK, Messages, MadeByCalls
  <2> QED
    BY <2>1, <2>2
<1>3. WriterInv'
  <2>1. EntriesDisjoint' /\ EntriesContiguous'
    BY DEF WriterInv, EntriesDisjoint, EntriesContiguous, EntryEnd
  <2>2. SignedIsComplete'
    BY DEF WriterInv, SignedIsComplete, Filling, TypeOK
  <2>3. LoggedOrLost'
    BY ZenonT(30) DEF WriterInv, LoggedOrLost, TypeOK
  <2>4. MadeByCalls'
    <3>1. \A e \in entries : e.msg.by \in Writers /\ e.msg.no \in Nat
      BY DEF TypeOK, Messages
    <3>2. \A m \in lost : m.by \in Writers /\ m.no \in Nat
      BY DEF TypeOK, Messages
    <3> QED
      BY <1>0, <3>1, <3>2 DEF WriterInv, MadeByCalls, TypeOK
  <2>5. LostOnlyWhenFull' /\ UnusedIsBlank'
    BY DEF WriterInv, LostOnlyWhenFull, UnusedIsBlank
  <2> QED
    BY <1>2, <2>1, <2>2, <2>3, <2>4, <2>5 DEF WriterInv
<1>4. ReaderInv'
  BY DEF ReaderInv, ReaderFollowsLog, ReaderNeverDerails, ReaderKnows, SeenIsSigned, EntryEnd
<1> QED
  BY <1>1, <1>3, <1>4

\* Loading LogCurrent: the test for room gives the writer what it relies on in
\* its next step, whichever branch it takes.
LEMMA LoadLogCurrentMemoryInv ==
  ASSUME MemoryInv, NEW w \in Writers, LoadLogCurrent(w)
  PROVE  MemoryInv'
<1> USE SizesAssumption
<1> USE DEF LoadLogCurrent, info, reader, history, MemoryInv
<1>0. msg[w] \in Messages /\ msg[w].len \in Nat
  BY ZenonT(30), LengthsAreNat DEF WriterInv, WriterKnows
<1>1. TypeOK'
  BY DEF TypeOK, Slots
<1>2. WriterKnows'
  <2> SUFFICES ASSUME NEW v \in Writers PROVE WriterKnows!(v)'
    BY DEF WriterKnows
  <2>1. CASE v # w
    BY <2>1 DEF WriterInv, WriterKnows, TypeOK
  <2>2. CASE v = w
    <3>1. LogCurrent \in Nat /\ LogBufferSize \in Nat /\ MESSAGE_ENTRY_SIZE(msg[w].len) \in Nat
      <4>1. LogCurrent \in Nat /\ LogBufferSize \in Nat
        BY DEF TypeOK, Slots
      <4> QED
        BY <1>0, <4>1, EntrySize
    <3>2. MESSAGE_ENTRY_SIZE(msg[w].len) > 0
      BY <1>0, EntrySize
    <3>3. pc'[w] \in {"claim", "count"} /\ local'[w] = LogCurrent
      BY DEF TypeOK
    <3>4. pc'[w] = "claim" => LogBufferSize - LogCurrent >= MESSAGE_ENTRY_SIZE(msg[w].len)
      BY <3>1 DEF TypeOK, Full
    <3>5. pc'[w] = "count" => LogBufferSize - LogCurrent < MESSAGE_ENTRY_SIZE(msg[w].len)
      BY <3>1, <3>2 DEF TypeOK, Full
    <3>6. LogCurrent \in Slots /\ LogCurrent <= LogCurrent
      BY <3>1 DEF TypeOK
    <3>7. WriterKnows!(w) /\ pc[w] = "load"
      BY ZenonT(30) DEF WriterInv, WriterKnows
    <3> QED
      BY <2>2, <3>3, <3>4, <3>5, <3>6, <3>7
  <2> QED
    BY <2>1, <2>2
<1>3. WriterInv'
  <2>1. EntriesDisjoint' /\ EntriesContiguous'
    BY DEF WriterInv, EntriesDisjoint, EntriesContiguous, EntryEnd
  <2>2. SignedIsComplete'
    BY ZenonT(30) DEF WriterInv, SignedIsComplete, Filling, TypeOK
  <2>3. LoggedOrLost'
    BY DEF WriterInv, LoggedOrLost, TypeOK
  <2>4. MadeByCalls' /\ LostOnlyWhenFull' /\ UnusedIsBlank'
    BY DEF WriterInv, MadeByCalls, LostOnlyWhenFull, UnusedIsBlank
  <2> QED
    BY <1>2, <2>1, <2>2, <2>3, <2>4 DEF WriterInv
<1>4. ReaderInv'
  BY DEF ReaderInv, ReaderFollowsLog, ReaderNeverDerails, ReaderKnows, SeenIsSigned, EntryEnd
<1> QED
  BY <1>1, <1>3, <1>4

\* Claiming an entry: a successful exchange claims exactly the bytes behind
\* LogCurrent, which nobody uses; a failed one changes nothing.
LEMMA ClaimEntryMemoryInv ==
  ASSUME MemoryInv, NEW w \in Writers, ClaimEntry(w)
  PROVE  MemoryInv'
<1> USE SizesAssumption
<1> USE DEF ClaimEntry, InterlockedCompareExchange, reader, MemoryInv
<1> DEFINE size == MESSAGE_ENTRY_SIZE(msg[w].len)
           new  == [at |-> local[w], msg |-> msg[w]]
<1>0. msg[w] \in Messages /\ msg[w].len \in Nat /\ local[w] \in Slots
  BY ZenonT(30), LengthsAreNat DEF WriterInv, WriterKnows
<1>1. CASE LogCurrent # local[w]
  <2>0. /\ UNCHANGED <<LogCurrent, entries, lost, memory, msg, local, calls>>
        /\ pc' = [pc EXCEPT ![w] = "load"]
    BY <1>1
  <2>1. TypeOK'
    BY ZenonT(30), <2>0 DEF TypeOK
  <2>2. WriterKnows'
    BY <2>0 DEF WriterInv, WriterKnows, TypeOK
  <2>3. EntriesDisjoint' /\ EntriesContiguous'
    BY <2>0 DEF WriterInv, EntriesDisjoint, EntriesContiguous, EntryEnd
  <2>4. SignedIsComplete'
    <3>1. \A v \in Writers : \A e \in entries : Filling(v, e)' <=> Filling(v, e)
      BY <2>0 DEF Filling, TypeOK
    <3> QED
      BY <2>0, <3>1 DEF WriterInv, SignedIsComplete
  <2>5. LoggedOrLost' /\ MadeByCalls' /\ LostOnlyWhenFull' /\ UnusedIsBlank'
    BY <2>0 DEF WriterInv, LoggedOrLost, MadeByCalls, LostOnlyWhenFull, UnusedIsBlank, TypeOK
  <2>6. ReaderInv'
    BY <2>0 DEF ReaderInv, ReaderFollowsLog, ReaderNeverDerails, ReaderKnows, SeenIsSigned, EntryEnd
  <2> QED
    BY <2>1, <2>2, <2>3, <2>4, <2>5, <2>6 DEF WriterInv
<1>2. CASE LogCurrent = local[w]
  <2>0. /\ LogCurrent' = LogCurrent + size
        /\ entries' = entries \cup {new}
        /\ pc' = [pc EXCEPT ![w] = "fill"]
        /\ UNCHANGED <<lost, memory, msg, local, calls, DiscardedSize>>
    BY <1>2
  <2>1. size \in Nat /\ size > 0 /\ LogCurrent \in Nat /\ LogCurrent % 8 = 0
    <3>1. LogCurrent \in Nat /\ LogCurrent % 8 = 0
      BY DEF TypeOK, Slots
    <3> QED
      BY <1>0, <3>1, EntrySize
  <2>2. LogCurrent' \in Slots /\ LogCurrent < LogCurrent'
    <3>1. LogCurrent + size <= LogBufferSize
      <4>1. LogBufferSize - local[w] >= size
        BY ZenonT(30) DEF WriterInv, WriterKnows
      <4> QED
        BY <1>2, <2>1, <4>1
    <3>2. (LogCurrent + size) % 8 = 0
      BY <1>0, <2>1, EntryAligned
    <3> QED
      BY <2>0, <2>1, <3>1, <3>2 DEF Slots
  <2>3. new \in [at : Slots, msg : Messages] /\ EntryEnd(new) = LogCurrent' /\ new.at = LogCurrent
    BY <1>0, <1>2, <2>0 DEF EntryEnd
  <2>4. TypeOK'
    BY ZenonT(30), <2>0, <2>2, <2>3 DEF TypeOK
  <2>5. \A e \in entries : /\ e.at \in Nat /\ EntryEnd(e) \in Nat /\ e.at < EntryEnd(e)
                           /\ EntryEnd(e) <= LogCurrent /\ e.msg \in Messages
    <3> SUFFICES ASSUME NEW e \in entries
                 PROVE /\ e.at \in Nat /\ EntryEnd(e) \in Nat /\ e.at < EntryEnd(e)
                       /\ EntryEnd(e) <= LogCurrent /\ e.msg \in Messages
      OBVIOUS
    <3>1. e.at \in Nat /\ e.msg \in Messages /\ e.msg.len \in Nat
      BY LengthsAreNat DEF TypeOK, Slots
    <3>2. MESSAGE_ENTRY_SIZE(e.msg.len) \in Nat /\ MESSAGE_ENTRY_SIZE(e.msg.len) > 0
      BY <3>1, EntrySize
    <3> QED
      BY <3>1, <3>2 DEF EntryEnd, WriterInv, EntriesDisjoint
  <2>6. EntriesDisjoint'
    <3>1. \A e \in entries' : EntryEnd(e)' = EntryEnd(e)
      BY DEF EntryEnd
    <3>2. \A e \in entries' : EntryEnd(e) <= LogCurrent'
      BY <2>0, <2>1, <2>2, <2>3, <2>5 DEF Slots
    <3>3. \A e, f \in entries' : e = f \/ EntryEnd(e) <= f.at \/ EntryEnd(f) <= e.at
      BY <2>0, <2>3, <2>5 DEF WriterInv, EntriesDisjoint
    <3> QED
      BY <3>1, <3>2, <3>3 DEF EntriesDisjoint, EntryEnd
  <2>7. EntriesContiguous'
    <3>1. \E e \in entries' : e.at = 0
      BY <2>0, <2>3 DEF WriterInv, EntriesContiguous
    <3>2. ASSUME NEW e \in entries'
          PROVE EntryEnd(e) = LogCurrent' \/ \E f \in entries' : f.at = EntryEnd(e)
      BY <2>0, <2>3 DEF WriterInv, EntriesContiguous
    <3> QED
      BY <3>1, <3>2 DEF EntriesContiguous, EntryEnd
  <2>8. SignedIsComplete'
    <3>1. Filling(w, new)'
      BY <2>0 DEF Filling, TypeOK
    <3>2. memory[LogCurrent] = Blank
      <4>1. LogCurrent \in Slots /\ LogCurrent >= LogCurrent
        BY <2>1 DEF TypeOK
      <4> QED
        BY <4>1 DEF WriterInv, UnusedIsBlank
    <3>3. \A e \in entries : \A v \in Writers : Filling(v, e)' <=> Filling(v, e)
      BY <1>2, <2>0, <2>1, <2>5 DEF Filling, TypeOK
    <3>4. ASSUME NEW e \in entries PROVE SignedIsComplete!(e)'
      BY <3>3, <2>0 DEF WriterInv, SignedIsComplete
    <3>5. SignedIsComplete!(new)'
      BY <2>0, <2>3, <3>1, <3>2 DEF Blank
    <3> QED
      BY <2>0, <3>4, <3>5 DEF SignedIsComplete
  <2>9. LoggedOrLost'
    <3>1. msg[w] \notin lost /\ \A e \in entries : e.msg # msg[w]
      BY ZenonT(30) DEF WriterInv, WriterKnows
    <3> QED
      BY <2>0, <3>1 DEF WriterInv, LoggedOrLost, TypeOK
  <2>10. LostOnlyWhenFull'
    <3> SUFFICES ASSUME NEW m \in lost
                 PROVE LogBufferSize - LogCurrent' < MESSAGE_ENTRY_SIZE(m.len)
      BY <2>0 DEF LostOnlyWhenFull
    <3>1. m.len \in Nat /\ MESSAGE_ENTRY_SIZE(m.len) \in Nat
      BY ZenonT(30), LengthsAreNat, EntrySize DEF TypeOK
    <3> QED
      BY <2>0, <2>1, <3>1 DEF WriterInv, LostOnlyWhenFull
  <2>11. WriterKnows'
    <3> SUFFICES ASSUME NEW v \in Writers PROVE WriterKnows!(v)'
      BY DEF WriterKnows
    <3>1. CASE v = w
      BY ZenonT(30), <3>1, <1>0, <2>0 DEF WriterInv, WriterKnows, TypeOK
    <3>2. CASE v # w
      <4>0. pc'[v] = pc[v] /\ local'[v] = local[v] /\ msg'[v] = msg[v]
        BY <3>2, <2>0 DEF TypeOK
      <4>1. pc[v] # "idle" => msg[v] \in Messages /\ msg[v].len \in Nat
                              /\ MESSAGE_ENTRY_SIZE(msg[v].len) \in Nat
        BY ZenonT(30), LengthsAreNat, EntrySize DEF WriterInv, WriterKnows
      <4>2. pc[v] # "idle" => msg[v].by = v /\ msg[w].by = w
        BY ZenonT(30) DEF WriterInv, WriterKnows
      <4>3. pc[v] = "claim" => local[v] <= LogCurrent'
        <5>1. pc[v] = "claim" => local[v] \in Nat /\ local[v] <= LogCurrent
          <6>1. pc[v] = "claim" => local[v] \in Slots /\ local[v] <= LogCurrent
            BY ZenonT(30) DEF WriterInv, WriterKnows
          <6> QED
            BY <6>1 DEF Slots
        <5> QED
          BY <2>0, <2>1, <5>1
      <4>4. pc[v] \in {"count", "discard"} =>
              LogBufferSize - LogCurrent' < MESSAGE_ENTRY_SIZE(msg[v].len)
        <5>1. pc[v] \in {"count", "discard"} =>
                LogBufferSize - LogCurrent < MESSAGE_ENTRY_SIZE(msg[v].len)
          BY ZenonT(30) DEF WriterInv, WriterKnows
        <5> QED
          BY <2>0, <2>1, <4>1, <5>1
      <4>5. pc[v] # "idle" => new.msg # msg[v]
        BY <3>2, <4>2
      <4> QED
        BY <2>0, <4>0, <4>3, <4>4, <4>5 DEF WriterInv, WriterKnows
    <3> QED
      BY <3>1, <3>2
  <2>12. MadeByCalls'
    <3>1. msg[w].by = w /\ msg[w].no <= calls[w]
      BY ZenonT(30) DEF WriterInv, WriterKnows
    <3> QED
      BY <2>0, <3>1 DEF WriterInv, MadeByCalls
  <2>13. UnusedIsBlank'
    BY <2>0, <2>1, <2>2 DEF WriterInv, UnusedIsBlank, Slots
  <2>14. ReaderInv'
    <3>1. ReaderFollowsLog' /\ ReaderNeverDerails' /\ SeenIsSigned'
      BY <2>0 DEF ReaderInv, ReaderFollowsLog, ReaderNeverDerails, SeenIsSigned, EntryEnd
    <3>2. ReaderKnows'
      BY <2>0 DEF ReaderInv, ReaderKnows, EntryEnd
    <3> QED
      BY <3>1, <3>2 DEF ReaderInv
  <2> QED
    BY <2>4, <2>6, <2>7, <2>8, <2>9, <2>10, <2>11, <2>12, <2>13, <2>14 DEF WriterInv
<1> QED
  BY <1>1, <1>2
=============================================================================
