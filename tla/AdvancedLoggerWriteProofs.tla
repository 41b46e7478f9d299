---------------------- MODULE AdvancedLoggerWriteProofs ----------------------
(***************************************************************************)
(* The steps of a write that follow its claim of an entry, or its finding  *)
(* the buffer full, keep MemoryInv.                                        *)
(***************************************************************************)
EXTENDS AdvancedLoggerMemoryProofs

\* Filling an entry touches only the writer's own entry, which is not signed.
LEMMA FillEntryMemoryInv ==
  ASSUME MemoryInv, NEW w \in Writers, FillEntry(w)
  PROVE  MemoryInv'
<1> USE SizesAssumption
<1> USE DEF FillEntry, reader, history, MemoryInv
<1> DEFINE mine == [at |-> local[w], msg |-> msg[w]]
<1>0. /\ msg[w] \in Messages /\ local[w] \in Slots /\ mine \in entries
      /\ pc[w] = "fill" /\ msg[w].len \in Lengths
  BY ZenonT(30) DEF WriterInv, WriterKnows, Messages
<1>1. memory[local[w]].Signature = NoSignature
  BY ZenonT(30), <1>0 DEF WriterInv, SignedIsComplete, Filling, TypeOK
<1>2. /\ memory'[local[w]] = [Signature |-> NoSignature, MessageLen |-> msg[w].len, Text |-> msg[w]]
      /\ \A o \in Slots : o # local[w] => memory'[o] = memory[o]
  <2>1. memory \in [Slots -> Headers]
    BY DEF TypeOK
  <2>2. /\ memory'[local[w]] = Filled(memory[local[w]], msg[w])
        /\ \A o \in Slots : o # local[w] => memory'[o] = memory[o]
    BY <1>0, <2>1
  <2>3. Filled(memory[local[w]], msg[w])
          = [Signature |-> NoSignature, MessageLen |-> msg[w].len, Text |-> msg[w]]
    BY <1>1 DEF Filled
  <2> QED
    BY <2>2, <2>3
<1>3. TypeOK'
  <2>1. memory' \in [Slots -> Headers]
    <3>1. memory \in [Slots -> Headers]
      BY DEF TypeOK
    <3>2. memory'[local[w]] \in Headers
      BY <1>0, <1>2 DEF Headers
    <3>3. DOMAIN memory' = Slots /\ memory' = [o \in Slots |-> memory'[o]]
      BY ZenonT(30), <3>1
    <3>4. \A o \in Slots : memory'[o] \in Headers
      BY <1>2, <3>1, <3>2
    <3> QED
      BY ZenonT(30), <3>3, <3>4
  <2> QED
    BY ZenonT(30), <2>1 DEF TypeOK
<1>4. \A e \in entries : e # mine => e.at # local[w] /\ e.at \in Slots
  BY ZenonT(30), <1>0, EntryByAddress DEF TypeOK
<1>5. \A v \in Writers : v # w /\ pc[v] \in {"fill", "sign"} => local[v] # local[w]
  <2> SUFFICES ASSUME NEW v \in Writers, v # w, pc[v] \in {"fill", "sign"}
               PROVE  local[v] # local[w]
    OBVIOUS
  <2>1. [at |-> local[v], msg |-> msg[v]] \in entries /\ msg[v].by = v /\ msg[w].by = w
    BY ZenonT(30), <1>0 DEF WriterInv, WriterKnows
  <2> QED
    BY <2>1, <1>0, <1>4
<1>6. SignedIsComplete'
  <2>1. \A e \in entries : \A v \in Writers : Filling(v, e)' <=> Filling(v, e)
    BY <1>0 DEF Filling, TypeOK
  <2>2. ASSUME NEW e \in entries, e # mine PROVE SignedIsComplete!(e)'
    BY <1>2, <1>4, <2>1, <2>2 DEF WriterInv, SignedIsComplete
  <2>3. SignedIsComplete!(mine)'
    <3>1. Filling(w, mine)
      BY <1>0 DEF Filling
    <3> QED
      BY <1>0, <1>2, <2>1, <3>1
  <2> QED
    BY <2>2, <2>3 DEF SignedIsComplete
<1>7. WriterKnows'
  <2> SUFFICES ASSUME NEW v \in Writers PROVE WriterKnows!(v)'
    BY DEF WriterKnows
  <2>0. WriterKnows!(v)
    BY DEF WriterInv, WriterKnows
  <2>1. CASE v = w
    <3>1. pc'[w] = "sign"
      BY <1>0 DEF TypeOK
    <3> QED
      BY <2>0, <2>1, <3>1, <1>0, <1>2
  <2>2. CASE v # w
    <3>1. pc'[v] = pc[v]
      BY <2>2 DEF TypeOK
    <3> QED
      BY <2>0, <2>2, <3>1, <1>2, <1>5
  <2> QED
    BY <2>1, <2>2
<1>8. EntriesDisjoint' /\ EntriesContiguous'
  BY DEF WriterInv, EntriesDisjoint, EntriesContiguous, EntryEnd
<1>9. LoggedOrLost' /\ MadeByCalls' /\ LostOnlyWhenFull'
  BY <1>0 DEF WriterInv, LoggedOrLost, MadeByCalls, LostOnlyWhenFull, TypeOK
<1>10. UnusedIsBlank'
  <2>1. local[w] < LogCurrent
    <3>1. local[w] \in Nat /\ msg[w].len \in Nat /\ LogCurrent \in Nat
      BY ZenonT(30), <1>0, SizesAssumption, SlotsAreNat DEF TypeOK
    <3>2. MESSAGE_ENTRY_SIZE(msg[w].len) \in Nat /\ MESSAGE_ENTRY_SIZE(msg[w].len) > 0
      BY <3>1, EntrySize
    <3>3. local[w] + MESSAGE_ENTRY_SIZE(msg[w].len) <= LogCurrent
      BY <1>0 DEF WriterInv, EntriesDisjoint, EntryEnd
    <3> QED
      BY <3>1, <3>2, <3>3
  <2>2. \A o \in Slots : o >= LogCurrent => o # local[w]
    <3>1. LogCurrent \in Nat /\ local[w] \in Nat
      BY <1>0, SlotsAreNat DEF TypeOK
    <3> QED
      BY <2>1, <3>1, SlotsAreNat
  <2> QED
    BY <1>2, <2>2 DEF WriterInv, UnusedIsBlank
<1>11. ReaderInv'
  <2>1. ReaderFollowsLog' /\ ReaderNeverDerails' /\ ReaderKnows'
    BY DEF ReaderInv, ReaderFollowsLog, ReaderNeverDerails, ReaderKnows, EntryEnd
  <2>2. SeenIsSigned'
    <3> SUFFICES ASSUME NEW r \in Readers, NEW i \in 1 .. Len(got[r]) PROVE SeenIsSigned!(r)!(i)'
      BY ZenonT(30) DEF SeenIsSigned
    <3>1. got[r][i] \in entries /\ SeenIsSigned!(r)!(i)
      BY DEF ReaderInv, ReaderFollowsLog, SeenIsSigned
    <3>2. got[r][i].at \in Slots /\ got[r][i].at # local[w]
      BY <3>1, <1>1, <1>4 DEF TypeOK, MESSAGE_ENTRY_SIGNATURE, NoSignature
    <3> QED
      BY <3>1, <3>2, <1>2
  <2> QED
    BY <2>1, <2>2 DEF ReaderInv
<1> QED
  BY <1>3, <1>6, <1>7, <1>8, <1>9, <1>10, <1>11 DEF WriterInv

\* Signing completes the writer's own entry and nothing else.
LEMMA SignEntryMemoryInv ==
  ASSUME MemoryInv, NEW w \in Writers, SignEntry(w)
  PROVE  MemoryInv'
<1> USE SizesAssumption
<1> USE DEF SignEntry, reader, history, MemoryInv
<1> DEFINE mine == [at |-> local[w], msg |-> msg[w]]
<1>0. /\ msg[w] \in Messages /\ local[w] \in Slots /\ mine \in entries
      /\ pc[w] = "sign" /\ msg[w].len \in Lengths
      /\ memory[local[w]] = [Signature |-> NoSignature, MessageLen |-> msg[w].len, Text |-> msg[w]]
  BY DEF WriterInv, WriterKnows, Messages
<1>1. /\ memory'[local[w]] = [Signature |-> MESSAGE_ENTRY_SIGNATURE, MessageLen |-> msg[w].len,
                              Text |-> msg[w]]
      /\ \A o \in Slots : o # local[w] => memory'[o] = memory[o]
  BY <1>0 DEF TypeOK
<1>2. pc'[w] = "idle" /\ \A v \in Writers : v # w => pc'[v] = pc[v]
  BY DEF TypeOK
<1>3. TypeOK'
  <2>1. memory' \in [Slots -> Headers]
    <3>1. memory'[local[w]] \in Headers
      BY <1>0, <1>1 DEF Headers
    <3>2. memory' = [o \in Slots |-> memory'[o]]
      BY ZenonT(30), <1>0 DEF TypeOK
    <3>3. \A o \in Slots : memory'[o] \in Headers
      BY ZenonT(30), <1>1, <3>1 DEF TypeOK
    <3> QED
      BY ZenonT(30), <3>2, <3>3
  <2> QED
    BY ZenonT(30), <2>1 DEF TypeOK
<1>4. \A e \in entries : e # mine => e.at # local[w] /\ e.at \in Slots
  BY ZenonT(30), <1>0, EntryByAddress DEF TypeOK
<1>5. \A v \in Writers : v # w /\ pc[v] \in {"fill", "sign"} => local[v] # local[w]
  <2> SUFFICES ASSUME NEW v \in Writers, v # w, pc[v] \in {"fill", "sign"}
               PROVE  local[v] # local[w]
    OBVIOUS
  <2>1. [at |-> local[v], msg |-> msg[v]] \in entries /\ msg[v].by = v /\ msg[w].by = w
    BY ZenonT(30), <1>0 DEF WriterInv, WriterKnows
  <2> QED
    BY <2>1, <1>0, <1>4
<1>6. SignedIsComplete'
  <2>1. \A e \in entries : e # mine =>
          \A v \in Writers : Filling(v, e)' <=> Filling(v, e)
    BY <1>2, <1>4 DEF Filling
  <2>2. ASSUME NEW e \in entries, e # mine PROVE SignedIsComplete!(e)'
    BY <1>1, <1>4, <2>1, <2>2 DEF WriterInv, SignedIsComplete
  <2>3. SignedIsComplete!(mine)'
    <3>1. ~ \E v \in Writers : Filling(v, mine)'
      BY <1>2, <1>5 DEF Filling
    <3> QED
      BY <1>0, <1>1, <3>1
  <2> QED
    BY <2>2, <2>3 DEF SignedIsComplete
<1>7. WriterKnows'
  <2> SUFFICES ASSUME NEW v \in Writers PROVE WriterKnows!(v)'
    BY DEF WriterKnows
  <2>0. WriterKnows!(v)
    BY DEF WriterInv, WriterKnows
  <2>1. CASE v = w
    BY <2>0, <2>1, <1>2
  <2>2. CASE v # w
    BY <2>0, <2>2, <1>1, <1>2, <1>5
  <2> QED
    BY <2>1, <2>2
<1>8. EntriesDisjoint' /\ EntriesContiguous'
  BY DEF WriterInv, EntriesDisjoint, EntriesContiguous, EntryEnd
<1>9. LoggedOrLost' /\ MadeByCalls' /\ LostOnlyWhenFull'
  <2>1. LoggedOrLost'
    <3>1. \E e \in entries : e.msg = msg[w]
      BY <1>0
    <3> QED
      BY <1>2, <3>1 DEF WriterInv, LoggedOrLost
  <2> QED
    BY <2>1 DEF WriterInv, MadeByCalls, LostOnlyWhenFull
<1>10. UnusedIsBlank'
  <2>1. memory[local[w]] # Blank
    <3>1. msg[w] # NULL
      BY <1>0 DEF Messages
    <3> QED
      BY <1>0, <3>1 DEF Blank
  <2> QED
    BY <1>0, <1>1, <2>1 DEF WriterInv, UnusedIsBlank
<1>11. ReaderInv'
  <2>1. ReaderFollowsLog' /\ ReaderNeverDerails' /\ ReaderKnows'
    BY DEF ReaderInv, ReaderFollowsLog, ReaderNeverDerails, ReaderKnows, EntryEnd
  <2>2. SeenIsSigned'
    <3> SUFFICES ASSUME NEW r \in Readers, NEW i \in 1 .. Len(got[r]) PROVE SeenIsSigned!(r)!(i)'
      BY DEF SeenIsSigned
    <3>1. got[r][i] \in entries /\ SeenIsSigned!(r)!(i)
      BY DEF ReaderInv, ReaderFollowsLog, SeenIsSigned
    <3>2. got[r][i].at \in Slots /\ got[r][i].at # local[w]
      BY <3>1, <1>0, <1>4 DEF TypeOK, MESSAGE_ENTRY_SIGNATURE, NoSignature
    <3> QED
      BY <3>1, <3>2, <1>1
  <2> QED
    BY <2>1, <2>2 DEF ReaderInv
<1> QED
  BY <1>3, <1>6, <1>7, <1>8, <1>9, <1>10, <1>11 DEF WriterInv

\* Loading DiscardedSize changes nothing but the writer.
LEMMA LoadDiscardedSizeMemoryInv ==
  ASSUME MemoryInv, NEW w \in Writers, LoadDiscardedSize(w)
  PROVE  MemoryInv'
<1> USE SizesAssumption
<1> USE DEF LoadDiscardedSize, info, reader, history, MemoryInv
<1>0. /\ pc[w] = "count" /\ pc'[w] = "discard"
      /\ \A v \in Writers : v # w => pc'[v] = pc[v] /\ local'[v] = local[v]
  BY DEF TypeOK
<1>1. TypeOK'
  <2>1. DiscardedSize \in Nat
    BY DEF TypeOK
  <2>2. local' \in [Writers -> Nat]
    <3>1. local \in [Writers -> Nat]
      BY DEF TypeOK
    <3> QED
      BY <2>1, <3>1
  <2>3. pc' \in [Writers -> {"idle", "load", "claim", "fill", "sign", "count", "discard"}]
    <3>1. pc \in [Writers -> {"idle", "load", "claim", "fill", "sign", "count", "discard"}]
      BY DEF TypeOK
    <3> QED
      BY <3>1
  <2> QED
    BY ZenonT(30), <2>2, <2>3 DEF TypeOK
<1>2. WriterKnows'
  <2> SUFFICES ASSUME NEW v \in Writers PROVE WriterKnows!(v)'
    BY DEF WriterKnows
  <2>0. WriterKnows!(v)
    BY DEF WriterInv, WriterKnows
  <2>1. CASE v = w
    BY <2>0, <2>1, <1>0
  <2>2. CASE v # w
    BY <2>0, <2>2, <1>0
  <2> QED
    BY <2>1, <2>2
<1>3. SignedIsComplete'
  <2>1. \A e \in entries : \A v \in Writers : Filling(v, e)' <=> Filling(v, e)
    BY <1>0 DEF Filling
  <2> QED
    BY <2>1 DEF WriterInv, SignedIsComplete
<1>4. EntriesDisjoint' /\ EntriesContiguous'
  BY DEF WriterInv, EntriesDisjoint, EntriesContiguous, EntryEnd
<1>5. LoggedOrLost' /\ MadeByCalls' /\ LostOnlyWhenFull' /\ UnusedIsBlank'
  BY <1>0 DEF WriterInv, LoggedOrLost, MadeByCalls, LostOnlyWhenFull, UnusedIsBlank
<1>6. ReaderInv'
  BY DEF ReaderInv, ReaderFollowsLog, ReaderNeverDerails, ReaderKnows, SeenIsSigned, EntryEnd
<1> QED
  BY <1>1, <1>2, <1>3, <1>4, <1>5, <1>6 DEF WriterInv

\* Discarding a message counts it, and leaves the log alone.
LEMMA DiscardMemoryInv ==
  ASSUME MemoryInv, NEW w \in Writers, Discard(w)
  PROVE  MemoryInv'
<1> USE SizesAssumption
<1> USE DEF Discard, RetryDiscard, reader, MemoryInv
<1>0. /\ pc[w] = "discard" /\ pc'[w] \in {"idle", "count"}
      /\ \A v \in Writers : v # w => pc'[v] = pc[v]
  BY DEF TypeOK
<1>1. /\ msg[w] \in Messages /\ msg[w].by = w /\ msg[w].no <= calls[w] /\ msg[w].len \in Nat
      /\ msg[w] \notin lost /\ \A e \in entries : e.msg # msg[w]
      /\ LogBufferSize - LogCurrent < MESSAGE_ENTRY_SIZE(msg[w].len)
  BY ZenonT(30), LengthsAreNat DEF WriterInv, WriterKnows
<1>2. lost' = lost \/ (lost' = lost \cup {msg[w]} /\ pc'[w] = "idle")
  BY DEF TypeOK
<1>3. pc'[w] = "idle" => msg[w] \in lost'
  BY DEF TypeOK
<1>4. TypeOK'
  <2>1. DiscardedSize' \in 0 .. UINT32_SPAN - 1
    <3>0. local[w] \in Nat
      BY DEF TypeOK
    <3>1. local[w] + msg[w].len \in Nat
      BY <3>0, <1>1
    <3>2. (local[w] + msg[w].len) % UINT32_SPAN \in 0 .. UINT32_SPAN - 1
      BY <3>1
    <3> QED
      BY <3>2 DEF TypeOK
  <2>2. pc' \in [Writers -> {"idle", "load", "claim", "fill", "sign", "count", "discard"}]
    <3>1. pc \in [Writers -> {"idle", "load", "claim", "fill", "sign", "count", "discard"}]
      BY DEF TypeOK
    <3> QED
      BY <3>1
  <2>3. lost' \subseteq Messages
    BY <1>1, <1>2 DEF TypeOK
  <2> QED
    BY ZenonT(30), <2>1, <2>2, <2>3 DEF TypeOK
<1>5. WriterKnows'
  <2> SUFFICES ASSUME NEW v \in Writers PROVE WriterKnows!(v)'
    BY DEF WriterKnows
  <2>0. WriterKnows!(v)
    BY DEF WriterInv, WriterKnows
  <2>1. CASE v = w
    BY <2>0, <2>1, <1>0, <1>2
  <2>2. CASE v # w
    <3>1. msg[v] # NULL => msg[v] # msg[w]
      BY <2>0, <2>2, <1>1
    <3> QED
      BY <2>0, <2>2, <1>0, <1>2, <3>1
  <2> QED
    BY <2>1, <2>2
<1>6. SignedIsComplete'
  <2>1. \A e \in entries : \A v \in Writers : Filling(v, e)' <=> Filling(v, e)
    BY <1>0 DEF Filling
  <2> QED
    BY <2>1 DEF WriterInv, SignedIsComplete
<1>7. EntriesDisjoint' /\ EntriesContiguous' /\ UnusedIsBlank'
  BY DEF WriterInv, EntriesDisjoint, EntriesContiguous, EntryEnd, UnusedIsBlank
<1>8. LoggedOrLost'
  BY <1>0, <1>1, <1>2, <1>3 DEF WriterInv, LoggedOrLost
<1>9. MadeByCalls'
  BY <1>1, <1>2 DEF WriterInv, MadeByCalls
<1>10. LostOnlyWhenFull'
  BY <1>1, <1>2 DEF WriterInv, LostOnlyWhenFull
<1>11. ReaderInv'
  BY ZenonT(30) DEF ReaderInv, ReaderFollowsLog, ReaderNeverDerails, ReaderKnows, SeenIsSigned, EntryEnd
<1> QED
  BY <1>4, <1>5, <1>6, <1>7, <1>8, <1>9, <1>10, <1>11 DEF WriterInv
=============================================================================
