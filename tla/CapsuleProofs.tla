--------------------------- MODULE CapsuleProofs ---------------------------
(***************************************************************************)
(* Proofs about CapsuleStaging, for any images, arrays, bounds and         *)
(* moduli: the four properties, from one inductive invariant.              *)
(***************************************************************************)
EXTENDS CapsuleStaging, TLAPS

Good(item) ==
  item.CapsuleId \in DOMAIN files /\ files[item.CapsuleId].image = item.CapsuleHash

\* Items stand in the order of their names.
Ascending(q) == \A i, j \in DOMAIN q : i < j => q[i].Id < q[j].Id

\* No two items name one file.
Separate(q) == \A i, j \in DOMAIN q : i # j => q[i].CapsuleId # q[j].CapsuleId

DiskOK == ~ dir => DOMAIN files = {}

\* What is known at each label.
LabelOK ==
  /\ pc \in {"delete", "clear", "persist", "write", "queue"} => rest # << >>
  /\ pc \in {"delete", "clear"} => mFirstPersistence /\ promised = {}
  /\ pc = "clear" => DOMAIN files \subseteq undeleted
  /\ pc \in {"persist", "write", "queue"} => ~ mFirstPersistence
  /\ pc \in {"write", "queue"} =>
       dir /\ CapsuleId \in DOMAIN files /\ files[CapsuleId].boot = boot
  /\ pc = "queue" => files[CapsuleId].image = Head(rest).image
  /\ mFirstPersistence \/ pc = "idle" => staged = {}
  /\ taken # NULL => pc = "idle"

\* Without leftovers the items, the item in hand and the file being written have
\* numbers of their own, and behind the first persistence every item is good.
ItemsOK ==
  ~ leftover =>
    /\ Separate(queue)
    /\ taken # NULL => \A item \in Items(queue) : item.CapsuleId # taken.CapsuleId
    /\ pc \in {"write", "queue"} => \A item \in Items(queue) : item.CapsuleId # CapsuleId
    /\ ~ mFirstPersistence => \A item \in Items(queue) : Good(item)

PromiseOK ==
  /\ promised \subseteq Items(queue) /\ staged \subseteq Items(queue)
  /\ ~ leftover => \A item \in promised : Good(item)

\* The queue starts with the name 1 if it was filled since the last clearing.
FirstOK ==
  ~ popped /\ ~ leftover /\ queue # << >> /\ (promised # {} \/ ~ mFirstPersistence) =>
    queue[1].Id = 1

IInv ==
  /\ TypeOK /\ DiskOK /\ LabelOK /\ Ascending(queue) /\ ItemsOK /\ PromiseOK
  /\ FirstOK /\ StaleIsGone

-----------------------------------------------------------------------------
(* The queue.                                                              *)

\* The name of a new item is above all others, and 1 in an empty queue.
LEMMA NewIdIs ==
  ASSUME NEW q \in Seq(QueueItems), Ascending(q)
  PROVE  /\ NewId(q) \in Nat /\ NewId(q) >= 1 /\ NewId(q) \notin Ids(q)
         /\ \A i \in DOMAIN q : q[i].Id < NewId(q)
         /\ q = << >> => NewId(q) = 1
<1> DEFINE S == Ids(q) \cup {0}
           last == IF q = << >> THEN 0 ELSE q[Len(q)].Id
           P(m) == \A n \in S : n <= m
<1>1. \A i \in DOMAIN q : q[i] \in QueueItems /\ q[i].Id \in Nat
  <2>1. \A item \in QueueItems : item.Id \in 1 .. DEFAULT_QUEUE_MODULO - 1
    BY DEF QueueItems
  <2>2. 1 .. DEFAULT_QUEUE_MODULO - 1 \subseteq Nat
    BY QueueModuloAssumption
  <2>3. \A i \in DOMAIN q : q[i] \in QueueItems
    OBVIOUS
  <2> QED BY <2>1, <2>2, <2>3
<1>2. last \in S /\ \A n \in S : n <= last
  <2>1. CASE q = << >>
    BY <2>1 DEF Ids, Items
  <2>2. CASE q # << >>
    <3>1. Len(q) \in DOMAIN q /\ \A i \in DOMAIN q : i < Len(q) \/ i = Len(q)
      BY <2>2
    <3>2. \A i \in DOMAIN q : q[i].Id <= q[Len(q)].Id
      BY <1>1, <3>1 DEF Ascending
    <3> QED BY <1>1, <2>2, <3>1, <3>2 DEF Ids, Items
  <2> QED BY <2>1, <2>2
<1>3. \E m \in S : P(m)
  BY <1>2
<1> DEFINE c == CHOOSE m \in S : P(m)
<1>4. c \in S /\ P(c)
  BY <1>3
<1>5. S \subseteq Nat
  BY <1>1 DEF Ids, Items
<1>6. NewId(q) = c + 1
  BY DEF NewId
<1>7. \A n \in S : n < NewId(q)
  BY <1>4, <1>5, <1>6
<1>8. \A i \in DOMAIN q : q[i].Id \in S
  BY DEF Ids, Items
<1>9. q = << >> => S = {0}
  BY DEF Ids, Items
<1> QED BY <1>4, <1>5, <1>6, <1>7, <1>8, <1>9

\* QueueAddItem puts a new item behind the others.
LEMMA AddIs ==
  ASSUME NEW q \in Seq(QueueItems), Ascending(q), ~ QueueIsFull(q),
         NEW d, d.CapsuleId \in CapsuleIds, d.CapsuleHash \in Images, d.boot \in Nat
  PROVE  \E new \in QueueItems :
           /\ QueueAddItem(q, d) = Append(q, new)
           /\ new = [Id |-> NewId(q), CapsuleId |-> d.CapsuleId,
                     CapsuleHash |-> d.CapsuleHash, boot |-> d.boot]
           /\ Ascending(Append(q, new))
<1> DEFINE new == [Id |-> NewId(q), CapsuleId |-> d.CapsuleId,
                   CapsuleHash |-> d.CapsuleHash, boot |-> d.boot]
<1>1. /\ NewId(q) \in Nat /\ NewId(q) >= 1 /\ NewId(q) \notin Ids(q)
      /\ \A i \in DOMAIN q : q[i].Id < NewId(q)
  BY NewIdIs
<1>2. new \in QueueItems
  BY <1>1, QueueModuloAssumption DEF QueueItems, QueueIsFull
<1>3. QueueAddItem(q, d) = Append(q, new)
  BY <1>1 DEF QueueAddItem, SetVariable
<1>4. /\ Append(q, new) \in Seq(QueueItems) /\ Len(Append(q, new)) = Len(q) + 1
      /\ DOMAIN q = 1 .. Len(q) /\ DOMAIN Append(q, new) = 1 .. Len(q) + 1 /\ Len(q) \in Nat
      /\ \A i \in 1 .. Len(q) : Append(q, new)[i] = q[i]
      /\ Append(q, new)[Len(q) + 1] = new
  BY <1>2
<1>5. Ascending(Append(q, new))
  <2> SUFFICES ASSUME NEW i \in 1 .. Len(q) + 1, NEW j \in 1 .. Len(q) + 1, i < j
               PROVE  Append(q, new)[i].Id < Append(q, new)[j].Id
    BY <1>4 DEF Ascending
  <2>1. CASE j \in 1 .. Len(q)
    BY <1>4, <2>1 DEF Ascending
  <2>2. CASE j = Len(q) + 1
    <3>1. i \in 1 .. Len(q)
      BY <1>4, <2>2
    <3>2. Append(q, new)[i] = q[i] /\ Append(q, new)[j] = new /\ q[i].Id < NewId(q)
      BY <1>1, <1>4, <2>2, <3>1
    <3> QED BY <3>2
  <2> QED BY <1>4, <2>1, <2>2
<1> QED BY <1>2, <1>3, <1>5

\* The items of a longer queue.
LEMMA AppendItems ==
  ASSUME NEW q \in Seq(QueueItems), NEW new \in QueueItems
  PROVE  /\ Items(Append(q, new)) = Items(q) \cup {new}
         /\ Append(q, new) \in Seq(QueueItems) /\ Append(q, new) # << >>
         /\ Append(q, new)[Len(Append(q, new))] = new
         /\ q # << >> => Append(q, new)[1] = q[1]
         /\ q = << >> => Append(q, new)[1] = new
         /\ Separate(q) /\ (\A item \in Items(q) : item.CapsuleId # new.CapsuleId) =>
              Separate(Append(q, new))
<1> DEFINE r == Append(q, new)
<1>1. /\ r \in Seq(QueueItems) /\ Len(r) = Len(q) + 1 /\ Len(q) \in Nat
      /\ DOMAIN q = 1 .. Len(q) /\ DOMAIN r = 1 .. Len(q) + 1
      /\ \A i \in 1 .. Len(q) : r[i] = q[i]
      /\ r[Len(q) + 1] = new
  OBVIOUS
<1>2. Items(r) = Items(q) \cup {new}
  <2>1. \A i \in 1 .. Len(q) + 1 : i \in 1 .. Len(q) \/ i = Len(q) + 1
    BY <1>1
  <2> QED BY <1>1, <2>1 DEF Items
<1>3. ASSUME Separate(q), \A item \in Items(q) : item.CapsuleId # new.CapsuleId
      PROVE  Separate(r)
  <2> SUFFICES ASSUME NEW i \in 1 .. Len(q) + 1, NEW j \in 1 .. Len(q) + 1, i # j
               PROVE  r[i].CapsuleId # r[j].CapsuleId
    BY <1>1 DEF Separate
  <2>1. \A k \in 1 .. Len(q) : r[k] = q[k] /\ q[k].CapsuleId # new.CapsuleId
    BY <1>1, <1>3 DEF Items
  <2>2. CASE i = Len(q) + 1
    <3>1. j \in 1 .. Len(q)
      BY <1>1, <2>2
    <3> QED BY <1>1, <2>1, <2>2, <3>1
  <2>3. CASE j = Len(q) + 1
    <3>1. i \in 1 .. Len(q)
      BY <1>1, <2>3
    <3> QED BY <1>1, <2>1, <2>3, <3>1
  <2>4. CASE i \in 1 .. Len(q) /\ j \in 1 .. Len(q)
    BY <1>1, <1>3, <2>4 DEF Separate
  <2> QED BY <1>1, <2>2, <2>3, <2>4
<1> QED BY <1>1, <1>2, <1>3

\* The items of a queue without its first.
LEMMA TailItems ==
  ASSUME NEW q \in Seq(QueueItems), q # << >>
  PROVE  /\ Tail(q) \in Seq(QueueItems) /\ Head(q) \in QueueItems
         /\ Items(q) = Items(Tail(q)) \cup {Head(q)}
         /\ Ascending(q) => Ascending(Tail(q))
         /\ Separate(q) => /\ Separate(Tail(q))
                           /\ \A item \in Items(Tail(q)) : item.CapsuleId # Head(q).CapsuleId
<1> DEFINE r == Tail(q)
<1>1. /\ r \in Seq(QueueItems) /\ Len(q) \in Nat /\ Len(q) >= 1 /\ Len(r) = Len(q) - 1
      /\ DOMAIN q = 1 .. Len(q) /\ DOMAIN r = 1 .. Len(q) - 1
      /\ \A i \in 1 .. Len(q) - 1 : r[i] = q[i + 1]
      /\ Head(q) = q[1] /\ q[1] \in QueueItems
  OBVIOUS
<1>2. \A i \in 1 .. Len(q) - 1 : i + 1 \in 1 .. Len(q) /\ i + 1 # 1
  BY <1>1
<1>3. Items(q) = Items(r) \cup {Head(q)}
  <2>1. \A i \in 1 .. Len(q) : i = 1 \/ i - 1 \in 1 .. Len(q) - 1
    BY <1>1
  <2>2. \A i \in 1 .. Len(q) : i # 1 => q[i] = r[i - 1]
    BY <1>1, <2>1
  <2>3. 1 \in 1 .. Len(q)
    BY <1>1
  <2>4. Items(q) \subseteq Items(r) \cup {Head(q)}
    <3> SUFFICES ASSUME NEW i \in 1 .. Len(q) PROVE q[i] \in Items(r) \cup {Head(q)}
      BY <1>1 DEF Items
    <3>1. CASE i = 1
      BY <1>1, <3>1
    <3>2. CASE i # 1
      <4>1. i - 1 \in DOMAIN r /\ q[i] = r[i - 1]
        BY <1>1, <2>1, <2>2, <3>2
      <4> QED BY <4>1 DEF Items
    <3> QED BY <3>1, <3>2
  <2>5. Items(r) \cup {Head(q)} \subseteq Items(q)
    BY <1>1, <1>2, <2>3 DEF Items
  <2> QED BY <2>4, <2>5
<1>4. Ascending(q) => Ascending(r)
  BY <1>1, <1>2 DEF Ascending
<1>5. ASSUME Separate(q)
      PROVE  Separate(r) /\ \A item \in Items(r) : item.CapsuleId # Head(q).CapsuleId
  <2>1. Separate(r)
    BY <1>1, <1>2, <1>5 DEF Separate
  <2>2. \A i \in 1 .. Len(q) - 1 : r[i].CapsuleId # q[1].CapsuleId
    BY <1>1, <1>2, <1>5 DEF Separate
  <2> QED BY <1>1, <2>1, <2>2 DEF Items
<1> QED BY <1>1, <1>3, <1>4, <1>5

-----------------------------------------------------------------------------
(* File numbers.                                                           *)

\* Remainders are file numbers.
LEMMA Remainder ==
  ASSUME NEW n \in Nat
  PROVE  /\ n % CAPSULE_ID_MODULO \in CapsuleIds
         /\ n \in CapsuleIds => n % CAPSULE_ID_MODULO = n
BY CapsuleAssumption DEF CapsuleIds

\* Each attempt yields a file number.
LEMMA AttemptIs ==
  ASSUME TypeOK, NEW k \in Nat
  PROVE  Attempt(k) \in CapsuleIds
<1>1. k * (k + 1) \in Nat
  OBVIOUS
<1>2. (k * (k + 1)) \div 2 \in Nat
  BY <1>1
<1>3. CapsuleNum \in Nat
  BY CapsuleAssumption DEF TypeOK, CapsuleIds
<1>4. CapsuleNum + (k * (k + 1)) \div 2 \in Nat
  BY <1>2, <1>3
<1> QED BY <1>4, Remainder DEF Attempt

\* FindNextFreeCapsuleID gives the number of no file.
LEMMA FreeNumber ==
  ASSUME TypeOK, DiskOK
  PROVE  /\ NextCapsuleNum \in CapsuleIds /\ NextFreeCapsuleID = NextCapsuleNum
         /\ IdAvailable => NextFreeCapsuleID \notin DOMAIN files
<1>1. MAX_ATTEMPTS + 1 \in Nat /\ FreeAttempts \subseteq Nat
  BY CapsuleAssumption DEF FreeAttempts
<1>2. NextCapsuleNum \in CapsuleIds
  <2>1. CASE ~ dir
    BY <2>1 DEF NextCapsuleNum, TypeOK
  <2>2. CASE dir /\ FreeAttempts = {}
    BY <1>1, <2>2, AttemptIs DEF NextCapsuleNum
  <2>3. CASE dir /\ FreeAttempts # {}
    <3>1. PICK k \in FreeAttempts : NextCapsuleNum = Attempt(k)
      BY <2>3 DEF NextCapsuleNum
    <3> QED BY <1>1, <3>1, AttemptIs
  <2> QED BY <2>1, <2>2, <2>3
<1>3. NextCapsuleNum \in Nat
  BY <1>2, CapsuleAssumption DEF CapsuleIds
<1>4. NextFreeCapsuleID = NextCapsuleNum
  BY <1>2, <1>3, Remainder DEF NextFreeCapsuleID
<1>5. IdAvailable => NextCapsuleNum \notin DOMAIN files
  <2>1. CASE ~ dir
    BY <2>1 DEF DiskOK
  <2>2. CASE dir /\ FreeAttempts # {}
    <3>1. PICK k \in FreeAttempts : NextCapsuleNum = Attempt(k)
      BY <2>2 DEF NextCapsuleNum
    <3> QED BY <3>1 DEF FreeAttempts
  <2> QED BY <2>1, <2>2 DEF IdAvailable
<1> QED BY <1>2, <1>4, <1>5

-----------------------------------------------------------------------------
(* The steps.                                                              *)

\* A call that returns without success keeps the invariant.
LEMMA ReturnStep ==
  ASSUME IInv, Return,
         UNCHANGED <<files, queue, mFirstPersistence, taken, promised, popped, leftover, undeleted, boot>>,
         mAfterLocked' \in BOOLEAN, CapsuleNum' \in CapsuleIds, dir' \in {dir, TRUE},
         calls' \in Nat, faults' \in Nat
  PROVE  IInv'
<1>1. TypeOK'
  <2>1. dir' \in BOOLEAN
    BY DEF IInv, TypeOK
  <2>2. rest' \in Seq(Capsules)
    BY DEF Return
  <2> QED BY <2>1, <2>2 DEF IInv, Return, TypeOK
<1>2. DiskOK'
  BY DEF IInv, TypeOK, Return, DiskOK
<1>3. LabelOK'
  BY DEF IInv, TypeOK, Return, LabelOK
<1>4. Ascending(queue)'
  BY DEF IInv, TypeOK, Return, Ascending
<1>5. ItemsOK'
  BY DEF IInv, TypeOK, Return, ItemsOK, Separate, Good, Items
<1>6. PromiseOK'
  BY DEF IInv, TypeOK, Return, PromiseOK, Good, Items
<1>7. FirstOK'
  BY DEF IInv, TypeOK, Return, FirstOK
<1>8. StaleIsGone'
  BY DEF IInv, TypeOK, Return, StaleIsGone, Items
<1> QED BY <1>1, <1>2, <1>3, <1>4, <1>5, <1>6, <1>7, <1>8 DEF IInv

\* UpdateCapsule begins.
LEMMA CallStep ==
  ASSUME IInv, NEW array \in Arrays, NEW sgl \in BOOLEAN, UpdateCapsuleService(array, sgl)
  PROVE  IInv'
<1>1. TypeOK'
  BY CapsuleAssumption DEF IInv, UpdateCapsuleService, At, disk, module, TypeOK
<1>2. DiskOK'
  BY DEF IInv, TypeOK, UpdateCapsuleService, At, disk, module, DiskOK
<1>3. LabelOK'
  BY DEF IInv, TypeOK, UpdateCapsuleService, At, disk, module, LabelOK
<1>4. Ascending(queue)'
  BY DEF IInv, TypeOK, UpdateCapsuleService, At, disk, module, Ascending
<1>5. ItemsOK'
  BY DEF IInv, TypeOK, UpdateCapsuleService, At, disk, module, ItemsOK, Separate, Good, Items
<1>6. PromiseOK'
  BY DEF IInv, TypeOK, UpdateCapsuleService, At, disk, module, PromiseOK, Good, Items
<1>7. FirstOK'
  BY DEF IInv, TypeOK, UpdateCapsuleService, At, disk, module, FirstOK
<1>8. StaleIsGone'
  BY DEF IInv, TypeOK, UpdateCapsuleService, At, disk, module, StaleIsGone, Items
<1> QED BY <1>1, <1>2, <1>3, <1>4, <1>5, <1>6, <1>7, <1>8 DEF IInv

\* The head of the loop.
LEMMA StageStep ==
  ASSUME IInv, StageCapsule
  PROVE  IInv'
<1>1. TypeOK'
  BY DEF IInv, StageCapsule, At, disk, module, TypeOK
<1>2. DiskOK'
  BY DEF IInv, TypeOK, StageCapsule, At, disk, module, DiskOK
<1>3. LabelOK'
  BY DEF IInv, TypeOK, StageCapsule, At, disk, module, LabelOK
<1>4. Ascending(queue)'
  BY DEF IInv, TypeOK, StageCapsule, At, disk, module, Ascending
<1>5. ItemsOK'
  BY DEF IInv, TypeOK, StageCapsule, At, disk, module, ItemsOK, Separate, Good, Items
<1>6. PromiseOK'
  BY DEF IInv, TypeOK, StageCapsule, At, disk, module, PromiseOK, Good, Items
<1>7. FirstOK'
  BY DEF IInv, TypeOK, StageCapsule, At, disk, module, FirstOK
<1>8. StaleIsGone'
  BY DEF IInv, TypeOK, StageCapsule, At, disk, module, StaleIsGone, Items
<1> QED BY <1>1, <1>2, <1>3, <1>4, <1>5, <1>6, <1>7, <1>8 DEF IInv

\* A file of an earlier boot is deleted, or passed.
LEMMA DeleteStep ==
  ASSUME IInv, NEW id \in DOMAIN files, DeleteFile(id)
  PROVE  IInv'
<1>0. /\ pc = "delete" /\ dir /\ mFirstPersistence /\ promised = {} /\ taken = NULL
      /\ files' = Remove(id) \/ files' = files
      /\ undeleted' \in {undeleted, undeleted \cup {id}} /\ faults' \in {faults, faults + 1}
  BY DEF IInv, LabelOK, DeleteFile, At, Fault
<1>a. UNCHANGED <<dir, queue, mAfterLocked, mFirstPersistence, CapsuleNum, pc, rest,
                  ScatterGatherList, InitiateReset, CapsuleId, taken, boot, calls,
                  staged, promised, popped, leftover>>
  BY DEF DeleteFile, module, call
<1>1. TypeOK'
  <2>1. DOMAIN files' \subseteq CapsuleIds /\ files' \in [DOMAIN files' -> Contents]
    BY <1>0 DEF IInv, TypeOK, Remove
  <2>2. undeleted' \subseteq CapsuleIds /\ faults' \in Nat
    BY <1>0 DEF IInv, TypeOK
  <2> QED BY <1>a, <2>1, <2>2 DEF IInv, TypeOK
<1>2. DiskOK'
  BY <1>0, <1>a DEF DiskOK
<1>3. LabelOK'
  BY <1>0, <1>a DEF IInv, LabelOK
<1>4. Ascending(queue)'
  BY <1>a DEF IInv, Ascending
<1>5. ItemsOK'
  BY <1>0, <1>a DEF IInv, ItemsOK, Separate, Items
<1>6. PromiseOK'
  BY <1>0, <1>a DEF IInv, PromiseOK, Items
<1>7. FirstOK'
  BY <1>a DEF IInv, FirstOK
<1>8. StaleIsGone'
  BY <1>0, <1>a DEF StaleIsGone
<1> QED BY <1>1, <1>2, <1>3, <1>4, <1>5, <1>6, <1>7, <1>8 DEF IInv

\* The directory is deleted, or stays.
LEMMA DirectoryStep ==
  ASSUME IInv, DeleteDirectory
  PROVE  IInv'
<1>0. /\ pc = "delete" /\ mFirstPersistence /\ promised = {} /\ taken = NULL /\ rest # << >>
      /\ staged = {} /\ pc' = "clear" /\ DOMAIN files \subseteq undeleted
      /\ faults' \in {faults, faults + 1} /\ dir' \in BOOLEAN /\ (DOMAIN files # {} => dir')
  BY DEF IInv, TypeOK, LabelOK, DiskOK, DeleteDirectory, AllPassed, At, Fault
<1>a. UNCHANGED <<files, queue, mAfterLocked, mFirstPersistence, CapsuleNum, rest,
                  ScatterGatherList, InitiateReset, CapsuleId, taken, boot, calls,
                  staged, promised, popped, leftover, undeleted>>
  BY DEF DeleteDirectory, module
<1>1. TypeOK'
  BY <1>0, <1>a DEF IInv, TypeOK
<1>2. DiskOK'
  BY <1>0, <1>a DEF DiskOK
<1>3. LabelOK'
  BY <1>0, <1>a DEF LabelOK
<1>4. Ascending(queue)'
  BY <1>a DEF IInv, Ascending
<1>5. ItemsOK'
  BY <1>0, <1>a DEF IInv, ItemsOK, Separate, Items
<1>6. PromiseOK'
  BY <1>0, <1>a DEF IInv, PromiseOK, Items
<1>7. FirstOK'
  BY <1>a DEF IInv, FirstOK
<1>8. StaleIsGone'
  BY <1>0, <1>a DEF StaleIsGone
<1> QED BY <1>1, <1>2, <1>3, <1>4, <1>5, <1>6, <1>7, <1>8 DEF IInv

\* An item of an earlier boot is deleted.
LEMMA ClearStep ==
  ASSUME IInv, ClearQueue
  PROVE  IInv'
<1> USE DEF At
<1>0. queue \in Seq(QueueItems) /\ queue # << >> /\ queue' = Tail(queue)
  BY DEF IInv, TypeOK, ClearQueue, QueuePopItem
<1>a. /\ Tail(queue) \in Seq(QueueItems) /\ Head(queue) \in QueueItems
      /\ Items(queue) = Items(Tail(queue)) \cup {Head(queue)}
      /\ Ascending(queue) => Ascending(Tail(queue))
      /\ Separate(queue) => /\ Separate(Tail(queue))
                            /\ \A item \in Items(Tail(queue)) : item.CapsuleId # Head(queue).CapsuleId
  BY <1>0, TailItems
<1>b. Items(queue)' = Items(Tail(queue)) /\ (Separate(queue)' <=> Separate(Tail(queue)))
  BY <1>0 DEF Items, Separate
<1>1. TypeOK'
  BY <1>0, <1>a DEF IInv, TypeOK, ClearQueue, disk, module, call, history
<1>2. DiskOK'
  BY <1>0, <1>a, <1>b DEF IInv, TypeOK, LabelOK, ClearQueue, disk, module, call, history, DiskOK
<1>3. LabelOK'
  BY <1>0 DEF IInv, TypeOK, LabelOK, ClearQueue, disk, module, call, history
<1>4. Ascending(queue)'
  BY <1>0, <1>a DEF IInv, Ascending
<1>5. ItemsOK'
  BY <1>0, <1>a, <1>b DEF IInv, TypeOK, LabelOK, ClearQueue, disk, module, call, history, ItemsOK, Good
<1>6. PromiseOK'
  BY <1>0, <1>a, <1>b DEF IInv, TypeOK, LabelOK, ClearQueue, disk, module, call, history, PromiseOK, Good
<1>7. FirstOK'
  BY <1>0, <1>a, <1>b DEF IInv, TypeOK, LabelOK, ClearQueue, disk, module, call, history, FirstOK
<1>8. StaleIsGone'
  BY <1>0, <1>a, <1>b DEF IInv, TypeOK, LabelOK, ClearQueue, disk, module, call, history, StaleIsGone, Items
<1> QED BY <1>1, <1>2, <1>3, <1>4, <1>5, <1>6, <1>7, <1>8 DEF IInv

\* The loop that clears the queue ends.
LEMMA ClearedStep ==
  ASSUME IInv, QueueCleared
  PROVE  IInv'
<1>0. ~ leftover' => queue' = << >>
  BY DEF QueueCleared
<1>1. TypeOK'
  <2>1. leftover' \in BOOLEAN /\ popped' \in BOOLEAN /\ mFirstPersistence' \in BOOLEAN
    BY DEF QueueCleared
  <2>2. faults' \in Nat
    BY DEF IInv, TypeOK, QueueCleared, Fault
  <2> QED BY <2>1, <2>2 DEF IInv, QueueCleared, disk, TypeOK
<1>2. DiskOK'
  BY DEF IInv, TypeOK, QueueCleared, At, Fault, disk, DiskOK
<1>3. LabelOK'
  BY DEF IInv, TypeOK, LabelOK, QueueCleared, At, disk
<1>4. Ascending(queue)'
  BY DEF IInv, TypeOK, QueueCleared, At, Fault, disk, Ascending
<1>5. ItemsOK'
  <2>1. ~ leftover' => Items(queue') = {} /\ Separate(queue')
    BY <1>0 DEF Items, Separate
  <2>2. taken = NULL /\ pc' = "persist" /\ taken' = taken
    BY DEF IInv, TypeOK, LabelOK, QueueCleared, At
  <2>3. (Separate(queue') <=> Separate(queue)') /\ Items(queue') = Items(queue)'
    BY DEF Separate, Items
  <2> QED BY <2>1, <2>2, <2>3 DEF ItemsOK
<1>6. PromiseOK'
  BY DEF IInv, TypeOK, LabelOK, QueueCleared, At, disk, PromiseOK, Items
<1>7. FirstOK'
  BY DEF IInv, TypeOK, QueueCleared, At, Fault, disk, FirstOK
<1>8. StaleIsGone'
  <2>1. ~ leftover' => Items(queue)' = {}
    BY <1>0 DEF Items
  <2>2. /\ files' = files /\ undeleted' = undeleted /\ DOMAIN files \subseteq undeleted
    BY DEF IInv, LabelOK, QueueCleared, At, disk
  <2> QED BY <2>1, <2>2 DEF StaleIsGone
<1> QED BY <1>1, <1>2, <1>3, <1>4, <1>5, <1>6, <1>7, <1>8 DEF IInv

\* The first item is taken.
LEMMA TakeStep ==
  ASSUME IInv, TakeCapsule
  PROVE  IInv'
<1> USE DEF At
<1>0. queue \in Seq(QueueItems) /\ queue # << >> /\ queue' = Tail(queue)
  BY DEF IInv, TypeOK, TakeCapsule, QueuePopItem
<1>a. /\ Tail(queue) \in Seq(QueueItems) /\ Head(queue) \in QueueItems
      /\ Items(queue) = Items(Tail(queue)) \cup {Head(queue)}
      /\ Ascending(queue) => Ascending(Tail(queue))
      /\ Separate(queue) => /\ Separate(Tail(queue))
                            /\ \A item \in Items(Tail(queue)) : item.CapsuleId # Head(queue).CapsuleId
  BY <1>0, TailItems
<1>b. Items(queue)' = Items(Tail(queue)) /\ (Separate(queue)' <=> Separate(Tail(queue)))
  BY <1>0 DEF Items, Separate
<1>c. ~ leftover' => ~ leftover \/ Tail(queue) = << >>
  BY DEF TakeCapsule
<1>d. Tail(queue) = << >> => Items(Tail(queue)) = {} /\ Separate(Tail(queue))
  BY DEF Items, Separate
<1>1. TypeOK'
  BY <1>0, <1>a DEF IInv, TypeOK, TakeCapsule, disk, module, call
<1>2. DiskOK'
  BY <1>0, <1>a, <1>b DEF IInv, TypeOK, LabelOK, TakeCapsule, disk, module, call, DiskOK
<1>3. LabelOK'
  BY <1>0 DEF IInv, TypeOK, LabelOK, TakeCapsule, disk, module, call
<1>4. Ascending(queue)'
  BY <1>0, <1>a DEF IInv, Ascending
<1>5. ItemsOK'
  <2>1. ~ leftover' => ~ leftover \/ (Items(queue)' = {} /\ Separate(queue)')
    BY <1>b, <1>c, <1>d
  <2>2. taken' = Head(queue) /\ mFirstPersistence' = mFirstPersistence /\ files' = files /\ pc' = "idle"
    BY DEF TakeCapsule, disk, module, call
  <2>3. CASE Items(queue)' = {} /\ Separate(queue)'
    BY <2>3 DEF ItemsOK
  <2>4. CASE ~ leftover
    BY <1>a, <1>b, <2>2, <2>4 DEF IInv, ItemsOK, Good
  <2>5. CASE leftover'
    BY <2>5 DEF ItemsOK
  <2> QED BY <2>1, <2>3, <2>4, <2>5
<1>6. PromiseOK'
  <2>1. promised' = promised \ {Head(queue)} /\ staged' = staged /\ files' = files
    BY DEF TakeCapsule, disk
  <2>2. staged = {}
    BY DEF IInv, LabelOK, TakeCapsule
  <2>3. promised' \subseteq Items(queue)'
    BY <1>a, <1>b, <2>1 DEF IInv, PromiseOK
  <2>4. ~ leftover' => \A item \in promised' : Good(item)'
    BY <1>b, <1>c, <1>d, <2>1, <2>3 DEF IInv, PromiseOK, Good
  <2> QED BY <2>1, <2>2, <2>3, <2>4 DEF PromiseOK
<1>7. FirstOK'
  BY <1>0, <1>a, <1>b DEF IInv, TypeOK, LabelOK, TakeCapsule, disk, module, call, FirstOK
<1>8. StaleIsGone'
  <2>1. UNCHANGED <<mFirstPersistence, files, boot, undeleted>>
    BY DEF TakeCapsule, disk, module
  <2>2. CASE Items(queue)' = {}
    BY <2>1, <2>2 DEF IInv, StaleIsGone
  <2>3. CASE ~ leftover
    BY <1>a, <1>b, <2>1, <2>3 DEF IInv, StaleIsGone
  <2>4. CASE leftover'
    BY <2>1, <2>4 DEF IInv, StaleIsGone
  <2> QED BY <1>b, <1>c, <1>d, <2>2, <2>3, <2>4
<1> QED BY <1>1, <1>2, <1>3, <1>4, <1>5, <1>6, <1>7, <1>8 DEF IInv

\* A file is created under a number of its own.
LEMMA CreateStep ==
  ASSUME IInv, CreateCapsuleFile
  PROVE  IInv'
<1>0. /\ NextCapsuleNum \in CapsuleIds /\ NextFreeCapsuleID = NextCapsuleNum
      /\ IdAvailable => NextFreeCapsuleID \notin DOMAIN files
  BY FreeNumber DEF IInv
<1> DEFINE id == NextFreeCapsuleID
<1>a. /\ pc = "persist" /\ pc' = "write" /\ id \in CapsuleIds /\ id \notin DOMAIN files
      /\ CapsuleNum' = id /\ CapsuleId' = id /\ dir' = TRUE
  BY <1>0 DEF CreateCapsuleFile, At
<1>b. /\ DOMAIN files' = DOMAIN files \cup {id}
      /\ files'[id] = [image |-> Torn, boot |-> boot]
      /\ \A n \in DOMAIN files : files'[n] = files[n]
  BY <1>a DEF CreateCapsuleFile, Put
<1>c. UNCHANGED <<queue, mAfterLocked, mFirstPersistence, rest, ScatterGatherList,
                  InitiateReset, taken, boot, calls, faults, staged, promised, popped, leftover,
                  undeleted>>
  BY DEF CreateCapsuleFile, history
<1> HIDE DEF id
<1>1. TypeOK'
  <2>1. DOMAIN files' \subseteq CapsuleIds
    BY <1>a, <1>b DEF IInv, TypeOK
  <2>2. files' \in [DOMAIN files' -> Contents]
    <3>1. \A n \in DOMAIN files' : files'[n] \in Contents
      BY <1>a, <1>b DEF IInv, TypeOK, Contents
    <3>2. files' = [n \in DOMAIN files' |-> files'[n]]
      BY DEF CreateCapsuleFile, Put
    <3> QED BY <3>1, <3>2
  <2> QED BY <1>a, <1>c, <2>1, <2>2 DEF IInv, TypeOK
<1>2. DiskOK'
  BY <1>a DEF DiskOK
<1>3. LabelOK'
  BY <1>a, <1>b, <1>c DEF IInv, TypeOK, LabelOK
<1>4. Ascending(queue)'
  BY <1>c DEF IInv, Ascending
<1>5. ItemsOK'
  BY <1>a, <1>b, <1>c DEF IInv, TypeOK, LabelOK, ItemsOK, Separate, Good, Items
<1>6. PromiseOK'
  BY <1>a, <1>b, <1>c DEF IInv, TypeOK, PromiseOK, Good, Items
<1>7. FirstOK'
  BY <1>c DEF IInv, FirstOK
<1>8. StaleIsGone'
  BY <1>a, <1>b, <1>c DEF IInv, StaleIsGone, Items
<1> QED BY <1>1, <1>2, <1>3, <1>4, <1>5, <1>6, <1>7, <1>8 DEF IInv

\* The capsule is written.
LEMMA WriteStep ==
  ASSUME IInv, WriteCapsule
  PROVE  IInv'
<1> DEFINE img == Head(rest).image
<1>0. rest \in Seq(Capsules) /\ rest # << >> /\ CapsuleId \in DOMAIN files
  BY DEF IInv, TypeOK, LabelOK, WriteCapsule, At
<1>1a. img \in Images
  <2>1. Head(rest) \in Capsules
    BY <1>0
  <2> QED BY <2>1 DEF Capsules
<1> HIDE DEF img
<1>a. pc = "write" /\ pc' = "queue"
  BY DEF WriteCapsule, At
<1>b. /\ DOMAIN files' = DOMAIN files
      /\ files'[CapsuleId] = [image |-> img, boot |-> boot]
      /\ \A n \in DOMAIN files : n # CapsuleId => files'[n] = files[n]
  BY <1>0 DEF WriteCapsule, Put, img
<1>c. UNCHANGED <<dir, queue, mAfterLocked, mFirstPersistence, CapsuleNum, CapsuleId, rest,
                  ScatterGatherList, InitiateReset, taken, boot, calls, faults, staged, promised,
                  popped, leftover, undeleted>>
  BY DEF WriteCapsule, history, module
<1>1. TypeOK'
  <2>1. DOMAIN files' \subseteq CapsuleIds
    BY <1>a, <1>b DEF IInv, TypeOK
  <2>2. files' \in [DOMAIN files' -> Contents]
    <3>1. \A n \in DOMAIN files' : files'[n] \in Contents
      BY <1>0, <1>1a, <1>b DEF IInv, TypeOK, Contents
    <3>2. files' = [n \in DOMAIN files' |-> files'[n]]
      BY DEF WriteCapsule, Put
    <3> QED BY <3>1, <3>2
  <2> QED BY <1>a, <1>c, <2>1, <2>2 DEF IInv, TypeOK
<1>2. DiskOK'
  BY <1>b, <1>c DEF IInv, DiskOK
<1>3. LabelOK'
  BY <1>a, <1>b, <1>c DEF IInv, TypeOK, LabelOK, img
<1>4. Ascending(queue)'
  BY <1>c DEF IInv, Ascending
<1>5. ItemsOK'
  BY <1>a, <1>b, <1>c DEF IInv, TypeOK, LabelOK, ItemsOK, Separate, Good, Items
<1>6. PromiseOK'
  BY <1>a, <1>b, <1>c DEF IInv, TypeOK, ItemsOK, PromiseOK, Good, Items
<1>7. FirstOK'
  BY <1>c DEF IInv, FirstOK
<1>8. StaleIsGone'
  <2>1. ASSUME NEW n \in DOMAIN files, files[n].boot = boot
        PROVE  n \in DOMAIN files' /\ files'[n].boot = boot
    BY <1>b, <2>1
  <2>2. ASSUME NEW n \in DOMAIN files
        PROVE  files'[n].boot \in {files[n].boot, boot}
    BY <1>b, <2>2
  <2>3. Items(queue)' = Items(queue)
    BY <1>c DEF Items
  <2> QED BY <1>b, <1>c, <2>1, <2>2, <2>3 DEF IInv, StaleIsGone
<1> QED BY <1>1, <1>2, <1>3, <1>4, <1>5, <1>6, <1>7, <1>8 DEF IInv

\* The capsule is added to the queue.
LEMMA AddStep ==
  ASSUME IInv, AddToQueue
  PROVE  IInv'
<1>0. /\ rest \in Seq(Capsules) /\ rest # << >> /\ CapsuleId \in DOMAIN files
      /\ queue \in Seq(QueueItems) /\ Ascending(queue) /\ ~ QueueIsFull(queue)
      /\ CapsuleId \in CapsuleIds /\ boot \in Nat /\ ~ mFirstPersistence
  BY DEF IInv, TypeOK, LabelOK, AddToQueue, At
<1>a. Head(rest).image \in Images /\ Tail(rest) \in Seq(Capsules)
  <2>1. Head(rest) \in Capsules /\ Tail(rest) \in Seq(Capsules)
    BY <1>0
  <2> QED BY <2>1 DEF Capsules
<1>b. /\ Identifier.CapsuleId = CapsuleId /\ Identifier.CapsuleHash = Head(rest).image
      /\ Identifier.boot = boot
  BY DEF Identifier
<1>c. PICK new \in QueueItems :
        /\ QueueAddItem(queue, Identifier) = Append(queue, new)
        /\ new = [Id |-> NewId(queue), CapsuleId |-> CapsuleId,
                  CapsuleHash |-> Head(rest).image, boot |-> boot]
        /\ Ascending(Append(queue, new))
  BY <1>0, <1>a, <1>b, AddIs
<1>d. /\ Items(Append(queue, new)) = Items(queue) \cup {new}
      /\ Append(queue, new) \in Seq(QueueItems) /\ Append(queue, new) # << >>
      /\ Append(queue, new)[Len(Append(queue, new))] = new
      /\ queue # << >> => Append(queue, new)[1] = queue[1]
      /\ queue = << >> => Append(queue, new)[1] = new
      /\ Separate(queue) /\ (\A item \in Items(queue) : item.CapsuleId # new.CapsuleId) =>
           Separate(Append(queue, new))
  BY <1>0, AppendItems
<1>e. queue' = Append(queue, new)
  BY <1>c DEF AddToQueue
<1>f. /\ Items(queue)' = Items(queue) \cup {new}
      /\ Separate(queue)' <=> Separate(Append(queue, new))
      /\ staged' = staged \cup {new}
  BY <1>d, <1>e DEF Items, Separate, AddToQueue
<1>g. /\ pc = "queue" /\ pc' = "next" /\ rest' = Tail(rest) /\ CapsuleId' = NULL
      /\ UNCHANGED <<dir, files, mAfterLocked, mFirstPersistence, CapsuleNum, ScatterGatherList,
                     InitiateReset, taken, boot, calls, faults, promised, popped, leftover, undeleted>>
  BY DEF AddToQueue, At, disk, module
<1>h. /\ taken = NULL /\ Good(new)
      /\ ~ leftover => \A item \in Items(queue) : item.CapsuleId # new.CapsuleId
  BY <1>0, <1>c, <1>g DEF IInv, LabelOK, ItemsOK, Good
<1>1. TypeOK'
  BY <1>a, <1>d, <1>e, <1>f, <1>g DEF IInv, TypeOK
<1>2. DiskOK'
  BY <1>g DEF IInv, DiskOK
<1>3. LabelOK'
  BY <1>0, <1>g, <1>h DEF LabelOK
<1>4. Ascending(queue)'
  BY <1>c, <1>e DEF Ascending
<1>5. ItemsOK'
  BY <1>d, <1>f, <1>g, <1>h DEF IInv, ItemsOK, Good
<1>6. PromiseOK'
  BY <1>f, <1>g DEF IInv, PromiseOK, Good
<1>7. FirstOK'
  <2>1. queue = << >> => new.Id = 1
    BY <1>0, <1>c, NewIdIs
  <2> QED BY <1>0, <1>d, <1>e, <1>g, <2>1 DEF IInv, FirstOK
<1>8. StaleIsGone'
  <2>1. new.boot = boot /\ new.CapsuleId \in DOMAIN files /\ files[new.CapsuleId].boot = boot
    BY <1>0, <1>c, <1>g DEF IInv, LabelOK
  <2> QED BY <1>0, <1>f, <1>g, <2>1 DEF IInv, StaleIsGone
<1> QED BY <1>1, <1>2, <1>3, <1>4, <1>5, <1>6, <1>7, <1>8 DEF IInv

\* A new boot, with promises that hold.
LEMMA FreshStep ==
  ASSUME IInv, Fresh, UNCHANGED <<queue, popped, leftover>>,
         DOMAIN files' = {} \/ dir', DOMAIN files' \subseteq CapsuleIds,
         files' \in [DOMAIN files' -> Contents],
         promised' \subseteq Items(queue), ~ leftover => \A item \in promised' : Good(item)',
         promised' # {} => promised # {} \/ ~ mFirstPersistence,
         dir' \in BOOLEAN, boot' \in Nat, calls' \in Nat, faults' \in Nat
  PROVE  IInv'
<1>1. TypeOK'
  <2>1. CapsuleNum' \in CapsuleIds /\ rest' \in Seq(Capsules)
    BY CapsuleAssumption DEF Fresh, Return, CapsuleIds
  <2>2. promised' \subseteq QueueItems
    BY DEF IInv, TypeOK, Items
  <2> QED BY <2>1, <2>2 DEF IInv, TypeOK, Fresh, Return
<1>2. DiskOK'
  BY DEF DiskOK
<1>3. LabelOK'
  BY DEF Fresh, Return, LabelOK
<1>4. Ascending(queue)'
  BY DEF IInv, Ascending
<1>5. ItemsOK'
  BY DEF IInv, ItemsOK, Separate, Items, Fresh, Return
<1>6. PromiseOK'
  BY DEF IInv, PromiseOK, Good, Items, Fresh, Return
<1>7. FirstOK'
  BY DEF IInv, FirstOK, PromiseOK, Items, Fresh
<1>8. StaleIsGone'
  BY DEF StaleIsGone, Fresh
<1> QED BY <1>1, <1>2, <1>3, <1>4, <1>5, <1>6, <1>7, <1>8 DEF IInv

\* A restart, the file being written in any state.
LEMMA RestartStep ==
  ASSUME IInv, Restart
  PROVE  IInv'
<1>1. /\ Fresh /\ UNCHANGED <<dir, queue, calls, faults, promised, popped, leftover>>
      /\ boot' \in Nat
  BY DEF IInv, TypeOK, Restart
<1>2. /\ DOMAIN files' \subseteq DOMAIN files
      /\ \A n \in DOMAIN files : n \notin DOMAIN files' \/ files'[n] \in Contents
      /\ files' = [n \in DOMAIN files' |-> files'[n]]
      /\ \A n \in DOMAIN files : \/ pc = "write" /\ n = CapsuleId
                                 \/ n \in DOMAIN files' /\ files'[n] = files[n]
  <2>1. files \in [DOMAIN files -> Contents] /\ boot \in Nat /\ rest \in Seq(Capsules)
    BY DEF IInv, TypeOK
  <2>2. CASE pc # "write"
    BY <2>1, <2>2 DEF Restart, Unsynced, At
  <2>3. CASE pc = "write"
    <3>1. CapsuleId \in DOMAIN files /\ Head(rest) \in Capsules
      BY <2>1, <2>3 DEF IInv, LabelOK
    <3>2. [image |-> Head(rest).image, boot |-> boot] \in Contents
      BY <2>1, <3>1 DEF Capsules, Contents
    <3>3. files' \in {Remove(CapsuleId), files, Put(CapsuleId, Head(rest).image)}
      BY <2>3 DEF Restart, Unsynced, At
    <3>4. CASE files' = Remove(CapsuleId)
      BY <2>1, <2>3, <3>4 DEF Remove
    <3>5. CASE files' = files
      BY <2>1, <2>3, <3>5
    <3>6. CASE files' = Put(CapsuleId, Head(rest).image)
      BY <2>1, <2>3, <3>1, <3>2, <3>6 DEF Put
    <3> QED BY <3>3, <3>4, <3>5, <3>6
  <2> QED BY <2>2, <2>3
<1>3. files' \in [DOMAIN files' -> Contents]
  BY <1>2
<1>4. ~ leftover => \A item \in promised' : Good(item)'
  BY <1>1, <1>2 DEF IInv, ItemsOK, PromiseOK, Good
<1>5. DOMAIN files' = {} \/ dir'
  BY <1>1, <1>2 DEF IInv, DiskOK
<1>6. /\ DOMAIN files' \subseteq CapsuleIds /\ promised' \subseteq Items(queue)
      /\ dir' \in BOOLEAN /\ calls' \in Nat /\ faults' \in Nat
  BY <1>1, <1>2 DEF IInv, TypeOK, PromiseOK
<1> QED BY <1>1, <1>3, <1>4, <1>5, <1>6, FreshStep

\* A call has staged all its capsules.
LEMMA EndStep ==
  ASSUME IInv, CallReturns
  PROVE  IInv'
<1>1. /\ promised' \in {promised, promised \cup staged}
      /\ UNCHANGED <<dir, files, queue, calls, faults, popped, leftover>>
  BY DEF CallReturns, disk
<1>2. promised' \subseteq Items(queue)
  BY <1>1 DEF IInv, PromiseOK
<1>3. promised' # {} => promised # {} \/ ~ mFirstPersistence
  BY <1>1 DEF IInv, LabelOK
<1>4. ~ leftover => \A item \in promised' : Good(item)'
  BY <1>1 DEF IInv, LabelOK, ItemsOK, PromiseOK, Good
<1>5. CASE Fresh /\ boot' = boot + 1
  <2>1. /\ boot' \in Nat /\ dir' \in BOOLEAN /\ calls' \in Nat /\ faults' \in Nat
        /\ DOMAIN files' \subseteq CapsuleIds /\ files' \in [DOMAIN files' -> Contents]
        /\ DOMAIN files' = {} \/ dir'
    BY <1>1, <1>5 DEF IInv, TypeOK, DiskOK
  <2> QED BY <1>1, <1>2, <1>3, <1>4, <1>5, <2>1, FreshStep
<1>6. CASE Return /\ UNCHANGED <<module, taken, boot, undeleted>>
  <2>1. TypeOK'
    <3>1. rest' \in Seq(Capsules)
      BY <1>6 DEF Return
    <3>2. promised' \subseteq QueueItems
      BY <1>1 DEF IInv, TypeOK
    <3> QED BY <1>1, <1>6, <3>1, <3>2 DEF IInv, TypeOK, Return, module
  <2>2. DiskOK' /\ Ascending(queue)'
    BY <1>1 DEF IInv, DiskOK, Ascending
  <2>3. LabelOK'
    BY <1>6 DEF IInv, LabelOK, Return
  <2>4. ItemsOK'
    BY <1>1, <1>6 DEF IInv, ItemsOK, Separate, Items, Good, Return, module
  <2>5. PromiseOK'
    BY <1>1, <1>2, <1>4, <1>6 DEF PromiseOK, Items, Return
  <2>6. FirstOK'
    BY <1>1, <1>3, <1>6 DEF IInv, FirstOK, module
  <2>7. StaleIsGone'
    BY <1>1, <1>6 DEF IInv, StaleIsGone, Items, module
  <2> QED BY <2>1, <2>2, <2>3, <2>4, <2>5, <2>6, <2>7 DEF IInv
<1> QED BY <1>5, <1>6 DEF CallReturns

\* The file of the item in hand is deleted.
LEMMA RemoveStep ==
  ASSUME IInv, DeletePersistedCapsuleById
  PROVE  IInv'
<1>0. /\ taken \in QueueItems /\ taken # NULL /\ taken' = NULL /\ pc = "idle"
      /\ UNCHANGED <<dir, queue, mAfterLocked, mFirstPersistence, CapsuleNum, pc, rest,
                     ScatterGatherList, InitiateReset, CapsuleId, boot, calls,
                     staged, promised, popped, leftover, undeleted>>
      /\ faults' \in {faults, faults + 1}
  BY DEF IInv, TypeOK, LabelOK, DeletePersistedCapsuleById, Fault, module, call
<1>a. /\ DOMAIN files' \subseteq DOMAIN files
      /\ \A n \in DOMAIN files' : files'[n] = files[n]
      /\ \A n \in DOMAIN files : n # taken.CapsuleId => n \in DOMAIN files'
      /\ files' \in [DOMAIN files' -> Contents]
  <2>1. files \in [DOMAIN files -> Contents]
    BY DEF IInv, TypeOK
  <2>2. CASE files' = files
    BY <2>1, <2>2
  <2>3. CASE files' = Remove(taken.CapsuleId)
    BY <2>1, <2>3 DEF Remove
  <2> QED BY <2>2, <2>3 DEF DeletePersistedCapsuleById
<1>1. TypeOK'
  BY <1>0, <1>a DEF IInv, TypeOK
<1>2. DiskOK'
  BY <1>0, <1>a DEF IInv, DiskOK
<1>3. LabelOK'
  BY <1>0, <1>a DEF IInv, LabelOK
<1>4. Ascending(queue)'
  BY <1>0, <1>a DEF IInv, Ascending
<1>5. ItemsOK'
  BY <1>0, <1>a DEF IInv, ItemsOK, Separate, Items, Good
<1>6. PromiseOK'
  BY <1>0, <1>a DEF IInv, ItemsOK, PromiseOK, Items, Good
<1>7. FirstOK'
  BY <1>0, <1>a DEF IInv, FirstOK
<1>8. StaleIsGone'
  <2>1. Items(queue)' = Items(queue)
    BY <1>0 DEF Items
  <2>2. ~ leftover => \A item \in Items(queue) : item.CapsuleId # taken.CapsuleId
    BY <1>0 DEF IInv, ItemsOK
  <2> QED BY <1>0, <1>a, <2>1, <2>2 DEF IInv, StaleIsGone
<1> QED BY <1>1, <1>2, <1>3, <1>4, <1>5, <1>6, <1>7, <1>8 DEF IInv

\* The first item is not taken.
LEMMA NoTakeStep ==
  ASSUME IInv, TakeFails
  PROVE  IInv'
<1>1. /\ faults' \in Nat
      /\ UNCHANGED <<dir, files, queue, mAfterLocked, mFirstPersistence, CapsuleNum, pc, rest,
                     ScatterGatherList, InitiateReset, CapsuleId, taken, boot, calls, staged,
                     promised, popped, leftover, undeleted>>
  BY DEF IInv, TypeOK, TakeFails, Fault, disk, module, call
<1>2. TypeOK'
  BY <1>1 DEF IInv, TypeOK
<1>3. DiskOK' /\ LabelOK' /\ Ascending(queue)' /\ FirstOK'
  BY <1>1 DEF IInv, DiskOK, LabelOK, Ascending, FirstOK
<1>4. ItemsOK' /\ PromiseOK' /\ StaleIsGone'
  BY <1>1 DEF IInv, ItemsOK, Separate, PromiseOK, Good, Items, StaleIsGone
<1> QED BY <1>2, <1>3, <1>4 DEF IInv

\* ExitBootServices.
LEMMA LockStep ==
  ASSUME IInv, LockCapsuleInterface
  PROVE  IInv'
<1>1. TypeOK'
  BY DEF IInv, LockCapsuleInterface, disk, call, history, TypeOK
<1>2. DiskOK'
  BY DEF IInv, TypeOK, LockCapsuleInterface, disk, call, history, DiskOK
<1>3. LabelOK'
  BY DEF IInv, TypeOK, LockCapsuleInterface, disk, call, history, LabelOK
<1>4. Ascending(queue)'
  BY DEF IInv, TypeOK, LockCapsuleInterface, disk, call, history, Ascending
<1>5. ItemsOK'
  BY DEF IInv, TypeOK, LockCapsuleInterface, disk, call, history, ItemsOK, Separate, Good, Items
<1>6. PromiseOK'
  BY DEF IInv, TypeOK, LockCapsuleInterface, disk, call, history, PromiseOK, Good, Items
<1>7. FirstOK'
  BY DEF IInv, TypeOK, LockCapsuleInterface, disk, call, history, FirstOK
<1>8. StaleIsGone'
  BY DEF IInv, TypeOK, LockCapsuleInterface, disk, call, history, StaleIsGone, Items
<1> QED BY <1>1, <1>2, <1>3, <1>4, <1>5, <1>6, <1>7, <1>8 DEF IInv

-----------------------------------------------------------------------------
(* The theorems.                                                           *)

\* The invariant holds at first.
LEMMA InitHolds == Init => IInv
<1> SUFFICES ASSUME Init PROVE IInv
  OBVIOUS
<1>1. DOMAIN files = {} /\ queue = << >> /\ Items(queue) = {} /\ rest \in Seq(Capsules)
  BY DEF Init, Items
<1>2. TypeOK
  <2>1. CapsuleNum \in CapsuleIds /\ queue \in Seq(QueueItems)
    BY CapsuleAssumption DEF Init, CapsuleIds
  <2>2. files \in [DOMAIN files -> Contents]
    BY <1>1 DEF Init
  <2> QED BY <1>1, <2>1, <2>2 DEF Init, TypeOK
<1>3. DiskOK /\ Ascending(queue) /\ Separate(queue)
  BY <1>1 DEF DiskOK, Ascending, Separate
<1>4. LabelOK /\ ItemsOK /\ PromiseOK /\ FirstOK /\ StaleIsGone
  BY <1>1, <1>3 DEF Init, LabelOK, ItemsOK, PromiseOK, FirstOK, StaleIsGone
<1> QED BY <1>2, <1>3, <1>4 DEF IInv

\* Every step keeps it.
LEMMA StepHolds == IInv /\ [Next]_vars => IInv'
<1> SUFFICES ASSUME IInv, [Next]_vars PROVE IInv'
  OBVIOUS
<1>t. calls \in Nat /\ faults \in Nat /\ mAfterLocked \in BOOLEAN /\ CapsuleNum \in CapsuleIds
  BY DEF IInv, TypeOK
<1>1. CASE UNCHANGED vars
  BY <1>1 DEF vars, disk, module, call, history, IInv, TypeOK, DiskOK, LabelOK, Ascending,
     ItemsOK, Separate, PromiseOK, Good, Items, FirstOK, StaleIsGone
<1>2. ASSUME NEW array \in Arrays, UpdateCapsuleRefused(array) PROVE IInv'
  BY <1>1, <1>2 DEF UpdateCapsuleRefused
<1>3. ASSUME NEW array \in Arrays, NEW sgl \in BOOLEAN, UpdateCapsuleService(array, sgl) PROVE IInv'
  BY <1>3, CallStep
<1>4. CASE StageCapsule
  BY <1>4, StageStep
<1>5. CASE RefuseCapsule
  BY <1>t, <1>5, ReturnStep DEF RefuseCapsule, disk, module
<1>6. ASSUME NEW id \in DOMAIN files, DeleteFile(id) PROVE IInv'
  BY <1>6, DeleteStep
<1>7. CASE DeleteDirectory
  BY <1>7, DirectoryStep
<1>8. CASE DeleteFails
  BY <1>t, <1>8, ReturnStep DEF DeleteFails, Fault, disk, module
<1>9. CASE ClearQueue
  BY <1>9, ClearStep
<1>10. CASE QueueCleared
  BY <1>10, ClearedStep
<1>11. CASE CreateCapsuleFile
  BY <1>11, CreateStep
<1>12. CASE CreateRefused
  <2>1. CapsuleNum' \in CapsuleIds
    BY <1>t, <1>12, FreeNumber DEF IInv, CreateRefused
  <2> QED BY <1>t, <1>12, <2>1, ReturnStep DEF CreateRefused, disk
<1>13. CASE CreateFails
  <2>1. CapsuleNum' \in CapsuleIds
    BY <1>13, FreeNumber DEF IInv, CreateFails
  <2>2. /\ Return /\ dir' \in {dir, TRUE} /\ calls' \in Nat /\ mAfterLocked' \in BOOLEAN
        /\ UNCHANGED <<files, queue, mFirstPersistence, taken, promised, popped, leftover, undeleted, boot>>
    BY <1>t, <1>13 DEF CreateFails
  <2>3. faults' \in Nat
    BY <1>t, <1>13 DEF CreateFails, Fault
  <2> QED BY <2>1, <2>2, <2>3, ReturnStep
<1>14. CASE WriteCapsule
  BY <1>14, WriteStep
<1>15. CASE WriteFails
  BY <1>t, <1>15, ReturnStep DEF WriteFails, Fault, disk, module
<1>16. CASE AddToQueue
  BY <1>16, AddStep
<1>17. CASE AddFails
  BY <1>t, <1>17, ReturnStep DEF AddFails, Fault, disk, module
<1>18. CASE CallReturns
  BY <1>18, EndStep
<1>19. CASE LockCapsuleInterface
  BY <1>19, LockStep
<1>20. CASE Restart
  BY <1>20, RestartStep
<1>21. CASE TakeCapsule
  BY <1>21, TakeStep
<1>22. CASE DeletePersistedCapsuleById
  BY <1>22, RemoveStep
<1>23. CASE TakeFails
  BY <1>23, NoTakeStep
<1> QED BY <1>1, <1>2, <1>3, <1>4, <1>5, <1>6, <1>7, <1>8, <1>9, <1>10, <1>11, <1>12, <1>13,
           <1>14, <1>15, <1>16, <1>17, <1>18, <1>19, <1>20, <1>21, <1>22, <1>23 DEF Next

\* The inductive invariant holds throughout, the type invariant with it: no
\* file number and no item name leaves its range.
THEOREM CapsuleInvariant == Spec => []IInv
<1>1. Init => IInv
  BY InitHolds
<1>2. IInv /\ [Next]_vars => IInv'
  BY StepHolds
<1> QED BY <1>1, <1>2, PTL DEF Spec

\* For any moduli and any number of boots, calls and failures, the number that
\* FindNextFreeCapsuleID gives names no file, and without leftovers no two items
\* name one file.
THEOREM NumbersAreUnique == Spec => []IdsAreUnique
<1>1. IInv => IdsAreUnique
  <2> SUFFICES ASSUME IInv PROVE IdsAreUnique
    OBVIOUS
  <2>1. IdAvailable => NextFreeCapsuleID \notin DOMAIN files
    BY FreeNumber DEF IInv
  <2>2. ~ leftover => Separate(queue)
    BY DEF IInv, ItemsOK
  <2> QED BY <2>1, <2>2 DEF IdsAreUnique, Separate
<1> QED BY <1>1, CapsuleInvariant, PTL

\* For any moduli and any number of boots, calls and failures, a capsule that
\* UpdateCapsule accepted can be fetched until it is taken or withdrawn.
THEOREM PromisesAreKept == Spec => []PromisedIsDeliverable
<1>1. IInv => PromisedIsDeliverable
  <2> SUFFICES ASSUME IInv, ~ leftover, NEW item \in promised
               PROVE  item \in Items(queue) /\ GrabPersistedCapsule(item) = "SUCCESS"
    BY DEF PromisedIsDeliverable
  <2>1. item \in Items(queue) /\ Good(item) /\ item \in QueueItems
    BY DEF IInv, PromiseOK, TypeOK
  <2>2. item.CapsuleHash # Torn
    BY <2>1, CapsuleAssumption DEF QueueItems
  <2> QED BY <2>1, <2>2 DEF Good, GrabPersistedCapsule
<1> QED BY <1>1, CapsuleInvariant, PTL

\* For any moduli and any number of boots, calls and failures, CheckCapsuleUpdate
\* finds the promised capsules as long as processing has not stopped half way.
THEOREM PromisesAreSeen == Spec => []PromisedIsSeen
<1>1. IInv => PromisedIsSeen
  <2> SUFFICES ASSUME IInv, promised # {}, ~ popped, ~ leftover PROVE CheckCapsuleUpdate
    BY DEF PromisedIsSeen
  <2>1. Items(queue) # {} /\ queue \in Seq(QueueItems)
    BY DEF IInv, PromiseOK, TypeOK
  <2>2. queue # << >> /\ 1 \in DOMAIN queue
    BY <2>1 DEF Items
  <2>3. queue[1].Id = 1 /\ queue[1] \in Items(queue)
    BY <2>2 DEF IInv, FirstOK, Items
  <2> QED BY <2>3 DEF CheckCapsuleUpdate, Ids
<1> QED BY <1>1, CapsuleInvariant, PTL

\* For any moduli and any number of boots, calls and failures, the first capsule
\* of a boot leaves no file of an earlier one but those whose deletion only drew a
\* warning, and without leftovers these are in no item.
THEOREM NothingStale == Spec => []StaleIsGone
<1>1. IInv => StaleIsGone
  BY DEF IInv
<1> QED BY <1>1, CapsuleInvariant, PTL
=============================================================================
