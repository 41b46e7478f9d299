----------------------------- MODULE DfciProofs -----------------------------
(***************************************************************************)
(* UsersHaveOwner for every set of batches and any number of faults.  The  *)
(* difficulty is the stale bit: a restore may leave OWNER in               *)
(* PopulatedIdentities without a certificate, and the guard against users  *)
(* without an owner looks at the bit.  What saves the store is that no     *)
(* identity is enrolled while the bit is stale, because the first packet   *)
(* of the round has been tried by then and aborts every later round.       *)
(***************************************************************************)
EXTENDS DfciManager, SequenceTheorems, TLAPS

\* Step i processes a packet that is there, and is the first step that does.
Enrolling(i) == i \in 1..4 /\ Needed(i, mManagerData, mailbox)
IsFirst(i)   == Enrolling(i) /\ \A k \in 1..(i - 1) : ~Enrolling(k)

\* The packet of step i has been through ProcessPacket, or did not decode.
Tried(i) == mManagerData[Program[i][2]].State # "PRESENT"

Stale == /\ "OWNER" \in mInternalCertStore.PopulatedIdentities
         /\ mInternalCertStore.Certs["OWNER"] = NoCert

Starting == stage \in {"CertStore", "Permissions", "Entry"}

OwnerFirst(certs) == certs["USER"] # NoCert => certs["OWNER"] # NoCert

\* Identity packets have the fields of one, and only a decoded packet is PRESENT.
DataOK ==
  /\ \A b \in IdentityBoxes : mailbox[b] \in {NoPacket} \cup IdentityPackets
  /\ \A b \in IdentityBoxes : mManagerData[b].Packet \in {NoPacket} \cup IdentityPackets
  /\ \A b \in Boxes : mManagerData[b].State = "PRESENT" => mManagerData[b].Packet.decodes
  /\ \A b \in Boxes : mManagerData[b].State = "PRESENT" => Present(mManagerData[b])

KeysOK == /\ OwnerFirst(mInternalCertStore.Certs)
          /\ \A certs \in ipcvn : OwnerFirst(certs)

\* The order of a round.
OrderOK ==
  /\ pc \in 1..4 => Enrolling(pc)
  /\ \A i \in 1..4 : IsFirst(i) /\ pc > i => Tried(i)
  /\ \A i \in 1..4 : IsFirst(i) /\ Stale => Tried(i) /\ (pc \in 1..4 => pc <= i)

\* Before DfciManager starts there are no packets in memory.
StartOK == /\ Starting => pc = 0 /\ ~Stale /\ \A b \in Boxes : ~Present(mManagerData[b])
           /\ stage = "CertStore" => mInternalCertStore = InitialStore

IInv == TypeOK /\ DataOK /\ KeysOK /\ OrderOK /\ StartOK

-----------------------------------------------------------------------------
(* The shape of Program: four steps that process, and none after them.     *)

Ops == {"process", "delete", "lkg", "result", "settings", "settingsResult", "settingsSave",
        "settingsDelete", "unenroll", "clearSettings", "clearPermissions", "deleteKeys",
        "initializeKeys", "deleteAll", "exit"}
Kinds == {"enroll", "unenroll", "clearing", "settings", "success", "mailbox", "always"}
Triples == {<<op, b, kind>> : op \in Ops, b \in Boxes, kind \in Kinds}

Later(t, n) == t \in Seq(Triples) /\ Len(t) = n /\ \A i \in 1..n : t[i][1] # "process"

Shape(s, n) ==
  /\ s \in Seq(Triples) /\ Len(s) = n /\ n \in Nat /\ n >= 4
  /\ s[1] = <<"process", "IDENTITY", "enroll">> /\ s[2] = <<"process", "PERMISSIONS", "enroll">>
  /\ s[3] = <<"process", "IDENTITY2", "enroll">> /\ s[4] = <<"process", "PERMISSIONS2", "enroll">>
  /\ \A i \in 5..n : s[i][1] # "process"

\* What concatenation yields.
LEMMA Concat ==
  ASSUME NEW s \in Seq(Triples), NEW t \in Seq(Triples)
  PROVE  /\ s \o t \in Seq(Triples) /\ Len(s \o t) = Len(s) + Len(t)
         /\ \A i \in 1..Len(s) : (s \o t)[i] = s[i]
         /\ \A i \in (Len(s) + 1)..(Len(s) + Len(t)) :
              i - Len(s) \in 1..Len(t) /\ (s \o t)[i] = t[i - Len(s)]
<1>1. s \o t \in Seq(Triples) /\ Len(s \o t) = Len(s) + Len(t)
  OBVIOUS
<1>2. \A i \in 1..Len(s) + Len(t) : (s \o t)[i] = IF i <= Len(s) THEN s[i] ELSE t[i - Len(s)]
  BY ConcatProperties, Zenon
<1>3. Len(s) \in Nat /\ Len(t) \in Nat
  OBVIOUS
<1>4. ASSUME NEW i \in 1..Len(s) PROVE (s \o t)[i] = s[i]
  BY <1>2, <1>3
<1>5. ASSUME NEW i \in (Len(s) + 1)..(Len(s) + Len(t))
      PROVE  i - Len(s) \in 1..Len(t) /\ (s \o t)[i] = t[i - Len(s)]
  BY <1>2, <1>3
<1> QED BY <1>1, <1>4, <1>5

\* Steps that follow keep the shape.
LEMMA ShapeConcat ==
  ASSUME NEW s, NEW t, NEW m \in Nat, NEW n \in Nat, Shape(s, m), Later(t, n)
  PROVE  Shape(s \o t, m + n)
<1>0. s \in Seq(Triples) /\ t \in Seq(Triples) /\ Len(s) = m /\ Len(t) = n
  BY DEF Shape, Later
<1>1. /\ s \o t \in Seq(Triples) /\ Len(s \o t) = m + n
      /\ \A i \in 1..m : (s \o t)[i] = s[i]
      /\ \A i \in (m + 1)..(m + n) : i - m \in 1..n /\ (s \o t)[i] = t[i - m]
  BY <1>0, Concat, Zenon
<1>2. ASSUME NEW i \in 5..(m + n) PROVE (s \o t)[i][1] # "process"
  <2>1. CASE i \in 5..m
    <3>1. i \in 1..m
      BY <2>1
    <3> QED BY <1>1, <2>1, <3>1 DEF Shape
  <2>2. CASE i \in (m + 1)..(m + n)
    BY <1>1, <2>2 DEF Later
  <2>3. i \in 5..m \/ i \in (m + 1)..(m + n)
    OBVIOUS
  <2> QED BY <2>1, <2>2, <2>3
<1>3. m >= 4 /\ m + n >= 4 /\ m + n \in Nat
  BY DEF Shape
<1>4. \A i \in {1, 2, 3, 4} : (s \o t)[i] = s[i]
  BY <1>1, <1>3
<1> QED BY <1>1, <1>2, <1>3, <1>4 DEF Shape

LEMMA LaterConcat ==
  ASSUME NEW s, NEW t, NEW m \in Nat, NEW n \in Nat, Later(s, m), Later(t, n)
  PROVE  Later(s \o t, m + n)
<1>0. s \in Seq(Triples) /\ t \in Seq(Triples) /\ Len(s) = m /\ Len(t) = n
  BY DEF Later
<1>1. /\ s \o t \in Seq(Triples) /\ Len(s \o t) = m + n
      /\ \A i \in 1..m : (s \o t)[i] = s[i]
      /\ \A i \in (m + 1)..(m + n) : i - m \in 1..n /\ (s \o t)[i] = t[i - m]
  BY <1>0, Concat, Zenon
<1>2. ASSUME NEW i \in 1..(m + n) PROVE (s \o t)[i][1] # "process"
  <2>1. CASE i \in 1..m
    BY <1>1, <2>1 DEF Later
  <2>2. CASE i \in (m + 1)..(m + n)
    BY <1>1, <2>2 DEF Later
  <2>3. i \in 1..m \/ i \in (m + 1)..(m + n)
    OBVIOUS
  <2> QED BY <2>1, <2>2, <2>3
<1> QED BY <1>1, <1>2 DEF Later

\* The parts of Program.
LEMMA CompleteLater ==
  ASSUME NEW b \in Boxes, NEW kind \in Kinds
  PROVE  Later(CompletePacket(b, kind), 3)
<1>1. \A op \in {"delete", "lkg", "result"} : <<op, b, kind>> \in Triples
  BY DEF Triples, Ops
<1>2. CompletePacket(b, kind) \in Seq(Triples)
  BY <1>1 DEF CompletePacket
<1> QED BY <1>2 DEF Later, CompletePacket

LEMMA SettingsLater == ASSUME NEW b \in Boxes PROVE Later(SettingsSteps(b), 4)
<1>1. /\ <<"settings", b, "settings">> \in Triples /\ <<"settingsResult", b, "settings">> \in Triples
      /\ <<"settingsSave", b, "success">> \in Triples
      /\ <<"settingsDelete", b, "settings">> \in Triples
  BY DEF Triples, Ops, Kinds
<1>2. SettingsSteps(b) \in Seq(Triples)
  BY <1>1 DEF SettingsSteps
<1> QED BY <1>2 DEF Later, SettingsSteps

LEMMA UnenrollLater == ASSUME NEW b \in Boxes PROVE Later(UnenrollSteps(b), 8)
<1> DEFINE clear == << <<"unenroll", b, "unenroll">>, <<"clearSettings", b, "clearing">>,
                       <<"clearPermissions", b, "clearing">>, <<"deleteKeys", b, "clearing">>,
                       <<"initializeKeys", b, "clearing">> >>
<1>1. /\ <<"unenroll", b, "unenroll">> \in Triples /\ <<"clearSettings", b, "clearing">> \in Triples
      /\ <<"clearPermissions", b, "clearing">> \in Triples
      /\ <<"deleteKeys", b, "clearing">> \in Triples /\ <<"initializeKeys", b, "clearing">> \in Triples
  BY DEF Triples, Ops, Kinds
<1>2. clear \in Seq(Triples)
  BY <1>1
<1>3. Later(clear, 5)
  BY <1>2 DEF Later
<1>4. Later(CompletePacket(b, "unenroll"), 3)
  BY CompleteLater DEF Kinds
<1>5. UnenrollSteps(b) = clear \o CompletePacket(b, "unenroll")
  BY DEF UnenrollSteps
<1> HIDE DEF clear
<1>6. Later(clear \o CompletePacket(b, "unenroll"), 5 + 3)
  BY <1>3, <1>4, LaterConcat
<1> QED BY <1>5, <1>6

LEMMA DeleteLater == Later(DeleteAllMailboxes, 6)
<1>1. \A b \in Boxes : <<"deleteAll", b, "mailbox">> \in Triples
  BY DEF Triples, Ops, Kinds
<1>2. DeleteAllMailboxes \in Seq(Triples)
  BY <1>1 DEF DeleteAllMailboxes, Boxes, LkgBoxes, IdentityBoxes, PermissionBoxes, SettingsBoxes
<1> QED BY <1>2 DEF Later, DeleteAllMailboxes

LEMMA ProgramShape == Shape(Program, 47) /\ FINAL_EXIT = 41
<1> DEFINE p0 == << <<"process", "IDENTITY", "enroll">>, <<"process", "PERMISSIONS", "enroll">>,
                    <<"process", "IDENTITY2", "enroll">>, <<"process", "PERMISSIONS2", "enroll">> >>
           p1 == p0 \o CompletePacket("PERMISSIONS2", "enroll")
           p2 == p1 \o CompletePacket("PERMISSIONS", "enroll")
           p3 == p2 \o CompletePacket("IDENTITY", "enroll")
           p4 == p3 \o CompletePacket("IDENTITY2", "enroll")
           p5 == p4 \o SettingsSteps("SETTINGS")
           p6 == p5 \o SettingsSteps("SETTINGS2")
           p7 == p6 \o UnenrollSteps("IDENTITY2")
           p8 == p7 \o UnenrollSteps("IDENTITY")
           p9 == p8 \o DeleteAllMailboxes
           last == << <<"exit", "SETTINGS2", "always">> >>
<1>b. /\ "IDENTITY" \in Boxes /\ "IDENTITY2" \in Boxes /\ "PERMISSIONS" \in Boxes
      /\ "PERMISSIONS2" \in Boxes /\ "SETTINGS" \in Boxes /\ "SETTINGS2" \in Boxes
  BY DEF Boxes, LkgBoxes, IdentityBoxes, PermissionBoxes, SettingsBoxes
<1>k. "enroll" \in Kinds
  BY DEF Kinds
<1>p. Program = p9 \o last
  BY DEF Program
<1>0. Shape(p0, 4)
  <2>1. \A b \in Boxes : <<"process", b, "enroll">> \in Triples
    BY DEF Triples, Ops, Kinds
  <2>2. p0 \in Seq(Triples)
    BY <2>1, <1>b
  <2> QED BY <2>2 DEF Shape
<1>e. Later(last, 1)
  <2>1. <<"exit", "SETTINGS2", "always">> \in Triples
    BY <1>b DEF Triples, Ops, Kinds
  <2>2. last \in Seq(Triples)
    BY <2>1
  <2> QED BY <2>2 DEF Later
<1> HIDE DEF p0, last
<1>1. Shape(p1, 4 + 3)
  BY <1>0, <1>b, <1>k, CompleteLater, ShapeConcat
<1> HIDE DEF p1
<1>2. Shape(p2, 7 + 3)
  BY <1>1, <1>b, <1>k, CompleteLater, ShapeConcat
<1> HIDE DEF p2
<1>3. Shape(p3, 10 + 3)
  BY <1>2, <1>b, <1>k, CompleteLater, ShapeConcat
<1> HIDE DEF p3
<1>4. Shape(p4, 13 + 3)
  BY <1>3, <1>b, <1>k, CompleteLater, ShapeConcat
<1> HIDE DEF p4
<1>5. Shape(p5, 16 + 4)
  BY <1>4, <1>b, SettingsLater, ShapeConcat
<1> HIDE DEF p5
<1>6. Shape(p6, 20 + 4)
  BY <1>5, <1>b, SettingsLater, ShapeConcat
<1> HIDE DEF p6
<1>7. Shape(p7, 24 + 8)
  BY <1>6, <1>b, UnenrollLater, ShapeConcat
<1> HIDE DEF p7
<1>8. Shape(p8, 32 + 8)
  BY <1>7, <1>b, UnenrollLater, ShapeConcat
<1> HIDE DEF p8
<1>9. Shape(p9, 40 + 6)
  BY <1>8, DeleteLater, ShapeConcat
<1> HIDE DEF p9
<1>10. Shape(Program, 46 + 1)
  BY <1>9, <1>e, <1>p, ShapeConcat
<1>11. Len(Program) = 47 /\ Len(DeleteAllMailboxes) = 6
  BY <1>10, DeleteLater DEF Shape, Later
<1> QED BY <1>10, <1>11 DEF FINAL_EXIT

LEMMA Steps ==
  /\ Len(Program) = 47
  /\ \A i \in 1..4 : Program[i][1] = "process" /\ Program[i][3] = "enroll"
  /\ \A i \in 5..47 : Program[i][1] # "process"
  /\ \A i \in 1..47 : Program[i][2] \in Boxes
<1>1. Shape(Program, 47)
  BY ProgramShape
<1>2. ASSUME NEW i \in 1..4 PROVE Program[i][1] = "process" /\ Program[i][3] = "enroll"
  <2>0. /\ Program[1] = <<"process", "IDENTITY", "enroll">>
        /\ Program[2] = <<"process", "PERMISSIONS", "enroll">>
        /\ Program[3] = <<"process", "IDENTITY2", "enroll">>
        /\ Program[4] = <<"process", "PERMISSIONS2", "enroll">>
    BY <1>1 DEF Shape
  <2>1. CASE i = 1
    BY <2>0, <2>1
  <2>2. CASE i = 2
    BY <2>0, <2>2
  <2>3. CASE i = 3
    BY <2>0, <2>3
  <2>4. CASE i = 4
    BY <2>0, <2>4
  <2> QED BY <2>1, <2>2, <2>3, <2>4
<1>3. ASSUME NEW i \in 1..47 PROVE Program[i][2] \in Boxes
  <2>1. Program \in Seq(Triples) /\ i \in 1..Len(Program)
    BY <1>1 DEF Shape
  <2>2. Program[i] \in Triples
    BY <2>1
  <2> QED BY <2>2 DEF Triples
<1> QED BY <1>1, <1>2, <1>3 DEF Shape

-----------------------------------------------------------------------------
(* The order of a round is kept.                                           *)

\* Whether step i enrolls depends on the packet alone.
LEMMA EnrollingIs ==
  ASSUME NEW i \in 1..4
  PROVE  LET b == Program[i][2]
             d == mManagerData[b]
         IN  Enrolling(i) <=> Present(d) /\ ~Unenroll(b, d)
BY Steps DEF Enrolling, Needed

LEMMA EnrollingKept ==
  ASSUME \A b \in Boxes : mManagerData'[b].Packet = mManagerData[b].Packet
  PROVE  \A i \in 1..4 : (Enrolling(i)' <=> Enrolling(i)) /\ (IsFirst(i)' <=> IsFirst(i))
<1>1. ASSUME NEW i \in 1..4 PROVE Enrolling(i)' <=> Enrolling(i)
  <2>1. Program[i][2] \in Boxes /\ Program[i][3] = "enroll"
    BY Steps
  <2>2. \A b \in Boxes : /\ Present(mManagerData'[b]) <=> Present(mManagerData[b])
                         /\ Unenroll(b, mManagerData'[b]) <=> Unenroll(b, mManagerData[b])
    BY DEF Present, Unenroll
  <2> QED BY <2>1, <2>2 DEF Enrolling, Needed
<1>2. ASSUME NEW i \in 1..4 PROVE IsFirst(i)' <=> IsFirst(i)
  <2>1. \A k \in 1..(i - 1) : k \in 1..4
    OBVIOUS
  <2> QED BY <1>1, <2>1 DEF IsFirst
<1> QED BY <1>1, <1>2

\* A step may change the state of packets, but makes none PRESENT.
DataKept == \A b \in Boxes : /\ mManagerData'[b].Packet = mManagerData[b].Packet
                             /\ mManagerData'[b].State = "PRESENT"
                                  => mManagerData[b].State = "PRESENT"

LEMMA TriedKept == ASSUME DataKept, NEW i \in 1..4, Tried(i) PROVE Tried(i)'
BY Steps DEF DataKept, Tried

\* After the packets are processed, and between rounds.
LEMMA LaterStep ==
  ASSUME IInv, DataKept, pc \in 5..47, pc' \in {0} \cup 5..47
  PROVE  OrderOK'
<1>1. ASSUME NEW i \in 1..4, IsFirst(i)' PROVE Tried(i)'
  <2>1. IsFirst(i) /\ pc > i
    BY <1>1, EnrollingKept DEF DataKept
  <2> QED BY <2>1, TriedKept DEF IInv, OrderOK
<1>2. ~(pc' \in 1..4)
  OBVIOUS
<1> QED BY <1>1, <1>2 DEF OrderOK

\* Where Goto leads.
LEMMA GotoIs ==
  ASSUME NEW i \in Nat, Goto(i)
  PROVE  /\ pc' \in i..47 /\ pc' \in Int
         /\ (pc \in 1..4 => Enrolling(pc))'
         /\ \A k \in i..(pc' - 1) : k \in 1..4 => ~Enrolling(k)'
<1>1. /\ pc' \in i..47 /\ Needed(pc', mManagerData', mailbox')
      /\ \A k \in i..(pc' - 1) : ~Needed(k, mManagerData', mailbox')
  BY Steps DEF Goto
<1>2. pc' \in Int
  BY <1>1
<1> QED BY <1>1, <1>2 DEF Enrolling

\* A round begins.
LEMMA BeginStep ==
  ASSUME IInv, pc = 0, UNCHANGED <<mManagerData, mInternalCertStore>>, Goto(1)
  PROVE  OrderOK'
<1>1. /\ pc' \in 1..47 /\ (pc \in 1..4 => Enrolling(pc))'
      /\ \A k \in 1..(pc' - 1) : k \in 1..4 => ~Enrolling(k)'
  BY GotoIs
<1>2. ASSUME NEW i \in 1..4, IsFirst(i)' PROVE pc' <= i
  <2>1. Enrolling(i)'
    BY <1>2 DEF IsFirst
  <2>2. ~(i \in 1..(pc' - 1))
    BY <1>1, <2>1
  <2>3. \A q \in Int : ~(i \in 1..(q - 1)) => q <= i
    OBVIOUS
  <2>4. pc' \in Int
    BY <1>1
  <2> QED BY <2>2, <2>3, <2>4
<1>3. ASSUME NEW i \in 1..4, IsFirst(i)', Stale' PROVE Tried(i)'
  <2>1. IsFirst(i) /\ Stale
    BY <1>3, EnrollingKept DEF Stale
  <2> QED BY <2>1 DEF IInv, OrderOK, Tried
<1>4. ASSUME NEW i \in 1..4, IsFirst(i)' PROVE ~(pc' > i)
  BY <1>1, <1>2, <1>4
<1> QED BY <1>1, <1>2, <1>3, <1>4 DEF OrderOK

\* The packet of this step is tried and accepted.
LEMMA AcceptStep ==
  ASSUME IInv, DataKept, NEW p \in 1..4, pc = p, ~Tried(p), Tried(p)', Goto(p + 1),
         Stale' => Stale
  PROVE  OrderOK' /\ ~Stale
<1>1. /\ pc' \in (pc + 1)..47 /\ (pc \in 1..4 => Enrolling(pc))'
  BY GotoIs
<1>2. PICK i \in 1..4 : IsFirst(i) /\ i <= pc
  <2>1. Enrolling(pc)
    BY DEF IInv, OrderOK
  <2> QED BY <2>1 DEF IsFirst
<1>3. ~Stale
  BY <1>2 DEF IInv, OrderOK
<1>4. ASSUME NEW j \in 1..4, IsFirst(j)' PROVE Tried(j)'
  <2>1. IsFirst(j) /\ Enrolling(pc)
    BY <1>4, EnrollingKept DEF DataKept, IInv, OrderOK
  <2>2. CASE j = p
    BY <2>2
  <2>3. CASE pc > j
    BY <2>1, <2>3, TriedKept DEF IInv, OrderOK
  <2>4. ~(pc < j)
    BY <2>1 DEF IsFirst
  <2> QED BY <2>2, <2>3, <2>4
<1>5. ~Stale' /\ (pc \in 1..4 => Enrolling(pc))'
  BY <1>1, <1>3
<1> QED BY <1>1, <1>3, <1>4, <1>5 DEF OrderOK

\* The packet of this step is tried and refused, or was tried before.
LEMMA RefuseStep ==
  ASSUME IInv, DataKept, NEW p \in 1..4, pc = p, Tried(p)', pc' \in 5..47
  PROVE  OrderOK'
<1>1. ASSUME NEW j \in 1..4, IsFirst(j)' PROVE Tried(j)'
  <2>1. IsFirst(j) /\ Enrolling(pc)
    BY <1>1, EnrollingKept DEF DataKept, IInv, OrderOK
  <2>2. CASE j = p
    BY <2>2
  <2>3. CASE pc > j
    BY <2>1, <2>3, TriedKept DEF IInv, OrderOK
  <2>4. ~(pc < j)
    BY <2>1 DEF IsFirst
  <2> QED BY <2>2, <2>3, <2>4
<1>2. ~(pc' \in 1..4)
  OBVIOUS
<1> QED BY <1>1, <1>2 DEF OrderOK

-----------------------------------------------------------------------------
(* What the steps have in common.                                          *)

LEMMA AtIs ==
  ASSUME TypeOK, NEW op, At(op)
  PROVE  /\ pc \in 1..47 /\ box \in Boxes
         /\ op = "process" => pc \in 1..4
         /\ op # "process" => pc \in 5..47
<1>1. pc \in 1..47
  BY Steps DEF TypeOK, At
<1> QED BY <1>1, Steps DEF At, box

\* The packets in memory after a step of a round.
DataStep == DataKept /\ mManagerData' \in [Boxes -> Data]

LEMMA SameData == ASSUME TypeOK, UNCHANGED mManagerData PROVE DataStep
BY DEF DataStep, DataKept, TypeOK

LEMMA BecomesData ==
  ASSUME TypeOK, box \in Boxes, NEW state \in PacketStates, NEW code \in Codes,
         NEW dirty \in BOOLEAN, state = "PRESENT" => this.State = "PRESENT",
         Becomes(state, code, dirty)
  PROVE  DataStep /\ mManagerData'[box].State = state
<1>1. mManagerData \in [Boxes -> Data]
  BY DEF TypeOK
<1>2. mManagerData' \in [Boxes -> Data]
  BY <1>1 DEF Becomes, Data
<1>3. ASSUME NEW b \in Boxes
      PROVE  /\ mManagerData'[b].Packet = mManagerData[b].Packet
             /\ mManagerData'[b].State = IF b = box THEN state ELSE mManagerData[b].State
  BY <1>1 DEF Becomes, Data
<1> QED BY <1>2, <1>3 DEF DataStep, DataKept, this

LEMMA DataOKKept ==
  ASSUME DataOK, DataStep,
         \A b \in IdentityBoxes : mailbox'[b] = mailbox[b] \/ mailbox'[b] = NoPacket
  PROVE  DataOK'
<1>1. IdentityBoxes \subseteq Boxes
  BY DEF IdentityBoxes, Boxes, LkgBoxes
<1>2. \A b \in IdentityBoxes : mailbox'[b] \in {NoPacket} \cup IdentityPackets
  BY DEF DataOK
<1>3. \A b \in IdentityBoxes : mManagerData'[b].Packet \in {NoPacket} \cup IdentityPackets
  BY <1>1 DEF DataOK, DataStep, DataKept
<1>4. \A b \in Boxes : mManagerData'[b].State = "PRESENT"
                         => mManagerData'[b].Packet.decodes /\ Present(mManagerData'[b])
  BY DEF DataOK, DataStep, DataKept, Present
<1> QED BY <1>2, <1>3, <1>4 DEF DataOK

\* A step of a round keeps IInv when it keeps these parts.
LEMMA RoundStep ==
  ASSUME IInv, pc # 0, pc' \in 0..47, UNCHANGED stage, DataStep, OrderOK', KeysOK',
         mailbox' = mailbox \/ mailbox' = [mailbox EXCEPT ![box] = NoPacket],
         mInternalCertStore' \in [Certs : Stores, PopulatedIdentities : SUBSET Keys],
         ipcvn' \in SUBSET Stores
  PROVE  IInv'
<1>1. mailbox' \in [Boxes -> Packets]
  BY DEF IInv, TypeOK, Packets
<1>2. TypeOK'
  BY <1>1, Steps DEF TypeOK, DataStep
<1>3. \A b \in IdentityBoxes : mailbox'[b] = mailbox[b] \/ mailbox'[b] = NoPacket
  BY DEF IInv, TypeOK, IdentityBoxes, Boxes, LkgBoxes
<1>4. DataOK'
  BY <1>3, DataOKKept DEF IInv
<1>5. StartOK'
  BY DEF IInv, StartOK, Starting
<1> QED BY <1>2, <1>4, <1>5 DEF IInv

\* A step after the packets are processed that leaves the keys alone.
LEMMA QuietStep ==
  ASSUME IInv, pc \in 5..47, UNCHANGED <<stage, mInternalCertStore, ipcvn>>, DataStep,
         NEW k \in 1..3, Goto(pc + k),
         mailbox' = mailbox \/ mailbox' = [mailbox EXCEPT ![box] = NoPacket]
  PROVE  IInv'
<1>1. pc' \in 5..47
  <2>1. pc + k \in Nat /\ pc + k >= 5
    OBVIOUS
  <2>2. pc' \in (pc + k)..47
    BY <2>1, GotoIs
  <2> QED BY <2>1, <2>2
<1>2. OrderOK'
  BY <1>1, LaterStep DEF DataStep
<1>3. KeysOK'
  BY DEF IInv, KeysOK, OwnerFirst
<1> QED BY <1>1, <1>2, <1>3, RoundStep DEF IInv, TypeOK

-----------------------------------------------------------------------------
(* The certificate store.                                                  *)

CertStores == [Certs : Stores, PopulatedIdentities : SUBSET Keys]

\* What Load leaves in memory, when _IPCVN has an owner for its user.
LEMMA LoadIs ==
  ASSUME IInv, Load
  PROVE  mInternalCertStore' \in CertStores /\ OwnerFirst(mInternalCertStore'.Certs)
<1>1. CASE ipcvn = {}
  BY <1>1 DEF IInv, TypeOK, KeysOK, Load, CertStores
<1>2. CASE ipcvn # {}
  <2> DEFINE var == CHOOSE v \in ipcvn : TRUE
  <2>1. var \in ipcvn
    BY <1>2
  <2>2. var \in Stores /\ OwnerFirst(var)
    BY <2>1 DEF IInv, TypeOK, KeysOK
  <2>3. mInternalCertStore' = LoadProvisionedData(mInternalCertStore, var)
    BY <1>2 DEF Load
  <2> HIDE DEF var
  <2>4. mInternalCertStore \in CertStores
    BY DEF IInv, TypeOK, CertStores
  <2>5. [var EXCEPT !["USER"] = NoCert] \in Stores /\ OwnerFirst([var EXCEPT !["USER"] = NoCert])
    BY <2>2 DEF Stores, OwnerFirst, Keys
  <2>6. /\ mInternalCertStore'.Certs \in {var, [var EXCEPT !["USER"] = NoCert]}
        /\ mInternalCertStore'.PopulatedIdentities
             = mInternalCertStore.PopulatedIdentities \cup Enrolled(var)
        /\ mInternalCertStore' = [Certs |-> mInternalCertStore'.Certs,
             PopulatedIdentities |-> mInternalCertStore'.PopulatedIdentities]
    BY <2>3 DEF LoadProvisionedData
  <2>7. Enrolled(var) \subseteq Keys
    BY DEF Enrolled
  <2> QED BY <2>2, <2>4, <2>5, <2>6, <2>7 DEF CertStores
<1> QED BY <1>1, <1>2

\* What ApplyProvisionData leaves in memory.
LEMMA ApplyIs ==
  ASSUME NEW store \in CertStores, NEW id, NEW cert \in Certs \cup {NoCert},
         cert # NoCert => id \in Keys
  PROVE  LET new == ApplyProvisionData(store, id, cert)
         IN  /\ new \in CertStores
             /\ new.Certs = [store.Certs EXCEPT ![id] = cert]
             /\ id # "OWNER" => ("OWNER" \in new.PopulatedIdentities
                                   <=> "OWNER" \in store.PopulatedIdentities)
<1>1. [store.Certs EXCEPT ![id] = cert] \in Stores
  BY DEF CertStores, Stores
<1> QED BY <1>1 DEF ApplyProvisionData, CertStores

-----------------------------------------------------------------------------
(* One lemma for every kind of step.                                       *)

LEMMA EnrollKeepsIInv == ASSUME IInv, EnrollIdentity PROVE IInv'
<1>1. pc \in 1..4 /\ box \in Boxes /\ box = Program[pc][2]
  BY AtIs DEF IInv, EnrollIdentity, box
<1>2. PICK who \in Answers \cap Identities :
        mInternalCertStore' = ApplyProvisionData(mInternalCertStore, packet.id, packet.cert)
  BY DEF EnrollIdentity
<1>3. this.State = "PRESENT" /\ ~NoOwner(mInternalCertStore, packet)
  <2>1. "ABORTED" \notin Identities /\ "REFUSED" \notin Identities
    BY DEF Identities, Keys
  <2> QED BY <1>2, <2>1 DEF Answers, Approvals
<1>4. packet \in IdentityPackets /\ packet.cert # NoCert
  <2>1. Enrolling(pc)
    BY <1>1 DEF IInv, OrderOK
  <2>2. Present(this) /\ ~Unenroll(box, this)
    BY <1>1, <2>1, EnrollingIs DEF this, box
  <2>3. this.Packet.decodes /\ packet \in {NoPacket} \cup IdentityPackets
    BY <1>1, <1>3 DEF IInv, DataOK, this, packet, EnrollIdentity
  <2>4. packet # NoPacket
    BY <2>2 DEF Present, NoPacket, packet
  <2> QED BY <2>2, <2>3, <2>4 DEF Unenroll, packet, EnrollIdentity
<1>5. DataStep /\ mManagerData'[box].State = "DONE"
  BY <1>1, BecomesData DEF EnrollIdentity, IInv, PacketStates, Codes
<1>6. packet.id \in Keys /\ packet.cert \in Certs \cup {NoCert}
  BY <1>4 DEF IdentityPackets
<1>7. /\ mInternalCertStore' \in CertStores
      /\ mInternalCertStore'.Certs = [mInternalCertStore.Certs EXCEPT ![packet.id] = packet.cert]
      /\ packet.id # "OWNER" => ("OWNER" \in mInternalCertStore'.PopulatedIdentities
                                   <=> "OWNER" \in mInternalCertStore.PopulatedIdentities)
  <2>1. mInternalCertStore \in CertStores
    BY DEF IInv, TypeOK, CertStores
  <2> QED BY <1>2, <1>6, <2>1, ApplyIs
<1>8. Stale' => Stale
  <2>1. mInternalCertStore.Certs \in Stores
    BY DEF IInv, TypeOK
  <2> QED BY <1>4, <1>6, <1>7, <2>1 DEF Stale, Stores, Keys
<1>9. OrderOK' /\ ~Stale
  <2>1. PICK q \in 1..4 : q = pc
    BY <1>1
  <2>2. ~Tried(q) /\ Tried(q)' /\ Goto(q + 1)
    BY <1>1, <1>3, <1>5, <2>1 DEF Tried, this, box, EnrollIdentity
  <2> QED BY <1>5, <1>8, <2>1, <2>2, AcceptStep DEF DataStep
<1>10. KeysOK'
  <2>1. mInternalCertStore'.Certs["OWNER"] # NoCert
    <3>1. mInternalCertStore.Certs \in Stores
      BY DEF IInv, TypeOK
    <3>2. CASE packet.id = "OWNER"
      BY <1>4, <1>7, <3>1, <3>2 DEF Stores, Keys
    <3>3. CASE packet.id # "OWNER"
      BY <1>3, <1>7, <1>9, <3>1, <3>3 DEF Stores, Keys, NoOwner, Stale
    <3> QED BY <3>2, <3>3
  <2>2. ipcvn' = ipcvn
    BY DEF EnrollIdentity, nv
  <2> QED BY <2>1, <2>2 DEF IInv, KeysOK, OwnerFirst
<1>11. pc' \in 0..47
  BY <1>1, GotoIs DEF EnrollIdentity
<1> QED BY <1>1, <1>5, <1>7, <1>9, <1>10, <1>11, RoundStep
        DEF EnrollIdentity, nv, CertStores, IInv, TypeOK

\* A packet is refused: the keys stay, and the round goes to COMPLETE_AS_FAILED.
LEMMA RefuseKeepsIInv == ASSUME IInv, RefuseIdentity \/ RefusePermissions PROVE IInv'
<1>1. /\ pc \in 1..4 /\ box \in Boxes /\ box = Program[pc][2]
  BY AtIs DEF IInv, RefuseIdentity, RefusePermissions, box
<1>2. UNCHANGED <<mailbox, ipcvn, mInternalCertStore, stage>> /\ Goto(5)
  BY DEF RefuseIdentity, RefusePermissions, nv, Void, COMPLETE_AS_FAILED
<1>3. DataStep /\ mManagerData'[box].State # "PRESENT"
  <2>1. CASE Becomes("FAILED", "ERROR", FALSE)
    BY <1>1, <2>1, BecomesData DEF IInv, PacketStates, Codes
  <2>2. CASE UNCHANGED mManagerData /\ this.State # "PRESENT"
    BY <2>2, SameData DEF IInv, this
  <2>3. "ABORTED" \in Answers => this.State # "PRESENT"
    BY DEF Answers, Approvals, Identities, Keys, AuthWithSignedData, NoIdentity
  <2> QED BY <2>1, <2>2, <2>3 DEF RefuseIdentity, RefusePermissions
<1>4. pc' \in 5..47
  BY <1>2, GotoIs
<1>5. OrderOK'
  <2>1. PICK q \in 1..4 : q = pc
    BY <1>1
  <2>2. Tried(q)'
    BY <1>1, <1>3, <2>1 DEF Tried
  <2> QED BY <1>3, <1>4, <2>1, <2>2, RefuseStep DEF DataStep
<1>6. KeysOK'
  BY <1>2 DEF IInv, KeysOK, OwnerFirst
<1> QED BY <1>1, <1>2, <1>3, <1>4, <1>5, <1>6, RoundStep DEF IInv, TypeOK

LEMMA PermissionsKeepIInv == ASSUME IInv, ApplyNewPermissionsPacket PROVE IInv'
<1>1. /\ pc \in 1..4 /\ box \in Boxes /\ box = Program[pc][2]
  BY AtIs DEF IInv, ApplyNewPermissionsPacket, box
<1>2. UNCHANGED <<mailbox, ipcvn, mInternalCertStore, stage>> /\ Goto(pc + 1)
  BY DEF ApplyNewPermissionsPacket, nv
<1>3. DataStep /\ mManagerData'[box].State = "DONE" /\ this.State = "PRESENT"
  BY <1>1, BecomesData DEF ApplyNewPermissionsPacket, IInv, PacketStates, Codes
<1>4. pc' \in 0..47
  BY <1>1, <1>2, GotoIs
<1>5. OrderOK'
  <2>1. PICK q \in 1..4 : q = pc
    BY <1>1
  <2>2. ~Tried(q) /\ Tried(q)' /\ Goto(q + 1) /\ (Stale' => Stale)
    BY <1>1, <1>2, <1>3, <2>1 DEF Tried, this, box, Stale
  <2> QED BY <1>3, <2>1, <2>2, AcceptStep DEF DataStep
<1>6. KeysOK'
  BY <1>2 DEF IInv, KeysOK, OwnerFirst
<1> QED BY <1>1, <1>2, <1>3, <1>4, <1>5, <1>6, RoundStep DEF IInv, TypeOK

\* The round stops for the user.
LEMMA QueueKeepsIInv == ASSUME IInv, QueueMailboxAtEndOfDxe PROVE IInv'
<1>1. pc \in 1..47
  BY AtIs DEF IInv, QueueMailboxAtEndOfDxe
<1>2. /\ UNCHANGED <<mailbox, ipcvn, mInternalCertStore, mManagerData, stage>> /\ pc' = 0
      /\ \A i \in 1..4 : IsFirst(i)' <=> IsFirst(i)
  BY EnrollingKept DEF QueueMailboxAtEndOfDxe, nv, memory
<1>3. DataStep
  BY <1>2, SameData DEF IInv
<1>4. OrderOK'
  BY <1>2 DEF IInv, OrderOK, Tried, Stale
<1>5. KeysOK'
  BY <1>2 DEF IInv, KeysOK, OwnerFirst
<1> QED BY <1>1, <1>2, <1>3, <1>4, <1>5, RoundStep DEF IInv, TypeOK

\* Steps after the processing that leave the keys alone.
Quiet ==
  \/ DeleteMailbox \/ LkgClean \/ RestorePermissions \/ CommitPermissions \/ WriteResult
  \/ AbortSettings \/ ApplyNewSettingsPacket \/ SMID_SaveToFlash \/ RefuseUnenroll
  \/ ClearSettings \/ ResetPermissionsToDefault

LEMMA QuietKeepsIInv == ASSUME IInv, Quiet PROVE IInv'
<1>0. TypeOK
  BY DEF IInv
<1>a. \/ At("delete") \/ At("settingsDelete") \/ At("deleteAll") \/ At("lkg") \/ At("result")
      \/ At("settingsResult") \/ At("settings") \/ At("settingsSave") \/ At("unenroll")
      \/ At("clearSettings") \/ At("clearPermissions")
  BY DEF Quiet, DeleteMailbox, LkgClean, RestorePermissions, CommitPermissions, WriteResult,
         AbortSettings, ApplyNewSettingsPacket, SMID_SaveToFlash, RefuseUnenroll, ClearSettings,
         ResetPermissionsToDefault
<1>1. pc \in 5..47 /\ box \in Boxes
  BY <1>0, <1>a, AtIs
<1>2. this.State \in PacketStates /\ this.StatusCode \in Codes
  BY <1>0, <1>1 DEF TypeOK, Data, this
<1>3. LkgFails => DataStep /\ Goto(pc + 2)
  BY <1>0, <1>1, BecomesData DEF LkgFails, PacketStates, Codes
<1>4. LkgDone => DataStep /\ Goto(pc + 1)
  BY <1>0, <1>1, <1>2, BecomesData DEF LkgDone
<1>5. ClearFails => DataStep /\ Goto(pc + 1)
  BY <1>0, <1>1, BecomesData DEF ClearFails, PacketStates, Codes
<1>6. /\ Becomes("FAILED", "ERROR", FALSE) => DataStep
      /\ Becomes("DONE", "SUCCESS", FALSE) => DataStep
      /\ UNCHANGED mManagerData => DataStep
  BY <1>0, <1>1, BecomesData, SameData DEF PacketStates, Codes
<1>7. CASE DeleteMailbox
  <2>1. /\ UNCHANGED <<stage, mInternalCertStore, ipcvn, mManagerData>> /\ Goto(pc + 1)
        /\ mailbox' = [mailbox EXCEPT ![box] = NoPacket]
    BY <1>7 DEF DeleteMailbox, memory
  <2> QED BY <1>1, <1>6, <2>1, QuietStep
<1>8. CASE LkgClean \/ WriteResult \/ AbortSettings \/ SMID_SaveToFlash
  <2>1. /\ UNCHANGED <<stage, mInternalCertStore, ipcvn, mManagerData, mailbox>>
        /\ Goto(pc + 1) \/ Goto(pc + 3)
    BY <1>8 DEF LkgClean, WriteResult, AbortSettings, SMID_SaveToFlash, nv, memory
  <2> QED BY <1>1, <1>6, <2>1, QuietStep
<1>9. CASE RestorePermissions \/ CommitPermissions
  <2>1. /\ UNCHANGED <<stage, mInternalCertStore, ipcvn, mailbox>>
        /\ LkgDone \/ LkgFails
    BY <1>9 DEF RestorePermissions, CommitPermissions, nv
  <2> QED BY <1>1, <1>3, <1>4, <2>1, QuietStep
<1>10. CASE ApplyNewSettingsPacket \/ RefuseUnenroll
  <2>1. /\ UNCHANGED <<stage, mInternalCertStore, ipcvn, mailbox>> /\ Goto(pc + 1)
        /\ \/ Becomes("FAILED", "ERROR", FALSE) \/ Becomes("DONE", "SUCCESS", FALSE)
           \/ UNCHANGED mManagerData
    BY <1>10 DEF ApplyNewSettingsPacket, RefuseUnenroll, nv
  <2>2. DataStep
    BY <1>6, <2>1
  <2> QED BY <1>1, <2>1, <2>2, QuietStep
<1>11. CASE ClearSettings \/ ResetPermissionsToDefault
  <2>1. /\ UNCHANGED <<stage, mInternalCertStore, ipcvn, mailbox>>
        /\ ClearFails \/ (UNCHANGED mManagerData /\ Goto(pc + 1))
    BY <1>11 DEF ClearSettings, ResetPermissionsToDefault
  <2> QED BY <1>1, <1>5, <1>6, <2>1, QuietStep
<1> QED BY <1>7, <1>8, <1>9, <1>10, <1>11 DEF Quiet

\* Steps after the processing that change the keys.
LEMMA KeyStep ==
  ASSUME IInv, pc \in 5..47, UNCHANGED <<stage, mailbox>>, DataStep, NEW k \in 1..2, Goto(pc + k),
         mInternalCertStore' \in CertStores, OwnerFirst(mInternalCertStore'.Certs),
         ipcvn' \in SUBSET Stores, \A certs \in ipcvn' : OwnerFirst(certs)
  PROVE  IInv'
<1>1. pc' \in 5..47
  <2>1. pc + k \in Nat /\ pc + k >= 5
    OBVIOUS
  <2>2. pc' \in (pc + k)..47
    BY <2>1, GotoIs
  <2> QED BY <2>1, <2>2
<1>2. OrderOK'
  BY <1>1, LaterStep DEF DataStep
<1>3. KeysOK'
  BY DEF KeysOK, OwnerFirst
<1> QED BY <1>1, <1>2, <1>3, RoundStep DEF CertStores

LEMMA LkgKeepsIInv == ASSUME IInv, RestoreIdentities \/ CommitIdentities PROVE IInv'
<1>0. TypeOK /\ KeysOK /\ pc \in 5..47 /\ box \in Boxes
  BY AtIs DEF IInv, RestoreIdentities, CommitIdentities
<1>1. DataStep /\ (Goto(pc + 1) \/ Goto(pc + 2))
  <2>1. LkgFails \/ LkgDone
    BY DEF RestoreIdentities, CommitIdentities
  <2>2. this.State \in PacketStates /\ this.StatusCode \in Codes
    BY <1>0 DEF TypeOK, Data, this
  <2> QED BY <1>0, <2>1, <2>2, BecomesData DEF LkgFails, LkgDone, PacketStates, Codes
<1>2. /\ UNCHANGED <<stage, mailbox>>
      /\ \/ Load /\ UNCHANGED ipcvn
         \/ ipcvn' = {mInternalCertStore.Certs} /\ UNCHANGED mInternalCertStore
  BY DEF RestoreIdentities, CommitIdentities, nv
<1>3. /\ mInternalCertStore' \in CertStores /\ OwnerFirst(mInternalCertStore'.Certs)
      /\ ipcvn' \in SUBSET Stores /\ \A certs \in ipcvn' : OwnerFirst(certs)
  <2>1. CASE Load /\ UNCHANGED ipcvn
    BY <1>0, <2>1, LoadIs DEF TypeOK, KeysOK
  <2>2. CASE ipcvn' = {mInternalCertStore.Certs} /\ UNCHANGED mInternalCertStore
    BY <1>0, <2>2 DEF TypeOK, KeysOK, CertStores
  <2> QED BY <1>2, <2>1, <2>2
<1> QED BY <1>0, <1>1, <1>2, <1>3, KeyStep

LEMMA UnenrollKeepsIInv == ASSUME IInv, ProcessUnEnrollPacket PROVE IInv'
<1>0. TypeOK /\ KeysOK /\ pc \in 5..47 /\ box \in Boxes
  BY AtIs DEF IInv, ProcessUnEnrollPacket
<1>1. UNCHANGED <<stage, mailbox, ipcvn>> /\ Goto(pc + 1)
  BY DEF ProcessUnEnrollPacket, nv
<1>2. PICK who \in Answers \cap Identities :
        \/ /\ packet.id # "OWNER"
           /\ mInternalCertStore' = ApplyProvisionData(mInternalCertStore, packet.id, NoCert)
           /\ Becomes("DONE", "SUCCESS", TRUE)
        \/ /\ mManagerData' = [mManagerData EXCEPT ![box].State = "CLEARING", ![box].who = who]
           /\ UNCHANGED mInternalCertStore
  BY DEF ProcessUnEnrollPacket
<1>3. CASE UNCHANGED mInternalCertStore
            /\ mManagerData' = [mManagerData EXCEPT ![box].State = "CLEARING", ![box].who = who]
  <2>1. mManagerData \in [Boxes -> Data]
    BY <1>0 DEF TypeOK
  <2>2. mManagerData' \in [Boxes -> Data]
    BY <1>2, <1>3, <2>1 DEF Data, PacketStates
  <2>3. DataKept
    BY <1>3, <2>1 DEF DataKept, Data
  <2> QED BY <1>0, <1>1, <1>3, <2>2, <2>3, QuietStep DEF DataStep
<1>4. CASE /\ packet.id # "OWNER" /\ Becomes("DONE", "SUCCESS", TRUE)
           /\ mInternalCertStore' = ApplyProvisionData(mInternalCertStore, packet.id, NoCert)
  <2>1. DataStep
    BY <1>0, <1>4, BecomesData DEF PacketStates, Codes
  <2>2. mInternalCertStore \in CertStores
    BY <1>0 DEF TypeOK, CertStores
  <2>3. /\ mInternalCertStore' \in CertStores
        /\ mInternalCertStore'.Certs = [mInternalCertStore.Certs EXCEPT ![packet.id] = NoCert]
    BY <1>4, <2>2, ApplyIs
  <2>4. OwnerFirst(mInternalCertStore'.Certs)
    BY <1>0, <1>4, <2>2, <2>3 DEF KeysOK, OwnerFirst, CertStores, Stores, Keys
  <2> QED BY <1>0, <1>1, <2>1, <2>3, <2>4, KeyStep DEF TypeOK, KeysOK
<1> QED BY <1>2, <1>3, <1>4

\* InitializeProvisionedData: no keys at all.
LEMMA NoKeysIs ==
  /\ InitialStore \in CertStores /\ NoKeys \in Stores
  /\ InitialStore.Certs = NoKeys /\ OwnerFirst(NoKeys) /\ InitialStore.PopulatedIdentities = {}
BY DEF InitialStore, NoKeys, CertStores, Stores, OwnerFirst, Keys

LEMMA ClearKeepsIInv == ASSUME IInv, DeleteKeys \/ InitializeKeys PROVE IInv'
<1>0. TypeOK /\ KeysOK /\ pc \in 5..47 /\ box \in Boxes
  <2>1. TypeOK /\ KeysOK /\ (At("deleteKeys") \/ At("initializeKeys"))
    BY DEF IInv, DeleteKeys, InitializeKeys
  <2> QED BY <2>1, AtIs
<1>1. /\ UNCHANGED <<stage, mailbox>> /\ Goto(pc + 1)
      /\ ipcvn' \in {{}, {NoKeys}, ipcvn}
      /\ UNCHANGED mInternalCertStore \/ mInternalCertStore' = InitialStore
      /\ \/ UNCHANGED mManagerData \/ Becomes("DONE", "SUCCESS", FALSE)
         \/ Becomes("FAILED", "ERROR", FALSE)
  BY DEF DeleteKeys, InitializeKeys, ClearFails, memory
<1>2. DataStep
  BY <1>0, <1>1, BecomesData, SameData DEF PacketStates, Codes
<1>3. mInternalCertStore' \in CertStores /\ OwnerFirst(mInternalCertStore'.Certs)
  BY <1>0, <1>1, NoKeysIs DEF TypeOK, KeysOK, CertStores
<1>4. ipcvn' \in SUBSET Stores /\ \A certs \in ipcvn' : OwnerFirst(certs)
  BY <1>0, <1>1, NoKeysIs DEF TypeOK, KeysOK
<1> QED BY <1>0, <1>1, <1>2, <1>3, <1>4, KeyStep

-----------------------------------------------------------------------------
(* Boot.                                                                   *)

Emptied == mManagerData' = [b \in Boxes |-> NoData]

LEMMA EmptiedIs ==
  ASSUME Emptied
  PROVE  /\ mManagerData' \in [Boxes -> Data]
         /\ \A b \in Boxes : /\ mManagerData'[b].Packet = NoPacket
                             /\ mManagerData'[b].State # "PRESENT" /\ ~Present(mManagerData'[b])
<1>1. NoData \in Data /\ NoData.Packet = NoPacket /\ NoData.State # "PRESENT" /\ NoPacket.sid = 0
  BY DEF NoData, Data, Packets, PacketStates, Codes, NoPacket
<1> QED BY <1>1 DEF Emptied, Present

\* Without packets in memory there is no order to keep.
LEMMA NoPacketsStep ==
  ASSUME \A b \in Boxes : ~Present(mManagerData'[b]), pc' \in {0} \cup 5..47
  PROVE  OrderOK'
<1>1. ASSUME NEW i \in 1..4 PROVE ~Enrolling(i)' /\ ~IsFirst(i)'
  <2>1. Program[i][2] \in Boxes /\ Program[i][3] = "enroll"
    BY Steps
  <2>2. ~Enrolling(i)'
    BY <2>1 DEF Enrolling, Needed
  <2> QED BY <2>2 DEF IsFirst
<1> QED BY <1>1 DEF OrderOK

LEMMA ResetKeepsIInv ==
  ASSUME IInv, Reset, UNCHANGED ipcvn, mailbox' \in [Boxes -> Packets],
         \A b \in IdentityBoxes : mailbox'[b] \in {NoPacket} \cup IdentityPackets
  PROVE  IInv'
<1>1. Emptied /\ pc' = 0 /\ mInternalCertStore' = InitialStore
  BY DEF Reset, Emptied
<1>2. /\ mManagerData' \in [Boxes -> Data]
      /\ \A b \in Boxes : /\ mManagerData'[b].Packet = NoPacket
                          /\ mManagerData'[b].State # "PRESENT" /\ ~Present(mManagerData'[b])
  BY <1>1, EmptiedIs
<1>3. TypeOK'
  BY <1>1, <1>2, NoKeysIs, Steps DEF IInv, TypeOK, CertStores
<1>4. DataOK'
  <2>1. IdentityBoxes \subseteq Boxes
    BY DEF IdentityBoxes, Boxes, LkgBoxes
  <2> QED BY <1>2, <2>1 DEF DataOK
<1>5. KeysOK'
  BY <1>1, NoKeysIs DEF IInv, KeysOK
<1>6. OrderOK'
  BY <1>1, <1>2, NoPacketsStep
<1>7. StartOK'
  BY <1>1, <1>2, NoKeysIs DEF StartOK, Stale
<1> QED BY <1>3, <1>4, <1>5, <1>6, <1>7 DEF IInv

BatchesOK == batches \in 0..MaxBatches

LEMMA RestartKeepsIInv == ASSUME IInv, BatchesOK, OsRestarts \/ PowerLoss \/ Restart PROVE IInv'
<1>1. Reset /\ UNCHANGED ipcvn
  BY DEF OsRestarts, PowerLoss, Restart, nv
<1>2. /\ mailbox' \in [Boxes -> Packets]
      /\ \A b \in IdentityBoxes : mailbox'[b] \in {NoPacket} \cup IdentityPackets
  <2>0. /\ mailbox \in [Boxes -> Packets] /\ IdentityBoxes \subseteq Boxes
        /\ \A b \in IdentityBoxes : mailbox[b] \in {NoPacket} \cup IdentityPackets
    BY DEF IInv, TypeOK, DataOK, IdentityBoxes, Boxes, LkgBoxes
  <2>1. CASE UNCHANGED mailbox
    BY <2>0, <2>1
  <2>2. CASE OsRestarts /\ ~UNCHANGED mailbox
    <3>1. PICK batch \in Batches :
            /\ batches < MaxBatches
            /\ mailbox' = [b \in Boxes |-> IF b \in DOMAIN batch THEN Numbered(batch[b], batches + 1)
                                           ELSE mailbox[b]]
      BY <2>2 DEF OsRestarts
    <3>2. batches + 1 \in 1..MaxBatches /\ batches + 1 \in Nat
      BY <3>1, BoundAssumption DEF BatchesOK
    <3>3. \A b \in DOMAIN batch : Numbered(batch[b], batches + 1) \in Packets
      BY <3>2 DEF Packets
    <3>4. \A b \in DOMAIN batch \cap IdentityBoxes :
            Numbered(batch[b], batches + 1) \in IdentityPackets
      BY <3>2, BatchAssumption DEF Numbered, IdentityPackets
    <3> QED BY <2>0, <3>1, <3>3, <3>4
  <2> QED BY <2>1, <2>2 DEF PowerLoss, Restart, nv
<1> QED BY <1>1, <1>2, ResetKeepsIInv

LEMMA ExitKeepsIInv == ASSUME IInv, FinalExit PROVE IInv'
<1>0. UNCHANGED <<mailbox, ipcvn>> /\ TypeOK /\ DataOK /\ KeysOK /\ pc \in 5..47
  BY AtIs DEF FinalExit, nv, IInv
<1>1. CASE Reset
  BY <1>0, <1>1, ResetKeepsIInv DEF TypeOK, DataOK
<1>2. CASE Emptied /\ pc' = 0 /\ UNCHANGED <<mInternalCertStore, stage>>
  <2>1. /\ mManagerData' \in [Boxes -> Data]
        /\ \A b \in Boxes : /\ mManagerData'[b].Packet = NoPacket
                            /\ mManagerData'[b].State # "PRESENT" /\ ~Present(mManagerData'[b])
    BY <1>2, EmptiedIs
  <2>2. TypeOK'
    BY <1>0, <1>2, <2>1, Steps DEF TypeOK
  <2>3. DataOK'
    <3>1. IdentityBoxes \subseteq Boxes
      BY DEF IdentityBoxes, Boxes, LkgBoxes
    <3> QED BY <1>0, <2>1, <3>1 DEF DataOK
  <2>4. OrderOK'
    BY <1>2, <2>1, NoPacketsStep
  <2>5. KeysOK' /\ StartOK'
    BY <1>0, <1>2 DEF KeysOK, IInv, StartOK, Starting
  <2> QED BY <2>2, <2>3, <2>4, <2>5 DEF IInv
<1> QED BY <1>1, <1>2 DEF FinalExit, Emptied

\* The drivers before DfciManager: no packets in memory yet.
LEMMA DriversKeepIInv ==
  ASSUME IInv, PopulateInternalCertStore \/ CheckForAuthenticationProtocol
  PROVE  IInv'
<1>0. /\ TypeOK /\ DataOK /\ KeysOK /\ pc = 0 /\ \A b \in Boxes : ~Present(mManagerData[b])
      /\ ~Stale /\ (stage = "CertStore" => mInternalCertStore = InitialStore)
  BY DEF IInv, StartOK, Starting, PopulateInternalCertStore, CheckForAuthenticationProtocol
<1>1. /\ UNCHANGED <<mailbox, mManagerData, pc>> /\ stage' \in {"Permissions", "Entry"}
  BY DEF PopulateInternalCertStore, CheckForAuthenticationProtocol
<1>2. /\ mInternalCertStore' \in CertStores /\ OwnerFirst(mInternalCertStore'.Certs) /\ ~Stale'
      /\ ipcvn' \in SUBSET Stores /\ \A certs \in ipcvn' : OwnerFirst(certs)
  <2>1. CASE UNCHANGED <<mInternalCertStore, ipcvn>>
    BY <1>0, <2>1 DEF TypeOK, KeysOK, CertStores, Stale
  <2>2. CASE mInternalCertStore' = InitialStore /\ ipcvn' \in {{}, {NoKeys}}
    BY <2>2, NoKeysIs DEF Stale
  <2>3. CASE /\ stage = "CertStore" /\ ~LoadFails /\ Load /\ UNCHANGED ipcvn
    <3>1. mInternalCertStore' \in CertStores /\ OwnerFirst(mInternalCertStore'.Certs)
      BY <2>3, LoadIs
    <3>2. ~Stale'
      <4> DEFINE var == CHOOSE v \in ipcvn : TRUE
      <4>1. var \in Stores /\ mInternalCertStore' = LoadProvisionedData(InitialStore, var)
        BY <1>0, <2>3 DEF LoadFails, Load, TypeOK
      <4> HIDE DEF var
      <4>2. /\ mInternalCertStore'.Certs["OWNER"] = var["OWNER"]
            /\ mInternalCertStore'.PopulatedIdentities = Enrolled(var)
        BY <4>1, NoKeysIs DEF LoadProvisionedData, Stores, Keys
      <4> QED BY <4>2 DEF Stale, Enrolled
    <3> QED BY <1>0, <2>3, <3>1, <3>2 DEF TypeOK, KeysOK
  <2> QED BY <2>1, <2>2, <2>3 DEF PopulateInternalCertStore, CheckForAuthenticationProtocol
<1>3. TypeOK' /\ KeysOK'
  BY <1>0, <1>1, <1>2 DEF TypeOK, KeysOK, CertStores
<1>4. DataOK'
  BY <1>0, <1>1 DEF DataOK
<1>5. OrderOK'
  BY <1>0, <1>1, NoPacketsStep
<1>6. StartOK'
  BY <1>0, <1>1, <1>2 DEF StartOK
<1> QED BY <1>3, <1>4, <1>5, <1>6 DEF IInv

\* ProcessMailBoxes starts with packets that are in memory, or does not start.
LEMMA CallbackKeepsIInv ==
  ASSUME IInv, SettingAccessCallback \/ EndOfDxeCallback \/ EndOfDxeIdle
  PROVE  IInv'
<1>0. /\ TypeOK /\ DataOK /\ KeysOK /\ OrderOK /\ pc = 0
      /\ UNCHANGED <<mailbox, ipcvn, mInternalCertStore, mManagerData>>
  BY DEF IInv, SettingAccessCallback, EndOfDxeCallback, EndOfDxeIdle, nv, memory
<1>1. stage' \in {"EndOfDxe", "Os", "Undefined"} /\ (pc' = 0 \/ Goto(1))
  BY <1>0 DEF SettingAccessCallback, EndOfDxeCallback, EndOfDxeIdle, ProcessMailBoxes
<1>2. pc' \in 0..47
  BY <1>1, GotoIs
<1>3. OrderOK'
  <2>1. CASE pc' = 0
    <3>1. \A i \in 1..4 : IsFirst(i)' <=> IsFirst(i)
      BY <1>0, EnrollingKept
    <3> QED BY <1>0, <2>1, <3>1 DEF OrderOK, Tried, Stale
  <2>2. CASE Goto(1)
    BY <1>0, <2>2, BeginStep
  <2> QED BY <1>1, <2>1, <2>2
<1>4. TypeOK' /\ DataOK' /\ KeysOK'
  BY <1>0, <1>2, Steps DEF TypeOK, DataOK, KeysOK
<1>5. StartOK'
  BY <1>1 DEF StartOK, Starting
<1> QED BY <1>3, <1>4, <1>5 DEF IInv

\* DfciManagerEntry reads the mailboxes; on its error exit there is nothing in memory.
LEMMA EntryKeepsIInv == ASSUME IInv, DfciManagerEntry \/ DfciManagerEntryFails PROVE IInv'
<1>0. /\ TypeOK /\ DataOK /\ KeysOK /\ pc = 0 /\ ~Stale
      /\ \A b \in Boxes : ~Present(mManagerData[b])
      /\ UNCHANGED <<mailbox, ipcvn, mInternalCertStore>>
  BY DEF IInv, StartOK, Starting, DfciManagerEntry, DfciManagerEntryFails, nv, memory,
         ProcessMailBoxes
<1>1. ~Stale' /\ KeysOK' /\ IdentityBoxes \subseteq Boxes
  BY <1>0 DEF Stale, KeysOK, IdentityBoxes, Boxes, LkgBoxes
<1>2. CASE DfciManagerEntryFails
  <2>1. UNCHANGED mManagerData /\ stage' = "StartOfBds" /\ Goto(41)
    BY <1>2, ProgramShape DEF DfciManagerEntryFails, memory
  <2>2. pc' \in 41..47
    BY <2>1, GotoIs
  <2>3. TypeOK' /\ DataOK'
    <3>1. pc' \in 0..Len(Program)
      BY <2>2, Steps
    <3>2. TypeOK'
      BY <1>0, <2>1, <3>1 DEF TypeOK
    <3>3. DataOK'
      BY <1>0, <2>1 DEF DataOK, Present
    <3> QED BY <3>2, <3>3
  <2>4. OrderOK'
    <3>1. pc' \in {0} \cup 5..47
      BY <2>2
    <3> QED BY <1>0, <2>1, <3>1, NoPacketsStep
  <2>5. StartOK'
    BY <2>1 DEF StartOK, Starting
  <2> QED BY <1>1, <2>3, <2>4, <2>5 DEF IInv
<1>3. CASE DfciManagerEntry
  <2>1. /\ mManagerData' = AllocateManagerData /\ stage' \in {"StartOfBds", "Undefined"}
        /\ pc' = 0 \/ Goto(1)
    BY <1>0, <1>3 DEF DfciManagerEntry, ProcessMailBoxes
  <2>2. ASSUME NEW b \in Boxes
        PROVE  /\ mManagerData'[b] \in Data
               /\ mManagerData'[b].Packet \in {NoPacket, mailbox[b]}
               /\ mManagerData'[b].State = "PRESENT"
                    => mManagerData'[b].Packet.decodes /\ Present(mManagerData'[b])
    <3>1. /\ NoData \in Data /\ NoData.Packet = NoPacket /\ NoData.State # "PRESENT"
          /\ mailbox[b] \in Packets
      BY <1>0 DEF NoData, Data, Packets, PacketStates, Codes, NoPacket, TypeOK
    <3>2. CASE mailbox[b].sid = 0
      BY <2>1, <3>1, <3>2 DEF AllocateManagerData
    <3>3. CASE mailbox[b].sid # 0
      BY <2>1, <3>1, <3>3 DEF AllocateManagerData, Data, PacketStates, Codes, Present
    <3> QED BY <3>2, <3>3
  <2>3. pc' \in 0..47
    BY <2>1, GotoIs
  <2>4. mManagerData' \in [Boxes -> Data]
    BY <2>1, <2>2 DEF AllocateManagerData
  <2>5. TypeOK'
    BY <1>0, <2>3, <2>4, Steps DEF TypeOK
  <2>6. DataOK'
    BY <1>0, <1>1, <2>2 DEF DataOK
  <2>7. OrderOK'
    <3>1. CASE pc' = 0
      BY <1>1, <3>1 DEF OrderOK
    <3>2. CASE Goto(1)
      <4>1. /\ pc' \in 1..47 /\ (pc \in 1..4 => Enrolling(pc))'
            /\ \A k \in 1..(pc' - 1) : k \in 1..4 => ~Enrolling(k)'
        BY <3>2, GotoIs
      <4>2. ASSUME NEW i \in 1..4, IsFirst(i)' PROVE ~(pc' > i)
        <5>1. Enrolling(i)'
          BY <4>2 DEF IsFirst
        <5>2. ~(i \in 1..(pc' - 1))
          BY <4>1, <5>1
        <5>3. \A q \in Int : ~(i \in 1..(q - 1)) => ~(q > i)
          OBVIOUS
        <5>4. pc' \in Int
          BY <4>1
        <5> QED BY <5>2, <5>3, <5>4
      <4> QED BY <1>1, <4>1, <4>2 DEF OrderOK
    <3> QED BY <2>1, <3>1, <3>2
  <2>8. StartOK'
    BY <2>1 DEF StartOK, Starting
  <2> QED BY <1>1, <2>5, <2>6, <2>7, <2>8 DEF IInv
<1> QED BY <1>2, <1>3

-----------------------------------------------------------------------------
(* The theorem.                                                            *)

LEMMA InitIInv == Init => IInv /\ BatchesOK
<1> SUFFICES ASSUME Init PROVE IInv /\ BatchesOK
  OBVIOUS
<1>1. /\ NoData \in Data /\ NoData.Packet = NoPacket /\ NoData.State # "PRESENT"
      /\ NoPacket \in Packets /\ NoPacket.sid = 0
  BY DEF NoData, Data, Packets, PacketStates, Codes, NoPacket
<1>2. TypeOK
  <2>1. mailbox \in [Boxes -> Packets] /\ mManagerData \in [Boxes -> Data]
    BY <1>1 DEF Init
  <2>2. mInternalCertStore \in CertStores /\ ipcvn \in SUBSET Stores
    BY NoKeysIs DEF Init
  <2>3. pc \in 0..Len(Program)
    BY Steps DEF Init
  <2> QED BY <2>1, <2>2, <2>3 DEF TypeOK, CertStores
<1>3. DataOK
  BY <1>1 DEF Init, DataOK, IdentityBoxes, Boxes, LkgBoxes
<1>4. KeysOK
  BY NoKeysIs DEF Init, KeysOK
<1>5. OrderOK
  BY NoKeysIs DEF Init, OrderOK, Stale
<1>6. StartOK
  BY DEF Init, StartOK, Starting
<1>7. BatchesOK
  BY BoundAssumption DEF Init, BatchesOK
<1> QED BY <1>2, <1>3, <1>4, <1>5, <1>6, <1>7 DEF IInv

LEMMA BatchesKept == BatchesOK /\ [Next]_vars => BatchesOK'
<1> SUFFICES ASSUME BatchesOK, [Next]_vars PROVE BatchesOK'
  OBVIOUS
<1>1. UNCHANGED batches \/ (batches < MaxBatches /\ batches' = batches + 1)
  <2>1. CASE UNCHANGED vars
    BY <2>1 DEF vars, faults
  <2>2. CASE OsRestarts \/ PowerLoss \/ Restart
    BY <2>2 DEF OsRestarts, PowerLoss, Restart, faults
  <2>3. CASE \/ PopulateInternalCertStore \/ CheckForAuthenticationProtocol
             \/ DfciManagerEntry \/ DfciManagerEntryFails \/ SettingAccessCallback
             \/ EndOfDxeCallback \/ EndOfDxeIdle
    BY <2>3 DEF PopulateInternalCertStore, CheckForAuthenticationProtocol, DfciManagerEntry,
                DfciManagerEntryFails, SettingAccessCallback, EndOfDxeCallback, EndOfDxeIdle, faults
  <2>4. CASE \/ QueueMailboxAtEndOfDxe \/ RefuseIdentity \/ EnrollIdentity
             \/ RefusePermissions \/ ApplyNewPermissionsPacket
             \/ DeleteMailbox \/ LkgClean \/ RestoreIdentities \/ CommitIdentities
             \/ RestorePermissions \/ CommitPermissions \/ WriteResult
    BY <2>4 DEF QueueMailboxAtEndOfDxe, RefuseIdentity, EnrollIdentity, RefusePermissions,
                ApplyNewPermissionsPacket, DeleteMailbox, LkgClean, RestoreIdentities,
                CommitIdentities, RestorePermissions, CommitPermissions, WriteResult, faults
  <2>5. CASE \/ AbortSettings \/ ApplyNewSettingsPacket \/ SMID_SaveToFlash
             \/ RefuseUnenroll \/ ProcessUnEnrollPacket \/ ClearSettings
             \/ ResetPermissionsToDefault \/ DeleteKeys \/ InitializeKeys \/ FinalExit
    BY <2>5 DEF AbortSettings, ApplyNewSettingsPacket, SMID_SaveToFlash, RefuseUnenroll,
                ProcessUnEnrollPacket, ClearSettings, ResetPermissionsToDefault, DeleteKeys,
                InitializeKeys, FinalExit, faults
  <2> QED BY <2>1, <2>2, <2>3, <2>4, <2>5 DEF Next, Firmware
<1> QED BY <1>1, BoundAssumption DEF BatchesOK

LEMMA NextIInv == IInv /\ BatchesOK /\ [Next]_vars => IInv'
<1> SUFFICES ASSUME IInv, BatchesOK, [Next]_vars PROVE IInv'
  OBVIOUS
<1>1. CASE UNCHANGED vars
  <2>1. UNCHANGED <<mailbox, ipcvn, mInternalCertStore, mManagerData, pc, stage>>
    BY <1>1 DEF vars, nv, memory, control
  <2>2. \A i \in 1..4 : (Enrolling(i)' <=> Enrolling(i)) /\ (IsFirst(i)' <=> IsFirst(i))
    BY <2>1, EnrollingKept
  <2>3. OrderOK'
    BY <2>1, <2>2 DEF IInv, OrderOK, Tried, Stale
  <2>4. TypeOK' /\ DataOK' /\ KeysOK' /\ StartOK'
    BY <2>1 DEF IInv, TypeOK, DataOK, KeysOK, StartOK, Starting, Stale
  <2> QED BY <2>3, <2>4 DEF IInv
<1>2. CASE OsRestarts \/ PowerLoss \/ Restart
  BY <1>2, RestartKeepsIInv
<1>3. CASE PopulateInternalCertStore \/ CheckForAuthenticationProtocol
  BY <1>3, DriversKeepIInv
<1>4. CASE DfciManagerEntry \/ DfciManagerEntryFails
  BY <1>4, EntryKeepsIInv
<1>5. CASE SettingAccessCallback \/ EndOfDxeCallback \/ EndOfDxeIdle
  BY <1>5, CallbackKeepsIInv
<1>6. CASE QueueMailboxAtEndOfDxe
  BY <1>6, QueueKeepsIInv
<1>7. CASE RefuseIdentity \/ RefusePermissions
  BY <1>7, RefuseKeepsIInv
<1>8. CASE EnrollIdentity
  BY <1>8, EnrollKeepsIInv
<1>9. CASE ApplyNewPermissionsPacket
  BY <1>9, PermissionsKeepIInv
<1>10. CASE Quiet
  BY <1>10, QuietKeepsIInv
<1>11. CASE RestoreIdentities \/ CommitIdentities
  BY <1>11, LkgKeepsIInv
<1>12. CASE ProcessUnEnrollPacket
  BY <1>12, UnenrollKeepsIInv
<1>13. CASE DeleteKeys \/ InitializeKeys
  BY <1>13, ClearKeepsIInv
<1>14. CASE FinalExit
  BY <1>14, ExitKeepsIInv
<1> QED BY <1>1, <1>2, <1>3, <1>4, <1>5, <1>6, <1>7, <1>8, <1>9, <1>10, <1>11, <1>12, <1>13,
           <1>14 DEF Next, Firmware, Quiet

\* A user's certificate is never in _IPCVN without an owner's, whatever batches the
\* OS sends, wherever power fails and whichever writes are refused: the guard in
\* ValidateAndAuthenticatePendingProvisionData, which looks at PopulatedIdentities
\* only, is enough, since a round with a stale bit aborts at its first packet.
THEOREM UsersAlwaysHaveOwner == Spec => []UsersHaveOwner
<1>1. Init => IInv /\ BatchesOK
  BY InitIInv
<1>2. IInv /\ BatchesOK /\ [Next]_vars => (IInv /\ BatchesOK)'
  BY NextIInv, BatchesKept
<1>3. IInv => UsersHaveOwner
  BY DEF IInv, KeysOK, OwnerFirst, UsersHaveOwner
<1> QED BY <1>1, <1>2, <1>3, PTL DEF Spec

\* The model's variables keep their types for every value of the constants.
THEOREM TypesHold == Spec => []TypeOK
<1>1. IInv => TypeOK
  BY DEF IInv
<1>2. IInv /\ BatchesOK /\ [Next]_vars => (IInv /\ BatchesOK)'
  BY NextIInv, BatchesKept
<1> QED BY <1>1, <1>2, InitIInv, PTL DEF Spec

-----------------------------------------------------------------------------
(* RoundHasData: who may still call ProcessMailBoxes.                      *)

Flags == [ui : BOOLEAN, allocated : BOOLEAN, access : BOOLEAN, event : BOOLEAN,
          registered : BOOLEAN, mRebootRequired : BOOLEAN]

\* A callback that is still to come has data to work on, if the entry point
\* registered; SettingAccess is waited for between rounds only.
CallersOK ==
  /\ boot \in Flags
  /\ boot.registered /\ (boot.access \/ boot.event) => boot.allocated
  /\ boot.access => stage = "StartOfBds" /\ pc = 0
  /\ stage = "Undefined" => ~boot.registered

\* The steps of a round change only mRebootRequired.
LEMMA RoundKeepsCallers ==
  ASSUME CallersOK, pc # 0, UNCHANGED stage,
         \E flag \in BOOLEAN : boot' = [boot EXCEPT !.mRebootRequired = flag]
  PROVE  CallersOK'
<1>1. /\ boot' \in Flags /\ boot'.registered = boot.registered /\ boot'.access = boot.access
      /\ boot'.event = boot.event /\ boot'.allocated = boot.allocated
  BY DEF CallersOK, Flags
<1> QED BY <1>1 DEF CallersOK

LEMMA SameFlags ==
  ASSUME CallersOK, UNCHANGED boot
  PROVE  \E flag \in BOOLEAN : boot' = [boot EXCEPT !.mRebootRequired = flag]
<1>1. boot.mRebootRequired \in BOOLEAN /\ boot' = [boot EXCEPT !.mRebootRequired = boot.mRebootRequired]
  BY DEF CallersOK, Flags
<1> QED BY <1>1

LEMMA ResetKeepsCallers == ASSUME Reset PROVE CallersOK'
BY DEF Reset, BootFlags, CallersOK, Flags

LEMMA NextCallers == IInv /\ CallersOK /\ [Next]_vars => CallersOK'
<1> SUFFICES ASSUME IInv, CallersOK, [Next]_vars PROVE CallersOK'
  OBVIOUS
<1>0. boot \in Flags
  BY DEF CallersOK
<1>1. CASE UNCHANGED vars
  BY <1>1 DEF vars, control, CallersOK
<1>2. CASE OsRestarts \/ PowerLoss \/ Restart
  BY <1>2, ResetKeepsCallers DEF OsRestarts, PowerLoss, Restart
<1>3. CASE PopulateInternalCertStore \/ CheckForAuthenticationProtocol \/ EndOfDxeIdle
  <2>1. /\ UNCHANGED boot /\ stage # "StartOfBds" /\ stage' \in {"Permissions", "Entry", "Os"}
    BY <1>3 DEF PopulateInternalCertStore, CheckForAuthenticationProtocol, EndOfDxeIdle
  <2> QED BY <2>1 DEF CallersOK
<1>4. CASE DfciManagerEntry
  <2>1. PICK ui \in BOOLEAN, access \in BOOLEAN :
          /\ boot' = [boot EXCEPT !.allocated = TRUE, !.event = TRUE, !.ui = ui, !.access = access]
          /\ stage' = "StartOfBds" /\ (access => pc' = pc)
    <3>1. boot.ui \in BOOLEAN /\ boot.access = FALSE
      BY <1>0, <1>4 DEF Flags, CallersOK, DfciManagerEntry
    <3>2. CASE /\ \E ui \in BOOLEAN :
                     boot' = [boot EXCEPT !.allocated = TRUE, !.event = TRUE, !.ui = ui]
               /\ ProcessMailBoxes("StartOfBds")
      <4>1. PICK ui \in BOOLEAN :
              boot' = [boot EXCEPT !.allocated = TRUE, !.event = TRUE, !.ui = ui]
        BY <3>2
      <4>2. boot' = [boot EXCEPT !.allocated = TRUE, !.event = TRUE, !.ui = ui, !.access = FALSE]
        BY <1>0, <3>1, <4>1 DEF Flags
      <4>3. boot'.allocated
        BY <1>0, <4>1 DEF Flags
      <4>4. stage' = "StartOfBds"
        BY <3>2, <4>3 DEF ProcessMailBoxes
      <4> QED BY <4>2, <4>4
    <3>3. CASE /\ boot' = [boot EXCEPT !.allocated = TRUE, !.event = TRUE, !.access = TRUE]
               /\ stage' = "StartOfBds" /\ pc' = pc
      <4>1. boot' = [boot EXCEPT !.allocated = TRUE, !.event = TRUE, !.ui = boot.ui, !.access = TRUE]
        BY <1>0, <3>3 DEF Flags
      <4> QED BY <3>1, <3>3, <4>1
    <3> QED BY <1>4, <3>2, <3>3 DEF DfciManagerEntry
  <2>2. pc = 0
    BY <1>4 DEF IInv, StartOK, Starting, DfciManagerEntry
  <2> QED BY <1>0, <2>1, <2>2 DEF CallersOK, Flags
<1>5. CASE DfciManagerEntryFails
  <2>1. PICK created \in BOOLEAN : boot' = [boot EXCEPT !.event = created, !.registered = FALSE]
    BY <1>5 DEF DfciManagerEntryFails
  <2>2. boot' \in Flags /\ ~boot'.registered /\ boot'.access = boot.access
    BY <1>0, <2>1 DEF Flags
  <2> QED BY <1>5, <2>2 DEF DfciManagerEntryFails, CallersOK
<1>6. CASE SettingAccessCallback
  <2>1. PICK ui \in BOOLEAN : boot' = [boot EXCEPT !.access = FALSE, !.ui = boot.ui \/ ui]
    BY <1>6 DEF SettingAccessCallback
  <2>2. /\ boot' \in Flags /\ ~boot'.access /\ boot'.registered = boot.registered
        /\ boot'.event = boot.event /\ boot'.allocated = boot.allocated
    BY <1>0, <2>1 DEF Flags
  <2>3. stage' = "EndOfDxe" \/ (stage' = "Undefined" /\ boot.access /\ ~boot'.allocated)
    BY <1>6 DEF SettingAccessCallback, ProcessMailBoxes
  <2> QED BY <2>2, <2>3 DEF CallersOK
<1>7. CASE EndOfDxeCallback
  <2>1. /\ boot' \in Flags /\ boot'.access = boot.access /\ boot'.registered = boot.registered
        /\ ~boot'.event /\ boot'.allocated = boot.allocated
    BY <1>0, <1>7 DEF Flags, EndOfDxeCallback
  <2>2. /\ stage = "EndOfDxe" /\ boot.event
        /\ stage' = "Os" \/ (stage' = "Undefined" /\ ~boot'.allocated)
    BY <1>7 DEF EndOfDxeCallback, ProcessMailBoxes
  <2> QED BY <2>1, <2>2 DEF CallersOK
<1>8. CASE FinalExit
  <2>1. CASE Reset
    BY <2>1, ResetKeepsCallers
  <2>2. CASE boot' = [boot EXCEPT !.allocated = FALSE, !.event = AfterExit] /\ UNCHANGED stage
    <3>1. /\ boot' \in Flags /\ boot'.access = boot.access /\ boot'.registered = boot.registered
          /\ boot'.event = (boot.event /\ ~boot.registered)
      BY <1>0, <2>2 DEF Flags, AfterExit
    <3>2. pc # 0
      BY <1>8 DEF FinalExit, At
    <3> QED BY <2>2, <3>1, <3>2 DEF CallersOK
  <2> QED BY <1>8, <2>1, <2>2 DEF FinalExit
<1>9. CASE EnrollIdentity \/ ApplyNewSettingsPacket \/ RefuseUnenroll \/ ProcessUnEnrollPacket
  <2>1. pc # 0 /\ UNCHANGED stage
    BY <1>9 DEF EnrollIdentity, ApplyNewSettingsPacket, RefuseUnenroll, ProcessUnEnrollPacket, At
  <2>2. \/ UNCHANGED boot
        \/ \E flag \in BOOLEAN : boot' = [boot EXCEPT !.mRebootRequired = flag]
    <3>1. CASE EnrollIdentity
      BY <3>1 DEF EnrollIdentity
    <3>2. CASE ApplyNewSettingsPacket
      BY <3>2 DEF ApplyNewSettingsPacket
    <3>3. CASE RefuseUnenroll \/ ProcessUnEnrollPacket
      BY <3>3 DEF RefuseUnenroll, ProcessUnEnrollPacket
    <3> QED BY <1>9, <3>1, <3>2, <3>3
  <2> QED BY <2>1, <2>2, SameFlags, RoundKeepsCallers
<1>10. CASE \/ QueueMailboxAtEndOfDxe \/ RefuseIdentity \/ RefusePermissions
            \/ ApplyNewPermissionsPacket \/ DeleteMailbox \/ LkgClean \/ RestoreIdentities
            \/ CommitIdentities \/ RestorePermissions \/ CommitPermissions \/ WriteResult
            \/ AbortSettings \/ SMID_SaveToFlash \/ ClearSettings \/ ResetPermissionsToDefault
            \/ DeleteKeys \/ InitializeKeys
  <2>1. pc # 0 /\ UNCHANGED <<boot, stage>>
    BY <1>10 DEF QueueMailboxAtEndOfDxe, RefuseIdentity, RefusePermissions,
         ApplyNewPermissionsPacket, DeleteMailbox, LkgClean, RestoreIdentities, CommitIdentities,
         RestorePermissions, CommitPermissions, WriteResult, AbortSettings, SMID_SaveToFlash,
         ClearSettings, ResetPermissionsToDefault, DeleteKeys, InitializeKeys, At
  <2> QED BY <2>1, SameFlags, RoundKeepsCallers
<1> QED BY <1>1, <1>2, <1>3, <1>4, <1>5, <1>6, <1>7, <1>8, <1>9, <1>10 DEF Next, Firmware

\* No callback runs ProcessMailBoxes on the null pointer that FreeManagerData leaves,
\* when the entry point registered: the SettingAccess and EndOfDxe callbacks that are
\* still to come have their data in every boot.
THEOREM RoundsHaveData == Spec => []RoundHasData
<1>1. Init => CallersOK
  BY DEF Init, CallersOK, BootFlags, Flags
<1>2. IInv /\ BatchesOK /\ CallersOK /\ [Next]_vars => (IInv /\ BatchesOK /\ CallersOK)'
  BY NextIInv, BatchesKept, NextCallers
<1>3. CallersOK => RoundHasData
  BY DEF CallersOK, RoundHasData
<1> QED BY <1>1, <1>2, <1>3, InitIInv, PTL DEF Spec
=============================================================================
