-------------------------- MODULE DfciReplayProofs --------------------------
(***************************************************************************)
(* ReplayOnlyOfPartner for every set of batches and any number of faults.  *)
(* A packet is applied in memory long before it is stored, and the round   *)
(* may stop in between.  The argument is about the window in which it      *)
(* waits: it ends with the deletion of its mailbox, and no step inside the *)
(* window stores a packet of its kind.                                     *)
(***************************************************************************)
EXTENDS DfciProofs

Firsts == {"IDENTITY", "PERMISSIONS2"}   \* the boxes of a pair completed first

\* Steps between the one that applies the packet d of b and the one that deletes its
\* mailbox; 0 is the wait for EndOfDxe.
Window(b, d) ==
  CASE b = "PERMISSIONS2" -> 0..5
    [] b = "IDENTITY" /\ Unenroll(b, d) -> 34..38
    [] b = "IDENTITY" /\ ~Unenroll(b, d) -> 0..11

\* A packet applied in memory only is within its window, or its mailbox is gone.
WaitsOK ==
  \A b \in Firsts : (\E t \in pending : t[2] = b) =>
    \/ mailbox[b].sid = 0
    \/ Present(mManagerData[b]) /\ pc \in Window(b, mManagerData[b])

\* No packet has a number that is still to be given.
NumbersOK ==
  /\ batches \in Nat
  /\ \A b \in Boxes : mailbox[b].sid \in 0..batches /\ mManagerData[b].Packet.sid \in 0..batches
  /\ \A t \in pending \cup stored : t[1] \in 0..batches

\* The step of a round has something to do.
NeededOK == pc # 0 => Needed(pc, mManagerData, mailbox)

\* A mailbox holds the packet that was read from it, while it is there; ClearDFCI runs
\* for a packet by which the owner leaves.
SourceOK ==
  \A b \in Boxes :
    /\ Present(mManagerData[b]) => mailbox[b] \in {mManagerData[b].Packet, NoPacket}
    /\ mManagerData[b].State = "CLEARING" => OwnerLeaves(b, mManagerData[b].Packet)

ReplayInv ==
  /\ WaitsOK /\ NumbersOK /\ NeededOK /\ SourceOK /\ ReplayOnlyOfPartner
  /\ Starting => pending = {}

-----------------------------------------------------------------------------
(* The steps at the borders of the windows.                                *)

\* Program begins with s, of length m; t, of length n, follows its first m steps.
Begins(s, m)     == \A i \in 1..m : Program[i] = s[i]
Follows(t, m, n) == \A i \in (m + 1)..(m + n) : i - m \in 1..n /\ Program[i] = t[i - m]

\* The parts of a sequence that Program begins with.
LEMMA Split ==
  ASSUME NEW s, NEW t, NEW m \in Nat, NEW n \in Nat, Shape(s, m), Later(t, n),
         Begins(s \o t, m + n)
  PROVE  Begins(s, m) /\ Follows(t, m, n)
<1>1. s \in Seq(Triples) /\ t \in Seq(Triples) /\ Len(s) = m /\ Len(t) = n
  BY DEF Shape, Later
<1>2. /\ \A i \in 1..m : (s \o t)[i] = s[i]
      /\ \A i \in (m + 1)..(m + n) : i - m \in 1..n /\ (s \o t)[i] = t[i - m]
  BY <1>1, Concat, Zenon
<1>3. (\A i \in 1..m : i \in 1..(m + n)) /\ (\A i \in (m + 1)..(m + n) : i \in 1..(m + n))
  OBVIOUS
<1> QED BY <1>2, <1>3 DEF Begins, Follows

\* The steps of an unenroll.
LEMMA UnenrollIs ==
  ASSUME NEW b \in Boxes
  PROVE  /\ UnenrollSteps(b)[1] = <<"unenroll", b, "unenroll">>
         /\ UnenrollSteps(b)[2] = <<"clearSettings", b, "clearing">>
         /\ UnenrollSteps(b)[3] = <<"clearPermissions", b, "clearing">>
         /\ UnenrollSteps(b)[4] = <<"deleteKeys", b, "clearing">>
         /\ UnenrollSteps(b)[5] = <<"initializeKeys", b, "clearing">>
         /\ UnenrollSteps(b)[6] = <<"delete", b, "unenroll">>
         /\ UnenrollSteps(b)[7] = <<"lkg", b, "unenroll">>
         /\ UnenrollSteps(b)[8] = <<"result", b, "unenroll">>
<1> DEFINE clear == << <<"unenroll", b, "unenroll">>, <<"clearSettings", b, "clearing">>,
                       <<"clearPermissions", b, "clearing">>, <<"deleteKeys", b, "clearing">>,
                       <<"initializeKeys", b, "clearing">> >>
           complete == CompletePacket(b, "unenroll")
<1>1. /\ <<"unenroll", b, "unenroll">> \in Triples /\ <<"clearSettings", b, "clearing">> \in Triples
      /\ <<"clearPermissions", b, "clearing">> \in Triples
      /\ <<"deleteKeys", b, "clearing">> \in Triples /\ <<"initializeKeys", b, "clearing">> \in Triples
  BY DEF Triples, Ops, Kinds
<1>2. clear \in Seq(Triples) /\ Len(clear) = 5
  BY <1>1
<1>3. complete \in Seq(Triples) /\ Len(complete) = 3
  BY CompleteLater DEF Later, Kinds
<1>4. /\ \A i \in 1..5 : (clear \o complete)[i] = clear[i]
      /\ \A i \in (5 + 1)..(5 + 3) : i - 5 \in 1..3 /\ (clear \o complete)[i] = complete[i - 5]
  <2> HIDE DEF clear, complete
  <2>1. /\ \A i \in 1..Len(clear) : (clear \o complete)[i] = clear[i]
        /\ \A i \in (Len(clear) + 1)..(Len(clear) + Len(complete)) :
             /\ i - Len(clear) \in 1..Len(complete)
             /\ (clear \o complete)[i] = complete[i - Len(clear)]
    BY <1>2, <1>3, Concat, Zenon
  <2> QED BY <1>2, <1>3, <2>1, Zenon
<1>5. UnenrollSteps(b) = clear \o complete
  BY DEF UnenrollSteps
<1>6. /\ complete[1] = <<"delete", b, "unenroll">> /\ complete[2] = <<"lkg", b, "unenroll">>
      /\ complete[3] = <<"result", b, "unenroll">>
  BY DEF CompletePacket
<1>7. /\ (clear \o complete)[6] = complete[1] /\ (clear \o complete)[7] = complete[2]
      /\ (clear \o complete)[8] = complete[3]
  <2> HIDE DEF clear, complete
  <2>1. /\ 6 \in (5 + 1)..(5 + 3) /\ 7 \in (5 + 1)..(5 + 3) /\ 8 \in (5 + 1)..(5 + 3)
        /\ 6 - 5 = 1 /\ 7 - 5 = 2 /\ 8 - 5 = 3
    OBVIOUS
  <2> QED BY <1>4, <2>1, Zenon
<1>8. \A i \in {1, 2, 3, 4, 5} : (clear \o complete)[i] = clear[i]
  <2> HIDE DEF clear, complete
  <2>1. \A i \in {1, 2, 3, 4, 5} : i \in 1..5
    OBVIOUS
  <2> QED BY <1>4, <2>1, Zenon
<1>9. /\ clear[1] = <<"unenroll", b, "unenroll">> /\ clear[2] = <<"clearSettings", b, "clearing">>
      /\ clear[3] = <<"clearPermissions", b, "clearing">> /\ clear[4] = <<"deleteKeys", b, "clearing">>
      /\ clear[5] = <<"initializeKeys", b, "clearing">>
  OBVIOUS
<1> HIDE DEF clear, complete
<1> QED BY <1>5, <1>6, <1>7, <1>8, <1>9

\* The rows that the argument needs.
\* The steps of an unenrolment are of their kinds; the others are minor.
Fits(t)  == /\ t[1] = "unenroll" => t[3] = "unenroll"
            /\ t[1] = "initializeKeys" => t[3] = "clearing"
Minor(t) == t[1] \notin {"exit", "unenroll", "initializeKeys"}

LEMMA Rows ==
  /\ Program[5] = <<"delete", "PERMISSIONS2", "enroll">>
  /\ Program[6] = <<"lkg", "PERMISSIONS2", "enroll">>
  /\ Program[7] = <<"result", "PERMISSIONS2", "enroll">>
  /\ Program[8] = <<"delete", "PERMISSIONS", "enroll">>
  /\ Program[9] = <<"lkg", "PERMISSIONS", "enroll">>
  /\ Program[10] = <<"result", "PERMISSIONS", "enroll">>
  /\ Program[11] = <<"delete", "IDENTITY", "enroll">>
  /\ \A i \in 34..37 : Program[i][1] \in {"clearSettings", "clearPermissions", "deleteKeys",
                                         "initializeKeys"}
  /\ Program[38] = <<"delete", "IDENTITY", "unenroll">>
  /\ Program[33] = <<"unenroll", "IDENTITY", "unenroll">>
  /\ \A i \in 1..47 : Program[i][1] = "unenroll"
                      => /\ Program[i][2] # "PERMISSIONS2"
                         /\ Program[i][2] = "IDENTITY" => i = 33
  /\ \A i \in 1..46 : Program[i][1] # "exit"
  /\ \A i \in 1..47 : Fits(Program[i])
<1> DEFINE p0 == << <<"process", "IDENTITY", "enroll">>, <<"process", "PERMISSIONS", "enroll">>,
                    <<"process", "IDENTITY2", "enroll">>, <<"process", "PERMISSIONS2", "enroll">> >>
           c1 == CompletePacket("PERMISSIONS2", "enroll")
           c2 == CompletePacket("PERMISSIONS", "enroll")
           c3 == CompletePacket("IDENTITY", "enroll")
           c4 == CompletePacket("IDENTITY2", "enroll")
           s5 == SettingsSteps("SETTINGS")
           s6 == SettingsSteps("SETTINGS2")
           u7 == UnenrollSteps("IDENTITY2")
           u8 == UnenrollSteps("IDENTITY")
           d9 == DeleteAllMailboxes
           last == << <<"exit", "SETTINGS2", "always">> >>
           p1 == p0 \o c1
           p2 == p1 \o c2
           p3 == p2 \o c3
           p4 == p3 \o c4
           p5 == p4 \o s5
           p6 == p5 \o s6
           p7 == p6 \o u7
           p8 == p7 \o u8
           p9 == p8 \o d9
<1>b. /\ "IDENTITY" \in Boxes /\ "IDENTITY2" \in Boxes /\ "PERMISSIONS" \in Boxes
      /\ "PERMISSIONS2" \in Boxes /\ "SETTINGS" \in Boxes /\ "SETTINGS2" \in Boxes
  BY DEF Boxes, LkgBoxes, IdentityBoxes, PermissionBoxes, SettingsBoxes
<1>k. "enroll" \in Kinds
  BY DEF Kinds
<1>p. Program = p9 \o last
  BY DEF Program
<1>a. Shape(p0, 4)
  <2>1. \A b \in Boxes : <<"process", b, "enroll">> \in Triples
    BY DEF Triples, Ops, Kinds
  <2>2. p0 \in Seq(Triples)
    BY <2>1, <1>b
  <2> QED BY <2>2 DEF Shape
<1>e. Later(last, 1)
  <2>1. <<"exit", "SETTINGS2", "always">> \in Triples
    BY <1>b DEF Triples, Ops, Kinds
  <2>2. last \in Seq(Triples)
    BY <2>1
  <2> QED BY <2>2 DEF Later
<1>c. Later(c1, 3) /\ Later(c2, 3) /\ Later(c3, 3) /\ Later(c4, 3)
  BY <1>b, <1>k, CompleteLater
<1>s. Later(s5, 4) /\ Later(s6, 4) /\ Later(u7, 8) /\ Later(u8, 8) /\ Later(d9, 6)
  BY <1>b, SettingsLater, UnenrollLater, DeleteLater
<1>q. /\ c1[1] = <<"delete", "PERMISSIONS2", "enroll">> /\ c1[2] = <<"lkg", "PERMISSIONS2", "enroll">>
      /\ c1[3] = <<"result", "PERMISSIONS2", "enroll">>
      /\ c2[1] = <<"delete", "PERMISSIONS", "enroll">> /\ c2[2] = <<"lkg", "PERMISSIONS", "enroll">>
      /\ c2[3] = <<"result", "PERMISSIONS", "enroll">> /\ c3[1] = <<"delete", "IDENTITY", "enroll">>
  BY DEF CompletePacket
<1> DEFINE Other(t, n) == \A j \in 1..n : Minor(t[j])
<1>o. /\ Other(p0, 4) /\ Other(c1, 3) /\ Other(c2, 3) /\ Other(c3, 3) /\ Other(c4, 3)
      /\ Other(s5, 4) /\ Other(s6, 4) /\ Other(d9, 6)
  BY DEF CompletePacket, SettingsSteps, DeleteAllMailboxes, Minor
<1>t. last[1][1] = "exit"
  OBVIOUS
<1>u. \A j \in 1..8 : u7[j][1] # "exit" /\ u7[j][2] = "IDENTITY2" /\ Fits(u7[j])
  <2>1. \A j \in {1, 2, 3, 4, 5, 6, 7, 8} : u7[j][1] # "exit" /\ u7[j][2] = "IDENTITY2" /\ Fits(u7[j])
    <3> HIDE DEF u7
    <3>1. /\ u7[1] = <<"unenroll", "IDENTITY2", "unenroll">>
          /\ u7[2] = <<"clearSettings", "IDENTITY2", "clearing">>
          /\ u7[3] = <<"clearPermissions", "IDENTITY2", "clearing">>
          /\ u7[4] = <<"deleteKeys", "IDENTITY2", "clearing">>
          /\ u7[5] = <<"initializeKeys", "IDENTITY2", "clearing">>
          /\ u7[6] = <<"delete", "IDENTITY2", "unenroll">>
          /\ u7[7] = <<"lkg", "IDENTITY2", "unenroll">>
          /\ u7[8] = <<"result", "IDENTITY2", "unenroll">>
      BY <1>b, UnenrollIs, Zenon DEF u7
    <3> QED BY <3>1 DEF Fits
  <2>2. \A j \in 1..8 : j \in {1, 2, 3, 4, 5, 6, 7, 8}
    OBVIOUS
  <2> HIDE DEF u7
  <2> QED BY <2>1, <2>2
<1>v. /\ u8[1] = <<"unenroll", "IDENTITY", "unenroll">>
      /\ u8[2] = <<"clearSettings", "IDENTITY", "clearing">>
      /\ u8[3] = <<"clearPermissions", "IDENTITY", "clearing">>
      /\ u8[4] = <<"deleteKeys", "IDENTITY", "clearing">>
      /\ u8[5] = <<"initializeKeys", "IDENTITY", "clearing">>
      /\ u8[6] = <<"delete", "IDENTITY", "unenroll">>
      /\ u8[7] = <<"lkg", "IDENTITY", "unenroll">>
      /\ u8[8] = <<"result", "IDENTITY", "unenroll">>
  BY <1>b, UnenrollIs, Zenon
<1> HIDE DEF p0, c1, c2, c3, c4, s5, s6, u7, u8, d9, last
<1>1. Shape(p1, 4 + 3)
  BY <1>a, <1>c, ShapeConcat
<1> HIDE DEF p1
<1>2. Shape(p2, 7 + 3)
  BY <1>1, <1>c, ShapeConcat
<1> HIDE DEF p2
<1>3. Shape(p3, 10 + 3)
  BY <1>2, <1>c, ShapeConcat
<1> HIDE DEF p3
<1>4. Shape(p4, 13 + 3)
  BY <1>3, <1>c, ShapeConcat
<1> HIDE DEF p4
<1>5. Shape(p5, 16 + 4)
  BY <1>4, <1>s, ShapeConcat
<1> HIDE DEF p5
<1>6. Shape(p6, 20 + 4)
  BY <1>5, <1>s, ShapeConcat
<1> HIDE DEF p6
<1>7. Shape(p7, 24 + 8)
  BY <1>6, <1>s, ShapeConcat
<1> HIDE DEF p7
<1>8. Shape(p8, 32 + 8)
  BY <1>7, <1>s, ShapeConcat
<1> HIDE DEF p8
<1>9. Shape(p9, 40 + 6)
  BY <1>8, <1>s, ShapeConcat
<1> HIDE DEF p9
<1>19. Begins(p9, 46) /\ Follows(last, 46, 1)
  <2>1. Shape(p9, 46) /\ Begins(p9 \o last, 46 + 1)
    BY <1>9, <1>p DEF Begins
  <2> QED BY <2>1, <1>e, Split
<1>18. Begins(p8, 40) /\ Follows(d9, 40, 6)
  <2>1. Shape(p8, 40) /\ Begins(p8 \o d9, 40 + 6)
    BY <1>8, <1>19 DEF p9
  <2> QED BY <2>1, <1>s, Split
<1>17. Begins(p7, 32) /\ Follows(u8, 32, 8)
  <2>1. Shape(p7, 32) /\ Begins(p7 \o u8, 32 + 8)
    BY <1>7, <1>18 DEF p8
  <2> QED BY <2>1, <1>s, Split
<1>16. Begins(p6, 24) /\ Follows(u7, 24, 8)
  <2>1. Shape(p6, 24) /\ Begins(p6 \o u7, 24 + 8)
    BY <1>6, <1>17 DEF p7
  <2> QED BY <2>1, <1>s, Split
<1>15. Begins(p5, 20) /\ Follows(s6, 20, 4)
  <2>1. Shape(p5, 20) /\ Begins(p5 \o s6, 20 + 4)
    BY <1>5, <1>16 DEF p6
  <2> QED BY <2>1, <1>s, Split
<1>14. Begins(p4, 16) /\ Follows(s5, 16, 4)
  <2>1. Shape(p4, 16) /\ Begins(p4 \o s5, 16 + 4)
    BY <1>4, <1>15 DEF p5
  <2> QED BY <2>1, <1>s, Split
<1>13. Begins(p3, 13) /\ Follows(c4, 13, 3)
  <2>1. Shape(p3, 13) /\ Begins(p3 \o c4, 13 + 3)
    BY <1>3, <1>14 DEF p4
  <2> QED BY <2>1, <1>c, Split
<1>12. Begins(p2, 10) /\ Follows(c3, 10, 3)
  <2>1. Shape(p2, 10) /\ Begins(p2 \o c3, 10 + 3)
    BY <1>2, <1>13 DEF p3
  <2> QED BY <2>1, <1>c, Split
<1>11. Begins(p1, 7) /\ Follows(c2, 7, 3)
  <2>1. Shape(p1, 7) /\ Begins(p1 \o c2, 7 + 3)
    BY <1>1, <1>12 DEF p2
  <2> QED BY <2>1, <1>c, Split
<1>10. Begins(p0, 4) /\ Follows(c1, 4, 3)
  <2>1. Shape(p0, 4) /\ Begins(p0 \o c1, 4 + 3)
    BY <1>a, <1>11 DEF p1
  <2> QED BY <2>1, <1>c, Split
<1>20. /\ Program[5] = c1[1] /\ Program[6] = c1[2] /\ Program[7] = c1[3]
       /\ Program[8] = c2[1] /\ Program[9] = c2[2] /\ Program[10] = c2[3] /\ Program[11] = c3[1]
  <2>1. /\ 5 \in (4 + 1)..(4 + 3) /\ 6 \in (4 + 1)..(4 + 3) /\ 7 \in (4 + 1)..(4 + 3)
        /\ 5 - 4 = 1 /\ 6 - 4 = 2 /\ 7 - 4 = 3
        /\ 8 \in (7 + 1)..(7 + 3) /\ 9 \in (7 + 1)..(7 + 3) /\ 10 \in (7 + 1)..(7 + 3)
        /\ 8 - 7 = 1 /\ 9 - 7 = 2 /\ 10 - 7 = 3 /\ 11 \in (10 + 1)..(10 + 3) /\ 11 - 10 = 1
    OBVIOUS
  <2> QED BY <1>10, <1>11, <1>12, <2>1, Zenon DEF Follows
<1>21. /\ Program[33] = u8[1] /\ Program[34] = u8[2] /\ Program[35] = u8[3]
       /\ Program[36] = u8[4] /\ Program[37] = u8[5] /\ Program[38] = u8[6]
       /\ Program[39] = u8[7] /\ Program[40] = u8[8]
  <2>1. /\ \A i \in {33, 34, 35, 36, 37, 38, 39, 40} : i \in (32 + 1)..(32 + 8)
        /\ 33 - 32 = 1 /\ 34 - 32 = 2 /\ 35 - 32 = 3 /\ 36 - 32 = 4 /\ 37 - 32 = 5
        /\ 38 - 32 = 6 /\ 39 - 32 = 7 /\ 40 - 32 = 8
    OBVIOUS
  <2>2. \A i \in {33, 34, 35, 36, 37, 38, 39, 40} : Program[i] = u8[i - 32]
    BY <1>17, <2>1, Zenon DEF Follows
  <2> QED BY <2>1, <2>2
<1>22. \A i \in 34..37 : Program[i][1] \in {"clearSettings", "clearPermissions", "deleteKeys",
                                           "initializeKeys"}
  <2>1. \A i \in 34..37 : i = 34 \/ i = 35 \/ i = 36 \/ i = 37
    OBVIOUS
  <2> QED BY <1>21, <1>v, <2>1
<1>23. \A i \in 1..24 : Minor(Program[i])
  <2>1. \A i \in 1..4 : Minor(Program[i])
    BY <1>10, <1>o DEF Begins
  <2>2. \A i \in (4 + 1)..(4 + 3) : Minor(Program[i])
    BY <1>10, <1>o, Zenon DEF Follows
  <2>3. \A i \in (7 + 1)..(7 + 3) : Minor(Program[i])
    BY <1>11, <1>o, Zenon DEF Follows
  <2>4. \A i \in (10 + 1)..(10 + 3) : Minor(Program[i])
    BY <1>12, <1>o, Zenon DEF Follows
  <2>5. \A i \in (13 + 1)..(13 + 3) : Minor(Program[i])
    BY <1>13, <1>o, Zenon DEF Follows
  <2>6. \A i \in (16 + 1)..(16 + 4) : Minor(Program[i])
    BY <1>14, <1>o, Zenon DEF Follows
  <2>7. \A i \in (20 + 1)..(20 + 4) : Minor(Program[i])
    BY <1>15, <1>o, Zenon DEF Follows
  <2>8. \A i \in 1..24 : \/ i \in 1..4 \/ i \in (4 + 1)..(4 + 3) \/ i \in (7 + 1)..(7 + 3)
                         \/ i \in (10 + 1)..(10 + 3) \/ i \in (13 + 1)..(13 + 3)
                         \/ i \in (16 + 1)..(16 + 4) \/ i \in (20 + 1)..(20 + 4)
    OBVIOUS
  <2> QED BY <2>1, <2>2, <2>3, <2>4, <2>5, <2>6, <2>7, <2>8, Zenon
<1>24. \A i \in 25..32 : Program[i][1] # "exit" /\ Program[i][2] = "IDENTITY2" /\ Fits(Program[i])
  <2>1. \A i \in (24 + 1)..(24 + 8) : Program[i][1] # "exit" /\ Program[i][2] = "IDENTITY2" /\ Fits(Program[i])
    BY <1>16, <1>u, Zenon DEF Follows
  <2>2. \A i \in 25..32 : i \in (24 + 1)..(24 + 8)
    OBVIOUS
  <2> QED BY <2>1, <2>2
<1>25. \A i \in 33..40 : /\ Program[i][1] # "exit" /\ (Program[i][1] = "unenroll" => i = 33)
                         /\ Fits(Program[i])
  <2>1. \A i \in 33..40 : \/ i = 33 \/ i = 34 \/ i = 35 \/ i = 36 \/ i = 37 \/ i = 38 \/ i = 39
                          \/ i = 40
    OBVIOUS
  <2> QED BY <1>21, <1>v, <2>1 DEF Fits
<1>26. \A i \in 41..46 : Minor(Program[i])
  <2>1. \A i \in (40 + 1)..(40 + 6) : Minor(Program[i])
    BY <1>18, <1>o, Zenon DEF Follows
  <2>2. \A i \in 41..46 : i \in (40 + 1)..(40 + 6)
    OBVIOUS
  <2> QED BY <2>1, <2>2
<1>27. Program[47][1] # "unenroll" /\ Fits(Program[47])
  <2>1. 47 \in (46 + 1)..(46 + 1) /\ 47 - 46 = 1
    OBVIOUS
  <2>2. Program[47] = last[1]
    BY <1>19, <2>1, Zenon DEF Follows
  <2> QED BY <1>t, <2>2 DEF Fits
<1>28. /\ \A i \in 1..47 : i \in 1..24 \/ i \in 25..32 \/ i \in 33..40 \/ i \in 41..46 \/ i = 47
       /\ \A i \in 1..46 : i \in 1..24 \/ i \in 25..32 \/ i \in 33..40 \/ i \in 41..46
  OBVIOUS
<1>29. \A i \in 1..47 : Program[i][1] = "unenroll"
                         => /\ Program[i][2] # "PERMISSIONS2"
                            /\ Program[i][2] = "IDENTITY" => i = 33
  <2>1. Program[33][2] # "PERMISSIONS2"
    BY <1>21, <1>v
  <2> QED BY <1>23, <1>24, <1>25, <1>26, <1>27, <1>28, <2>1 DEF Minor
<1>30. \A i \in 1..46 : Program[i][1] # "exit"
  BY <1>23, <1>24, <1>25, <1>26, <1>28 DEF Minor
<1>31. \A i \in 1..47 : Fits(Program[i])
  <2>1. \A t : Minor(t) => Fits(t)
    BY DEF Minor, Fits
  <2> QED BY <1>23, <1>24, <1>25, <1>26, <1>27, <1>28, <2>1, Zenon
<1> QED BY <1>20, <1>q, <1>21, <1>v, <1>22, <1>29, <1>30, <1>31, Zenon

\* What the windows hold: nothing that applies a packet or stores one of their kind.
LEMMA Inside ==
  /\ \A i \in 5..11 : /\ Program[i][1] \in {"delete", "lkg", "result"}
                      /\ Program[i][1] = "lkg" => i \in {6, 9} /\ Program[i][2] \in PermissionBoxes
  /\ \A i \in 34..38 : Program[i][1] \in {"clearSettings", "clearPermissions", "deleteKeys",
                                         "initializeKeys", "delete"}
<1>1. \A i \in 5..11 : i = 5 \/ i = 6 \/ i = 7 \/ i = 8 \/ i = 9 \/ i = 10 \/ i = 11
  OBVIOUS
<1>2. ASSUME NEW i \in 5..11
      PROVE  /\ Program[i][1] \in {"delete", "lkg", "result"}
             /\ Program[i][1] = "lkg" => i \in {6, 9} /\ Program[i][2] \in PermissionBoxes
  BY <1>1, Rows DEF PermissionBoxes
<1>3. \A i \in 34..38 : i \in 34..37 \/ i = 38
  OBVIOUS
<1>4. ASSUME NEW i \in 34..38
      PROVE  Program[i][1] \in {"clearSettings", "clearPermissions", "deleteKeys",
                               "initializeKeys", "delete"}
  BY <1>3, Rows
<1> QED BY <1>2, <1>4

LEMMA WindowIs ==
  ASSUME NEW d
  PROVE  /\ Window("PERMISSIONS2", d) = 0..5 /\ ~Unenroll("PERMISSIONS2", d)
         /\ Unenroll("IDENTITY", d) => Window("IDENTITY", d) = 34..38
         /\ ~Unenroll("IDENTITY", d) => Window("IDENTITY", d) = 0..11
BY DEF Window, Unenroll, IdentityBoxes

-----------------------------------------------------------------------------
(* Where Goto leads.                                                       *)

LEMMA GotoSkips ==
  ASSUME NEW k \in Nat, NEW i \in 1..47, k <= i, Goto(k), Needed(i, mManagerData', mailbox')
  PROVE  pc' \in k..i
<1>1. /\ pc' \in k..47 /\ \A j \in k..(pc' - 1) : ~Needed(j, mManagerData', mailbox')
  BY Steps DEF Goto
<1>2. ~(i \in k..(pc' - 1))
  BY <1>1
<1>3. pc' \in Int
  BY <1>1
<1>4. \A q \in Int : q \in k..47 /\ ~(i \in k..(q - 1)) => q \in k..i
  OBVIOUS
<1> QED BY <1>1, <1>2, <1>3, <1>4

LEMMA GotoNeeded == ASSUME NEW k \in Nat, Goto(k) PROVE NeededOK'
BY DEF Goto, NeededOK

\* From a step that processes packets, or from the first one, the round stops at the
\* deletion of the mailbox at the latest.
LEMMA GotoFirsts ==
  ASSUME NEW k \in 1..5, NEW b \in Firsts, Goto(k),
         Present(mManagerData'[b]), ~Unenroll(b, mManagerData'[b])
  PROVE  pc' \in Window(b, mManagerData'[b])
<1>1. CASE b = "PERMISSIONS2"
  <2>1. Needed(5, mManagerData', mailbox')
    BY <1>1, Rows DEF Needed
  <2>2. pc' \in k..5
    BY <2>1, GotoSkips
  <2> QED BY <1>1, <2>2, WindowIs
<1>2. CASE b = "IDENTITY"
  <2>1. Needed(11, mManagerData', mailbox')
    BY <1>2, Rows DEF Needed
  <2>2. pc' \in k..11
    BY <2>1, GotoSkips
  <2> QED BY <1>2, <2>2, WindowIs
<1> QED BY <1>1, <1>2 DEF Firsts

\* Within the window of an unenroll.
LEMMA GotoUnenroll ==
  ASSUME NEW k \in 34..38, Goto(k), Present(mManagerData'["IDENTITY"]),
         Unenroll("IDENTITY", mManagerData'["IDENTITY"])
  PROVE  pc' \in Window("IDENTITY", mManagerData'["IDENTITY"])
<1>1. Needed(38, mManagerData', mailbox')
  BY Rows DEF Needed
<1>2. pc' \in k..38
  BY <1>1, GotoSkips
<1> QED BY <1>2, WindowIs

\* Later within the window of a packet that enrolls.
LEMMA GotoEnroll ==
  ASSUME NEW k \in 5..11, Goto(k), Present(mManagerData'["IDENTITY"]),
         ~Unenroll("IDENTITY", mManagerData'["IDENTITY"])
  PROVE  pc' \in Window("IDENTITY", mManagerData'["IDENTITY"])
<1>1. Needed(11, mManagerData', mailbox')
  BY Rows DEF Needed
<1>2. pc' \in k..11
  BY <1>1, GotoSkips
<1> QED BY <1>2, WindowIs

-----------------------------------------------------------------------------
(* What the steps of a round have in common.                               *)

LEMMA PacketsKept ==
  ASSUME DataKept, NEW b \in Boxes
  PROVE  /\ mManagerData'[b].Packet = mManagerData[b].Packet
         /\ Present(mManagerData'[b]) <=> Present(mManagerData[b])
         /\ Unenroll(b, mManagerData'[b]) <=> Unenroll(b, mManagerData[b])
BY DEF DataKept, Present, Unenroll

LEMMA FirstsAre == Firsts \subseteq Boxes /\ Firsts = LkgBoxes \ {"PERMISSIONS", "IDENTITY2"}
BY DEF Firsts, Boxes, LkgBoxes, IdentityBoxes, PermissionBoxes

\* The step deletes the mailbox of its own packet, or none.
MailboxStep == mailbox' = mailbox \/ mailbox' = [mailbox EXCEPT ![box] = NoPacket]

LEMMA MailboxesGo ==
  ASSUME IInv, MailboxStep, NEW b \in Boxes
  PROVE  mailbox'[b] = mailbox[b] \/ (mailbox'[b] = NoPacket /\ mailbox'[b].sid = 0)
<1>1. mailbox \in [Boxes -> Packets] /\ NoPacket.sid = 0
  BY DEF IInv, TypeOK, NoPacket
<1> QED BY <1>1 DEF MailboxStep

\* ClearDFCI begins only for a packet by which the owner leaves.
ClearingStep ==
  \A b \in Boxes : mManagerData'[b].State = "CLEARING"
    => mManagerData[b].State = "CLEARING" \/ OwnerLeaves(b, mManagerData[b].Packet)

LEMMA BecomesClearing ==
  ASSUME TypeOK, box \in Boxes, NEW state, NEW code, NEW dirty, Becomes(state, code, dirty),
         state = "CLEARING" => this.State = "CLEARING"
  PROVE  ClearingStep
<1>1. mManagerData \in [Boxes -> Data]
  BY DEF TypeOK
<1>2. ASSUME NEW b \in Boxes
      PROVE  mManagerData'[b].State = IF b = box THEN state ELSE mManagerData[b].State
  BY <1>1 DEF Becomes, Data
<1> QED BY <1>2 DEF ClearingStep, this

LEMMA SourceKept ==
  ASSUME IInv, SourceOK, DataKept, MailboxStep, ClearingStep
  PROVE  SourceOK'
<1>1. ASSUME NEW b \in Boxes
      PROVE  /\ Present(mManagerData'[b]) => mailbox'[b] \in {mManagerData'[b].Packet, NoPacket}
             /\ mManagerData'[b].State = "CLEARING" => OwnerLeaves(b, mManagerData'[b].Packet)
  BY MailboxesGo, PacketsKept DEF SourceOK, ClearingStep
<1> QED BY <1>1 DEF SourceOK

LEMMA NumbersKept ==
  ASSUME IInv, NumbersOK, DataKept, UNCHANGED batches, box \in Boxes, MailboxStep,
         pending' \subseteq pending \cup {<<packet.sid, box>>},
         stored' \subseteq stored \cup pending \cup {<<packet.sid, box>>}
  PROVE  NumbersOK'
<1>1. 0 \in 0..batches
  BY DEF NumbersOK
<1>2. ASSUME NEW b \in Boxes
      PROVE  mailbox'[b].sid \in 0..batches /\ mManagerData'[b].Packet.sid \in 0..batches
  BY <1>1, MailboxesGo, PacketsKept DEF NumbersOK
<1>3. ASSUME NEW t \in pending' \cup stored' PROVE t[1] \in 0..batches
  <2>1. CASE t \in pending \cup stored
    BY <2>1 DEF NumbersOK
  <2>2. CASE t = <<packet.sid, box>>
    BY <2>2 DEF NumbersOK, packet, this
  <2> QED BY <2>1, <2>2
<1> QED BY <1>2, <1>3 DEF NumbersOK

LEMMA PartnerKept ==
  ASSUME IInv, ReplayOnlyOfPartner, MailboxStep, UNCHANGED stored
  PROVE  ReplayOnlyOfPartner'
<1>1. ASSUME NEW b \in LkgBoxes, mailbox'[b].sid # 0, <<mailbox'[b].sid, b>> \in stored
      PROVE  b \in {"PERMISSIONS", "IDENTITY2"} \/ OwnerLeaves(b, mailbox'[b])
  <2>1. mailbox'[b] = mailbox[b]
    BY <1>1, MailboxesGo DEF Boxes
  <2> QED BY <1>1, <2>1 DEF ReplayOnlyOfPartner
<1> QED BY <1>1 DEF ReplayOnlyOfPartner

\* A step of a round keeps ReplayInv when it keeps these parts.
LEMMA RoundReplay ==
  ASSUME IInv, ReplayInv, pc # 0, box \in Boxes, UNCHANGED <<stage, batches>>, DataKept, MailboxStep,
         ClearingStep, pending' \subseteq pending \cup {<<packet.sid, box>>},
         stored' \subseteq stored \cup pending \cup {<<packet.sid, box>>},
         WaitsOK', NeededOK', ReplayOnlyOfPartner'
  PROVE  ReplayInv'
<1>1. NumbersOK' /\ SourceOK'
  BY NumbersKept, SourceKept DEF ReplayInv
<1>2. ~Starting'
  BY DEF IInv, StartOK, Starting
<1> QED BY <1>1, <1>2 DEF ReplayInv

\* A packet waits: in its window, with its mailbox still there.
Waits(b) == /\ \E t \in pending : t[2] = b
            /\ mailbox[b].sid # 0

LEMMA WaitsIs ==
  ASSUME ReplayInv, NEW b \in Firsts, Waits(b)
  PROVE  Present(mManagerData[b]) /\ pc \in Window(b, mManagerData[b])
BY DEF ReplayInv, WaitsOK, Waits

\* A packet is processed: what waits goes on waiting, and this packet joins.
LEMMA ProcessWaits ==
  ASSUME IInv, ReplayInv, DataKept, UNCHANGED mailbox, pc \in 1..4, NEW k \in 1..5, Goto(k),
         box \in Boxes, pending' \subseteq pending \cup {<<packet.sid, box>>}
  PROVE  WaitsOK'
<1>1. Present(this) /\ ~Unenroll(box, this)
  <2>1. Enrolling(pc)
    BY DEF IInv, OrderOK
  <2> QED BY <2>1, EnrollingIs DEF this, box
<1>2. ASSUME NEW b \in Firsts, NEW t \in pending', t[2] = b, mailbox'[b].sid # 0
      PROVE  Present(mManagerData'[b]) /\ pc' \in Window(b, mManagerData'[b])
  <2>1. Present(mManagerData[b]) /\ ~Unenroll(b, mManagerData[b])
    <3>1. CASE t \in pending
      <4>1. Present(mManagerData[b]) /\ pc \in Window(b, mManagerData[b])
        BY <1>2, <3>1, WaitsIs DEF Waits
      <4>2. ~(pc \in 34..38)
        OBVIOUS
      <4> QED BY <4>1, <4>2, WindowIs DEF Firsts
    <3>2. CASE t = <<packet.sid, box>>
      BY <1>1, <1>2, <3>2 DEF this
    <3> QED BY <3>1, <3>2
  <2>2. Present(mManagerData'[b]) /\ ~Unenroll(b, mManagerData'[b])
    BY <2>1, PacketsKept, FirstsAre
  <2> QED BY <2>2, GotoFirsts
<1> QED BY <1>2 DEF WaitsOK

\* After the processing: a step of the window of a packet stays in it, or is the one
\* that deletes its mailbox.
LEMMA LaterWaits ==
  ASSUME IInv, ReplayInv, DataKept, MailboxStep, pc \in 5..47, NEW k \in 1..3, Goto(pc + k),
         k # 1 => Program[pc][1] \in {"lkg", "settings"}, k = 3 => Program[pc][1] = "settings",
         Program[pc][1] = "delete" => mailbox' = [mailbox EXCEPT ![box] = NoPacket],
         pending' \subseteq pending
  PROVE  WaitsOK'
<1>0. mailbox \in [Boxes -> Packets] /\ NoPacket.sid = 0
  BY DEF IInv, TypeOK, NoPacket
<1>1. ASSUME NEW b \in Firsts, NEW t \in pending', t[2] = b, mailbox'[b].sid # 0
      PROVE  Present(mManagerData'[b]) /\ pc' \in Window(b, mManagerData'[b])
  <2>0. b \in Boxes
    BY FirstsAre
  <2>1. Waits(b)
    BY <1>1, <2>0, MailboxesGo DEF Waits
  <2>2. Present(mManagerData[b]) /\ pc \in Window(b, mManagerData[b])
    BY <2>1, WaitsIs
  <2>3. /\ Present(mManagerData'[b])
        /\ Unenroll(b, mManagerData'[b]) <=> Unenroll(b, mManagerData[b])
    BY <2>0, <2>2, PacketsKept
  <2>4. ~(Program[pc][1] = "delete" /\ box = b)
    BY <1>0, <1>1, <2>0
  <2>5. CASE b = "PERMISSIONS2"
    <3>1. pc = 5
      BY <2>2, <2>5, WindowIs
    <3> QED BY <2>4, <2>5, <3>1, Rows DEF box
  <2>6. CASE b = "IDENTITY" /\ Unenroll(b, mManagerData[b])
    <3>1. pc \in 34..38
      BY <2>2, <2>6, WindowIs
    <3>2. pc # 38
      BY <2>4, <2>6, Rows DEF box
    <3>3. k = 1
      BY <3>1, Inside
    <3>4. pc + k \in 34..38
      BY <3>1, <3>2, <3>3
    <3> QED BY <2>3, <2>6, <3>4, GotoUnenroll
  <2>7. CASE b = "IDENTITY" /\ ~Unenroll(b, mManagerData[b])
    <3>1. pc \in 5..11
      BY <2>2, <2>7, WindowIs
    <3>2. pc # 11
      BY <2>4, <2>7, Rows DEF box
    <3>3. k # 3 /\ (k = 2 => pc \in {6, 9})
      BY <3>1, Inside
    <3>4. pc + k \in 5..11
      BY <3>1, <3>2, <3>3
    <3> QED BY <2>3, <2>7, <3>4, GotoEnroll
  <2> QED BY <2>5, <2>6, <2>7 DEF Firsts
<1> QED BY <1>1 DEF WaitsOK

\* A commit stores no packet of these boxes whose mailbox is still there.
LEMMA StorePartner ==
  ASSUME IInv, ReplayInv, At("lkg"), UNCHANGED mailbox, NEW boxes \in {IdentityBoxes, PermissionBoxes},
         box \in boxes, stored' \subseteq stored \cup {t \in pending : t[2] \in boxes}
  PROVE  ReplayOnlyOfPartner'
<1>1. pc \in 5..47 /\ Program[pc][1] = "lkg"
  BY AtIs DEF IInv, At
<1>2. ASSUME NEW b \in LkgBoxes, mailbox[b].sid # 0, <<mailbox[b].sid, b>> \in stored',
             b \notin {"PERMISSIONS", "IDENTITY2"}, ~OwnerLeaves(b, mailbox[b])
      PROVE  FALSE
  <2>1. b \in Firsts
    BY <1>2, FirstsAre
  <2>2. <<mailbox[b].sid, b>> \in pending /\ b \in boxes
    BY <1>2 DEF ReplayInv, ReplayOnlyOfPartner
  <2>3. pc \in Window(b, mManagerData[b])
    BY <1>2, <2>1, <2>2, WaitsIs DEF Waits
  <2>4. CASE b = "PERMISSIONS2"
    <3>1. pc = 5
      BY <1>1, <2>3, <2>4, WindowIs
    <3> QED BY <1>1, <3>1, Rows
  <2>5. CASE b = "IDENTITY"
    <3>1. pc \in 5..11 \/ pc \in 34..38
      BY <1>1, <2>3, <2>5, WindowIs
    <3>2. box \in IdentityBoxes
      BY <2>2, <2>5 DEF IdentityBoxes, PermissionBoxes
    <3>3. box \notin PermissionBoxes
      BY <3>2 DEF IdentityBoxes, PermissionBoxes
    <3> QED BY <1>1, <3>1, <3>3, Inside DEF box
  <2> QED BY <2>1, <2>4, <2>5 DEF Firsts
<1> QED BY <1>2 DEF ReplayOnlyOfPartner

-----------------------------------------------------------------------------
(* One lemma for every kind of step.                                       *)

LEMMA ProcessKeepsReplay ==
  ASSUME IInv, ReplayInv,
         RefuseIdentity \/ RefusePermissions \/ EnrollIdentity \/ ApplyNewPermissionsPacket
  PROVE  ReplayInv'
<1>0. TypeOK /\ ReplayOnlyOfPartner
  BY DEF IInv, ReplayInv
<1>1. pc \in 1..4 /\ box \in Boxes /\ pc # 0
  <2>1. At("process")
    BY DEF RefuseIdentity, RefusePermissions, EnrollIdentity, ApplyNewPermissionsPacket
  <2> QED BY <1>0, <2>1, AtIs
<1>2. /\ UNCHANGED <<mailbox, stage, batches, stored>>
      /\ pending' \subseteq pending \cup {<<packet.sid, box>>}
      /\ \/ Becomes("FAILED", "ERROR", FALSE) \/ Becomes("DONE", "SUCCESS", TRUE)
         \/ UNCHANGED mManagerData
      /\ Goto(5) \/ Goto(pc + 1)
  BY DEF RefuseIdentity, RefusePermissions, EnrollIdentity, ApplyNewPermissionsPacket, nv, faults,
         history, Void, COMPLETE_AS_FAILED
<1>3. DataKept
  BY <1>0, <1>1, <1>2, BecomesData, SameData DEF DataStep, PacketStates, Codes
<1>8. ClearingStep
  BY <1>0, <1>1, <1>2, BecomesClearing DEF ClearingStep
<1>4. PICK k \in 1..5 : Goto(k)
  BY <1>1, <1>2
<1>5. WaitsOK'
  BY <1>1, <1>2, <1>3, <1>4, ProcessWaits
<1>6. NeededOK'
  BY <1>4, GotoNeeded
<1>7. ReplayOnlyOfPartner'
  BY <1>0, <1>2, PartnerKept DEF MailboxStep
<1> QED BY <1>1, <1>2, <1>3, <1>5, <1>6, <1>7, <1>8, RoundReplay DEF MailboxStep

\* A step after the processing that goes on in its window.
LEMMA LaterReplay ==
  ASSUME IInv, ReplayInv, pc \in 5..47, box \in Boxes, UNCHANGED <<stage, batches>>, DataKept,
         MailboxStep, ClearingStep, NEW k \in 1..3, Goto(pc + k),
         k # 1 => Program[pc][1] \in {"lkg", "settings"}, k = 3 => Program[pc][1] = "settings",
         Program[pc][1] = "delete" => mailbox' = [mailbox EXCEPT ![box] = NoPacket],
         pending' \subseteq pending, stored' \subseteq stored \cup pending \cup {<<packet.sid, box>>},
         ReplayOnlyOfPartner'
  PROVE  ReplayInv'
<1>1. WaitsOK'
  BY LaterWaits
<1>2. NeededOK'
  <2>1. pc + k \in Nat
    OBVIOUS
  <2> QED BY <2>1, GotoNeeded
<1>3. pc # 0 /\ pending' \subseteq pending \cup {<<packet.sid, box>>}
  OBVIOUS
<1> QED BY <1>1, <1>2, <1>3, RoundReplay

LEMMA DeleteKeepsReplay == ASSUME IInv, ReplayInv, DeleteMailbox PROVE ReplayInv'
<1>1. pc \in 5..47 /\ box \in Boxes
  <2>1. TypeOK /\ (At("delete") \/ At("settingsDelete") \/ At("deleteAll"))
    BY DEF IInv, DeleteMailbox
  <2> QED BY <2>1, AtIs
<1>2. /\ UNCHANGED <<stage, batches, mManagerData, pending, stored>> /\ Goto(pc + 1)
      /\ mailbox' = [mailbox EXCEPT ![box] = NoPacket]
  BY DEF DeleteMailbox, memory, faults, history
<1>3. DataKept /\ MailboxStep /\ ClearingStep
  BY <1>2, SameData DEF IInv, DataStep, MailboxStep, ClearingStep
<1>4. ReplayOnlyOfPartner'
  BY <1>2, <1>3, PartnerKept DEF ReplayInv
<1> QED BY <1>1, <1>2, <1>3, <1>4, LaterReplay

\* Steps that neither delete a mailbox nor apply a packet; ClearDFCI may store its own.
LEMMA PlainReplay ==
  ASSUME IInv, ReplayInv, NEW op \in Ops \ {"process", "delete", "lkg"}, At(op),
         UNCHANGED <<mailbox, stage, batches, pending>>, DataStep, ClearingStep,
         stored' \subseteq stored \cup {<<packet.sid, box>>}, ReplayOnlyOfPartner',
         Goto(pc + 1) \/ (op = "settings" /\ Goto(pc + 3))
  PROVE  ReplayInv'
<1>1. pc \in 5..47 /\ box \in Boxes /\ Program[pc][1] = op
  BY AtIs DEF IInv, At
<1>2. DataKept /\ MailboxStep /\ stored' \subseteq stored \cup pending \cup {<<packet.sid, box>>}
  BY DEF DataStep, MailboxStep
<1>4. CASE Goto(pc + 1)
  BY <1>1, <1>2, <1>4, LaterReplay
<1>5. CASE op = "settings" /\ Goto(pc + 3)
  BY <1>1, <1>2, <1>5, LaterReplay
<1> QED BY <1>4, <1>5

LEMMA PlainKeepsReplay ==
  ASSUME IInv, ReplayInv,
         \/ WriteResult \/ AbortSettings \/ ApplyNewSettingsPacket \/ SMID_SaveToFlash
         \/ RefuseUnenroll \/ ClearSettings \/ ResetPermissionsToDefault \/ DeleteKeys
  PROVE  ReplayInv'
<1>1. PICK op \in Ops \ {"process", "delete", "lkg"} : At(op) /\ (AbortSettings => op = "settings")
  BY DEF WriteResult, AbortSettings, ApplyNewSettingsPacket, SMID_SaveToFlash, RefuseUnenroll,
         ClearSettings, ResetPermissionsToDefault, DeleteKeys, Ops
<1>2. box \in Boxes /\ TypeOK
  BY <1>1, AtIs DEF IInv
<1>3. UNCHANGED <<mailbox, stage, batches, stored, pending>>
  BY DEF WriteResult, AbortSettings, ApplyNewSettingsPacket, SMID_SaveToFlash, RefuseUnenroll,
         ClearSettings, ResetPermissionsToDefault, DeleteKeys, nv, faults, history
<1>4. /\ \/ Becomes("FAILED", "ERROR", FALSE) \/ Becomes("DONE", "SUCCESS", FALSE)
         \/ UNCHANGED mManagerData
      /\ Goto(pc + 1) \/ (AbortSettings /\ Goto(pc + 3))
  BY DEF WriteResult, AbortSettings, ApplyNewSettingsPacket, SMID_SaveToFlash, RefuseUnenroll,
         ClearSettings, ResetPermissionsToDefault, DeleteKeys, memory, ClearFails
<1>5. DataStep
  BY <1>2, <1>4, BecomesData, SameData DEF PacketStates, Codes
<1>6. ClearingStep
  BY <1>2, <1>4, BecomesClearing DEF ClearingStep
<1>7. ReplayOnlyOfPartner'
  BY <1>3, PartnerKept DEF ReplayInv, MailboxStep
<1> QED BY <1>1, <1>3, <1>4, <1>5, <1>6, <1>7, PlainReplay

\* ClearDFCI saves the empty store: the mailbox may still hold the packet it runs for,
\* and then holds one by which the owner leaves.
LEMMA ClearKeepsReplay == ASSUME IInv, ReplayInv, InitializeKeys PROVE ReplayInv'
<1>1. /\ At("initializeKeys") /\ UNCHANGED <<mailbox, stage, batches, pending>> /\ Goto(pc + 1)
      /\ Becomes("FAILED", "ERROR", FALSE) \/ Becomes("DONE", "SUCCESS", FALSE)
      /\ stored' \subseteq stored \cup {<<packet.sid, box>>}
  BY DEF InitializeKeys, ClearFails
<1>2. box \in Boxes /\ TypeOK /\ pc \in 5..47 /\ Program[pc][1] = "initializeKeys"
  BY <1>1, AtIs DEF IInv, At
<1>3. DataStep /\ ClearingStep
  BY <1>1, <1>2, BecomesData, BecomesClearing DEF PacketStates, Codes
<1>4. this.State = "CLEARING"
  <2>1. Needed(pc, mManagerData, mailbox) /\ Program[pc][3] = "clearing"
    BY <1>2, Rows DEF ReplayInv, NeededOK, Fits
  <2> QED BY <2>1 DEF Needed, this, box
<1>5. OwnerLeaves(box, packet) /\ (Present(this) => mailbox[box] \in {packet, NoPacket})
  BY <1>2, <1>4 DEF ReplayInv, SourceOK, this, packet
<1>6. ASSUME NEW b \in LkgBoxes, mailbox[b].sid # 0, <<mailbox[b].sid, b>> \in stored'
      PROVE  b \in {"PERMISSIONS", "IDENTITY2"} \/ OwnerLeaves(b, mailbox[b])
  <2>1. CASE <<mailbox[b].sid, b>> \in stored
    BY <1>6, <2>1 DEF ReplayInv, ReplayOnlyOfPartner
  <2>2. CASE mailbox[b].sid = packet.sid /\ b = box
    <3>1. Present(this) /\ NoPacket.sid = 0
      BY <1>6, <2>2 DEF Present, packet, NoPacket
    <3>2. mailbox[box] = packet
      BY <1>5, <1>6, <2>2, <3>1
    <3> QED BY <1>5, <2>2, <3>2
  <2> QED BY <1>1, <1>6, <2>1, <2>2
<1>7. ReplayOnlyOfPartner'
  BY <1>1, <1>6 DEF ReplayOnlyOfPartner
<1>8. "initializeKeys" \in Ops \ {"process", "delete", "lkg"}
  BY DEF Ops
<1> QED BY <1>1, <1>3, <1>7, <1>8, PlainReplay

\* The LKG handlers: they may store packets of their kind and forget them.
LEMMA LkgReplay ==
  ASSUME IInv, ReplayInv, At("lkg"), UNCHANGED <<mailbox, stage, batches>>, pending' \subseteq pending,
         NEW boxes \in {IdentityBoxes, PermissionBoxes}, box \in boxes,
         stored' \subseteq stored \cup {t \in pending : t[2] \in boxes},
         LkgDone \/ LkgFails
  PROVE  ReplayInv'
<1>0. TypeOK
  BY DEF IInv
<1>1. pc \in 5..47 /\ box \in Boxes /\ Program[pc][1] = "lkg"
  BY <1>0, AtIs DEF At
<1>2. this.State \in PacketStates /\ this.StatusCode \in Codes
  BY <1>0, <1>1 DEF TypeOK, Data, this
<1>3. LkgFails => DataStep /\ Goto(pc + 2)
  BY <1>0, <1>1, BecomesData DEF LkgFails, PacketStates, Codes
<1>4. LkgDone => DataStep /\ Goto(pc + 1)
  BY <1>0, <1>1, <1>2, BecomesData DEF LkgDone
<1>10. ClearingStep
  BY <1>0, <1>1, BecomesClearing DEF LkgFails, LkgDone
<1>5. DataKept /\ MailboxStep /\ ClearingStep /\ (Goto(pc + 1) \/ Goto(pc + 2))
  BY <1>3, <1>4, <1>10 DEF DataStep, MailboxStep
<1>6. stored' \subseteq stored \cup pending \cup {<<packet.sid, box>>}
  OBVIOUS
<1>7. ReplayOnlyOfPartner'
  BY StorePartner
<1>8. CASE Goto(pc + 1)
  BY <1>1, <1>5, <1>6, <1>7, <1>8, LaterReplay
<1>9. CASE Goto(pc + 2)
  BY <1>1, <1>5, <1>6, <1>7, <1>9, LaterReplay
<1> QED BY <1>5, <1>8, <1>9

LEMMA LkgKeepsReplay ==
  ASSUME IInv, ReplayInv,
         \/ LkgClean \/ RestoreIdentities \/ CommitIdentities \/ RestorePermissions
         \/ CommitPermissions
  PROVE  ReplayInv'
<1>1. CASE LkgClean
  <2>1. /\ At("lkg") /\ UNCHANGED <<mailbox, stage, batches, pending, stored, mManagerData>>
        /\ Goto(pc + 1)
    BY <1>1 DEF LkgClean, nv, memory, faults, history
  <2>2. pc \in 5..47 /\ box \in Boxes /\ Program[pc][1] = "lkg"
    BY <2>1, AtIs DEF At, IInv
  <2>3. DataKept /\ MailboxStep /\ ClearingStep
    BY <2>1, SameData DEF IInv, DataStep, MailboxStep, ClearingStep
  <2>4. ReplayOnlyOfPartner'
    BY <2>1, <2>3, PartnerKept DEF ReplayInv
  <2> QED BY <2>1, <2>2, <2>3, <2>4, LaterReplay
<1>2. CASE RestoreIdentities
  <2>1. /\ At("lkg") /\ box \in IdentityBoxes /\ UNCHANGED <<mailbox, stage, batches, stored>>
        /\ pending' \subseteq pending /\ (LkgDone \/ LkgFails)
    BY <1>2 DEF RestoreIdentities, nv, faults, Forget
  <2> QED BY <2>1, LkgReplay
<1>3. CASE CommitIdentities
  <2>1. /\ At("lkg") /\ box \in IdentityBoxes /\ UNCHANGED <<mailbox, stage, batches>>
        /\ pending' \subseteq pending
        /\ stored' \subseteq stored \cup {t \in pending : t[2] \in IdentityBoxes}
        /\ LkgDone \/ LkgFails
    BY <1>3 DEF CommitIdentities, Forget, Keep
  <2> QED BY <2>1, LkgReplay
<1>4. CASE RestorePermissions
  <2>1. /\ At("lkg") /\ box \in PermissionBoxes /\ UNCHANGED <<mailbox, stage, batches, stored>>
        /\ pending' \subseteq pending /\ LkgDone
    BY <1>4 DEF RestorePermissions, nv, faults, Forget
  <2> QED BY <2>1, LkgReplay
<1>5. CASE CommitPermissions
  <2>1. /\ At("lkg") /\ box \in PermissionBoxes /\ UNCHANGED <<mailbox, stage, batches>>
        /\ pending' \subseteq pending
        /\ stored' \subseteq stored \cup {t \in pending : t[2] \in PermissionBoxes}
        /\ LkgDone \/ LkgFails
    BY <1>5 DEF CommitPermissions, Forget, Keep
  <2> QED BY <2>1, LkgReplay
<1> QED BY <1>1, <1>2, <1>3, <1>4, <1>5

\* A certificate leaves memory: its packet joins those that wait.
LEMMA UnenrollKeepsReplay == ASSUME IInv, ReplayInv, ProcessUnEnrollPacket PROVE ReplayInv'
<1>0. TypeOK /\ ReplayOnlyOfPartner
  BY DEF IInv, ReplayInv
<1>1. pc \in 5..47 /\ box \in Boxes /\ Program[pc][1] = "unenroll"
  BY <1>0, AtIs DEF ProcessUnEnrollPacket, At
<1>2. /\ UNCHANGED <<mailbox, stage, batches, stored>> /\ Goto(pc + 1)
      /\ pending' \subseteq pending \cup {<<packet.sid, box>>}
  BY DEF ProcessUnEnrollPacket, nv, faults
<1>3. DataKept
  <2>1. mManagerData \in [Boxes -> Data]
    BY <1>0 DEF TypeOK
  <2>2. CASE Becomes("DONE", "SUCCESS", TRUE)
    BY <1>0, <1>1, <2>2, BecomesData DEF DataStep, PacketStates, Codes
  <2>3. ASSUME NEW who,
               mManagerData' = [mManagerData EXCEPT ![box].State = "CLEARING", ![box].who = who]
        PROVE  DataKept
    BY <2>1, <2>3 DEF DataKept, Data
  <2> QED BY <2>2, <2>3 DEF ProcessUnEnrollPacket
<1>11. ClearingStep
  <2>1. mManagerData \in [Boxes -> Data]
    BY <1>0 DEF TypeOK
  <2>2. CASE Becomes("DONE", "SUCCESS", TRUE)
    BY <1>0, <1>1, <2>2, BecomesClearing
  <2>3. ASSUME NEW who, packet.id = "OWNER",
               mManagerData' = [mManagerData EXCEPT ![box].State = "CLEARING", ![box].who = who]
        PROVE  ClearingStep
    <3>0. pc \in 1..47 /\ pc # 0 /\ Program[pc][1] = "unenroll"
      BY <1>1
    <3>1. Needed(pc, mManagerData, mailbox) /\ Program[pc][3] = "unenroll"
      <4>1. Fits(Program[pc])
        BY <3>0, Rows, Zenon
      <4> QED BY <3>0, <4>1 DEF ReplayInv, NeededOK, Fits
    <3>2. Unenroll(box, this)
      BY <3>1 DEF Needed, box, this
    <3>3. OwnerLeaves(box, packet)
      BY <2>3, <3>2 DEF Unenroll, OwnerLeaves, packet
    <3>4. ASSUME NEW b \in Boxes
          PROVE  b # box => mManagerData'[b].State = mManagerData[b].State
      BY <2>1, <2>3, <3>4
    <3> QED BY <3>3, <3>4 DEF ClearingStep, packet, this
  <2> QED BY <2>2, <2>3 DEF ProcessUnEnrollPacket
<1>4. box = "IDENTITY" => pc = 33 /\ Unenroll(box, this) /\ Present(this)
  <2>1. Needed(pc, mManagerData, mailbox)
    BY <1>1 DEF ReplayInv, NeededOK
  <2>2. ASSUME box = "IDENTITY" PROVE pc = 33 /\ Program[pc][3] = "unenroll"
    BY <1>1, <2>2, Rows DEF box
  <2> QED BY <2>1, <2>2 DEF Needed, box, this, Unenroll
<1>5. box # "PERMISSIONS2"
  BY <1>1, Rows DEF box
<1>6. ~(pc \in 5..11) /\ ~(pc \in 34..38)
  BY <1>1, Inside
<1>7. ASSUME NEW b \in Firsts, NEW t \in pending', t[2] = b, mailbox'[b].sid # 0
      PROVE  Present(mManagerData'[b]) /\ pc' \in Window(b, mManagerData'[b])
  <2>1. CASE t \in pending
    <3>1. pc \in Window(b, mManagerData[b])
      BY <1>2, <1>7, <2>1, WaitsIs DEF Waits
    <3>2. pc # 5 /\ ~(pc \in 0..5) /\ ~(pc \in 0..11)
      BY <1>1, <1>6
    <3> QED BY <1>6, <3>1, <3>2, WindowIs DEF Firsts
  <2>2. CASE t = <<packet.sid, box>>
    <3>1. b = "IDENTITY" /\ box = b
      BY <1>5, <1>7, <2>2 DEF Firsts
    <3>2. /\ Present(mManagerData'["IDENTITY"])
          /\ Unenroll("IDENTITY", mManagerData'["IDENTITY"]) /\ Goto(34)
      BY <1>1, <1>2, <1>3, <1>4, <3>1, PacketsKept DEF this
    <3> QED BY <3>1, <3>2, GotoUnenroll
  <2> QED BY <1>2, <2>1, <2>2
<1>8. WaitsOK'
  BY <1>7 DEF WaitsOK
<1>9. NeededOK'
  <2>1. pc + 1 \in Nat
    BY <1>1
  <2> QED BY <1>2, <2>1, GotoNeeded
<1>10. ReplayOnlyOfPartner' /\ MailboxStep
  BY <1>0, <1>2, PartnerKept DEF MailboxStep
<1> QED BY <1>1, <1>2, <1>3, <1>8, <1>9, <1>10, <1>11, RoundReplay

\* The round stops for the user, with what it applied still in memory.
LEMMA QueueKeepsReplay == ASSUME IInv, ReplayInv, QueueMailboxAtEndOfDxe PROVE ReplayInv'
<1>0. TypeOK
  BY DEF IInv
<1>1. /\ At("process") \/ At("unenroll")
      /\ UNCHANGED <<mailbox, stage, batches, stored, pending, mManagerData>>
  BY DEF QueueMailboxAtEndOfDxe, nv, memory, faults, history
<1>2. pc \in 1..47 /\ box \in Boxes /\ ~(pc \in 34..38) /\ pc # 0
  <2>1. CASE At("process")
    BY <1>0, <2>1, AtIs
  <2>2. CASE At("unenroll")
    BY <1>0, <2>2, AtIs, Inside DEF At
  <2> QED BY <1>1, <2>1, <2>2
<1>3. pc' = 0
  BY DEF QueueMailboxAtEndOfDxe
<1>4. ASSUME NEW b \in Firsts, NEW t \in pending', t[2] = b, mailbox'[b].sid # 0
      PROVE  Present(mManagerData'[b]) /\ pc' \in Window(b, mManagerData'[b])
  <2>1. Present(mManagerData[b]) /\ pc \in Window(b, mManagerData[b])
    BY <1>1, <1>4, WaitsIs DEF Waits
  <2>2. ~Unenroll(b, mManagerData[b])
    BY <1>2, <2>1, WindowIs DEF Firsts
  <2>3. 0 \in 0..5 /\ 0 \in 0..11
    OBVIOUS
  <2>4. 0 \in Window(b, mManagerData[b])
    BY <2>2, <2>3, WindowIs DEF Firsts
  <2> QED BY <1>1, <1>3, <2>1, <2>4
<1>5. WaitsOK' /\ NeededOK'
  BY <1>3, <1>4 DEF WaitsOK, NeededOK
<1>6. DataKept /\ MailboxStep /\ ClearingStep
  BY <1>0, <1>1, SameData DEF DataStep, MailboxStep, ClearingStep
<1>7. ReplayOnlyOfPartner'
  BY <1>1, <1>6, PartnerKept DEF ReplayInv
<1> QED BY <1>1, <1>2, <1>5, <1>6, <1>7, RoundReplay

LEMMA EmptiedSource == ASSUME Emptied PROVE SourceOK'
<1>1. NoData.State # "CLEARING"
  BY DEF NoData
<1> QED BY <1>1, EmptiedIs DEF Emptied, SourceOK

\* Memory is lost.
LEMMA ResetReplay ==
  ASSUME ReplayInv, Reset, UNCHANGED <<mailbox, batches, stored>>
  PROVE  ReplayInv'
<1>1. Emptied /\ pc' = 0 /\ pending' = {}
  BY DEF Reset, Emptied
<1>2. \A b \in Boxes : mManagerData'[b].Packet.sid = 0
  BY <1>1, EmptiedIs DEF NoPacket
<1>6. SourceOK'
  BY <1>1, EmptiedSource
<1>3. WaitsOK' /\ NeededOK' /\ (Starting => pending = {})'
  BY <1>1 DEF WaitsOK, NeededOK
<1>4. NumbersOK'
  <2>1. 0 \in 0..batches
    BY DEF ReplayInv, NumbersOK
  <2> QED BY <1>1, <1>2, <2>1 DEF ReplayInv, NumbersOK
<1>5. ReplayOnlyOfPartner'
  BY DEF ReplayInv, ReplayOnlyOfPartner
<1> QED BY <1>3, <1>4, <1>5, <1>6 DEF ReplayInv

\* The OS writes a batch: its number is new.
LEMMA OsKeepsReplay == ASSUME IInv, ReplayInv, OsRestarts PROVE ReplayInv'
<1>0. Reset /\ UNCHANGED stored
  BY DEF OsRestarts
<1>1. CASE UNCHANGED <<mailbox, batches>>
  BY <1>0, <1>1, ResetReplay
<1>2. CASE \E batch \in Batches :
             /\ batches' = batches + 1
             /\ mailbox' = [b \in Boxes |-> IF b \in DOMAIN batch THEN Numbered(batch[b], batches + 1)
                                            ELSE mailbox[b]]
  <2>1. PICK batch \in Batches :
          /\ batches' = batches + 1
          /\ mailbox' = [b \in Boxes |-> IF b \in DOMAIN batch THEN Numbered(batch[b], batches + 1)
                                         ELSE mailbox[b]]
    BY <1>2
  <2>2. ASSUME NEW b \in Boxes
        PROVE  mailbox'[b] = mailbox[b] \/ mailbox'[b].sid = batches + 1
    <3>1. b \in DOMAIN batch => "sid" \in DOMAIN batch[b]
      BY SidAssumption
    <3>2. b \in DOMAIN batch => Numbered(batch[b], batches + 1).sid = batches + 1
      BY <3>1 DEF Numbered
    <3> QED BY <2>1, <3>2
  <2>3. /\ Emptied /\ pc' = 0 /\ pending' = {} /\ batches \in Nat
        /\ \A b \in Boxes : mailbox[b].sid \in 0..batches
        /\ \A t \in stored : t[1] \in 0..batches
    BY <1>0 DEF Reset, Emptied, ReplayInv, NumbersOK
  <2>4. \A b \in Boxes : mManagerData'[b].Packet.sid = 0
    BY <2>3, EmptiedIs DEF NoPacket
  <2>5. WaitsOK' /\ NeededOK' /\ (Starting => pending = {})'
    BY <2>3 DEF WaitsOK, NeededOK
  <2>6. NumbersOK'
    <3>1. 0 \in 0..batches' /\ batches' \in Nat /\ \A n \in 0..batches : n \in 0..batches'
      BY <2>1, <2>3
    <3>2. \A b \in Boxes : mailbox'[b].sid \in 0..batches'
      BY <2>1, <2>2, <2>3, <3>1
    <3> QED BY <1>0, <2>3, <2>4, <3>1, <3>2 DEF NumbersOK
  <2>7. ReplayOnlyOfPartner'
    <3>1. ASSUME NEW b \in LkgBoxes, mailbox'[b].sid # 0, <<mailbox'[b].sid, b>> \in stored
          PROVE  b \in {"PERMISSIONS", "IDENTITY2"} \/ OwnerLeaves(b, mailbox'[b])
      <4>1. mailbox'[b].sid \in 0..batches
        BY <2>3, <3>1
      <4>2. mailbox'[b] = mailbox[b]
        BY <2>2, <2>3, <4>1 DEF Boxes
      <4> QED BY <3>1, <4>2 DEF ReplayInv, ReplayOnlyOfPartner
    <3> QED BY <1>0, <3>1 DEF ReplayOnlyOfPartner
  <2> QED BY <2>3, <2>5, <2>6, <2>7, EmptiedSource DEF ReplayInv
<1> QED BY <1>1, <1>2 DEF OsRestarts

LEMMA ExitKeepsReplay == ASSUME IInv, ReplayInv, FinalExit PROVE ReplayInv'
<1>0. UNCHANGED <<mailbox, batches, stored>>
  BY DEF FinalExit, nv, faults
<1>1. CASE Reset
  BY <1>0, <1>1, ResetReplay
<1>2. CASE Emptied /\ pc' = 0 /\ UNCHANGED <<stage, pending>>
  <2>1. pc = 47
    <3>1. pc \in 1..47 /\ Program[pc][1] = "exit"
      BY AtIs DEF IInv, FinalExit, At
    <3>2. ~(pc \in 1..46)
      BY <3>1, Rows
    <3> QED BY <3>1, <3>2
  <2>2. ASSUME NEW b \in Firsts, NEW t \in pending, t[2] = b PROVE mailbox[b].sid = 0
    <3>1. SUFFICES ASSUME mailbox[b].sid # 0 PROVE FALSE
      OBVIOUS
    <3>2. pc \in Window(b, mManagerData[b])
      BY <2>2, <3>1, WaitsIs DEF Waits
    <3> QED BY <2>1, <3>2, WindowIs DEF Firsts
  <2>3. WaitsOK' /\ NeededOK'
    BY <1>0, <1>2, <2>2 DEF WaitsOK, NeededOK
  <2>4. \A b \in Boxes : mManagerData'[b].Packet.sid = 0
    BY <1>2, EmptiedIs DEF NoPacket
  <2>5. NumbersOK'
    <3>1. 0 \in 0..batches
      BY DEF ReplayInv, NumbersOK
    <3> QED BY <1>0, <1>2, <2>4, <3>1 DEF ReplayInv, NumbersOK
  <2>6. ReplayOnlyOfPartner' /\ (Starting => pending = {})'
    BY <1>0, <1>2 DEF ReplayInv, ReplayOnlyOfPartner, Starting
  <2> QED BY <1>2, <2>3, <2>5, <2>6, EmptiedSource DEF ReplayInv
<1> QED BY <1>1, <1>2 DEF FinalExit, Emptied

\* Before DfciManager nothing is applied, and there are no packets in memory.
LEMMA BootKeepsReplay ==
  ASSUME IInv, ReplayInv,
         \/ PopulateInternalCertStore \/ CheckForAuthenticationProtocol
         \/ DfciManagerEntry \/ DfciManagerEntryFails
  PROVE  ReplayInv'
<1>1. /\ pc = 0 /\ pending = {} /\ UNCHANGED <<mailbox, batches, pending, stored>>
  <2>1. Starting
    BY DEF Starting, PopulateInternalCertStore, CheckForAuthenticationProtocol, DfciManagerEntry,
           DfciManagerEntryFails
  <2>2. UNCHANGED <<mailbox, batches, pending, stored>>
    BY DEF PopulateInternalCertStore, CheckForAuthenticationProtocol, DfciManagerEntry,
           DfciManagerEntryFails, nv, faults, history, ProcessMailBoxes
  <2> QED BY <2>1, <2>2 DEF IInv, StartOK, ReplayInv
<1>2. pc' = 0 \/ \E k \in Nat : Goto(k)
  <2>1. CASE PopulateInternalCertStore \/ CheckForAuthenticationProtocol
    BY <1>1, <2>1 DEF PopulateInternalCertStore, CheckForAuthenticationProtocol
  <2>2. CASE DfciManagerEntry
    BY <1>1, <2>2 DEF DfciManagerEntry, ProcessMailBoxes
  <2>3. CASE DfciManagerEntryFails
    <3>1. Goto(41)
      BY <2>3, ProgramShape DEF DfciManagerEntryFails
    <3> QED BY <3>1
  <2> QED BY <2>1, <2>2, <2>3
<1>3. NeededOK' /\ WaitsOK' /\ (Starting => pending = {})'
  BY <1>1, <1>2, GotoNeeded DEF NeededOK, WaitsOK
<1>4. ASSUME NEW b \in Boxes PROVE mManagerData'[b].Packet.sid \in 0..batches
  <2>0. 0 \in 0..batches /\ mailbox[b].sid \in 0..batches /\ NoPacket.sid = 0
    BY DEF ReplayInv, NumbersOK, NoPacket
  <2>1. CASE UNCHANGED mManagerData
    BY <2>1 DEF ReplayInv, NumbersOK
  <2>2. CASE mManagerData' = AllocateManagerData
    <3>1. NoData.Packet = NoPacket
      BY DEF NoData
    <3>2. CASE mailbox[b].sid = 0
      BY <2>0, <2>2, <3>1, <3>2 DEF AllocateManagerData
    <3>3. CASE mailbox[b].sid # 0
      BY <2>0, <2>2, <3>3 DEF AllocateManagerData, NoData
    <3> QED BY <3>2, <3>3
  <2> QED BY <2>1, <2>2 DEF PopulateInternalCertStore, CheckForAuthenticationProtocol,
                            DfciManagerEntry, DfciManagerEntryFails, memory
<1>5. NumbersOK'
  BY <1>1, <1>4 DEF ReplayInv, NumbersOK
<1>6. ReplayOnlyOfPartner'
  BY <1>1 DEF ReplayInv, ReplayOnlyOfPartner
<1>7. SourceOK'
  <2>1. CASE UNCHANGED mManagerData
    BY <1>1, <2>1 DEF ReplayInv, SourceOK
  <2>2. CASE mManagerData' = AllocateManagerData
    <3>1. NoData.Packet = NoPacket /\ NoData.State # "CLEARING" /\ NoPacket.sid = 0
      BY DEF NoData, NoPacket
    <3>2. ASSUME NEW b \in Boxes, mailbox[b].sid = 0
          PROVE  ~Present(mManagerData'[b]) /\ mManagerData'[b].State # "CLEARING"
      BY <2>2, <3>1, <3>2 DEF AllocateManagerData, Present
    <3>3. ASSUME NEW b \in Boxes, mailbox[b].sid # 0
          PROVE  mManagerData'[b].Packet = mailbox[b] /\ mManagerData'[b].State # "CLEARING"
      BY <2>2, <3>3 DEF AllocateManagerData, NoData
    <3> QED BY <1>1, <3>2, <3>3 DEF SourceOK
  <2> QED BY <2>1, <2>2 DEF PopulateInternalCertStore, CheckForAuthenticationProtocol,
                            DfciManagerEntry, DfciManagerEntryFails, memory
<1> QED BY <1>3, <1>5, <1>6, <1>7 DEF ReplayInv

\* A round begins again: what waits is met before its window ends.
LEMMA CallbackKeepsReplay ==
  ASSUME IInv, ReplayInv, SettingAccessCallback \/ EndOfDxeCallback \/ EndOfDxeIdle
  PROVE  ReplayInv'
<1>1. /\ pc = 0 /\ ~Starting' /\ (pc' = 0 \/ Goto(1))
      /\ UNCHANGED <<mailbox, mManagerData, batches, pending, stored>>
  <2>1. pc = 0 /\ UNCHANGED <<mailbox, mManagerData, batches, pending, stored>>
    BY DEF SettingAccessCallback, EndOfDxeCallback, EndOfDxeIdle, nv, memory, faults, history
  <2>2. stage' \in {"EndOfDxe", "Os", "Undefined"} /\ (pc' = 0 \/ Goto(1))
    BY <2>1 DEF SettingAccessCallback, EndOfDxeCallback, EndOfDxeIdle, ProcessMailBoxes
  <2> QED BY <2>1, <2>2 DEF Starting
<1>2. ASSUME NEW b \in Firsts, NEW t \in pending', t[2] = b, mailbox'[b].sid # 0
      PROVE  Present(mManagerData'[b]) /\ pc' \in Window(b, mManagerData'[b])
  <2>1. Present(mManagerData[b]) /\ 0 \in Window(b, mManagerData[b])
    BY <1>1, <1>2, WaitsIs DEF Waits
  <2>2. ~Unenroll(b, mManagerData[b])
    BY <2>1, WindowIs DEF Firsts
  <2>3. CASE pc' = 0
    BY <1>1, <2>1, <2>3
  <2>4. CASE Goto(1)
    BY <1>1, <2>1, <2>2, <2>4, GotoFirsts
  <2> QED BY <1>1, <2>3, <2>4
<1>3. WaitsOK'
  BY <1>2 DEF WaitsOK
<1>4. NeededOK'
  BY <1>1, GotoNeeded DEF NeededOK
<1>5. NumbersOK' /\ SourceOK' /\ ReplayOnlyOfPartner'
  BY <1>1 DEF ReplayInv, NumbersOK, SourceOK, ReplayOnlyOfPartner
<1> QED BY <1>1, <1>3, <1>4, <1>5 DEF ReplayInv

-----------------------------------------------------------------------------
(* The theorem.                                                            *)

LEMMA InitReplay == Init => ReplayInv
<1> SUFFICES ASSUME Init PROVE ReplayInv
  OBVIOUS
<1>1. NoPacket.sid = 0 /\ NoData.Packet = NoPacket /\ 0 \in 0..0
  BY DEF NoPacket, NoData
<1>2. NumbersOK
  BY <1>1 DEF Init, NumbersOK
<1>3. SourceOK
  BY <1>1 DEF Init, SourceOK, Present, NoData
<1> QED BY <1>2, <1>3 DEF Init, ReplayInv, WaitsOK, NeededOK, ReplayOnlyOfPartner

LEMMA NextReplay == IInv /\ ReplayInv /\ [Next]_vars => ReplayInv'
<1> SUFFICES ASSUME IInv, ReplayInv, [Next]_vars PROVE ReplayInv'
  OBVIOUS
<1>1. CASE UNCHANGED vars
  BY <1>1 DEF vars, nv, memory, control, faults, history, ReplayInv, WaitsOK, NumbersOK, NeededOK, SourceOK,
              ReplayOnlyOfPartner, Starting
<1>2. CASE OsRestarts
  BY <1>2, OsKeepsReplay
<1>3. CASE PowerLoss \/ Restart
  BY <1>3, ResetReplay DEF PowerLoss, Restart, nv, faults
<1>4. CASE \/ PopulateInternalCertStore \/ CheckForAuthenticationProtocol
           \/ DfciManagerEntry \/ DfciManagerEntryFails
  BY <1>4, BootKeepsReplay
<1>5. CASE SettingAccessCallback \/ EndOfDxeCallback \/ EndOfDxeIdle
  BY <1>5, CallbackKeepsReplay
<1>6. CASE QueueMailboxAtEndOfDxe
  BY <1>6, QueueKeepsReplay
<1>7. CASE RefuseIdentity \/ RefusePermissions \/ EnrollIdentity \/ ApplyNewPermissionsPacket
  BY <1>7, ProcessKeepsReplay
<1>8. CASE DeleteMailbox
  BY <1>8, DeleteKeepsReplay
<1>9. CASE \/ LkgClean \/ RestoreIdentities \/ CommitIdentities \/ RestorePermissions
           \/ CommitPermissions
  BY <1>9, LkgKeepsReplay
<1>10. CASE \/ WriteResult \/ AbortSettings \/ ApplyNewSettingsPacket \/ SMID_SaveToFlash
            \/ RefuseUnenroll \/ ClearSettings \/ ResetPermissionsToDefault \/ DeleteKeys
  BY <1>10, PlainKeepsReplay
<1>13. CASE InitializeKeys
  BY <1>13, ClearKeepsReplay
<1>11. CASE ProcessUnEnrollPacket
  BY <1>11, UnenrollKeepsReplay
<1>12. CASE FinalExit
  BY <1>12, ExitKeepsReplay
<1> QED BY <1>1, <1>2, <1>3, <1>4, <1>5, <1>6, <1>7, <1>8, <1>9, <1>10, <1>11, <1>12, <1>13
        DEF Next, Firmware

\* A packet whose change reached its store is no longer in its mailbox, but for the
\* second one of a pair and the one by which the owner leaves, whatever batches the OS sends and wherever power fails or a
\* write is refused: the LKG handlers delete the mailbox before they save, also when
\* the packet waited for EndOfDxe in between.
THEOREM ReplaysOnlyPartner == Spec => []ReplayOnlyOfPartner
<1>1. Init => IInv /\ BatchesOK /\ ReplayInv
  BY InitIInv, InitReplay
<1>2. IInv /\ BatchesOK /\ ReplayInv /\ [Next]_vars => (IInv /\ BatchesOK /\ ReplayInv)'
  BY NextIInv, BatchesKept, NextReplay
<1>3. ReplayInv => ReplayOnlyOfPartner
  BY DEF ReplayInv
<1> QED BY <1>1, <1>2, <1>3, PTL DEF Spec
=============================================================================
