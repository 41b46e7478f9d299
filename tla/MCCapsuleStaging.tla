-------------------------- MODULE MCCapsuleStaging --------------------------
(***************************************************************************)
(* CapsuleStaging with two images, arrays of one to three capsules (one    *)
(* with a reset, one with a capsule that does not persist), three file     *)
(* numbers, room for three files and names for four items.                 *)
(***************************************************************************)
EXTENDS CapsuleStaging

CONSTANTS c1, c2

Plain(c) == [image |-> c, flags |-> {"PERSIST"}, fmp |-> TRUE, supported |-> TRUE]
Resetting(c) == [Plain(c) EXCEPT !.flags = {"PERSIST", "RESET"}]
Immediate(c) == [Plain(c) EXCEPT !.flags = {}]
Unknown(c) == [Plain(c) EXCEPT !.supported = FALSE]

ArraysDef ==
  { <<Plain(c1)>>, <<Plain(c1), Plain(c2)>>, <<Plain(c2), Resetting(c1)>>,
    <<Plain(c2), Immediate(c1)>>, <<Plain(c1), Unknown(c2)>>, <<Plain(c1), Plain(c2), Plain(c1)>> }
=============================================================================
