-------------------------- MODULE MfciNonceProofs ---------------------------
(***************************************************************************)
(* The life of a nonce: drawn, offered as target, used by a transition and *)
(* never offered again; and what a repeated notification costs.            *)
(***************************************************************************)
EXTENDS MfciProofs

\* Where a nonce that has been used may still be the target nonce.
Underway == {"setBlob", "setNonce", "setPolicy", "rollNonce", "setNextNonce"}

\* Every nonce in use was drawn.
Drawn ==
  /\ NextNonce \in 0 .. issued \cup {None} /\ TargetNonce \in 0 .. issued
  /\ spent \subseteq 1 .. issued /\ performed \subseteq 1 .. issued
  /\ NextBlob # None => NextBlob.nonce \in 1 .. issued

\* The variables are locked only at the end.
OpenUntilLock ==
  /\ pc \notin {"off", "bds", "os", "cleanNonce", "cleanBlob", "cleanPolicy"} => varlock = "absent"
  /\ pc \in Cleaning /\ job # "exit" => varlock = "absent"

\* TargetNonce is fresh until it is stored, and then the stored one.
TargetNonceInv ==
  /\ pc \in {"step1set", "setNextNonce"} => TargetNonce \notin spent \cup performed
  /\ pc = "setNextNonce" /\ NextBlob # None => TargetNonce # NextBlob.nonce
  /\ pc \in {"step2", "step3"} => TargetNonce = NextNonce
  /\ pc \in Cleaning /\ job = "target" => TargetNonce = NextNonce

\* A used nonce is on offer again only after a failure not yet accounted for.
Paid == NextNonce \in performed /\ pc \notin Underway => repeats + 1 <= crashes + faults

NonceInv == Drawn /\ OpenUntilLock /\ TargetNonceInv /\ Paid /\ NeverReinstalled /\ ActionsNotRepeated

\* The invariant holds before the first boot.
LEMMA InitNonceInv == Init => NonceInv
BY MfciAssumption DEF Init, NonceInv, Drawn, OpenUntilLock, TargetNonceInv, Paid, NeverReinstalled,
   ActionsNotRepeated, Cleaning, Underway, MFCI_POLICY_INVALID_NONCE

\* The notification of a cleanup carries no actions.
LEMMA CleanupHistory ==
  ASSUME NEW j, InternalCleanupCurrentPolicy(j) \/ InternalCleanupTargetPolicy
  PROVE  performed' = performed /\ repeats' = repeats /\ spent' = spent
<1>1. CUSTOMER_STATE.act = 0
  BY DEF CUSTOMER_STATE
<1> QED BY <1>1 DEF InternalCleanupCurrentPolicy, InternalCleanupTargetPolicy, NotifyMfciPolicyChange, history

\* A sum grows with its terms.
LEMMA SumGrows ==
  ASSUME NEW r \in Nat, NEW c \in Nat, NEW f \in Nat, NEW g \in Nat, g >= f
  PROVE  (r <= c + f => r <= c + g) /\ (r + 1 <= c + f => r + 1 <= c + g)
OBVIOUS

\* More failures only add to what repetitions may cost.
LEMMA Slack ==
  ASSUME TypeOK, faults' \in Nat, faults' >= faults, crashes' = crashes, repeats' = repeats
  PROVE  /\ ActionsNotRepeated => ActionsNotRepeated'
         /\ repeats + 1 <= crashes + faults => repeats' + 1 <= crashes' + faults'
<1>1. faults \in Nat /\ crashes \in Nat /\ repeats \in Nat
  BY DEF TypeOK
<1>2. /\ repeats <= crashes + faults => repeats <= crashes + faults'
      /\ repeats + 1 <= crashes + faults => repeats + 1 <= crashes + faults'
  BY <1>1, SumGrows
<1> QED BY <1>2 DEF ActionsNotRepeated

\* The entry points touch no nonce.
LEMMA EntryNonceInv ==
  ASSUME BootInv, NonceInv,
         \/ MfciPeiEntry \/ MfciDxeEntry \/ MfciDxeEntryLatePolicy \/ MfciDxeEntryError
  PROVE  NonceInv'
<1>0. TypeOK /\ TargetInHand
  BY DEF BootInv
<1> USE <1>0, FaultsType, MfciAssumption DEF TypeOK, NonceInv, Drawn, OpenUntilLock, TargetNonceInv, Paid, NeverReinstalled, ActionsNotRepeated,
     Cleaning, Underway, nv, boot, history
<1>1. CASE MfciPeiEntry
  BY <1>1 DEF MfciPeiEntry, MFCI_POLICY_INVALID_NONCE
<1>2. CASE MfciDxeEntry
  BY <1>2 DEF MfciDxeEntry
<1>3. CASE MfciDxeEntryLatePolicy
  BY <1>3 DEF MfciDxeEntryLatePolicy
<1>4. CASE MfciDxeEntryError
  BY <1>4 DEF MfciDxeEntryError
<1> QED BY <1>1, <1>2, <1>3, <1>4

\* Steps 1 and 2: the target nonce is the stored one when step 3 begins.
LEMMA CurrentNonceInv ==
  ASSUME BootInv, NonceInv,
         \/ PopulateTargetVarsFails \/ TargetNonceExists \/ DrawTargetNonce \/ SetTargetNonce
         \/ VerifyCurrent \/ CleanCurrentNonce \/ CleanCurrentBlob \/ CleanCurrentPolicy
  PROVE  NonceInv'
<1>0. TypeOK /\ TargetInHand
  BY DEF BootInv
<1> USE <1>0, FaultsType, MfciAssumption DEF TypeOK, NonceInv, Drawn, OpenUntilLock, TargetNonceInv, Paid, NeverReinstalled, ActionsNotRepeated,
     Cleaning, Underway, nv, boot, history
<1>1. CASE PopulateTargetVarsFails
  BY <1>1 DEF PopulateTargetVarsFails, Exit
<1>2. CASE TargetNonceExists
  BY <1>2 DEF TargetNonceExists
<1>3. CASE DrawTargetNonce
  BY <1>3 DEF DrawTargetNonce, GetRandomNumber64, MFCI_POLICY_INVALID_NONCE
<1>4. CASE SetTargetNonce
  BY <1>4 DEF SetTargetNonce, Exit, After, EFI_ERROR
<1>5. CASE VerifyCurrent
  <2>1. performed' = performed /\ repeats' = repeats /\ spent' = spent
    BY <1>5, CleanupHistory DEF VerifyCurrent
  <2>2. /\ faults' \in Nat /\ faults' >= faults /\ pc' \in {"step3", "cleanNonce", "lock"}
        /\ pc' = "cleanNonce" => job' = "target"
    BY <1>5 DEF VerifyCurrent, Exit, InternalCleanupCurrentPolicy
  <2>3. pc = "step2" /\ UNCHANGED <<nv, varlock, TargetNonce, issued, crashes>>
    BY <1>5 DEF VerifyCurrent
  <2>11. Drawn'
    BY <2>1, <2>2, <2>3
  <2>12. OpenUntilLock' /\ TargetNonceInv'
    BY <2>1, <2>2, <2>3
  <2>10. ActionsNotRepeated' /\ (repeats + 1 <= crashes + faults => repeats' + 1 <= crashes' + faults')
    BY ONLY <1>0, NonceInv, <2>1, <2>2, <2>3, Slack DEF NonceInv
  <2>13. Paid'
    BY <2>1, <2>2, <2>3, <2>10
  <2>14. NeverReinstalled' /\ ActionsNotRepeated'
    BY <2>1, <2>2, <2>3, <2>10
  <2> QED BY <2>11, <2>12, <2>13, <2>14 DEF NonceInv
<1>6. CASE CleanCurrentNonce
  BY <1>6 DEF CleanCurrentNonce
<1>7. CASE CleanCurrentBlob
  BY <1>7 DEF CleanCurrentBlob
<1>8. CASE CleanCurrentPolicy
  BY <1>8 DEF CleanCurrentPolicy, CleanedUp
<1> QED BY <1>1, <1>2, <1>3, <1>4, <1>5, <1>6, <1>7, <1>8

\* Step 3, the transition and the lock: a nonce is used once.
LEMMA TargetNonceStepInv ==
  ASSUME BootInv, NonceInv,
         \/ VerifyTarget \/ SetCurrentBlob \/ SetCurrentNonce \/ SetCurrentPolicy
         \/ DrawNextNonce \/ SetNextNonce \/ DropNextBlob \/ LockPolicyVariables
  PROVE  NonceInv'
<1>0. TypeOK /\ TargetInHand
  BY DEF BootInv
<1> USE <1>0, FaultsType, MfciAssumption DEF TypeOK, NonceInv, Drawn, OpenUntilLock, TargetNonceInv, Paid, NeverReinstalled, ActionsNotRepeated,
     Cleaning, Underway, nv, boot, history
<1>1. CASE VerifyTarget
  <2>1. /\ pc = "step3" /\ faults' \in Nat /\ faults' >= faults
        /\ UNCHANGED <<nv, varlock, TargetNonce, issued, crashes>>
    BY <1>1 DEF VerifyTarget
  <2>2. CASE Exit("EFI_SUCCESS") \/ Exit("EFI_DEVICE_ERROR")
    <3>1. pc' = "lock" /\ UNCHANGED history
      BY <1>1, <2>2 DEF VerifyTarget, Exit, InternalCleanupTargetPolicy, InternalTransitionRoutine
    <3>2. Drawn'
      BY <2>1, <3>1
    <3>3. OpenUntilLock' /\ TargetNonceInv'
      BY <2>1, <3>1
    <3>4. ActionsNotRepeated' /\ (repeats + 1 <= crashes + faults => repeats' + 1 <= crashes' + faults')
      BY ONLY <1>0, NonceInv, <2>1, <3>1, Slack DEF NonceInv, history
    <3>5. Paid' /\ NeverReinstalled'
      BY <2>1, <3>1, <3>4
    <3> QED BY <3>2, <3>3, <3>4, <3>5 DEF NonceInv
  <2>3. CASE InternalCleanupTargetPolicy
    <3>1. pc' = "rollNonce" /\ performed' = performed /\ repeats' = repeats /\ spent' = spent
      BY <2>3, CleanupHistory DEF InternalCleanupTargetPolicy
    <3>2. Drawn'
      BY <2>1, <3>1
    <3>3. OpenUntilLock' /\ TargetNonceInv'
      BY <2>1, <3>1
    <3>4. ActionsNotRepeated' /\ (repeats + 1 <= crashes + faults => repeats' + 1 <= crashes' + faults')
      BY ONLY <1>0, NonceInv, <2>1, <3>1, Slack DEF NonceInv, history
    <3>5. Paid' /\ NeverReinstalled'
      BY <2>1, <3>1, <3>4
    <3> QED BY <3>2, <3>3, <3>4, <3>5 DEF NonceInv
  <2>4. CASE NextBlob # None /\ TargetIsValid(NextBlob, TargetNonce) /\ InternalTransitionRoutine(NextBlob)
    <3>1. pc' \in {"rollNonce", "setBlob"} /\ spent' = spent /\ NextBlob.nonce = NextNonce
      BY <2>1, <2>4 DEF InternalTransitionRoutine, TargetIsValid
    <3>2. performed' \in {performed, performed \cup {NextBlob.nonce}}
      BY <2>4 DEF InternalTransitionRoutine, NotifyMfciPolicyChange
    <3>3. repeats' = repeats \/ (repeats' = repeats + 1 /\ NextBlob.nonce \in performed)
      BY <2>4 DEF InternalTransitionRoutine, NotifyMfciPolicyChange
    <3>4. performed' \subseteq 1 .. issued
      BY <2>4, <3>2
    <3>5. repeats' <= crashes + faults
      BY <2>1, <3>1, <3>3
    <3>11. Drawn'
      BY <2>1, <2>4, <3>1, <3>4, <3>5
    <3>12. OpenUntilLock' /\ TargetNonceInv'
      BY <2>1, <2>4, <3>1, <3>4, <3>5
    <3>13. Paid'
      BY <2>1, <2>4, <3>1, <3>4, <3>5
    <3>14. NeverReinstalled'
      BY <2>1, <2>4, <3>1, <3>4, <3>5
    <3>15. ActionsNotRepeated'
      <4>1. repeats' \in Nat /\ crashes' = crashes /\ faults' \in Nat /\ faults' >= faults
        BY <2>1, <3>3
      <4>2. crashes \in Nat /\ faults \in Nat
        OBVIOUS
      <4>3. repeats' <= crashes + faults'
        BY ONLY <3>5, <4>1, <4>2, SumGrows
      <4> QED BY <4>1, <4>3
    <3> QED BY <3>11, <3>12, <3>13, <3>14, <3>15 DEF NonceInv
  <2> QED BY <1>1, <2>2, <2>3, <2>4 DEF VerifyTarget
<1>2. CASE SetCurrentBlob
  BY <1>2 DEF SetCurrentBlob
<1>3. CASE SetCurrentNonce
  BY <1>3 DEF SetCurrentNonce
<1>4. CASE SetCurrentPolicy
  BY <1>4 DEF SetCurrentPolicy
<1>5. CASE DrawNextNonce
  BY <1>5 DEF DrawNextNonce, RolledNonce, GetRandomNumber64, MFCI_POLICY_INVALID_NONCE
<1>6. CASE SetNextNonce
  <2>1. /\ pc = "setNextNonce" /\ pc' = "dropBlob"
        /\ UNCHANGED <<NextBlob, TargetNonce, varlock, job, issued, crashes, performed, repeats>>
    BY <1>6 DEF SetNextNonce
  <2>2. \/ /\ NextNonce' = TargetNonce /\ faults' = faults
           /\ spent' = spent \/ (job = "transition" /\ spent' = spent \cup {NextBlob.nonce})
        \/ NextNonce' = NextNonce /\ faults' = faults + 1 /\ spent' = spent
    BY <1>6, <2>1 DEF SetNextNonce, SetVariable, Protected, After, EFI_ERROR, Fault
  <2>3. CASE NextNonce' = TargetNonce /\ faults' = faults /\ spent' = spent
    BY <2>1, <2>3
  <2>4. CASE NextNonce' = NextNonce /\ faults' = faults + 1 /\ spent' = spent
    BY <2>1, <2>4
  <2>5. CASE NextNonce' = TargetNonce /\ faults' = faults /\ job = "transition" /\ spent' = spent \cup {NextBlob.nonce}
    <3>1. NextBlob # None
      BY <2>1, <2>5 DEF TargetInHand
    <3>2. NextBlob.nonce \in 1 .. issued /\ TargetNonce # NextBlob.nonce
      BY <2>1, <3>1
    <3> QED BY <2>1, <2>5, <3>2
  <2> QED BY <2>2, <2>3, <2>4, <2>5
<1>7. CASE DropNextBlob
  <2>1. faults' \in Nat /\ faults' >= faults /\ NextBlob' \in {None, NextBlob}
    BY <1>7 DEF DropNextBlob, After
  <2>2. /\ pc = "dropBlob" /\ pc' = (IF job = "transition" THEN "off" ELSE "cleanNonce")
        /\ UNCHANGED <<NextNonce, TargetNonce, varlock, job, issued, crashes, performed, repeats, spent>>
    BY <1>7 DEF DropNextBlob
  <2>4. job # "target"
    BY <2>2 DEF BootInv, JobInv, Rolling
  <2>11. Drawn'
    BY <2>1, <2>2, <2>4
  <2>12. OpenUntilLock' /\ TargetNonceInv'
    BY <2>1, <2>2, <2>4
  <2>10. ActionsNotRepeated' /\ (repeats + 1 <= crashes + faults => repeats' + 1 <= crashes' + faults')
    BY ONLY <1>0, NonceInv, <2>1, <2>2, <2>4, Slack DEF NonceInv
  <2>13. Paid'
    BY <2>1, <2>2, <2>4, <2>10
  <2>14. NeverReinstalled' /\ ActionsNotRepeated'
    BY <2>1, <2>2, <2>4, <2>10
  <2> QED BY <2>11, <2>12, <2>13, <2>14 DEF NonceInv
<1>8. CASE LockPolicyVariables
  <2>1. performed' = performed /\ repeats' = repeats /\ spent' = spent
    BY <1>8, CleanupHistory DEF LockPolicyVariables
  <2>2. faults' \in Nat /\ faults' >= faults
    BY <1>8 DEF LockPolicyVariables
  <2>3. pc' = "bds" \/ (pc' = "cleanNonce" /\ job' = "exit")
    BY <1>8 DEF LockPolicyVariables, InternalCleanupCurrentPolicy
  <2>4. pc = "lock" /\ UNCHANGED <<nv, TargetNonce, issued, crashes>>
    BY <1>8 DEF LockPolicyVariables
  <2>11. Drawn'
    BY <2>1, <2>2, <2>3, <2>4
  <2>12. OpenUntilLock' /\ TargetNonceInv'
    BY <2>1, <2>2, <2>3, <2>4
  <2>10. ActionsNotRepeated' /\ (repeats + 1 <= crashes + faults => repeats' + 1 <= crashes' + faults')
    BY ONLY <1>0, NonceInv, <2>1, <2>2, <2>3, <2>4, Slack DEF NonceInv
  <2>13. Paid'
    BY <2>1, <2>2, <2>3, <2>4, <2>10
  <2>14. NeverReinstalled' /\ ActionsNotRepeated'
    BY <2>1, <2>2, <2>3, <2>4, <2>10
  <2> QED BY <2>11, <2>12, <2>13, <2>14 DEF NonceInv
<1> QED BY <1>1, <1>2, <1>3, <1>4, <1>5, <1>6, <1>7, <1>8

\* The OS and power failures.
LEMMA WorldNonceInv ==
  ASSUME BootInv, NonceInv,
         \/ BootOs \/ OsWritesMailbox \/ OsSpoilsNonce \/ Restart \/ PowerFailure
  PROVE  NonceInv'
<1>0. TypeOK /\ TargetInHand
  BY DEF BootInv
<1> USE <1>0, FaultsType, MfciAssumption DEF TypeOK, NonceInv, Drawn, OpenUntilLock, TargetNonceInv, Paid, NeverReinstalled, ActionsNotRepeated,
     Cleaning, Underway, nv, boot, history
<1>1. CASE BootOs
  BY <1>1 DEF BootOs
<1>2. CASE OsWritesMailbox
  BY <1>2 DEF OsWritesMailbox, OsBlobs
<1>3. CASE Restart
  BY <1>3 DEF Restart
<1>4. CASE PowerFailure
  BY <1>4 DEF PowerFailure
<1>5. CASE OsSpoilsNonce
  BY <1>5 DEF OsSpoilsNonce
<1> QED BY <1>1, <1>2, <1>3, <1>4, <1>5

\* Every step keeps both invariants.
LEMMA NextNonceInv == BootInv /\ NonceInv /\ [Next]_vars => NonceInv'
<1> SUFFICES ASSUME BootInv, NonceInv, [Next]_vars PROVE NonceInv'
  OBVIOUS
<1>1. CASE UNCHANGED vars
  <2>1. UNCHANGED <<nv, pc, registered, varlock, TargetNonce, job, issued, faults, crashes, performed, repeats, spent>>
    BY <1>1 DEF vars, boot, history
  <2>2. Drawn' /\ OpenUntilLock'
    BY <2>1 DEF nv, NonceInv, Drawn, OpenUntilLock
  <2>3. TargetNonceInv'
    BY <2>1 DEF nv, NonceInv, TargetNonceInv
  <2>4. Paid' /\ NeverReinstalled' /\ ActionsNotRepeated'
    BY <2>1 DEF nv, NonceInv, Paid, NeverReinstalled, ActionsNotRepeated
  <2> QED BY <2>2, <2>3, <2>4 DEF NonceInv
<1>2. CASE Next
  BY <1>2, EntryNonceInv, CurrentNonceInv, TargetNonceStepInv, WorldNonceInv
     DEF Next, Firmware, VerifyPolicyAndChange
<1> QED BY <1>1, <1>2

\* The invariant of the nonces holds in every state.
THEOREM NonceInvariant == Spec => []NonceInv
<1> QED BY InitNonceInv, NextNonceInv, BootInvariant, PTL DEF Spec

\* The nonce of a transition that stored a new one is never the target nonce again,
\* whatever fails then and later: once its write of the nonce is through,
\* CleanTargetVariables has made the blob a one-time grant.
THEOREM GrantsAreUsedOnce == Spec => []NeverReinstalled
<1>1. NonceInv => NeverReinstalled
  BY DEF NonceInv
<1> QED BY <1>1, NonceInvariant, PTL

\* However many boots a transition takes, its actions are notified again at most
\* once for every power failure and every failed call.
THEOREM RepetitionsAreBounded == Spec => []ActionsNotRepeated
<1>1. NonceInv => ActionsNotRepeated
  BY DEF NonceInv
<1> QED BY <1>1, NonceInvariant, PTL

=============================================================================
