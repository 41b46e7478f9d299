----------------------------- MODULE MfciProofs -----------------------------
(***************************************************************************)
(* Mfci for every set of policies, and every number of boots, failures and *)
(* mailbox writes: types, and what a boot that reaches BDS can rely on.    *)
(***************************************************************************)
EXTENDS Mfci, TLAPS

\* Action bits are cleared, and CUSTOMER_STATE has none.
LEMMA PolicyFacts ==
  /\ CUSTOMER_STATE \in StatePolicies
  /\ StatePolicies \subseteq Policies
  /\ \A p \in Policies : ClearActions(p) \in StatePolicies
BY MfciAssumption DEF CUSTOMER_STATE, StatePolicies, Policies, ClearActions

\* While a transition is under way there is a blob in the Next mailbox.
TargetInHand ==
  /\ pc \in {"setBlob", "setNonce", "setPolicy"} => job = "transition"
  /\ pc \in {"setBlob", "setNonce", "setPolicy", "rollNonce", "setNextNonce", "dropBlob"} /\ job = "transition"
       => NextBlob # None

\* Every variable has its type in the first state.
LEMMA InitTypeOK == Init => TypeOK
BY PolicyFacts DEF Init, TypeOK, MFCI_POLICY_INVALID_NONCE, AllRegistered, Statuses

\* Every step of the entry points keeps the types.
LEMMA EntryTypeOK ==
  ASSUME TypeOK, MfciPeiEntry \/ MfciDxeEntry \/ MfciDxeEntryLatePolicy \/ MfciDxeEntryError
  PROVE  TypeOK'
<1> USE PolicyFacts DEF TypeOK, Fault, AllRegistered, MFCI_POLICY_INVALID_NONCE, Statuses, nv, history
<1>1. CASE MfciPeiEntry
  BY <1>1 DEF MfciPeiEntry, StoredPolicy
<1>2. CASE MfciDxeEntry
  BY <1>2 DEF MfciDxeEntry, MfciRetrievePolicy
<1>3. CASE MfciDxeEntryLatePolicy
  BY <1>3 DEF MfciDxeEntryLatePolicy, MfciRetrievePolicy
<1>4. CASE MfciDxeEntryError
  BY <1>4 DEF MfciDxeEntryError
<1> QED BY <1>1, <1>2, <1>3, <1>4

\* What a failed or successful write leaves is of the variable's type.
LEMMA AfterType ==
  ASSUME NEW S, NEW s, NEW value \in S, NEW old \in S
  PROVE  After(s, value, old) \in S
BY DEF After

\* Statuses are status values, and collecting them keeps it so.
LEMMA CollectType ==
  ASSUME TypeOK, NEW s \in Statuses, Collect(s)
  PROVE  status' \in Statuses \cup {"EFI_ABORTED", "EFI_NOT_FOUND", "EFI_DEVICE_ERROR"}
BY DEF TypeOK, Collect, Statuses

\* A service call counts at most one fault.
LEMMA FaultsType ==
  ASSUME TypeOK
  PROVE  /\ Fault => faults' \in Nat /\ faults' = faults + 1
         /\ \A s : SetMailbox(s) => faults' \in Nat /\ faults' >= faults
         /\ \A name, s : SetVariable(name, s) => faults' \in Nat /\ faults' >= faults
         /\ \A n : GetRandomNumber64(n) =>
               /\ faults' \in Nat /\ faults' >= faults /\ issued' \in Nat /\ n \in Nat
               /\ issued' >= issued /\ n \in {0, issued'}
BY DEF TypeOK, Fault, SetMailbox, SetVariable, GetRandomNumber64, MFCI_POLICY_INVALID_NONCE

\* A notification, and the beginning of either cleanup, keep the types.
LEMMA NotifyType ==
  ASSUME TypeOK, NEW p \in Policies, NEW n \in Nat, NotifyMfciPolicyChange(p, n)
  PROVE  announced' \in Policies \cup {None} /\ performed' \subseteq Nat /\ repeats' \in Nat
BY DEF TypeOK, NotifyMfciPolicyChange

LEMMA CleanupType ==
  ASSUME TypeOK, NEW j, InternalCleanupCurrentPolicy(j) \/ InternalCleanupTargetPolicy
  PROVE  /\ announced' \in Policies \cup {None} /\ performed' \subseteq Nat /\ repeats' \in Nat
         /\ spent' = spent
<1>1. CASE mCurrentPolicy # CUSTOMER_STATE
  <2>1. NotifyMfciPolicyChange(CUSTOMER_STATE, MFCI_POLICY_INVALID_NONCE) /\ spent' = spent
    BY <1>1 DEF InternalCleanupCurrentPolicy, InternalCleanupTargetPolicy
  <2> QED BY <2>1, NotifyType, PolicyFacts DEF MFCI_POLICY_INVALID_NONCE
<1>2. CASE mCurrentPolicy = CUSTOMER_STATE
  BY <1>2 DEF InternalCleanupCurrentPolicy, InternalCleanupTargetPolicy, history, TypeOK
<1> QED BY <1>1, <1>2

\* Every step of VerifyPolicyAndChange up to the verdict on the current policy
\* keeps the types.
LEMMA CurrentTypeOK ==
  ASSUME TypeOK,
         \/ PopulateTargetVarsFails \/ TargetNonceExists \/ DrawTargetNonce \/ SetTargetNonce
         \/ VerifyCurrent \/ CleanCurrentNonce \/ CleanCurrentBlob \/ CleanCurrentPolicy
  PROVE  TypeOK'
<1> USE PolicyFacts, FaultsType, MfciAssumption DEF TypeOK, MFCI_POLICY_INVALID_NONCE, Statuses, nv, boot, history
<1>1. CASE PopulateTargetVarsFails
  BY <1>1 DEF PopulateTargetVarsFails, Exit
<1>2. CASE TargetNonceExists
  BY <1>2 DEF TargetNonceExists
<1>3. CASE DrawTargetNonce
  BY <1>3 DEF DrawTargetNonce
<1>4. CASE SetTargetNonce
  BY <1>4 DEF SetTargetNonce, Exit, After
<1>5. CASE VerifyCurrent
  <2>1. /\ announced' \in Policies \cup {None} /\ performed' \subseteq Nat /\ repeats' \in Nat
        /\ spent' = spent
    BY <1>5, CleanupType DEF VerifyCurrent
  <2>2. faults' \in Nat /\ pc' \in {"step3", "cleanNonce", "lock"} /\ job' \in {job, "target"}
    BY <1>5 DEF VerifyCurrent, Exit, InternalCleanupCurrentPolicy
  <2>3. status' \in {status, "EFI_SUCCESS", "EFI_NOT_FOUND", "EFI_DEVICE_ERROR"}
    BY <1>5 DEF VerifyCurrent, Exit, InternalCleanupCurrentPolicy
  <2> QED BY <1>5, <2>1, <2>2, <2>3 DEF VerifyCurrent
<1>6. CASE CleanCurrentNonce
  BY <1>6, CollectType DEF CleanCurrentNonce, After
<1>7. CASE CleanCurrentBlob
  BY <1>7, CollectType DEF CleanCurrentBlob, After
<1>8. CASE CleanCurrentPolicy
  BY <1>8, CollectType DEF CleanCurrentPolicy, After, CleanedUp
<1> QED BY <1>1, <1>2, <1>3, <1>4, <1>5, <1>6, <1>7, <1>8

\* So do the steps on the target, the lock, and the world outside.
LEMMA TargetTypeOK ==
  ASSUME TypeOK, TargetInHand,
         \/ VerifyTarget \/ SetCurrentBlob \/ SetCurrentNonce \/ SetCurrentPolicy
         \/ DrawNextNonce \/ SetNextNonce \/ DropNextBlob \/ LockPolicyVariables
         \/ BootOs \/ OsWritesMailbox \/ OsSpoilsNonce \/ Restart \/ PowerFailure
  PROVE  TypeOK'
<1> USE PolicyFacts, FaultsType, MfciAssumption DEF TypeOK, MFCI_POLICY_INVALID_NONCE, Statuses, nv, boot, history
<1>1. CASE VerifyTarget
  <2>1. /\ announced' \in Policies \cup {None} /\ performed' \subseteq Nat /\ repeats' \in Nat
        /\ spent' = spent
    <3>1. CASE NextBlob # None /\ InternalTransitionRoutine(NextBlob)
      <4>1. NextBlob.policy \in Policies /\ NextBlob.nonce \in Nat
        BY <3>1 DEF Blobs
      <4> QED BY <3>1, <4>1, NotifyType DEF InternalTransitionRoutine
    <3> QED BY <1>1, <3>1, CleanupType DEF VerifyTarget
  <2>2. faults' \in Nat /\ pc' \in {"lock", "rollNonce", "setBlob"} /\ job' \in {job, "reject", "transition"}
    BY <1>1 DEF VerifyTarget, Exit, InternalCleanupTargetPolicy, InternalTransitionRoutine
  <2>3. status' \in {status, "EFI_SUCCESS", "EFI_DEVICE_ERROR"}
    BY <1>1 DEF VerifyTarget, Exit, InternalCleanupTargetPolicy, InternalTransitionRoutine
  <2> QED BY <1>1, <2>1, <2>2, <2>3 DEF VerifyTarget
<1>2. CASE SetCurrentBlob
  BY <1>2 DEF SetCurrentBlob, After
<1>3. CASE SetCurrentNonce
  BY <1>3 DEF SetCurrentNonce, After
<1>4. CASE SetCurrentPolicy
  <2>1. NextBlob.policy \in Policies
    BY <1>4 DEF SetCurrentPolicy, TargetInHand, Blobs
  <2>2. CurrentPolicy' \in StatePolicies \cup {None}
    BY <1>4, <2>1 DEF SetCurrentPolicy, After
  <2> QED BY <1>4, <2>2 DEF SetCurrentPolicy
<1>5. CASE DrawNextNonce
  BY <1>5 DEF DrawNextNonce, RolledNonce
<1>6. CASE SetNextNonce
  <2>1. spent' \subseteq Nat
    BY <1>6 DEF SetNextNonce, TargetInHand, Blobs
  <2> QED BY <1>6, <2>1 DEF SetNextNonce, After
<1>7. CASE DropNextBlob
  BY <1>7 DEF DropNextBlob, After
<1>8. CASE LockPolicyVariables
  <2>1. /\ announced' \in Policies \cup {None} /\ performed' \subseteq Nat /\ repeats' \in Nat
        /\ spent' = spent
    BY <1>8, CleanupType DEF LockPolicyVariables
  <2>2. faults' \in Nat /\ varlock' \in {varlock, "set"}
    BY <1>8 DEF LockPolicyVariables
  <2>3. pc' \in {"bds", "cleanNonce"} /\ job' \in {job, "exit"} /\ status' \in {status, "EFI_SUCCESS"}
    BY <1>8 DEF LockPolicyVariables, InternalCleanupCurrentPolicy
  <2> QED BY <1>8, <2>1, <2>2, <2>3 DEF LockPolicyVariables
<1>9. CASE BootOs
  BY <1>9 DEF BootOs
<1>10. CASE OsWritesMailbox
  BY <1>10 DEF OsWritesMailbox, OsBlobs, Blobs
<1>11. CASE Restart
  BY <1>11 DEF Restart
<1>12. CASE PowerFailure
  BY <1>12 DEF PowerFailure
<1>13. CASE OsSpoilsNonce
  BY <1>13 DEF OsSpoilsNonce
<1> QED BY <1>1, <1>2, <1>3, <1>4, <1>5, <1>6, <1>7, <1>8, <1>9, <1>10, <1>11, <1>12, <1>13

-----------------------------------------------------------------------------
(* The invariant of a boot: which policy is stored, which one has been     *)
(* announced and which one authenticated, at every step of                 *)
(* VerifyPolicyAndChange.                                                  *)

Cleaning   == {"cleanNonce", "cleanBlob", "cleanPolicy"}
Installing == {"setBlob", "setNonce", "setPolicy"}
Rolling    == {"rollNonce", "setNextNonce", "dropBlob"}

Authentic ==
  /\ CurrentBlob # None /\ CurrentNonce # None
  /\ CurrentIsAuthentic(CurrentBlob, CurrentNonce, mCurrentPolicy)

\* Past step 2, the policy in force is CUSTOMER_STATE or authenticated, unless step 2
\* gave up on the nonce.
Verified ==
  \/ pc = "step3"
  \/ pc = "lock" /\ status = "EFI_SUCCESS"
  \/ pc = "bds" /\ entry # "error"
  => mCurrentPolicy = CUSTOMER_STATE \/ Authentic \/ NonceIsSpoilt

\* Only the boots that failed in an entry point get past it without a policy.
EntryDone ==
  /\ pc = "entry" => entry \in {"none", "degraded"}
  /\ pc \notin {"off", "entry", "bds", "os"} => entry \in {"done", "degraded"}

\* The stored policy is the one in force until a transition has replaced it.
InStep ==
  /\ pc = "entry" /\ entry = "none" => hob = StoredPolicy
  /\ entry = "done" /\ pc \notin {"off", "entry", "os"} /\ ~ (pc \in Rolling /\ job = "transition")
       => StoredPolicy = mCurrentPolicy

\* The callbacks know what the writes under way will make of the policy.
Told ==
  /\ mCurrentPolicy # CUSTOMER_STATE /\ (pc \in Cleaning \/ (pc \in Rolling /\ job # "transition"))
       => announced = CUSTOMER_STATE
  /\ pc \in Installing => announced = NextBlob.policy

\* The target variables are cleaned for a rejection or a transition only.
JobInv == pc \in Rolling => job \in {"reject", "transition"}

BootInv == TypeOK /\ JobInv /\ TargetInHand /\ Verified /\ EntryDone /\ InStep /\ Told

\* The invariant holds before the first boot.
LEMMA InitBootInv == Init => BootInv
BY InitTypeOK DEF Init, BootInv, JobInv, TargetInHand, Verified, EntryDone, InStep, Told,
   Cleaning, Installing, Rolling

\* The entry points: the driver takes over the policy that PEI read.
LEMMA EntryBootInv ==
  ASSUME BootInv, MfciPeiEntry \/ MfciDxeEntry \/ MfciDxeEntryLatePolicy \/ MfciDxeEntryError
  PROVE  BootInv'
<1>1. TypeOK'
  BY EntryTypeOK DEF BootInv
<1> USE DEF BootInv, JobInv, TargetInHand, Verified, EntryDone, InStep, Told, Cleaning, Installing, Rolling, nv, history
<1>2. CASE MfciPeiEntry
  BY <1>1, <1>2 DEF MfciPeiEntry, StoredPolicy
<1>3. CASE MfciDxeEntry
  BY <1>1, <1>3 DEF MfciDxeEntry, MfciRetrievePolicy, StoredPolicy
<1>4. CASE MfciDxeEntryLatePolicy
  BY <1>1, <1>4 DEF MfciDxeEntryLatePolicy, MfciRetrievePolicy, StoredPolicy
<1>5. CASE MfciDxeEntryError
  BY <1>1, <1>5 DEF MfciDxeEntryError, StoredPolicy
<1> QED BY <1>2, <1>3, <1>4, <1>5

\* Steps 1 and 2 and the cleaning of the current variables.
LEMMA CurrentBootInv ==
  ASSUME BootInv,
         \/ PopulateTargetVarsFails \/ TargetNonceExists \/ DrawTargetNonce \/ SetTargetNonce
         \/ VerifyCurrent \/ CleanCurrentNonce \/ CleanCurrentBlob \/ CleanCurrentPolicy
  PROVE  BootInv'
<1>1. TypeOK'
  BY CurrentTypeOK DEF BootInv
<1> USE DEF BootInv, JobInv, TargetInHand, Verified, EntryDone, InStep, Told, Cleaning, Installing, Rolling, nv, boot, history
<1>2. CASE PopulateTargetVarsFails
  BY <1>1, <1>2 DEF PopulateTargetVarsFails, Exit, StoredPolicy
<1>3. CASE TargetNonceExists
  BY <1>1, <1>3 DEF TargetNonceExists, StoredPolicy
<1>4. CASE DrawTargetNonce
  BY <1>1, <1>4 DEF DrawTargetNonce, StoredPolicy
<1>5. CASE SetTargetNonce
  BY <1>1, <1>5 DEF SetTargetNonce, Exit, StoredPolicy, EFI_ERROR
<1>6. CASE VerifyCurrent
  BY <1>1, <1>6 DEF VerifyCurrent, Exit, InternalCleanupCurrentPolicy, NotifyMfciPolicyChange, StoredPolicy, Authentic, NonceIsSpoilt
<1>7. CASE CleanCurrentNonce
  BY <1>1, <1>7 DEF CleanCurrentNonce, StoredPolicy
<1>8. CASE CleanCurrentBlob
  BY <1>1, <1>8 DEF CleanCurrentBlob, StoredPolicy
<1>9. CASE CleanCurrentPolicy
  BY <1>1, <1>9 DEF CleanCurrentPolicy, StoredPolicy, CleanedUp, After
<1> QED BY <1>2, <1>3, <1>4, <1>5, <1>6, <1>7, <1>8, <1>9

\* Step 3, the transition, the cleaning of the target variables and the lock.
LEMMA TargetBootInv ==
  ASSUME BootInv,
         \/ VerifyTarget \/ SetCurrentBlob \/ SetCurrentNonce \/ SetCurrentPolicy
         \/ DrawNextNonce \/ SetNextNonce \/ DropNextBlob \/ LockPolicyVariables
  PROVE  BootInv'
<1>1. TypeOK'
  BY TargetTypeOK DEF BootInv
<1> USE DEF BootInv, JobInv, TargetInHand, Verified, EntryDone, InStep, Told, Cleaning, Installing, Rolling, nv, boot, history
<1>2. CASE VerifyTarget
  BY <1>1, <1>2 DEF VerifyTarget, Exit, InternalCleanupTargetPolicy, InternalTransitionRoutine, NotifyMfciPolicyChange, StoredPolicy, Authentic, NonceIsSpoilt
<1>3. CASE SetCurrentBlob
  BY <1>1, <1>3 DEF SetCurrentBlob, StoredPolicy
<1>4. CASE SetCurrentNonce
  BY <1>1, <1>4 DEF SetCurrentNonce, StoredPolicy
<1>5. CASE SetCurrentPolicy
  BY <1>1, <1>5 DEF SetCurrentPolicy
<1>6. CASE DrawNextNonce
  BY <1>1, <1>6 DEF DrawNextNonce, StoredPolicy
<1>7. CASE SetNextNonce
  BY <1>1, <1>7 DEF SetNextNonce, StoredPolicy
<1>8. CASE DropNextBlob
  BY <1>1, <1>8 DEF DropNextBlob, StoredPolicy
<1>9. CASE LockPolicyVariables
  BY <1>1, <1>9 DEF LockPolicyVariables, InternalCleanupCurrentPolicy, NotifyMfciPolicyChange, StoredPolicy, Authentic, NonceIsSpoilt, EFI_ERROR
<1> QED BY <1>2, <1>3, <1>4, <1>5, <1>6, <1>7, <1>8, <1>9

\* The world outside.
LEMMA WorldBootInv ==
  ASSUME BootInv, BootOs \/ OsWritesMailbox \/ OsSpoilsNonce \/ Restart \/ PowerFailure
  PROVE  BootInv'
<1>1. TypeOK'
  BY TargetTypeOK DEF BootInv
<1> USE DEF BootInv, JobInv, TargetInHand, Verified, EntryDone, InStep, Told, Cleaning, Installing, Rolling, nv, boot, history
<1>2. CASE BootOs
  BY <1>1, <1>2 DEF BootOs
<1>3. CASE OsWritesMailbox
  BY <1>1, <1>3 DEF OsWritesMailbox
<1>4. CASE Restart
  BY <1>1, <1>4 DEF Restart
<1>5. CASE PowerFailure
  BY <1>1, <1>5 DEF PowerFailure
<1>6. CASE OsSpoilsNonce
  BY <1>1, <1>6 DEF OsSpoilsNonce
<1> QED BY <1>2, <1>3, <1>4, <1>5, <1>6

\* Every step keeps the invariant.
LEMMA NextBootInv == BootInv /\ [Next]_vars => BootInv'
<1> SUFFICES ASSUME BootInv, [Next]_vars PROVE BootInv'
  OBVIOUS
<1>1. CASE UNCHANGED vars
  BY <1>1 DEF vars, nv, boot, history, BootInv, JobInv, TypeOK, TargetInHand, Verified, EntryDone, InStep, Told,
     Authentic, NonceIsSpoilt, StoredPolicy
<1>2. CASE Next
  BY <1>2, EntryBootInv, CurrentBootInv, TargetBootInv, WorldBootInv
     DEF Next, Firmware, VerifyPolicyAndChange
<1> QED BY <1>1, <1>2

\* The invariant holds in every state of every behaviour.
THEOREM BootInvariant == Spec => []BootInv
<1> QED BY InitBootInv, NextBootInv, PTL DEF Spec

\* Every variable keeps its type; no policy with action bits is ever in force.
THEOREM MfciTypeCorrect == Spec => []TypeOK
<1>1. BootInv => TypeOK
  BY DEF BootInv
<1> QED BY <1>1, BootInvariant, PTL

\* A boot that passes StartOfBds under a policy other than CUSTOMER_STATE has
\* authenticated the blob that grants it, with its nonce, in step 2, or its current
\* nonce has a size or attributes that step 2 does not accept.
THEOREM BdsPolicyIsAuthentic == Spec => []PolicyIsAuthentic
<1>1. BootInv => PolicyIsAuthentic
  <2> SUFFICES ASSUME BootInv, pc = "bds", entry # "error", mCurrentPolicy # CUSTOMER_STATE,
                      ~ NonceIsSpoilt
      PROVE /\ CurrentBlob # None /\ CurrentNonce # None
            /\ CurrentBlob.ok = "yes" /\ CurrentBlob.nonce = CurrentNonce
            /\ CurrentBlob.policy.state = mCurrentPolicy.state
    BY DEF PolicyIsAuthentic
  <2> QED BY DEF BootInv, Verified, Authentic, CurrentIsAuthentic, ClearActions
<1> QED BY <1>1, BootInvariant, PTL

\* No boot goes on to BDS with another policy stored than the one in force:
\* every path that changes the stored policy ends in a reset.
THEOREM ChangeMeansReset == Spec => []NoChangeWithoutReset
<1>1. BootInv => NoChangeWithoutReset
  BY DEF BootInv, InStep, NoChangeWithoutReset, Rolling
<1> QED BY <1>1, BootInvariant, PTL

\* The callbacks registered with the protocol hear of every change of the stored
\* policy before it is made.
THEOREM ChangeIsAnnounced == Spec => NoSilentChange
<1> DEFINE Announced == entry # "degraded" /\ StoredPolicy' # StoredPolicy
                          => announced # None /\ StoredPolicy' = ClearActions(announced)
<1>1. BootInv /\ [Next]_vars => [Announced]_vars
  <2> SUFFICES ASSUME BootInv, Next, entry # "degraded", StoredPolicy' # StoredPolicy
      PROVE announced # None /\ StoredPolicy' = ClearActions(announced)
    OBVIOUS
  <2>1. CleanCurrentPolicy \/ SetCurrentPolicy
    BY DEF Next, Firmware, VerifyPolicyAndChange, StoredPolicy, nv, MfciPeiEntry, MfciDxeEntry,
       MfciDxeEntryLatePolicy, MfciDxeEntryError, PopulateTargetVarsFails, TargetNonceExists,
       DrawTargetNonce, SetTargetNonce, VerifyCurrent, CleanCurrentNonce, CleanCurrentBlob,
       VerifyTarget, SetCurrentBlob, SetCurrentNonce, DrawNextNonce, SetNextNonce, DropNextBlob,
       LockPolicyVariables, BootOs, OsWritesMailbox, OsSpoilsNonce, Restart, PowerFailure
  <2>2. entry = "done"
    BY <2>1 DEF BootInv, EntryDone, CleanCurrentPolicy, SetCurrentPolicy
  <2>3. CASE CleanCurrentPolicy
    <3>1. StoredPolicy = mCurrentPolicy
      BY <2>2, <2>3 DEF BootInv, InStep, CleanCurrentPolicy, Rolling
    <3>2. StoredPolicy' = CUSTOMER_STATE
      BY <2>3 DEF CleanCurrentPolicy, StoredPolicy, After
    <3>3. announced = CUSTOMER_STATE
      <4>1. mCurrentPolicy # CUSTOMER_STATE
        BY <3>1, <3>2
      <4>2. pc \in Cleaning
        BY <2>3 DEF Cleaning, CleanCurrentPolicy
      <4> QED BY <4>1, <4>2 DEF BootInv, Told
    <3> QED BY <3>2, <3>3, MfciAssumption, PolicyFacts DEF ClearActions, CUSTOMER_STATE, StatePolicies
  <2>4. CASE SetCurrentPolicy
    <3>1. announced = NextBlob.policy /\ NextBlob \in Blobs
      BY <2>4 DEF BootInv, Told, Installing, SetCurrentPolicy, TargetInHand, TypeOK
    <3>2. announced \in Policies
      BY <3>1 DEF Blobs
    <3>3. announced # None
      BY <3>2, MfciAssumption DEF Policies
    <3>4. ClearActions(NextBlob.policy) # None
      BY <3>1, <3>2, MfciAssumption, PolicyFacts DEF Policies
    <3>5. StoredPolicy' = ClearActions(NextBlob.policy)
      BY <2>4, <3>4 DEF SetCurrentPolicy, StoredPolicy, After
    <3> QED BY <3>1, <3>3, <3>5
  <2> QED BY <2>1, <2>3, <2>4
<1> QED BY <1>1, BootInvariant, PTL DEF Spec, NoSilentChange

=============================================================================
