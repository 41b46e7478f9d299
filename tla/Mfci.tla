-------------------------------- MODULE Mfci --------------------------------
(***************************************************************************)
(* MfciPkg: the policy state machine of MfciPei and MfciDxe over any       *)
(* number of boots.  Five UEFI variables persist: the Current policy, its  *)
(* nonce and its signed blob, and the Next nonce and blob.  PEI trusts the *)
(* bare policy variable; at StartOfBds VerifyPolicyAndChange authenticates *)
(* the blob behind it, installs or rejects a Next blob, repairs what an    *)
(* interrupted boot left torn, and resets whenever the policy changes.     *)
(*                                                                         *)
(* Every SetVariable is a step of its own: power may fail between any two, *)
(* and each call may itself fail.  A blob is what its checks can tell      *)
(* apart: whether signature and targeting fields hold for this device      *)
(* (ok), its nonce and its policy.  A policy is its state bits and whether *)
(* any action bit is set.  Random nonces are numbers never used before.    *)
(***************************************************************************)
EXTENDS Naturals

CONSTANTS States,      \* values of the state bits of a policy
          Customer,    \* the state bits of CUSTOMER_STATE
          None,        \* a variable that does not exist
          Malformed,   \* a nonce variable of another size or with other attributes
          MaxFaults,   \* bound: service calls that fail
          MaxCrashes,  \* bound: power failures
          MaxWrites    \* bound: writes by the OS

ASSUME MfciAssumption == /\ Customer \in States
                         /\ None \notin Nat /\ Malformed \notin Nat \cup {None}
                         /\ None \notin [state : States, act : {0, 1}]
                         /\ MaxFaults \in Nat /\ MaxCrashes \in Nat /\ MaxWrites \in Nat

MFCI_POLICY_INVALID_NONCE == 0

\* act is 1 when the policy has bits of MFCI_POLICY_VALUE_ACTIONS_MASK.
Policies == [state : States, act : {0, 1}]

\* What may be in force: a policy without actions.
StatePolicies == [state : States, act : {0}]

CUSTOMER_STATE == [state |-> Customer, act |-> 0]

Blobs == [ok : {"yes", "no"}, nonce : Nat, policy : Policies]

VARIABLES CurrentPolicy, CurrentNonce, CurrentBlob,  \* non-volatile
          NextNonce, NextBlob,                       \* non-volatile
          pc,              \* where the boot is
          hob,             \* the policy PEI used in this boot, or in the last
          mCurrentPolicy,
          registered,      \* variable policies registered, in their order
          varlock,         \* MFCI_LOCK_VAR_NAME exists
          TargetNonce,     \* as read in step 1
          job,             \* what the cleaning in progress is part of
          status,          \* Status, and ReturnStatus of a cleaning
          entry,           \* how the entry points of this boot fared
          issued,          \* nonces drawn so far
          faults, crashes, writes,
          announced,       \* history: NewPolicy of this boot's last notification
          performed,       \* history: nonces whose actions were performed
          repeats,         \* history: how often they were performed again
          spent            \* history: nonces of transitions that stored another one

nv       == <<CurrentPolicy, CurrentNonce, CurrentBlob, NextNonce, NextBlob>>
boot     == <<hob, mCurrentPolicy, registered, entry>>
history  == <<announced, performed, repeats, spent>>
vars     == <<nv, pc, boot, varlock, TargetNonce, job, status, issued,
              faults, crashes, writes, history>>

\* A device after flashing: no variable exists.
Init ==
  /\ CurrentPolicy = None /\ CurrentNonce = None /\ CurrentBlob = None
  /\ NextNonce = None /\ NextBlob = None
  /\ pc = "off" /\ hob = CUSTOMER_STATE /\ mCurrentPolicy = CUSTOMER_STATE
  /\ registered = 0 /\ varlock = "absent" /\ TargetNonce = MFCI_POLICY_INVALID_NONCE
  /\ job = "none" /\ status = "EFI_SUCCESS" /\ entry = "none"
  /\ issued = 0 /\ faults = 0 /\ crashes = 0 /\ writes = 0
  /\ announced = None /\ performed = {} /\ repeats = 0 /\ spent = {}

-----------------------------------------------------------------------------
(* Service calls.                                                          *)

\* A call that fails.
Fault == faults < MaxFaults /\ faults' = faults + 1

\* The position at which RegisterVarPolicies registers a locked variable.
PolicyOf == [CurrentPolicy |-> 1, NextNonce |-> 2, CurrentNonce |-> 3]
AllRegistered == 4

\* The variable policy refuses the write.
Protected(name) == varlock = "set" /\ registered >= PolicyOf[name]

\* What a SetVariable of a protected variable returns, and whether it counts as a fault.
SetVariable(name, s) ==
  \/ s = "EFI_WRITE_PROTECTED" /\ Protected(name) /\ UNCHANGED faults
  \/ s = "EFI_SUCCESS" /\ ~ Protected(name) /\ UNCHANGED faults
  \/ s = "EFI_OUT_OF_RESOURCES" /\ ~ Protected(name) /\ Fault

\* The mailboxes are never locked.
SetMailbox(s) ==
  \/ s = "EFI_SUCCESS" /\ UNCHANGED faults
  \/ s = "EFI_OUT_OF_RESOURCES" /\ Fault

Statuses == {"EFI_SUCCESS", "EFI_WRITE_PROTECTED", "EFI_OUT_OF_RESOURCES"}

EFI_ERROR(s) == s # "EFI_SUCCESS"

\* What a variable holds after a write of value that returned s.
After(s, value, old) == IF EFI_ERROR(s) THEN old ELSE value

\* GetRandomNumber64: a new number, or none.
GetRandomNumber64(n) ==
  \/ n = issued + 1 /\ issued' = n /\ UNCHANGED faults
  \/ n = MFCI_POLICY_INVALID_NONCE /\ UNCHANGED issued /\ Fault

\* Policy & ~MFCI_POLICY_VALUE_ACTIONS_MASK.
ClearActions(policy) == [state |-> policy.state, act |-> 0]

\* NotifyMfciPolicyChange: the callbacks perform the actions of the policy.
NotifyMfciPolicyChange(policy, nonce) ==
  /\ announced' = policy
  /\ performed' = IF policy.act = 1 THEN performed \cup {nonce} ELSE performed
  /\ repeats' = IF policy.act = 1 /\ nonce \in performed THEN repeats + 1 ELSE repeats

-----------------------------------------------------------------------------
(* PEI and the entry points.                                               *)

\* The policy PEI finds in the policy variable.
StoredPolicy == IF CurrentPolicy = None THEN CUSTOMER_STATE ELSE CurrentPolicy

\* MfciPeiEntry: the stored policy goes into the HOB.  If the variable cannot be
\* read, or the HOB not be built, this boot is one of CUSTOMER_STATE.
MfciPeiEntry ==
  /\ pc = "off" /\ pc' = "entry"
  /\ \/ hob' = StoredPolicy /\ entry' = "none" /\ UNCHANGED faults
     \/ hob' = CUSTOMER_STATE /\ entry' = "degraded" /\ Fault
  /\ mCurrentPolicy' = CUSTOMER_STATE /\ registered' = 0 /\ varlock' = "absent"
  /\ TargetNonce' = MFCI_POLICY_INVALID_NONCE
  /\ job' = "none" /\ status' = "EFI_SUCCESS" /\ announced' = None
  /\ UNCHANGED <<nv, issued, crashes, writes, performed, repeats, spent>>

\* MfciRetrievePolicy: the driver takes over the policy PEI used.
MfciRetrievePolicy ==
  mCurrentPolicy' = hob /\ entry' = IF entry = "none" THEN "done" ELSE entry

\* MfciDxeEntry: variable policies, cached policy, protocol, listeners, event.
MfciDxeEntry ==
  /\ pc = "entry"
  /\ registered' = AllRegistered
  /\ MfciRetrievePolicy /\ pc' = "step1"
  /\ UNCHANGED <<nv, hob, varlock, TargetNonce, job, status, issued, faults, crashes, writes, history>>

\* The variable policy protocol shows up late; VarPolicyCallback registers what
\* it can before it fails.
MfciDxeEntryLatePolicy ==
  /\ pc = "entry" /\ Fault
  /\ registered' \in 0 .. AllRegistered
  /\ MfciRetrievePolicy /\ pc' = "step1"
  /\ UNCHANGED <<nv, hob, varlock, TargetNonce, job, status, issued, crashes, writes, history>>

\* The Error path, before the policy is retrieved (a variable policy cannot be
\* registered) or after (a protocol, listener or event cannot be installed): the
\* variables are locked, which may fail as well, and the driver ends.
MfciDxeEntryError ==
  /\ pc = "entry" /\ Fault
  /\ registered' \in 0 .. AllRegistered
  /\ mCurrentPolicy' \in IF registered' = AllRegistered THEN {hob} ELSE {hob, CUSTOMER_STATE}
  /\ varlock' \in {"set", "absent"} /\ entry' = "error" /\ pc' = "bds"
  /\ UNCHANGED <<nv, hob, TargetNonce, job, status, issued, crashes, writes, history>>

-----------------------------------------------------------------------------
(* VerifyPolicyAndChange.                                                  *)

Exit(s) == pc' = "lock" /\ status' = s

\* The targeting variables cannot be populated.
PopulateTargetVarsFails ==
  /\ pc = "step1" /\ Fault /\ Exit("EFI_ABORTED")
  /\ UNCHANGED <<nv, boot, varlock, TargetNonce, job, issued, crashes, writes, history>>

\* Step 1: a usable target nonce is kept.
TargetNonceExists ==
  /\ pc = "step1" /\ NextNonce \notin {None, MFCI_POLICY_INVALID_NONCE}
  /\ TargetNonce' = NextNonce /\ pc' = "step2"
  /\ UNCHANGED <<nv, boot, varlock, job, status, issued, faults, crashes, writes, history>>

\* Step 1: there is none, or it cannot be read, and a new one is drawn.  Where the
\* read fails the drawing may fail with it.
DrawTargetNonce ==
  /\ pc = "step1" /\ pc' = "step1set"
  /\ \/ /\ NextNonce \in {None, MFCI_POLICY_INVALID_NONCE}
        /\ \E n \in {issued + 1, MFCI_POLICY_INVALID_NONCE} :
             GetRandomNumber64(n) /\ TargetNonce' = n
     \/ /\ NextNonce \notin {None, MFCI_POLICY_INVALID_NONCE} /\ Fault
        /\ \/ issued' = issued + 1 /\ TargetNonce' = issued + 1
           \/ TargetNonce' = MFCI_POLICY_INVALID_NONCE /\ UNCHANGED issued
  /\ UNCHANGED <<nv, boot, varlock, job, status, crashes, writes, history>>

\* Step 1: and stored.
SetTargetNonce ==
  /\ pc = "step1set"
  /\ \E s \in Statuses :
       /\ SetVariable("NextNonce", s)
       /\ NextNonce' = After(s, TargetNonce, NextNonce)
       /\ IF EFI_ERROR(s) THEN Exit(s) ELSE pc' = "step2" /\ UNCHANGED status
  /\ UNCHANGED <<CurrentPolicy, CurrentNonce, CurrentBlob, NextBlob, boot, varlock, TargetNonce,
                 job, issued, crashes, writes, history>>

\* Mutation of InternalCleanupCurrentPolicy: the callbacks are not called.
CleanupUnannounced(j) ==
  pc' = "cleanNonce" /\ job' = j /\ status' = "EFI_SUCCESS" /\ UNCHANGED history

\* InternalCleanupCurrentPolicy begins: the callbacks, then CleanCurrentVariables.
InternalCleanupCurrentPolicy(j) ==
  /\ pc' = "cleanNonce" /\ job' = j /\ status' = "EFI_SUCCESS"
  /\ IF mCurrentPolicy # CUSTOMER_STATE
     THEN NotifyMfciPolicyChange(CUSTOMER_STATE, MFCI_POLICY_INVALID_NONCE) /\ UNCHANGED spent
     ELSE UNCHANGED history

\* Mutation of CurrentIsAuthentic: the blob may be of another nonce.
AnyNonce(blob, nonce, policy) == blob.ok = "yes" /\ ClearActions(blob.policy) = policy

\* ValidateBlobWithXdrCertificates and VerifyTargeting accept the current blob,
\* and its state bits are the policy in force.
CurrentIsAuthentic(blob, nonce, policy) ==
  blob.ok = "yes" /\ blob.nonce = nonce /\ ClearActions(blob.policy) = policy

\* Step 2: the policy in force is authenticated or cleaned up.  A nonce that is read
\* but has another size or other attributes ends the step with the status of the
\* read, which is EFI_SUCCESS: neither happens.
VerifyCurrent ==
  /\ pc = "step2"
  /\ \/ /\ CurrentBlob # None /\ CurrentNonce \notin {None, Malformed}
        /\ CurrentIsAuthentic(CurrentBlob, CurrentNonce, mCurrentPolicy)
        /\ pc' = "step3" /\ UNCHANGED <<job, status, history, faults>>
     \/ /\ \/ CurrentBlob = None
           \/ /\ CurrentBlob # None /\ CurrentNonce \notin {None, Malformed}
              /\ ~ CurrentIsAuthentic(CurrentBlob, CurrentNonce, mCurrentPolicy)
        /\ InternalCleanupCurrentPolicy("target") /\ UNCHANGED faults
     \/ /\ CurrentBlob # None /\ CurrentNonce = None
        /\ Exit("EFI_NOT_FOUND") /\ UNCHANGED <<job, history, faults>>
     \/ /\ CurrentBlob # None /\ CurrentNonce = Malformed
        /\ Exit("EFI_SUCCESS") /\ UNCHANGED <<job, history, faults>>
     \/ \* the blob's size or the nonce cannot be read, or no memory for the blob
        CurrentBlob # None /\ Fault /\ Exit("EFI_DEVICE_ERROR") /\ UNCHANGED <<job, history>>
     \/ \* the blob cannot be read
        CurrentBlob # None /\ Fault /\ InternalCleanupCurrentPolicy("target")
  /\ UNCHANGED <<nv, boot, varlock, TargetNonce, issued, crashes, writes>>

\* CleanCurrentVariables keeps the last error and goes on.
Collect(s) == status' = IF EFI_ERROR(s) THEN s ELSE status

CleanCurrentNonce ==
  /\ pc = "cleanNonce" /\ pc' = "cleanBlob"
  /\ \E s \in Statuses :
       /\ SetVariable("CurrentNonce", s) /\ Collect(s)
       /\ CurrentNonce' = After(s, MFCI_POLICY_INVALID_NONCE, CurrentNonce)
  /\ UNCHANGED <<CurrentPolicy, CurrentBlob, NextNonce, NextBlob, boot, varlock, TargetNonce,
                 job, issued, crashes, writes, history>>

CleanCurrentBlob ==
  /\ pc = "cleanBlob" /\ pc' = "cleanPolicy"
  /\ \E s \in Statuses :
       SetMailbox(s) /\ Collect(s) /\ CurrentBlob' = After(s, None, CurrentBlob)
  /\ UNCHANGED <<CurrentPolicy, CurrentNonce, NextNonce, NextBlob, boot, varlock, TargetNonce,
                 job, issued, crashes, writes, history>>

\* Mutation of CleanedUp: the boot goes on although the policy has changed.
CleanedUpNoReset(s) ==
  IF job = "exit" THEN "bds" ELSE IF job = "target" /\ ~ EFI_ERROR(s) THEN "step3" ELSE "lock"

\* Mutation of CleanedUp: the reset does not depend on the policy.
CleanedUpAlwaysResets(s) == "off"

\* Where InternalCleanupCurrentPolicy and InternalCleanupTargetPolicy end: a
\* reset if a policy was in force, otherwise back to the caller.
CleanedUp(s) ==
  IF mCurrentPolicy # CUSTOMER_STATE THEN "off"
  ELSE IF job = "exit" THEN "bds"
  ELSE IF job = "target" /\ ~ EFI_ERROR(s) THEN "step3"
  ELSE "lock"

CleanCurrentPolicy ==
  /\ pc = "cleanPolicy"
  /\ \E s \in Statuses :
       /\ SetVariable("CurrentPolicy", s) /\ Collect(s)
       /\ CurrentPolicy' = After(s, CUSTOMER_STATE, CurrentPolicy)
       /\ pc' = CleanedUp(status')
  /\ UNCHANGED <<CurrentNonce, CurrentBlob, NextNonce, NextBlob, boot, varlock, TargetNonce,
                 job, issued, crashes, writes, history>>

\* Mutation of InternalCleanupTargetPolicy: CleanTargetVariables is left out.
RejectWithoutCleaning ==
  /\ pc' = "cleanNonce" /\ job' = "reject" /\ UNCHANGED status
  /\ IF mCurrentPolicy # CUSTOMER_STATE
     THEN NotifyMfciPolicyChange(CUSTOMER_STATE, MFCI_POLICY_INVALID_NONCE) /\ UNCHANGED spent
     ELSE UNCHANGED history

\* InternalCleanupTargetPolicy begins: the callbacks, then CleanTargetVariables.
InternalCleanupTargetPolicy ==
  /\ pc' = "rollNonce" /\ job' = "reject" /\ UNCHANGED status
  /\ IF mCurrentPolicy # CUSTOMER_STATE
     THEN NotifyMfciPolicyChange(CUSTOMER_STATE, MFCI_POLICY_INVALID_NONCE) /\ UNCHANGED spent
     ELSE UNCHANGED history

\* Mutation of TargetIsValid: a blob for an earlier nonce is accepted.
StaleTarget(blob, nonce) == blob.ok = "yes"

TargetIsValid(blob, nonce) == blob.ok = "yes" /\ blob.nonce = nonce

\* InternalTransitionRoutine begins: step a, and the test for CUSTOMER_STATE.
InternalTransitionRoutine(blob) ==
  /\ NotifyMfciPolicyChange(blob.policy, blob.nonce) /\ UNCHANGED spent
  /\ job' = "transition" /\ UNCHANGED status
  /\ pc' = IF ClearActions(blob.policy) = CUSTOMER_STATE THEN "rollNonce" ELSE "setBlob"

\* Step 3 and the start of step 4.
VerifyTarget ==
  /\ pc = "step3"
  /\ \/ NextBlob = None /\ Exit("EFI_SUCCESS") /\ UNCHANGED <<job, history, faults>>
     \/ /\ NextBlob # None /\ TargetIsValid(NextBlob, TargetNonce)
        /\ InternalTransitionRoutine(NextBlob) /\ UNCHANGED faults
     \/ /\ NextBlob # None /\ ~ TargetIsValid(NextBlob, TargetNonce)
        /\ InternalCleanupTargetPolicy /\ UNCHANGED faults
     \/ NextBlob # None /\ Fault /\ Exit("EFI_DEVICE_ERROR") /\ UNCHANGED <<job, history>>
     \/ NextBlob # None /\ Fault /\ InternalCleanupTargetPolicy
  /\ UNCHANGED <<nv, boot, varlock, TargetNonce, issued, crashes, writes>>

\* Steps b and c of InternalTransitionRoutine; an error goes to Done.
SetCurrentBlob ==
  /\ pc = "setBlob"
  /\ \E s \in Statuses :
       /\ SetMailbox(s) /\ CurrentBlob' = After(s, NextBlob, CurrentBlob)
       /\ pc' = IF EFI_ERROR(s) THEN "rollNonce" ELSE "setNonce"
  /\ UNCHANGED <<CurrentPolicy, CurrentNonce, NextNonce, NextBlob, boot, varlock, TargetNonce,
                 job, status, issued, crashes, writes, history>>

SetCurrentNonce ==
  /\ pc = "setNonce"
  /\ \E s \in Statuses :
       /\ SetVariable("CurrentNonce", s) /\ CurrentNonce' = After(s, TargetNonce, CurrentNonce)
       /\ pc' = IF EFI_ERROR(s) THEN "rollNonce" ELSE "setPolicy"
  /\ UNCHANGED <<CurrentPolicy, CurrentBlob, NextNonce, NextBlob, boot, varlock, TargetNonce,
                 job, status, issued, crashes, writes, history>>

SetCurrentPolicy ==
  /\ pc = "setPolicy" /\ pc' = "rollNonce"
  /\ \E s \in Statuses :
       /\ SetVariable("CurrentPolicy", s)
       /\ CurrentPolicy' = After(s, ClearActions(NextBlob.policy), CurrentPolicy)
  /\ UNCHANGED <<CurrentNonce, CurrentBlob, NextNonce, NextBlob, boot, varlock, TargetNonce,
                 job, status, issued, crashes, writes, history>>

\* Mutation of RolledNonce: the nonce is kept.
SameNonce(n) == TargetNonce

\* The target nonce CleanTargetVariables stores, given what was drawn.
RolledNonce(n) == n

\* CleanTargetVariables: a new nonce is drawn,
DrawNextNonce ==
  /\ pc = "rollNonce" /\ pc' = "setNextNonce"
  /\ \E n \in {issued + 1, MFCI_POLICY_INVALID_NONCE} :
       GetRandomNumber64(n) /\ TargetNonce' = RolledNonce(n)
  /\ UNCHANGED <<nv, boot, varlock, job, status, crashes, writes, history>>

\* stored,
SetNextNonce ==
  /\ pc = "setNextNonce" /\ pc' = "dropBlob"
  /\ \E s \in Statuses :
       /\ SetVariable("NextNonce", s) /\ NextNonce' = After(s, TargetNonce, NextNonce)
       /\ spent' = IF job = "transition" /\ ~ EFI_ERROR(s) THEN spent \cup {NextBlob.nonce} ELSE spent
  /\ UNCHANGED <<CurrentPolicy, CurrentNonce, CurrentBlob, NextBlob, boot, varlock, TargetNonce,
                 job, status, issued, crashes, writes, announced, performed, repeats>>

\* and the next blob deleted.  A transition then resets; a rejection goes on to
\* CleanCurrentVariables, whose status replaces the one of this function.
DropNextBlob ==
  /\ pc = "dropBlob"
  /\ \E s \in Statuses : SetMailbox(s) /\ NextBlob' = After(s, None, NextBlob)
  /\ status' = "EFI_SUCCESS"
  /\ pc' = IF job = "transition" THEN "off" ELSE "cleanNonce"
  /\ UNCHANGED <<CurrentPolicy, CurrentNonce, CurrentBlob, NextNonce, boot, varlock, TargetNonce,
                 job, issued, crashes, writes, history>>

\* Exit: LockPolicyVariables, and the cleanup if anything failed.
LockPolicyVariables ==
  /\ pc = "lock"
  /\ \E s \in Statuses :
       /\ SetMailbox(s)
       /\ varlock' = IF EFI_ERROR(s) THEN varlock ELSE "set"
       /\ IF EFI_ERROR(status) \/ EFI_ERROR(s)
          THEN InternalCleanupCurrentPolicy("exit")
          ELSE pc' = "bds" /\ UNCHANGED <<job, status, history>>
  /\ UNCHANGED <<nv, boot, TargetNonce, issued, crashes, writes>>

-----------------------------------------------------------------------------
(* The rest of the world.                                                  *)

\* BDS starts the operating system.
BootOs ==
  /\ pc = "bds" /\ pc' = "os"
  /\ UNCHANGED <<nv, boot, varlock, TargetNonce, job, status, issued, faults, crashes, writes, history>>

\* What the OS can put into a mailbox: a blob made for a nonce it has seen.
OsBlobs == [ok : {"yes", "no"}, nonce : 1 .. issued, policy : Policies] \cup {None}

OsWritesMailbox ==
  /\ pc = "os" /\ writes < MaxWrites /\ writes' = writes + 1
  /\ \E b \in OsBlobs : \/ NextBlob' = b /\ UNCHANGED CurrentBlob
                        \/ CurrentBlob' = b /\ UNCHANGED NextBlob
  /\ UNCHANGED <<CurrentPolicy, CurrentNonce, NextNonce, pc, boot, varlock, TargetNonce, job,
                 status, issued, faults, crashes, history>>

\* In a boot that could not register the policy of the current nonce, nothing keeps
\* the variable's size and attributes.
OsSpoilsNonce ==
  /\ pc = "os" /\ registered < PolicyOf["CurrentNonce"]
  /\ writes < MaxWrites /\ writes' = writes + 1
  /\ CurrentNonce' = Malformed
  /\ UNCHANGED <<CurrentPolicy, CurrentBlob, NextNonce, NextBlob, pc, boot, varlock, TargetNonce,
                 job, status, issued, faults, crashes, history>>

Restart ==
  /\ pc = "os" /\ pc' = "off"
  /\ UNCHANGED <<nv, boot, varlock, TargetNonce, job, status, issued, faults, crashes, writes, history>>

PowerFailure ==
  /\ pc # "off" /\ crashes < MaxCrashes /\ crashes' = crashes + 1 /\ pc' = "off"
  /\ UNCHANGED <<nv, boot, varlock, TargetNonce, job, status, issued, faults, writes, history>>

VerifyPolicyAndChange ==
  \/ PopulateTargetVarsFails \/ TargetNonceExists \/ DrawTargetNonce \/ SetTargetNonce
  \/ VerifyCurrent \/ CleanCurrentNonce \/ CleanCurrentBlob \/ CleanCurrentPolicy
  \/ VerifyTarget \/ SetCurrentBlob \/ SetCurrentNonce \/ SetCurrentPolicy
  \/ DrawNextNonce \/ SetNextNonce \/ DropNextBlob \/ LockPolicyVariables

Firmware ==
  \/ MfciPeiEntry \/ MfciDxeEntry \/ MfciDxeEntryLatePolicy \/ MfciDxeEntryError
  \/ VerifyPolicyAndChange \/ BootOs

Next == Firmware \/ OsWritesMailbox \/ OsSpoilsNonce \/ Restart \/ PowerFailure

Spec == Init /\ [][Next]_vars

\* The firmware runs on, and the user restarts the device now and then.
FairSpec == Spec /\ WF_vars(Firmware) /\ WF_vars(Restart)

-----------------------------------------------------------------------------
(* Properties.                                                             *)

\* Every variable has its type.
TypeOK ==
  /\ CurrentPolicy \in StatePolicies \cup {None} /\ CurrentNonce \in Nat \cup {None, Malformed}
  /\ CurrentBlob \in Blobs \cup {None}
  /\ NextNonce \in Nat \cup {None} /\ NextBlob \in Blobs \cup {None}
  /\ pc \in {"off", "entry", "step1", "step1set", "step2", "cleanNonce", "cleanBlob", "cleanPolicy",
             "step3", "setBlob", "setNonce", "setPolicy", "rollNonce", "setNextNonce", "dropBlob",
             "lock", "bds", "os"}
  /\ hob \in StatePolicies /\ mCurrentPolicy \in StatePolicies
  /\ registered \in 0 .. AllRegistered /\ varlock \in {"absent", "set"}
  /\ TargetNonce \in Nat /\ job \in {"none", "target", "reject", "transition", "exit"}
  /\ status \in Statuses \cup {"EFI_ABORTED", "EFI_NOT_FOUND", "EFI_DEVICE_ERROR"}
  /\ entry \in {"none", "degraded", "done", "error"}
  /\ issued \in Nat /\ faults \in Nat /\ crashes \in Nat /\ writes \in Nat
  /\ announced \in Policies \cup {None} /\ performed \subseteq Nat /\ repeats \in Nat
  /\ spent \subseteq Nat

\* There is a blob whose nonce VerifyPolicyAndChange reads and does not like.
NonceIsSpoilt == CurrentBlob # None /\ CurrentNonce = Malformed

\* A boot that reaches BDS under a policy other than CUSTOMER_STATE does so with
\* a blob that is authentic for this device, its nonce and that very policy,
\* whatever mixture of variables crashes, failed calls and mailbox writes had left.
\* One mixture is excepted: with a current nonce of another size or with other
\* attributes, VerifyPolicyAndChange ends without authenticating or cleaning up.
PolicyIsAuthentic ==
  pc = "bds" /\ entry # "error" /\ mCurrentPolicy # CUSTOMER_STATE /\ ~ NonceIsSpoilt =>
    /\ CurrentBlob # None /\ CurrentNonce # None
    /\ CurrentBlob.ok = "yes" /\ CurrentBlob.nonce = CurrentNonce
    /\ CurrentBlob.policy.state = mCurrentPolicy.state

\* When BDS starts, the policy in force is the one the next boot will start
\* with: a boot that changes the policy never gets to BDS.
NoChangeWithoutReset == pc = "bds" /\ entry = "done" => StoredPolicy = mCurrentPolicy

\* The stored policy changes only to what the registered callbacks have been
\* told in the same boot, so that what they did matches the next boot.
NoSilentChange ==
  [][entry # "degraded" /\ StoredPolicy' # StoredPolicy =>
       announced # None /\ StoredPolicy' = ClearActions(announced)]_vars

\* A blob whose transition stored a new target nonce cannot be installed again: the
\* blob's nonce is never the target nonce again, whatever else fails before or after,
\* and where power fails before the blob is deleted.  A transition in which
\* CleanTargetVariables cannot write the new nonce is not meant: the code resets all
\* the same and offers the used nonce again.
NeverReinstalled == NextNonce \notin spent

\* The one-time actions of a blob are performed once; every repetition is paid
\* for by a power failure or a failed call.
ActionsNotRepeated == repeats <= crashes + faults

\* Once failures stop, every boot gets to BDS: the resets of
\* VerifyPolicyAndChange never form a loop.
BootCompletes == pc = "off" ~> pc = "bds"

\* A blob in the Next mailbox is dealt with, if step 2 does not end each boot.
MailboxSettles == NextBlob # None ~> NextBlob = None \/ NonceIsSpoilt

\* Once failures and writes by the OS stop, the device gets to BDS and no blob is
\* left in the Next mailbox, unless the current nonce is spoilt: every boot then ends
\* before step 3.
DeviceSettles == BootCompletes /\ MailboxSettles

\* Docs/Mfci_Feature.md: if verification of a Next blob fails, it is deleted "and
\* the device proceeds with boot to the OS".
RejectionProceedsToOs ==
  [][job = "reject" /\ pc \notin {"off", "bds", "os"} /\ crashes' = crashes => pc' # "off"]_vars

=============================================================================
