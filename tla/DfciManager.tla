---------------------------- MODULE DfciManager ----------------------------
(***************************************************************************)
(* DfciPkg over any number of boots.  The OS leaves packets in six mailbox *)
(* variables; at the next boot DfciManager applies them to the stores of   *)
(* DfciStores, commits all identity and permission changes or restores the *)
(* last known good (LKG) stores, and writes the results.  A packet that    *)
(* needs the user waits until EndOfDxe, where the round starts again.      *)
(*                                                                         *)
(* Program lists the steps of ProcessMailBoxes, one for every change of a  *)
(* variable: power may fail between any two, and a write may be refused.   *)
(* Deleting a variable does not fail, and the published copies of the      *)
(* stores (the Current variables) are left out.                            *)
(***************************************************************************)
EXTENDS DfciStores, Sequences

CONSTANTS Batches,          \* what the OS may write: functions from boxes to packets
          MaxBatches,       \* bound: how often it does
          MaxPowerLosses,   \* bound: power failures
          MaxWriteFailures  \* bound: writes the variable store refuses

ASSUME BoundAssumption == {MaxBatches, MaxPowerLosses, MaxWriteFailures} \subseteq Nat

IdentityBoxes   == {"IDENTITY", "IDENTITY2"}
PermissionBoxes == {"PERMISSIONS", "PERMISSIONS2"}
LkgBoxes        == IdentityBoxes \cup PermissionBoxes
SettingsBoxes   == {"SETTINGS", "SETTINGS2"}
Boxes           == LkgBoxes \cup SettingsBoxes

\* sid numbers the batch a packet came with, decodes is the outcome of DecodePacket,
\* signer is the certificate of the signature; cert is NoCert in a packet that
\* unenrolls id.  A permission packet has version, lsv, append, default (at most one
\* entry) and entries (a function on some settings), a settings packet version, lsv
\* and reboot.
IdentityPackets ==
  [sid : Nat, decodes : BOOLEAN, id : Keys, cert : Certs \cup {NoCert},
   signer : Certs \cup {ZtdCert}]

ASSUME BatchAssumption ==
  \A batch \in Batches : \A b \in DOMAIN batch \cap IdentityBoxes : batch[b] \in IdentityPackets

ASSUME SidAssumption == \A batch \in Batches : \A b \in DOMAIN batch : "sid" \in DOMAIN batch[b]

\* No packet.
NoPacket == [sid |-> 0]
NoResult == [sid |-> 0, code |-> "SUCCESS"]

\* DFCI_INTERNAL_PACKET.  FAILED stands for every error state, DONE for APPLIED
\* and COMPLETE, CLEARING for USER_APPROVED while ClearDFCI runs; who holds the
\* token that clears.
NoData == [Packet |-> NoPacket, State |-> "UNINITIALIZED", StatusCode |-> "SUCCESS",
           LKGDirty |-> FALSE, who |-> NoIdentity]

PacketStates == {"UNINITIALIZED", "PRESENT", "FAILED", "DONE", "CLEARING"}
Codes == {"SUCCESS", "ERROR"}

\* A packet as the OS writes it, and all of them.
Numbered(pkt, n) == [pkt EXCEPT !.sid = n]
Packets == {NoPacket} \cup UNION {{Numbered(batch[b], n) : b \in DOMAIN batch, n \in 1..MaxBatches} :
                                 batch \in Batches}
Data == [Packet : Packets, State : PacketStates, StatusCode : Codes, LKGDirty : BOOLEAN,
         who : Identities \cup {NoIdentity}]

VARIABLES mailbox, result,      \* non-volatile: the mailboxes and their results
          ipcvn,                \* non-volatile: _IPCVN, a set of at most one store
          spp, smid,            \* non-volatile: _SPP and _SMID
          mInternalCertStore, mPermStore,
          mManagerData,         \* the packets of this boot
          stage,                \* what the boot does next
          pc,                   \* the step of Program; 0 between rounds
          LkgStatus,
          boot,                 \* flags of the drivers in this boot
          batches, losses, failures,
          pending,              \* history: packets applied in memory only
          stored,               \* history: packets whose change reached a store
          applied,              \* history: settings packets applied
          disturbed             \* history: packets a fault may have touched

nv       == <<mailbox, result, ipcvn, spp, smid>>
memory   == <<mInternalCertStore, mPermStore, mManagerData>>
control  == <<stage, pc, LkgStatus, boot>>
faults   == <<batches, losses, failures>>
history  == <<pending, stored, applied, disturbed>>
vars     == <<nv, memory, control, faults, history>>

-----------------------------------------------------------------------------
(* The steps of a round.                                                   *)

Present(d)  == d.Packet.sid # 0
\* Unenroll, as DecodeIdentityPacket sets it.
Unenroll(b, d) == b \in IdentityBoxes /\ Present(d) /\ d.Packet.decodes /\ d.Packet.cert = NoCert

\* Mutation of CompletePacket: the mailbox goes when the change is saved.
SaveFirst(b, kind) == << <<"lkg", b, kind>>, <<"delete", b, kind>>, <<"result", b, kind>> >>

\* CompletePacket: the LKG handler deletes the mailbox first.
CompletePacket(b, kind) == << <<"delete", b, kind>>, <<"lkg", b, kind>>, <<"result", b, kind>> >>

\* ProcessPacket of a settings mailbox; its LKG handler and its result do nothing.
SettingsSteps(b) == << <<"settings", b, "settings">>, <<"settingsResult", b, "settings">>,
                       <<"settingsSave", b, "success">>, <<"settingsDelete", b, "settings">> >>

\* ProcessUnEnrollPacket with the steps of ClearDFCI, and CompletePacket.
UnenrollSteps(b) ==
  << <<"unenroll", b, "unenroll">>, <<"clearSettings", b, "clearing">>,
     <<"clearPermissions", b, "clearing">>, <<"deleteKeys", b, "clearing">>,
     <<"initializeKeys", b, "clearing">> >> \o CompletePacket(b, "unenroll")

\* Mutation of DeleteAllMailboxes: processed mailboxes are gone already.
DeleteNoMailboxes == << >>

\* DeleteAllMailboxes, in the order of gMailBoxPolicies.
DeleteAllMailboxes ==
  << <<"deleteAll", "IDENTITY", "mailbox">>, <<"deleteAll", "IDENTITY2", "mailbox">>,
     <<"deleteAll", "PERMISSIONS", "mailbox">>, <<"deleteAll", "PERMISSIONS2", "mailbox">>,
     <<"deleteAll", "SETTINGS", "mailbox">>, <<"deleteAll", "SETTINGS2", "mailbox">> >>

\* ProcessMailBoxes.
Program ==
  << <<"process", "IDENTITY", "enroll">>, <<"process", "PERMISSIONS", "enroll">>,
     <<"process", "IDENTITY2", "enroll">>, <<"process", "PERMISSIONS2", "enroll">> >>
  \o CompletePacket("PERMISSIONS2", "enroll") \o CompletePacket("PERMISSIONS", "enroll")
  \o CompletePacket("IDENTITY", "enroll") \o CompletePacket("IDENTITY2", "enroll")
  \o SettingsSteps("SETTINGS") \o SettingsSteps("SETTINGS2")
  \o UnenrollSteps("IDENTITY2") \o UnenrollSteps("IDENTITY")
  \o DeleteAllMailboxes \o << <<"exit", "SETTINGS2", "always">> >>

COMPLETE_AS_FAILED == 5
FINAL_EXIT == Len(Program) - Len(DeleteAllMailboxes)

\* Whether a step has anything to do.
Needed(i, data, boxes) ==
  LET b == Program[i][2]
      d == data[b]
  IN  CASE Program[i][3] = "enroll"   -> Present(d) /\ ~Unenroll(b, d)
        [] Program[i][3] = "unenroll" -> Unenroll(b, d)
        [] Program[i][3] = "clearing" -> d.State = "CLEARING"
        [] Program[i][3] = "settings" -> Present(d) /\ d.Packet.decodes
        [] Program[i][3] = "success"  -> d.StatusCode = "SUCCESS" /\ Present(d)
        [] Program[i][3] = "mailbox"  -> boxes[b].sid # 0
        [] OTHER -> TRUE

\* Go to the first step from i on that has something to do.
Goto(i) == pc' \in {j \in i..Len(Program) :
                      /\ Needed(j, mManagerData', mailbox')
                      /\ \A k \in i..(j - 1) : ~Needed(k, mManagerData', mailbox')}

At(op) == pc # 0 /\ Program[pc][1] = op
box    == Program[pc][2]
this   == mManagerData[box]
packet == this.Packet

\* Packets named by their batch and box.
Tags(boxes) == {<<boxes[b].sid, b>> : b \in {c \in Boxes : boxes[c].sid # 0}}
InFlight == Tags(mailbox) \cup Tags([b \in Boxes |-> mManagerData[b].Packet])

\* A SetVariable that may be refused; ok says how it went.
WriteOutcomes == IF failures < MaxWriteFailures THEN BOOLEAN ELSE {TRUE}
Wrote(ok) == /\ failures' = IF ok THEN failures ELSE failures + 1
             /\ disturbed' = IF ok THEN disturbed ELSE disturbed \cup InFlight
NoWrite   == UNCHANGED <<failures, disturbed>>

\* The step leaves this packet in a state, with a code.
Becomes(state, code, dirty) ==
  mManagerData' = [mManagerData EXCEPT ![box].State = state, ![box].StatusCode = code,
                                       ![box].LKGDirty = dirty]

-----------------------------------------------------------------------------
(* Boot.                                                                   *)

BootFlags == [ui |-> FALSE, allocated |-> FALSE, access |-> FALSE, event |-> FALSE,
              registered |-> TRUE, mRebootRequired |-> FALSE]

\* Memory after a reset.
Reset == /\ mInternalCertStore' = InitialStore /\ mPermStore' = InitPermStore
         /\ mManagerData' = [b \in Boxes |-> NoData]
         /\ stage' = "CertStore" /\ pc' = 0 /\ LkgStatus' = "SUCCESS" /\ boot' = BootFlags
         /\ pending' = {}

\* The OS leaves a batch in the mailboxes, or nothing, and restarts.
OsRestarts ==
  /\ stage = "Os" /\ pc = 0
  /\ \/ UNCHANGED <<mailbox, batches>>
     \/ /\ batches < MaxBatches
        /\ batches' = batches + 1
        /\ \E batch \in Batches :
             mailbox' = [b \in Boxes |->
                           IF b \in DOMAIN batch THEN Numbered(batch[b], batches + 1)
                                                 ELSE mailbox[b]]
  /\ Reset
  /\ UNCHANGED <<result, ipcvn, spp, smid, losses, failures, stored, applied, disturbed>>

\* Power fails while the firmware runs.
PowerLoss ==
  /\ stage # "Os" \/ pc # 0
  /\ losses < MaxPowerLosses /\ losses' = losses + 1
  /\ disturbed' = disturbed \cup InFlight
  /\ Reset
  /\ UNCHANGED <<nv, batches, failures, stored, applied>>

\* Someone restarts a machine whose firmware ran into undefined behaviour.
Restart == stage = "Undefined" /\ Reset /\ UNCHANGED <<nv, faults, stored, applied, disturbed>>

\* LoadProvisionedData fails: no variable, or users without an owner.
LoadFails == \/ ipcvn = {}
             \/ \E var \in ipcvn : OwnerMissing(mInternalCertStore.PopulatedIdentities
                                                  \cup Enrolled(var))

\* LoadProvisionedData, on the store in memory.
Load == mInternalCertStore' =
          IF ipcvn = {} THEN mInternalCertStore
          ELSE LoadProvisionedData(mInternalCertStore, CHOOSE var \in ipcvn : TRUE)

\* PopulateInternalCertStore, with InitializeProvisionedData when the load fails.  A
\* load that fails here found no variable (UsersHaveOwner), so the deletion before the
\* save changes nothing and is no step of its own.
PopulateInternalCertStore ==
  /\ stage = "CertStore" /\ stage' = "Permissions"
  /\ \/ ~LoadFails /\ Load /\ NoWrite /\ UNCHANGED ipcvn
     \/ /\ LoadFails
        /\ mInternalCertStore' = InitialStore
        /\ \E ok \in WriteOutcomes : Wrote(ok) /\ ipcvn' = IF ok THEN {NoKeys} ELSE {}
  /\ UNCHANGED <<mailbox, result, spp, smid, mPermStore, mManagerData, pc, LkgStatus, boot,
                 batches, losses, pending, stored, applied>>

\* SaveToFlash: perm goes to _SPP when it must, and what memory then holds.
SaveToFlash(perm, ok) ==
  /\ ok \/ MustSave(perm, spp)
  /\ Wrote(ok)
  /\ spp' = IF ok /\ MustSave(perm, spp) THEN InFlash(perm) ELSE spp
  /\ mPermStore' = IF ok /\ MustSave(perm, spp) THEN InFlash(perm) ELSE perm

\* CheckForAuthenticationProtocol.
CheckForAuthenticationProtocol ==
  /\ stage = "Permissions" /\ stage' = "Entry"
  /\ \/ /\ "OWNER" \in mInternalCertStore.PopulatedIdentities
        /\ mPermStore' = spp /\ NoWrite /\ UNCHANGED spp
     \/ /\ "OWNER" \notin mInternalCertStore.PopulatedIdentities
        /\ \E ok \in WriteOutcomes : SaveToFlash(InitPermStore, ok)
  /\ UNCHANGED <<mailbox, result, ipcvn, smid, mInternalCertStore, mManagerData, pc, LkgStatus,
                 boot, batches, losses, pending, stored, applied>>

\* AllocateManagerData: every mailbox read and decoded.
AllocateManagerData ==
  [b \in Boxes |->
     IF mailbox[b].sid = 0 THEN NoData
     ELSE [NoData EXCEPT !.Packet = mailbox[b],
                         !.State = IF mailbox[b].decodes THEN "PRESENT" ELSE "FAILED",
                         !.StatusCode = IF mailbox[b].decodes THEN "SUCCESS" ELSE "ERROR"]]

\* ProcessMailBoxes begins; without manager data it follows a null pointer.
ProcessMailBoxes(next) ==
  \/ boot'.allocated /\ LkgStatus' = "SUCCESS" /\ Goto(1) /\ stage' = next
  \/ ~boot'.allocated /\ pc' = 0 /\ stage' = "Undefined" /\ UNCHANGED LkgStatus

\* DfciManagerEntry when SettingAccess is there, or can be waited for.
DfciManagerEntry ==
  /\ stage = "Entry"
  /\ mManagerData' = AllocateManagerData
  /\ \/ /\ \E ui \in BOOLEAN :
             boot' = [boot EXCEPT !.allocated = TRUE, !.event = TRUE, !.ui = ui]
        /\ UNCHANGED mailbox /\ ProcessMailBoxes("StartOfBds")
     \/ /\ boot' = [boot EXCEPT !.allocated = TRUE, !.event = TRUE, !.access = TRUE]
        /\ stage' = "StartOfBds" /\ UNCHANGED <<mailbox, pc, LkgStatus>>
  /\ UNCHANGED <<result, ipcvn, spp, smid, mInternalCertStore, mPermStore, faults, history>>

\* ERROR_EXIT of DfciManagerEntry: the data and the mailboxes go.  When SettingAccess
\* cannot be waited for, the EndOfDxe event stays; when variable policies, a protocol,
\* memory or that event cannot be had, or DFCI is not enabled, there is none.
DfciManagerEntryFails ==
  /\ stage = "Entry" /\ stage' = "StartOfBds"
  /\ \E created \in BOOLEAN : boot' = [boot EXCEPT !.event = created, !.registered = FALSE]
  /\ UNCHANGED <<nv, memory, LkgStatus, faults, history>>
  /\ Goto(FINAL_EXIT)

\* SettingManagerOnStartOfBds installs SettingAccess: SettingAccessCallback.
SettingAccessCallback ==
  /\ stage = "StartOfBds" /\ pc = 0
  /\ \E ui \in BOOLEAN : boot' = [boot EXCEPT !.access = FALSE, !.ui = boot.ui \/ ui]
  /\ UNCHANGED <<nv, memory, faults, history>>
  /\ \/ boot.access /\ ProcessMailBoxes("EndOfDxe")
     \/ ~boot.access /\ stage' = "EndOfDxe" /\ UNCHANGED <<pc, LkgStatus>>

\* EndOfDxeCallback, while its event is open and the UI is there.
EndOfDxeCallback ==
  /\ stage = "EndOfDxe" /\ pc = 0 /\ boot.event
  /\ boot' = [boot EXCEPT !.ui = TRUE, !.event = FALSE]
  /\ UNCHANGED <<nv, memory, faults, history>>
  /\ ProcessMailBoxes("Os")

\* EndOfDxe without the event, or without the UI.
EndOfDxeIdle ==
  /\ stage = "EndOfDxe" /\ pc = 0 /\ ~(boot.event /\ boot.ui) /\ stage' = "Os"
  /\ UNCHANGED <<nv, memory, pc, LkgStatus, boot, faults, history>>

-----------------------------------------------------------------------------
(* Applying identities and permissions, in memory.                         *)

\* Mutation of NoOwner: any identity may be enrolled at any time.
AnyIdentity(store, pkt) == FALSE

\* A user cannot be provisioned before an owner.
NoOwner(store, pkt) == pkt.id # "OWNER" /\ "OWNER" \notin store.PopulatedIdentities

\* ValidateAndAuthenticatePendingProvisionData and the user's answer: who approves an
\* identity packet, or REFUSED, or DELAYED until there is a UI to ask with.  The mask of
\* ZTD_UNENROLL is compared with the identity that leaves.
Approvals(store, perm, pkt, ui) ==
  LET who  == AuthWithSignedData(store.Certs, pkt.signer)
      mask == QueryPermission(perm, KeySetting(pkt.id))
      signed == IF pkt.cert = NoCert /\ who = "ZTD"
                THEN pkt.id \in QueryPermission(perm, "ZTD_UNENROLL") ELSE who \in mask
  IN  CASE \/ NoOwner(store, pkt)
           \/ pkt.cert = NoCert /\ pkt.id \notin store.PopulatedIdentities -> {"REFUSED"}
        [] OTHER -> CASE signed -> {who}
                      [] ~signed /\ "LOCAL" \notin mask -> {"REFUSED"}
                      [] ~signed /\ "LOCAL" \in mask /\ ui -> {"LOCAL", "REFUSED"}
                      [] OTHER -> {"DELAYED"}

\* ApplyNewIdentityPacket on this packet; one that is not PRESENT is aborted.
Answers == IF this.State # "PRESENT" THEN {"ABORTED"}
           ELSE Approvals(mInternalCertStore, mPermStore, packet, boot.ui)

\* EARLY_EXIT: this packet waits for EndOfDxe, and all that follow it.
QueueMailboxAtEndOfDxe ==
  /\ (At("process") /\ box \in IdentityBoxes) \/ At("unenroll")
  /\ "DELAYED" \in Answers
  /\ pc' = 0
  /\ UNCHANGED <<nv, memory, stage, LkgStatus, boot, faults, history>>

\* Mutation of LkgFailure: only an identity packet voids the others.
LkgFailureOfIdentity(b) == IF b \in IdentityBoxes THEN "ERROR" ELSE "SUCCESS"

\* LkgStatus when the packet of a box fails.
LkgFailure(b) == "ERROR"

\* A packet fails: identity and permission operations that follow are void.
Void(b) == LkgStatus' = LkgFailure(b) /\ Goto(COMPLETE_AS_FAILED)

\* The packet did not decode, was refused, or was processed before EndOfDxe.
RefuseIdentity ==
  /\ At("process") /\ box \in IdentityBoxes
  /\ \/ "REFUSED" \in Answers /\ Becomes("FAILED", "ERROR", FALSE)
     \/ "ABORTED" \in Answers /\ UNCHANGED mManagerData
  /\ UNCHANGED <<nv, mInternalCertStore, mPermStore, stage, boot, faults, history>>
  /\ Void(box)

EnrollIdentity ==
  /\ At("process") /\ box \in IdentityBoxes
  /\ \E who \in Answers \cap Identities :
       /\ mInternalCertStore' = ApplyProvisionData(mInternalCertStore, packet.id, packet.cert)
       /\ mPermStore' = IdentityChange(mPermStore, who, packet.id)
       /\ boot' = [boot EXCEPT !.mRebootRequired = boot.mRebootRequired \/ who = "LOCAL"]
  /\ Becomes("DONE", "SUCCESS", TRUE)
  /\ pending' = pending \cup {<<packet.sid, box>>}
  /\ UNCHANGED <<nv, stage, LkgStatus, faults, stored, applied, disturbed>>
  /\ Goto(pc + 1)

\* Whether ApplyNewPermissionsPacket accepts the packet, and who signed it.
Signer == AuthWithSignedData(mInternalCertStore.Certs, packet.signer)

RefusePermissions ==
  /\ At("process") /\ box \in PermissionBoxes
  /\ \/ /\ this.State # "PRESENT"
        /\ UNCHANGED <<mPermStore, mManagerData, pending>>
     \/ /\ this.State = "PRESENT" /\ Signer = NoIdentity
        /\ Becomes("FAILED", "ERROR", FALSE)
        /\ UNCHANGED <<mPermStore, pending>>
     \/ /\ this.State = "PRESENT" /\ Signer # NoIdentity
        /\ ~VersionAccepted(mPermStore.Lsv, packet)
        /\ mPermStore' = spp
        /\ Becomes("FAILED", "ERROR", FALSE)
        /\ pending' = {t \in pending : t[2] \notin PermissionBoxes}
  /\ UNCHANGED <<nv, mInternalCertStore, stage, boot, faults, stored, applied, disturbed>>
  /\ Void(box)

ApplyNewPermissionsPacket ==
  /\ At("process") /\ box \in PermissionBoxes /\ this.State = "PRESENT"
  /\ Signer # NoIdentity /\ VersionAccepted(mPermStore.Lsv, packet)
  /\ mPermStore' = ApplyPermissionsInXml(mPermStore, Signer, packet)
  /\ Becomes("DONE", "SUCCESS", TRUE)
  /\ pending' = pending \cup {<<packet.sid, box>>}
  /\ UNCHANGED <<nv, mInternalCertStore, stage, LkgStatus, boot, faults, stored, applied, disturbed>>
  /\ Goto(pc + 1)

-----------------------------------------------------------------------------
(* Completing them: the LKG handlers and the results.                      *)

\* DeleteProvisionVariable and FreeNvVarsForIncomingPermissions, FreeSettings, and
\* the loop of DeleteAllMailboxes.
DeleteMailbox ==
  /\ At("delete") \/ At("settingsDelete") \/ At("deleteAll")
  /\ mailbox' = [mailbox EXCEPT ![box] = NoPacket]
  /\ UNCHANGED <<result, ipcvn, spp, smid, memory, stage, LkgStatus, boot, faults, history>>
  /\ Goto(pc + 1)

\* What CompletePacket asks the handler for.
LkgOperation == IF LkgStatus = "SUCCESS" THEN "COMMIT" ELSE "RESTORE"

\* The handler has nothing to do.
LkgClean ==
  /\ At("lkg") /\ ~this.LKGDirty
  /\ UNCHANGED <<nv, memory, stage, LkgStatus, boot, faults, history>>
  /\ Goto(pc + 1)

\* The handler fails: no result is written.
LkgFails == Becomes("FAILED", "ERROR", FALSE) /\ Goto(pc + 2)
LkgDone  == Becomes(this.State, this.StatusCode, FALSE) /\ Goto(pc + 1)

\* Packets of some boxes that memory no longer holds, or that reached their store.
Forget(boxes) == pending' = {t \in pending : t[2] \notin boxes}
Keep(boxes)   == stored' = stored \cup {t \in pending : t[2] \in boxes}

RestoreIdentities ==
  /\ At("lkg") /\ this.LKGDirty /\ box \in IdentityBoxes /\ LkgOperation = "RESTORE"
  /\ Load
  /\ IF ipcvn = {} THEN UNCHANGED pending ELSE Forget(IdentityBoxes)
  /\ UNCHANGED <<nv, mPermStore, stage, LkgStatus, boot, faults, stored, applied, disturbed>>
  /\ IF LoadFails THEN LkgFails ELSE LkgDone

CommitIdentities ==
  /\ At("lkg") /\ this.LKGDirty /\ box \in IdentityBoxes /\ LkgOperation = "COMMIT"
  /\ UNCHANGED <<mailbox, result, spp, smid, mPermStore, stage, LkgStatus, boot, batches, losses,
                 applied>>
  /\ \E ok \in WriteOutcomes :
       /\ Wrote(ok)
       /\ \/ /\ ok /\ ipcvn' = {mInternalCertStore.Certs} /\ UNCHANGED mInternalCertStore
             /\ Keep(IdentityBoxes) /\ Forget(IdentityBoxes) /\ LkgDone
          \/ /\ ~ok /\ Load /\ UNCHANGED <<ipcvn, stored>>
             /\ IF ipcvn = {} THEN UNCHANGED pending ELSE Forget(IdentityBoxes)
             /\ LkgFails

RestorePermissions ==
  /\ At("lkg") /\ this.LKGDirty /\ box \in PermissionBoxes /\ LkgOperation = "RESTORE"
  /\ mPermStore' = spp
  /\ Forget(PermissionBoxes)
  /\ UNCHANGED <<nv, mInternalCertStore, stage, LkgStatus, boot, faults, stored, applied, disturbed>>
  /\ LkgDone

CommitPermissions ==
  /\ At("lkg") /\ this.LKGDirty /\ box \in PermissionBoxes /\ LkgOperation = "COMMIT"
  /\ UNCHANGED <<mailbox, result, ipcvn, smid, mInternalCertStore, stage, LkgStatus, boot, batches,
                 losses, applied>>
  /\ Forget(PermissionBoxes)
  /\ \E ok \in WriteOutcomes :
       \/ ok /\ SaveToFlash(mPermStore, TRUE) /\ Keep(PermissionBoxes) /\ LkgDone
       \/ /\ ~ok /\ MustSave(mPermStore, spp) /\ Wrote(FALSE)
          /\ mPermStore' = spp /\ UNCHANGED <<spp, stored>> /\ LkgFails

\* SetIdentityResponse and SetPermissionsResponse; UpdateSettingsResult.
WriteResult ==
  /\ At("result") \/ At("settingsResult")
  /\ \E ok \in WriteOutcomes :
       /\ Wrote(ok)
       /\ result' = IF ok THEN [result EXCEPT ![box] = [sid |-> packet.sid,
                                                        code |-> this.StatusCode]]
                          ELSE result
  /\ UNCHANGED <<mailbox, ipcvn, spp, smid, memory, stage, LkgStatus, boot, batches, losses,
                 pending, stored, applied>>
  /\ Goto(pc + 1)

-----------------------------------------------------------------------------
(* Settings.                                                               *)

\* ApplyNewSettingsPacket on a packet of an earlier round: only FreeSettings.
AbortSettings ==
  /\ At("settings") /\ this.State # "PRESENT"
  /\ UNCHANGED <<nv, memory, stage, LkgStatus, boot, faults, history>>
  /\ Goto(pc + 3)

\* ApplyNewSettingsPacket up to the result: authenticate, check, apply.
ApplyNewSettingsPacket ==
  /\ At("settings") /\ this.State = "PRESENT"
  /\ \/ /\ Signer # NoIdentity /\ VersionAccepted(smid.LSV, packet)
        /\ Becomes("DONE", "SUCCESS", FALSE)
        /\ applied' = applied \cup {<<packet.sid, box>>}
        /\ boot' = [boot EXCEPT !.mRebootRequired = boot.mRebootRequired \/ packet.reboot]
     \/ /\ Signer = NoIdentity \/ ~VersionAccepted(smid.LSV, packet)
        /\ Becomes("FAILED", "ERROR", FALSE)
        /\ UNCHANGED <<applied, boot>>
  /\ UNCHANGED <<nv, mInternalCertStore, mPermStore, stage, LkgStatus, faults, pending, stored,
                 disturbed>>
  /\ Goto(pc + 1)

\* SMID_SaveToFlash; a write that is refused is logged and forgotten.
SMID_SaveToFlash ==
  /\ At("settingsSave")
  /\ \E ok \in WriteOutcomes :
       Wrote(ok) /\ smid' = IF ok THEN ApplySettings(smid, packet) ELSE smid
  /\ UNCHANGED <<mailbox, result, ipcvn, spp, memory, stage, LkgStatus, boot, batches, losses,
                 pending, stored, applied>>
  /\ Goto(pc + 1)

-----------------------------------------------------------------------------
(* Unenroll.                                                               *)

\* ProcessUnEnrollPacket on a packet that is refused or was processed before.
RefuseUnenroll ==
  /\ At("unenroll")
  /\ \/ "REFUSED" \in Answers /\ Becomes("FAILED", "ERROR", FALSE)
     \/ "ABORTED" \in Answers /\ UNCHANGED mManagerData
  /\ LkgStatus' = "ERROR"
  /\ boot' = [boot EXCEPT !.mRebootRequired = TRUE]
  /\ UNCHANGED <<nv, mInternalCertStore, mPermStore, stage, faults, history>>
  /\ Goto(pc + 1)

\* A user's certificate goes from memory; for the owner's, ClearDFCI begins.
ProcessUnEnrollPacket ==
  /\ At("unenroll")
  /\ LkgStatus' = "SUCCESS"
  /\ boot' = [boot EXCEPT !.mRebootRequired = TRUE]
  /\ \E who \in Answers \cap Identities :
       \/ /\ packet.id # "OWNER"
          /\ mInternalCertStore' = ApplyProvisionData(mInternalCertStore, packet.id, NoCert)
          /\ Becomes("DONE", "SUCCESS", TRUE)
          /\ pending' = pending \cup {<<packet.sid, box>>}
       \/ /\ packet.id = "OWNER"
          /\ mManagerData' = [mManagerData EXCEPT ![box].State = "CLEARING", ![box].who = who]
          /\ UNCHANGED <<mInternalCertStore, pending>>
  /\ UNCHANGED <<nv, mPermStore, stage, faults, stored, applied, disturbed>>
  /\ Goto(pc + 1)

\* ClearDFCI ends early.
ClearFails == Becomes("FAILED", "ERROR", FALSE) /\ LkgStatus' = "ERROR" /\ Goto(pc + 1)

\* SystemSettingsAccessReset.
ClearSettings ==
  /\ At("clearSettings")
  /\ UNCHANGED <<mailbox, result, ipcvn, spp, mInternalCertStore, mPermStore, stage, boot, faults,
                 history>>
  /\ \/ /\ HasUnenrollPermission(mPermStore, this.who)
        /\ smid' = SMID_InitInternalData
        /\ UNCHANGED <<mManagerData, LkgStatus>> /\ Goto(pc + 1)
     \/ ~HasUnenrollPermission(mPermStore, this.who) /\ UNCHANGED smid /\ ClearFails

\* ResetPermissionsToDefault.
ResetPermissionsToDefault ==
  /\ At("clearPermissions")
  /\ UNCHANGED <<mailbox, result, ipcvn, smid, mInternalCertStore, stage, boot, batches, losses,
                 pending, stored, applied>>
  /\ \E ok \in WriteOutcomes :
       /\ SaveToFlash(InitPermStore, ok)
       /\ IF ok THEN UNCHANGED <<mManagerData, LkgStatus>> /\ Goto(pc + 1) ELSE ClearFails

\* InitializeProvisionedData: the variable goes ...
DeleteKeys ==
  /\ At("deleteKeys")
  /\ ipcvn' = {}
  /\ UNCHANGED <<mailbox, result, spp, smid, memory, stage, LkgStatus, boot, faults, history>>
  /\ Goto(pc + 1)

\* ... then the certificates in memory, and the empty store is saved.
InitializeKeys ==
  /\ At("initializeKeys")
  /\ mInternalCertStore' = InitialStore
  /\ UNCHANGED <<mailbox, result, spp, smid, mPermStore, stage, boot, batches, losses, pending,
                 applied>>
  /\ \E ok \in WriteOutcomes :
       /\ Wrote(ok)
       /\ \/ /\ ok /\ ipcvn' = {NoKeys} /\ stored' = stored \cup {<<packet.sid, box>>}
             /\ Becomes("DONE", "SUCCESS", FALSE) /\ UNCHANGED LkgStatus /\ Goto(pc + 1)
          \/ ~ok /\ UNCHANGED <<ipcvn, stored>> /\ ClearFails

-----------------------------------------------------------------------------

\* Mutation of AfterExit: the event fires again at EndOfDxe.
EventKept == boot.event

\* The EndOfDxe event when all is processed; ERROR_EXIT forgets it.
AfterExit == boot.event /\ ~boot.registered

\* The end of ProcessMailBoxes, or of ERROR_EXIT: the data goes, the event is closed.
FinalExit ==
  /\ At("exit")
  /\ UNCHANGED <<nv, faults, stored, applied, disturbed>>
  /\ \/ boot.mRebootRequired /\ Reset
     \/ /\ ~boot.mRebootRequired
        /\ boot' = [boot EXCEPT !.allocated = FALSE, !.event = AfterExit]
        /\ mManagerData' = [b \in Boxes |-> NoData]
        /\ pc' = 0
        /\ UNCHANGED <<mInternalCertStore, mPermStore, stage, LkgStatus, pending>>

Init ==
  /\ mailbox = [b \in Boxes |-> NoPacket] /\ result = [b \in Boxes |-> NoResult]
  /\ ipcvn = {} /\ spp = InFlash(InitPermStore) /\ smid = SMID_InitInternalData
  /\ mInternalCertStore = InitialStore /\ mPermStore = InitPermStore
  /\ mManagerData = [b \in Boxes |-> NoData]
  /\ stage = "Os" /\ pc = 0 /\ LkgStatus = "SUCCESS" /\ boot = BootFlags
  /\ batches = 0 /\ losses = 0 /\ failures = 0
  /\ pending = {} /\ stored = {} /\ applied = {} /\ disturbed = {}

\* What the firmware does, once the machine is on.
Firmware ==
  \/ PopulateInternalCertStore \/ CheckForAuthenticationProtocol
  \/ DfciManagerEntry \/ DfciManagerEntryFails \/ SettingAccessCallback
  \/ EndOfDxeCallback \/ EndOfDxeIdle
  \/ QueueMailboxAtEndOfDxe \/ RefuseIdentity \/ EnrollIdentity
  \/ RefusePermissions \/ ApplyNewPermissionsPacket
  \/ DeleteMailbox \/ LkgClean \/ RestoreIdentities \/ CommitIdentities
  \/ RestorePermissions \/ CommitPermissions \/ WriteResult
  \/ AbortSettings \/ ApplyNewSettingsPacket \/ SMID_SaveToFlash
  \/ RefuseUnenroll \/ ProcessUnEnrollPacket \/ ClearSettings
  \/ ResetPermissionsToDefault \/ DeleteKeys \/ InitializeKeys \/ FinalExit

Next == Firmware \/ OsRestarts \/ PowerLoss \/ Restart

Spec == Init /\ [][Next]_vars

\* The processor keeps running, machines are restarted, and a machine that is
\* restarted again and again shows its UI at EndOfDxe in some of these boots.
FairSpec == Spec /\ WF_vars(Firmware) /\ WF_vars(OsRestarts \/ Restart) /\ SF_vars(EndOfDxeCallback)

-----------------------------------------------------------------------------
(* Properties.                                                             *)

\* Mailboxes and the packets in memory hold packets in a state the code gives them,
\* the certificate stores certificates, and the step is one of Program.
TypeOK ==
  /\ mailbox \in [Boxes -> Packets]
  /\ mManagerData \in [Boxes -> Data]
  /\ mInternalCertStore \in [Certs : Stores, PopulatedIdentities : SUBSET Keys]
  /\ ipcvn \in SUBSET Stores
  /\ pc \in 0..Len(Program)

\* The packets of a round that are applied together.
Enrolls == {<<mManagerData[b].Packet.sid, b>> :
              b \in {c \in LkgBoxes : /\ Present(mManagerData[c])
                                      /\ ~Unenroll(c, mManagerData[c])}}

\* When ProcessMailBoxes is done, either all identity and permission packets of the
\* round reached the stores or none did, unless a fault hit the round: also when
\* the round stopped for the user and began again at EndOfDxe, and when the last
\* packet is the one that fails.
AllOrNothing ==
  (At("exit") /\ Enrolls \cap disturbed = {})
    => Enrolls \subseteq stored \/ Enrolls \cap stored = {}

\* There is never a user key in _IPCVN without an owner key, whatever packets come
\* in which order, where power fails in ClearDFCI, and although a restore leaves
\* the bits of certificates it took back in PopulatedIdentities.
UsersHaveOwner == \A certs \in ipcvn : certs["USER"] # NoCert => certs["OWNER"] # NoCert

\* A certificate in memory that a packet of this round enrolled, and nothing saved.
OnlyInMemory(id) ==
  \E b \in IdentityBoxes :
    LET pkt == mManagerData[b].Packet
    IN  /\ <<pkt.sid, b>> \in pending /\ pkt.decodes /\ pkt.id = id
        /\ pkt.cert = mInternalCertStore.Certs[id]

\* When a round is over, the certificates that signatures are checked with are
\* those in _IPCVN: a restore takes back everything the round enrolled, and an
\* unenroll is saved.  Without _IPCVN, which takes a save that was refused, a restore
\* finds nothing to load: memory may then hold certificates until the next reset, but
\* only ones that packets of this very round enrolled.
KeysAreStored ==
  At("exit") =>
    /\ \A certs \in ipcvn : mInternalCertStore.Certs = certs
    /\ ipcvn = {} => /\ failures > 0
                     /\ \A id \in Enrolled(mInternalCertStore.Certs) : OnlyInMemory(id)

\* The owner leaves: the packet that ClearDFCI runs for.
OwnerLeaves(b, pkt) == b \in IdentityBoxes /\ pkt.decodes /\ pkt.id = "OWNER" /\ pkt.cert = NoCert

\* The LKG handlers delete a mailbox before they save, so a power failure replays
\* no packet that reached its store, but for the one in the second box to be
\* completed, since the save of the first commits both, and for the packet by which
\* the owner leaves: ClearDFCI saves the empty stores before CompletePacket.
ReplayOnlyOfPartner ==
  \A b \in LkgBoxes : mailbox[b].sid # 0 /\ <<mailbox[b].sid, b>> \in stored
                        => b \in {"PERMISSIONS", "IDENTITY2"} \/ OwnerLeaves(b, mailbox[b])

\* The lowest version a stored packet asked for stays in force over reboots, faults
\* and restores: _SPP and _SMID go back only when the owner leaves, or _SPP while
\* there is no owner, since such a boot starts with fresh permissions.
LowestVersionHolds ==
  [][/\ spp'.Lsv < spp.Lsv => \/ At("clearPermissions")
                              \/ \A certs \in ipcvn : certs["OWNER"] = NoCert
     /\ smid'.LSV < smid.LSV => At("clearSettings")]_vars

\* A settings packet that was applied when power failed, and is still in its
\* mailbox, is not refused for its version when the next boot applies it again.
OwnReplayIsAccepted ==
  \A b \in SettingsBoxes : mailbox[b].sid # 0 /\ <<mailbox[b].sid, b>> \in applied
                             => VersionAccepted(smid.LSV, mailbox[b])

\* ProcessMailBoxes runs without manager data only when the entry point could not
\* register for SettingAccess: closing the EndOfDxe event keeps a finished round
\* from being run again.
RoundHasData == stage = "Undefined" => ~boot.registered

\* Packets are not left in their mailboxes for ever, if boots with a UI keep coming:
\* they are processed or deleted, also when one does not decode and power fails.
MailboxesSettle == Tags(mailbox) # {} ~> Tags(mailbox) = {}

\* CompletePacket: "For aborted operations that have not been applied, supply an
\* aborted state and error code".  When a round is over, an identity or permission
\* packet that was not applied has no result that reports success, unless a fault
\* hit it.
AbortedIsReported ==
  \A b \in LkgBoxes :
    LET tag == <<result[b].sid, b>>
    IN  At("exit") /\ tag \in Enrolls /\ result[b].code = "SUCCESS" /\ tag \notin disturbed
          => mManagerData[b].State = "DONE"
=============================================================================
