--------------------------- MODULE CapsuleStaging ---------------------------
(***************************************************************************)
(* How UpdateCapsule keeps capsules for the next boot: CapsuleRuntimeDxe   *)
(* and CapsuleServiceProtocolDxe take them, DxeCapsulePersistenceLib puts  *)
(* each in a file of the directory Capsules, DxeQueueUefiVariableLib keeps *)
(* the order, and CapsuleServicePei tells the next boot that there is one. *)
(*                                                                         *)
(* Disk and variables survive a restart, which may come between any two    *)
(* writes; any write may fail.  An image is a model value and is its own   *)
(* hash.  The field boot of files and items, and the variables of history, *)
(* are for the properties only.                                            *)
(***************************************************************************)
EXTENDS VariableQueue, FiniteSets

CONSTANTS Images,             \* capsule images
          Torn,               \* what a file holds that was not written to its end
          NULL,
          Arrays,             \* the values of CapsuleHeaderArray
          CAPSULE_ID_MODULO,  \* file names hold smaller numbers than this one
          MAX_ATTEMPTS,       \* how often FindNextFreeCapsuleID tries again: 500
          DiskSize,           \* how many files there is room for
          MaxBoots, MaxCalls, MaxFaults

Capsules == [image : Images, flags : SUBSET {"PERSIST", "POPULATE", "RESET"},
             fmp : BOOLEAN, supported : BOOLEAN]
CapsuleIds == 0 .. CAPSULE_ID_MODULO - 1

ASSUME CapsuleAssumption ==
  /\ CAPSULE_ID_MODULO \in Nat \ {0, 1} /\ MAX_ATTEMPTS \in Nat /\ DiskSize \in Nat
  /\ Torn \notin Images /\ NULL \notin Images
  /\ \A array \in Arrays : /\ array \in Seq(Capsules) /\ Len(array) >= 1

VARIABLES
  \* The EFI partition and the variables.
  dir,                \* the directory exists
  files,              \* its files, by number
  queue,
  \* CapsuleRuntimeDxe, CapsuleServiceProtocolDxe and CapsulePersistence.c.
  mAfterLocked, mFirstPersistence,
  CapsuleNum,
  pc,                 \* where UpdateCapsule is, "idle" if it is not running
  rest,               \* the capsules of the array still to do
  ScatterGatherList,  \* whether the caller passed one
  InitiateReset,
  CapsuleId,          \* the file being written
  \* The code of the next boot that processes capsules.
  taken,              \* the item it has in hand
  \* History.
  boot, calls, faults,
  staged,             \* items added by the call that is running
  promised,           \* items of calls that succeeded
  popped,             \* an item was processed while others stay
  leftover,           \* the loop that clears the queue ended early
  undeleted           \* files that RemoveStaleCapsulesOnFileSystem passed and are still there

disk    == <<dir, files>>
module  == <<mAfterLocked, mFirstPersistence, CapsuleNum>>
call    == <<pc, rest, ScatterGatherList, InitiateReset, CapsuleId>>
history == <<boot, calls, faults, staged, promised, popped, leftover, undeleted>>
vars    == <<disk, queue, module, call, taken, history>>

-----------------------------------------------------------------------------
(* CapsulePersistence.c.                                                   *)

\* IsThereEnoughFreeSpaceOnDisk.
EnoughFreeSpace == Cardinality(DOMAIN files) < DiskSize

\* CapsuleNum after attempt k of FindNextFreeCapsuleID: Attempts is added each time.
Attempt(k) == (CapsuleNum + (k * (k + 1)) \div 2) % CAPSULE_ID_MODULO

\* Mutation of FreeAttempts: whether the file exists is not looked up.
FirstAttempt == {1}

\* The attempt that meets no file, the first one to do so, if there is one.
FreeAttempts ==
  {k \in 1 .. MAX_ATTEMPTS + 1 : /\ Attempt(k) \notin DOMAIN files
                                 /\ \A j \in 1 .. k - 1 : Attempt(j) \in DOMAIN files}

\* FindNextFreeCapsuleID has a number to give.
IdAvailable == ~ dir \/ FreeAttempts # {}

\* CapsuleNum when FindNextFreeCapsuleID returns.
NextCapsuleNum ==
  IF ~ dir THEN CapsuleNum
  ELSE Attempt(IF FreeAttempts # {} THEN CHOOSE k \in FreeAttempts : TRUE ELSE MAX_ATTEMPTS + 1)

\* The number it gives.
NextFreeCapsuleID == NextCapsuleNum % CAPSULE_ID_MODULO

Put(id, content) ==
  [n \in DOMAIN files \cup {id} |->
     IF n = id THEN [image |-> content, boot |-> boot] ELSE files[n]]

Remove(id) == [n \in DOMAIN files \ {id} |-> files[n]]

\* InternalGetPersistedCapsuleData: the file is there, has the size that its
\* header names, and its hash is the one in the identifier.
GrabPersistedCapsule(item) ==
  CASE item.CapsuleId \notin DOMAIN files -> "NOT_FOUND"
    [] item.CapsuleId \in DOMAIN files /\ files[item.CapsuleId].image = Torn -> "DEVICE_ERROR"
    [] item.CapsuleId \in DOMAIN files /\ files[item.CapsuleId].image # Torn ->
         IF files[item.CapsuleId].image = item.CapsuleHash THEN "SUCCESS" ELSE "INVALID_PARAMETER"

-----------------------------------------------------------------------------
(* CapsuleServiceProtocolDxe.c and CapsuleServicePei.c.                    *)

\* The checks of QueryCapsuleCapabilitiesService.
Supported(c) ==
  /\ "POPULATE" \in c.flags => "PERSIST" \in c.flags
  /\ "RESET" \in c.flags => "PERSIST" \in c.flags
  /\ ~ (c.fmp /\ "POPULATE" \in c.flags)
  /\ "POPULATE" \notin c.flags => c.supported

QueryCapsuleCapabilitiesService(array) ==
  \A i \in DOMAIN array : Supported(array[i])

\* CheckCapsuleUpdate: PEI looks for the variable named 1.
CheckCapsuleUpdate == 1 \in Ids(queue)

At(label) == pc = label

MayFail == faults < MaxFaults
Fault == faults' = faults + 1

\* A call that returns without success: what it has staged stays.
Return ==
  /\ pc' = "idle" /\ rest' = << >> /\ staged' = {} /\ CapsuleId' = NULL
  /\ InitiateReset' = FALSE /\ UNCHANGED ScatterGatherList

\* The volatile state of a boot.
Fresh ==
  /\ mAfterLocked' = FALSE /\ mFirstPersistence' = TRUE /\ CapsuleNum' = 1
  /\ Return /\ taken' = NULL /\ undeleted' = {}

\* EFI_UNSUPPORTED of CapsuleRuntimeDxe once boot services are over, and a call
\* that the query refuses.
UpdateCapsuleRefused(array) ==
  /\ At("idle") /\ taken = NULL
  /\ mAfterLocked \/ ~ QueryCapsuleCapabilitiesService(array)
  /\ UNCHANGED vars

\* UpdateCapsule of both drivers, up to the loop.
UpdateCapsuleService(array, sgl) ==
  /\ At("idle") /\ taken = NULL /\ ~ mAfterLocked
  /\ QueryCapsuleCapabilitiesService(array)
  /\ calls < MaxCalls /\ calls' = calls + 1
  /\ pc' = "next" /\ rest' = array /\ ScatterGatherList' = sgl
  /\ UNCHANGED <<disk, queue, module, InitiateReset, CapsuleId, taken,
                 boot, faults, staged, promised, popped, leftover, undeleted>>

\* The head of the loop, for a capsule that is to be staged.  The first one of a
\* boot withdraws whatever was promised before.
StageCapsule ==
  /\ At("next") /\ rest # << >> /\ "PERSIST" \in Head(rest).flags
  /\ InitiateReset' = (InitiateReset \/ "RESET" \in Head(rest).flags)
  /\ IF mFirstPersistence
     THEN pc' = "delete" /\ promised' = {} /\ undeleted' = {}
     ELSE pc' = "persist" /\ UNCHANGED <<promised, undeleted>>
  /\ UNCHANGED <<disk, queue, module, rest, ScatterGatherList, CapsuleId, taken,
                 boot, calls, faults, staged, popped, leftover>>

\* EFI_OUT_OF_RESOURCES: a capsule that does not persist, behind others that did.
RefuseCapsule ==
  /\ At("next") /\ rest # << >> /\ "PERSIST" \notin Head(rest).flags
  /\ Return
  /\ UNCHANGED <<disk, queue, module, taken, boot, calls, faults, promised, popped, leftover, undeleted>>

\* Mutation of AllPassed: the loop stops in front of the last file.
OneLeft == Cardinality(DOMAIN files \ undeleted) <= 1

\* RemoveStaleCapsulesOnFileSystem has met the end of the directory.
AllPassed == DOMAIN files \subseteq undeleted

\* RemoveStaleCapsulesOnFileSystem, one file.  EFI_FILE_PROTOCOL.Delete fails with
\* EFI_WARN_DELETE_FAILURE only, which is no EFI_ERROR: the loop goes on.
DeleteFile(id) ==
  /\ At("delete") /\ dir /\ ~ AllPassed /\ id \notin undeleted
  /\ \/ files' = Remove(id) /\ UNCHANGED <<undeleted, faults>>
     \/ undeleted' = undeleted \cup {id} /\ UNCHANGED files /\ MayFail /\ Fault
  /\ UNCHANGED <<dir, queue, module, call, taken, boot, calls, staged, promised, popped, leftover>>

\* Its last step, and the case that there is no directory.  One that is not empty
\* stays, and so does one that Delete warns of, which goes unnoticed too.
DeleteDirectory ==
  /\ At("delete") /\ (dir => AllPassed)
  /\ \/ dir' = (DOMAIN files # {}) /\ UNCHANGED faults
     \/ dir /\ DOMAIN files = {} /\ UNCHANGED dir /\ MayFail /\ Fault
  /\ pc' = "clear"
  /\ UNCHANGED <<files, queue, module, rest, ScatterGatherList, InitiateReset, CapsuleId,
                 taken, boot, calls, staged, promised, popped, leftover, undeleted>>

\* The volume, the directory or a file is not opened or read: the next capsule is
\* the first one again.
DeleteFails ==
  /\ At("delete") /\ MayFail /\ Fault
  /\ Return
  /\ UNCHANGED <<disk, queue, module, taken, boot, calls, promised, popped, leftover, undeleted>>

\* One item of the loop that clears the queue.
ClearQueue ==
  /\ At("clear") /\ queue # << >>
  /\ queue' = QueuePopItem(queue)
  /\ UNCHANGED <<disk, module, call, taken, history>>

\* The loop ends, at the end of the queue or because a variable was not deleted.
QueueCleared ==
  /\ At("clear")
  /\ \/ queue = << >> /\ UNCHANGED faults
     \/ queue # << >> /\ MayFail /\ Fault
  /\ leftover' = (queue # << >>) /\ popped' = FALSE
  /\ mFirstPersistence' = FALSE /\ pc' = "persist"
  /\ UNCHANGED <<disk, queue, mAfterLocked, CapsuleNum, rest, ScatterGatherList,
                 InitiateReset, CapsuleId, taken, boot, calls, staged, promised, undeleted>>

\* InternalPersistCapsuleImageAcrossReset up to the creation of the file.
CreateCapsuleFile ==
  /\ At("persist") /\ EnoughFreeSpace /\ IdAvailable
  /\ NextFreeCapsuleID \notin DOMAIN files
  /\ CapsuleNum' = NextCapsuleNum /\ CapsuleId' = NextFreeCapsuleID
  /\ dir' = TRUE /\ files' = Put(NextFreeCapsuleID, Torn)
  /\ pc' = "write"
  /\ UNCHANGED <<queue, mAfterLocked, mFirstPersistence, rest, ScatterGatherList,
                 InitiateReset, taken, history>>

\* No room, no free number, or a file of that number (EFI_ALREADY_STARTED).
CreateRefused ==
  /\ At("persist")
  /\ ~ EnoughFreeSpace \/ ~ IdAvailable \/ NextFreeCapsuleID \in DOMAIN files
  /\ CapsuleNum' = IF EnoughFreeSpace THEN NextCapsuleNum ELSE CapsuleNum
  /\ Return
  /\ UNCHANGED <<disk, queue, mAfterLocked, mFirstPersistence, taken,
                 boot, calls, faults, promised, popped, leftover, undeleted>>

\* The directory is opened or created, the file is not.
CreateFails ==
  /\ At("persist") /\ EnoughFreeSpace /\ IdAvailable /\ MayFail /\ Fault
  /\ CapsuleNum' = NextCapsuleNum /\ dir' \in {dir, TRUE}
  /\ Return
  /\ UNCHANGED <<files, queue, mAfterLocked, mFirstPersistence, taken,
                 boot, calls, promised, popped, leftover, undeleted>>

\* The capsule is written and the file closed.
WriteCapsule ==
  /\ At("write")
  /\ files' = Put(CapsuleId, Head(rest).image) /\ pc' = "queue"
  /\ UNCHANGED <<dir, queue, module, rest, ScatterGatherList, InitiateReset, CapsuleId,
                 taken, history>>

\* The file stays as it is.
WriteFails ==
  /\ At("write") /\ MayFail /\ Fault
  /\ Return
  /\ UNCHANGED <<disk, queue, module, taken, boot, calls, promised, popped, leftover, undeleted>>

Identifier == [CapsuleId |-> CapsuleId, CapsuleHash |-> Head(rest).image, boot |-> boot]

\* QueueAddItem, and on to the next capsule.
AddToQueue ==
  /\ At("queue") /\ ~ QueueIsFull(queue)
  /\ queue' = QueueAddItem(queue, Identifier)
  /\ staged' = staged \cup {queue'[Len(queue')]}
  /\ pc' = "next" /\ rest' = Tail(rest) /\ CapsuleId' = NULL
  /\ UNCHANGED <<disk, module, ScatterGatherList, InitiateReset, taken,
                 boot, calls, faults, promised, popped, leftover, undeleted>>

\* The file stays on the disk, in no queue.
AddFails ==
  /\ At("queue")
  /\ \/ QueueIsFull(queue) /\ UNCHANGED faults
     \/ ~ QueueIsFull(queue) /\ MayFail /\ Fault
  /\ Return
  /\ UNCHANGED <<disk, queue, module, taken, boot, calls, promised, popped, leftover, undeleted>>

\* The end of UpdateCapsuleService: EFI_INVALID_PARAMETER without a
\* ScatterGatherList, a reset if a capsule asks for it, or EFI_SUCCESS.
CallReturns ==
  /\ At("next") /\ rest = << >>
  /\ promised' = IF ScatterGatherList THEN promised \cup staged ELSE promised
  /\ IF ScatterGatherList /\ InitiateReset
     THEN Fresh /\ boot' = boot + 1
     ELSE Return /\ UNCHANGED <<module, taken, boot, undeleted>>
  /\ UNCHANGED <<disk, queue, calls, faults, popped, leftover>>

-----------------------------------------------------------------------------
(* Around UpdateCapsule.                                                   *)

\* ExitBootServices.
LockCapsuleInterface ==
  /\ At("idle") /\ taken = NULL /\ ~ mAfterLocked
  /\ mAfterLocked' = TRUE
  /\ UNCHANGED <<disk, queue, mFirstPersistence, CapsuleNum, call, taken, history>>

\* What the file being written is after a loss of power.
Unsynced ==
  IF At("write") THEN {Remove(CapsuleId), files, Put(CapsuleId, Head(rest).image)} ELSE {files}

\* The system is reset or loses power, whatever it is doing.
Restart ==
  /\ boot < MaxBoots /\ boot' = boot + 1
  /\ Fresh
  /\ files' \in Unsynced
  /\ UNCHANGED <<dir, queue, calls, faults, promised, popped, leftover>>

\* The platform's boot manager takes the first item with QueuePopItem, asks for
\* its capsule and deletes the file; boot services are single-threaded.
TakeCapsule ==
  /\ At("idle") /\ taken = NULL /\ ~ mAfterLocked /\ queue # << >>
  /\ taken' = Head(queue) /\ queue' = QueuePopItem(queue)
  /\ promised' = promised \ {Head(queue)}
  /\ popped' = (Tail(queue) # << >>) /\ leftover' = (leftover /\ Tail(queue) # << >>)
  /\ UNCHANGED <<disk, module, call, boot, calls, faults, staged, undeleted>>

\* QueuePopItem does not read or delete the variable, and has no item to give.
TakeFails ==
  /\ At("idle") /\ taken = NULL /\ ~ mAfterLocked /\ queue # << >>
  /\ MayFail /\ Fault
  /\ UNCHANGED <<disk, queue, module, call, taken, boot, calls, staged, promised, popped, leftover,
                 undeleted>>

\* InternalDeletePersistedCapsuleData, for the item in hand.  It may leave the file,
\* with an error or with the warning of Delete.
DeletePersistedCapsuleById ==
  /\ taken # NULL
  /\ \/ files' = Remove(taken.CapsuleId) /\ UNCHANGED faults
     \/ taken.CapsuleId \in DOMAIN files /\ UNCHANGED files /\ MayFail /\ Fault
  /\ taken' = NULL
  /\ UNCHANGED <<dir, queue, module, call, boot, calls, staged, promised, popped, leftover,
                 undeleted>>

-----------------------------------------------------------------------------
Init ==
  /\ dir = FALSE /\ files = [n \in {} |-> NULL] /\ queue = << >>
  /\ mAfterLocked = FALSE /\ mFirstPersistence = TRUE /\ CapsuleNum = 1
  /\ pc = "idle" /\ rest = << >> /\ ScatterGatherList = FALSE /\ InitiateReset = FALSE
  /\ CapsuleId = NULL /\ taken = NULL
  /\ boot = 1 /\ calls = 0 /\ faults = 0 /\ staged = {} /\ promised = {}
  /\ popped = FALSE /\ leftover = FALSE /\ undeleted = {}

Next ==
  \/ \E array \in Arrays : \/ UpdateCapsuleRefused(array)
                            \/ \E sgl \in BOOLEAN : UpdateCapsuleService(array, sgl)
  \/ StageCapsule \/ RefuseCapsule
  \/ \E id \in DOMAIN files : DeleteFile(id)
  \/ DeleteDirectory \/ DeleteFails \/ ClearQueue \/ QueueCleared
  \/ CreateCapsuleFile \/ CreateRefused \/ CreateFails \/ WriteCapsule \/ WriteFails
  \/ AddToQueue \/ AddFails \/ CallReturns
  \/ LockCapsuleInterface \/ Restart \/ TakeCapsule \/ TakeFails
  \/ DeletePersistedCapsuleById

Spec == Init /\ [][Next]_vars

-----------------------------------------------------------------------------
(* Properties                                                              *)

Contents == [image : Images \cup {Torn}, boot : Nat]
QueueItems == [Id : 1 .. DEFAULT_QUEUE_MODULO - 1, CapsuleId : CapsuleIds,
               CapsuleHash : Images, boot : Nat]

\* Type invariant.
TypeOK ==
  /\ dir \in BOOLEAN
  /\ DOMAIN files \subseteq CapsuleIds /\ files \in [DOMAIN files -> Contents]
  /\ queue \in Seq(QueueItems)
  /\ mAfterLocked \in BOOLEAN /\ mFirstPersistence \in BOOLEAN
  /\ CapsuleNum \in CapsuleIds
  /\ pc \in {"idle", "next", "delete", "clear", "persist", "write", "queue"}
  /\ rest \in Seq(Capsules) /\ ScatterGatherList \in BOOLEAN /\ InitiateReset \in BOOLEAN
  /\ CapsuleId \in CapsuleIds \cup {NULL}
  /\ taken \in QueueItems \cup {NULL}
  /\ boot \in Nat /\ calls \in Nat /\ faults \in Nat
  /\ staged \subseteq QueueItems /\ promised \subseteq QueueItems
  /\ popped \in BOOLEAN /\ leftover \in BOOLEAN /\ undeleted \subseteq CapsuleIds

\* "given a unique ID, and saved" (CapsuleServiceProtocolDxe/ReadMe.md): the
\* number found for a new capsule is no existing file's, so that
\* CreateCapsuleFileOnFileSystem never meets "the file already exists"; and no
\* two items of the queue name one file, across restarts, numbers that wrap
\* around and calls that fail half way, unless an item of an earlier boot could
\* not be deleted.
IdsAreUnique ==
  /\ At("persist") /\ IdAvailable => NextFreeCapsuleID \notin DOMAIN files
  /\ ~ leftover =>
       \A i, j \in DOMAIN queue : i # j => queue[i].CapsuleId # queue[j].CapsuleId

\* A capsule for which UpdateCapsule returned EFI_SUCCESS, or reset the system,
\* can be fetched: its item is in the queue and its file holds what the item's
\* hash says, until it is taken or a first capsule of a later boot withdraws it,
\* whatever later calls fail at and wherever the power goes, unless an item of
\* an earlier boot could not be deleted.
PromisedIsDeliverable ==
  ~ leftover => \A item \in promised :
    item \in Items(queue) /\ GrabPersistedCapsule(item) = "SUCCESS"

\* CheckCapsuleUpdate, which looks for the item named 1 only, finds a capsule
\* for as long as there is a promised one, unless the processing of the queue
\* stopped half way or an item of an earlier boot could not be deleted.
PromisedIsSeen ==
  promised # {} /\ ~ popped /\ ~ leftover => CheckCapsuleUpdate

\* "The first time a capsule is persisted, we clear the Capsules folder on the
\* disk to remove stale files" (CapsuleServiceProtocolDxe/ReadMe.md): once
\* mFirstPersistence is FALSE, every file, orphans of failed calls included, is
\* of this boot, but for those whose Delete returned EFI_WARN_DELETE_FAILURE, which
\* RemoveStaleCapsulesOnFileSystem does not take for an error.  Unless an item could
\* not be deleted, every item is of this boot, and so is the file it names: what
\* was not deleted is in no item.
StaleIsGone ==
  ~ mFirstPersistence =>
    /\ \A id \in DOMAIN files : files[id].boot = boot \/ id \in undeleted
    /\ ~ leftover => \A item \in Items(queue) :
         /\ item.boot = boot
         /\ item.CapsuleId \in DOMAIN files /\ files[item.CapsuleId].boot = boot
=============================================================================
