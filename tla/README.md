# mu_plus: specifications and proofs

TLA+ modules for the parts of mu_plus where steps of several actors, resets or
failing calls decide whether the firmware is right: the Advanced Logger
(`AdvLoggerPkg`), the Manufacturer Firmware Configuration Interface (`MfciPkg`),
the Device Firmware Configuration Interface (`DfciPkg`) and the staging of
capsules (`MsCorePkg`). TLC checks them on small instances, TLAPS proves the main results
for every size. `PROJECT.json` holds the map from definitions to source lines,
the runs, the mutations that show each property can fail, and the hazards.

    tlc -workers 2 -config Mfci.cfg MCMfci
    tlapm MfciProofs.tla

## 1. The system

| Package | State | Operations | What makes it hard |
|---|---|---|---|
| AdvLoggerPkg, in-memory log | LogCurrent, DiscardedSize, the buffer | AdvancedLoggerMemoryLoggerWrite; GetNextMessageBlock | lock-free: interrupts, SMM and processors write at once while others read |
| AdvLoggerPkg, lines | AccessEntry: block, residual characters, line buffer | GetNextFormattedLine, Reset | entries claimed but not yet signed, lines longer than the buffer |
| AdvLoggerPkg, serial logger | access entry, registered events | timer, reset, ExitBootServices callbacks | callbacks on top of each other by TPL, a limit per tick |
| AdvLoggerPkg, file logger | devices, files, index file, semaphore | registration, WriteLogFiles, callbacks | crashes, failing file operations, preemption, rotation over boots |
| AdvLoggerPkg, phase libraries | a block per phase, pointers, HOB, protocol, variable | construct, migrate, validate, forget | the block moves while others hold pointers; allocations fail |
| MfciPkg | five non-volatile variables, HOB, locks | PEI entry, DXE entry, VerifyPolicyAndChange | power failure between any two variable writes |
| DfciPkg | six mailbox variables, the stores of identities, permissions and setting versions in variables and in memory | ProcessMailBoxes, Apply, LKG handlers, ClearDFCI | a round that stops for the user and starts again, commit or restore of four packets at once, power failure between any two writes |
| MsWheaPkg | CMOS records, HOBs, list, HwErrRec variables | report, drain, store | three phases report; resets in between |
| MsCorePkg, capsules | files of a directory, a queue of variables | UpdateCapsule, fetch, delete | several writes for one capsule, each may fail or be the last before a restart |
| MsCorePkg, exceptions | a byte in CMOS | persist, read back | an exception in the handler |
| HidPkg | key queues | report, timer, read | callbacks against readers |
| PcBdsPkg, MsGraphicsPkg, XmlSupportPkg, ZeroTouchPkg, UefiTestingPkg | boot options; windows; a tree | | mostly I/O, layout and parsing |

The parts interact as follows. Every driver's DEBUG call ends in the in-memory
log, whose block is handed from SEC to PEI to DXE (handoff). The serial and file
loggers read it through the access library. MFCI and DFCI act on variables
that the OS writes between two boots: DfciManager hands the packets of a mailbox to
the identity, permission and settings managers, and tells them together to commit or
to restore. UpdateCapsule writes a file, then an item of the queue; the next boot
learns from the queue in PEI and fetches the files in DXE.

## 2. Modules

| Module | Models | State and actions |
|---|---|---|
| AdvancedLoggerMemory | AdvancedLoggerCommon.c, GetNextMessageBlock | one action per load, compare-exchange and store of a writer; two steps for a reader (locate, read) |
| MessageLog | the log as its users see it | `log`, `signed`; append, then sign. AdvancedLoggerMemory implements it |
| FormattedLines | reference definition of a line | `NextLine`, one step over the character stream |
| LineReader | GetNextFormattedLine | one step per pass of its loop, with writers signing at any moment |
| SerialLogger | AdvancedSerialLoggerDxe.c | a stack of frames ordered by TPL; each frame fetches and writes a line per step |
| FileLogger | AdvancedFileLogger.c, FileAccess.c | frames as above; one step per file operation, reboots, power failures |
| LoggerHandoff | SEC, PEI core, DXE core, SMM core, MM core, Runtime libraries | one action per constructor or callback, with its allocations succeeding or not |
| Mfci | MfciPei.c, MfciDxe.c, MfciTargeting.c, retrieval via HOB | one step per SetVariable, callback or reset; OS writes between boots |
| DfciStores | AuthManager*.c, DfciSettingPermission*.c, PermissionStoreSupport.c, the version record of SettingsManager | what one packet does to a store, as operators; no state |
| DfciManager | DfciManager.c and the Apply and LKG handlers | `Program` lists the steps of ProcessMailBoxes, `pc` is the one to come; one action per kind of step, one step per change of a variable. Composes the stores with the mailboxes |
| VariableQueue | DxeQueueUefiVariableLib | the queue as a sequence of named items; add, pop, delete as operators |
| CapsuleStaging | CapsuleRuntime.c, CapsuleServiceProtocol.c, CapsulePersistence.c, CapsuleServicePei.c | UpdateCapsule from its checks to the queue in steps, `pc` is where it is; restarts between any two; the next boot's fetching |
| AdvancedLoggerMemoryProofs, AdvancedLoggerWriteProofs, AdvancedLoggerReaderProofs | | proofs for AdvancedLoggerMemory |
| MfciProofs, MfciNonceProofs | | proofs for Mfci |
| DfciProofs, DfciReplayProofs | | proofs for DfciManager |
| CapsuleProofs | | proofs for CapsuleStaging |
| MC* | | constants for TLC |

SerialLogger and FileLogger use MessageLog for the log, and FormattedLines for a
call of GetNextFormattedLine, which thereby happens at once, at its last fetch.
This is justified by LineReader (`LineIsFormattedLine`) and because the log only
grows, as long as no other call uses the same access entry meanwhile. In
SerialLogger one may (a reset at TPL_APPLICATION and a tick): there the tick comes
between a fetch and a write, a tick inside GetNextFormattedLine is left out.

## 3. Runs

| Run | Result | What it checks |
|---|---|---|
| memory_log | holds | two writers, one reader, 42,510 states: entries tile the log, a signed entry is complete, no message vanishes, the reader gets a prefix, every call returns, every entry is read, and MessageLog is implemented |
| line_reader | holds | 83,563 states: the loop computes the reference line; no character lost unless a call fails half way |
| serial_logger | holds | 26,141 states: lines in order and once but for one write per line preempted in hand, at most one lost per overrun, ExitBootServices empties the log |
| file_logger | holds | 2,560,394 states: file contents, completeness, rotation, and flushes under crashes and one fault |
| handoff | holds | 98,144 states: one log, kept across all moves; accidents need a failed call where PEI has a log |
| mfci_policy | holds | 314,127 states: authentic policy, no silent change, no reuse of a nonce, boots complete, the mailbox settles |
| dfci_manager | holds | 532,172 states: the packets of a round are stored together or not at all, no user key without an owner key, keys in memory are the stored ones after a round, what may be applied twice, lowest versions stay, mailboxes settle |
| capsule_staging | holds | 1,093,382 states: numbers of files are unique, a capsule that was accepted can be fetched and is seen, nothing stale stays |
| serial_unwritten_part | violated | a line fetched at the limit is never written (AdvancedSerialLoggerDxe.c:68 against :28) |
| handoff_max_address | violated | mMaxAddress too small by the header (DxeCore/AdvancedLoggerLib.c:368 against :81) |
| mfci_rejection | violated | a rejected Next blob takes the current policy down (MfciDxe.c:182 against Docs/Mfci_Feature.md:49) |
| dfci_aborted_result | violated | a packet that was never applied reports success (DfciManager.c:817 against :816) |

The type invariants of AdvancedLoggerMemory, Mfci, DfciManager and CapsuleStaging
are proved (section 4) and not part of the runs.

### Bounds

* memory_log: a buffer of 56 bytes takes two small entries or one of 32 and one of
  24 bytes; the lengths 0 and 20 (above MAX_UINT16 = 19) are those the write
  refuses. UINT32_SPAN = 8 lets DiscardedSize wrap. Two calls per writer let
  a compare-exchange meet a changed value and be retried.
* line_reader: LineLimit = 3 is shorter than the longest message (4), so lines
  split; three entries make a line from several messages.
* serial_logger: one line per tick reaches the limit at every tick. Resets are
  asked for at TPL_APPLICATION and at TPL_CALLBACK. The first lets a tick in while a
  line is in hand; `preempted` counts those lines, and each excuses one write in
  `WrittenOnceInOrder` (the line again, or spoilt) and itself in `OneLinePerOverrun`.
  Four messages were also run (253,637 states, holds).
* file_logger: two files make the rotation wrap in three boots; a file takes one
  message and the marker, so the second overflows it. One fault, one handle.
* handoff: PreSize and FullSize are small enough to fill; every platform of
  `AllConfigs`. The combination of a SEC
  log with a PEI log fixed in RAM is left out.
* mfci_policy: two policies, with and without actions, two writes by the OS,
  one crash, one failed call.
* dfci_manager: two of the four batches of `MCDfciManager`, which together enrol an
  owner and a user, raise versions, need the user, unenrol and fail; two certificates,
  so that an owner can be replaced; any number of boots; one power failure and one
  refused write, which may meet in one round.
* capsule_staging: arrays of one to three capsules, two images; three file numbers and
  four names, so that both run out and file numbers wrap around; room for three files,
  which gets full, and one further attempt at a number, which may find one or not;
  three boots, three calls and two faults, so that a fault in clearing the last boot's
  capsules can be followed by another while writing new ones.

### Fairness

memory_log: a writer in a call runs on (nothing in it waits),
a reader is polled. serial_logger: the periodic timer ticks, a
writer signs what it claimed. mfci_policy: the firmware runs on, and the user
restarts the device now and then; faults, crashes and mailbox writes are bounded
and not fair. These are weak. dfci_manager: weak fairness of the firmware and of
restarts, and strong fairness of EndOfDxeCallback: a packet that needs the user waits
for a boot with a user interface, and `MailboxesSettle` holds only if such boots keep
coming. The others check safety only.
Deadlock is not checked in serial_logger, file_logger and handoff, whose systems
stop after exit or the last boot.

## 4. Proofs

Everything below is proved by TLAPS for every value of the constants that the
named assumptions allow: `SizesAssumption`, `MfciAssumption`; for DFCI
`CertAssumption` (the certificates and the marks for ZTD and for none differ),
`BatchAssumption` (identity mailboxes hold identity packets), `SidAssumption` (a
packet has a session number) and `BoundAssumption`;
for capsules `QueueModuloAssumption` and `CapsuleAssumption`.

AdvancedLoggerMemory, any set of writers and readers, buffer size and lengths:

| Theorem | Statement |
|---|---|
| MemoryTypeCorrect | every pointer and counter stays in its range |
| EntriesTileTheLog | claimed entries are disjoint, inside the used buffer and contiguous |
| SignatureMeansComplete | a signed entry is complete |
| NoMessageVanishes | a finished call left its message in the log or counted it, and counts only what did not fit |
| ReaderSeesPrefix, ReaderStaysOnTrack | a reader gets a prefix of the log, and its tests for a bad pointer never trip |
| LogIsAppendOnly | no step removes or alters a signed entry or moves a pointer back |

The inductive invariant is `MemoryInv == TypeOK /\ WriterInv /\ ReaderInv`. The
properties alone are not inductive: `WriterKnows` says what a call relies on
between its steps (the space it computed is still a slot, its message is not
logged yet), `UnusedIsBlank` that nothing is written behind LogCurrent, so a new
entry is unsigned, and `ReaderKnows` that the next entry starts where the last one
given ended. Writers and readers have separate parts, as readers write nothing.

Mfci, any states and any number of faults, crashes and mailbox writes:

| Theorem | Statement |
|---|---|
| MfciTypeCorrect | types; no policy with action bits is stored |
| BdsPolicyIsAuthentic | a boot reaches BDS under a non-customer policy only with its authentic blob and nonce, or with a current nonce of another size or attributes |
| ChangeMeansReset | no boot reaches BDS with another policy stored than in force |
| ChangeIsAnnounced | each change of the stored policy was announced earlier in the boot |
| GrantsAreUsedOnce | the nonce of a transition that stored a new target nonce is never the target again |
| RepetitionsAreBounded | one-time actions repeat at most once per crash or failed call |

Two exceptions are the code's. VerifyPolicyAndChange leaves a policy standing whose
nonce it reads and does not like (section 6); the OS can write such a nonce only in a
boot that could not register the variable's policy (`OsSpoilsNonce`), and `DeviceSettles`
excepts it too, because step 3 is then never reached. And a transition whose write
of the new nonce fails (MfciDxe.c:107) still resets, with the used nonce on offer:
`spent` holds the nonces of the others, from the moment of that write.

`BootInv` adds to the types what is known at each point of a boot: `Verified` (the
blob in hand passed verification), `InStep`, `Told` (what the callbacks were
told). `NonceInv` adds that nonces are drawn fresh (`Drawn`), that the target nonce
in hand is the stored one until rolled, and `Paid`: a used nonce is on offer again
only after a failure not yet accounted for.

DfciManager, any packets and certificates, any number of boots, power failures and
refused writes:

| Theorem | Statement |
|---|---|
| TypesHold | mailboxes, packets in memory and stores keep their types |
| UsersAlwaysHaveOwner | `_IPCVN` never holds a user key without an owner key |
| ReplaysOnlyPartner | a packet whose change reached its store is not in its mailbox any more, but for the second of a pair and the owner's leave |
| RoundsHaveData | ProcessMailBoxes runs without manager data only in a boot whose entry point failed to register for SettingAccess |

That users have an owner is not inductive, because the test that keeps it is made on
`PopulatedIdentities`, where a restore leaves the bits of certificates that it took
back. The invariant is `IInv == TypeOK /\ DataOK /\ KeysOK /\ OrderOK /\ StartOK`.
`KeysOK` says it of memory as well as of the variable. `OrderOK` carries the argument
about stale bits: they appear only when the round failed, a packet that was tried is
not PRESENT any more, so a second round stops at its first packet and nothing is
enrolled by stale bits before the next boot. `CallersOK` (which events are open, and
when data is allocated) is the invariant of RoundsHaveData.

For ReplaysOnlyPartner, `WaitsOK` gives each first box of a pair a window of steps:
from the one that applies its packet in memory to the one that deletes its mailbox,
the wait for EndOfDxe included. An applied packet is inside its window or its mailbox
is gone, and no step inside the window saves a packet of its kind. `NumbersOK` says
that the OS gives new packets new numbers, `NeededOK` that the step at `pc` is one the
packets call for. `SourceOK` says that the packet in hand is the one in its mailbox
until that is deleted, and that only an owner's leave is in the middle of ClearDFCI:
ClearDFCI saves the empty identities before CompletePacket deletes the mailbox, so
that packet may be stored and still be there.

CapsuleStaging, any arrays, moduli, disk size and number of boots, calls and faults:

| Theorem | Statement |
|---|---|
| CapsuleInvariant | the inductive invariant, with the types |
| NumbersAreUnique | a new capsule gets the number of no existing file, and no two items name one file |
| PromisesAreKept | a capsule that UpdateCapsule accepted is in the queue and its file is whole |
| PromisesAreSeen | PEI finds a capsule while there is an accepted one |
| NothingStale | after the first persistence of a boot there are only files and items of it, but for files whose deletion was refused, and no item names one of these |

The last four have the exceptions that their properties name (an item that could not
be deleted; for PEI also a queue that was processed half way). `LabelOK` says what
each step of UpdateCapsule relies on (the queue is cleared only when every file is gone
or in `undeleted`, and the file being written is of this boot), `ItemsOK` that the
file being written and the item in hand are named by no item of the queue,
`Ascending` that items are in the order of their names, so that a queue filled from
empty starts with 1 (`FirstOK`).

Checked by TLC only: all liveness; `DiscardedSizeIsExact` and the refinement of
MessageLog; `AllOrNothing`, `KeysAreStored`,
`OwnReplayIsAccepted` and `LowestVersionHolds` of DfciManager; all of LineReader,
SerialLogger, FileLogger and LoggerHandoff. Liveness under fairness is out of the
prover's reach, and so is what `FormattedLines` computes by recursion.

## 5. Abstractions

* Stores become visible in program order (x86); a weaker memory model would need
  barriers that the model does not represent.
* Message text, level and time stamp are the identity of the call, or a few
  characters where lines are cut. DEBUG output of the readers' own error paths
  is left out.
* SerialPortWrite writes the whole line. The core stops the timer before
  ExitBootServices callbacks (external).
* FileLogger: a message is one line given by its length; callback registration
  succeeds; which volumes qualify is the environment's choice.
* LoggerHandoff: PEI has written before memory is discovered, and temporary RAM
  ends after the post-memory step.
* Mfci: a random nonce is one not drawn before; signature, EKU and target checks
  are one verdict per blob; ASSERTs are off. A boot in which PEI failed to pass the
  policy on is excluded from ChangeIsAnnounced and ChangeMeansReset, and a boot
  whose driver entry failed from BdsPolicyIsAuthentic. Of the
  variables whose policy could not be registered the OS writes the current nonce
  only, with another size or other attributes, and not the other ones.
* DfciManager: release builds, an ASSERT does not halt. A signature is the
  certificate that made it. USER1 and USER2 behave as USER does and are left out, as
  are the opt-in and opt-out of zero touch, unsigned settings and permissions, and
  groups. Deleting a variable and reading one succeed; a write may be refused. A new
  machine has no `_IPCVN`, and `_SPP` exists. While the first save of `_IPCVN` was
  refused, a restore finds nothing to load, and memory keeps what the round enrolled
  until the next reset; `KeysAreStored` says that it is no more than that. A packet that is malformed inside is
  refused as one with a bad version. A user interface, once there, stays for the
  boot, so that mProcessingAtEndOfDxe makes no difference. The permission test of
  ResetPermissionsToDefault repeats the one made for the settings. The Current
  variables (published XML) and the settings themselves are left out.
* CapsuleStaging: an image is its own hash. The file system is there. Reading
  fails only while stale files are cleared and while an item is popped. The queries (Peek, Count, QueryCapsuleCapability) change nothing. The code of
  the next boot that pops, fetches and deletes is not in the repository; it is
  modelled as one client that does so in order and calls UpdateCapsule at no time in
  between. Variables are enumerated in the order of their creation (external). A reset
  by UpdateCapsule counts as a boot.

Not modelled: MfciDxeRoT.c, the secure boot and TPM callbacks, device identity,
the ARM log libraries, the hardware port, the variable policy of the locator, and
the packages in section 7.

## 6. Disagreements between code and its documentation

Four are runs (section 3). Others were met while modelling and have no run:

* AdvancedLoggerAccessLib.c:280: a line at the end of the log is returned without
  a terminator, against :183; at :293 characters already pulled are lost when
  the next entry is claimed but unsigned, against :225.
* AdvancedSerialLoggerDxe.c:105: a reset asked for at TPL_APPLICATION lets a tick
  use mAccessEntry: a line is written again, mixed with the next or lost. The run
  serial_logger counts these (`preempted`).
* MfciDxe.c:851: a current nonce that is read but has another size or other
  attributes ends VerifyPolicyAndChange with EFI_SUCCESS; the policy is neither
  authenticated nor cleaned up, against :682 ("Always re-authenticate any policy that
  is currently installed").
* MfciDxe.c:292: a blob with only actions announces CUSTOMER_STATE though the old
  policy stays. MfciDxe.c:238: LockPolicyVariables overwrites
  EFI_SECURITY_VIOLATION with success.
* PeiCore/AdvancedLoggerLib.c:535: an error DEBUG recurses when the block cannot be
  had; :166 says the function is called only without a SEC logger.
* Runtime/AdvancedLoggerLib.c:164: the ExitBootServices event is registered only if
  a log was found. DxeCore/AdvancedLoggerLib.c:192 stores through mLoggerInfo
  without a test.
* DfciManager.c:870 says that after a failure "all subsequent identity and permissions
  operations are void", yet an unenrolment in the other identity mailbox is processed.
* When IDENTITY is applied and IDENTITY2 waits for the user, the round at EndOfDxe
  finds the first packet processed, aborts, and restores everything, while the
  results of the round report success for the packets that it took back.
* DfciManager.c:1082: the error exit frees the data and leaves the EndOfDxe event open;
  the callback then uses a null pointer (`RoundHasData` allows this one case).
* AuthManagerProvisionedData.c:258: a restore leaves the bits of identities it took
  back; proved harmless for owner and user keys. DfciSettingPermission.c:327:
  IdentityChange edits the permissions in memory, and a restore that has no
  permission packet to complete keeps the edits until the next boot.
* A power failure between the first commit of a pair and the deletion of its partner's
  mailbox applies the partner a second time, over the packet that came after it.
* A ClearDFCI that is interrupted leaves default permissions, so that the replayed
  unenrolment, though signed by the owner, needs the user. If PERMISSIONS2 cannot be
  saved, the commit of PERMISSIONS reports success though nothing was saved. A
  settings packet that does not decode gets no result.
* CapsuleServicePei.c:91 looks for the item named 1 only: a queue whose first item was
  popped before an interruption is not seen. CapsuleServiceProtocolDxe.c:71: the loop
  that clears the queue ends silently when a variable is not deleted, and an old item
  may then share its file number with a new capsule.
* CapsulePersistence.c:392 tests the status of Delete with EFI_ERROR, which
  EFI_WARN_DELETE_FAILURE is not: a stale file stays, the directory with it (:400), and
  CapsuleServiceProtocolDxe.c:63 sees no failure (`undeleted`).
* A call of UpdateCapsule that fails leaves the capsules it has staged before; a failed
  QueueAddItem leaves a file in no queue until a later boot's first persistence.
  CapsulePersistence.c:592 asserts on a status that is EFI_SUCCESS; :372 reads
  FileInfo before its size is tested. The `PreviousCapsuleCount` of the ReadMe has
  no code.
* MsWheaReportHER.c:471: MsWheaClearAllEntries deletes `VarName`, which it does not
  set, instead of `Name`. Not modelled yet.

## 7. Plan

1. WHEA: CMOS store, PEI and DXE lists, HwErrRec slots, DXE against MM; the cast
   of a capacity to UINT8 (MsWheaEarlyStorageLib.c:109).
2. Exception byte in CMOS; HID key queues under TPLs; BootNext failure.
3. The recovery challenge of DFCI and opting out of zero touch.
4. Proofs: `AllOrNothing` and `KeysAreStored`; LineReader's `TypeOK` and pipe
   property; LoggerHandoff's OneLog and LogSurvives.

Left out on purpose: drawing and fonts, XML and JSON parsing, cryptography, user
interface, shell test applications. They are I/O or character-level
conversions without state to check.

## 8. How much of the code this is

The map covers about 8,150 source lines: 3,420 of DfciPkg, 2,330 of AdvLoggerPkg,
1,350 of MfciPkg and 1,060 of MsCorePkg. These are the stateful core of the logger,
of MFCI and of the DFCI manager, and the staging of capsules. Against the whole
repository (about 250,000 lines of C, half of them MsGraphicsPkg and its font data)
this is about three percent; MsWheaPkg, HidPkg and the rest of DfciPkg and MsCorePkg
hold most of the state that the plan in section 7 still has to reach.
