--------------------------- MODULE LoggerHandoff ---------------------------
(***************************************************************************)
(* How one in-memory log is handed from phase to phase of a boot: SEC's    *)
(* block in temporary RAM (DebugAgent/Sec), the block PEI core makes or    *)
(* takes over (AdvancedLoggerLib/PeiCore), the move to permanent memory,   *)
(* the HOB, the protocol DXE core publishes (AdvancedLoggerLib/DxeCore)    *)
(* and the users that capture it: SMM core, standalone MM core, runtime    *)
(* drivers.                                                                *)
(*                                                                         *)
(* A pointer to an ADVANCED_LOGGER_INFO is the name of the block it points *)
(* to.  Addresses are offsets from the start of that block, so LogBuffer,  *)
(* which follows the info structure, is InfoSize.  One call of             *)
(* AdvancedLoggerWrite is one step here; how concurrent calls interleave   *)
(* is the business of AdvancedLoggerMemory.  Any allocation may fail.      *)
(***************************************************************************)
EXTENDS Integers, Sequences, FiniteSets

CONSTANTS Configs,    \* platforms: [sec, pei, inRAM], the PCDs and libraries of a build
          InfoSize,   \* sizeof (ADVANCED_LOGGER_INFO)
          PreSize,    \* LogBufferSize of PcdAdvancedLoggerPreMemPages
          FullSize,   \* LogBufferSize of PcdAdvancedLoggerPages
          EntrySizes, \* sizes of the entries written
          MaxCalls,   \* bound: calls of AdvancedLoggerWrite
          NULL

\* A platform that has memory at PEI entry (PcdAdvancedLoggerPeiInRAM) does
\* not log to cache-as-RAM in SEC, and neither SEC nor PEI logs without PEI core.
ASSUME ConfigsAssumption ==
  /\ Configs \subseteq [sec : BOOLEAN, pei : BOOLEAN, inRAM : BOOLEAN]
  /\ \A c \in Configs : (c.sec \/ c.inRAM => c.pei) /\ ~(c.sec /\ c.inRAM)
  /\ {InfoSize, PreSize, FullSize} \cup EntrySizes \subseteq Nat \ {0}
  /\ PreSize <= FullSize

Blocks == {"sec", "pre", "full", "dxe"}
Users  == {"DxeCore", "SmmCore", "MmCore", "Runtime"}

VARIABLES phase,    \* how far the boot is
          pcd,      \* the platform
          block,    \* [Blocks -> the block, or NULL while it is not allocated]
          LogPtr,   \* the SEC pointer at PcdAdvancedLoggerBase
          blob,     \* PeiCoreInstance->PlatformBlob
          hob,      \* LogBuffer of gAdvancedLoggerHobGuid's HOB
          user,     \* [Users -> what the library instance has captured]
          protocol, \* LoggerInfo of the installed gAdvancedLoggerProtocol
          mBS,      \* Runtime: boot services pointer is set
          locator,  \* the AdvLoggerLocator variable
          armed,    \* notifications DXE core and Runtime still wait for
          calls,    \* calls of AdvancedLoggerWrite so far
          logged,   \* history: the messages put into the log, in order
          lost,     \* history: bytes counted as discarded
          failed,   \* history: the calls that failed
          fault     \* history: what went wrong for good

pei  == <<LogPtr, blob, hob>>
dxe  == <<protocol, mBS, locator, armed>>
hist == <<calls, logged, lost>>
vars == <<phase, pcd, block, pei, user, dxe, hist, failed, fault>>

\* A fresh ADVANCED_LOGGER_INFO over a buffer of `size' bytes.
NewInfo(size, ram) ==
  [LogCurrent |-> InfoSize, LogBufferSize |-> size, DiscardedSize |-> 0,
   InPermanentRAM |-> ram, Text |-> << >>, live |-> TRUE]

Nobody == [mLoggerInfo |-> NULL, mMaxAddress |-> 0, mBufferSize |-> 0, mInitialized |-> FALSE]

Init ==
  /\ pcd \in Configs
  /\ phase = IF pcd.sec THEN "reset" ELSE IF pcd.pei THEN "pei" ELSE "memory"
  /\ block = [b \in Blocks |-> NULL]
  /\ LogPtr = NULL /\ blob = NULL /\ hob = NULL
  /\ user = [u \in Users |-> Nobody]
  /\ protocol = NULL /\ mBS = FALSE /\ locator = "unset" /\ armed = {}
  /\ calls = 0 /\ logged = << >> /\ lost = 0
  /\ failed = {} /\ fault = "none"

Running == fault = "none"

(***************************************************************************)
(* AdvancedLoggerMemoryLoggerWrite of one message into block b of `memory' *)
(***************************************************************************)
Used(i) == i.LogCurrent - InfoSize

Fits(i, size) == Used(i) < i.LogBufferSize /\ i.LogBufferSize - Used(i) >= size

Written(i, size, m) ==
  IF Fits(i, size)
    THEN [i EXCEPT !.LogCurrent = @ + size, !.Text = Append(@, m)]
    ELSE [i EXCEPT !.DiscardedSize = @ + size]

\* The call with LoggerInfo = b; without a block nothing is logged.
Write(memory, b) ==
  /\ calls < MaxCalls
  /\ calls' = calls + 1
  /\ \E size \in EntrySizes :
       IF b = NULL \/ ~memory[b].live
         THEN /\ block' = memory
              /\ fault' = IF b = NULL THEN fault ELSE "deadBlock"
              /\ UNCHANGED <<logged, lost>>
         ELSE /\ block' = [memory EXCEPT ![b] = Written(@, size, calls')]
              /\ logged' = IF Fits(memory[b], size) THEN Append(logged, calls') ELSE logged
              /\ lost' = IF Fits(memory[b], size) THEN lost ELSE lost + size
              /\ UNCHANGED fault

(***************************************************************************)
(* SEC                                                                     *)
(***************************************************************************)
\* InitializeDebugAgent at DEBUG_AGENT_INIT_PREMEM_SEC.
SecPreMem(ok) ==
  /\ Running /\ phase = "reset" /\ phase' = "pei"
  /\ IF ok THEN block' = [block EXCEPT !["sec"] = NewInfo(PreSize, FALSE)]
           ELSE UNCHANGED block
  /\ LogPtr' = IF ok THEN "sec" ELSE NULL
  /\ failed' = IF ok THEN failed ELSE failed \cup {"AllocateRamForSEC"}
  /\ UNCHANGED <<pcd, blob, hob, user, dxe, hist, fault>>

\* A DEBUG of SEC, of a 64-bit PEIM, or of PEI core without its services
\* table: through the SEC pointer.
SecWrite ==
  /\ Running /\ pcd.sec /\ phase \in {"pei", "postmem", "memory"}
  /\ Write(block, LogPtr)
  /\ UNCHANGED <<phase, pcd, pei, user, dxe, failed>>

(***************************************************************************)
(* PEI                                                                     *)
(***************************************************************************)
\* The move of block b into the full buffer: the info structure and the used
\* part of the log are copied, and the new size, position and place set.
\* Mutations of Migrated: the count starts again; the block is not marked as
\* being in permanent memory.
MigratedAfresh(b) ==
  [NewInfo(FullSize, TRUE) EXCEPT !.LogCurrent = InfoSize + Used(block[b]),
                                  !.Text = block[b].Text]
MigratedAsTemporary(b) ==
  [NewInfo(FullSize, FALSE) EXCEPT !.LogCurrent = InfoSize + Used(block[b]),
                                   !.Text = block[b].Text,
                                   !.DiscardedSize = block[b].DiscardedSize]
Migrated(b) ==
  [NewInfo(FullSize, TRUE) EXCEPT !.LogCurrent = InfoSize + Used(block[b]),
                                  !.Text = block[b].Text,
                                  !.DiscardedSize = block[b].DiscardedSize]

\* The block AdvancedLoggerGetLoggerInfo makes when SEC left none.
PeiBlock == IF pcd.inRAM THEN "full" ELSE "pre"
PeiMemory == [block EXCEPT ![PeiBlock] = NewInfo(IF pcd.inRAM THEN FullSize ELSE PreSize, pcd.inRAM)]

\* A DEBUG in PEI: AdvancedLoggerGetLoggerInfo of PeiCore, then the write.
PeiWrite ==
  /\ Running /\ pcd.pei /\ phase \in {"pei", "postmem", "memory"}
  /\ blob # NULL
  /\ Write(block, blob)
  /\ UNCHANGED <<phase, pcd, pei, user, dxe, failed>>

\* The first one, which publishes the HOB and registers for memory discovery.
PeiFirstWrite ==
  /\ Running /\ pcd.pei /\ phase = "pei" /\ blob = NULL
  /\ LET b == IF LogPtr # NULL THEN LogPtr ELSE PeiBlock
     IN  /\ Write(IF LogPtr # NULL THEN block ELSE PeiMemory, b)
         /\ blob' = b /\ hob' = b
  /\ UNCHANGED <<phase, pcd, LogPtr, user, dxe, failed>>

\* The same when the HOB or the pages cannot be had: the error DEBUG calls
\* AdvancedLoggerGetLoggerInfo again, with PlatformBlob still zero, and so on.
PeiFirstWriteFails ==
  /\ Running /\ pcd.pei /\ phase = "pei" /\ blob = NULL
  /\ \E call \in {"PeiServicesCreateHob"} \cup (IF LogPtr = NULL THEN {"AllocatePages"} ELSE {}) :
       failed' = failed \cup {call}
  /\ fault' = "recursion"
  /\ UNCHANGED <<phase, pcd, block, pei, user, dxe, hist>>

\* The SEC pointer after the move.
SecPointerKept(new) == LogPtr
SecPointer(new) == new

\* InitializeDebugAgent at DEBUG_AGENT_INIT_POSTMEM_SEC, after which PEI core
\* has SEC end the temporary RAM.  PEI core has written by then.
SecPostMem(ok) ==
  /\ Running /\ pcd.sec /\ phase = "pei" /\ hob # NULL
  /\ phase' = "postmem"
  /\ block' = [b \in Blocks |->
       IF b = "full" /\ ok THEN Migrated(hob)
       ELSE IF b \in {"sec", "pre"} /\ block[b] # NULL THEN [block[b] EXCEPT !.live = FALSE]
       ELSE block[b]]
  /\ IF ok THEN hob' = "full" /\ blob' = "full" /\ LogPtr' = SecPointer("full")
           ELSE UNCHANGED pei
  /\ failed' = IF ok THEN failed ELSE failed \cup {"AllocatePages"}
  /\ UNCHANGED <<pcd, user, dxe, hist, fault>>

\* Memory is discovered: InstallPermanentMemoryBuffer, which a build with
\* memory at PEI entry does not register.
InstallPermanentMemoryBuffer(ok) ==
  /\ Running /\ pcd.pei /\ hob # NULL
  /\ phase = IF pcd.sec THEN "postmem" ELSE "pei"
  /\ phase' = "memory"
  /\ CASE ~pcd.inRAM /\ ~block[hob].live -> fault' = "deadBlock" /\ UNCHANGED <<block, pei, failed>>
       [] pcd.inRAM \/ (block[hob].live /\ block[hob].InPermanentRAM) -> UNCHANGED <<block, pei, failed, fault>>
       [] OTHER ->
            /\ IF ok THEN /\ block' = [block EXCEPT !["full"] = Migrated(hob), ![hob].live = FALSE]
                          /\ hob' = "full" /\ blob' = "full"
                     ELSE UNCHANGED <<block, hob, blob>>
            /\ failed' = IF ok THEN failed ELSE failed \cup {"AllocatePages"}
            /\ UNCHANGED <<LogPtr, fault>>
  /\ UNCHANGED <<pcd, user, dxe, hist>>

(***************************************************************************)
(* The instances that capture the block and check it on every call         *)
(***************************************************************************)
MaxAddressShort(i) == i.LogBufferSize
MaxAddress(i) == InfoSize + i.LogBufferSize

Capture(u, b) ==
  [u EXCEPT !.mInitialized = TRUE, !.mLoggerInfo = b,
            !.mMaxAddress = IF b = NULL THEN @ ELSE MaxAddress(block[b])]

\* mBufferSize is taken from the block by the first check.
ValidateInfoBlock(u, i) ==
  /\ InfoSize <= i.LogCurrent /\ i.LogCurrent <= u.mMaxAddress
  /\ u.mBufferSize \in {0, i.LogBufferSize}

Checked(u) ==
  IF u.mLoggerInfo # NULL /\ ValidateInfoBlock(u, block[u.mLoggerInfo])
    THEN [u EXCEPT !.mBufferSize = block[u.mLoggerInfo].LogBufferSize]
    ELSE [u EXCEPT !.mLoggerInfo = NULL]

\* AdvancedLoggerGetLoggerInfo of each instance.
GetLoggerInfo(n) ==
  LET u == user[n]
  IN  Checked(CASE n = "Runtime" -> IF u.mLoggerInfo = NULL /\ mBS THEN Capture(u, protocol) ELSE u
                [] n = "SmmCore" -> IF u.mInitialized THEN u ELSE Capture(u, protocol)
                [] OTHER         -> IF u.mInitialized THEN u ELSE Capture(u, hob))

\* The phases in which the instance runs.
Runs(n) == CASE n = "DxeCore" -> phase \in {"memory", "dxe"}
             [] n = "MmCore"  -> phase \in {"memory", "dxe", "os"} /\ hob # NULL
             [] n = "SmmCore" -> phase = "dxe" \/ (phase = "os" /\ user[n].mInitialized)
             [] OTHER         -> phase = "dxe" /\ mBS

\* A DEBUG through the instance: AdvancedLoggerWrite, reached through the
\* protocol by DXE and SMM drivers.
UserWrite(n) ==
  /\ Running /\ Runs(n)
  /\ user' = [user EXCEPT ![n] = GetLoggerInfo(n)]
  /\ Write(block, user'[n].mLoggerInfo)
  /\ UNCHANGED <<phase, pcd, pei, dxe, failed>>

\* DxeCoreAdvancedLoggerLibConstructor.  A block it allocates has its end
\* computed from the start of the info structure.
DxeCoreConstructor(ok) ==
  /\ Running /\ phase = "memory" /\ phase' = "dxe"
  /\ LET u == GetLoggerInfo("DxeCore")
     IN  IF u.mLoggerInfo # NULL
           THEN /\ user' = [user EXCEPT !["DxeCore"] = u]
                /\ protocol' = u.mLoggerInfo
                /\ UNCHANGED <<block, failed>>
           ELSE /\ block' = IF ok THEN [block EXCEPT !["dxe"] = NewInfo(FullSize, FALSE)] ELSE block
                /\ user' = [user EXCEPT !["DxeCore"] =
                     IF ok THEN [mInitialized |-> TRUE, mLoggerInfo |-> "dxe",
                                 mMaxAddress |-> FullSize, mBufferSize |-> FullSize]
                           ELSE u]
                /\ protocol' = IF ok THEN "dxe" ELSE NULL
                /\ failed' = IF ok THEN failed ELSE failed \cup {"AllocateReservedPages"}
  /\ armed' = {"RealTimeClock", "VariableWrite"}
  /\ UNCHANGED <<pcd, pei, mBS, locator, hist, fault>>

\* OnRealTimeClockArchNotification stores the time through mLoggerInfo.
OnRealTimeClockArchNotification ==
  /\ Running /\ phase = "dxe" /\ "RealTimeClock" \in armed
  /\ armed' = armed \ {"RealTimeClock"}
  /\ fault' = IF user["DxeCore"].mLoggerInfo = NULL THEN "nullStore" ELSE fault
  /\ UNCHANGED <<phase, pcd, block, pei, user, protocol, mBS, locator, hist, failed>>

\* The value is mLoggerInfo itself (&mLoggerInfo is passed), not the bytes it
\* points to, which name no block.
LocatorBytes == NULL
LocatorValue == user["DxeCore"].mLoggerInfo

\* OnVariableWriteNotification: the value is the pointer of that moment.
\* Its lock-on-create policy keeps everyone else from writing it afterwards.
OnVariableWriteNotification ==
  /\ Running /\ phase = "dxe" /\ "VariableWrite" \in armed
  /\ armed' = armed \ {"VariableWrite"}
  /\ locator' = LocatorValue
  /\ UNCHANGED <<phase, pcd, block, pei, user, protocol, mBS, hist, failed, fault>>

\* SmmCoreAdvancedLoggerLibConstructor, MmAdvancedLoggerLibConstructor.
Construct(n) ==
  /\ Running /\ Runs(n) /\ n \in {"SmmCore", "MmCore"}
  /\ user' = [user EXCEPT ![n] = GetLoggerInfo(n)]
  /\ UNCHANGED <<phase, pcd, block, pei, dxe, hist, failed, fault>>

\* DxeRuntimeAdvancedLoggerLibConstructor: the event is created only when
\* there is a block.
RuntimeConstructor(ok) ==
  /\ Running /\ phase = "dxe" /\ ~mBS
  /\ mBS' = TRUE
  /\ LET u == Checked(Capture(user["Runtime"], protocol))
     IN  /\ user' = [user EXCEPT !["Runtime"] = u]
         /\ armed' = IF u.mLoggerInfo # NULL /\ ok THEN armed \cup {"ExitBootServices"} ELSE armed
         /\ failed' = IF u.mLoggerInfo # NULL /\ ~ok THEN failed \cup {"CreateEvent"} ELSE failed
  /\ UNCHANGED <<phase, pcd, block, pei, protocol, locator, hist, fault>>

\* OnExitBootServicesNotification of Runtime.
Forgotten == [user EXCEPT !["Runtime"].mLoggerInfo = NULL]

ExitBootServices ==
  /\ Running /\ phase = "dxe" /\ phase' = "os"
  /\ IF "ExitBootServices" \in armed
       THEN user' = Forgotten /\ mBS' = FALSE
       ELSE UNCHANGED <<user, mBS>>
  /\ armed' = {}
  /\ UNCHANGED <<pcd, block, pei, protocol, locator, hist, failed, fault>>

\* A DEBUG of a runtime driver under the OS: a block, or boot services, that
\* the library still has are used although they are gone.
RuntimeWriteInOS ==
  /\ Running /\ phase = "os" /\ calls < MaxCalls
  /\ calls' = calls + 1
  /\ fault' = IF user["Runtime"].mLoggerInfo # NULL THEN "runtimeLog"
              ELSE IF mBS THEN "bootServices" ELSE fault
  /\ UNCHANGED <<phase, pcd, block, pei, user, dxe, logged, lost, failed>>

Next ==
  \/ SecWrite \/ PeiWrite \/ PeiFirstWrite \/ PeiFirstWriteFails
  \/ \E ok \in BOOLEAN : \/ SecPreMem(ok) \/ SecPostMem(ok)
                         \/ InstallPermanentMemoryBuffer(ok)
                         \/ DxeCoreConstructor(ok) \/ RuntimeConstructor(ok)
  \/ \E n \in Users : UserWrite(n) \/ Construct(n)
  \/ OnRealTimeClockArchNotification \/ OnVariableWriteNotification
  \/ ExitBootServices \/ RuntimeWriteInOS

Spec == Init /\ [][Next]_vars

-----------------------------------------------------------------------------
\* Every pointer by which anyone writes.
Writable == ({LogPtr, blob, hob, protocol} \cup {user[n].mLoggerInfo : n \in Users}) \ {NULL}

\* One log: whatever moves (the POSTMEM copy of SEC, PEI's
\* InstallPermanentMemoryBuffer) and whoever captured the block when, all who
\* can write write to the same block.
OneLog == Cardinality(Writable) <= 1

\* The block in use holds every message ever put into the log, in order, and
\* its DiscardedSize is every byte that did not fit, in all phases since the
\* first one with a block: no hand-off loses or forgets anything.
LogSurvives ==
  \A b \in Writable : block[b].live => block[b].Text = logged /\ block[b].DiscardedSize = lost

\* Who wrongs a log that PEI started was refused something: as long as no
\* allocation and no event creation fails, no DEBUG call recurses without end,
\* writes to freed memory or through a null pointer, and none touches the log
\* or the boot services after ExitBootServices.
FaultNeedsFailure == pcd.pei /\ fault # "none" => failed # {}

\* ValidateInfoBlock ("we check that the pointers are within the allocated
\* LoggerInfo space") never rejects a block whose LogCurrent is inside its
\* buffer, which would end that instance's logging.
SoundInfoIsAccepted ==
  \A n \in Users : LET u == user[n] IN
    u.mLoggerInfo # NULL /\ block[u.mLoggerInfo].live =>
      (Used(block[u.mLoggerInfo]) \in 0 .. block[u.mLoggerInfo].LogBufferSize
        <=> ValidateInfoBlock(u, block[u.mLoggerInfo]))

\* The same for a block that PEI hands over to DXE.
PeiInfoIsAccepted == pcd.pei => SoundInfoIsAccepted

\* The locator variable, once written, names the log PEI started for the rest of
\* the boot, the OS phase included.
LocatorNamesTheLog ==
  pcd.pei /\ locator # "unset" /\ failed = {} => locator = protocol /\ block[locator].live

\* A log that PEI started stays in good hands to the end: no accident without a
\* failed call, no sound block rejected by ValidateInfoBlock, and the locator
\* variable names the live block.
PeiLogIsSound == FaultNeedsFailure /\ PeiInfoIsAccepted /\ LocatorNamesTheLog
=============================================================================
