----------------------------- MODULE FileLogger -----------------------------
(***************************************************************************)
(* AdvancedFileLogger.c and FileAccess.c: a driver that copies the log to  *)
(* files on every suitable file system, one of LogFiles files per boot in  *)
(* rotation.  The media outlive a boot, everything else does not.          *)
(*                                                                         *)
(* A callback is a frame on a stack at the task priority level it runs at. *)
(* A step is one file operation or one line.  A message is one line, and   *)
(* is its length; a byte in a file is the boot and the number of the line  *)
(* it belongs to, line 0 being the END_OF_LOG marker.                      *)
(***************************************************************************)
EXTENDS MessageLog, Integers, SequencesExt, FiniteSetsExt

CONSTANTS Handles,              \* file systems
          LogFiles,             \* DEBUG_LOG_FILE_COUNT - 1: 9 in the code
          DEBUG_LOG_FILE_SIZE,  \* bytes of a log file
          MarkerSize,           \* bytes of the END_OF_LOG message
          ResetTpls,            \* levels at which a reset is asked for
          MaxBoots,             \* bound: boots
          MaxFaults,            \* bound: file operations that fail
          NULL                  \* a file that does not exist

ASSUME FileAssumption ==
  /\ LogFiles \in Nat \ {0} /\ DEBUG_LOG_FILE_SIZE \in Nat \ {0} /\ MarkerSize \in Nat
  /\ ResetTpls \subseteq Nat /\ MaxBoots \in Nat /\ MaxFaults \in Nat
  /\ Texts \subseteq Nat \ {0}

TPL_APPLICATION == 4
TPL_CALLBACK    == 8

VARIABLES boot,       \* the number of the boot; the system is up
          up,
          media,      \* [Handles -> [0 .. LogFiles -> contents]], file 0 the index
          pending,    \* handles LocateHandleBuffer (ByRegisterNotify) has not returned
          present,    \* handles that have appeared in this boot
          signalled,  \* the event of OnFileSystemNotification is signalled
          mLoggingDeviceHead,  \* the LOG_DEVICEs, as a sequence of handles
          device,     \* [Handles -> LOG_DEVICE]
          mWritingSemaphore,
          frames,     \* the callbacks in progress
          faults,
          used,       \* history: [Handles -> files chosen by successive boots]
          indexFault  \* history: the index file was not read or not written

logger  == <<pending, present, signalled, mLoggingDeviceHead, device, mWritingSemaphore, frames>>
history == <<used, indexFault>>
vars    == <<logvars, boot, up, media, logger, faults, history>>

\* The size a file must have, and what InitializeLogIndexFile and
\* InitializeLogFile make of it.
ExpectedSize(i) == IF i = 0 THEN 1 ELSE DEBUG_LOG_FILE_SIZE
Blank  == [boot |-> 0, line |-> 0]
Marker == [boot |-> boot, line |-> 0]
Fresh(i) == IF i = 0 THEN <<0>>
            ELSE [n \in 1 .. DEBUG_LOG_FILE_SIZE |-> IF n <= MarkerSize THEN Marker ELSE Blank]

\* A LOG_DEVICE as RegisterLogDevice makes it, its access entry included.
NewDevice == [FileIndex |-> 0, CurrentOffset |-> 0, Valid |-> TRUE, block |-> 0]

Frame(who, tpl, pc) ==
  [who |-> who, tpl |-> tpl, pc |-> pc, handle |-> NULL, file |-> 0, link |-> 0,
   position |-> 0, RoomLeft |-> 0, since |-> 0]

\* AdvancedFileLoggerEntry calls OnFileSystemNotification itself, for the file
\* systems that are there already.
EntryFrame == Frame("arrival", TPL_APPLICATION, "locate")

Init ==
  /\ LogInit
  /\ boot = 1 /\ up = TRUE
  /\ media = [h \in Handles |-> [i \in 0 .. LogFiles |-> NULL]]
  /\ pending \in SUBSET Handles /\ present = pending /\ signalled = FALSE
  /\ mLoggingDeviceHead = << >> /\ device = [h \in Handles |-> NewDevice]
  /\ mWritingSemaphore = 0
  /\ frames = <<EntryFrame>>
  /\ faults = 0
  /\ used = [h \in Handles |-> << >>] /\ indexFault = FALSE

Top == frames[Len(frames)]

Running(pc) == up /\ frames # << >> /\ Top.pc = pc

\* The frame on top goes on as frame.
Continue(frame) == frames' = [frames EXCEPT ![Len(frames)] = frame]

\* A file operation may fail.
Fails(failed) ==
  /\ failed \in BOOLEAN
  /\ faults' = IF failed THEN faults + 1 ELSE faults
  /\ faults' <= MaxFaults

-----------------------------------------------------------------------------
(* OnFileSystemNotification and RegisterLogDevice                          *)

\* LocateHandleBuffer has a handle: RegisterLogDevice starts on it.
LocateHandle ==
  /\ Running("locate")
  /\ \E h \in pending :
       /\ pending' = pending \ {h}
       /\ Continue([Top EXCEPT !.pc = "enable", !.handle = h, !.file = 0])
  /\ UNCHANGED <<logvars, boot, up, media, present, signalled, mLoggingDeviceHead, device,
                 mWritingSemaphore, faults, history>>

\* There is none left: the callback goes on with WriteLogFiles.
NoMoreHandles ==
  /\ Running("locate") /\ pending = {}
  /\ Continue([Top EXCEPT !.pc = "acquire"])
  /\ UNCHANGED <<logvars, boot, up, media, pending, present, signalled, mLoggingDeviceHead,
                 device, mWritingSemaphore, faults, history>>

\* Mutation of ValidateLogFile: a file that exists is good.
ValidateExistence(h, i) == media[h][i] # NULL

\* The file exists and has its size.
ValidateLogFile(h, i) == media[h][i] # NULL /\ Len(media[h][i]) = ExpectedSize(i)

\* The loop of EnableLoggingOnThisDevice goes on behind the file; after the
\* last one the device joins the list.
NextFile(frame) ==
  IF frame.file < LogFiles
  THEN /\ Continue([frame EXCEPT !.pc = "enable", !.file = @ + 1])
       /\ UNCHANGED mLoggingDeviceHead
  ELSE /\ Continue([frame EXCEPT !.pc = "locate"])
       /\ mLoggingDeviceHead' = Append(mLoggingDeviceHead, frame.handle)

\* EnableLoggingOnThisDevice looks at a file; one of the wrong size is deleted,
\* and a missing one created.  An error gives the device up.
EnableFile(failed) ==
  /\ Running("enable")
  /\ Fails(failed)
  /\ LET h == Top.handle IN
     IF failed
     THEN Continue([Top EXCEPT !.pc = "locate"]) /\ UNCHANGED <<media, mLoggingDeviceHead>>
     ELSE IF ValidateLogFile(h, Top.file)
     THEN NextFile(Top) /\ UNCHANGED media
     ELSE /\ media' = [media EXCEPT ![h][Top.file] = << >>]
          /\ Continue([Top EXCEPT !.pc = "initialize"])
          /\ UNCHANGED mLoggingDeviceHead
  /\ UNCHANGED <<logvars, boot, up, pending, present, signalled, device, mWritingSemaphore, history>>

\* InitializeLogIndexFile or InitializeLogFile.
InitializeFile(failed) ==
  /\ Running("initialize")
  /\ Fails(failed)
  /\ IF failed
     THEN Continue([Top EXCEPT !.pc = "locate"]) /\ UNCHANGED <<media, mLoggingDeviceHead>>
     ELSE /\ media' = [media EXCEPT ![Top.handle][Top.file] = Fresh(Top.file)]
          /\ NextFile(Top)
  /\ UNCHANGED <<logvars, boot, up, pending, present, signalled, device, mWritingSemaphore, history>>

-----------------------------------------------------------------------------
(* WriteLogFiles and WriteALogFile                                         *)

\* The callback returns.  After the last one of a boot the system is down.
Return ==
  IF Top.who = "last" THEN up' = FALSE /\ frames' = << >>
  ELSE frames' = Front(frames) /\ UNCHANGED up

Blocked == mWritingSemaphore # 0

\* The compare-and-exchange on mWritingSemaphore: a call inside another one
\* returns at once.
AcquireSemaphore ==
  /\ Running("acquire")
  /\ IF Blocked
     THEN Return /\ UNCHANGED mWritingSemaphore
     ELSE /\ mWritingSemaphore' = 1
          /\ Continue([Top EXCEPT !.pc = "volume", !.link = 1, !.since = Len(log)])
          /\ UNCHANGED up
  /\ UNCHANGED <<logvars, boot, media, pending, present, signalled, mLoggingDeviceHead, device,
                 faults, history>>

\* All devices are done.
ReleaseSemaphore ==
  /\ Running("volume") /\ Top.link > Len(mLoggingDeviceHead)
  /\ mWritingSemaphore' = 0
  /\ Return
  /\ UNCHANGED <<logvars, boot, media, pending, present, signalled, mLoggingDeviceHead, device,
                 faults, history>>

Link == mLoggingDeviceHead[Top.link]

NextDevice == Continue([Top EXCEPT !.pc = "volume", !.link = @ + 1])

\* CloseAndExit with an error: the device is not used again.
Disable == device' = [device EXCEPT ![Link].Valid = FALSE] /\ NextDevice

\* Mutation of Seek: the file is written from its start again.
SeekToStart(d) == 0

\* Where in its file the device goes on.
Seek(d) == d.CurrentOffset

\* WriteALogFile up to the seek to CurrentOffset; the first time in a boot
\* DetermineLogFile comes first.
OpenLogFile(failed) ==
  /\ Running("volume") /\ Top.link <= Len(mLoggingDeviceHead)
  /\ LET d == device[Link] IN
     IF ~ d.Valid
     THEN failed = FALSE /\ NextDevice /\ UNCHANGED <<device, faults>>
     ELSE /\ Fails(failed)
          /\ IF failed THEN Disable
             ELSE /\ Continue(IF d.FileIndex = 0 THEN [Top EXCEPT !.pc = "index"]
                              ELSE [Top EXCEPT !.pc = "line", !.position = Seek(d),
                                               !.RoomLeft = DEBUG_LOG_FILE_SIZE - d.CurrentOffset])
                  /\ UNCHANGED device
  /\ UNCHANGED <<logvars, boot, up, media, pending, present, signalled, mLoggingDeviceHead,
                 mWritingSemaphore, history>>

\* Mutation of Rotate: the last file is passed over to the first too early.
RotateShort(index) == IF index < 1 \/ index >= LogFiles - 1 THEN 1 ELSE index + 1

\* The file after the one the last boot used.
Rotate(index) == IF index < 1 \/ index >= LogFiles THEN 1 ELSE index + 1

\* DetermineLogFile: an index that cannot be read counts as 0, and one that
\* cannot be written is used all the same.
DetermineLogFile(readFails, writeFails) ==
  /\ Running("index")
  /\ Fails(readFails \/ writeFails)
  /\ LET h     == Link
         index == Rotate(IF readFails THEN 0 ELSE media[h][0][1])
     IN /\ device' = [device EXCEPT ![h].FileIndex = index]
        /\ media' = IF writeFails THEN media ELSE [media EXCEPT ![h][0] = <<index>>]
        /\ used' = [used EXCEPT ![h] = Append(@, index)]
        /\ indexFault' = (indexFault \/ readFails \/ writeFails)
  /\ Continue([Top EXCEPT !.pc = "volume"])
  /\ UNCHANGED <<logvars, boot, up, pending, present, signalled, mLoggingDeviceHead, mWritingSemaphore>>

\* File->Write of size bytes at position.
Write(contents, position, size, byte) ==
  [n \in DOMAIN contents |-> IF n \in position + 1 .. position + size THEN byte ELSE contents[n]]

WriteTo(h, size, byte) ==
  media' = [media EXCEPT ![h][device[h].FileIndex] = Write(@, Top.position, size, byte)]

\* What is written of a line or of the marker: no more than there is room for.
Fit(size, room) == Min({size, room})

\* GetNextFormattedLine has a line, and it is written.
WriteLine(failed) ==
  /\ Running("line")
  /\ LET h == Link
         d == device[h]
         size == Fit(log[d.block + 1], Top.RoomLeft)
     IN /\ BlockStatus(d.block) = "EFI_SUCCESS"
        /\ failed => size > 0
        /\ Fails(failed)
        /\ IF failed
           THEN /\ device' = [device EXCEPT ![h].Valid = FALSE, ![h].block = @ + 1]
                /\ NextDevice
                /\ UNCHANGED media
           ELSE /\ device' = [device EXCEPT ![h].block = @ + 1, ![h].CurrentOffset = @ + size]
                /\ WriteTo(h, size, [boot |-> boot, line |-> d.block + 1])
                /\ Continue([Top EXCEPT !.position = @ + size, !.RoomLeft = @ - size])
  /\ UNCHANGED <<logvars, boot, up, pending, present, signalled, mLoggingDeviceHead,
                 mWritingSemaphore, history>>

\* The end of the log: WriteEndOfFileMarker, behind the lines and not counted
\* in CurrentOffset.
WriteEndOfFileMarker(failed) ==
  /\ Running("line")
  /\ BlockStatus(device[Link].block) = "EFI_END_OF_FILE"
  /\ failed => Top.RoomLeft > 0
  /\ Fails(failed)
  /\ IF failed THEN Disable /\ UNCHANGED media
     ELSE /\ WriteTo(Link, Fit(MarkerSize, Top.RoomLeft), Marker)
          /\ NextDevice
          /\ UNCHANGED device
  /\ UNCHANGED <<logvars, boot, up, pending, present, signalled, mLoggingDeviceHead,
                 mWritingSemaphore, history>>

\* An entry that is not signed is an error like any other.
LineNotSigned ==
  /\ Running("line")
  /\ BlockStatus(device[Link].block) = "EFI_COMPROMISED_DATA"
  /\ Disable
  /\ UNCHANGED <<logvars, boot, up, media, pending, present, signalled, mLoggingDeviceHead,
                 mWritingSemaphore, faults, history>>

-----------------------------------------------------------------------------
(* Events                                                                  *)

\* What runs at level tpl may come on top of what is running.
Preempts(tpl) == \A i \in DOMAIN frames : frames[i].tpl < tpl

Push(frame) ==
  /\ frames' = Append(frames, frame)
  /\ UNCHANGED <<logvars, boot, media, pending, present, mLoggingDeviceHead, device,
                 mWritingSemaphore, faults, history>>

\* A file system appears.
Arrive(h) ==
  /\ up /\ h \notin present
  /\ present' = present \cup {h}
  /\ pending' = pending \cup {h}
  /\ signalled' = TRUE
  /\ UNCHANGED <<logvars, boot, up, media, mLoggingDeviceHead, device, mWritingSemaphore, frames,
                 faults, history>>

OnFileSystemNotification ==
  /\ up /\ signalled /\ Preempts(TPL_CALLBACK)
  /\ signalled' = FALSE
  /\ Push(Frame("arrival", TPL_CALLBACK, "locate"))
  /\ UNCHANGED up

\* OnWriteLogNotification and OnReadyToBootNotification.
OnWriteLogNotification ==
  /\ up /\ Preempts(TPL_CALLBACK)
  /\ Push(Frame("flush", TPL_CALLBACK, "acquire"))
  /\ UNCHANGED <<up, signalled>>

\* The driver's last callback; the OS takes over soon after it.
OnPreExitBootServicesNotification ==
  /\ up /\ frames = << >>
  /\ Push(Frame("last", TPL_CALLBACK, "acquire"))
  /\ UNCHANGED <<up, signalled>>

\* A reset asked for at level tpl: the log is written unless tpl is too high.
OnResetNotification(tpl) ==
  /\ up /\ Preempts(tpl)
  /\ IF tpl <= TPL_CALLBACK
     THEN Push(Frame("last", tpl, "acquire")) /\ UNCHANGED <<up, signalled>>
     ELSE /\ up' = FALSE
          /\ frames' = << >>
          /\ UNCHANGED <<logvars, boot, media, pending, present, signalled, mLoggingDeviceHead,
                         device, mWritingSemaphore, faults, history>>

PowerFailure ==
  /\ up
  /\ up' = FALSE
  /\ frames' = << >>
  /\ UNCHANGED <<logvars, boot, media, pending, present, signalled, mLoggingDeviceHead, device,
                 mWritingSemaphore, faults, history>>

\* The next boot: a new log, and the media as they are.
Restart ==
  /\ ~ up /\ boot < MaxBoots
  /\ up' = TRUE /\ boot' = boot + 1
  /\ log' = << >> /\ signed' = {}
  /\ pending' \in SUBSET Handles /\ present' = pending' /\ signalled' = FALSE
  /\ mLoggingDeviceHead' = << >> /\ device' = [h \in Handles |-> NewDevice]
  /\ mWritingSemaphore' = 0
  /\ frames' = <<EntryFrame>>
  /\ UNCHANGED <<media, faults, history>>

Log == up /\ LogNext /\ UNCHANGED <<boot, up, media, logger, faults, history>>

Register ==
  \/ LocateHandle \/ NoMoreHandles
  \/ \E failed \in BOOLEAN : EnableFile(failed) \/ InitializeFile(failed)

WriteLogFiles ==
  \/ AcquireSemaphore \/ ReleaseSemaphore \/ LineNotSigned
  \/ \E failed \in BOOLEAN : OpenLogFile(failed) \/ WriteLine(failed) \/ WriteEndOfFileMarker(failed)
  \/ \E readFails, writeFails \in BOOLEAN : DetermineLogFile(readFails, writeFails)

Next ==
  \/ Register \/ WriteLogFiles
  \/ \E h \in Handles : Arrive(h)
  \/ OnFileSystemNotification \/ OnWriteLogNotification \/ OnPreExitBootServicesNotification
  \/ \E tpl \in ResetTpls : OnResetNotification(tpl)
  \/ PowerFailure \/ Restart \/ Log

Spec == Init /\ [][Next]_vars

-----------------------------------------------------------------------------
(* Properties                                                              *)

\* The bytes of the first n lines of this boot's log.
Bytes(n) == FlattenSeq([i \in 1 .. n |-> [j \in 1 .. log[i] |-> [boot |-> boot, line |-> i]]])

\* A device that is still valid has, in the file chosen for this boot, the
\* lines it was given, in order from the start and cut where the file ends,
\* although flushes interrupt each other and start where the last one stopped.
FileHoldsTheLog ==
  \A h \in Handles :
    LET d == device[h] IN
    d.Valid /\ d.FileIndex # 0 =>
      /\ d.CurrentOffset = Min({Len(Bytes(d.block)), DEBUG_LOG_FILE_SIZE})
      /\ SubSeq(media[h][d.FileIndex], 1, d.CurrentOffset) = SubSeq(Bytes(d.block), 1, d.CurrentOffset)

\* A device in the list has all its files, with their sizes, although a file
\* operation or the power may have failed while they were created, in this
\* boot or in an earlier one.
ListedIsComplete ==
  \A i \in DOMAIN mLoggingDeviceHead : \A n \in 0 .. LogFiles :
    media[mLoggingDeviceHead[i]][n] # NULL /\ Len(media[mLoggingDeviceHead[i]][n]) = ExpectedSize(n)

\* A boot takes the file used longest ago: as long as the index could be read
\* and written, LogFiles boots in a row use different files, and the logs of
\* the boots before are kept.
OldLogsAreKept ==
  ~ indexFault =>
    \A h \in Handles : \A i, j \in DOMAIN used[h] :
      i < j /\ j < i + LogFiles => used[h][i] # used[h][j]

\* A flush that is not turned away leaves every device that is still valid with
\* all that was logged when it began, and with the marker behind it.
FlushIsComplete ==
  [][mWritingSemaphore = 1 /\ mWritingSemaphore' = 0 /\ up =>
       \A i \in DOMAIN mLoggingDeviceHead :
         LET h == mLoggingDeviceHead[i]
             d == device[h]
         IN d.Valid /\ boot' = boot =>
              /\ d.block >= Top.since
              /\ d.CurrentOffset < DEBUG_LOG_FILE_SIZE /\ MarkerSize > 0 =>
                   media[h][d.FileIndex][d.CurrentOffset + 1] = Marker]_vars
=============================================================================
