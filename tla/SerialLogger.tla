---------------------------- MODULE SerialLogger ----------------------------
(***************************************************************************)
(* AdvancedSerialLoggerDxe.c: a driver that copies the lines of the log to *)
(* the serial port, a limited number of them from every tick of a timer,   *)
(* and the rest at ExitBootServices or at a reset.  All its callbacks work *)
(* on one access entry, mAccessEntry.                                      *)
(*                                                                         *)
(* A callback is a frame on a stack, at the task priority level it runs    *)
(* at; the frame on top runs, and a callback of a higher level may come on *)
(* top of it between any two of its steps.  A step is a call of            *)
(* GetNextFormattedLine (LineReader shows that it acts as one step for one *)
(* reader) or of SerialPortWrite, which is slow; a tick that comes in the  *)
(* middle of GetNextFormattedLine is not modelled.                         *)
(***************************************************************************)
EXTENDS FormattedLines

CONSTANTS LoudTexts,                   \* messages of a level the port prints
          ADV_LOG_MESSAGES_PER_EVENT,  \* lines a tick may write
          ResetTpls                    \* levels at which a reset is asked for

ASSUME SerialAssumption ==
  /\ LoudTexts \subseteq Texts
  /\ ADV_LOG_MESSAGES_PER_EVENT \in Nat
  /\ ResetTpls \subseteq Nat

TPL_APPLICATION == 4
TPL_CALLBACK    == 8

\* No log has this many lines.
MAX_UINTN == 1000

VARIABLES phase,     \* "entry", "boot", "reset", "exit", "off"
          events,    \* what is registered: "timer", "exit", "reset", "protocol"
          frames,    \* the calls of WriteToSerialPort in progress
          block,     \* mAccessEntry: the entry fetched last,
          residual,  \*   what is left of it,
          current,   \*   and the line in its buffer
          fetched,   \* history: the lines fetched
          out,       \* history: the lines written to the port
          overruns,  \* history: calls that stopped at their line limit
          preempted  \* history: the lines a call had in hand when a tick came on top

access  == <<block, residual, current>>
history == <<fetched, out, overruns, preempted>>
vars    == <<logvars, phase, events, frames, access, history>>

\* A call of WriteToSerialPort (max) at level tpl.
Frame(who, tpl, max) == [who |-> who, tpl |-> tpl, max |-> max, LineCount |-> 0, pc |-> "get"]

\* whole: the buffer still holds the characters of the line.
NoLine == [no |-> 0, loud |-> FALSE, whole |-> TRUE]

\* AdvancedSerialLoggerEntry begins with the first group of messages.
Init ==
  /\ LogInit
  /\ phase = "entry" /\ events = {}
  /\ frames = <<Frame("entry", TPL_APPLICATION, ADV_LOG_MESSAGES_PER_EVENT)>>
  /\ block = 0 /\ residual = << >> /\ current = NoLine
  /\ fetched = << >> /\ out = << >> /\ overruns = 0 /\ preempted = {}

Top == frames[Len(frames)]

\* What runs at level tpl may come on top of what is running.
Preempts(tpl) == \A i \in DOMAIN frames : frames[i].tpl < tpl

Push(frame) == frames' = Append(frames, frame)

\* The line a call has in hand and will write.
InHand == IF \E i \in DOMAIN frames : frames[i].pc = "write" THEN {current.no} ELSE {}

-----------------------------------------------------------------------------
(* WriteToSerialPort                                                       *)

\* Mutation of GoOn: only a bad entry ends the loop.
GoOnAtEnd(frame, status) == status # "EFI_COMPROMISED_DATA" /\ frame.LineCount < frame.max

\* The test of the loop.
GoOn(frame, status) == status = "EFI_SUCCESS" /\ frame.LineCount < frame.max

\* The call returns.  With its last notification the system resets or the OS
\* takes over, whatever else was running.
Return ==
  IF Top.who \in {"reset", "exit"}
  THEN phase' = "off" /\ frames' = << >>
  ELSE frames' = Front(frames) /\ UNCHANGED phase

\* GetNextFormattedLine, and the test of the loop: the line is in mAccessEntry,
\* and the call goes on to write it or returns.  A fetch that fails after it has
\* pulled characters has put them over the line in the buffer, and leaves the
\* length and the level of that line.
GetLine ==
  /\ frames # << >> /\ Top.pc = "get"
  /\ \E f \in {FormattedLine(block, residual)} :
       LET ok   == f.status = "EFI_SUCCESS"
           over == residual # << >> \/ f.block # block IN
       /\ block' = f.block
       /\ residual' = f.residual
       /\ IF ok
          THEN /\ current' = [no |-> Len(fetched) + 1, loud |-> log[f.block] \in LoudTexts,
                              whole |-> TRUE]
               /\ fetched' = Append(fetched, current')
          ELSE current' = [current EXCEPT !.whole = @ /\ ~ over] /\ UNCHANGED fetched
       /\ IF GoOn(Top, f.status)
          THEN frames' = [frames EXCEPT ![Len(frames)].pc = "write"] /\ UNCHANGED phase
          ELSE Return
       /\ overruns' = IF ok /\ ~ GoOn(Top, f.status) THEN overruns + 1 ELSE overruns
  /\ UNCHANGED <<logvars, events, out, preempted>>

\* Mutation of Selected: the test of the level is inverted.
SelectedInverted(line) == ~ line.loud

\* The level of the line is among those of
\* PcdAdvancedLoggerHdwPortDebugPrintErrorLevel.
Selected(line) == line.loud

\* SerialPortWrite of the line in mAccessEntry, if its level is selected.
WriteLine ==
  /\ frames # << >> /\ Top.pc = "write"
  /\ out' = IF Selected(current) THEN Append(out, current) ELSE out
  /\ frames' = [frames EXCEPT ![Len(frames)].pc = "get", ![Len(frames)].LineCount = @ + 1]
  /\ UNCHANGED <<logvars, phase, events, access, fetched, overruns, preempted>>

-----------------------------------------------------------------------------
(* The driver                                                              *)

\* The rest of AdvancedSerialLoggerEntry: the timer, the ExitBootServices event
\* and the reset notification, or a callback for the day its protocol is
\* installed.  If one of them fails, all are undone.
Register ==
  /\ phase = "entry" /\ frames = << >>
  /\ events' \in {{"timer", "exit", "reset"}, {"timer", "exit", "protocol"}, {}}
  /\ phase' = "boot"
  /\ UNCHANGED <<logvars, frames, access, history>>

\* The reset notification protocol appears; the registration may still fail.
OnResetNotificationProtocolInstalled ==
  /\ phase = "boot" /\ "protocol" \in events
  /\ Preempts(TPL_CALLBACK)
  /\ events' \in {{"timer", "exit", "reset"}, {"timer", "exit"}}
  /\ UNCHANGED <<logvars, phase, frames, access, history>>

\* A tick: the callback may come on top of what runs below TPL_CALLBACK.
OnWriteSerialTimerCallback ==
  /\ phase \in {"boot", "reset"} /\ "timer" \in events
  /\ Preempts(TPL_CALLBACK)
  /\ Push(Frame("timer", TPL_CALLBACK, ADV_LOG_MESSAGES_PER_EVENT))
  /\ preempted' = preempted \cup InHand
  /\ UNCHANGED <<logvars, phase, events, access, fetched, out, overruns>>

\* Mutation of LastLines: the last call has the limit of a tick.
LastLinesOfTick == ADV_LOG_MESSAGES_PER_EVENT

\* The lines the last call may write.
LastLines == MAX_UINTN

\* Code at level tpl asks for a reset, and the reset notification runs.
OnResetNotification(tpl) ==
  /\ phase = "boot" /\ "reset" \in events
  /\ Preempts(tpl)
  /\ phase' = "reset"
  /\ Push(Frame("reset", tpl, LastLines))
  /\ UNCHANGED <<logvars, events, access, history>>

\* ExitBootServices: the core has stopped its timer, and the driver's event,
\* just above TPL_APPLICATION, is signalled.
OnExitBootServicesNotification ==
  /\ phase = "boot" /\ "exit" \in events
  /\ frames = << >>
  /\ phase' = "exit"
  /\ Push(Frame("exit", TPL_APPLICATION + 1, LastLines))
  /\ UNCHANGED <<logvars, events, access, history>>

\* The system is up, so the log grows.
Log == phase # "off" /\ LogNext /\ UNCHANGED <<phase, events, frames, access, history>>

WriteToSerialPort == phase # "off" /\ (GetLine \/ WriteLine)

Next ==
  \/ WriteToSerialPort \/ Register \/ OnResetNotificationProtocolInstalled
  \/ OnWriteSerialTimerCallback
  \/ \E tpl \in ResetTpls : OnResetNotification(tpl)
  \/ OnExitBootServicesNotification \/ Log

Spec == Init /\ [][Next]_vars

\* The driver runs on: a call of WriteToSerialPort takes its steps, and where
\* none runs the periodic timer starts the next.  Writers sign what they claim.
Driver == WriteToSerialPort \/ Register \/ OnWriteSerialTimerCallback

FairSpec ==
  /\ Spec
  /\ WF_vars(Driver)
  /\ WF_vars(Log /\ log' = log)

-----------------------------------------------------------------------------
(* Properties                                                              *)

\* The numbers of the lines that should be on the port.
Loud == {i \in DOMAIN fetched : fetched[i].loud}

\* The numbers of the lines that are on the port.
Written == {line.no : line \in ToSet(out)}

\* The writes that put a line on the port again, or one another call has spoilt.
Faulty == {j \in DOMAIN out : ~ out[j].whole \/ \E i \in 1 .. j - 1 : out[i].no = out[j].no}

\* No line is written before an earlier one, and none twice or mixed with another,
\* but for at most one write for every line that a reset at TPL_APPLICATION had in
\* hand when a tick came on top of it and used mAccessEntry.
WrittenOnceInOrder ==
  /\ \A i, j \in DOMAIN out : i < j => out[i].no <= out[j].no
  /\ Cardinality(Faulty) <= Cardinality(preempted)

\* A line that was taken from the log and should be on the port is there, is about
\* to be written or was in hand when a tick came on top, but for at most one for
\* every call that ran into its limit.
OneLinePerOverrun ==
  Cardinality(Loud \ (Written \cup InHand \cup preempted)) <= overruns

\* What was readable when the OS takes over has been taken from the log: the
\* call at ExitBootServices does not stop before the end or an unsigned entry.
ExitTakesAll ==
  [][phase = "exit" /\ phase' = "off" => block' = Reachable(block)]_vars

\* Every message is taken from the log by some tick, while the system is up and
\* the events exist: again and again the ticks have caught up with the writers.
EveryMessageIsTaken == []<>(block = Len(log) \/ phase = "off" \/ events = {})

\* "Writes the currently unwritten part of the log to the serial port."
\* (WriteToSerialPort): what the calls took from the log is on the port.
UnwrittenPartIsWritten == frames = << >> => Loud \subseteq Written
=============================================================================
