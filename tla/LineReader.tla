----------------------------- MODULE LineReader -----------------------------
(***************************************************************************)
(* AdvancedLoggerAccessLibGetNextFormattedLine (AdvancedLoggerAccessLib.c) *)
(* cuts the messages of the log into lines, while messages are still being *)
(* added.  A character is a model value, NewLine among them; a time stamp  *)
(* and a debug level are the number of the entry they come from.  A block  *)
(* is fetched in one step: AdvancedLoggerMemory shows that                 *)
(* GetNextMessageBlock answers what BlockStatus says.                      *)
(***************************************************************************)
EXTENDS FormattedLines, FiniteSets

CONSTANTS NUL,      \* '\0'
          Garbage,  \* what a cell of a fresh pool allocation may hold
          NULL      \* no line buffer

VARIABLES lpc,         \* where in GetNextFormattedLine the call is
          block,       \* LineEntry->BlockEntry: the entry fetched last, 0 for none
          residual,    \* LineEntry->ResidualChar and ResidualLen
          LineBuffer,  \* LineEntry->Message behind the time stamp, or NULL
          stamp,       \* the entry whose time stamp heads LineBuffer
          TargetLen,   \* characters the call has put into the line
          result,      \* what the last finished call returned
          atcall,      \* history: block and residual when the call began
          given,       \* history: characters of the log that came out in lines
          torn         \* history: a call failed after it had taken characters

entry   == <<block, residual, LineBuffer, stamp>>
call    == <<lpc, TargetLen, result>>
history == <<atcall, given, torn>>
vars    == <<logvars, entry, call, history>>

NoLine(status) == [status |-> status, line |-> << >>, stamp |-> 0, block |-> 0]

Init ==
  /\ LogInit
  /\ lpc = "idle" /\ TargetLen = 0 /\ result = NoLine("none")
  /\ block = 0 /\ residual = << >> /\ LineBuffer = NULL /\ stamp = 0
  /\ atcall = [block |-> 0, residual |-> << >>] /\ given = << >> /\ torn = FALSE

\* The call begins: the line buffer is allocated once, and is not cleared.
StartLine ==
  /\ lpc = "idle"
  /\ \E g \in Garbage :
       LineBuffer' = IF LineBuffer = NULL THEN [i \in 1 .. LineLimit + 2 |-> g]
                     ELSE LineBuffer
  /\ stamp' = IF block > 0 THEN block ELSE stamp
  /\ TargetLen' = 0
  /\ lpc' = "pull"
  /\ atcall' = [block |-> block, residual |-> residual]
  /\ UNCHANGED <<logvars, block, residual, result, given, torn>>

\* There is no memory for the line buffer.
OutOfResources ==
  /\ lpc = "idle"
  /\ LineBuffer = NULL
  /\ result' = NoLine("EFI_OUT_OF_RESOURCES")
  /\ UNCHANGED <<logvars, entry, lpc, TargetLen, history>>

\* The call returns the n characters of the buffer as a line, of which the
\* last is not from the log if the line was cut.
ReturnLine(buffer, n, cut) ==
  /\ result' = [status |-> "EFI_SUCCESS", line |-> SubSeq(buffer, 1, n),
                stamp |-> stamp, block |-> block]
  /\ given' = given \o SubSeq(buffer, 1, IF cut THEN n - 1 ELSE n)
  /\ TargetLen' = n
  /\ lpc' = "idle"

\* Mutation of Moved: the end of the line buffer is not looked at.
MovedUnbounded == Min({i \in 1 .. Len(residual) : residual[i] = NewLine \/ i = Len(residual)})

\* How many characters the inner loop moves: up to a '\n', the end of the
\* block, or the end of the line buffer.
Moved == Min({i \in 1 .. Len(residual) :
                residual[i] = NewLine \/ i = Len(residual) \/ TargetLen + i = LineLimit})

\* The buffer with characters cs put at position at.
Put(buffer, at, cs) ==
  [i \in DOMAIN buffer |-> IF i \in at .. at + Len(cs) - 1 THEN cs[i - at + 1] ELSE buffer[i]]

\* What follows the characters moved when they complete a line.
Closing(last) == IF last = NewLine THEN <<NUL>> ELSE <<NewLine, NUL>>

\* Mutation of Rest: the characters behind a '\n' are dropped.
RestDropped(n) == << >>

\* What stays in ResidualChar once n characters are moved.
Rest(n) == SubSeq(residual, n + 1, Len(residual))

\* The inner loop, and the tests for '\n' and for a full line.
PullChars ==
  /\ lpc = "pull" /\ residual # << >>
  /\ LET moved == Put(LineBuffer, TargetLen + 1, SubSeq(residual, 1, Moved))
         n     == TargetLen + Moved
         last  == residual[Moved]
     IN IF last = NewLine \/ n >= LineLimit
        THEN /\ LineBuffer' = Put(moved, n + 1, Closing(last))
             /\ ReturnLine(LineBuffer', n + Len(Closing(last)) - 1, last # NewLine)
        ELSE /\ LineBuffer' = moved
             /\ TargetLen' = n
             /\ lpc' = "fetch"
             /\ UNCHANGED <<result, given>>
  /\ residual' = Rest(Moved)
  /\ UNCHANGED <<logvars, block, stamp, atcall, torn>>

\* There is no character left from the last block.
NothingToPull ==
  /\ lpc = "pull" /\ residual = << >>
  /\ lpc' = "fetch"
  /\ UNCHANGED <<logvars, entry, TargetLen, result, history>>

\* Mutation of FormatTimeStamp: only the first block of all is stamped.
FormatTimeStampOnce(n) == IF stamp = 0 THEN n ELSE stamp

\* The time stamp at the head of the buffer becomes that of entry n.
FormatTimeStamp(n) == n

\* GetNextMessageBlock has a block: its characters and its time stamp are used.
FetchBlock ==
  /\ lpc = "fetch" /\ BlockStatus(block) = "EFI_SUCCESS"
  /\ block' = block + 1
  /\ residual' = log[block + 1]
  /\ stamp' = FormatTimeStamp(block + 1)
  /\ lpc' = "pull"
  /\ UNCHANGED <<logvars, LineBuffer, TargetLen, result, history>>

\* What the end of the log means to the call.
EndStatus == IF TargetLen > 0 THEN "EFI_SUCCESS" ELSE "EFI_END_OF_FILE"

\* The end of the log: what is there of the line is returned as it stands.
FetchEndOfFile ==
  /\ lpc = "fetch" /\ BlockStatus(block) = "EFI_END_OF_FILE"
  /\ IF EndStatus = "EFI_SUCCESS"
     THEN ReturnLine(LineBuffer, TargetLen, FALSE)
     ELSE /\ result' = NoLine(EndStatus)
          /\ lpc' = "idle"
          /\ UNCHANGED <<TargetLen, given>>
  /\ UNCHANGED <<logvars, entry, atcall, torn>>

\* Any other status ends the call; the characters in the buffer are not returned.
FetchFails ==
  /\ lpc = "fetch" /\ BlockStatus(block) = "EFI_COMPROMISED_DATA"
  /\ result' = NoLine("EFI_COMPROMISED_DATA")
  /\ torn' = (torn \/ TargetLen > 0)
  /\ lpc' = "idle"
  /\ UNCHANGED <<logvars, entry, TargetLen, atcall, given>>

\* AdvancedLoggerAccessLibReset frees the line buffer.
Reset ==
  /\ lpc = "idle" /\ LineBuffer # NULL
  /\ LineBuffer' = NULL
  /\ result' = NoLine("none")
  /\ UNCHANGED <<logvars, block, residual, stamp, lpc, TargetLen, history>>

GetNextFormattedLine ==
  StartLine \/ PullChars \/ NothingToPull \/ FetchBlock \/ FetchEndOfFile \/ FetchFails

Next ==
  \/ GetNextFormattedLine \/ OutOfResources \/ Reset
  \/ LogNext /\ UNCHANGED <<entry, call, history>>

Spec == Init /\ [][Next]_vars

-----------------------------------------------------------------------------
(* Properties                                                              *)

\* Type invariant: the line never outgrows its buffer, and the entry points
\* into the log.
TypeOK ==
  /\ log \in Seq(Texts) /\ signed \subseteq 1 .. Len(log)
  /\ lpc \in {"idle", "pull", "fetch"}
  /\ block \in 0 .. Len(log)
  /\ LineBuffer = NULL \/ LineBuffer \in [1 .. LineLimit + 2 -> Chars \cup {NUL} \cup Garbage]
  /\ stamp \in 0 .. Len(log)
  /\ TargetLen \in 0 .. LineLimit + 1
  /\ torn \in BOOLEAN

\* Whenever the loop over blocks returns, however many messages arrived while
\* it ran, its status, its line, its time stamp and the place where the next
\* call resumes are those of FormattedLine: the log cut at its first '\n' or at
\* the line limit, evaluated in one step at the moment of the return.
LineIsFormattedLine ==
  [][lpc # "idle" /\ lpc' = "idle" =>
       LET f == FormattedLine(atcall.block, atcall.residual) IN
       /\ result'.status = f.status
       /\ result'.line = f.line
       /\ result'.status = "EFI_SUCCESS" => result'.stamp = f.block /\ result'.block = f.block
       /\ block' = f.block /\ residual' = f.residual]_vars

\* The log is a pipe of characters: as long as no call failed half way, the
\* lines and what is left over are the messages fetched so far, in order,
\* without a character lost, repeated or invented.
PipeUnlessTorn ==
  lpc = "idle" /\ ~ torn => given \o residual = Stream(0, block)
=============================================================================
