--------------------------- MODULE FormattedLines ---------------------------
(***************************************************************************)
(* The lines of the log: what AdvancedLoggerAccessLibGetNextFormattedLine  *)
(* returns, as a function of the log and of where its caller stands.       *)
(* LineReader has the loop that computes it, and shows the two equal; the  *)
(* serial and the file logger are modelled on this definition.             *)
(***************************************************************************)
EXTENDS MessageLog, SequencesExt, FiniteSetsExt

CONSTANTS Chars,      \* the characters of the messages
          NewLine,    \* '\n'
          LineLimit   \* mMaxMessageSize - 2

ASSUME LinesAssumption ==
  /\ NewLine \in Chars
  /\ LineLimit \in Nat \ {0}
  /\ Texts \subseteq Seq(Chars) \ {<< >>}

\* The characters of the entries from the one after n to k.
Stream(n, k) == FlattenSeq(SubSeq(log, n + 1, k))

\* The last entry a reader gets to that was given n of them.
Reachable(n) ==
  CHOOSE k \in n .. Len(log) :
    n + 1 .. k \subseteq signed /\ BlockStatus(k) # "EFI_SUCCESS"

\* A caller was given n entries and has not used the characters rest of the
\* last one.  The line ends with the first '\n', or is cut at LineLimit
\* characters and given one.  Without either the caller gets what there is at
\* the end of the log, and nothing in front of an entry that is not signed.
FormattedLine(n, rest) ==
  LET last == Reachable(n)
      pipe == rest \o Stream(n, last)
      ends == {i \in 1 .. Len(pipe) : pipe[i] = NewLine \/ i = LineLimit}
  IN IF ends # {}
     THEN LET end  == Min(ends)
              upto == Min({k \in n .. last : Len(rest) + Len(Stream(n, k)) >= end})
          IN [status   |-> "EFI_SUCCESS",
              line     |-> SubSeq(pipe, 1, end) \o (IF pipe[end] = NewLine THEN << >> ELSE <<NewLine>>),
              block    |-> upto,
              residual |-> SubSeq(rest \o Stream(n, upto), end + 1, Len(rest) + Len(Stream(n, upto)))]
     ELSE [status   |-> IF BlockStatus(last) = "EFI_END_OF_FILE" /\ pipe # << >>
                        THEN "EFI_SUCCESS" ELSE BlockStatus(last),
           line     |-> IF BlockStatus(last) = "EFI_END_OF_FILE" THEN pipe ELSE << >>,
           block    |-> last,
           residual |-> << >>]
=============================================================================
