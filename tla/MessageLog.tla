----------------------------- MODULE MessageLog -----------------------------
(***************************************************************************)
(* What the in-memory log promises its readers: a sequence of messages     *)
(* that only grows, in which a message becomes readable when its writer    *)
(* has signed it, and which a reader walks one message at a time.          *)
(* AdvancedLoggerMemory implements it; the line formatter and the loggers  *)
(* are modelled on top of it.                                              *)
(***************************************************************************)
EXTENDS Naturals, Sequences

CONSTANTS Texts,      \* the messages that are written
          MaxEntries  \* bound: messages the log takes

VARIABLES log,        \* the messages, in the order of their entries
          signed      \* the numbers of the entries that carry a signature

logvars == <<log, signed>>

LogInit == log = << >> /\ signed = {}

\* A writer claims the next entry.
Claim(text) ==
  /\ Len(log) < MaxEntries
  /\ log' = Append(log, text)
  /\ UNCHANGED signed

\* The writer of entry i has filled it and stores its signature.
Sign(i) ==
  /\ i \in 1 .. Len(log) \ signed
  /\ signed' = signed \cup {i}
  /\ UNCHANGED log

LogNext == (\E text \in Texts : Claim(text)) \/ (\E i \in 1 .. Len(log) : Sign(i))

LogSpec == LogInit /\ [][LogNext]_logvars

\* Mutation of BlockStatus: the last entry counts as the end.
BlockStatusShort(n) ==
  IF n + 1 >= Len(log) THEN "EFI_END_OF_FILE"
  ELSE IF n + 1 \in signed THEN "EFI_SUCCESS"
  ELSE "EFI_COMPROMISED_DATA"

\* The status GetNextMessageBlock returns to a reader that was given n entries.
BlockStatus(n) ==
  IF n = Len(log) THEN "EFI_END_OF_FILE"
  ELSE IF n + 1 \in signed THEN "EFI_SUCCESS"
  ELSE "EFI_COMPROMISED_DATA"
=============================================================================
