----------------------- MODULE MCAdvancedLoggerMemory -----------------------
(* AdvancedLoggerMemory with constants small enough for TLC.               *)
EXTENDS AdvancedLoggerMemory, SequencesExt

CONSTANTS w1, w2

\* Two contexts that write, and a third that reads.
MCWriters == {w1, w2}

\* An entry of 24 and one of 32 bytes, and lengths the write refuses.
MCLengths == {0, 1, 7, 20}

-----------------------------------------------------------------------------
(* AdvancedLoggerMemory implements MessageLog.                             *)

\* The entries in the order of their addresses.
EntriesInOrder == SetToSortSeq(entries, LAMBDA e, f : e.at < f.at)

Abstract == INSTANCE MessageLog WITH
  Texts      <- Messages,
  MaxEntries <- LogBufferSize,
  log        <- [i \in 1 .. Cardinality(entries) |-> EntriesInOrder[i].msg],
  signed     <- {i \in 1 .. Cardinality(entries) :
                   memory[EntriesInOrder[i].at].Signature = MESSAGE_ENTRY_SIGNATURE}

\* The memory log is a message log: the writers' loads, exchanges and stores
\* amount to appending a message and later signing it, and nothing else.
ImplementsMessageLog == Abstract!LogSpec
=============================================================================
