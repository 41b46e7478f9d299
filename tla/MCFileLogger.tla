---------------------------- MODULE MCFileLogger ----------------------------
(* FileLogger on one file system with two log files.                       *)
EXTENDS FileLogger

=============================================================================
