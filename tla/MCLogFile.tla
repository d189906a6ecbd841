----------------------------- MODULE MCLogFile -----------------------------
(* Small instances of LogFile.                                             *)
EXTENDS LogFile

CONSTANTS a, b

MCNoMeta == -1

=============================================================================
