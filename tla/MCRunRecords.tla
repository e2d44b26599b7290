----------------------------- MODULE MCRunRecords -----------------------------
(***************************************************************************)
(* Small instances of RunRecords: the server and a command line.            *)
(***************************************************************************)
EXTENDS RunRecords, TLC

=============================================================================
