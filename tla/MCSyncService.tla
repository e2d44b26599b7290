---------------------------- MODULE MCSyncService ----------------------------
(***************************************************************************)
(* Small instances of SyncService: a web thread and the scheduler, one     *)
(* stop request, one command-line process.       The threads of a kind,     *)
(* the scheduler apart, are interchangeable.                                *)
(***************************************************************************)
EXTENDS SyncService, TLC

=============================================================================
