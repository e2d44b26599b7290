--------------------------- MODULE MCProgressStream ---------------------------
(***************************************************************************)
(* Small instances of ProgressStream: one dashboard and two jobs.           *)
(***************************************************************************)
EXTENDS ProgressStream, TLC

=============================================================================
