------------------------------- MODULE MCSignIn -------------------------------
(***************************************************************************)
(* Small instances of SignIn; browsers are interchangeable, as are threads. *)
(***************************************************************************)
EXTENDS SignIn, TLC

Interchangeable == Permutations(Clients) \cup Permutations(Threads)

=============================================================================
