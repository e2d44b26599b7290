----------------------------- MODULE MCLogStream -----------------------------
(***************************************************************************)
(* Small instances of LogStream: one page that may lose its connection,     *)
(* two server ends of streams, so that an old stream that has not noticed   *)
(* yet stands beside the new one.                                           *)
(***************************************************************************)
EXTENDS LogStream, TLC

\* Fresh is the filter of appendLines.
ASSUME FreshFilters ==
    \A ns \in BoundedSeq(1..3, 4), mark \in 0..3 :
        Fresh(ns, mark) = SelectSeq(ns, LAMBDA n : n > mark)

=============================================================================
