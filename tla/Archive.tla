------------------------------- MODULE Archive -------------------------------
(***************************************************************************)
(* What a sync promises about the destination directory, with everything    *)
(* that happens on the way left out: a file is absent, or it appears under  *)
(* its final name in one step and with acceptable content.  It goes away    *)
(* again only when it falls before the retention limit, or when it is a     *)
(* sidecar (thumbnail, accelerometer, gps) of a group directory that holds  *)
(* no video.  SyncRun implements this specification.                        *)
(***************************************************************************)
EXTENDS Naturals

CONSTANTS
    File,           \* the names the archive can hold
    Content,        \* the contents a stored file may have
    Cutoff,         \* the retention limits a run may be given
    Day,            \* the day each file was recorded
    Group,          \* the group directory each file is stored in
    Video           \* the files that are video recordings

VARIABLES
    archive,        \* the files under their final names, with their content
    limit           \* the retention limit of the current or last run

vars == <<archive, limit>>

Init ==
    /\ archive = [f \in {} |-> {}]
    /\ limit \in Cutoff

\* A new run, or changed settings, bring another retention limit.
SetLimit ==
    /\ limit' \in Cutoff
    /\ UNCHANGED archive

\* A file the archive lacks, and the limit admits, appears whole.
Store(f) ==
    /\ f \notin DOMAIN archive
    /\ Day[f] >= limit
    /\ \E c \in Content :
          archive' = [x \in DOMAIN archive \cup {f} |->
                        IF x = f THEN c ELSE archive[x]]
    /\ UNCHANGED limit

\* A file recorded before the limit is removed.
Expire(f) ==
    /\ f \in DOMAIN archive
    /\ Day[f] < limit
    /\ archive' = [x \in DOMAIN archive \ {f} |-> archive[x]]
    /\ UNCHANGED limit

\* A sidecar whose group holds no video is removed with its directory.
Discard(f) ==
    /\ f \in DOMAIN archive
    /\ ~ \E v \in DOMAIN archive : v \in Video /\ Group[v] = Group[f]
    /\ archive' = [x \in DOMAIN archive \ {f} |-> archive[x]]
    /\ UNCHANGED limit

Next ==
    \/ SetLimit
    \/ \E f \in File : Store(f) \/ Expire(f) \/ Discard(f)

Spec == Init /\ [][Next]_vars

=============================================================================
