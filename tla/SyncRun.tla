------------------------------- MODULE SyncRun -------------------------------
(***************************************************************************)
(* One process at a time that syncs a dashcam to a destination directory    *)
(* (blackvuesync/sync.py): retention, listing, orphan pruning, the download *)
(* of every artifact of every selected recording with its partial file,     *)
(* resume, restart and failure marker, and the cleaning of empty group      *)
(* directories.  The process can be stopped or killed between any two       *)
(* steps; the directory survives.  The dashcam is the environment: it       *)
(* answers every request in any way the code has a branch for.              *)
(*                                                                         *)
(* A file's bytes are abstracted to Size blocks, numbered in order, so a    *)
(* content is the sequence of the block numbers it holds.  The directory    *)
(* maps the names that exist to contents.                                  *)
(***************************************************************************)
EXTENDS Naturals, Sequences, FiniteSets

CONSTANTS
    Recordings,         \* the recordings of the dashcam, one per video file
    Shots,              \* timestamp and type, which front and rear share
    ShotOf,             \* the shot each recording belongs to
    DayOf,              \* the day of each shot
    Groups,             \* the group directories
    GroupOf,            \* the group directory of each shot
    Grouped,            \* FALSE when the grouping is "none"
    Rank,               \* the sort key of each recording (priority)
    Artifacts,          \* the artifact kinds, in the order of _ARTIFACTS
    Size,               \* the blocks of a file
    Cutoffs,            \* the retention limits a run may have; 0 is none
    Options,            \* the dry_run and skip_metadata a run may have
    Listings,           \* the sets of recordings a listing may select
    ServerSendsLength,  \* TRUE when every response tells its length
    DiskMayFail,        \* TRUE when a file operation may raise OSError
    MaxFaults,          \* bound: faults, kills and stops of a behaviour
    NoRecording         \* stands for "no recording in hand"

Kinds == {"mp4", "thm", "3gf", "gps"}

\* The artifacts named after the direction of the recording too.
Directed == {"mp4", "thm"}

ASSUME ConstantsAssumption ==
    /\ ShotOf \in [Recordings -> Shots]
    /\ DayOf \in [Shots -> Nat]
    /\ GroupOf \in [Shots -> Groups]
    /\ Rank \in [Recordings -> Nat]
    /\ Artifacts \in Seq(Kinds)
    /\ Size \in Nat \ {0}
    /\ Cutoffs \subseteq Nat
    /\ Options \subseteq [dry : BOOLEAN, skip : SUBSET Kinds]
    /\ Listings \subseteq SUBSET Recordings
    /\ {Grouped, ServerSendsLength, DiskMayFail} \subseteq BOOLEAN
    /\ MaxFaults \in Nat
    /\ NoRecording \notin Recordings

ASSUME FiniteAssumption == IsFiniteSet(Recordings)

FileOf(r, k) == <<k, IF k \in Directed THEN r ELSE ShotOf[r]>>
Shot(f) == IF f[1] \in Directed THEN ShotOf[f[2]] ELSE f[2]

FilesOf(R) == {FileOf(r, Artifacts[i]) : r \in R, i \in DOMAIN Artifacts}
Files == FilesOf(Recordings)
Video == {f \in Files : f[1] = "mp4"}
Day == [f \in Files |-> DayOf[Shot(f)]]
Group == [f \in Files |-> GroupOf[Shot(f)]]

Prefix(n) == [i \in 1..n |-> i]
Source == Prefix(Size)
Contents == {Prefix(n) : n \in 0..Size}

-----------------------------------------------------------------------------

VARIABLES
    final,      \* the files under their final names: name -> content
    partial,    \* the dotfiles of unfinished downloads: name -> content
    marker,     \* the files that have a .failed marker
    recent,     \* those whose marker tells a time within retry_failed_after
    dirs,       \* the group directories that exist
    pc,         \* where the process is in sync()
    opt,        \* this run's dry_run and skip_metadata
    cutoff,     \* this run's cutoff_date
    current,    \* this run's current_dashcam_recordings
    todo,       \* those the download loop has still to take
    rec,        \* the recording in hand
    step,       \* the artifact of it in hand, an index of Artifacts
    offset,     \* resume_from of the request, then the start of its body
    expected,   \* expected_size of the transfer, 0 when unknown
    wire,       \* the last block the server has put on the wire
    total,      \* files_total, files_completed, files_failed of the job
    completed,
    failed,
    outcome,    \* "none" while the job runs, then "ok" or "failed"
    stop,       \* the cooperative stop flag
    cooling,    \* history: the files whose last failure that reached its
                \* marker is within retry_failed_after
    swept,      \* history: those of them whose marker something else than
                \* the passing of the window has put out of effect
    faults      \* faults so far, bounded by MaxFaults

markers == <<marker, recent>>
disk == <<final, partial, markers, dirs>>
job == <<opt, cutoff, current>>
loop == <<todo, rec, step>>
xfer == <<offset, expected, wire>>
counts == <<total, completed, failed, outcome>>
history == <<cooling, swept>>
vars == <<disk, pc, job, loop, xfer, counts, stop, history, faults>>

Empty == [f \in {} |-> <<>>]
Put(d, f, c) == [x \in DOMAIN d \cup {f} |-> IF x = f THEN c ELSE d[x]]
Without(d, f) == [x \in DOMAIN d \ {f} |-> d[x]]

\* The file the loop has in hand, and the size of its partial.
Cur == FileOf(rec, Artifacts[step])
ResumeOffset(f) == IF f \in DOMAIN partial THEN Len(partial[f]) ELSE 0

Init ==
    /\ final = Empty /\ partial = Empty /\ dirs = {}
    /\ marker = {} /\ recent = {}
    /\ pc = "idle"
    /\ opt \in Options /\ cutoff \in Cutoffs /\ current = {}
    /\ todo = {} /\ rec = NoRecording /\ step = 1
    /\ offset = 0 /\ expected = 0 /\ wire = 0
    /\ total = 0 /\ completed = 0 /\ failed = 0 /\ outcome = "none"
    /\ stop = FALSE /\ cooling = {} /\ swept = {} /\ faults = 0

\* The environment misbehaves: one of the bounded faults of the behaviour.
Fault == faults < MaxFaults /\ faults' = faults + 1
NoFault == UNCHANGED faults

\* One file operation that may raise OSError does, or all go well.
DiskError == DiskMayFail /\ Fault

NoTransfer == offset' = 0 /\ expected' = 0 /\ wire' = 0
NoLoop == todo' = {} /\ rec' = NoRecording /\ step' = 1

-----------------------------------------------------------------------------
(* The end of a file and of a job, as the publisher counts them.            *)

FinishFile(ok) ==
    /\ completed' = IF ok THEN completed + 1 ELSE completed
    /\ failed' = IF ok THEN failed ELSE failed + 1
    /\ UNCHANGED <<total, outcome>>

\* A wrong variant: a skipped file stays in files_total.
SkipKeepsTotal == UNCHANGED <<total, completed, failed, outcome>>

SkipFile ==
    /\ total' = IF total > 0 THEN total - 1 ELSE 0
    /\ UNCHANGED <<completed, failed, outcome>>

\* A file that needs no transfer: it is skipped, unless download_file calls
\* itself, in which case it has been started and counts as failed.
NoTransferNeeded == IF pc = "again" THEN FinishFile(FALSE) ELSE SkipFile

\* The loop over _ARTIFACTS goes on to the next one.
NextArtifact ==
    /\ step' = step + 1
    /\ pc' = "file"
    /\ NoTransfer
    /\ UNCHANGED <<todo, rec>>

\* An exception leaves sync(): end_job(False), then clean_destination.
EndFailed ==
    /\ outcome' = "failed"
    /\ pc' = "clean"
    /\ NoLoop
    /\ NoTransfer

Abort ==
    /\ EndFailed
    /\ UNCHANGED <<total, completed, failed>>

\* An exception leaves download_file: _dl counts the file, then as above.
AbortFile ==
    /\ EndFailed
    /\ failed' = failed + 1
    /\ UNCHANGED <<total, completed>>

-----------------------------------------------------------------------------
(* The run up to its download loop.                                         *)

\* A run begins: its settings are read, the destination lock is taken,
\* begin_job resets the counts, and trigger_sync has cleared the stop flag.
Start ==
    /\ pc = "idle"
    /\ opt' \in Options
    /\ cutoff' \in Cutoffs
    /\ stop' = FALSE
    /\ total' = 0 /\ completed' = 0 /\ failed' = 0 /\ outcome' = "none"
    /\ pc' = "prepare"
    /\ NoFault
    /\ UNCHANGED <<disk, current, loop, xfer, history>>

\* A wrong variant: the cutoff date itself counts as outdated.
OutdatedUpToCutoff == {f \in DOMAIN final : Day[f] <= cutoff}

\* The glob of prepare_destination matches an outdated recording's files and
\* their failure markers alike.
OutdatedFiles == {f \in DOMAIN final : Day[f] < cutoff}
OutdatedMarkers == {f \in marker : Day[f] < cutoff}

RemoveOutdatedFile(f) ==
    /\ pc = "prepare" /\ ~opt.dry
    /\ f \in OutdatedFiles
    /\ final' = Without(final, f)
    /\ NoFault
    /\ UNCHANGED <<partial, markers, dirs, pc, job, loop, xfer, counts, stop, history>>

Unmark(f) == marker' = marker \ {f} /\ recent' = recent \ {f}

\* From here on no marker tells of the last failure of f.
Forget(f) == swept' = swept \cup ({f} \cap cooling)

RemoveOutdatedMarker(f) ==
    /\ pc = "prepare" /\ ~opt.dry
    /\ f \in OutdatedMarkers
    /\ Unmark(f) /\ Forget(f)
    /\ NoFault
    /\ UNCHANGED <<final, partial, dirs, pc, job, loop, xfer, counts, stop, cooling>>

DestinationPrepared ==
    /\ pc = "prepare"
    /\ opt.dry \/ OutdatedFiles \cup OutdatedMarkers = {}
    /\ pc' = "list"
    /\ NoFault
    /\ UNCHANGED <<disk, job, loop, xfer, counts, stop, history>>

\* A wrong variant: the listing is not cut down to what is current.
ListAll ==
    /\ pc = "list"
    /\ current' \in Listings
    /\ pc' = "prune"
    /\ NoFault
    /\ UNCHANGED <<disk, opt, cutoff, loop, xfer, counts, stop, history>>

\* The dashcam's index, cut down to what is current and passes the filters.
ListRecordings ==
    /\ pc = "list"
    /\ \E L \in Listings :
          current' = {r \in L : DayOf[ShotOf[r]] >= cutoff}
    /\ pc' = "prune"
    /\ NoFault
    /\ UNCHANGED <<disk, opt, cutoff, loop, xfer, counts, stop, history>>

ListingFails ==
    /\ pc = "list"
    /\ Fault
    /\ Abort
    /\ UNCHANGED <<disk, job, stop, history>>

\* Skipped metadata types count as expected: their partials are kept.
Orphans == DOMAIN partial \ FilesOf(current)

PruneOrphan(f) ==
    /\ pc = "prune" /\ ~opt.dry
    /\ f \in Orphans
    /\ partial' = Without(partial, f)
    /\ NoFault
    /\ UNCHANGED <<final, markers, dirs, pc, job, loop, xfer, counts, stop, history>>

ArtifactsPerRecording ==
    Cardinality({i \in DOMAIN Artifacts : Artifacts[i] \notin opt.skip})

\* Pruning is over: set_total, and the download loop begins.
OrphansPruned ==
    /\ pc = "prune"
    /\ opt.dry \/ Orphans = {}
    /\ total' = Cardinality(current) * ArtifactsPerRecording
    /\ todo' = current
    /\ pc' = "next"
    /\ NoFault
    /\ UNCHANGED <<disk, job, rec, step, xfer, completed, failed, outcome, stop, history>>

\* os.remove raises while old recordings or orphans are being removed.
RemovalFails ==
    /\ \/ pc = "prepare" /\ ~opt.dry /\ OutdatedFiles \cup OutdatedMarkers # {}
       \/ pc = "prune" /\ ~opt.dry /\ Orphans # {}
    /\ DiskError
    /\ Abort
    /\ UNCHANGED <<disk, job, stop, history>>

-----------------------------------------------------------------------------
(* The download loop.                                                       *)

\* The recordings are taken in the order of the sort key.
NextRecording(r) ==
    /\ pc = "next"
    /\ r \in todo
    /\ \A q \in todo : Rank[r] <= Rank[q]
    /\ rec' = r
    /\ todo' = todo \ {r}
    /\ step' = 1
    /\ pc' = "file"
    /\ NoFault
    /\ UNCHANGED <<disk, job, xfer, counts, stop, history>>

\* download_recording first finds the disk fuller than max_used_disk allows.
DiskTooFull ==
    /\ pc = "next" /\ todo # {}
    /\ Fault
    /\ Abort
    /\ UNCHANGED <<disk, job, stop, history>>

RecordingDone ==
    /\ pc = "file"
    /\ step > Len(Artifacts)
    /\ rec' = NoRecording /\ step' = 1
    /\ pc' = "next"
    /\ NoFault
    /\ UNCHANGED <<disk, job, todo, xfer, counts, stop, history>>

\* The loop is over: end_job(True), then clean_destination.
AllDone ==
    /\ pc = "next"
    /\ todo = {}
    /\ outcome' = "ok"
    /\ pc' = "clean"
    /\ NoFault
    /\ UNCHANGED <<disk, job, loop, xfer, total, completed, failed, stop, history>>

\* An artifact left out by skip_metadata.
SkipMetadata ==
    /\ pc = "file" /\ step <= Len(Artifacts)
    /\ Artifacts[step] \in opt.skip
    /\ NextArtifact
    /\ NoFault
    /\ UNCHANGED <<disk, job, counts, stop, history>>

-----------------------------------------------------------------------------
(* download_file up to its request.                                         *)

\* "again" is download_file calling itself for the file in hand.
InFile ==
    /\ pc \in {"file", "again"}
    /\ step <= Len(Artifacts)
    /\ Artifacts[step] \notin opt.skip

\* The group directory is made before anything is checked, dry run or not.
EnsureGroup == dirs' = IF Grouped THEN dirs \cup {Group[Cur]} ELSE dirs

GroupDirFails ==
    /\ InFile
    /\ Grouped
    /\ DiskError
    /\ AbortFile
    /\ UNCHANGED <<disk, job, stop, history>>

AlreadyDownloaded ==
    /\ InFile
    /\ Cur \in DOMAIN final
    /\ EnsureGroup
    /\ NoTransferNeeded
    /\ NextArtifact
    /\ NoFault
    /\ UNCHANGED <<final, partial, markers, job, stop, history>>

DryRunFile ==
    /\ InFile
    /\ Cur \notin DOMAIN final
    /\ opt.dry
    /\ EnsureGroup
    /\ FinishFile(TRUE)
    /\ NextArtifact
    /\ NoFault
    /\ UNCHANGED <<final, partial, markers, job, stop, history>>

\* Wrong variants: the marker is ignored, or never grows stale.
NeverBlocked(f) == FALSE
BlockedForEver(f) == f \in marker

\* is_download_blocked_by_failure: the marker tells a time, and a recent one;
\* an empty marker blocks nothing.
BlockedByFailure(f) == f \in recent

RecentlyFailed ==
    /\ InFile
    /\ Cur \notin DOMAIN final
    /\ ~opt.dry
    /\ BlockedByFailure(Cur)
    /\ EnsureGroup
    /\ NoTransferNeeded
    /\ NextArtifact
    /\ NoFault
    /\ UNCHANGED <<final, partial, markers, job, stop, history>>

\* The checks have passed and the old marker goes; or the marker could not be
\* read, or could not be removed.
RemoveDownloadFailedMarker ==
    \/ ~BlockedByFailure(Cur) /\ NoFault /\ Unmark(Cur) /\ UNCHANGED swept
    \/ /\ Cur \in marker
       /\ DiskError
       /\ Unmark(Cur) \/ UNCHANGED markers
       /\ Forget(Cur)

\* Then the partial is measured and the request is sent, with a Range header
\* when there is something to resume.
SendRequest ==
    /\ InFile
    /\ Cur \notin DOMAIN final
    /\ ~opt.dry
    /\ EnsureGroup
    /\ RemoveDownloadFailedMarker
    /\ offset' = ResumeOffset(Cur)
    /\ pc' = "request"
    /\ UNCHANGED <<final, partial, job, loop, expected, wire, counts, stop, cooling>>

-----------------------------------------------------------------------------
(* The dashcam's answers, and what download_file makes of each.             *)

\* What a 206 says when its Content-Range is missing or malformed.
NoHeader == Size + 1

\* A wrong variant: where the body starts is not looked at.
ResumeAnything(status, start, from) ==
    IF status = 206 /\ from > 0 THEN "resume" ELSE "fresh"

\* _resume_decision: what to do with the body, from the start it declares.
ResumeAction(status, start, from) ==
    IF status = 206 /\ from > 0
    THEN IF start = from THEN "resume" ELSE "restart"
    ELSE "fresh"

\* Whether Content-Length may be missing from an answer.
Lengths == IF ServerSendsLength THEN {TRUE} ELSE BOOLEAN

\* A wrong variant: the partial is opened for appending.
AppendWhole ==
    /\ pc = "request"
    /\ partial' = IF Cur \in DOMAIN partial THEN partial ELSE Put(partial, Cur, <<>>)
    /\ offset' = 0
    /\ \E len \in Lengths : expected' = IF len THEN Size ELSE 0
    /\ wire' = 0
    /\ pc' = "stream"
    /\ NoFault
    /\ UNCHANGED <<final, markers, dirs, job, loop, counts, stop, history>>

\* The whole body: the partial is truncated and written from its first block.
AnswerWhole ==
    /\ pc = "request"
    /\ ResumeAction(200, NoHeader, offset) = "fresh"
    /\ partial' = Put(partial, Cur, <<>>)
    /\ offset' = 0
    /\ \E len \in Lengths : expected' = IF len THEN Size ELSE 0
    /\ wire' = 0
    /\ pc' = "stream"
    /\ NoFault
    /\ UNCHANGED <<final, markers, dirs, job, loop, counts, stop, history>>

\* A 206 whose body starts after block b and that declares where it starts:
\* taken as the rest of the partial when that is where the partial ends.  The
\* total of a Content-Range may be "*"; it is then added up from the length.
AnswerRest(b, start) ==
    /\ pc = "request" /\ offset > 0
    /\ ResumeAction(206, start, offset) = "resume"
    /\ \E tot \in BOOLEAN, len \in Lengths :
          expected' = IF tot THEN Size
                      ELSE offset + IF len THEN Size - b ELSE 0
    /\ wire' = b
    /\ pc' = "stream"
    /\ NoFault
    /\ UNCHANGED <<disk, job, loop, offset, counts, stop, history>>

\* A wrong variant: the partial is not discarded.
RestartAsIs(fault) ==
    /\ IF fault THEN Fault ELSE NoFault
    /\ pc' = "again"
    /\ NoTransfer
    /\ UNCHANGED <<disk, job, loop, counts, stop, history>>

\* The partial is discarded, if its removal works, and download_file calls
\* itself for the same file.
Restart(fault) ==
    /\ \/ /\ partial' = Without(partial, Cur)
          /\ IF fault THEN Fault ELSE NoFault
       \/ DiskError /\ UNCHANGED partial
    /\ pc' = "again"
    /\ NoTransfer
    /\ UNCHANGED <<final, markers, dirs, job, loop, counts, stop, history>>

\* A 206 that cannot be shown to continue the partial.
AnswerWrongRange(b, start) ==
    /\ pc = "request" /\ offset > 0
    /\ ResumeAction(206, start, offset) = "restart"
    /\ Restart(TRUE)

\* A 416: what an honest server says when the partial is already whole.
AnswerUnsatisfiable ==
    /\ pc = "request" /\ offset > 0
    /\ Restart(offset < Size)

\* Any other HTTP error, or a 416 to a request without a range.
AnswerHttpError ==
    /\ pc = "request"
    /\ Fault
    /\ pc' = "mark"
    /\ UNCHANGED <<disk, job, loop, xfer, counts, stop, history>>

\* mark_download_failed opens the marker, which creates or empties it, ...
OpenMarker ==
    /\ pc = "mark"
    /\ marker' = marker \cup {Cur}
    /\ recent' = recent \ {Cur}
    /\ pc' = "write"
    /\ NoFault
    /\ UNCHANGED <<final, partial, dirs, job, loop, xfer, counts, stop, history>>

\* ... and writes the time, which is out when the marker is closed.
WriteMarker ==
    /\ pc = "write"
    /\ recent' = recent \cup {Cur}
    /\ cooling' = cooling \cup {Cur}
    /\ swept' = swept \ {Cur}
    /\ FinishFile(FALSE)
    /\ NextArtifact
    /\ NoFault
    /\ UNCHANGED <<final, partial, marker, dirs, job, stop>>

\* Either raises OSError: a warning, and the loop goes on.
MarkFails ==
    /\ pc \in {"mark", "write"}
    /\ DiskError
    /\ FinishFile(FALSE)
    /\ NextArtifact
    /\ UNCHANGED <<disk, job, stop, history>>

\* A connection-level error: the file failed, with no marker.
ConnectionFails ==
    /\ pc = "request"
    /\ Fault
    /\ FinishFile(FALSE)
    /\ NextArtifact
    /\ UNCHANGED <<disk, job, stop, history>>

\* A timeout, a reset in mid-body or a failed write ends the whole run.
TransferFails ==
    /\ pc \in {"request", "stream"}
    /\ Fault
    /\ AbortFile
    /\ UNCHANGED <<disk, job, stop, history>>

-----------------------------------------------------------------------------
(* The body, one chunk at a time, and what follows it.                      *)

\* A chunk is read, the stop flag is seen clear, the chunk is written.
WriteChunk ==
    /\ pc = "stream"
    /\ wire < Size
    /\ ~stop
    /\ partial' = Put(partial, Cur, Append(partial[Cur], Source[wire + 1]))
    /\ wire' = wire + 1
    /\ NoFault
    /\ UNCHANGED <<final, markers, dirs, pc, job, loop, offset, expected, counts, stop, history>>

\* A chunk is read and the stop flag is set: the chunk is dropped.
StopSeen ==
    /\ pc = "stream"
    /\ wire < Size
    /\ stop
    /\ NoFault
    /\ AbortFile
    /\ UNCHANGED <<disk, job, stop, history>>

\* read() returns b"": the body is over, or the connection closed early.
EndOfBody ==
    /\ pc = "stream"
    /\ IF wire = Size THEN NoFault ELSE Fault
    /\ pc' = "close"
    /\ UNCHANGED <<disk, job, loop, xfer, counts, stop, history>>

\* A wrong variant: the end of the body is taken for the end of the file.
TrustEndOfBody == FALSE

Truncation == expected # 0 /\ ResumeOffset(Cur) # expected

\* The body came up short: the file failed, its partial stays for a resume.
Truncated ==
    /\ pc = "close"
    /\ Truncation
    /\ FinishFile(FALSE)
    /\ NextArtifact
    /\ NoFault
    /\ UNCHANGED <<disk, job, stop, history>>

\* os.rename gives the file its final name.
Install ==
    /\ pc = "close"
    /\ ~Truncation
    /\ final' = Put(final, Cur, partial[Cur])
    /\ partial' = Without(partial, Cur)
    /\ FinishFile(TRUE)
    /\ NextArtifact
    /\ NoFault
    /\ UNCHANGED <<markers, dirs, job, stop, history>>

RenameFails ==
    /\ pc = "close"
    /\ ~Truncation
    /\ DiskError
    /\ AbortFile
    /\ UNCHANGED <<disk, job, stop, history>>

-----------------------------------------------------------------------------
(* clean_destination, kills, and the world outside.                         *)

\* is_empty_directory ignores everything that is not a video.
HoldsVideo(g) == \E v \in DOMAIN final : v \in Video /\ Group[v] = g
Emptied == {g \in dirs : ~HoldsVideo(g)}

\* A wrong variant: rmtree in a dry run too.
CleanEvenDry(f) ==
    /\ pc = "clean"
    /\ f \in DOMAIN final /\ Group[f] \in Emptied
    /\ final' = Without(final, f)
    /\ NoFault
    /\ UNCHANGED <<partial, markers, dirs, pc, job, loop, xfer, counts, stop, history>>

\* rmtree of a group directory takes its entries one by one, then itself.
CleanFile(f) ==
    /\ pc = "clean" /\ ~opt.dry
    /\ f \in DOMAIN final /\ Group[f] \in Emptied
    /\ final' = Without(final, f)
    /\ NoFault
    /\ UNCHANGED <<partial, markers, dirs, pc, job, loop, xfer, counts, stop, history>>

CleanMarker(f) ==
    /\ pc = "clean" /\ ~opt.dry
    /\ f \in marker /\ Group[f] \in Emptied
    /\ Unmark(f) /\ Forget(f)
    /\ NoFault
    /\ UNCHANGED <<final, partial, dirs, pc, job, loop, xfer, counts, stop, cooling>>

CleanDir(g) ==
    /\ pc = "clean" /\ ~opt.dry
    /\ g \in Emptied
    /\ ~ \E f \in DOMAIN final \cup marker : Group[f] = g
    /\ dirs' = dirs \ {g}
    /\ NoFault
    /\ UNCHANGED <<final, partial, markers, pc, job, loop, xfer, counts, stop, history>>

\* The run is over: the lock is released.  rmtree may also give up midway.
RunOver ==
    /\ pc = "clean"
    /\ IF opt.dry \/ Emptied = {} THEN NoFault ELSE DiskError
    /\ pc' = "idle"
    /\ current' = {}
    /\ UNCHANGED <<disk, opt, cutoff, loop, xfer, counts, stop, history>>

\* The process is killed: the directory keeps what reached it, which need not
\* include a last block that is still in the buffer of the open partial.
Kill ==
    /\ pc # "idle"
    /\ Fault
    /\ \/ UNCHANGED partial
       \/ /\ pc = "stream" /\ wire > offset
          /\ partial' = Put(partial, Cur,
                            SubSeq(partial[Cur], 1, Len(partial[Cur]) - 1))
    /\ pc' = "idle"
    /\ NoLoop /\ NoTransfer
    /\ current' = {}
    /\ total' = 0 /\ completed' = 0 /\ failed' = 0 /\ outcome' = "none"
    /\ stop' = FALSE
    /\ UNCHANGED <<final, markers, dirs, opt, cutoff, history>>

\* stop_sync, from another thread, while the job is shown as running.
RequestStop ==
    /\ pc # "idle" /\ outcome = "none" /\ ~stop
    /\ Fault
    /\ stop' = TRUE
    /\ UNCHANGED <<disk, pc, job, loop, xfer, counts, history>>

\* retry_failed_after has gone by since the last HTTP failure of a file.
WindowPasses(f) ==
    /\ f \in cooling
    /\ cooling' = cooling \ {f} /\ swept' = swept \ {f}
    /\ recent' = recent \ {f}
    /\ NoFault
    /\ UNCHANGED <<final, partial, marker, dirs, pc, job, loop, xfer, counts, stop>>

-----------------------------------------------------------------------------

Prepare ==
    \/ \E f \in Files : RemoveOutdatedFile(f) \/ RemoveOutdatedMarker(f)
    \/ DestinationPrepared
    \/ ListRecordings \/ ListingFails
    \/ \E f \in Files : PruneOrphan(f)
    \/ OrphansPruned \/ RemovalFails

Download ==
    \/ \E r \in Recordings : NextRecording(r)
    \/ DiskTooFull \/ RecordingDone \/ AllDone \/ SkipMetadata
    \/ GroupDirFails \/ AlreadyDownloaded \/ DryRunFile \/ RecentlyFailed
    \/ SendRequest

Transfer ==
    \/ AnswerWhole
    \/ \E b \in 0..(Size - 1) : \E start \in {b, NoHeader} :
          AnswerRest(b, start) \/ AnswerWrongRange(b, start)
    \/ AnswerUnsatisfiable
    \/ AnswerHttpError \/ OpenMarker \/ WriteMarker \/ MarkFails
    \/ ConnectionFails \/ TransferFails
    \/ WriteChunk \/ StopSeen \/ EndOfBody
    \/ Truncated \/ Install \/ RenameFails

Clean ==
    \/ \E f \in Files : CleanFile(f) \/ CleanMarker(f)
    \/ \E g \in Groups : CleanDir(g)
    \/ RunOver

\* What the sync thread does, and what happens to it.
Run == Prepare \/ Download \/ Transfer \/ Clean
World == Kill \/ RequestStop \/ \E f \in Files : WindowPasses(f)

Next == Start \/ Run \/ World

Spec == Init /\ [][Next]_vars

\* Every call of the sync thread returns: its sockets have a timeout.
LiveSpec == Spec /\ WF_vars(Run)

\* Moreover runs are scheduled for ever, and time goes by.
ServiceSpec ==
    LiveSpec /\ WF_vars(Start) /\ \A f \in Files : WF_vars(WindowPasses(f))

-----------------------------------------------------------------------------
(* Properties.                                                              *)

TypeOK ==
    /\ DOMAIN final \subseteq Files
    /\ \A f \in DOMAIN final : final[f] \in Seq(1..Size)
    /\ DOMAIN partial \subseteq Files
    /\ \A f \in DOMAIN partial : partial[f] \in Seq(1..Size)
    /\ marker \subseteq Files /\ recent \subseteq marker
    /\ cooling \subseteq Files /\ swept \subseteq cooling
    /\ dirs \subseteq Groups
    /\ pc \in {"idle", "prepare", "list", "prune", "next", "file", "again",
               "request", "mark", "write", "stream", "close", "clean"}
    /\ opt \in Options /\ cutoff \in Cutoffs
    /\ current \subseteq Recordings /\ todo \subseteq Recordings
    /\ rec \in Recordings \cup {NoRecording}
    /\ step \in 1..(Len(Artifacts) + 1)
    /\ offset \in Nat /\ expected \in Nat /\ wire \in 0..Size
    /\ total \in Nat /\ completed \in Nat /\ failed \in Nat
    /\ outcome \in {"none", "ok", "failed"}
    /\ stop \in BOOLEAN
    /\ faults \in 0..MaxFaults

\* A file that has its final name holds the dashcam's file, whole and in
\* order, however many resumes, truncations, restarts, kills and stops its
\* download went through (download_file, os.rename at the very end), provided
\* that the dashcam tells the length of what it sends.
FinalIsWhole == ServerSendsLength => \A f \in DOMAIN final : final[f] = Source

\* What a partial holds is always the beginning of the file, so that a later
\* run can resume it (_resume_decision, _stream_response).
PartialIsPrefix == \A f \in DOMAIN partial : partial[f] \in Contents

Downloading ==
    pc \in {"next", "file", "again", "request", "mark", "write", "stream", "close"}

\* While a run downloads there is no partial that it does not expect: orphans
\* of earlier runs are gone and it makes none (prune_orphan_partials).
NoOrphans == Downloading /\ ~opt.dry => Orphans = {}

\* From the listing to the end of the downloads the archive holds nothing
\* older than the retention limit: what prepare_destination removed is not
\* downloaded again by the same run (get_current_recordings).
RetentionHolds ==
    Downloading /\ ~opt.dry => \A f \in DOMAIN final : Day[f] >= cutoff

\* The artifacts of a recording, from the i-th on, that are not left out.
Left(i) == {k \in DOMAIN Artifacts : k >= i /\ Artifacts[k] \notin opt.skip}

\* The artifacts the download loop has still to account for.
Remaining ==
    Cardinality(todo) * ArtifactsPerRecording
      + IF rec = NoRecording THEN 0 ELSE Cardinality(Left(step))

\* At every point of the loop files_total is what has been counted and what is
\* left; so files_completed + files_failed reaches files_total at the end of a
\* successful run (docs/api.md), whatever was skipped, shared or restarted.
CountersAgree ==
    /\ Downloading => total = completed + failed + Remaining
    /\ outcome = "ok" => total = completed + failed

\* A dry run leaves the archive, the partials and the markers alone.
DryRunKeepsFiles ==
    [][pc # "idle" /\ opt.dry => UNCHANGED <<final, partial, marker>>]_vars

Requests == pc \in {"file", "again"} /\ pc' = "request"

\* A file that failed with an HTTP error is not requested again before
\* retry_failed_after has gone by, over any number of runs and kills, once its
\* marker tells the failure (mark_download_failed, _precheck_download).  The
\* exceptions are all there are: retention or the cleaning of its group
\* directory has removed the marker since, or reading it has failed.
RetryWindow == [][Requests => Cur \notin cooling \ swept']_vars

\* What the troubleshooting guide says: "it is skipped until the retry window
\* passes", without an exception.
SkippedUntilWindowPasses == [][Requests => Cur \notin cooling]_vars

\* Every run ends, whatever the dashcam answers.
RunEnds == pc # "idle" ~> pc = "idle"

\* When faults are finitely many, all recordings end up in the archive.
ArchiveCompletes == <>[](DOMAIN final = Files)

\* The detailed run implements the archive's promise.
Promise == INSTANCE Archive WITH
    File <- Files, Content <- IF ServerSendsLength THEN {Source} ELSE Contents,
    Cutoff <- Cutoffs, archive <- final, limit <- cutoff

ArchiveSpec == Promise!Spec

=============================================================================
