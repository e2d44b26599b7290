------------------------------ MODULE RunRecords ------------------------------
(***************************************************************************)
(* What is left of a run when it is over: the time of the last file pulled, *)
(* kept from run to run, the metrics file and the Pushgateway, and the rows *)
(* of the statistics page (metrics.py, stats_store.py, the frames of a run  *)
(* in cmd_sync and _do_sync, the query of api_stats.py).  The runs are the  *)
(* server's and those of command lines on the same destination, that may    *)
(* overlap, with both sinks configured and the same files.  What a sync     *)
(* does to the recordings is SyncRun's business, who may start one on the   *)
(* server SyncService's.                                                    *)
(***************************************************************************)
EXTENDS Integers, FiniteSetsExt

CONSTANTS
    Server, CommandLines,  \* the runs at any one time
    Nobody,                \* the holder of a free lock
    Absent, Torn,          \* no file; an empty file, or one with two texts in it
    Foreign,               \* a state file that is no JSON object, or no UTF-8
    Cron,                  \* whether the command lines say --cron
    Errors,                \* how a sync may fail: see Classify
    Retentions,            \* stats.retention_days, as settings may give it
    Windows,               \* the ranges of the statistics page
    MaxClock,              \* bound: the clock when a run or a pull begins
    MaxRuns,               \* bound: runs
    MaxFaults              \* bound: failures, interrupts and kills

Runs == CommandLines \cup {Server}

ASSUME RecordsAssumption ==
    /\ Nobody \notin Runs /\ Server \notin CommandLines
    /\ Cron \in BOOLEAN
    /\ Errors \subseteq {"timeout", "away", "stopped", "status", "full", "bug"}
    /\ Retentions \subseteq Nat /\ Windows \subseteq Nat
    /\ {MaxClock, MaxRuns, MaxFaults} \subseteq Nat

Reasons == {"none", "disk", "timeout", "network", "http", "unknown"}

\* The reports there may be.
Payloads == [pull : Nat, ts : Nat, ok : BOOLEAN, exit : 0..3, reason : Reasons]

ASSUME ContentsAssumption ==
    /\ Absent # Torn /\ Foreign \notin {Absent, Torn}
    /\ \A c \in {Absent, Torn, Foreign} : c \notin Nat /\ c \notin Payloads

VARIABLES
    clock,    \* time.time(), one tick a reading
    holder,   \* who holds the lock of the destination
    run,      \* the place of each run and its SyncMetrics
    state,    \* metrics state file: Absent, Torn, Foreign or the time in it
    temp,     \* .<metrics file>.tmp
    file,     \* metrics file
    fd,       \* what the file each run has open for writing is by now
    gateway,  \* what the Pushgateway has
    rows,     \* the table runs of stats.db
    started, faults,
    pulled,   \* when files were pulled (history)
    high,     \* the latest time the state file ever had (history)
    shown,    \* the latest run the metrics file ever showed (history)
    ended,    \* the rows recorded (history)
    overlap,  \* whether two runs ever were under way at once (history)
    clash     \* whether two runs ever reported at once (history)

sinks == <<state, temp, file, fd, gateway, rows>>
histories == <<pulled, high, shown, ended, overlap, clash>>
vars == <<clock, holder, run, sinks, started, faults, histories>>

\* last_successful_file_pull_timestamp_seconds is 0 for None, in the metrics too.
Idle == [pc |-> "idle", wet |-> FALSE, pull |-> 0, ok |-> FALSE, exit |-> 0,
         reason |-> "none", ts |-> 0, error |-> "none", given |-> 0, alien |-> FALSE]

Init ==
    /\ clock = 0 /\ holder = Nobody
    /\ run = [r \in Runs |-> Idle]
    /\ state \in {Absent, Foreign} /\ temp = Absent /\ file = Absent
    /\ fd = [r \in Runs |-> "none"]
    /\ gateway = Absent /\ rows = {}
    /\ started = 0 /\ faults = 0
    /\ pulled = {} /\ high = 0 /\ shown = 0 /\ ended = {}
    /\ overlap = FALSE /\ clash = FALSE

Fault == faults < MaxFaults /\ faults' = faults + 1
Go(r, place) == run' = [run EXCEPT ![r].pc = place]

-----------------------------------------------------------------------------
(* The run, from the loading of its state to the unlocking.                 *)

\* No exit code: an exception leaves cmd_sync.
Traceback == 4

\* What is left of a command line: the error its try block ended with, what it gave
\* its caller, and whether it met what neither this program nor an HTTP server writes.
Over(error, given, alien) ==
    [Idle EXCEPT !.error = error, !.given = given, !.alien = alien]

\* load_metrics_state: what cannot be read or parsed is ignored.
LoadedState == IF state \in {Absent, Torn, Foreign} THEN 0 ELSE state

\* What is parsed but has no get, or cannot be decoded, raises before there are
\* metrics: cmd_sync outside its try, the server's job fails without a report.
LoadFails(r) ==
    /\ run[r].pc = "idle" /\ started < MaxRuns
    /\ state = Foreign
    /\ started' = started + 1
    /\ run' = [run EXCEPT ![r] = IF r = Server THEN Idle ELSE Over("none", Traceback, TRUE)]
    /\ UNCHANGED <<clock, holder, sinks, faults, histories>>

\* cmd_sync and _do_sync: the state is loaded before the lock is had.
Start(r) ==
    /\ run[r].pc = "idle" /\ started < MaxRuns /\ clock < MaxClock
    /\ state # Foreign
    /\ started' = started + 1
    /\ \E wet \in BOOLEAN :
          run' = [run EXCEPT ![r] = [Idle EXCEPT !.pc = "setup", !.wet = wet,
                                                 !.pull = LoadedState]]
    /\ overlap' = (overlap \/ \E q \in Runs : run[q].pc # "idle")
    /\ UNCHANGED <<clock, holder, sinks, faults, pulled, high, shown, ended, clash>>

\* classify_run_failure: by the words of the message, a timeout first.
Classify(e) ==
    CASE e = "full" -> "disk"       \* not enough disk space
      [] e = "timeout" -> "timeout" \* of a request, or of "dashcam unavailable"
      [] e = "away" -> "network"    \* dashcam unavailable
      [] e = "status" -> "http"     \* another status code for the listing
      [] OTHER -> "unknown"

\* The except clauses: UserWarning, RuntimeError, and anything else.
ExitCode(r, e) ==
    CASE r = Server -> 1
      [] e \in {"timeout", "away", "stopped", "busy"} -> IF Cron THEN 0 ELSE 1
      [] e \in {"status", "full"} -> 2
      [] OTHER -> 3

\* A KeyboardInterrupt is not caught: only the finally clauses run.
Caught(r, e) ==
    IF e \in {"none", "interrupt"} THEN [run[r] EXCEPT !.error = e]
    ELSE [run[r] EXCEPT !.error = e, !.reason = Classify(e),
             !.exit = IF r = Server /\ run[r].ok THEN 0 ELSE ExitCode(r, e)]

\* ensure_destination and lock, or the settings are no good.
Lock(r) ==
    /\ run[r].pc = "setup"
    /\ \/ /\ holder = Nobody /\ holder' = r
          /\ Go(r, "sync") /\ UNCHANGED faults
       \/ /\ holder # Nobody
          /\ run' = [run EXCEPT ![r] = [Caught(r, "busy") EXCEPT !.pc = "report"]]
          /\ UNCHANGED <<holder, faults>>
       \/ /\ Fault
          /\ \E e \in Errors :
                run' = [run EXCEPT ![r] = [Caught(r, e) EXCEPT !.pc = "report"]]
          /\ UNCHANGED holder
    /\ UNCHANGED <<clock, sinks, started, histories>>

\* Wrong variant: the time of the pull is that of the run's start or later, dry
\* or not.
RecordAnyDownload(r) ==
    /\ clock' = clock + 1
    /\ run' = [run EXCEPT ![r].pull = clock']
    /\ pulled' = IF run[r].wet THEN pulled \cup {clock'} ELSE pulled

\* record_file_download.
RecordFileDownload(r) ==
    /\ clock' = clock + 1
    /\ run' = [run EXCEPT ![r].pull = IF run[r].wet THEN clock' ELSE @]
    /\ pulled' = IF run[r].wet THEN pulled \cup {clock'} ELSE pulled

Pull(r) ==
    /\ run[r].pc = "sync" /\ clock < MaxClock
    /\ RecordFileDownload(r)
    /\ UNCHANGED <<holder, sinks, started, faults, high, shown, ended, overlap, clash>>

SyncReturns(r) ==
    /\ run[r].pc = "sync"
    /\ run' = [run EXCEPT ![r].pc = "clean", ![r].ok = TRUE]
    /\ UNCHANGED <<clock, holder, sinks, started, faults, histories>>

\* sync raises; the interrupt is the user's, of a command line.
SyncRaises(r) ==
    /\ run[r].pc = "sync" /\ Fault
    /\ \E e \in Errors \cup (IF r = Server THEN {} ELSE {"interrupt"}) :
          run' = [run EXCEPT ![r].pc = "clean", ![r].error = e]
    /\ UNCHANGED <<clock, holder, sinks, started, histories>>

\* clean_destination, whose error takes the place of the sync's; then except.
Clean(r) ==
    /\ run[r].pc = "clean"
    /\ \/ /\ run' = [run EXCEPT ![r] = [Caught(r, run[r].error) EXCEPT !.pc = "unlock"]]
          /\ UNCHANGED faults
       \/ /\ Fault
          /\ run' = [run EXCEPT ![r] = [Caught(r, "bug") EXCEPT !.pc = "unlock"]]
    /\ UNCHANGED <<clock, holder, sinks, started, histories>>

Unlock(r) ==
    /\ run[r].pc = "unlock"
    /\ holder' = Nobody
    /\ Go(r, "report")
    /\ UNCHANGED <<clock, sinks, started, faults, histories>>

-----------------------------------------------------------------------------
(* The reports, after the lock is released.                                 *)

Reporting(r) == run[r].pc \in {"save", "state", "emit", "text", "replace"}

Finalize(r) ==
    /\ run[r].pc = "report"
    /\ clock' = clock + 1
    /\ run' = [run EXCEPT ![r].pc = "save", ![r].ts = clock']
    /\ clash' = (clash \/ \E q \in Runs : Reporting(q))
    /\ UNCHANGED <<holder, sinks, started, faults, pulled, high, shown, ended, overlap>>

\* Wrong variant: a time that is not known is saved too.
NothingToSave(r) == FALSE

NoPull(r) == run[r].pull = 0

\* save_metrics_state: the file is opened, and so truncated, then written.
OpenState(r) ==
    /\ run[r].pc = "save"
    /\ \/ NoPull(r) /\ Go(r, "emit") /\ UNCHANGED <<state, faults>>
       \/ ~NoPull(r) /\ Go(r, "state") /\ state' = Torn /\ UNCHANGED faults
       \/ ~NoPull(r) /\ Go(r, "emit") /\ Fault /\ UNCHANGED state
    /\ UNCHANGED <<clock, holder, temp, file, fd, gateway, rows, started, histories>>

\* Over what another run wrote since, of which an end may be left.
WriteState(r) ==
    /\ run[r].pc = "state"
    /\ \/ /\ state' \in {run[r].pull} \cup (IF state = Torn THEN {} ELSE {Torn})
          /\ UNCHANGED faults
       \/ Fault /\ UNCHANGED state
    /\ high' = IF state' = Torn THEN high ELSE Max({high, LoadedState'})
    /\ Go(r, "emit")
    /\ UNCHANGED <<clock, holder, temp, file, fd, gateway, rows, started, pulled,
                   shown, ended, overlap, clash>>

\* render_metrics: what a run reports.
Payload(r) == [pull |-> run[r].pull, ts |-> run[r].ts, ok |-> run[r].ok,
               exit |-> run[r].exit, reason |-> run[r].reason]

\* except OSError: the temporary file is removed, whosever it is.
GiveUp(r) ==
    /\ temp' = Absent
    /\ fd' = [q \in Runs |-> IF q = r THEN "none" ELSE IF fd[q] = "temp" THEN "gone" ELSE fd[q]]
    /\ Go(r, "push")
    /\ UNCHANGED <<file, shown>>

\* Wrong variant: the metrics file itself is opened.
OpenInPlace(r) ==
    /\ file' = Torn /\ UNCHANGED temp
    /\ fd' = [fd EXCEPT ![r] = "file"]

OpenTruncated(r) ==
    /\ temp' = Torn /\ UNCHANGED file
    /\ fd' = [fd EXCEPT ![r] = "temp"]

OpenTemp(r) ==
    /\ run[r].pc = "emit"
    /\ \/ OpenTruncated(r) /\ Go(r, "text") /\ UNCHANGED <<faults, shown>>
       \/ Fault /\ GiveUp(r)
    /\ UNCHANGED <<clock, holder, state, gateway, rows, started, pulled, high, ended,
                   overlap, clash>>

\* A text written where another run may have written since it was opened.
Written(content, text) == {text} \cup (IF content = Torn THEN {} ELSE {Torn})

\* write, flush, fsync, close: to the file that was opened, whatever its name is.
WriteTemp(r) ==
    /\ run[r].pc = "text"
    /\ \/ /\ CASE fd[r] = "temp" -> temp' \in Written(temp, Payload(r)) /\ UNCHANGED file
               [] fd[r] = "file" -> file' \in Written(file, Payload(r)) /\ UNCHANGED temp
               [] OTHER -> UNCHANGED <<temp, file>>
          /\ fd' = [fd EXCEPT ![r] = "none"]
          /\ shown' = IF file' \in {Absent, Torn} THEN shown ELSE Max({shown, file'.ts})
          /\ Go(r, "replace")
          /\ UNCHANGED faults
       \/ Fault /\ GiveUp(r)
    /\ UNCHANGED <<clock, holder, state, gateway, rows, started, pulled, high, ended,
                   overlap, clash>>

\* os.replace: who has the temporary file open now has the metrics file open.
Replace(r) ==
    /\ run[r].pc = "replace"
    /\ \/ /\ temp # Absent
          /\ file' = temp /\ temp' = Absent
          /\ fd' = [q \in Runs |-> IF fd[q] = "temp" THEN "file"
                                   ELSE IF fd[q] = "file" THEN "gone" ELSE fd[q]]
          /\ shown' = IF temp = Torn THEN shown ELSE Max({shown, temp.ts})
          /\ Go(r, "push")
          /\ UNCHANGED faults
       \/ temp = Absent /\ GiveUp(r) /\ UNCHANGED faults
       \/ Fault /\ GiveUp(r)
    /\ UNCHANGED <<clock, holder, state, gateway, rows, started, pulled, high, ended,
                   overlap, clash>>

\* return exit_code, or the interrupt that the finally clause let through.
Returned(r) == IF run[r].error = "interrupt" THEN Traceback ELSE run[r].exit

Done(r, given, alien) ==
    run' = [run EXCEPT ![r] = IF r = Server THEN [run[r] EXCEPT !.pc = "record"]
                              ELSE Over(run[r].error, given, alien)]

\* Wrong variant: an error of the gateway is not caught.
PushRaises(r) ==
    /\ Fault
    /\ Done(r, Traceback, FALSE)

\* push_metrics logs an OSError; the HTTPException of an answer that is not HTTP is
\* none: _do_sync suppresses it, and cmd_sync does not.
PushFails(r) ==
    /\ Fault
    /\ Done(r, Returned(r), FALSE) \/ Done(r, Traceback, TRUE)

Push(r) ==
    /\ run[r].pc = "push"
    /\ \/ Done(r, Returned(r), FALSE) /\ gateway' = Payload(r) /\ UNCHANGED faults
       \/ PushFails(r) /\ gateway' \in {gateway, Payload(r)}
    /\ UNCHANGED <<clock, holder, state, temp, file, fd, rows, started, histories>>

-----------------------------------------------------------------------------
(* The statistics, of the server's runs.                                    *)

Row(r) == [ts |-> run[r].ts, ok |-> run[r].ok, exit |-> run[r].exit,
           reason |-> run[r].reason, wet |-> run[r].wet]

\* INSERT OR REPLACE, one transaction; if it fails there is no pruning either.
RecordRun(r) ==
    /\ run[r].pc = "record"
    /\ \/ /\ rows' = {x \in rows : x.ts # run[r].ts} \cup {Row(r)}
          /\ ended' = ended \cup {Row(r)}
          /\ Go(r, "prune") /\ UNCHANGED faults
       \/ Fault /\ run' = [run EXCEPT ![r] = Idle] /\ UNCHANGED <<rows, ended>>
    /\ UNCHANGED <<clock, holder, state, temp, file, fd, gateway, started, pulled, high,
                   shown, overlap, clash>>

\* Wrong variant: a retention of 0 is one of no days.
KeepsNone(days) == FALSE

KeepsAll(days) == days <= 0

Prune(r) ==
    /\ run[r].pc = "prune"
    /\ run' = [run EXCEPT ![r] = Idle]
    /\ \/ \E days \in Retentions :
             /\ rows' = IF KeepsAll(days) THEN rows ELSE {x \in rows : x.ts >= clock - days}
             /\ UNCHANGED faults
       \/ Fault /\ UNCHANGED rows
    /\ UNCHANGED <<clock, holder, state, temp, file, fd, gateway, started, histories>>

Query(since) == {x \in rows : x.ts >= since}

\* GET /api/stats/series: the rows since the window began.
Series(window) == Query(clock - window)

-----------------------------------------------------------------------------
\* The process of the run is killed; the kernel closes its files and its lock.
Kill(r) ==
    /\ run[r].pc # "idle" /\ Fault
    /\ run' = [run EXCEPT ![r] = Idle]
    /\ fd' = [fd EXCEPT ![r] = "none"]
    /\ holder' = IF holder = r THEN Nobody ELSE holder
    /\ UNCHANGED <<clock, state, temp, file, gateway, rows, started, histories>>

Synchronise(r) ==
    \/ LoadFails(r) \/ Start(r) \/ Lock(r) \/ Pull(r) \/ SyncReturns(r) \/ SyncRaises(r)
    \/ Clean(r) \/ Unlock(r)

Report(r) ==
    \/ Finalize(r) \/ OpenState(r) \/ WriteState(r)
    \/ OpenTemp(r) \/ WriteTemp(r) \/ Replace(r) \/ Push(r)
    \/ RecordRun(r) \/ Prune(r)

Next == \E r \in Runs : Synchronise(r) \/ Report(r) \/ Kill(r)

Spec == Init /\ [][Next]_vars

-----------------------------------------------------------------------------
(* Properties.                                                              *)

Places == {"idle", "setup", "sync", "clean", "unlock", "report", "save", "state",
           "emit", "text", "replace", "push", "record", "prune"}

RunStates ==
    [pc : Places, wet : BOOLEAN, pull : Nat, ok : BOOLEAN, exit : 0..3,
     reason : Reasons, ts : Nat,
     error : Errors \cup {"none", "busy", "bug", "interrupt"},
     given : 0..4, alien : BOOLEAN]

TypeOK ==
    /\ clock \in Nat /\ pulled \subseteq Nat
    /\ run \in [Runs -> RunStates]

\* A time of the last pull that is kept or reported is one at which a run that
\* was not dry did pull a file, whatever was torn, loaded and saved meanwhile.
PullIsTrue ==
    /\ LoadedState \in pulled \cup {0}
    /\ \A c \in {file, gateway} \ {Absent, Torn} : c.pull \in pulled \cup {0}

\* The time kept never goes back while runs do not overlap, and is lost only
\* when a save is cut off or fails; the lock does not cover load and save.
StateKept ==
    ~overlap => /\ state \in {Absent, Torn, Foreign, high}
                /\ state = Torn => faults > 0 \/ \E r \in Runs : run[r].pc = "state"

\* Kills and failing writes leave the metrics file whole, the newest report made;
\* only two runs that report at once, into one temporary file, can tear it.
MetricsFileWhole ==
    file # Absent /\ ~clash => file # Torn /\ file.ts = shown

\* What the sync of a command line came to: the code for the error it ended with.
Result(r, e) ==
    CASE e = "none" -> 0
      [] e = "interrupt" -> Traceback
      [] OTHER -> ExitCode(r, e)

\* A command line gives its caller the result of its sync, whichever of the state
\* file, the metrics file and the gateway fails or is torn by another run meanwhile;
\* only a state file of someone else's making, or a gateway that answers no HTTP,
\* puts a traceback in its place.
DeliveryKeepsResult ==
    \A r \in CommandLines : run[r].pc = "idle" =>
        run[r].given \in {Result(r, run[r].error)}
                             \cup (IF run[r].alien THEN {Traceback} ELSE {})

\* The statistics page shows every recorded run of its range if no retention
\* the settings ever gave is shorter than the range.
SeriesIsComplete ==
    \A w \in Windows :
        (\A days \in Retentions : days = 0 \/ w <= days) =>
            Series(w) = {e \in ended : e.ts >= clock - w}

=============================================================================
