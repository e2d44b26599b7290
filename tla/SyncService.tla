----------------------------- MODULE SyncService -----------------------------
(***************************************************************************)
(* Who may sync, and what is said about it: the web requests and the        *)
(* scheduler that call trigger_sync, the sync thread it starts, the         *)
(* progress publisher with its retention timer, the requests to stop, the   *)
(* command-line processes that sync the same destination, and the end of    *)
(* the server process (sync_runner.py, progress.py, api_sync.py,            *)
(* scheduler.py, __main__.py).  What a sync does to the destination is      *)
(* SyncRun's business: here it is one of the thread's places.               *)
(***************************************************************************)
EXTENDS Naturals, FiniteSets

CONSTANTS
    Callers,          \* the threads that call trigger_sync
    Scheduler,        \* the one of them that is the scheduler's executor
    Stoppers,         \* the request threads that serve stop_sync
    Outsiders,        \* the command-line processes on the same destination
    Nobody, Server,   \* who holds the lock file, besides an outsider
    MaxJobs,          \* bound: jobs of a behaviour
    MaxEnds,          \* bound: ends of the server process
    ThreadsMayFail,   \* TRUE when Thread.start may raise
    CleaningIsQuick   \* TRUE when what a sync thread does after end_job takes
                      \* less than POST_COMPLETE_RETENTION

ASSUME ServiceAssumption ==
    /\ Scheduler \in Callers
    /\ Nobody # Server /\ {Nobody, Server} \cap Outsiders = {}
    /\ MaxJobs \in Nat /\ MaxEnds \in Nat
    /\ {ThreadsMayFail, CleaningIsQuick} \subseteq BOOLEAN

Jobs == 1..MaxJobs
NoJob == 0

VARIABLES
    locked,     \* _sync_lock
    currentJob, \* _current_job_id
    created,    \* how many job ids uuid4 has given out
    caller,     \* each caller's place in trigger_sync, its job and its answer
    thread,     \* the place of each job's thread in _do_sync
    result,     \* how the sync of each job went
    fileLock,   \* who holds .blackvuesync.lock
    outsider,   \* the place of each outsider in cmd_sync
    pub,        \* the publisher's snapshot: job and state
    handle,     \* _retention_timer: the job whose timer it is
    timer,      \* the timer of each job
    shown,      \* the states published under each job (history)
    stopFlag,   \* _stop_event
    stopper,    \* the job each stop_sync has read, NoJob before
    asked,      \* the jobs a stop_sync answered it was stopping (history)
    stopped,    \* the jobs that ended because of the stop flag (history)
    server,     \* the server process
    ends        \* how often it has ended, bounded by MaxEnds

callers == <<locked, currentJob, created, caller>>
threads == <<thread, result>>
files == <<fileLock, outsider>>
publisher == <<pub, handle, timer, shown>>
stops == <<stopFlag, stopper, asked, stopped>>
process == <<server, ends>>
vars == <<callers, threads, files, publisher, stops, process>>

Idle == [job |-> NoJob, state |-> "idle"]
Resting == [pc |-> "idle", job |-> NoJob]

Init ==
    /\ locked = FALSE /\ currentJob = NoJob /\ created = 0
    /\ caller = [c \in Callers |-> Resting]
    /\ thread = [j \in Jobs |-> "none"] /\ result = [j \in Jobs |-> "none"]
    /\ fileLock = Nobody /\ outsider = [o \in Outsiders |-> "idle"]
    /\ pub = Idle /\ handle = NoJob /\ timer = [j \in Jobs |-> "off"]
    /\ shown = [j \in Jobs |-> {}]
    /\ stopFlag = FALSE /\ stopper = [s \in Stoppers |-> NoJob]
    /\ asked = {} /\ stopped = {}
    /\ server = "up" /\ ends = 0

Alive(j) == thread[j] \notin {"none", "done", "dead"}

-----------------------------------------------------------------------------
(* trigger_sync, one step per access to what the threads share.             *)

\* A wrong variant: the stop flag is cleared before the lock is tried.
ClearStopAndTrigger(c) ==
    /\ server = "up"
    /\ caller[c].pc \in {"idle", "answered"}
    /\ stopFlag' = FALSE
    /\ caller' = [caller EXCEPT ![c] =
          [pc |-> IF locked \/ created = MaxJobs THEN "busy" ELSE "clear",
           job |-> NoJob]]
    /\ locked' = (locked \/ created < MaxJobs)
    /\ UNCHANGED <<currentJob, created, threads, files, publisher, stopper,
                   asked, stopped, process>>

\* A request to sync now, or a tick of the schedule, tries the lock.
Trigger(c) ==
    /\ server = "up" \/ (server = "stopping" /\ c = Scheduler)
    /\ caller[c].pc \in {"idle", "answered"}
    /\ \/ /\ ~locked /\ created < MaxJobs
          /\ locked' = TRUE
          /\ caller' = [caller EXCEPT ![c] = [pc |-> "clear", job |-> NoJob]]
       \/ /\ locked
          /\ caller' = [caller EXCEPT ![c] = [pc |-> "busy", job |-> NoJob]]
          /\ UNCHANGED locked
    /\ UNCHANGED <<currentJob, created, threads, files, publisher, stops, process>>

\* The lock was taken: the answer names _current_job_id, else what is shown.
AnswerBusy(c) ==
    /\ caller[c].pc = "busy"
    /\ caller' = [caller EXCEPT ![c] =
          [pc |-> "answered",
           job |-> IF currentJob # NoJob THEN currentJob ELSE pub.job]]
    /\ UNCHANGED <<locked, currentJob, created, threads, files, publisher,
                   stops, process>>

ClearStop(c) ==
    /\ caller[c].pc = "clear"
    /\ stopFlag' = FALSE
    /\ caller' = [caller EXCEPT ![c].pc = "name"]
    /\ UNCHANGED <<locked, currentJob, created, threads, files, publisher,
                   stopper, asked, stopped, process>>

NameJob(c) ==
    /\ caller[c].pc = "name"
    /\ created' = created + 1
    /\ currentJob' = created + 1
    /\ caller' = [caller EXCEPT ![c] = [pc |-> "spawn", job |-> created + 1]]
    /\ UNCHANGED <<locked, threads, files, publisher, stops, process>>

SpawnThread(c) ==
    /\ caller[c].pc = "spawn"
    /\ thread' = [thread EXCEPT ![caller[c].job] = "configure"]
    /\ caller' = [caller EXCEPT ![c] = Resting]
    /\ UNCHANGED <<locked, currentJob, created, result, files, publisher,
                   stops, process>>

\* t.start() raises: the request fails, and nothing gives the lock back.
SpawnFails(c) ==
    /\ ThreadsMayFail
    /\ caller[c].pc = "spawn"
    /\ caller' = [caller EXCEPT ![c] = Resting]
    /\ UNCHANGED <<locked, currentJob, created, threads, files, publisher,
                   stops, process>>

-----------------------------------------------------------------------------
(* The publisher: every operation holds its lock throughout.                *)

Publish(snap) ==
    /\ pub' = snap
    /\ shown' = [shown EXCEPT ![snap.job] = @ \cup {snap.state}]

\* Timer.cancel: of no effect once the timer has stopped waiting.
Cancelled(h) ==
    [j \in Jobs |-> IF j = h /\ timer[j] = "armed" THEN "off" ELSE timer[j]]

BeginJob(j) ==
    /\ Publish([job |-> j, state |-> "running"])
    /\ timer' = Cancelled(handle)
    /\ handle' = NoJob

\* A wrong variant: no timer is started.
EndJobForGood(state) ==
    /\ Publish([job |-> pub.job, state |-> state])
    /\ timer' = Cancelled(handle)
    /\ handle' = NoJob

EndJob(state) ==
    /\ Publish([job |-> pub.job, state |-> state])
    /\ timer' = [Cancelled(handle) EXCEPT ![pub.job] = "armed"]
    /\ handle' = pub.job

\* POST_COMPLETE_RETENTION is over: the timer goes for the publisher's lock.
TimerFires(j) ==
    /\ timer[j] = "armed"
    /\ CleaningIsQuick => thread[j] \notin {"clean", "unlock", "surface"}
    /\ timer' = [timer EXCEPT ![j] = "firing"]
    /\ UNCHANGED <<callers, threads, files, pub, handle, shown, stops, process>>

\* A wrong variant: whatever is shown is reset.
NeverSuperseded(j) == FALSE

\* _reset_to_idle: not when a newer job is shown, or one that runs.
Superseded(j) == pub.job # j \/ pub.state = "running"

ResetToIdle(j) ==
    /\ timer[j] = "firing"
    /\ timer' = [timer EXCEPT ![j] = "off"]
    /\ IF Superseded(j)
       THEN UNCHANGED <<pub, handle>>
       ELSE pub' = Idle /\ handle' = NoJob
    /\ UNCHANGED <<callers, threads, files, shown, stops, process>>

-----------------------------------------------------------------------------
(* The sync thread: _run, _do_sync and the frame of sync().                 *)

Goto(j, from, to) == thread[j] = from /\ thread' = [thread EXCEPT ![j] = to]
Result(j, r) == result' = [result EXCEPT ![j] = r]

\* A wrong variant: bad settings raise out of _run.
ConfigureRaises(j) ==
    /\ \/ Goto(j, "configure", "lock") /\ UNCHANGED result
       \/ Goto(j, "configure", "done") /\ Result(j, "failed")
    /\ UNCHANGED <<callers, files, publisher, stops, process>>

\* Settings are applied and the destination is checked.
Configure(j) ==
    /\ \/ Goto(j, "configure", "lock") /\ UNCHANGED result
       \/ Goto(j, "configure", "surface") /\ Result(j, "failed")
    /\ UNCHANGED <<callers, files, publisher, stops, process>>

\* A wrong variant: the thread does not mind who has the lock file.
TakeFileLockAnyway(j) ==
    /\ Goto(j, "lock", "begin")
    /\ fileLock' = Server
    /\ UNCHANGED <<callers, result, outsider, publisher, stops, process>>

\* lock(): fcntl locks belong to the process, so the server's own lock is no
\* obstacle to another of its threads.
TakeFileLock(j) ==
    /\ \/ /\ fileLock \in {Nobody, Server}
          /\ Goto(j, "lock", "begin")
          /\ fileLock' = Server
          /\ UNCHANGED result
       \/ /\ fileLock \in Outsiders
          /\ Goto(j, "lock", "surface")
          /\ Result(j, "failed")
          /\ UNCHANGED fileLock
    /\ UNCHANGED <<callers, outsider, publisher, stops, process>>

SyncBegins(j) ==
    /\ Goto(j, "begin", "download")
    /\ BeginJob(j)
    /\ UNCHANGED <<callers, result, files, stops, process>>

\* _sync_recordings returns or raises; SyncRun says how.
SyncRecordings(j) ==
    /\ Goto(j, "download", "end")
    /\ \E r \in {"ok", "failed"} : Result(j, r)
    /\ UNCHANGED <<callers, files, publisher, stops, process>>

\* The chunk loop finds the stop flag set.
SyncStopped(j) ==
    /\ stopFlag
    /\ Goto(j, "download", "end")
    /\ Result(j, "failed")
    /\ stopped' = stopped \cup {j}
    /\ UNCHANGED <<callers, files, publisher, stopFlag, stopper, asked, process>>

SyncEnds(j) ==
    /\ Goto(j, "end", "clean")
    /\ EndJob(IF result[j] = "ok" THEN "complete" ELSE "failed")
    /\ UNCHANGED <<callers, result, files, stops, process>>

\* clean_destination, whether it raises or not.
CleanDestination(j) ==
    /\ Goto(j, "clean", "unlock")
    /\ UNCHANGED <<callers, result, files, publisher, stops, process>>

Unlock(j) ==
    /\ Goto(j, "unlock", "surface")
    /\ fileLock' = Nobody
    /\ UNCHANGED <<callers, result, outsider, publisher, stops, process>>

\* A wrong variant: a job that never began is passed over in silence.
SurfaceNothing(j) ==
    /\ Goto(j, "surface", "record")
    /\ UNCHANGED <<callers, result, files, publisher, stops, process>>

\* A job that is not the one shown is taken for one that never began.
Surface(j) ==
    /\ Goto(j, "surface", IF pub.job # j THEN "lateBegin" ELSE "record")
    /\ UNCHANGED <<callers, result, files, publisher, stops, process>>

LateBegin(j) ==
    /\ Goto(j, "lateBegin", "lateEnd")
    /\ BeginJob(j)
    /\ UNCHANGED <<callers, result, files, stops, process>>

LateEnd(j) ==
    /\ Goto(j, "lateEnd", "record")
    /\ EndJob("failed")
    /\ UNCHANGED <<callers, result, files, stops, process>>

\* Metrics and statistics are written, then _run gives the lock back.
Release(j) ==
    /\ Goto(j, "record", "done")
    /\ locked' = FALSE
    /\ UNCHANGED <<currentJob, created, caller, result, files, publisher,
                   stops, process>>

-----------------------------------------------------------------------------
(* stop_sync.                                                               *)

\* The snapshot shows a running job; otherwise the answer is 404.
StopReads(s) ==
    /\ server = "up"
    /\ stopper[s] = NoJob
    /\ pub.state = "running"
    /\ stopper' = [stopper EXCEPT ![s] = pub.job]
    /\ UNCHANGED <<callers, threads, files, publisher, stopFlag, asked, stopped,
                   process>>

\* request_stop, and the answer that names the job that was shown.
StopSets(s) ==
    /\ stopper[s] # NoJob
    /\ stopFlag' = TRUE
    /\ asked' = asked \cup {stopper[s]}
    /\ stopper' = [stopper EXCEPT ![s] = NoJob]
    /\ UNCHANGED <<callers, threads, files, publisher, stopped, process>>

-----------------------------------------------------------------------------
(* The command line, and the end of the server.                             *)

\* cmd_sync takes the lock file; when it is taken it exits with a warning.
OutsiderBegins(o) ==
    /\ outsider[o] = "idle"
    /\ fileLock = Nobody
    /\ fileLock' = o
    /\ outsider' = [outsider EXCEPT ![o] = "sync"]
    /\ UNCHANGED <<callers, threads, publisher, stops, process>>

\* It unlocks at the end, and the kernel does when it is killed.
OutsiderEnds(o) ==
    /\ outsider[o] = "sync"
    /\ fileLock' = Nobody
    /\ outsider' = [outsider EXCEPT ![o] = "idle"]
    /\ UNCHANGED <<callers, threads, publisher, stops, process>>

\* waitress.serve returns.
ShutDown ==
    /\ server = "up" /\ ends < MaxEnds
    /\ server' = "stopping"
    /\ UNCHANGED <<callers, threads, files, publisher, stops, ends>>

\* The process is gone, its daemon threads and its locks with it.
Vanish ==
    /\ ends < MaxEnds
    /\ server' = "down"
    /\ ends' = ends + 1
    /\ locked' = FALSE /\ currentJob' = NoJob
    /\ caller' = [c \in Callers |-> Resting]
    /\ thread' = [j \in Jobs |-> IF Alive(j) THEN "dead" ELSE thread[j]]
    /\ fileLock' = IF fileLock = Server THEN Nobody ELSE fileLock
    /\ pub' = Idle /\ handle' = NoJob /\ timer' = [j \in Jobs |-> "off"]
    /\ stopFlag' = FALSE /\ stopper' = [s \in Stoppers |-> NoJob]
    /\ UNCHANGED <<created, result, outsider, shown, asked, stopped>>

\* scheduler.shutdown(wait=True) waits for the executor's thread, and
\* cmd_serve returns.
Exit ==
    /\ server = "stopping"
    /\ caller[Scheduler].pc \in {"idle", "answered"}
    /\ Vanish

Crash == server # "down" /\ Vanish

Restart ==
    /\ server = "down"
    /\ server' = "up"
    /\ UNCHANGED <<callers, threads, files, publisher, stops, ends>>

-----------------------------------------------------------------------------

Call(c) ==
    \/ AnswerBusy(c) \/ ClearStop(c) \/ NameJob(c) \/ SpawnThread(c)
    \/ SpawnFails(c)

Work(j) ==
    \/ Configure(j) \/ TakeFileLock(j) \/ SyncBegins(j) \/ SyncRecordings(j)
    \/ SyncStopped(j) \/ SyncEnds(j) \/ CleanDestination(j) \/ Unlock(j)
    \/ Surface(j) \/ LateBegin(j) \/ LateEnd(j) \/ Release(j)

Time(j) == TimerFires(j) \/ ResetToIdle(j)

Next ==
    \/ \E c \in Callers : Trigger(c) \/ Call(c)
    \/ \E j \in Jobs : Work(j) \/ Time(j)
    \/ \E s \in Stoppers : StopReads(s) \/ StopSets(s)
    \/ \E o \in Outsiders : OutsiderBegins(o) \/ OutsiderEnds(o)
    \/ ShutDown \/ Exit \/ Crash \/ Restart

Spec == Init /\ [][Next]_vars

\* Threads run: a handler finishes, a sync ends (SyncRun's RunEnds), a timer
\* fires when its time has come.
LiveSpec ==
    /\ Spec
    /\ \A c \in Callers : WF_vars(Call(c))
    /\ \A j \in Jobs : WF_vars(Work(j)) /\ WF_vars(Time(j))

-----------------------------------------------------------------------------
(* Properties.                                                              *)

CallerPlaces ==
    [pc : {"idle", "busy", "answered", "clear", "name", "spawn"},
     job : Jobs \cup {NoJob}]

TypeOK ==
    /\ locked \in BOOLEAN
    /\ currentJob \in Jobs \cup {NoJob} /\ created \in 0..MaxJobs
    /\ caller \in [Callers -> CallerPlaces]
    /\ thread \in [Jobs -> {"none", "configure", "lock", "begin", "download",
                            "end", "clean", "unlock", "surface", "lateBegin",
                            "lateEnd", "record", "done", "dead"}]
    /\ result \in [Jobs -> {"none", "ok", "failed"}]
    /\ fileLock \in {Nobody, Server} \cup Outsiders
    /\ outsider \in [Outsiders -> {"idle", "sync"}]
    /\ pub \in [job : Jobs \cup {NoJob},
                state : {"idle", "running", "complete", "failed"}]
    /\ handle \in Jobs \cup {NoJob}
    /\ timer \in [Jobs -> {"off", "armed", "firing"}]
    /\ shown \in [Jobs -> SUBSET {"running", "complete", "failed"}]
    /\ stopFlag \in BOOLEAN
    /\ stopper \in [Stoppers -> Jobs \cup {NoJob}]
    /\ asked \subseteq Jobs /\ stopped \subseteq Jobs
    /\ server \in {"up", "stopping", "down"} /\ ends \in 0..MaxEnds

\* Those who are at work on the destination.
Syncing == {j \in Jobs : thread[j] \in {"begin", "download", "end", "clean", "unlock"}}
Outside == {o \in Outsiders : outsider[o] = "sync"}

\* Never do two syncs work on the destination at once, whether they are
\* threads of the server or other processes (_sync_lock inside the process,
\* the lock file between processes).
MutualExclusion ==
    /\ \A j, k \in Syncing : j = k
    /\ \A o, p \in Outside : o = p
    /\ Syncing = {} \/ Outside = {}

\* While a job downloads, and until it says how it went, the publisher shows
\* that job as running: no timer of an earlier job wipes it (_reset_to_idle).
RunningIsShown ==
    \A j \in Jobs : thread[j] \in {"download", "end", "lateEnd"} =>
        pub = [job |-> j, state |-> "running"]

\* By the time a job gives the lock back it has been shown to end, in one way,
\* the way its sync went: lock contention and bad settings surface too
\* (_do_sync's finally, under the id returned to the caller).
ResultShown ==
    \A j \in Jobs : thread[j] = "done" =>
        shown[j] \cap {"complete", "failed"}
            = {IF result[j] = "ok" THEN "complete" ELSE "failed"}

\* What the threads, the timers and the ends of the process make of the jobs is
\* one story for each, told on one board: none is wiped off while it runs, none
\* begins beside another or twice, none ends otherwise than its sync went
\* (begin_job, end_job and _reset_to_idle as _do_sync calls them).
Board == INSTANCE JobBoard WITH
    Job <- Jobs, Nothing <- Idle, board <- pub, told <- shown, fate <- result,
    lost <- {j \in Jobs : thread[j] = "dead"}

BoardSpec == Board!Spec

\* A stop that was acknowledged is not forgotten while the job it names is
\* downloading: nobody clears the flag under it (clear_stop needs the lock).
StopIsNotLost ==
    \A j \in Jobs : j \in asked /\ thread[j] = "download" => stopFlag

\* A job is stopped only by a stop_sync that answered that it stops that job: the
\* comment in stop_sync says so, but a job may begin between its read and its
\* write.  No run checks it; TLC finds the counterexample.
StopsOnlyWhatWasAsked == stopped \subseteq asked

\* The server exits by itself only when no sync is active: the comment in
\* cmd_serve says so, but the scheduler's thread is not the sync's.  No run
\* checks it; TLC finds the counterexample.
ShutdownWaits == [][Exit => \A j \in Jobs : ~Alive(j)]_vars

\* A job was named, and Thread.start raised.
NotStarted ==
    /\ currentJob # NoJob /\ thread[currentJob] = "none"
    /\ \A c \in Callers : caller[c].pc # "spawn"

\* A sync gives the lock back, so the next one can start, unless its thread
\* could not be started.
LockIsReleased == locked ~> (~locked \/ NotStarted)

\* An ended job is not shown for ever: the publisher turns to idle, or to the
\* next job.
EndedIsForgotten ==
    \A j \in Jobs :
        (pub.job = j /\ pub.state \in {"complete", "failed"})
            ~> (pub.job # j \/ pub.state = "running")

=============================================================================
