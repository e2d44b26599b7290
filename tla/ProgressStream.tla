---------------------------- MODULE ProgressStream ----------------------------
(***************************************************************************)
(* How the progress of a sync reaches a dashboard: the publisher and the    *)
(* small queue of each subscriber, the stream that drains it, and the page  *)
(* that shows what it is sent, with its timers and its "sync now" button    *)
(* (progress.py, api_sync.py, ui.py, dashboard.js).  A snapshot is known by *)
(* its last_event_monotonic; what it counts is SyncRun's business, which    *)
(* job may begin SyncService's, and the slots of streams LogStream's.       *)
(***************************************************************************)
EXTENDS Naturals, Sequences

CONSTANTS
    Dashboards,       \* the pages
    QueueMax,         \* maxsize of a subscriber's queue
    RetentionIsLong,  \* TRUE when POST_COMPLETE_RETENTION outlasts the cleaning
                      \* after end_job and the answer to a POST
    HostMayReboot,    \* TRUE when the host's monotonic clock may start again
    MaxClock,         \* bound: readings of the clock
    MaxJobs,          \* bound: jobs
    MaxFaults         \* bound: ends of the server process, and connections
                      \* lost while both ends live

ASSUME ProgressAssumption ==
    /\ QueueMax \in Nat \ {0}
    /\ {RetentionIsLong, HostMayReboot} \subseteq BOOLEAN
    /\ {MaxClock, MaxJobs, MaxFaults} \subseteq Nat

VARIABLES
    clock,     \* time.monotonic(), one tick a reading
    pub,       \* _state
    job,       \* where the sync stands: see Jobs below
    begun,     \* jobs triggered so far
    writer,    \* what the sync thread is about to report, and its reading
    stream,    \* the place of each dashboard's stream in subscribe()
    queue,     \* the queue of each stream
    sent,      \* last_event_monotonic of the last frame of each stream
    net,       \* the frames on their way to each dashboard
    source,    \* whether each dashboard has an EventSource
    view,      \* progress, as each dashboard shows it
    body,      \* body[data-state] of each dashboard
    newest,    \* _lastMonotonic of each dashboard
    linger,    \* the pending calls of _revertToIdle
    reconnect, \* the pending calls of _scheduleReconnect
    click,     \* the POST of each dashboard to /api/sync/now
    faults     \* restarts and lost connections so far

publisher == <<clock, pub, job, begun, writer>>
streams == <<stream, queue, sent>>
shows == <<view, body, newest>>
timers == <<linger, reconnect, click>>
vars == <<publisher, streams, net, source, shows, timers, faults>>

Snap(t, s, f) == [stamp |-> t, state |-> s, first |-> f]
Nothing == [op |-> "none", stamp |-> 0]

Init ==
    /\ clock = 1 /\ pub = Snap(1, "idle", FALSE)
    /\ job = "free" /\ begun = 0 /\ writer = Nothing
    /\ stream = [d \in Dashboards |-> "none"]
    /\ queue = [d \in Dashboards |-> <<>>]
    /\ sent = [d \in Dashboards |-> 0]
    /\ net = [d \in Dashboards |-> <<>>]
    /\ source = [d \in Dashboards |-> FALSE]
    /\ view = [d \in Dashboards |-> Snap(0, "idle", FALSE)]
    /\ body = [d \in Dashboards |-> "away"]
    /\ newest = [d \in Dashboards |-> 0]
    /\ linger = [d \in Dashboards |-> 0]
    /\ reconnect = [d \in Dashboards |-> FALSE]
    /\ click = [d \in Dashboards |-> "none"]
    /\ faults = 0

-----------------------------------------------------------------------------
(* The publisher.  An operation of the sync thread reads the clock before   *)
(* it takes the lock, so its snapshot may be older than the one it replaces.*)

Registered(d) == stream[d] \in {"get", "beat"}

\* put_nowait on every queue: a full one drops the snapshot.
Publish(snap) ==
    /\ pub' = snap
    /\ queue' = [d \in Dashboards |->
          IF Registered(d) /\ Len(queue[d]) < QueueMax
          THEN Append(queue[d], snap) ELSE queue[d]]

\* What the sync thread may report next: "force" stands for set_total,
\* start_file and finish_file, "throttle" for update_bytes and skip_file.
Reports ==
    CASE job = "triggered" -> {"begin"}
      [] job = "working" -> {"force", "throttle", "end"}
      [] OTHER -> {}

ReadClock(op) ==
    /\ writer = Nothing /\ op \in Reports
    /\ clock < MaxClock \/ op \in {"begin", "end"}
    /\ clock' = clock + 1
    /\ writer' = [op |-> op, stamp |-> clock']
    /\ UNCHANGED <<pub, job, begun, streams, net, source, shows, timers, faults>>

BeginJob ==
    /\ writer.op = "begin"
    /\ Publish(Snap(writer.stamp, "running", TRUE))
    /\ job' = "working"

\* The update is in the state; PUBLISH_HZ decides whether it is published.
Update ==
    /\ writer.op \in {"force", "throttle"}
    /\ \/ Publish(Snap(writer.stamp, "running", FALSE))
       \/ /\ writer.op = "throttle"
          /\ pub' = Snap(writer.stamp, "running", FALSE)
          /\ UNCHANGED queue
    /\ UNCHANGED job

EndJob ==
    /\ writer.op = "end"
    /\ Publish(Snap(writer.stamp, "complete", FALSE))
    /\ job' = "cleaning"

Report ==
    /\ BeginJob \/ Update \/ EndJob
    /\ writer' = Nothing
    /\ UNCHANGED <<clock, begun, stream, sent, net, source, shows,
                   timers, faults>>

\* The sync thread gives _sync_lock back.
Release ==
    /\ job = "cleaning"
    /\ job' = "free"
    /\ UNCHANGED <<clock, pub, begun, writer, streams, net, source, shows,
                   timers, faults>>

\* Wrong variants: no timer is started; it does not look at what it resets.
NeverReset == FALSE /\ UNCHANGED vars

ResetAnyway ==
    /\ begun > 0 /\ pub.state # "idle"
    /\ clock' = clock + 1
    /\ Publish(Snap(clock', "idle", FALSE))
    /\ UNCHANGED <<job, begun, writer, stream, sent, net, source,
                   shows, timers, faults>>

\* _reset_to_idle, by the timer of the job that is shown to have ended.
ResetToIdle ==
    /\ pub.state = "complete"
    /\ RetentionIsLong =>
          job # "cleaning" /\ \A d \in Dashboards : click[d] # "answered"
    /\ clock' = clock + 1
    /\ Publish(Snap(clock', "idle", FALSE))
    /\ UNCHANGED <<job, begun, writer, stream, sent, net, source,
                   shows, timers, faults>>

\* trigger_sync for the schedule: a sync that no dashboard asked for.
Trigger ==
    /\ job = "free" /\ begun < MaxJobs
    /\ job' = "triggered" /\ begun' = begun + 1

ScheduledSync ==
    /\ Trigger
    /\ UNCHANGED <<clock, pub, writer, streams, net, source, shows, timers, faults>>

-----------------------------------------------------------------------------
(* A stream: subscribe() driven by _sse_events.                             *)

\* A snapshot already sent makes a keepalive, which the page does not see.
Yield(d, snap) ==
    /\ sent' = [sent EXCEPT ![d] = snap.stamp]
    /\ net' = IF snap.stamp = sent[d] THEN net
              ELSE [net EXCEPT ![d] = Append(@, snap)]

\* Registered and read under one lock; what was read is the first frame.
Subscribe(d) ==
    /\ stream[d] = "asked"
    /\ stream' = [stream EXCEPT ![d] = "get"]
    /\ queue' = [queue EXCEPT ![d] = <<>>]
    /\ sent' = [sent EXCEPT ![d] = pub.stamp]
    /\ net' = [net EXCEPT ![d] = <<pub>>]
    /\ UNCHANGED <<publisher, source, shows, timers, faults>>

YieldQueued(d) ==
    /\ stream[d] = "get" /\ queue[d] # <<>>
    /\ Yield(d, Head(queue[d]))
    /\ queue' = [queue EXCEPT ![d] = Tail(@)]
    /\ UNCHANGED <<publisher, stream, source, shows, timers, faults>>

\* 30 s without a snapshot; the state is read when the lock is had.
Timeout(d) ==
    /\ stream[d] = "get" /\ queue[d] = <<>>
    /\ pub.stamp # sent[d]
    /\ stream' = [stream EXCEPT ![d] = "beat"]
    /\ UNCHANGED <<publisher, queue, sent, net, source, shows, timers,
                   faults>>

\* Wrong variant: the heartbeat is a keepalive and nothing else.
KeepaliveOnly(d) ==
    /\ stream[d] = "beat"
    /\ stream' = [stream EXCEPT ![d] = "get"]
    /\ UNCHANGED <<publisher, queue, sent, net, source, shows, timers, faults>>

Heartbeat(d) ==
    /\ stream[d] = "beat"
    /\ Yield(d, pub)
    /\ stream' = [stream EXCEPT ![d] = "get"]
    /\ UNCHANGED <<publisher, queue, source, shows, timers, faults>>

\* The page is gone or has closed its EventSource: finally unregisters.
Closed(d) ==
    /\ stream' = [stream EXCEPT ![d] = "none"]
    /\ queue' = [queue EXCEPT ![d] = <<>>]
    /\ net' = [net EXCEPT ![d] = <<>>]
    /\ UNCHANGED sent

-----------------------------------------------------------------------------
(* A dashboard.                                                             *)

\* openStream: nothing if there is a stream.
OpenStream(d) ==
    IF source[d] THEN UNCHANGED <<source, stream>>
    ELSE /\ source' = [source EXCEPT ![d] = TRUE]
         /\ stream' = [stream EXCEPT ![d] = "asked"]

\* GET /: the server paints the state, then init() opens the stream.
LoadPage(d) ==
    /\ body[d] = "away"
    /\ body' = [body EXCEPT ![d] =
          IF pub.state = "running" THEN "running" ELSE "idle"]
    /\ UNCHANGED <<publisher, streams, net, source, view, newest, timers, faults>>

InitPage(d) ==
    /\ body[d] # "away" /\ ~source[d] /\ newest[d] = 0
    /\ linger[d] = 0 /\ ~reconnect[d]
    /\ OpenStream(d)
    /\ UNCHANGED <<publisher, queue, sent, net, shows, timers, faults>>

Stale(d, snap) == snap.stamp <= newest[d]

\* The "progress" listener.  After the end of a job the stream is closed, its
\* reconnection cancelled, and the page lingers on the result.
Receive(d) ==
    /\ source[d] /\ net[d] # <<>>
    /\ LET snap == Head(net[d]) IN
          \/ /\ Stale(d, snap)
             /\ net' = [net EXCEPT ![d] = Tail(@)]
             /\ UNCHANGED <<streams, source, shows, linger, reconnect>>
          \/ /\ ~Stale(d, snap)
             /\ view' = [view EXCEPT ![d] = snap]
             /\ body' = [body EXCEPT ![d] = snap.state]
             /\ newest' = [newest EXCEPT ![d] = snap.stamp]
             /\ IF snap.state = "complete"
                THEN /\ Closed(d)
                     /\ source' = [source EXCEPT ![d] = FALSE]
                     /\ linger' = [linger EXCEPT ![d] = @ + 1]
                     /\ reconnect' = [reconnect EXCEPT ![d] = FALSE]
                ELSE /\ net' = [net EXCEPT ![d] = Tail(@)]
                     /\ UNCHANGED <<streams, source, linger, reconnect>>
    /\ UNCHANGED <<publisher, click, faults>>

\* Wrong variant: after the linger the page rests.
RestAfterLinger(d) ==
    /\ linger[d] > 0
    /\ linger' = [linger EXCEPT ![d] = @ - 1]
    /\ body' = IF source[d] THEN body ELSE [body EXCEPT ![d] = "idle"]
    /\ UNCHANGED <<publisher, streams, net, source, view, newest, reconnect,
                   click, faults>>

\* _revertToIdle, COMPLETE_LINGER_MS later.
RevertToIdle(d) ==
    /\ linger[d] > 0
    /\ linger' = [linger EXCEPT ![d] = @ - 1]
    /\ body' = IF source[d] THEN body ELSE [body EXCEPT ![d] = "idle"]
    /\ OpenStream(d)
    /\ UNCHANGED <<publisher, queue, sent, net, view, newest, reconnect,
                   click, faults>>

\* onerror: the stream is closed and opened again after the backoff.
LoseStream(d) ==
    /\ source[d]
    /\ \/ stream[d] = "none" /\ UNCHANGED faults
       \/ stream[d] # "none" /\ faults < MaxFaults /\ faults' = faults + 1
    /\ Closed(d)
    /\ source' = [source EXCEPT ![d] = FALSE]
    /\ reconnect' = [reconnect EXCEPT ![d] = TRUE]
    /\ UNCHANGED <<publisher, shows, linger, click>>

ScheduleReconnect(d) ==
    /\ reconnect[d]
    /\ reconnect' = [reconnect EXCEPT ![d] = FALSE]
    /\ OpenStream(d)
    /\ UNCHANGED <<publisher, queue, sent, net, shows, linger, click,
                   faults>>

\* syncNow: the POST, and the server's 202 or 409.
SyncNow(d) ==
    /\ body[d] # "away" /\ click[d] = "none"
    /\ \/ Trigger
       \/ job # "free" /\ UNCHANGED <<job, begun>>
    /\ click' = [click EXCEPT ![d] = "answered"]
    /\ UNCHANGED <<clock, pub, writer, streams, net, source, shows, linger,
                   reconnect, faults>>

SyncNowAnswered(d) ==
    /\ click[d] = "answered"
    /\ click' = [click EXCEPT ![d] = "none"]
    /\ body' = [body EXCEPT ![d] = "running"]
    /\ OpenStream(d)
    /\ UNCHANGED <<publisher, queue, sent, net, view, newest, linger,
                   reconnect, faults>>

-----------------------------------------------------------------------------
\* The server process ends and another one starts, on a host that goes on or,
\* HostMayReboot, on one whose monotonic clock starts again.  The streams break;
\* of what was on its way the frames may still be read, the answers to POSTs are
\* lost.
Restart ==
    \E t \in {clock + 1} \cup (IF HostMayReboot THEN {1} ELSE {}) :
        /\ faults < MaxFaults /\ faults' = faults + 1
        /\ clock' = t /\ pub' = Snap(t, "idle", FALSE)
        /\ job' = "free" /\ writer' = Nothing
        /\ stream' = [d \in Dashboards |-> "none"]
        /\ queue' = [d \in Dashboards |-> <<>>]
        /\ click' = [d \in Dashboards |-> "none"]
        /\ UNCHANGED <<begun, sent, net, source, shows, linger, reconnect>>

Stream(d) ==
    \/ Subscribe(d) \/ YieldQueued(d) \/ Timeout(d) \/ Heartbeat(d)

Page(d) ==
    \/ InitPage(d) \/ Receive(d) \/ RevertToIdle(d) \/ ScheduleReconnect(d)
    \/ SyncNowAnswered(d)

Sync == (\E op \in Reports : ReadClock(op)) \/ Report \/ Release

Next ==
    \/ Sync \/ ResetToIdle \/ ScheduledSync \/ Restart
    \/ \E d \in Dashboards :
          Stream(d) \/ Page(d) \/ LoadPage(d) \/ LoseStream(d) \/ SyncNow(d)

Spec == Init /\ [][Next]_vars

\* A sync ends, the timers fire, worker threads run and time out, a page acts
\* on what arrives and notices a broken stream.
LiveSpec ==
    /\ Spec
    /\ WF_vars(Sync) /\ WF_vars(ResetToIdle)
    /\ \A d \in Dashboards :
          /\ WF_vars(Stream(d))
          /\ WF_vars(InitPage(d)) /\ WF_vars(Receive(d))
          /\ WF_vars(RevertToIdle(d)) /\ WF_vars(ScheduleReconnect(d))
          /\ WF_vars(SyncNowAnswered(d))
          /\ WF_vars(stream[d] = "none" /\ LoseStream(d))

-----------------------------------------------------------------------------
(* Properties.                                                              *)

Snaps == [stamp : Nat, state : {"idle", "running", "complete"}, first : BOOLEAN]

TypeOK ==
    /\ clock \in Nat /\ pub \in Snaps
    /\ job \in {"free", "triggered", "working", "cleaning"} /\ begun \in 0..MaxJobs
    /\ writer \in [op : {"none", "begin", "force", "throttle", "end"}, stamp : Nat]
    /\ stream \in [Dashboards -> {"none", "asked", "get", "beat"}]
    /\ queue \in [Dashboards -> Seq(Snaps)]
    /\ \A d \in Dashboards : Len(queue[d]) <= QueueMax
    /\ net \in [Dashboards -> Seq(Snaps)]
    /\ sent \in [Dashboards -> Nat]
    /\ source \in [Dashboards -> BOOLEAN]
    /\ view \in [Dashboards -> Snaps] /\ newest \in [Dashboards -> Nat]
    /\ body \in [Dashboards -> {"away", "idle", "running", "complete"}]
    /\ linger \in [Dashboards -> Nat] /\ reconnect \in [Dashboards -> BOOLEAN]
    /\ click \in [Dashboards -> {"none", "answered"}]
    /\ faults \in 0..MaxFaults

\* An open dashboard is never left without a stream and without anything that
\* would open one: it detects the syncs that others start.
NeverAbandoned ==
    \A d \in Dashboards : newest[d] > 0 =>
        source[d] \/ linger[d] > 0 \/ reconnect[d]

\* The only news a dashboard takes for stale is the first frame of a job, when
\* begin_job read the clock before the reset of the job before it.
OnlyBeginsLookStale ==
    \A d \in Dashboards : newest[d] > pub.stamp =>
        pub.state = "running" /\ pub.first

\* What a dashboard with a stream shows is not the state of the publisher, nor
\* is that state the first frame that may look stale.
Behind(d) ==
    source[d] /\ newest[d] # pub.stamp /\ ~(pub.first /\ newest[d] > pub.stamp)

\* A dashboard catches up as soon as updates pause, although queues of two drop
\* the newest frame, throttled updates are not published, connections break and
\* the server restarts: the heartbeat repeats the state of the publisher.
CatchesUp == \A d \in Dashboards : Behind(d) ~> ~Behind(d)

\* When syncs are over, a dashboard comes to rest as idle, whatever its button,
\* its timers and the publisher's did to body[data-state] in between.
ComesToRest ==
    \A d \in Dashboards :
        <>[](body[d] = "away") \/ <>[](body[d] = "idle" /\ view[d].state = "idle")

=============================================================================
