------------------------ MODULE ProgressStream_proofs ------------------------
(***************************************************************************)
(* Proofs about ProgressStream, for any number of dashboards, any size of   *)
(* queue and any bounds.                                                    *)
(*                                                                         *)
(* The argument: a dashboard closes its stream only where it starts a timer *)
(* that opens it again, which with TypeOK is inductive (NeverAbandoned).    *)
(* For what looks stale: on a clock that does not go back no snapshot has a *)
(* reading above the clock's (ClockInv); from begin_job to end_job only the *)
(* sync thread reads it (WriterInv), so the one report that may be older    *)
(* than the state it replaces is begin_job's (LatestInv).                   *)
(***************************************************************************)
EXTENDS ProgressStream, SequenceTheorems, TLAPS

-----------------------------------------------------------------------------
(* The inductive invariant behind the safety properties.                    *)

UpTo(snaps, n) == \A i \in DOMAIN snaps : snaps[i].stamp <= n

\* What a dashboard has been shown, and what is on its way to it.
News(d, n) == newest[d] <= n /\ UpTo(queue[d], n) /\ UpTo(net[d], n)

\* Nothing carries a reading the clock has not reached.
ClockInv ==
    /\ pub.stamp <= clock /\ writer.stamp <= clock
    /\ \A d \in Dashboards : News(d, clock)

\* Once a job has begun nobody but its thread reads the clock, so what it is
\* about to report has the latest reading there is.
WriterInv ==
    /\ writer.op = "begin" => job = "triggered"
    /\ writer.op \in {"force", "throttle", "end"} =>
          job = "working" /\ writer.stamp = clock
    /\ job = "working" => pub.state = "running"

\* Nobody has news later than the state of the publisher, unless that is the
\* first of a job.
LatestInv ==
    (pub.state = "running" /\ pub.first) \/ \A d \in Dashboards : News(d, pub.stamp)

StaleInv == ClockInv /\ WriterInv /\ LatestInv

Inv == TypeOK /\ NeverAbandoned /\ StaleInv

-----------------------------------------------------------------------------
(* The invariant is inductive.                                             *)

\* The states of the publisher and the frames it makes.
LEMMA SnapType ==
    ASSUME NEW t \in Nat, NEW s \in {"idle", "running", "complete"},
           NEW f \in BOOLEAN
    PROVE  /\ Snap(t, s, f) \in Snaps
           /\ Snap(t, s, f).stamp = t /\ Snap(t, s, f).state = s
           /\ Snap(t, s, f).first = f
  BY DEF Snap, Snaps

\* A queue of frames, and what its ends are.
LEMMA FramesType ==
    ASSUME NEW q \in Seq(Snaps)
    PROVE  /\ \A e \in Snaps : /\ Append(q, e) \in Seq(Snaps)
                               /\ Len(Append(q, e)) = Len(q) + 1
           /\ Len(q) \in Nat
           /\ q # <<>> => /\ Head(q) \in Snaps /\ Tail(q) \in Seq(Snaps)
                          /\ Len(Tail(q)) = Len(q) - 1
  OBVIOUS

\* A bound on the readings in a queue, kept by what is done to a queue.
LEMMA UpToFacts ==
    ASSUME NEW q \in Seq(Snaps), NEW n \in Nat, UpTo(q, n)
    PROVE  /\ \A e \in Snaps : e.stamp <= n => UpTo(Append(q, e), n)
           /\ q # <<>> => Head(q).stamp <= n /\ UpTo(Tail(q), n)
           /\ \A m \in Nat : n <= m => UpTo(q, m)
  <1>1. ASSUME NEW e \in Snaps, e.stamp <= n PROVE UpTo(Append(q, e), n)
    BY <1>1 DEF UpTo
  <1>2. ASSUME q # <<>> PROVE Head(q).stamp <= n /\ UpTo(Tail(q), n)
    <2>1. Len(q) \in Nat \ {0} /\ DOMAIN q = 1..Len(q)
      BY <1>2
    <2>2. Head(q) = q[1] /\ 1 \in DOMAIN q
      BY <1>2, <2>1
    <2>3. ASSUME NEW i \in DOMAIN Tail(q) PROVE Tail(q)[i] = q[i + 1] /\ i + 1 \in DOMAIN q
      BY <1>2, <2>1
    <2> QED BY <2>2, <2>3 DEF UpTo
  <1>3. ASSUME NEW m \in Nat, n <= m PROVE UpTo(q, m)
    <2>1. ASSUME NEW i \in DOMAIN q PROVE q[i].stamp \in Nat
      <3>1. q[i] \in Snaps
        OBVIOUS
      <3> QED BY <3>1 DEF Snaps
    <2> QED BY <1>3, <2>1 DEF UpTo
  <1> QED BY <1>1, <1>2, <1>3

\* An empty queue is below every bound, a single frame below its own reading.
LEMMA UpToSmall ==
    ASSUME NEW n \in Nat
    PROVE  UpTo(<<>>, n) /\ \A e \in Snaps : e.stamp <= n => UpTo(<<e>>, n)
  BY DEF UpTo

-----------------------------------------------------------------------------
(* Types.                                                                   *)

LEMMA InitType == Init => TypeOK
  <1> SUFFICES ASSUME Init PROVE TypeOK
    OBVIOUS
  <1>1. Snap(1, "idle", FALSE) \in Snaps /\ Snap(0, "idle", FALSE) \in Snaps
    BY SnapType
  <1>2. view \in [Dashboards -> Snaps] /\ pub \in Snaps
    BY <1>1 DEF Init
  <1>3. /\ <<>> \in Seq(Snaps) /\ Len(<<>>) <= QueueMax
        /\ 0 \in 0..MaxJobs /\ 0 \in 0..MaxFaults
    BY ProgressAssumption
  <1>4. /\ queue \in [Dashboards -> Seq(Snaps)] /\ net \in [Dashboards -> Seq(Snaps)]
        /\ \A d \in Dashboards : Len(queue[d]) <= QueueMax
    BY <1>3 DEF Init
  <1> QED BY <1>2, <1>3, <1>4 DEF Init, TypeOK, Nothing

\* Publishing a snapshot keeps the queues within their size.
LEMMA PublishType ==
    ASSUME TypeOK, NEW snap \in Snaps, Publish(snap)
    PROVE  /\ pub' \in Snaps
           /\ queue' \in [Dashboards -> Seq(Snaps)]
           /\ \A d \in Dashboards : Len(queue'[d]) <= QueueMax
  <1>1. ASSUME NEW d \in Dashboards
        PROVE  queue'[d] \in Seq(Snaps) /\ Len(queue'[d]) <= QueueMax
    <2>1. queue[d] \in Seq(Snaps) /\ Len(queue[d]) <= QueueMax
      BY DEF TypeOK
    <2>2. \/ queue'[d] = queue[d]
          \/ queue'[d] = Append(queue[d], snap) /\ Len(queue[d]) < QueueMax
      BY DEF Publish
    <2>3. CASE queue'[d] = queue[d]
      BY <2>1, <2>3
    <2>4. CASE queue'[d] = Append(queue[d], snap) /\ Len(queue[d]) < QueueMax
      <3>1. /\ Append(queue[d], snap) \in Seq(Snaps) /\ Len(queue[d]) \in Nat
            /\ Len(Append(queue[d], snap)) = Len(queue[d]) + 1
        BY <2>1, FramesType
      <3> QED BY <2>4, <3>1, ProgressAssumption
    <2> QED BY <2>2, <2>3, <2>4
  <1> QED BY <1>1 DEF Publish

\* What the publisher, its threads and its timers do.
LEMMA PublisherType ==
    ASSUME TypeOK, Sync \/ ResetToIdle \/ ScheduledSync
    PROVE  TypeOK'
  <1> USE DEF publisher, streams, shows, timers
  <1>1. ASSUME NEW op \in Reports, ReadClock(op) PROVE TypeOK'
    <2>1. op \in {"begin", "force", "throttle", "end"}
      BY DEF Reports
    <2> QED BY <1>1, <2>1 DEF ReadClock, TypeOK
  <1>2. CASE Report
    <2>1. /\ UNCHANGED <<clock, begun, stream, sent, net, source, shows, timers, faults>>
          /\ writer' = Nothing /\ writer.stamp \in Nat
      BY <1>2 DEF Report, TypeOK
    <2>2. /\ pub' \in Snaps /\ job' \in {"free", "triggered", "working", "cleaning"}
          /\ queue' \in [Dashboards -> Seq(Snaps)]
          /\ \A d \in Dashboards : Len(queue'[d]) <= QueueMax
      <3>1. CASE BeginJob
        BY <2>1, <3>1, SnapType, PublishType DEF BeginJob
      <3>2. CASE EndJob
        BY <2>1, <3>2, SnapType, PublishType DEF EndJob
      <3>3. CASE Update
        <4>1. job' = job
          BY <3>3 DEF Update
        <4>2. \/ Publish(Snap(writer.stamp, "running", FALSE))
              \/ pub' = Snap(writer.stamp, "running", FALSE) /\ queue' = queue
          BY <3>3 DEF Update
        <4>3. Snap(writer.stamp, "running", FALSE) \in Snaps
          BY <2>1, SnapType
        <4>4. CASE Publish(Snap(writer.stamp, "running", FALSE))
          BY <4>1, <4>3, <4>4, PublishType DEF TypeOK
        <4>5. CASE pub' = Snap(writer.stamp, "running", FALSE) /\ queue' = queue
          BY <4>1, <4>3, <4>5 DEF TypeOK
        <4> QED BY <4>2, <4>4, <4>5
      <3> QED BY <1>2, <3>1, <3>2, <3>3 DEF Report
    <2> QED BY <2>1, <2>2 DEF TypeOK, Nothing
  <1>3. CASE Release
    BY <1>3 DEF Release, TypeOK
  <1>4. CASE ResetToIdle
    <2>0. clock + 1 \in Nat
      BY DEF TypeOK
    <2>1. /\ clock' = clock + 1 /\ clock' \in Nat
          /\ Publish(Snap(clock', "idle", FALSE))
          /\ UNCHANGED <<job, begun, writer, stream, sent, net, source, shows,
                         timers, faults>>
      BY <1>4, <2>0 DEF ResetToIdle
    <2>2. /\ pub' \in Snaps
          /\ queue' \in [Dashboards -> Seq(Snaps)]
          /\ \A d \in Dashboards : Len(queue'[d]) <= QueueMax
      BY <2>1, SnapType, PublishType
    <2> QED BY <2>1, <2>2 DEF TypeOK
  <1>5. CASE ScheduledSync
    BY <1>5, ProgressAssumption DEF ScheduledSync, Trigger, TypeOK
  <1> QED BY <1>1, <1>2, <1>3, <1>4, <1>5 DEF Sync

\* What a stream does.
LEMMA StreamType ==
    ASSUME TypeOK, NEW d \in Dashboards, Stream(d)
    PROVE  TypeOK'
  <1> USE DEF publisher, shows, timers
  <1>0. /\ queue[d] \in Seq(Snaps) /\ net[d] \in Seq(Snaps)
        /\ Len(queue[d]) <= QueueMax /\ pub \in Snaps /\ pub.stamp \in Nat
        /\ \A e \in Snaps : e.stamp \in Nat
    BY DEF TypeOK, Snaps
  <1>1. CASE Subscribe(d)
    <2>1. <<pub>> \in Seq(Snaps) /\ Len(<<>>) <= QueueMax
      BY <1>0, ProgressAssumption
    <2> QED BY <1>0, <1>1, <2>1 DEF Subscribe, TypeOK
  <1>2. ASSUME NEW e \in Snaps, Yield(d, e)
        PROVE  sent' \in [Dashboards -> Nat] /\ net' \in [Dashboards -> Seq(Snaps)]
    <2>1. Append(net[d], e) \in Seq(Snaps)
      BY <1>0, FramesType
    <2> QED BY <1>0, <1>2, <2>1 DEF Yield, TypeOK
  <1>3. CASE YieldQueued(d)
    <2>1. Head(queue[d]) \in Snaps /\ Tail(queue[d]) \in Seq(Snaps)
      BY <1>0, <1>3, FramesType DEF YieldQueued
    <2>2. Len(Tail(queue[d])) <= QueueMax
      BY <1>0, <1>3, FramesType, ProgressAssumption DEF YieldQueued
    <2>3. sent' \in [Dashboards -> Nat] /\ net' \in [Dashboards -> Seq(Snaps)]
      BY <1>2, <1>3, <2>1 DEF YieldQueued
    <2> QED BY <1>3, <2>1, <2>2, <2>3 DEF YieldQueued, TypeOK
  <1>4. CASE Timeout(d)
    BY <1>4 DEF Timeout, TypeOK
  <1>5. CASE Heartbeat(d)
    <2>1. sent' \in [Dashboards -> Nat] /\ net' \in [Dashboards -> Seq(Snaps)]
      BY <1>0, <1>2, <1>5 DEF Heartbeat
    <2> QED BY <1>5, <2>1 DEF Heartbeat, TypeOK
  <1> QED BY <1>1, <1>3, <1>4, <1>5 DEF Stream

\* openStream makes one stream at most.
LEMMA OpenType ==
    ASSUME TypeOK, NEW d \in Dashboards, OpenStream(d)
    PROVE  /\ source' \in [Dashboards -> BOOLEAN]
           /\ stream' \in [Dashboards -> {"none", "asked", "get", "beat"}]
           /\ source'[d]
           /\ \A e \in Dashboards : e # d => source'[e] = source[e]
  BY DEF OpenStream, TypeOK

\* A closed stream leaves nothing queued or on its way.
LEMMA ClosedType ==
    ASSUME TypeOK, NEW d \in Dashboards, Closed(d)
    PROVE  /\ stream' \in [Dashboards -> {"none", "asked", "get", "beat"}]
           /\ queue' \in [Dashboards -> Seq(Snaps)]
           /\ net' \in [Dashboards -> Seq(Snaps)]
           /\ \A e \in Dashboards : Len(queue'[e]) <= QueueMax
  <1>1. <<>> \in Seq(Snaps) /\ Len(<<>>) <= QueueMax
    BY ProgressAssumption
  <1> QED BY <1>1 DEF Closed, TypeOK

\* What a page receives.
LEMMA ReceiveType ==
    ASSUME TypeOK, NEW d \in Dashboards, Receive(d)
    PROVE  TypeOK'
  <1> DEFINE snap == Head(net[d])
  <1>0. /\ net[d] \in Seq(Snaps) /\ snap \in Snaps /\ Tail(net[d]) \in Seq(Snaps)
        /\ snap.stamp \in Nat /\ snap.state \in {"idle", "running", "complete"}
    BY FramesType DEF Receive, TypeOK, Snaps
  <1>1. UNCHANGED <<publisher, click, faults>>
    BY DEF Receive
  <1>2. CASE /\ net' = [net EXCEPT ![d] = Tail(@)]
             /\ UNCHANGED <<streams, source, shows, linger, reconnect>>
    BY <1>0, <1>1, <1>2 DEF publisher, streams, shows, TypeOK
  <1>3. CASE /\ view' = [view EXCEPT ![d] = snap]
             /\ body' = [body EXCEPT ![d] = snap.state]
             /\ newest' = [newest EXCEPT ![d] = snap.stamp]
    <2>1. CASE /\ Closed(d)
               /\ source' = [source EXCEPT ![d] = FALSE]
               /\ linger' = [linger EXCEPT ![d] = @ + 1]
               /\ reconnect' = [reconnect EXCEPT ![d] = FALSE]
      <3>1. sent' = sent
        BY <2>1 DEF Closed
      <3>2. /\ source' \in [Dashboards -> BOOLEAN] /\ linger' \in [Dashboards -> Nat]
            /\ reconnect' \in [Dashboards -> BOOLEAN]
        BY <2>1 DEF TypeOK
      <3>3. /\ view' \in [Dashboards -> Snaps] /\ newest' \in [Dashboards -> Nat]
            /\ body' \in [Dashboards -> {"away", "idle", "running", "complete"}]
        BY <1>0, <1>3 DEF TypeOK
      <3> QED BY <1>1, <2>1, <3>1, <3>2, <3>3, ClosedType DEF publisher, TypeOK
    <2>2. CASE /\ net' = [net EXCEPT ![d] = Tail(@)]
               /\ UNCHANGED <<streams, source, linger, reconnect>>
      BY <1>0, <1>1, <1>3, <2>2 DEF publisher, streams, TypeOK
    <2> QED BY <1>2, <1>3, <2>1, <2>2 DEF Receive
  <1> QED BY <1>2, <1>3 DEF Receive

\* What else a page does.
LEMMA PageType ==
    ASSUME TypeOK, NEW d \in Dashboards,
           Page(d) \/ LoadPage(d) \/ LoseStream(d) \/ SyncNow(d)
    PROVE  TypeOK'
  <1> USE DEF publisher, streams, shows, timers
  <1>1. CASE InitPage(d)
    BY <1>1, OpenType DEF InitPage, TypeOK
  <1>2. CASE RevertToIdle(d)
    <2>1. linger' \in [Dashboards -> Nat]
      BY <1>2 DEF RevertToIdle, TypeOK
    <2>2. body' \in [Dashboards -> {"away", "idle", "running", "complete"}]
      BY <1>2 DEF RevertToIdle, TypeOK
    <2>3. UNCHANGED <<publisher, queue, sent, net, view, newest, reconnect, click, faults>>
      BY <1>2 DEF RevertToIdle
    <2>4. /\ source' \in [Dashboards -> BOOLEAN]
          /\ stream' \in [Dashboards -> {"none", "asked", "get", "beat"}]
      BY <1>2, OpenType DEF RevertToIdle
    <2> QED BY <2>1, <2>2, <2>3, <2>4 DEF TypeOK
  <1>3. CASE ScheduleReconnect(d)
    BY <1>3, OpenType DEF ScheduleReconnect, TypeOK
  <1>4. CASE SyncNowAnswered(d)
    BY <1>4, OpenType DEF SyncNowAnswered, TypeOK
  <1>5. CASE LoadPage(d)
    BY <1>5 DEF LoadPage, TypeOK
  <1>6. CASE LoseStream(d)
    <2>1. sent' = sent /\ faults' \in 0..MaxFaults
      BY <1>6, ProgressAssumption DEF LoseStream, Closed, TypeOK
    <2> QED BY <1>6, <2>1, ClosedType DEF LoseStream, TypeOK
  <1>7. CASE SyncNow(d)
    <2>1. job' \in {"free", "triggered", "working", "cleaning"} /\ begun' \in 0..MaxJobs
      BY <1>7, ProgressAssumption DEF SyncNow, Trigger, TypeOK
    <2>2. click' \in [Dashboards -> {"none", "answered"}]
      BY <1>7 DEF SyncNow, TypeOK
    <2> QED BY <1>7, <2>1, <2>2 DEF SyncNow, TypeOK
  <1> QED BY <1>1, <1>2, <1>3, <1>4, <1>5, <1>6, <1>7, ReceiveType DEF Page

\* The end of the server process.
LEMMA RestartType ==
    ASSUME TypeOK, Restart
    PROVE  TypeOK'
  <1>1. PICK t \in {clock + 1} \cup (IF HostMayReboot THEN {1} ELSE {}) :
           /\ faults < MaxFaults /\ faults' = faults + 1
           /\ clock' = t /\ pub' = Snap(t, "idle", FALSE)
           /\ job' = "free" /\ writer' = Nothing
           /\ stream' = [d \in Dashboards |-> "none"]
           /\ queue' = [d \in Dashboards |-> <<>>]
           /\ click' = [d \in Dashboards |-> "none"]
           /\ UNCHANGED <<begun, sent, net, source, shows, linger, reconnect>>
    BY DEF Restart
  <1>2. t \in Nat /\ Snap(t, "idle", FALSE) \in Snaps
    <2>1. clock + 1 \in Nat /\ (t = clock + 1 \/ t = 1)
      BY DEF TypeOK
    <2>2. t \in Nat
      BY <2>1
    <2> QED BY <2>2, SnapType
  <1>3. faults' \in 0..MaxFaults
    BY <1>1, ProgressAssumption DEF TypeOK
  <1>4. /\ queue' \in [Dashboards -> Seq(Snaps)]
        /\ \A d \in Dashboards : Len(queue'[d]) <= QueueMax
    BY <1>1, ProgressAssumption
  <1> QED BY <1>1, <1>2, <1>3, <1>4 DEF TypeOK, Nothing, shows

LEMMA NextType ==
    ASSUME TypeOK, [Next]_vars
    PROVE  TypeOK'
  <1>1. CASE UNCHANGED vars
    BY <1>1 DEF vars, publisher, streams, shows, timers, TypeOK
  <1> QED BY <1>1, PublisherType, StreamType, PageType, RestartType DEF Next

\* Every variable of the publisher, the streams and the dashboards keeps its
\* type, and no queue grows beyond its size.
THEOREM TypeCorrect == Spec => []TypeOK
  BY InitType, NextType, PTL DEF Spec

-----------------------------------------------------------------------------
(* A dashboard is never abandoned.                                          *)

\* A step that takes the stream of a dashboard, or uses up one of the timers
\* that would open it, leaves another one.
LEMMA AbandonedInv ==
    ASSUME TypeOK, NeverAbandoned, [Next]_vars
    PROVE  NeverAbandoned'
  <1> USE DEF NeverAbandoned, shows, timers
  <1>1. ASSUME UNCHANGED <<source, newest, linger, reconnect>> PROVE NeverAbandoned'
    BY <1>1
  <1>2. CASE Sync \/ ResetToIdle \/ ScheduledSync \/ Restart
    BY <1>1, <1>2 DEF Sync, ReadClock, Report, Release, ResetToIdle,
         ScheduledSync, Restart
  <1>3. ASSUME NEW d \in Dashboards, Stream(d) PROVE NeverAbandoned'
    BY <1>1, <1>3 DEF Stream, Subscribe, YieldQueued, Timeout, Heartbeat
  <1>4. ASSUME NEW d \in Dashboards, LoadPage(d) \/ SyncNow(d) PROVE NeverAbandoned'
    BY <1>1, <1>4 DEF LoadPage, SyncNow
  <1>5. ASSUME NEW d \in Dashboards, OpenStream(d), newest' = newest,
               \A e \in Dashboards : e # d =>
                   linger'[e] = linger[e] /\ reconnect'[e] = reconnect[e]
        PROVE  NeverAbandoned'
    BY <1>5, OpenType
  <1>6. ASSUME NEW d \in Dashboards, InitPage(d) \/ SyncNowAnswered(d)
        PROVE  NeverAbandoned'
    BY <1>5, <1>6 DEF InitPage, SyncNowAnswered
  <1>7. ASSUME NEW d \in Dashboards, RevertToIdle(d) PROVE NeverAbandoned'
    BY <1>5, <1>7 DEF RevertToIdle, TypeOK
  <1>8. ASSUME NEW d \in Dashboards, ScheduleReconnect(d) PROVE NeverAbandoned'
    BY <1>5, <1>8 DEF ScheduleReconnect, TypeOK
  <1>9. ASSUME NEW d \in Dashboards, LoseStream(d) PROVE NeverAbandoned'
    BY <1>9 DEF LoseStream, TypeOK
  <1>10. ASSUME NEW d \in Dashboards, Receive(d) PROVE NeverAbandoned'
    <2> SUFFICES ASSUME NEW e \in Dashboards, newest'[e] > 0
                 PROVE  source'[e] \/ linger'[e] > 0 \/ reconnect'[e]
      OBVIOUS
    <2>1. source[d] /\ linger[d] \in Nat
      BY <1>10 DEF Receive, TypeOK
    <2>2. \/ UNCHANGED <<source, linger, reconnect>>
          \/ /\ source' = [source EXCEPT ![d] = FALSE]
             /\ linger' = [linger EXCEPT ![d] = @ + 1]
             /\ reconnect' = [reconnect EXCEPT ![d] = FALSE]
      BY <1>10 DEF Receive
    <2>3. e # d => newest'[e] = newest[e]
      BY <1>10 DEF Receive, TypeOK
    <2>4. CASE e = d
      <3>1. CASE UNCHANGED <<source, linger, reconnect>>
        BY <2>1, <2>4, <3>1
      <3>2. CASE linger' = [linger EXCEPT ![d] = @ + 1]
        BY <2>1, <2>4, <3>2 DEF TypeOK
      <3> QED BY <2>2, <3>1, <3>2
    <2>5. CASE e # d
      BY <2>2, <2>3, <2>5 DEF TypeOK
    <2> QED BY <2>4, <2>5
  <1>11. CASE UNCHANGED vars
    BY <1>1, <1>11 DEF vars
  <1> QED BY <1>2, <1>3, <1>4, <1>6, <1>7, <1>8, <1>9, <1>10, <1>11 DEF Next, Page

\* An open dashboard that was ever sent a state has a stream, or a timer that
\* will open one: it does not stop looking (dashboard.js).
THEOREM DashboardsKeepLooking == Spec => []NeverAbandoned
  <1>1. Init => NeverAbandoned
    BY DEF Init, NeverAbandoned
  <1> QED BY <1>1, TypeCorrect, AbandonedInv, PTL DEF Spec

-----------------------------------------------------------------------------
(* What looks stale.                                                        *)

\* Nothing that a stream, a page or a connection does brings news of a later
\* reading than those that were there, the publisher's among them.
LEMMA Delivered ==
    ASSUME TypeOK, NEW n \in Nat, pub.stamp <= n,
           \A e \in Dashboards : News(e, n),
           NEW d \in Dashboards,
           Stream(d) \/ Page(d) \/ LoadPage(d) \/ LoseStream(d) \/ SyncNow(d)
    PROVE  \A e \in Dashboards :
              newest'[e] <= n /\ UpTo(queue'[e], n) /\ UpTo(net'[e], n)
  <1> USE DEF shows, streams, News
  <1>0. /\ queue[d] \in Seq(Snaps) /\ net[d] \in Seq(Snaps) /\ pub \in Snaps
        /\ newest[d] <= n /\ UpTo(queue[d], n) /\ UpTo(net[d], n)
    BY DEF TypeOK
  <1>1. ASSUME newest' = [newest EXCEPT ![d] = newest'[d]] \/ newest' = newest,
               queue' = [queue EXCEPT ![d] = queue'[d]] \/ queue' = queue,
               net' = [net EXCEPT ![d] = net'[d]] \/ net' = net,
               newest'[d] <= n, UpTo(queue'[d], n), UpTo(net'[d], n)
        PROVE  \A e \in Dashboards :
              newest'[e] <= n /\ UpTo(queue'[e], n) /\ UpTo(net'[e], n)
    <2> SUFFICES ASSUME NEW e \in Dashboards
                 PROVE  newest'[e] <= n /\ UpTo(queue'[e], n) /\ UpTo(net'[e], n)
      OBVIOUS
    <2>1. CASE e = d
      BY <1>1, <2>1
    <2>2. CASE e # d
      BY <1>1, <2>2 DEF TypeOK
    <2> QED BY <2>1, <2>2
  <1>2. CASE UNCHANGED <<newest, queue, net>>
    BY <1>2
  <1>3. CASE Subscribe(d)
    <2>1. queue'[d] = <<>> /\ net'[d] = <<pub>>
      BY <1>3 DEF Subscribe, TypeOK
    <2> QED BY <1>0, <1>1, <1>3, <2>1, UpToSmall DEF Subscribe
  <1>4. ASSUME NEW f \in Snaps, f.stamp <= n, Yield(d, f)
        PROVE  /\ net' = [net EXCEPT ![d] = net'[d]] \/ net' = net
               /\ UpTo(net'[d], n)
    <2>1. net' = net \/ net' = [net EXCEPT ![d] = Append(net[d], f)]
      BY <1>4 DEF Yield
    <2>2. CASE net' = net
      BY <1>0, <2>2
    <2>3. CASE net' = [net EXCEPT ![d] = Append(net[d], f)]
      <3>1. net'[d] = Append(net[d], f)
        BY <2>3 DEF TypeOK
      <3>2. UpTo(Append(net[d], f), n)
        BY <1>0, <1>4, UpToFacts
      <3>3. UpTo(net'[d], n)
        BY <3>1, <3>2
      <3> QED BY <2>3, <3>1, <3>3
    <2> QED BY <2>1, <2>2, <2>3
  <1>5. CASE YieldQueued(d)
    <2>1. /\ Head(queue[d]) \in Snaps /\ Head(queue[d]).stamp <= n
          /\ UpTo(Tail(queue[d]), n)
      BY <1>0, <1>5, FramesType, UpToFacts DEF YieldQueued
    <2>2. queue' = [queue EXCEPT ![d] = Tail(queue[d])] /\ newest' = newest
      BY <1>5 DEF YieldQueued
    <2>3. queue'[d] = Tail(queue[d])
      BY <2>2 DEF TypeOK
    <2>4. Yield(d, Head(queue[d]))
      BY <1>5 DEF YieldQueued
    <2> QED BY <1>0, <1>1, <1>4, <2>1, <2>2, <2>3, <2>4
  <1>6. CASE Heartbeat(d)
    <2>1. Yield(d, pub) /\ queue' = queue /\ newest' = newest
      BY <1>6 DEF Heartbeat
    <2> QED BY <1>0, <1>1, <1>4, <2>1
  <1>7. CASE LoseStream(d)
    <2>1. /\ queue' = [queue EXCEPT ![d] = <<>>] /\ net' = [net EXCEPT ![d] = <<>>]
          /\ newest' = newest
      BY <1>7 DEF LoseStream, Closed
    <2>2. queue'[d] = <<>> /\ net'[d] = <<>>
      BY <2>1 DEF TypeOK
    <2> QED BY <1>0, <1>1, <2>1, <2>2, UpToSmall
  <1>8. CASE Receive(d)
    <2> DEFINE snap == Head(net[d])
    <2>1. net[d] # <<>> /\ snap.stamp <= n /\ UpTo(Tail(net[d]), n)
      BY <1>0, <1>8, UpToFacts DEF Receive
    <2>2. \/ newest' = newest
          \/ newest' = [newest EXCEPT ![d] = snap.stamp]
      BY <1>8 DEF Receive
    <2>3. \/ net' = [net EXCEPT ![d] = Tail(net[d])] /\ queue' = queue
          \/ /\ net' = [net EXCEPT ![d] = <<>>]
             /\ queue' = [queue EXCEPT ![d] = <<>>]
      BY <1>8 DEF Receive, Closed
    <2>4. newest'[d] \in {newest[d], snap.stamp}
      BY <2>2 DEF TypeOK
    <2>5. /\ net'[d] \in {Tail(net[d]), <<>>}
          /\ queue'[d] \in {queue[d], <<>>}
      BY <2>3 DEF TypeOK
    <2>6. /\ newest' = [newest EXCEPT ![d] = newest'[d]] \/ newest' = newest
          /\ queue' = [queue EXCEPT ![d] = queue'[d]] \/ queue' = queue
          /\ net' = [net EXCEPT ![d] = net'[d]] \/ net' = net
      BY <2>2, <2>3 DEF TypeOK
    <2>7. newest'[d] <= n /\ UpTo(queue'[d], n) /\ UpTo(net'[d], n)
      BY <1>0, <2>1, <2>4, <2>5, UpToSmall
    <2> QED BY <1>1, <2>6, <2>7
  <1>9. CASE \/ Timeout(d) \/ InitPage(d) \/ RevertToIdle(d)
             \/ ScheduleReconnect(d) \/ SyncNowAnswered(d) \/ LoadPage(d)
             \/ SyncNow(d)
    BY <1>2, <1>9 DEF Timeout, InitPage, RevertToIdle, ScheduleReconnect,
         SyncNowAnswered, LoadPage, SyncNow
  <1> QED BY <1>3, <1>5, <1>6, <1>7, <1>8, <1>9 DEF Stream, Page

\* What is published reaches the queues with its own reading.
LEMMA Published ==
    ASSUME TypeOK, NEW snap \in Snaps, NEW n \in Nat, snap.stamp <= n,
           \A e \in Dashboards : News(e, n),
           Publish(snap) \/ queue' = queue, UNCHANGED <<newest, net>>
    PROVE  \A e \in Dashboards :
              newest'[e] <= n /\ UpTo(queue'[e], n) /\ UpTo(net'[e], n)
  <1> SUFFICES ASSUME NEW e \in Dashboards
               PROVE  newest[e] <= n /\ UpTo(queue'[e], n) /\ UpTo(net[e], n)
    OBVIOUS
  <1>1. newest[e] <= n /\ UpTo(queue[e], n) /\ UpTo(net[e], n) /\ queue[e] \in Seq(Snaps)
    BY DEF News, TypeOK
  <1>2. queue'[e] = queue[e] \/ queue'[e] = Append(queue[e], snap)
    BY DEF Publish
  <1> QED BY <1>1, <1>2, UpToFacts

\* A later bound is a bound.
LEMMA Later ==
    ASSUME TypeOK, NEW m \in Nat, NEW n \in Nat, m <= n, NEW e \in Dashboards,
           News(e, m)
    PROVE  News(e, n)
  <1>1. queue[e] \in Seq(Snaps) /\ net[e] \in Seq(Snaps) /\ newest[e] \in Nat
    BY DEF TypeOK
  <1> QED BY <1>1, UpToFacts DEF News

\* A report of the sync thread.  The first one of a job may be older than the
\* state it replaces and says that it is the first; the others are the latest.
LEMMA ReportStale ==
    ASSUME TypeOK, StaleInv, Report
    PROVE  StaleInv'
  <1>0. /\ pub \in Snaps /\ pub.stamp \in Nat /\ clock \in Nat /\ writer.stamp \in Nat
        /\ writer.stamp <= clock
    BY DEF TypeOK, Snaps, StaleInv, ClockInv
  <1>1. UNCHANGED <<clock, newest, net>> /\ writer' = Nothing
    BY DEF Report, shows
  <1>2. PICK snap \in Snaps :
           /\ pub' = snap /\ snap.stamp = writer.stamp
           /\ Publish(snap) \/ queue' = queue
           /\ \/ snap.state = "running" /\ snap.first
              \/ snap.stamp = clock
           /\ job' = "working" => snap.state = "running"
    <2>1. CASE BeginJob
      <3>1. Publish(Snap(writer.stamp, "running", TRUE))
        BY <2>1 DEF BeginJob
      <3>2. pub' = Snap(writer.stamp, "running", TRUE)
        BY <3>1 DEF Publish
      <3>3. /\ Snap(writer.stamp, "running", TRUE) \in Snaps
            /\ Snap(writer.stamp, "running", TRUE).stamp = writer.stamp
            /\ Snap(writer.stamp, "running", TRUE).state = "running"
            /\ Snap(writer.stamp, "running", TRUE).first
        BY <1>0, SnapType
      <3> QED BY <3>1, <3>2, <3>3
    <2>2. CASE Update
      <3>1. /\ Publish(Snap(writer.stamp, "running", FALSE)) \/ queue' = queue
            /\ pub' = Snap(writer.stamp, "running", FALSE)
            /\ writer.op \in {"force", "throttle"}
        BY <2>2 DEF Update, Publish
      <3>2. writer.stamp = clock
        BY <3>1 DEF StaleInv, WriterInv
      <3>3. /\ Snap(writer.stamp, "running", FALSE) \in Snaps
            /\ Snap(writer.stamp, "running", FALSE).stamp = writer.stamp
            /\ Snap(writer.stamp, "running", FALSE).state = "running"
        BY <1>0, SnapType
      <3> QED BY <3>1, <3>2, <3>3
    <2>3. CASE EndJob
      <3>1. /\ Publish(Snap(writer.stamp, "complete", FALSE))
            /\ job' = "cleaning" /\ writer.op = "end"
        BY <2>3 DEF EndJob
      <3>2. writer.stamp = clock
        BY <3>1 DEF StaleInv, WriterInv
      <3>3. /\ Snap(writer.stamp, "complete", FALSE) \in Snaps
            /\ Snap(writer.stamp, "complete", FALSE).stamp = writer.stamp
        BY <1>0, SnapType
      <3>4. pub' = Snap(writer.stamp, "complete", FALSE)
        BY <3>1 DEF Publish
      <3> QED BY <3>1, <3>2, <3>3, <3>4
    <2> QED BY <2>1, <2>2, <2>3 DEF Report
  <1>3. \A e \in Dashboards : News(e, clock)'
    BY <1>0, <1>1, <1>2, Published DEF StaleInv, ClockInv, News
  <1>4. ClockInv'
    BY <1>0, <1>1, <1>2, <1>3 DEF ClockInv, Nothing
  <1>5. WriterInv'
    BY <1>1, <1>2 DEF WriterInv, Nothing
  <1>6. LatestInv'
    <2>1. CASE snap.state = "running" /\ snap.first
      BY <1>2, <2>1 DEF LatestInv
    <2>2. CASE snap.stamp = clock
      <3>1. pub'.stamp = clock'
        BY <1>1, <1>2, <2>2
      <3> QED BY <1>3, <3>1 DEF LatestInv, News
    <2> QED BY <1>2, <2>1, <2>2
  <1> QED BY <1>4, <1>5, <1>6 DEF StaleInv

\* Every other step of the publisher, its timer and the schedule.
LEMMA PublisherStale ==
    ASSUME TypeOK, TypeOK', StaleInv, Sync \/ ResetToIdle \/ ScheduledSync
    PROVE  StaleInv'
  <1>0. /\ pub \in Snaps /\ pub.stamp \in Nat /\ clock \in Nat /\ writer.stamp \in Nat
        /\ clock + 1 \in Nat
    BY DEF TypeOK, Snaps
  <1>1. ASSUME NEW op \in Reports, ReadClock(op) PROVE StaleInv'
    <2>1. /\ clock' = clock + 1 /\ writer' = [op |-> op, stamp |-> clock']
          /\ UNCHANGED <<pub, job, newest, queue, net>>
      BY <1>1 DEF ReadClock, streams, shows
    <2>2. /\ op = "begin" => job = "triggered"
          /\ op \in {"force", "throttle", "end"} => job = "working"
      BY DEF Reports
    <2>3. ASSUME NEW e \in Dashboards PROVE News(e, clock)'
      <3>1. News(e, clock + 1)
        BY <1>0, Later DEF StaleInv, ClockInv
      <3> QED BY <2>1, <3>1 DEF News, UpTo
    <2>4. ClockInv'
      BY <1>0, <2>1, <2>3 DEF StaleInv, ClockInv
    <2>5. WriterInv'
      BY <2>1, <2>2 DEF StaleInv, WriterInv
    <2>6. LatestInv'
      BY <2>1 DEF StaleInv, LatestInv, News, UpTo
    <2> QED BY <2>4, <2>5, <2>6 DEF StaleInv
  <1>2. CASE Release \/ ScheduledSync
    <2>1. UNCHANGED <<clock, pub, writer, newest, queue, net>>
      BY <1>2 DEF Release, ScheduledSync, streams, shows
    <2>2. /\ job \in {"cleaning", "free"} /\ job' \in {"free", "triggered"}
      BY <1>2 DEF Release, ScheduledSync, Trigger
    <2>3. WriterInv'
      BY <2>1, <2>2 DEF StaleInv, WriterInv
    <2> QED BY <2>1, <2>3 DEF StaleInv, ClockInv, LatestInv, News, UpTo
  <1>3. CASE ResetToIdle
    <2>1. /\ pub.state = "complete" /\ clock' = clock + 1
          /\ Publish(Snap(clock', "idle", FALSE))
          /\ UNCHANGED <<job, writer, newest, net>>
      BY <1>3 DEF ResetToIdle, shows
    <2>2. /\ pub' = Snap(clock + 1, "idle", FALSE) /\ pub' \in Snaps
          /\ pub'.stamp = clock + 1
      BY <1>0, <2>1, SnapType DEF Publish
    <2>3. ASSUME NEW e \in Dashboards PROVE News(e, clock + 1)
      BY <1>0, Later DEF StaleInv, ClockInv
    <2>4. \A e \in Dashboards : News(e, clock)'
      <3>0. /\ Snap(clock + 1, "idle", FALSE) \in Snaps
            /\ Snap(clock + 1, "idle", FALSE).stamp = clock + 1
            /\ clock + 1 <= clock + 1
        <4> DEFINE n == clock + 1
        <4>1. n \in Nat
          BY <1>0
        <4> HIDE DEF n
        <4>2. Snap(n, "idle", FALSE) \in Snaps /\ Snap(n, "idle", FALSE).stamp = n
          BY <4>1, SnapType
        <4>3. n <= n
          BY <4>1
        <4> QED BY <4>2, <4>3 DEF n
      <3>1. Publish(Snap(clock + 1, "idle", FALSE))
        BY <2>1
      <3>2. \A e \in Dashboards :
               /\ newest'[e] <= clock + 1
               /\ UpTo(queue'[e], clock + 1) /\ UpTo(net'[e], clock + 1)
        BY <1>0, <2>1, <2>3, <3>0, <3>1, Published
      <3> QED BY <2>1, <3>2 DEF News
    <2>5. job # "working"
      BY <2>1 DEF StaleInv, WriterInv
    <2>6. ClockInv'
      <3>1. pub'.stamp <= clock'
        <4>1. pub'.stamp = clock' /\ clock' \in Nat
          BY <1>0, <2>1, <2>2
        <4> QED BY <4>1
      <3>2. writer'.stamp <= clock'
        BY <1>0, <2>1 DEF StaleInv, ClockInv
      <3> QED BY <2>4, <3>1, <3>2 DEF ClockInv
    <2>7. WriterInv'
      BY <2>1, <2>5 DEF StaleInv, WriterInv
    <2>8. LatestInv'
      BY <2>1, <2>2, <2>4 DEF LatestInv, News
    <2> QED BY <2>6, <2>7, <2>8 DEF StaleInv
  <1> QED BY <1>1, <1>2, <1>3, ReportStale DEF Sync

\* On a host that goes on a restart reads a later time than any before it.
LEMMA RestartStale ==
    ASSUME ~HostMayReboot, TypeOK, StaleInv, Restart
    PROVE  StaleInv'
  <1>0. clock \in Nat /\ clock + 1 \in Nat
    BY DEF TypeOK
  <1>1. /\ clock' = clock + 1 /\ pub' = Snap(clock + 1, "idle", FALSE)
        /\ job' = "free" /\ writer' = Nothing
        /\ queue' = [d \in Dashboards |-> <<>>]
        /\ UNCHANGED <<net, newest>>
    BY DEF Restart, shows
  <1>2. pub'.stamp = clock + 1
    BY <1>0, <1>1, SnapType
  <1>3. ASSUME NEW e \in Dashboards
        PROVE  newest'[e] <= clock + 1 /\ UpTo(queue'[e], clock + 1)
                  /\ UpTo(net'[e], clock + 1)
    BY <1>0, <1>1, Later, UpToSmall DEF StaleInv, ClockInv, News
  <1>4. ClockInv'
    <2>1. pub'.stamp = clock' /\ writer'.stamp = 0 /\ clock' \in Nat
      BY <1>0, <1>1, <1>2 DEF Nothing
    <2>2. pub'.stamp <= clock' /\ writer'.stamp <= clock'
      BY <2>1
    <2> QED BY <1>1, <1>3, <2>2 DEF ClockInv, News
  <1>5. WriterInv'
    BY <1>1 DEF WriterInv, Nothing
  <1>6. LatestInv'
    BY <1>1, <1>2, <1>3 DEF LatestInv, News
  <1> QED BY <1>4, <1>5, <1>6 DEF StaleInv

\* A step of a stream, a page or a connection.
LEMMA DashboardStale ==
    ASSUME TypeOK, StaleInv, NEW d \in Dashboards,
           Stream(d) \/ Page(d) \/ LoadPage(d) \/ LoseStream(d) \/ SyncNow(d)
    PROVE  StaleInv'
  <1>0. pub.stamp \in Nat /\ clock \in Nat
    BY DEF TypeOK, Snaps
  <1>1. /\ UNCHANGED <<clock, pub, writer>>
        /\ job' # job => job = "free" /\ job' = "triggered"
    <2> USE DEF publisher
    <2>1. CASE Stream(d)
      BY <2>1 DEF Stream, Subscribe, YieldQueued, Timeout, Heartbeat
    <2>2. CASE Receive(d)
      BY <2>2 DEF Receive
    <2>3. CASE Page(d) /\ ~Receive(d)
      BY <2>3 DEF Page, InitPage, RevertToIdle, ScheduleReconnect, SyncNowAnswered
    <2>4. CASE LoadPage(d) \/ LoseStream(d)
      BY <2>4 DEF LoadPage, LoseStream
    <2>5. CASE SyncNow(d)
      BY <2>5 DEF SyncNow, Trigger
    <2> QED BY <2>1, <2>2, <2>3, <2>4, <2>5
  <1>2. WriterInv'
    BY <1>1 DEF StaleInv, WriterInv
  <1>3. ClockInv'
    <2>1. \A e \in Dashboards :
             newest'[e] <= clock /\ UpTo(queue'[e], clock) /\ UpTo(net'[e], clock)
      BY <1>0, Delivered DEF StaleInv, ClockInv
    <2> QED BY <1>1, <2>1 DEF StaleInv, ClockInv, News
  <1>4. LatestInv'
    <2>1. CASE pub.state = "running" /\ pub.first
      BY <1>1, <2>1 DEF LatestInv
    <2>2. CASE \A e \in Dashboards : News(e, pub.stamp)
      <3>1. \A e \in Dashboards :
               /\ newest'[e] <= pub.stamp
               /\ UpTo(queue'[e], pub.stamp) /\ UpTo(net'[e], pub.stamp)
        BY <1>0, <2>2, Delivered
      <3> QED BY <1>1, <3>1 DEF LatestInv, News
    <2> QED BY <2>1, <2>2 DEF StaleInv, LatestInv
  <1> QED BY <1>2, <1>3, <1>4 DEF StaleInv

LEMMA InitStale == Init => StaleInv
  <1> SUFFICES ASSUME Init PROVE StaleInv
    OBVIOUS
  <1>1. pub.stamp = 1 /\ clock = 1 /\ writer.stamp = 0 /\ writer.op = "none"
    BY SnapType DEF Init, Nothing
  <1>2. \A e \in Dashboards : News(e, 1)
    BY UpToSmall DEF Init, News
  <1>3. ClockInv /\ LatestInv
    BY <1>1, <1>2 DEF ClockInv, LatestInv
  <1>4. WriterInv
    BY <1>1 DEF Init, WriterInv
  <1> QED BY <1>3, <1>4 DEF StaleInv

LEMMA NextStale ==
    ASSUME ~HostMayReboot, TypeOK, TypeOK', StaleInv, [Next]_vars
    PROVE  StaleInv'
  <1>1. CASE UNCHANGED vars
    BY <1>1 DEF vars, publisher, streams, shows, StaleInv, ClockInv, WriterInv,
                LatestInv, News, UpTo
  <1> QED BY <1>1, PublisherStale, RestartStale, DashboardStale DEF Next

\* On a host whose clock does not start again the only news a dashboard takes
\* for stale is the first frame of a job (progress.py, dashboard.js).
THEOREM StaleIsFirst ==
    ASSUME ~HostMayReboot
    PROVE  Spec => []OnlyBeginsLookStale
  <1>1. TypeOK /\ TypeOK' /\ StaleInv /\ [Next]_vars => StaleInv'
    BY NextStale
  <1>2. TypeOK /\ StaleInv => OnlyBeginsLookStale
    <2> SUFFICES ASSUME TypeOK, StaleInv, NEW d \in Dashboards,
                        newest[d] > pub.stamp
                 PROVE  pub.state = "running" /\ pub.first
      BY DEF OnlyBeginsLookStale
    <2>1. newest[d] \in Nat /\ pub.stamp \in Nat
      BY DEF TypeOK, Snaps
    <2> QED BY <2>1 DEF StaleInv, LatestInv, News
  <1> QED BY <1>1, <1>2, InitStale, TypeCorrect, PTL DEF Spec

=============================================================================
