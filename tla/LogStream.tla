------------------------------ MODULE LogStream ------------------------------
(***************************************************************************)
(* The live log view: the ring buffer the root logger writes to, the        *)
(* Server-Sent Events streams that subscribe to it, the slots that bound    *)
(* how many streams are open, the page of a browser that follows a stream,  *)
(* and the restarts of the server under all of them (log_buffer.py,         *)
(* api_logs.py, sse.py, ui.py, logs.js).  A log line is its number: level,  *)
(* text, filters and scrolling change nothing here.                         *)
(***************************************************************************)
EXTENDS Naturals, FiniteSets, SequencesExt

CONSTANTS
    Clients,          \* the browsers' pages
    Conns,            \* the server's ends of the streams: its worker threads
    NoOne,            \* the other end of a stream that is gone
    MaxStreams,       \* MAX_STREAMS
    QueueMax,         \* _SUBSCRIBER_QUEUE_MAX
    Capacities,       \* the values ring_buffer_capacity is given
    GapFitsQueue,     \* TRUE when fewer lines than a queue holds are logged
                      \* between subscribe() and snapshot() of one request
    MaxLines,         \* bound: lines of one server process
    MaxBoots,         \* bound: server processes
    MaxErrors         \* bound: connections lost while both ends live

ASSUME LogAssumption ==
    /\ NoOne \notin Clients
    /\ {MaxStreams, QueueMax} \subseteq Nat \ {0}
    /\ Capacities # {} /\ Capacities \subseteq Nat \ {0}
    /\ {MaxLines, MaxBoots, MaxErrors} \subseteq Nat
    /\ GapFitsQueue \in BOOLEAN

VARIABLES
    boot,      \* BOOT_ID
    seq,       \* LogBuffer._seq
    lines,     \* LogBuffer._lines, oldest first
    capacity,  \* LogBuffer._capacity
    queue,     \* the queue of each stream
    subs,      \* _subscribers: the streams whose queue is registered
    active,    \* _StreamLimiter.active
    slot,      \* the streams whose release() has not been called
    place,     \* the place of each stream in its response
    reader,    \* the client at the other end of each stream
    page,      \* each client's place
    bootId,    \* _bootId of each client
    lastSeq,   \* _lastSeq of each client
    net,       \* the frames on their way to each client
    shown,     \* the rows each client was given since its page was loaded
    missable,  \* the lines no stream owes a client: overflowed or overwritten
    errors     \* connections lost so far

buffer == <<boot, seq, lines, capacity>>
streams == <<queue, subs, active, slot, place, reader>>
clients == <<page, bootId, lastSeq, net, shown>>
vars == <<buffer, streams, clients, missable, errors>>

Line(n) == [boot |-> boot, seq |-> n]

Init ==
    /\ boot = 1 /\ seq = 0 /\ lines = <<>> /\ capacity \in Capacities
    /\ queue = [c \in Conns |-> <<>>] /\ subs = {}
    /\ active = 0 /\ slot = {}
    /\ place = [c \in Conns |-> "none"] /\ reader = [c \in Conns |-> NoOne]
    /\ page = [b \in Clients |-> "away"]
    /\ bootId = [b \in Clients |-> 0] /\ lastSeq = [b \in Clients |-> 0]
    /\ net = [b \in Clients |-> <<>>] /\ shown = [b \in Clients |-> <<>>]
    /\ missable = {} /\ errors = 0

-----------------------------------------------------------------------------
(* The buffer.                                                              *)

Newest(s, n) == IF Len(s) > n THEN SubSeq(s, Len(s) - n + 1, Len(s)) ELSE s

Full(c) == Len(queue[c]) = QueueMax

\* Wrong variant: the subscriber makes room by forgetting its oldest line.
OfferDropOldest(c, n) ==
    IF Full(c) THEN Append(Tail(queue[c]), n) ELSE Append(queue[c], n)

Offer(c, n) == IF Full(c) THEN queue[c] ELSE Append(queue[c], n)

\* A record is logged: stored, and offered to every registered queue.
Emit ==
    /\ seq < MaxLines
    /\ GapFitsQueue => \A c \in subs : place[c] = "subscribed" => ~Full(c)
    /\ seq' = seq + 1
    /\ lines' = Newest(Append(lines, seq'), capacity)
    /\ queue' = [c \in Conns |-> IF c \in subs THEN Offer(c, seq') ELSE queue[c]]
    /\ missable' = IF \E c \in subs : reader[c] # NoOne /\ Full(c)
                   THEN missable \cup {Line(seq')}
                   ELSE missable
    /\ UNCHANGED <<boot, capacity, subs, active, slot, place, reader, clients,
                   errors>>

SetCapacity(n) == capacity' = n /\ lines' = Newest(lines, n)

\* The settings listener resizes the ring; a capacity that is the old one, or a
\* change of other settings, does nothing to it.
Reconfigure ==
    /\ \E n \in Capacities \ {capacity} : SetCapacity(n)
    /\ UNCHANGED <<boot, seq, streams, clients, missable, errors>>

-----------------------------------------------------------------------------
(* A stream, one step per lock it takes.                                    *)

\* sse_response has a slot: the response is made, its body not started.
Accept(b, c) ==
    /\ page[b] = "asking" /\ place[c] = "none"
    /\ active < MaxStreams
    /\ active' = active + 1 /\ slot' = slot \cup {c}
    /\ place' = [place EXCEPT ![c] = "unstarted"]
    /\ reader' = [reader EXCEPT ![c] = b]
    /\ page' = [page EXCEPT ![b] = "open"]
    /\ UNCHANGED <<buffer, queue, subs, bootId, lastSeq, net, shown, missable,
                   errors>>

\* 503: every slot is taken.  The body was not started and holds nothing.
Refuse(b) ==
    /\ page[b] = "asking"
    /\ active >= MaxStreams
    /\ page' = [page EXCEPT ![b] = "waiting"]
    /\ UNCHANGED <<buffer, streams, bootId, lastSeq, net, shown, missable, errors>>

Subscribe(c) ==
    /\ place[c] = "unstarted"
    /\ subs' = subs \cup {c}
    /\ queue' = [queue EXCEPT ![c] = <<>>]
    /\ place' = [place EXCEPT ![c] = "subscribed"]
    /\ UNCHANGED <<buffer, active, slot, reader, clients, missable, errors>>

\* A frame is written to the client, if it is still there.
Send(c, ns) ==
    IF reader[c] = NoOne
    THEN /\ place' = [place EXCEPT ![c] = "closing"]
         /\ UNCHANGED net
    ELSE /\ place' = [place EXCEPT ![c] = "streaming"]
         /\ net' = [net EXCEPT ![reader[c]] = Append(@, [boot |-> boot, lines |-> ns])]

\* The ring is read; what it no longer holds nobody will be sent.
Snapshot(c) ==
    /\ place[c] = "subscribed"
    /\ IF lines # <<>>
       THEN Send(c, lines)
       ELSE place' = [place EXCEPT ![c] = "streaming"] /\ UNCHANGED net
    /\ missable' = missable \cup {Line(n) : n \in (1..seq) \ ToSet(lines)}
    /\ UNCHANGED <<buffer, queue, subs, active, slot, reader, page, bootId,
                   lastSeq, shown, errors>>

\* One batch: all that is queued.
Drain(c) ==
    /\ place[c] = "streaming" /\ queue[c] # <<>>
    /\ Send(c, queue[c])
    /\ queue' = [queue EXCEPT ![c] = <<>>]
    /\ UNCHANGED <<buffer, subs, active, slot, reader, page, bootId, lastSeq,
                   shown, missable, errors>>

\* Wrong variant: the queue is waited on without a timeout.
NoHeartbeat(c) == FALSE

\* HEARTBEAT_SECONDS without a line: the keepalive fails if nobody reads.
Heartbeat(c) ==
    /\ place[c] = "streaming" /\ queue[c] = <<>> /\ reader[c] = NoOne
    /\ place' = [place EXCEPT ![c] = "closing"]
    /\ UNCHANGED <<buffer, queue, subs, active, slot, reader, clients, missable,
                   errors>>

\* The server drops the response of a client that left before the body began.
CloseUnstarted(c) ==
    /\ place[c] = "unstarted" /\ reader[c] = NoOne
    /\ place' = [place EXCEPT ![c] = "released"]
    /\ UNCHANGED <<buffer, queue, subs, active, slot, reader, clients, missable,
                   errors>>

\* batches.close(): _drain's finally and Subscription.close both unregister.
CloseBatches(c) ==
    /\ place[c] = "closing"
    /\ subs' = subs \ {c}
    /\ queue' = [queue EXCEPT ![c] = <<>>]
    /\ place' = [place EXCEPT ![c] = "closed"]
    /\ UNCHANGED <<buffer, active, slot, reader, clients, missable, errors>>

\* Wrong variant: the slot is given back however often it is asked for.
ReleaseAgain(c) ==
    /\ active' = active - 1
    /\ slot' = slot \ {c}

Release(c) ==
    /\ active' = IF c \in slot THEN active - 1 ELSE active
    /\ slot' = slot \ {c}

\* _guarded's finally.
EndGuarded(c) ==
    /\ place[c] = "closed"
    /\ Release(c)
    /\ place' = [place EXCEPT ![c] = "released"]
    /\ UNCHANGED <<buffer, queue, subs, reader, clients, missable, errors>>

\* The server closes the response: call_on_close(release).
CloseResponse(c) ==
    /\ place[c] = "released"
    /\ Release(c)
    /\ place' = [place EXCEPT ![c] = "none"]
    /\ UNCHANGED <<buffer, queue, subs, reader, clients, missable, errors>>

-----------------------------------------------------------------------------
(* A client.                                                                *)

\* The stream the client was reading has nobody at its other end any more.
Unread(b) == [c \in Conns |-> IF reader[c] = b THEN NoOne ELSE reader[c]]

\* GET /logs: the page holds a snapshot and the boot id.
RenderPage(b) ==
    /\ page[b] = "away"
    /\ page' = [page EXCEPT ![b] = "rendered"]
    /\ bootId' = [bootId EXCEPT ![b] = boot]
    /\ shown' = [shown EXCEPT ![b] = [i \in DOMAIN lines |-> Line(lines[i])]]
    /\ missable' = missable \cup {Line(n) : n \in (1..seq) \ ToSet(lines)}
    /\ UNCHANGED <<buffer, streams, lastSeq, net, errors>>

\* Wrong variant: the watermark does not know of the rows the page came with.
InitUnmarked(b) ==
    /\ page[b] = "rendered"
    /\ page' = [page EXCEPT ![b] = "asking"]
    /\ UNCHANGED <<buffer, streams, bootId, lastSeq, net, shown, missable, errors>>

\* init() of the page: the watermark is the highest row, the stream is opened.
InitPage(b) ==
    /\ page[b] = "rendered"
    /\ page' = [page EXCEPT ![b] = "asking"]
    /\ lastSeq' = [lastSeq EXCEPT ![b] = IF shown[b] = <<>> THEN 0
                                         ELSE Last(shown[b]).seq]
    /\ UNCHANGED <<buffer, streams, bootId, net, shown, missable, errors>>

\* syncBoot: the frame is of another process, or behind the watermark.
NewBoot(b, frame) == frame.boot # bootId[b]
WentBack(b, frame) == Last(frame.lines) < lastSeq[b]

\* Wrong variant: a restart is told by the watermark alone.
RestartedByWatermark(b, frame) == WentBack(b, frame)

Restarted(b, frame) == NewBoot(b, frame) \/ WentBack(b, frame)

\* appendLines: what the watermark has passed was shown already.  It filters
\* the lines of the frame, in the order they have.
Fresh(ns, mark) ==
    LET kept == {i \in DOMAIN ns : ns[i] > mark}
    IN [j \in 1..Cardinality(kept) |->
           ns[CHOOSE i \in kept : Cardinality({k \in kept : k <= i}) = j]]

\* onFrame.  The row of number 0 is the marker "server restarted".
Receive(b) ==
    /\ page[b] \in {"open", "broken"} /\ net[b] # <<>>
    /\ LET frame == Head(net[b])
           again == Restarted(b, frame)
           mark == IF again THEN 0 ELSE lastSeq[b]
           fresh == Fresh(frame.lines, mark)
           row(n) == [boot |-> frame.boot, seq |-> n]
       IN /\ bootId' = [bootId EXCEPT ![b] = frame.boot]
          /\ lastSeq' = [lastSeq EXCEPT ![b] =
                IF fresh = <<>> THEN mark ELSE Last(fresh)]
          /\ shown' = [shown EXCEPT ![b] =
                @ \o (IF again THEN <<row(0)>> ELSE <<>>)
                  \o [i \in DOMAIN fresh |-> row(fresh[i])]]
    /\ net' = [net EXCEPT ![b] = Tail(@)]
    /\ UNCHANGED <<buffer, streams, page, missable, errors>>

\* onStreamError: the stream is closed and opened again after the backoff.
LoseStream(b) ==
    /\ \/ page[b] = "broken" /\ UNCHANGED errors
       \/ page[b] = "open" /\ errors < MaxErrors /\ errors' = errors + 1
    /\ page' = [page EXCEPT ![b] = "waiting"]
    /\ net' = [net EXCEPT ![b] = <<>>]
    /\ reader' = Unread(b)
    /\ UNCHANGED <<buffer, queue, subs, active, slot, place, bootId, lastSeq,
                   shown, missable>>

OpenStream(b) ==
    /\ page[b] = "waiting"
    /\ page' = [page EXCEPT ![b] = "asking"]
    /\ UNCHANGED <<buffer, streams, bootId, lastSeq, net, shown, missable, errors>>

Leave(b) ==
    /\ page[b] \notin {"away", "left"}
    /\ page' = [page EXCEPT ![b] = "left"]
    /\ net' = [net EXCEPT ![b] = <<>>]
    /\ shown' = [shown EXCEPT ![b] = <<>>]
    /\ bootId' = [bootId EXCEPT ![b] = 0]
    /\ lastSeq' = [lastSeq EXCEPT ![b] = 0]
    /\ reader' = Unread(b)
    /\ UNCHANGED <<buffer, queue, subs, active, slot, place, missable, errors>>

-----------------------------------------------------------------------------
\* The server process ends and another one starts.
Restart ==
    /\ boot < MaxBoots
    /\ boot' = boot + 1 /\ seq' = 0 /\ lines' = <<>>
    /\ queue' = [c \in Conns |-> <<>>] /\ subs' = {}
    /\ active' = 0 /\ slot' = {}
    /\ place' = [c \in Conns |-> "none"] /\ reader' = [c \in Conns |-> NoOne]
    /\ page' = [b \in Clients |-> IF page[b] = "open" THEN "broken" ELSE page[b]]
    /\ UNCHANGED <<capacity, bootId, lastSeq, net, shown, missable, errors>>

Stream(c) ==
    \/ Subscribe(c) \/ Snapshot(c) \/ Drain(c) \/ Heartbeat(c)
    \/ CloseUnstarted(c) \/ CloseBatches(c) \/ EndGuarded(c) \/ CloseResponse(c)

Connect(b) == InitPage(b) \/ OpenStream(b) \/ \E c \in Conns : Accept(b, c)

Next ==
    \/ Emit \/ Reconfigure \/ Restart
    \/ \E c \in Conns : Stream(c)
    \/ \E b \in Clients :
          \/ RenderPage(b) \/ Connect(b) \/ Refuse(b) \/ Receive(b)
          \/ LoseStream(b) \/ Leave(b)

Spec == Init /\ [][Next]_vars

\* Worker threads run, and a response that nobody reads ends at the latest with
\* the next heartbeat; a page that is not closed goes on connecting, reading
\* what arrives and noticing that the server is gone.
LiveSpec ==
    /\ Spec
    /\ \A c \in Conns : WF_vars(Stream(c))
    /\ \A b \in Clients :
          /\ WF_vars(Connect(b)) /\ WF_vars(Receive(b))
          /\ WF_vars(page[b] = "broken" /\ LoseStream(b))

-----------------------------------------------------------------------------
(* Properties.                                                              *)

Frames == [boot : Nat, lines : Seq(1..MaxLines)]
Rows == [boot : Nat, seq : 0..MaxLines]

TypeOK ==
    /\ boot \in Nat \ {0} /\ seq \in 0..MaxLines
    /\ lines \in Seq(1..MaxLines) /\ capacity \in Capacities
    /\ Len(lines) <= capacity
    /\ queue \in [Conns -> Seq(1..MaxLines)]
    /\ \A c \in Conns : Len(queue[c]) <= QueueMax
    /\ subs \subseteq Conns
    /\ active \in Nat /\ slot \subseteq Conns
    /\ place \in [Conns -> {"none", "unstarted", "subscribed", "streaming",
                            "closing", "closed", "released"}]
    /\ reader \in [Conns -> Clients \cup {NoOne}]
    /\ page \in [Clients -> {"away", "rendered", "waiting", "asking", "open",
                             "broken", "left"}]
    /\ bootId \in [Clients -> Nat] /\ lastSeq \in [Clients -> 0..MaxLines]
    /\ net \in [Clients -> Seq(Frames)]
    /\ shown \in [Clients -> Seq(Rows)]
    /\ errors \in 0..MaxErrors

Before(r, s) == r.boot < s.boot \/ (r.boot = s.boot /\ r.seq < s.seq)

\* A page shows each line once, in the order it was logged, across the snapshot
\* of the page, that of the stream, reconnections and restarts; and it says
\* "server restarted" only where one process's lines end and another's begin.
RowsInOrder ==
    \A b \in Clients : \A i \in 1..(Len(shown[b]) - 1) :
        Before(shown[b][i], shown[b][i + 1])

\* A page leaves out no line between two it shows, other than those the
\* ring had overwritten before the client asked or that overflowed its queue
\* (subscribe first, then snapshot).
NothingMissed ==
    \A b \in Clients : \A i \in 1..(Len(shown[b]) - 1) :
        LET r == shown[b][i]
            s == shown[b][i + 1]
        IN r.boot = s.boot =>
              \A n \in (r.seq + 1)..(s.seq - 1) :
                  [boot |-> r.boot, seq |-> n] \in missable

\* The count of open streams is the number of slots that are out, never more
\* than there are, and an ended stream has left neither a slot nor a queue
\* behind, whichever way it ended.
NothingLeaks ==
    /\ active = Cardinality(slot) /\ active <= MaxStreams
    /\ \A c \in Conns : place[c] = "none" => c \notin slot /\ c \notin subs

\* What is logged reaches the page that stays, unless it may be missed.
LinesArrive ==
    \A b \in Clients : \A k \in 1..MaxBoots, n \in 1..MaxLines :
        LET line == [boot |-> k, seq |-> n]
        IN (boot = k /\ seq >= n /\ page[b] \notin {"away", "left"})
              ~> \/ line \in ToSet(shown[b]) \cup missable
                 \/ boot # k \/ page[b] = "left"

\* A stream whose client is gone does not keep its worker thread.
DepartedStreamsEnd ==
    \A c \in Conns :
        (place[c] # "none" /\ reader[c] = NoOne) ~> place[c] = "none"

\* What reaches a page is on it: in particular a slow client catches up, with
\* the snapshot of its next connection, on what overflowed its queue before.
\* The docstring of LogBuffer says so, but the page drops what lies below its
\* watermark.  No run checks it; TLC finds the counterexample.
ReceivedIsShown ==
    [][\A b \in Clients : Receive(b) =>
          \A n \in ToSet(Head(net[b]).lines) :
              [boot |-> Head(net[b]).boot, seq |-> n] \in ToSet(shown'[b])]_vars

=============================================================================
