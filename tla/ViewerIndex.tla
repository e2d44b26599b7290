----------------------------- MODULE ViewerIndex -----------------------------
(***************************************************************************)
(* The viewer's index of the recordings at the destination: the cached      *)
(* listing of each directory, trusted while the directory's modification    *)
(* time stands still, the refresh that walks the tree under the index's     *)
(* lock, the requests that look recordings up, and the syncs that change    *)
(* the directories meanwhile (viewer_index.py, api_viewer.py).              *)
(***************************************************************************)
EXTENDS Integers, FiniteSets, SequencesExt

CONSTANTS
    Dirs, Root,       \* the directories, and the destination itself
    Rank,             \* the order of their names
    Names,            \* the names a file may have
    Keys,             \* the recording instants: base filename and type
    KeyOf,            \* the instant each name belongs to
    Stored,           \* the files in each directory that is there at first
    Sidecars,         \* the names that are .gps files; the others are videos
    TimeOf, TypeOf,   \* datetime and type of each instant
    Gap,              \* _CONTIGUOUS_GAP
    Granule,          \* the granularity of a modification time
    Skew,             \* how far the clock of the disk's host may be behind
    Window,           \* _RACY_MTIME_WINDOW_NS
    Requests,         \* the request threads
    Indexes,          \* the RecordingIndex objects
    Nobody,           \* the holder of a free lock
    MaxClock,         \* bound: the clock
    MaxChanges,       \* bound: changes of directories
    MaxLookups        \* bound: lookups

ASSUME ViewerAssumption ==
    /\ Nobody \notin Requests \cup Dirs
    /\ Root \in Dirs /\ Rank \in [Dirs -> Nat]
    /\ Stored \in [Dirs -> SUBSET Names]
    /\ Sidecars \subseteq Names /\ KeyOf \in [Names -> Keys]
    /\ TimeOf \in [Keys -> Nat] /\ TypeOf \in [Keys -> {"N", "E", "P", "M"}]
    /\ {Gap, Skew, Window, MaxClock, MaxChanges, MaxLookups} \subseteq Nat
    /\ Granule \in Nat \ {0}

\* A directory holds finitely many files, no two directories have one name, and
\* the name of an instant is its time.
ASSUME LibraryAssumption ==
    /\ IsFiniteSet(Dirs) /\ IsFiniteSet(Names)
    /\ \A d, e \in Dirs : Rank[d] = Rank[e] => d = e
    /\ \A k, l \in Keys : TimeOf[k] = TimeOf[l] /\ TypeOf[k] = TypeOf[l] => k = l

\* An instant has one sidecar of the kind, named for it.
ASSUME SidecarAssumption == \A m, n \in Sidecars : KeyOf[m] = KeyOf[n] => m = n

\* The window outlasts a tick of the modification times and the clocks' skew.
ASSUME WindowAssumption == Skew + Granule <= Window

VARIABLES
    clock,     \* time.time_ns() of the server
    disk,      \* each directory: whether it exists, its mtime and its files
    live,      \* the index in _indexes
    lock,      \* who holds _lock of each index
    cache,     \* _dirs of each index
    scans,     \* _scans of each index
    views,     \* _views of each index: the signature and the files found
    walk,      \* the refresh under way in each index
    req,       \* the place of each request, its index, its answers
    always,    \* the files that were there since a request began (history)
    ever,      \* those that were there at some time since then (history)
    changes,   \* changes of directories so far
    lookups    \* lookups so far

indexes == <<lock, cache, scans, views, walk>>
histories == <<always, ever>>
vars == <<clock, disk, live, indexes, req, histories, changes, lookups>>

Empty == [d \in {} |-> 0]
NoWalk == [now |-> 0, pending |-> {}, seen |-> Empty, at |-> Nobody, mtime |-> 0]
Missing == [exists |-> FALSE, mtime |-> 0, files |-> {}]
Fresh == [pc |-> "idle", kind |-> "find", index |-> Nobody, key |-> Nobody,
          found |-> {}, status |-> "none", chain |-> <<>>]

\* Where a file is, and what the disk holds.
Present == {f \in Dirs \X Names : disk[f[1]].exists /\ f[2] \in disk[f[1]].files}

Init ==
    /\ clock = Skew + Window
    /\ \E made \in SUBSET (Dirs \ {Root}) :
          disk = [d \in Dirs |->
                     IF d \in made \cup {Root}
                     THEN [exists |-> TRUE, mtime |-> 0, files |-> Stored[d]]
                     ELSE Missing]
    /\ live \in Indexes
    /\ lock = [i \in Indexes |-> Nobody]
    /\ cache = [i \in Indexes |-> Empty]
    /\ scans = [i \in Indexes |-> 0]
    /\ views = [i \in Indexes |-> [signature |-> {}, found |-> {}]]
    /\ walk = [i \in Indexes |-> NoWalk]
    /\ req = [r \in Requests |-> Fresh]
    /\ always = [r \in Requests |-> {}] /\ ever = [r \in Requests |-> {}]
    /\ changes = 0 /\ lookups = 0

-----------------------------------------------------------------------------
(* The disk: syncs, retention and cleaning, seen as changes of directories. *)

Tick ==
    /\ clock < MaxClock
    /\ clock' = clock + 1
    /\ UNCHANGED <<disk, live, indexes, req, histories, changes, lookups>>

\* What the disk's host writes as a modification time: at most a granule old,
\* by a clock that is Skew behind.
Stamps == (clock - Skew - Granule + 1)..(clock - Skew)

Busy(r) == req[r].pc \notin {"idle", "done"}

Change ==
    /\ changes < MaxChanges /\ changes' = changes + 1
    /\ always' = [r \in Requests |->
          IF Busy(r) THEN always[r] \cap Present' ELSE always[r]]
    /\ ever' = [r \in Requests |->
          IF Busy(r) THEN ever[r] \cup Present' ELSE ever[r]]
    /\ UNCHANGED <<clock, live, indexes, req, lookups>>

\* A file is renamed into place.
AddFile(d, n) ==
    /\ disk[d].exists /\ n \notin disk[d].files
    /\ \E t \in Stamps :
          disk' = [disk EXCEPT ![d] = [exists |-> TRUE, mtime |-> t,
                                       files |-> @.files \cup {n}]]
    /\ Change

RemoveFile(d, n) ==
    /\ disk[d].exists /\ n \in disk[d].files
    /\ \E t \in Stamps :
          disk' = [disk EXCEPT ![d] = [exists |-> TRUE, mtime |-> t,
                                       files |-> @.files \ {n}]]
    /\ Change

MakeDir(d) ==
    /\ ~disk[d].exists
    /\ \E t \in Stamps :
          disk' = [disk EXCEPT ![d] = [exists |-> TRUE, mtime |-> t, files |-> {}],
                               ![Root] = [@ EXCEPT !.mtime = t]]
    /\ Change

RemoveDir(d) ==
    /\ d # Root /\ disk[d].exists /\ disk[d].files = {}
    /\ \E t \in Stamps :
          disk' = [disk EXCEPT ![d] = Missing, ![Root] = [@ EXCEPT !.mtime = t]]
    /\ Change

-----------------------------------------------------------------------------
(* RecordingIndex._refresh, under the lock of the index.                    *)

\* The subdirectories scandir sees: they all lie in the root.
Subdirs(d) == IF d = Root THEN {e \in Dirs \ {Root} : disk[e].exists} ELSE {}

\* _current takes the lock, and the walk begins at the root.
Acquire(r) ==
    LET i == req[r].index IN
    /\ req[r].pc = "lookup" /\ lock[i] = Nobody
    /\ lock' = [lock EXCEPT ![i] = r]
    /\ walk' = [walk EXCEPT ![i] = [NoWalk EXCEPT !.now = clock, !.pending = {Root}]]
    /\ req' = [req EXCEPT ![r].pc = "walk"]
    /\ UNCHANGED <<clock, disk, live, cache, scans, views, histories, changes,
                   lookups>>

Take(i, d, listing) ==
    walk' = [walk EXCEPT ![i].seen = [e \in DOMAIN @ \cup {d} |->
                                         IF e = d THEN listing ELSE @[e]],
                         ![i].pending = (@ \ {d}) \cup listing.subdirs,
                         ![i].at = Nobody]

Trusted(i, d) ==
    /\ d \in DOMAIN cache[i]
    /\ cache[i][d].mtime = disk[d].mtime /\ ~cache[i][d].racy

\* os.stat: the directory is gone, as listed, or to be listed again.
StatDir(r) ==
    LET i == req[r].index IN
    /\ req[r].pc = "walk" /\ walk[i].at = Nobody
    /\ \E d \in walk[i].pending :
          \/ /\ ~disk[d].exists
             /\ walk' = [walk EXCEPT ![i].pending = @ \ {d}]
          \/ /\ disk[d].exists /\ Trusted(i, d)
             /\ Take(i, d, cache[i][d])
          \/ /\ disk[d].exists /\ ~Trusted(i, d)
             /\ walk' = [walk EXCEPT ![i].at = d, ![i].mtime = disk[d].mtime]
    /\ UNCHANGED <<clock, disk, live, lock, cache, scans, views, req, histories,
                   changes, lookups>>

\* Wrong variant: a directory that just changed is trusted like any other.
RacyNever(i) == FALSE

Racy(i) == walk[i].now - walk[i].mtime < Window

\* os.scandir, later than the stat.
ScanDir(r) ==
    LET i == req[r].index
        d == walk[i].at
        listing == [mtime |-> walk[i].mtime, files |-> disk[d].files,
                    subdirs |-> Subdirs(d), racy |-> Racy(i), seq |-> scans[i]]
    IN
    /\ req[r].pc = "walk" /\ walk[i].at # Nobody
    /\ \/ /\ ~disk[d].exists
          /\ walk' = [walk EXCEPT ![i].pending = @ \ {d}, ![i].at = Nobody]
          /\ UNCHANGED <<cache, scans>>
       \/ /\ disk[d].exists
          /\ Take(i, d, listing)
          /\ cache' = [cache EXCEPT ![i] =
                [e \in DOMAIN @ \cup {d} |-> IF e = d THEN listing ELSE @[e]]]
          /\ scans' = [scans EXCEPT ![i] = @ + 1]
    /\ UNCHANGED <<clock, disk, live, lock, views, req, histories, changes, lookups>>

\* Wrong variant: the views are those of the modification times.
SignatureOfTimes(seen) == {<<d, seen[d].mtime>> : d \in DOMAIN seen}

Signature(seen) == {<<d, seen[d].seq>> : d \in DOMAIN seen}

Merged(seen) == UNION {{<<d, n>> : n \in seen[d].files} : d \in DOMAIN seen}

\* The views are swapped in if a listing changed, and the lock is released.
Merge(r) ==
    LET i == req[r].index
        seen == walk[i].seen
        new == IF Signature(seen) = views[i].signature THEN views[i]
               ELSE [signature |-> Signature(seen), found |-> Merged(seen)]
    IN
    /\ req[r].pc = "walk" /\ walk[i].at = Nobody /\ walk[i].pending = {}
    /\ cache' = [cache EXCEPT ![i] = seen]
    /\ views' = [views EXCEPT ![i] = new]
    /\ lock' = [lock EXCEPT ![i] = Nobody]
    /\ walk' = [walk EXCEPT ![i] = NoWalk]
    /\ req' = [req EXCEPT ![r].pc = "found", ![r].found = new.found]
    /\ UNCHANGED <<clock, disk, live, scans, histories, changes, lookups>>

-----------------------------------------------------------------------------
(* The requests.                                                            *)

\* Entries: one for each instant and directory that holds a video of it.
Entries(found) == {[dir |-> f[1], key |-> KeyOf[f[2]]] :
                      f \in {g \in found : g[2] \notin Sidecars}}

\* by_key: of several directories the one whose name is the greatest.
Find(found, k) ==
    LET es == {e \in Entries(found) : e.key = k}
    IN {e \in es : \A f \in es : Rank[f.dir] <= Rank[e.dir]}

\* Wrong variant: the sidecar is looked for at the destination itself.
HasGpsAtRoot(found, e) == \E n \in Sidecars : KeyOf[n] = e.key /\ <<Root, n>> \in found

\* has_gps: the sidecar lies next to the video.
HasGps(found, e) == \E n \in Sidecars : KeyOf[n] = e.key /\ <<e.dir, n>> \in found

\* Wrong variant: a gap of exactly the limit ends the journey.
FollowsStrictly(k, l) == TimeOf[l] - TimeOf[k] \in 1..(Gap - 1)

Follows(k, l) == TimeOf[l] - TimeOf[k] \in 1..Gap

\* The order of journey_chain: by time, and those of one instant by the order of
\* the listing, greatest directory first.
Precedes(e, f) ==
    \/ TimeOf[e.key] < TimeOf[f.key]
    \/ TimeOf[e.key] = TimeOf[f.key] /\ Rank[e.dir] > Rank[f.dir]

OldestFirst(es) ==
    LET place(e) == Cardinality({f \in es : f = e \/ Precedes(f, e)})
    IN [j \in 1..Cardinality(es) |-> CHOOSE e \in es : place(e) = j]

\* journey_chain: the entries of the type, from the start to the first gap.
JourneyChain(found, k) ==
    LET es == OldestFirst({e \in Entries(found) : TypeOf[e.key] = TypeOf[k]})
        starts == {i \in DOMAIN es : es[i].key = k}
        runs(p) == {q \in p..Len(es) :
                       \A i \in p..(q - 1) : Follows(es[i].key, es[i + 1].key)}
    IN IF starts = {} THEN <<>> ELSE SubSeq(es, Min(starts), Max(runs(Min(starts))))

Lookup(r, kind, k) ==
    /\ lookups < MaxLookups /\ lookups' = lookups + 1
    /\ req' = [req EXCEPT ![r] = [Fresh EXCEPT !.pc = "lookup", !.kind = kind,
                                               !.index = live, !.key = k]]

\* GET recordings/<key>/gps, or the first half of recordings/<key>/journey.
Ask(r, kind, k) ==
    /\ req[r].pc \in {"idle", "done"}
    /\ Lookup(r, kind, k)
    /\ always' = [always EXCEPT ![r] = Present]
    /\ ever' = [ever EXCEPT ![r] = Present]
    /\ UNCHANGED <<clock, disk, live, indexes, changes>>

Answer(r, status, chain) ==
    /\ req' = [req EXCEPT ![r].pc = "done", ![r].status = status, ![r].chain = chain]
    /\ UNCHANGED <<clock, disk, live, indexes, histories, changes, lookups>>

NotFound(r) ==
    /\ req[r].pc = "found" /\ req[r].kind # "chain"
    /\ \/ Find(req[r].found, req[r].key) = {}
       \/ /\ req[r].kind = "gps"
          /\ \A e \in Find(req[r].found, req[r].key) : ~HasGps(req[r].found, e)
    /\ Answer(r, "404", <<>>)

\* The sidecar is read after the lookup: it may have vanished.
ReadGps(r) ==
    /\ req[r].pc = "found" /\ req[r].kind = "gps"
    /\ \E e \in Find(req[r].found, req[r].key), n \in Sidecars :
          /\ HasGps(req[r].found, e) /\ KeyOf[n] = e.key
          /\ Answer(r, IF <<e.dir, n>> \in Present THEN "200" ELSE "500", <<>>)

\* The start was found: the chain is computed from a second lookup.
LookUpChain(r) ==
    /\ req[r].pc = "found" /\ req[r].kind = "journey"
    /\ Find(req[r].found, req[r].key) # {}
    /\ req' = [req EXCEPT ![r].pc = "lookup", ![r].kind = "chain", ![r].index = live]
    /\ UNCHANGED <<clock, disk, live, indexes, histories, changes, lookups>>

AnswerChain(r) ==
    /\ req[r].pc = "found" /\ req[r].kind = "chain"
    /\ Answer(r, "200", JourneyChain(req[r].found, req[r].key))

\* recording_index: other settings, another index; who has the old one keeps it.
ChangeSettings ==
    /\ \E i \in Indexes \ {live} :
          /\ cache[i] = Empty /\ scans[i] = 0
          /\ live' = i
    /\ UNCHANGED <<clock, disk, indexes, req, histories, changes, lookups>>

Refresh(r) == Acquire(r) \/ StatDir(r) \/ ScanDir(r) \/ Merge(r)
Serve(r) == NotFound(r) \/ ReadGps(r) \/ LookUpChain(r) \/ AnswerChain(r)

Next ==
    \/ Tick \/ ChangeSettings
    \/ \E d \in Dirs : \/ MakeDir(d) \/ RemoveDir(d)
                       \/ \E n \in Names : AddFile(d, n) \/ RemoveFile(d, n)
    \/ \E r \in Requests :
          \/ Refresh(r) \/ Serve(r)
          \/ \E k \in Keys, kind \in {"gps", "journey"} : Ask(r, kind, k)

Spec == Init /\ [][Next]_vars

-----------------------------------------------------------------------------
(* Properties.                                                              *)

Listings == [mtime : Int, files : SUBSET Names, subdirs : SUBSET Dirs,
             racy : BOOLEAN, seq : Nat]

TypeOK ==
    /\ clock \in Nat
    /\ disk \in [Dirs -> [exists : BOOLEAN, mtime : Int, files : SUBSET Names]]
    /\ disk[Root].exists
    /\ lock \in [Indexes -> Requests \cup {Nobody}] /\ scans \in [Indexes -> Nat]
    /\ {DOMAIN cache, DOMAIN walk, DOMAIN views} \subseteq {Indexes}
    /\ \A i \in Indexes :
          /\ DOMAIN cache[i] \subseteq Dirs
          /\ \A d \in DOMAIN cache[i] : cache[i][d] \in Listings
          /\ DOMAIN walk[i] = DOMAIN NoWalk
          /\ walk[i].now \in 0..clock /\ walk[i].mtime \in Int
          /\ walk[i].pending \subseteq Dirs /\ walk[i].at \in Dirs \cup {Nobody}
          /\ DOMAIN walk[i].seen \subseteq Dirs
          /\ \A d \in DOMAIN walk[i].seen : walk[i].seen[d] \in Listings
    /\ {DOMAIN req, DOMAIN always, DOMAIN ever} \subseteq {Requests}
    /\ \A r \in Requests :
          /\ DOMAIN req[r] = DOMAIN Fresh
          /\ req[r].pc \in {"idle", "lookup", "walk", "found", "done"}
          /\ Busy(r) => req[r].index \in Indexes

\* A listing that would be used again without looking is the directory's
\* present contents: two changes within one tick of the disk's clock, and a
\* change between the stat and the scan, included.
TrustedIsTrue ==
    \A i \in Indexes : \A d \in DOMAIN cache[i] :
        disk[d].exists /\ Trusted(i, d) =>
            cache[i][d].files = disk[d].files /\ cache[i][d].subdirs = Subdirs(d)

\* What a lookup finds was there at some time since the request began, and what
\* was there all the time is found, whatever was cached and whoever wrote.
FoundIsCurrent ==
    \A r \in Requests : req[r].pc = "found" =>
        always[r] \subseteq req[r].found /\ req[r].found \subseteq ever[r]

\* A track that lies next to its video throughout is served; the request fails
\* only if the file went away under it.
GpsIsServed ==
    \A r \in Requests, n \in Sidecars : \A d \in Dirs :
        /\ req[r].pc = "done" /\ req[r].kind = "gps" /\ req[r].key = KeyOf[n]
        /\ <<d, n>> \in always[r]
        /\ \E v \in Names \ Sidecars : KeyOf[v] = KeyOf[n] /\ <<d, v>> \in always[r]
        /\ \A e \in Dirs \ {d}, m \in Names : KeyOf[m] = KeyOf[n] => <<e, m>> \notin ever[r]
        => req[r].status = "200"

\* The recordings of a journey: reached from the start in steps of at most Gap.
Reached(found, k) ==
    LET es == {f \in Entries(found) : TypeOf[f.key] = TypeOf[k]}
    IN {e \in es :
          /\ TimeOf[e.key] >= TimeOf[k]
          /\ \A f \in es : TimeOf[f.key] \in TimeOf[k]..(TimeOf[e.key] - 1) =>
                \E g \in es : TimeOf[g.key] \in (TimeOf[f.key] + 1)..(TimeOf[f.key] + Gap)}

\* A journey is all that is reached from its start, in order, or nothing when
\* the start went away between the two lookups; no instant is in two places.
JourneyIsMaximal ==
    \A r \in Requests :
        LET q == req[r]
            es == Entries(q.found)
        IN /\ q.pc = "done" /\ q.kind = "chain"
           /\ \A e, f \in es : e.key = f.key => e = f
           => /\ ToSet(q.chain) = IF q.key \in {e.key : e \in es}
                                  THEN Reached(q.found, q.key) ELSE {}
              /\ \A j \in 1..(Len(q.chain) - 1) :
                    TimeOf[q.chain[j].key] < TimeOf[q.chain[j + 1].key]

=============================================================================
