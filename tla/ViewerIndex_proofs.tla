-------------------------- MODULE ViewerIndex_proofs --------------------------
(***************************************************************************)
(* Proofs about ViewerIndex: what is trusted is true, what a lookup finds   *)
(* is what is there, and a journey is whole, for every library, every       *)
(* number of requests and every granularity and skew that the window        *)
(* outlasts.                                                                *)
(*                                                                         *)
(* The argument for the cache: stamps of later changes are newer than that  *)
(* of a listing that is not racy (ListingTrue), a walk is its lock's        *)
(* holder's (LockInv), and what was there all along is listed or still to   *)
(* come (WalkInv).  For a journey: the entries are sorted by counting       *)
(* (OldestFirstSorts), and the run from the start to the first gap is what  *)
(* Reached defines (RunIsReached, JourneyComplete).                         *)
(***************************************************************************)
EXTENDS ViewerIndex, FiniteSetTheorems, FunctionTheorems,
        WellFoundedInduction, TLAPS

-----------------------------------------------------------------------------
(* The inductive invariant behind the safety properties.                    *)

\* A listing is what the directory held when it had that modification time, and
\* one that is not racy was made when that time was out of the disk's reach.
ListingTrue(d, l) ==
    /\ ~l.racy => l.mtime + Window <= clock
    /\ disk[d].exists /\ disk[d].mtime = l.mtime /\ ~l.racy =>
          l.files = disk[d].files /\ l.subdirs = Subdirs(d)

ListingsTrue ==
    \A i \in Indexes :
        /\ \A d \in DOMAIN cache[i] : ListingTrue(d, cache[i][d])
        /\ \A d \in DOMAIN walk[i].seen : ListingTrue(d, walk[i].seen[d])

\* The walk of an index is its holder's, and the holder's alone.
LockInv ==
    \A r \in Requests, i \in Indexes :
        lock[i] = r <=> req[r].pc = "walk" /\ req[r].index = i

\* A listing in the signature of the views is the one they were made of.
ListingSeen(i, d, l) ==
    /\ l.seq < scans[i]
    /\ <<d, l.seq>> \in views[i].signature =>
          \A n \in Names : n \in l.files <=> <<d, n>> \in views[i].found

ViewsInv ==
    \A i \in Indexes :
        /\ \A d \in DOMAIN cache[i] : ListingSeen(i, d, cache[i][d])
        /\ \A d \in DOMAIN walk[i].seen : ListingSeen(i, d, walk[i].seen[d])
        /\ \A s \in views[i].signature : s[2] \in 0..(scans[i] - 1)
        /\ \A f \in views[i].found :
              f \in Dirs \X Names /\ \E s \in views[i].signature : s[1] = f[1]

\* A walk lists nothing that was not there, and has listed or will list all that
\* is there throughout: itself, or what lies in the root that it will list.
ToCome(i, d) == d \in walk[i].pending \/ d = walk[i].at

WalkInv ==
    \A r \in Requests : req[r].pc = "walk" =>
        \A d \in Dirs, n \in Names : \A i \in {req[r].index} :
            LET listed == d \in DOMAIN walk[i].seen /\ n \in walk[i].seen[d].files
            IN /\ listed => <<d, n>> \in ever[r]
               /\ <<d, n>> \in always[r] => listed \/ ToCome(i, d) \/ ToCome(i, Root)

HistoryInv ==
    \A r \in Requests : Busy(r) => always[r] \subseteq Present /\ Present \subseteq ever[r]

Inv ==
    /\ TypeOK /\ ListingsTrue /\ LockInv /\ ViewsInv /\ WalkInv /\ HistoryInv
    /\ FoundIsCurrent

-----------------------------------------------------------------------------
(* The invariant is inductive.                                             *)

USE ViewerAssumption

-----------------------------------------------------------------------------
(* The invariant holds initially.                                           *)

\* Init establishes every part of the invariant.
LEMMA InitInv == Init => Inv
  <1> SUFFICES ASSUME Init PROVE Inv
    OBVIOUS
  <1> USE DEF Init
  <1>0. /\ disk \in [Dirs -> [exists : BOOLEAN, mtime : Int, files : SUBSET Names]]
        /\ disk[Root].exists
    BY DEF Missing
  <1>1. TypeOK
    BY <1>0 DEF TypeOK, Fresh, NoWalk, Empty, Busy
  <1>2. ListingsTrue
    BY DEF ListingsTrue, Empty, NoWalk
  <1>3. LockInv
    BY DEF LockInv, Fresh
  <1>4. ViewsInv
    BY DEF ViewsInv, Empty, NoWalk
  <1>5. WalkInv /\ HistoryInv /\ FoundIsCurrent
    BY DEF WalkInv, HistoryInv, FoundIsCurrent, Fresh, Busy
  <1> QED BY <1>1, <1>2, <1>3, <1>4, <1>5 DEF Inv

-----------------------------------------------------------------------------
(* Changes of the disk.                                                     *)

\* A change of one directory gives it a modification time of now, leaves every
\* other directory its files, and what lies in a directory only changes with its
\* modification time.
Touched(d, t) ==
    /\ disk' \in [Dirs -> [exists : BOOLEAN, mtime : Int, files : SUBSET Names]]
    /\ disk'[d].mtime = t \/ ~disk'[d].exists
    /\ disk'[Root].exists
    /\ \A e \in Dirs \ {d, Root} : disk'[e] = disk[e]
    /\ d # Root => disk'[Root].files = disk[Root].files
    /\ \/ disk'[Root].mtime = t
       \/ disk'[Root].mtime = disk[Root].mtime /\ Subdirs(Root)' = Subdirs(Root)

\* A directory with another modification time.
LEMMA EntryStamped ==
    ASSUME NEW x \in [exists : BOOLEAN, mtime : Int, files : SUBSET Names], NEW t
    PROVE  [x EXCEPT !.mtime = t] = [exists |-> x.exists, mtime |-> t, files |-> x.files]
  OBVIOUS

\* Every change of the disk touches one directory.
LEMMA ChangesTouch ==
    ASSUME TypeOK, NEW d \in Dirs,
           \/ MakeDir(d) \/ RemoveDir(d)
           \/ \E n \in Names : AddFile(d, n) \/ RemoveFile(d, n)
    PROVE  Change /\ \E t \in Stamps : Touched(d, t)
  <1> DEFINE Entry == [exists : BOOLEAN, mtime : Int, files : SUBSET Names]
  <1>0. /\ disk \in [Dirs -> Entry] /\ disk[Root].exists
        /\ \A t \in Stamps : t \in Int
    BY DEF TypeOK, Stamps
  <1>1. ASSUME NEW n \in Names, AddFile(d, n)
        PROVE  Change /\ \E t \in Stamps : Touched(d, t)
    <2>1. PICK t \in Stamps :
             disk' = [disk EXCEPT ![d] = [exists |-> TRUE, mtime |-> t,
                                          files |-> @.files \cup {n}]]
      BY <1>1 DEF AddFile
    <2> DEFINE x == [exists |-> TRUE, mtime |-> t, files |-> disk[d].files \cup {n}]
    <2>2. disk' = [disk EXCEPT ![d] = x] /\ x \in Entry /\ t \in Int
      BY <1>0, <2>1
    <2>3. disk' \in [Dirs -> Entry] /\ disk'[d] = x /\ \A e \in Dirs \ {d} : disk'[e] = disk[e]
      BY <1>0, <2>2
    <2>4. Subdirs(Root)' = Subdirs(Root)
      BY <1>1, <2>3 DEF Subdirs, AddFile
    <2>5. Touched(d, t)
      BY <1>0, <2>3, <2>4 DEF Touched
    <2> QED BY <1>1, <2>5 DEF AddFile
  <1>2. ASSUME NEW n \in Names, RemoveFile(d, n)
        PROVE  Change /\ \E t \in Stamps : Touched(d, t)
    <2>1. PICK t \in Stamps :
             disk' = [disk EXCEPT ![d] = [exists |-> TRUE, mtime |-> t,
                                          files |-> @.files \ {n}]]
      BY <1>2 DEF RemoveFile
    <2> DEFINE x == [exists |-> TRUE, mtime |-> t, files |-> disk[d].files \ {n}]
    <2>2. disk' = [disk EXCEPT ![d] = x] /\ x \in Entry /\ t \in Int
      BY <1>0, <2>1
    <2>3. disk' \in [Dirs -> Entry] /\ disk'[d] = x /\ \A e \in Dirs \ {d} : disk'[e] = disk[e]
      BY <1>0, <2>2
    <2>4. Subdirs(Root)' = Subdirs(Root)
      BY <1>2, <2>3 DEF Subdirs, RemoveFile
    <2>5. Touched(d, t)
      BY <1>0, <2>3, <2>4 DEF Touched
    <2> QED BY <1>2, <2>5 DEF RemoveFile
  <1>3. CASE MakeDir(d)
    <2>1. PICK t \in Stamps :
             disk' = [disk EXCEPT ![d] = [exists |-> TRUE, mtime |-> t, files |-> {}],
                                  ![Root] = [@ EXCEPT !.mtime = t]]
      BY <1>3 DEF MakeDir
    <2>2. d # Root
      BY <1>0, <1>3 DEF MakeDir
    <2> DEFINE x == [exists |-> TRUE, mtime |-> t, files |-> {}]
               y == [exists |-> disk[Root].exists, mtime |-> t, files |-> disk[Root].files]
    <2>3. /\ x \in Entry /\ y \in Entry /\ t \in Int
          /\ [disk EXCEPT ![d] = x][Root] = disk[Root]
          /\ [disk[Root] EXCEPT !.mtime = t] = y
      BY <1>0, <2>2, EntryStamped
    <2>4. disk' = [disk EXCEPT ![d] = x, ![Root] = y]
      BY <1>0, <2>1, <2>2, <2>3
    <2>5. /\ disk' \in [Dirs -> Entry] /\ disk'[d] = x /\ disk'[Root] = y
          /\ \A e \in Dirs \ {d, Root} : disk'[e] = disk[e]
      BY <1>0, <2>2, <2>3, <2>4
    <2>6. Touched(d, t)
      BY <1>0, <2>2, <2>5 DEF Touched
    <2> QED BY <1>3, <2>6 DEF MakeDir
  <1>4. CASE RemoveDir(d)
    <2>1. PICK t \in Stamps :
             disk' = [disk EXCEPT ![d] = Missing, ![Root] = [@ EXCEPT !.mtime = t]]
      BY <1>4 DEF RemoveDir
    <2>2. d # Root
      BY <1>4 DEF RemoveDir
    <2> DEFINE x == Missing
               y == [exists |-> disk[Root].exists, mtime |-> t, files |-> disk[Root].files]
    <2>a. x \in Entry /\ y \in Entry /\ t \in Int
      BY <1>0 DEF Missing
    <2>b. [disk[Root] EXCEPT !.mtime = t] = y
      BY <1>0, EntryStamped
    <2>3. /\ x \in Entry /\ y \in Entry /\ t \in Int
          /\ [disk EXCEPT ![d] = x][Root] = disk[Root]
          /\ [disk[Root] EXCEPT !.mtime = t] = y
      <3> HIDE DEF x, y
      <3> QED BY <1>0, <2>2, <2>a, <2>b
    <2>4. disk' = [disk EXCEPT ![d] = x, ![Root] = y]
      BY <1>0, <2>1, <2>2, <2>3
    <2>5. /\ disk' \in [Dirs -> Entry] /\ disk'[d] = x /\ disk'[Root] = y
          /\ \A e \in Dirs \ {d, Root} : disk'[e] = disk[e]
      <3> HIDE DEF x, y
      <3> QED BY <1>0, <2>2, <2>3, <2>4
    <2>6. Touched(d, t)
      BY <1>0, <2>2, <2>5 DEF Touched, Missing
    <2> QED BY <1>4, <2>6 DEF RemoveDir
  <1> QED BY <1>1, <1>2, <1>3, <1>4

\* A stamp is later than any modification time that can be trusted.
LEMMA StampsAreNew ==
    ASSUME TypeOK, NEW t \in Stamps, NEW m \in Int, m + Window <= clock
    PROVE  m < t
  BY WindowAssumption DEF TypeOK, Stamps

\* A true listing stays true when a directory is touched.
LEMMA ListingStaysTrue ==
    ASSUME TypeOK, NEW d \in Dirs, NEW t \in Stamps, Touched(d, t), clock' = clock,
           NEW e \in Dirs, NEW l \in Listings, ListingTrue(e, l)
    PROVE  ListingTrue(e, l)'
  <1> SUFFICES ASSUME ~l.racy, disk'[e].exists, disk'[e].mtime = l.mtime
               PROVE  l.files = disk'[e].files /\ l.subdirs = Subdirs(e)'
    BY DEF ListingTrue
  <1>1. l.mtime + Window <= clock /\ l.mtime \in Int
    BY DEF ListingTrue, Listings
  <1>2. l.mtime < t
    BY <1>1, StampsAreNew
  <1>3. t \in Int
    BY DEF Stamps, TypeOK
  <1>4. e # d
    BY <1>2, <1>3 DEF Touched
  <1>5. CASE e = Root
    BY <1>2, <1>3, <1>4, <1>5 DEF Touched, ListingTrue, TypeOK
  <1>6. CASE e # Root
    BY <1>4, <1>6 DEF Touched, ListingTrue, Subdirs
  <1> QED BY <1>5, <1>6

\* A change of the disk keeps the invariant.
LEMMA ChangeInv ==
    ASSUME Inv, NEW d \in Dirs, NEW t \in Stamps, Touched(d, t), Change
    PROVE  Inv'
  <1> USE DEF Change, indexes
  <1>0. /\ TypeOK /\ ListingsTrue /\ LockInv /\ ViewsInv /\ WalkInv /\ HistoryInv
        /\ FoundIsCurrent
    BY DEF Inv
  <1>1. TypeOK'
    BY <1>0 DEF TypeOK, Touched, Busy
  <1>2. ListingsTrue'
    BY <1>0, ListingStaysTrue DEF ListingsTrue, TypeOK
  <1>3. LockInv'
    BY <1>0 DEF LockInv
  <1>4. ViewsInv'
    BY <1>0 DEF ViewsInv, ListingSeen
  <1>5. \A r \in Requests : /\ Busy(r)' <=> Busy(r)
                            /\ Busy(r) => always'[r] = always[r] \cap Present'
                                          /\ ever'[r] = ever[r] \cup Present'
    BY <1>0 DEF Busy, TypeOK
  <1>6. \A r \in Requests : req[r].pc \in {"walk", "found"} => Busy(r)
    BY DEF Busy
  <1>7. WalkInv'
    BY <1>0, <1>5, <1>6 DEF WalkInv, ToCome
  <1>8. HistoryInv'
    BY <1>0, <1>5 DEF HistoryInv
  <1>9. FoundIsCurrent'
    BY <1>0, <1>5, <1>6 DEF FoundIsCurrent
  <1> QED BY <1>1, <1>2, <1>3, <1>4, <1>7, <1>8, <1>9 DEF Inv

\* So does every action of the disk.
LEMMA DiskInv ==
    ASSUME Inv, NEW d \in Dirs,
           \/ MakeDir(d) \/ RemoveDir(d)
           \/ \E n \in Names : AddFile(d, n) \/ RemoveFile(d, n)
    PROVE  Inv'
  BY ChangesTouch, ChangeInv DEF Inv

-----------------------------------------------------------------------------
(* The refresh.                                                             *)

\* All parts but the types and the listings speak of what a step of the clock or
\* of the settings leaves alone.
LEMMA RestStays ==
    ASSUME LockInv, ViewsInv, WalkInv, HistoryInv, FoundIsCurrent,
           UNCHANGED <<disk, lock, cache, scans, views, walk, req, always, ever>>
    PROVE  LockInv' /\ ViewsInv' /\ WalkInv' /\ HistoryInv' /\ FoundIsCurrent'
  <1>1. LockInv'
    BY DEF LockInv
  <1>2. ViewsInv'
    BY DEF ViewsInv, ListingSeen
  <1>3. WalkInv'
    BY DEF WalkInv, ToCome
  <1>4. HistoryInv' /\ FoundIsCurrent'
    BY DEF HistoryInv, FoundIsCurrent, Busy, Present
  <1> QED BY <1>1, <1>2, <1>3, <1>4

\* A listing that is true now is true later, as long as the disk stays.
LEMMA TickInv == ASSUME Inv, Tick PROVE Inv'
  <1> USE DEF Tick, indexes, histories
  <1>0. /\ TypeOK /\ ListingsTrue /\ LockInv /\ ViewsInv /\ WalkInv /\ HistoryInv
        /\ FoundIsCurrent
    BY DEF Inv
  <1>1. TypeOK'
    BY <1>0 DEF TypeOK, Busy
  <1>2. ASSUME NEW e \in Dirs, NEW l \in Listings, ListingTrue(e, l)
        PROVE  ListingTrue(e, l)'
    BY <1>0, <1>2 DEF ListingTrue, TypeOK, Listings, Subdirs
  <1>3. ListingsTrue'
    BY <1>0, <1>2 DEF ListingsTrue, TypeOK
  <1>4. UNCHANGED <<disk, lock, cache, scans, views, walk, req, always, ever>>
    BY DEF Tick
  <1> QED BY <1>0, <1>1, <1>3, <1>4, RestStays DEF Inv

\* Other settings change nothing but the index of requests to come.
LEMMA ChangeSettingsInv == ASSUME Inv, ChangeSettings PROVE Inv'
  <1> USE DEF indexes, histories
  <1>0. /\ TypeOK /\ ListingsTrue /\ LockInv /\ ViewsInv /\ WalkInv /\ HistoryInv
        /\ FoundIsCurrent
    BY DEF Inv
  <1>a. UNCHANGED <<clock, disk, lock, cache, scans, views, walk, req, always, ever>>
    BY DEF ChangeSettings
  <1>b. TypeOK'
    BY <1>0, <1>a DEF TypeOK, Busy
  <1>c. clock' = clock
    BY DEF ChangeSettings
  <1>d. \A d, l : ListingTrue(d, l)' <=> ListingTrue(d, l)
    BY <1>a, <1>c DEF ListingTrue, Subdirs
  <1>1. ListingsTrue'
    BY <1>0, <1>a, <1>d DEF ListingsTrue
  <1> QED BY <1>0, <1>a, <1>b, <1>1, RestStays DEF Inv

\* A request takes the lock, and a walk of its index begins.
LEMMA AcquireInv == ASSUME Inv, NEW r \in Requests, Acquire(r) PROVE Inv'
  <1> USE DEF indexes, histories
  <1>0. /\ TypeOK /\ ListingsTrue /\ LockInv /\ ViewsInv /\ WalkInv /\ HistoryInv
        /\ FoundIsCurrent
    BY DEF Inv
  <1>a. PICK i \in Indexes : i = req[r].index
    BY <1>0 DEF Acquire, TypeOK, Busy
  <1>b. PICK w : w = [NoWalk EXCEPT !.now = clock, !.pending = {Root}]
    OBVIOUS
  <1>1. /\ UNCHANGED <<clock, disk, cache, scans, views, always, ever>>
        /\ req[r].pc = "lookup" /\ lock[i] = Nobody
        /\ lock' = [lock EXCEPT ![i] = r] /\ walk' = [walk EXCEPT ![i] = w]
        /\ req' = [req EXCEPT ![r].pc = "walk"]
    BY <1>a, <1>b DEF Acquire
  <1>2. /\ w.now = clock /\ w.pending = {Root} /\ w.seen = Empty /\ w.at = Nobody
        /\ w.mtime = 0 /\ DOMAIN w = DOMAIN NoWalk /\ DOMAIN w.seen = {}
    BY <1>b DEF NoWalk, Empty
  <1>3. /\ DOMAIN walk' = Indexes /\ walk'[i] = w
        /\ \A j \in Indexes \ {i} : walk'[j] = walk[j]
        /\ DOMAIN lock' = Indexes /\ lock'[i] = r
        /\ \A j \in Indexes \ {i} : lock'[j] = lock[j]
    BY <1>0, <1>1 DEF TypeOK
  <1>4. /\ DOMAIN req' = Requests /\ DOMAIN req'[r] = DOMAIN req[r]
        /\ req'[r].pc = "walk" /\ req'[r].index = i
        /\ \A q \in Requests \ {r} : req'[q] = req[q]
    BY <1>0, <1>1, <1>a DEF TypeOK, Fresh
  <1>5. TypeOK'
    <2>1. \A q \in Requests : /\ DOMAIN req'[q] = DOMAIN Fresh
                              /\ req'[q].pc \in {"idle", "lookup", "walk", "found", "done"}
                              /\ Busy(q)' => req'[q].index \in Indexes
      BY <1>0, <1>1, <1>4 DEF TypeOK, Busy
    <2>2. \A j \in Indexes :
             /\ DOMAIN walk'[j] = DOMAIN NoWalk
             /\ walk'[j].now \in 0..clock /\ walk'[j].mtime \in Int
             /\ walk'[j].pending \subseteq Dirs /\ walk'[j].at \in Dirs \cup {Nobody}
             /\ DOMAIN walk'[j].seen \subseteq Dirs
             /\ \A d \in DOMAIN walk'[j].seen : walk'[j].seen[d] \in Listings
      <3> SUFFICES ASSUME NEW j \in Indexes
                   PROVE  /\ DOMAIN walk'[j] = DOMAIN NoWalk
                          /\ walk'[j].now \in 0..clock /\ walk'[j].mtime \in Int
                          /\ walk'[j].pending \subseteq Dirs
                          /\ walk'[j].at \in Dirs \cup {Nobody}
                          /\ DOMAIN walk'[j].seen \subseteq Dirs
                          /\ \A d \in DOMAIN walk'[j].seen : walk'[j].seen[d] \in Listings
        OBVIOUS
      <3>0. clock \in Nat
        BY <1>0 DEF TypeOK
      <3>1. CASE j = i
        BY <1>2, <1>3, <3>0, <3>1
      <3>2. CASE j # i
        BY <1>0, <1>3, <3>2 DEF TypeOK
      <3> QED BY <3>1, <3>2
    <2> QED BY <1>0, <1>1, <1>3, <1>4, <2>1, <2>2 DEF TypeOK
  <1>6. ListingsTrue'
    <2>1. \A d \in Dirs, l \in Listings : ListingTrue(d, l)' <=> ListingTrue(d, l)
      BY <1>1 DEF ListingTrue, Subdirs
    <2> SUFFICES ASSUME NEW j \in Indexes
                 PROVE  /\ \A d \in DOMAIN cache[j] : ListingTrue(d, cache[j][d])'
                        /\ \A d \in DOMAIN walk'[j].seen : ListingTrue(d, walk[j].seen[d])'
      BY <1>1 DEF ListingsTrue
    <2>2. CASE j = i
      BY <1>0, <1>1, <1>2, <1>3, <2>1, <2>2 DEF ListingsTrue, TypeOK
    <2>3. CASE j # i
      BY <1>0, <1>1, <1>3, <2>1, <2>3 DEF ListingsTrue, TypeOK
    <2> QED BY <2>2, <2>3
  <1>7. LockInv'
    BY <1>0, <1>1, <1>3, <1>4, ViewerAssumption DEF LockInv, TypeOK
  <1>8. ViewsInv'
    BY <1>0, <1>1, <1>2, <1>3 DEF ViewsInv, ListingSeen
  <1>9. WalkInv'
    <2>1. \A q \in Requests \ {r} : req[q].pc = "walk" => req[q].index \in Indexes \ {i}
      <3> SUFFICES ASSUME NEW q \in Requests, req[q].pc = "walk"
                   PROVE  req[q].index \in Indexes \ {i}
        OBVIOUS
      <3>1. req[q].index \in Indexes
        BY <1>0 DEF TypeOK, Busy
      <3>2. lock[req[q].index] = q
        BY <1>0, <3>1 DEF LockInv
      <3> QED BY <1>1, <3>1, <3>2
    <2>2. ToCome(i, Root)'
      BY <1>2, <1>3 DEF ToCome
    <2> QED BY <1>0, <1>1, <1>2, <1>3, <1>4, <2>1, <2>2 DEF WalkInv, ToCome
  <1>10. HistoryInv'
    BY <1>0, <1>1, <1>4 DEF HistoryInv, Busy, Present
  <1>11. FoundIsCurrent'
    BY <1>0, <1>1, <1>4, ViewerAssumption DEF FoundIsCurrent
  <1> QED BY <1>5, <1>6, <1>7, <1>8, <1>9, <1>10, <1>11 DEF Inv

\* What a walk must be like in an index whose counter of scans is k.
ListingFits(i, d, l, k) ==
    /\ l \in Listings /\ ListingTrue(d, l) /\ l.seq < k
    /\ <<d, l.seq>> \in views[i].signature =>
          \A n \in Names : n \in l.files <=> <<d, n>> \in views[i].found

WalkFits(r, i, w, k) ==
    /\ DOMAIN w = DOMAIN NoWalk
    /\ w.now \in 0..clock /\ w.mtime \in Int
    /\ w.pending \subseteq Dirs /\ w.at \in Dirs \cup {Nobody}
    /\ DOMAIN w.seen \subseteq Dirs
    /\ \A d \in DOMAIN w.seen : ListingFits(i, d, w.seen[d], k)
    /\ \A d \in Dirs, n \in Names :
          LET listed == d \in DOMAIN w.seen /\ n \in w.seen[d].files
          IN /\ listed => <<d, n>> \in ever[r]
             /\ <<d, n>> \in always[r] =>
                   listed \/ d \in w.pending \cup {w.at} \/ Root \in w.pending \cup {w.at}

\* A step of the walk of one index, to a walk that fits.
WalkStep(r, i, w) ==
    /\ UNCHANGED <<clock, disk, lock, views, req, always, ever>>
    /\ DOMAIN walk' = Indexes /\ walk'[i] = w
    /\ \A j \in Indexes \ {i} : walk'[j] = walk[j]
    /\ DOMAIN cache' = Indexes /\ DOMAIN cache'[i] \subseteq Dirs
    /\ \A j \in Indexes \ {i} : cache'[j] = cache[j]
    /\ \A d \in DOMAIN cache'[i] : ListingFits(i, d, cache'[i][d], scans'[i])
    /\ scans' \in [Indexes -> Nat] /\ scans'[i] >= scans[i]
    /\ \A j \in Indexes \ {i} : scans'[j] = scans[j]
    /\ WalkFits(r, i, w, scans'[i])

\* Every listing and every walk of the invariant fits.
LEMMA InvFits ==
    ASSUME Inv, NEW r \in Requests, NEW i \in Indexes,
           req[r].pc = "walk", req[r].index = i
    PROVE  /\ WalkFits(r, i, walk[i], scans[i])
           /\ \A d \in DOMAIN cache[i] : ListingFits(i, d, cache[i][d], scans[i])
  <1>1. TypeOK /\ ListingsTrue /\ ViewsInv /\ WalkInv
    BY DEF Inv
  <1>2. \A d \in DOMAIN cache[i] : ListingFits(i, d, cache[i][d], scans[i])
    BY <1>1 DEF TypeOK, ListingsTrue, ViewsInv, ListingSeen, ListingFits
  <1>3. \A d \in DOMAIN walk[i].seen : ListingFits(i, d, walk[i].seen[d], scans[i])
    BY <1>1 DEF TypeOK, ListingsTrue, ViewsInv, ListingSeen, ListingFits
  <1>4. WalkFits(r, i, walk[i], scans[i])
    BY <1>1, <1>3 DEF TypeOK, WalkInv, ToCome, WalkFits
  <1> QED BY <1>2, <1>4

\* A step to a walk that fits keeps the invariant.
LEMMA WalkStepInv ==
    ASSUME Inv, NEW r \in Requests, NEW i \in Indexes, NEW w,
           req[r].pc = "walk", req[r].index = i, WalkStep(r, i, w)
    PROVE  Inv'
  <1>0. /\ TypeOK /\ ListingsTrue /\ LockInv /\ ViewsInv /\ WalkInv /\ HistoryInv
        /\ FoundIsCurrent
    BY DEF Inv
  <1>a. /\ UNCHANGED <<clock, disk, lock, views, req, always, ever>>
        /\ DOMAIN walk' = Indexes /\ walk'[i] = w
        /\ \A j \in Indexes \ {i} : walk'[j] = walk[j]
        /\ DOMAIN cache' = Indexes
        /\ \A j \in Indexes \ {i} : cache'[j] = cache[j]
        /\ scans' \in [Indexes -> Nat] /\ scans'[i] >= scans[i]
        /\ \A j \in Indexes \ {i} : scans'[j] = scans[j]
    BY DEF WalkStep
  <1>b. /\ DOMAIN cache'[i] \subseteq Dirs
        /\ \A d \in DOMAIN cache'[i] : ListingFits(i, d, cache'[i][d], scans'[i])
        /\ WalkFits(r, i, w, scans'[i])
    BY DEF WalkStep
  <1>1. TypeOK'
    <2>1. \A j \in Indexes :
             /\ DOMAIN cache'[j] \subseteq Dirs
             /\ \A d \in DOMAIN cache'[j] : cache'[j][d] \in Listings
      <3> SUFFICES ASSUME NEW j \in Indexes
                   PROVE  /\ DOMAIN cache'[j] \subseteq Dirs
                          /\ \A d \in DOMAIN cache'[j] : cache'[j][d] \in Listings
        OBVIOUS
      <3>1. CASE j = i
        BY <1>b, <3>1 DEF ListingFits
      <3>2. CASE j # i
        BY <1>0, <1>a, <3>2 DEF TypeOK
      <3> QED BY <3>1, <3>2
    <2>2. \A j \in Indexes :
             /\ DOMAIN walk'[j] = DOMAIN NoWalk
             /\ walk'[j].now \in 0..clock /\ walk'[j].mtime \in Int
             /\ walk'[j].pending \subseteq Dirs /\ walk'[j].at \in Dirs \cup {Nobody}
             /\ DOMAIN walk'[j].seen \subseteq Dirs
             /\ \A d \in DOMAIN walk'[j].seen : walk'[j].seen[d] \in Listings
      <3> SUFFICES ASSUME NEW j \in Indexes
                   PROVE  /\ DOMAIN walk'[j] = DOMAIN NoWalk
                          /\ walk'[j].now \in 0..clock /\ walk'[j].mtime \in Int
                          /\ walk'[j].pending \subseteq Dirs
                          /\ walk'[j].at \in Dirs \cup {Nobody}
                          /\ DOMAIN walk'[j].seen \subseteq Dirs
                          /\ \A d \in DOMAIN walk'[j].seen : walk'[j].seen[d] \in Listings
        OBVIOUS
      <3>1. CASE j = i
        BY <1>a, <1>b, <3>1 DEF WalkFits, ListingFits
      <3>2. CASE j # i
        BY <1>0, <1>a, <3>2 DEF TypeOK
      <3> QED BY <3>1, <3>2
    <2> QED BY <1>0, <1>a, <2>1, <2>2 DEF TypeOK, Busy
  <1>2. ListingsTrue'
    <2>1. \A d \in Dirs, l \in Listings : ListingTrue(d, l)' <=> ListingTrue(d, l)
      BY <1>a DEF ListingTrue, Subdirs
    <2> SUFFICES ASSUME NEW j \in Indexes
                 PROVE  /\ \A d \in DOMAIN cache'[j] : ListingTrue(d, cache[j][d])'
                        /\ \A d \in DOMAIN walk'[j].seen : ListingTrue(d, walk[j].seen[d])'
      BY DEF ListingsTrue
    <2>2. CASE j = i
      <3>1. ASSUME NEW d \in DOMAIN cache'[j] PROVE ListingTrue(d, cache[j][d])'
        <4>1. ListingTrue(d, cache'[j][d]) /\ cache'[j][d] \in Listings /\ d \in Dirs
          BY <1>b, <2>2, <3>1 DEF ListingFits
        <4> QED BY <2>1, <4>1
      <3>2. ASSUME NEW d \in DOMAIN walk'[j].seen PROVE ListingTrue(d, walk[j].seen[d])'
        <4>1. /\ ListingTrue(d, walk'[j].seen[d]) /\ walk'[j].seen[d] \in Listings
              /\ d \in Dirs
          BY <1>a, <1>b, <2>2, <3>2 DEF ListingFits, WalkFits
        <4> QED BY <2>1, <4>1
      <3> QED BY <3>1, <3>2
    <2>3. CASE j # i
      BY <1>0, <1>a, <2>1, <2>3 DEF ListingsTrue, TypeOK
    <2> QED BY <2>2, <2>3
  <1>3. LockInv' /\ HistoryInv' /\ FoundIsCurrent'
    BY <1>0, <1>a DEF LockInv, HistoryInv, FoundIsCurrent, Busy, Present
  <1>4. ViewsInv'
    <2> SUFFICES ASSUME NEW j \in Indexes
                 PROVE  /\ \A d \in DOMAIN cache'[j] : ListingSeen(j, d, cache[j][d])'
                        /\ \A d \in DOMAIN walk'[j].seen : ListingSeen(j, d, walk[j].seen[d])'
                        /\ \A s \in views[j].signature : s[2] \in 0..(scans'[j] - 1)
      BY <1>0, <1>a DEF ViewsInv
    <2>1. \A s \in views[j].signature : s[2] \in 0..(scans'[j] - 1)
      <3>1. scans[j] \in Nat /\ scans'[j] \in Nat /\ scans'[j] >= scans[j]
        BY <1>0, <1>a DEF TypeOK
      <3> QED BY <1>0, <3>1 DEF ViewsInv
    <2>2. CASE j = i
      BY <1>a, <1>b, <2>1, <2>2 DEF WalkFits, ListingFits, ListingSeen
    <2>3. CASE j # i
      BY <1>0, <1>a, <2>1, <2>3 DEF ViewsInv, ListingSeen
    <2> QED BY <2>2, <2>3, <2>1
  <1>5. WalkInv'
    <2>0. \A q \in Requests : req[q].pc = "walk" => req[q].index \in Indexes
      BY <1>0 DEF TypeOK, Busy
    <2>a. ASSUME NEW q \in Requests, req[q].pc = "walk", NEW d \in Dirs, NEW n \in Names,
                 NEW j \in Indexes, j = req[q].index
          PROVE  LET listed == d \in DOMAIN walk'[j].seen /\ n \in walk'[j].seen[d].files
                 IN /\ listed => <<d, n>> \in ever[q]
                    /\ <<d, n>> \in always[q] =>
                          listed \/ ToCome(j, d)' \/ ToCome(j, Root)'
      <3>1. CASE q = r
        BY <1>a, <1>b, <2>a, <3>1 DEF WalkFits, ToCome
      <3>2. CASE q # r
        <4>1. j # i
          BY <1>0, <2>a, <3>2 DEF LockInv
        <4> QED BY <1>0, <1>a, <2>a, <4>1 DEF WalkInv, ToCome
      <3> QED BY <3>1, <3>2
    <2>b. SUFFICES ASSUME NEW q \in Requests, req[q].pc = "walk", NEW d \in Dirs,
                          NEW n \in Names
                   PROVE  \A j \in {req[q].index} :
                            LET listed == d \in DOMAIN walk'[j].seen
                                          /\ n \in walk'[j].seen[d].files
                            IN /\ listed => <<d, n>> \in ever[q]
                               /\ <<d, n>> \in always[q] =>
                                     listed \/ ToCome(j, d)' \/ ToCome(j, Root)'
      BY <1>a DEF WalkInv
    <2> QED BY <2>0, <2>a, <2>b
  <1> QED BY <1>1, <1>2, <1>3, <1>4, <1>5 DEF Inv

\* Taking a listing of a directory, for one that exists, to a walk that fits.
LEMMA TakeFits ==
    ASSUME Inv, NEW r \in Requests, NEW i \in Indexes, NEW d \in Dirs, NEW l,
           req[r].pc = "walk", req[r].index = i,
           d \in walk[i].pending \cup {walk[i].at}, walk[i].at \in {d, Nobody},
           disk[d].exists, l.files = disk[d].files, l.subdirs = Subdirs(d),
           NEW k \in Nat, k >= scans[i], ListingFits(i, d, l, k), Take(i, d, l)
    PROVE  /\ WalkFits(r, i, walk'[i], k)
           /\ DOMAIN walk' = Indexes /\ \A j \in Indexes \ {i} : walk'[j] = walk[j]
  <1>0. TypeOK /\ HistoryInv /\ WalkFits(r, i, walk[i], scans[i])
    BY InvFits DEF Inv
  <1>1. DOMAIN walk = Indexes /\ DOMAIN walk[i] = DOMAIN NoWalk
    BY <1>0 DEF TypeOK
  <1>2. /\ DOMAIN walk' = Indexes /\ \A j \in Indexes \ {i} : walk'[j] = walk[j]
        /\ DOMAIN walk'[i] = DOMAIN NoWalk
        /\ walk'[i].now = walk[i].now /\ walk'[i].mtime = walk[i].mtime
        /\ walk'[i].at = Nobody
        /\ walk'[i].pending = (walk[i].pending \ {d}) \cup l.subdirs
        /\ walk'[i].seen = [e \in DOMAIN walk[i].seen \cup {d} |->
                               IF e = d THEN l ELSE walk[i].seen[e]]
    BY <1>1 DEF Take, NoWalk
  <1>3. \A e \in DOMAIN walk'[i].seen : ListingFits(i, e, walk'[i].seen[e], k)
    <2> SUFFICES ASSUME NEW e \in DOMAIN walk[i].seen, e # d
                 PROVE  ListingFits(i, e, walk[i].seen[e], k)
      BY <1>2
    <2>1. ListingFits(i, e, walk[i].seen[e], scans[i]) /\ scans[i] \in Nat
      BY <1>0 DEF WalkFits, TypeOK
    <2> QED BY <2>1 DEF ListingFits, Listings
  <1>4. ASSUME NEW e \in Dirs, NEW n \in Names
        PROVE  LET listed == e \in DOMAIN walk'[i].seen /\ n \in walk'[i].seen[e].files
               IN /\ listed => <<e, n>> \in ever[r]
                  /\ <<e, n>> \in always[r] =>
                        \/ listed
                        \/ e \in walk'[i].pending \cup {walk'[i].at}
                        \/ Root \in walk'[i].pending \cup {walk'[i].at}
    <2>1. always[r] \subseteq Present /\ Present \subseteq ever[r]
      BY <1>0 DEF HistoryInv, Busy
    <2>2. <<e, n>> \in Present <=> disk[e].exists /\ n \in disk[e].files
      BY DEF Present
    <2>3. CASE e = d
      BY <1>2, <2>1, <2>2, <2>3
    <2>4. CASE e # d
      <3>1. e \in DOMAIN walk'[i].seen <=> e \in DOMAIN walk[i].seen
        BY <1>2, <2>4
      <3>2. e \in DOMAIN walk[i].seen => walk'[i].seen[e] = walk[i].seen[e]
        BY <1>2, <2>4
      <3>3. LET listed == e \in DOMAIN walk[i].seen /\ n \in walk[i].seen[e].files
            IN /\ listed => <<e, n>> \in ever[r]
               /\ <<e, n>> \in always[r] =>
                     listed \/ e \in walk[i].pending \cup {walk[i].at}
                            \/ Root \in walk[i].pending \cup {walk[i].at}
        BY <1>0 DEF WalkFits
      <3>4. e # Nobody /\ Root # Nobody /\ Root \in Dirs
        OBVIOUS
      <3>5. CASE d = Root
        <4>1. <<e, n>> \in always[r] => e \in walk'[i].pending
          BY <1>2, <2>1, <2>2, <2>4, <3>5 DEF Subdirs
        <4> QED BY <3>1, <3>2, <3>3, <4>1
      <3>6. CASE d # Root
        BY <1>2, <2>4, <3>1, <3>2, <3>3, <3>4, <3>6
      <3> QED BY <3>5, <3>6
    <2> QED BY <2>3, <2>4
  <1>5. l.subdirs \subseteq Dirs
    BY DEF Subdirs
  <1> QED BY <1>0, <1>2, <1>3, <1>4, <1>5 DEF WalkFits

\* Passing over a directory that is gone.
LEMMA SkipFits ==
    ASSUME Inv, NEW r \in Requests, NEW i \in Indexes, NEW d \in Dirs, NEW w,
           req[r].pc = "walk", req[r].index = i,
           ~disk[d].exists, walk[i].at \in {d, Nobody},
           DOMAIN w = DOMAIN NoWalk, w.now = walk[i].now, w.mtime = walk[i].mtime,
           w.seen = walk[i].seen, w.at = Nobody, w.pending = walk[i].pending \ {d}
    PROVE  WalkFits(r, i, w, scans[i])
  <1>0. TypeOK /\ HistoryInv /\ WalkFits(r, i, walk[i], scans[i])
    BY InvFits DEF Inv
  <1>1. d # Root
    BY <1>0 DEF TypeOK
  <1>2. \A n \in Names : <<d, n>> \notin always[r]
    BY <1>0 DEF HistoryInv, Busy, Present
  <1> QED BY <1>0, <1>1, <1>2 DEF WalkFits

\* A directory is gone, as listed, or looked at next.
LEMMA StatDirInv == ASSUME Inv, NEW r \in Requests, StatDir(r) PROVE Inv'
  <1>0. TypeOK /\ ListingsTrue
    BY DEF Inv
  <1>1. PICK i \in Indexes : i = req[r].index
    BY <1>0 DEF StatDir, TypeOK, Busy
  <1>2. /\ req[r].pc = "walk" /\ walk[i].at = Nobody
        /\ UNCHANGED <<clock, disk, lock, cache, scans, views, req, always, ever>>
    BY <1>1 DEF StatDir, histories
  <1>3. PICK d \in walk[i].pending :
           \/ /\ ~disk[d].exists
              /\ walk' = [walk EXCEPT ![i].pending = @ \ {d}]
           \/ /\ disk[d].exists /\ Trusted(i, d)
              /\ Take(i, d, cache[i][d])
           \/ /\ disk[d].exists /\ ~Trusted(i, d)
              /\ walk' = [walk EXCEPT ![i].at = d, ![i].mtime = disk[d].mtime]
    BY <1>1 DEF StatDir
  <1>4. /\ d \in Dirs /\ DOMAIN walk = Indexes /\ DOMAIN walk[i] = DOMAIN NoWalk
        /\ DOMAIN cache = Indexes /\ DOMAIN cache[i] \subseteq Dirs
        /\ scans \in [Indexes -> Nat]
    BY <1>0 DEF TypeOK
  <1>5. /\ WalkFits(r, i, walk[i], scans[i])
        /\ \A e \in DOMAIN cache[i] : ListingFits(i, e, cache[i][e], scans[i])
    BY <1>1, <1>2, InvFits
  <1>6. /\ WalkFits(r, i, walk'[i], scans[i])
        /\ DOMAIN walk' = Indexes /\ \A j \in Indexes \ {i} : walk'[j] = walk[j]
    <2>1. CASE ~disk[d].exists
      <3>1. walk' = [walk EXCEPT ![i].pending = @ \ {d}]
        BY <1>3, <2>1
      <3>2. /\ DOMAIN walk' = Indexes /\ \A j \in Indexes \ {i} : walk'[j] = walk[j]
            /\ DOMAIN walk'[i] = DOMAIN NoWalk /\ walk'[i].now = walk[i].now
            /\ walk'[i].mtime = walk[i].mtime /\ walk'[i].seen = walk[i].seen
            /\ walk'[i].at = Nobody /\ walk'[i].pending = walk[i].pending \ {d}
        BY <1>2, <1>4, <3>1 DEF NoWalk
      <3> QED BY <1>1, <1>2, <1>4, <2>1, <3>2, SkipFits
    <2>2. CASE disk[d].exists /\ Trusted(i, d)
      <3>1. Take(i, d, cache[i][d])
        BY <1>3, <2>2
      <3>2. d \in DOMAIN cache[i]
        BY <2>2 DEF Trusted
      <3>3. /\ cache[i][d].files = disk[d].files /\ cache[i][d].subdirs = Subdirs(d)
            /\ ListingFits(i, d, cache[i][d], scans[i])
        BY <1>5, <2>2, <3>2 DEF Trusted, ListingFits, ListingTrue
      <3> QED BY <1>1, <1>2, <1>4, <2>2, <3>1, <3>3, TakeFits
    <2>3. CASE disk[d].exists /\ ~Trusted(i, d)
      <3>1. walk' = [walk EXCEPT ![i].at = d, ![i].mtime = disk[d].mtime]
        BY <1>3, <2>3
      <3>2. /\ DOMAIN walk' = Indexes /\ \A j \in Indexes \ {i} : walk'[j] = walk[j]
            /\ DOMAIN walk'[i] = DOMAIN NoWalk /\ walk'[i].now = walk[i].now
            /\ walk'[i].mtime = disk[d].mtime /\ walk'[i].seen = walk[i].seen
            /\ walk'[i].at = d /\ walk'[i].pending = walk[i].pending
        BY <1>4, <3>1 DEF NoWalk
      <3>3. disk[d].mtime \in Int
        BY <1>0, <1>4 DEF TypeOK
      <3> QED BY <1>2, <1>4, <1>5, <3>2, <3>3 DEF WalkFits
    <2> QED BY <1>3, <2>1, <2>2, <2>3
  <1>7. WalkStep(r, i, walk'[i])
    BY <1>2, <1>4, <1>5, <1>6 DEF WalkStep
  <1> QED BY <1>1, <1>2, <1>7, WalkStepInv

\* A directory is listed, or was gone when it should have been.
LEMMA ScanDirInv == ASSUME Inv, NEW r \in Requests, ScanDir(r) PROVE Inv'
  <1>0. TypeOK /\ ViewsInv
    BY DEF Inv
  <1>1. PICK i \in Indexes : i = req[r].index
    BY <1>0 DEF ScanDir, TypeOK, Busy
  <1>d. PICK d \in Dirs : d = walk[i].at
    BY <1>0, <1>1 DEF ScanDir, TypeOK
  <1>l. PICK l : l = [mtime |-> walk[i].mtime, files |-> disk[d].files,
                      subdirs |-> Subdirs(d), racy |-> Racy(i), seq |-> scans[i]]
    OBVIOUS
  <1>2. /\ req[r].pc = "walk"
        /\ UNCHANGED <<clock, disk, lock, views, req, always, ever>>
    BY DEF ScanDir, histories
  <1>3. \/ /\ ~disk[d].exists
           /\ walk' = [walk EXCEPT ![i].pending = @ \ {d}, ![i].at = Nobody]
           /\ UNCHANGED <<cache, scans>>
        \/ /\ disk[d].exists
           /\ Take(i, d, l)
           /\ cache' = [cache EXCEPT ![i] =
                 [e \in DOMAIN @ \cup {d} |-> IF e = d THEN l ELSE @[e]]]
           /\ scans' = [scans EXCEPT ![i] = @ + 1]
    BY <1>1, <1>d, <1>l DEF ScanDir
  <1>4. /\ DOMAIN walk = Indexes /\ DOMAIN walk[i] = DOMAIN NoWalk
        /\ DOMAIN cache = Indexes /\ DOMAIN cache[i] \subseteq Dirs
        /\ scans \in [Indexes -> Nat]
        /\ walk[i].now \in 0..clock /\ walk[i].mtime \in Int /\ clock \in Nat
        /\ disk[d].files \in SUBSET Names
    BY <1>0 DEF TypeOK
  <1>5. /\ WalkFits(r, i, walk[i], scans[i])
        /\ \A e \in DOMAIN cache[i] : ListingFits(i, e, cache[i][e], scans[i])
    BY <1>1, <1>2, InvFits
  <1>6. CASE ~disk[d].exists
    <2>1. walk' = [walk EXCEPT ![i].pending = @ \ {d}, ![i].at = Nobody]
          /\ UNCHANGED <<cache, scans>>
      BY <1>3, <1>6
    <2>2. /\ DOMAIN walk' = Indexes /\ \A j \in Indexes \ {i} : walk'[j] = walk[j]
          /\ DOMAIN walk'[i] = DOMAIN NoWalk /\ walk'[i].now = walk[i].now
          /\ walk'[i].mtime = walk[i].mtime /\ walk'[i].seen = walk[i].seen
          /\ walk'[i].at = Nobody /\ walk'[i].pending = walk[i].pending \ {d}
      BY <1>4, <2>1 DEF NoWalk
    <2>3. WalkFits(r, i, walk'[i], scans[i])
      BY <1>1, <1>2, <1>d, <1>6, <2>2, SkipFits
    <2>4. WalkStep(r, i, walk'[i])
      BY <1>2, <1>4, <1>5, <2>1, <2>2, <2>3 DEF WalkStep
    <2> QED BY <1>1, <1>2, <2>4, WalkStepInv
  <1>7. CASE disk[d].exists
    <2>1. /\ Take(i, d, l)
          /\ cache' = [cache EXCEPT ![i] =
                [e \in DOMAIN @ \cup {d} |-> IF e = d THEN l ELSE @[e]]]
          /\ scans' = [scans EXCEPT ![i] = @ + 1]
      BY <1>3, <1>7
    <2>2. /\ scans' \in [Indexes -> Nat] /\ scans'[i] = scans[i] + 1
          /\ \A j \in Indexes \ {i} : scans'[j] = scans[j]
      BY <1>4, <2>1
    <2>3. ListingFits(i, d, l, scans'[i])
      <3>1. l \in Listings
        BY <1>4, <1>l DEF Listings, Subdirs, Racy
      <3>2. ListingTrue(d, l)
        <4>1. l.files = disk[d].files /\ l.subdirs = Subdirs(d)
          BY <1>l
        <4>2. l.mtime = walk[i].mtime /\ l.racy = Racy(i)
          BY <1>l
        <4>3. ~Racy(i) => walk[i].mtime + Window <= clock
          BY <1>4 DEF Racy
        <4> QED BY <4>1, <4>2, <4>3 DEF ListingTrue
      <3>3. l.seq < scans'[i] /\ <<d, l.seq>> \notin views[i].signature
        BY <1>0, <1>4, <1>l, <2>2 DEF ViewsInv
      <3> QED BY <3>1, <3>2, <3>3 DEF ListingFits
    <2>4. /\ WalkFits(r, i, walk'[i], scans'[i])
          /\ DOMAIN walk' = Indexes /\ \A j \in Indexes \ {i} : walk'[j] = walk[j]
      <3>1. l.files = disk[d].files /\ l.subdirs = Subdirs(d)
        BY <1>l
      <3>2. scans'[i] \in Nat /\ scans'[i] >= scans[i]
        BY <1>4, <2>2
      <3>3. d \in walk[i].pending \cup {walk[i].at} /\ walk[i].at \in {d, Nobody}
        BY <1>d
      <3> QED BY <1>1, <1>2, <1>7, <2>1, <2>3, <3>1, <3>2, <3>3, TakeFits
    <2>5. /\ DOMAIN cache' = Indexes /\ \A j \in Indexes \ {i} : cache'[j] = cache[j]
          /\ DOMAIN cache'[i] = DOMAIN cache[i] \cup {d}
          /\ \A e \in DOMAIN cache'[i] :
                cache'[i][e] = IF e = d THEN l ELSE cache[i][e]
      BY <1>4, <2>1
    <2>6. ASSUME NEW e \in DOMAIN cache'[i]
          PROVE  ListingFits(i, e, cache'[i][e], scans'[i])
      <3>1. CASE e = d
        BY <2>3, <2>5, <3>1
      <3>2. CASE e # d
        <4>1. /\ ListingFits(i, e, cache[i][e], scans[i])
              /\ cache'[i][e] = cache[i][e] /\ scans[i] \in Nat
          BY <1>4, <1>5, <2>5, <3>2
        <4> QED BY <2>2, <4>1 DEF ListingFits, Listings
      <3> QED BY <3>1, <3>2
    <2>7. WalkStep(r, i, walk'[i])
      BY <1>2, <1>4, <2>2, <2>4, <2>5, <2>6 DEF WalkStep
    <2> QED BY <1>1, <1>2, <2>7, WalkStepInv
  <1> QED BY <1>6, <1>7

\* What the views show after a merge is what the walk has seen, whether the views
\* were made anew or kept for their signature.
LEMMA MergedViews ==
    ASSUME Inv, NEW i \in Indexes, NEW v,
           v = IF Signature(walk[i].seen) = views[i].signature THEN views[i]
               ELSE [signature |-> Signature(walk[i].seen), found |-> Merged(walk[i].seen)]
    PROVE  /\ v.signature = Signature(walk[i].seen)
           /\ v.found \subseteq Dirs \X Names
           /\ \A d \in Dirs, n \in Names :
                 <<d, n>> \in v.found <=>
                    d \in DOMAIN walk[i].seen /\ n \in walk[i].seen[d].files
  <1>0. TypeOK /\ ViewsInv
    BY DEF Inv
  <1>1. /\ DOMAIN walk[i].seen \subseteq Dirs
        /\ \A d \in DOMAIN walk[i].seen : walk[i].seen[d].files \subseteq Names
    BY <1>0 DEF TypeOK, Listings
  <1>2. CASE Signature(walk[i].seen) = views[i].signature
    <2>1. v = views[i]
      BY <1>2
    <2>2. /\ \A f \in views[i].found :
                f \in Dirs \X Names /\ \E s \in views[i].signature : s[1] = f[1]
          /\ \A d \in DOMAIN walk[i].seen : ListingSeen(i, d, walk[i].seen[d])
      BY <1>0 DEF ViewsInv
    <2>3. ASSUME NEW d \in Dirs, NEW n \in Names, <<d, n>> \in v.found
          PROVE  d \in DOMAIN walk[i].seen
      <3>1. PICK s \in Signature(walk[i].seen) : s[1] = d
        BY <1>2, <2>1, <2>2, <2>3
      <3> QED BY <3>1 DEF Signature
    <2>4. ASSUME NEW d \in DOMAIN walk[i].seen, NEW n \in Names
          PROVE  n \in walk[i].seen[d].files <=> <<d, n>> \in v.found
      <3>1. <<d, walk[i].seen[d].seq>> \in views[i].signature
        BY <1>2 DEF Signature
      <3> QED BY <2>1, <2>2, <3>1 DEF ListingSeen
    <2> QED BY <1>2, <2>1, <2>2, <2>3, <2>4
  <1>3. CASE Signature(walk[i].seen) # views[i].signature
    <2>1. v = [signature |-> Signature(walk[i].seen), found |-> Merged(walk[i].seen)]
      BY <1>3
    <2>2. v.signature = Signature(walk[i].seen) /\ v.found = Merged(walk[i].seen)
      BY <2>1
    <2>3. \A d \in Dirs, n \in Names :
             <<d, n>> \in Merged(walk[i].seen) <=>
                d \in DOMAIN walk[i].seen /\ n \in walk[i].seen[d].files
      BY <1>1 DEF Merged
    <2>4. Merged(walk[i].seen) \subseteq Dirs \X Names
      BY <1>1 DEF Merged
    <2> QED BY <2>2, <2>3, <2>4
  <1> QED BY <1>2, <1>3

\* A merge gives the views to the request and the walk is over.
LEMMA MergeInv == ASSUME Inv, NEW r \in Requests, Merge(r) PROVE Inv'
  <1>0. /\ TypeOK /\ ListingsTrue /\ LockInv /\ ViewsInv /\ WalkInv /\ HistoryInv
        /\ FoundIsCurrent
    BY DEF Inv
  <1>a. PICK i \in Indexes : i = req[r].index
    BY <1>0 DEF Merge, TypeOK, Busy
  <1>b. PICK v : v = IF Signature(walk[i].seen) = views[i].signature THEN views[i]
                     ELSE [signature |-> Signature(walk[i].seen),
                           found |-> Merged(walk[i].seen)]
    OBVIOUS
  <1>c. PICK s : s = walk[i].seen
    OBVIOUS
  <1>1. /\ UNCHANGED <<clock, disk, scans, always, ever>>
        /\ req[r].pc = "walk" /\ walk[i].at = Nobody /\ walk[i].pending = {}
        /\ cache' = [cache EXCEPT ![i] = s] /\ views' = [views EXCEPT ![i] = v]
        /\ lock' = [lock EXCEPT ![i] = Nobody] /\ walk' = [walk EXCEPT ![i] = NoWalk]
        /\ req' = [req EXCEPT ![r].pc = "found", ![r].found = v.found]
    BY <1>a, <1>b, <1>c DEF Merge, histories
  <1>2. /\ DOMAIN cache' = Indexes /\ cache'[i] = s
        /\ \A j \in Indexes \ {i} : cache'[j] = cache[j]
    BY <1>0, <1>1 DEF TypeOK
  <1>3. /\ DOMAIN views' = Indexes /\ views'[i] = v
        /\ \A j \in Indexes \ {i} : views'[j] = views[j]
    BY <1>0, <1>1 DEF TypeOK
  <1>4. /\ DOMAIN walk' = Indexes /\ walk'[i] = NoWalk
        /\ \A j \in Indexes \ {i} : walk'[j] = walk[j]
    BY <1>0, <1>1 DEF TypeOK
  <1>5. /\ lock' \in [Indexes -> Requests \cup {Nobody}] /\ lock'[i] = Nobody
        /\ \A j \in Indexes \ {i} : lock'[j] = lock[j]
    BY <1>0, <1>1 DEF TypeOK
  <1>6. /\ DOMAIN req' = Requests /\ DOMAIN req'[r] = DOMAIN Fresh
        /\ req'[r].pc = "found" /\ req'[r].index = i /\ req'[r].found = v.found
        /\ \A q \in Requests \ {r} : req'[q] = req[q]
    BY <1>0, <1>1, <1>a DEF TypeOK, Fresh
  <1>7. /\ v.signature = Signature(s) /\ v.found \subseteq Dirs \X Names
        /\ \A d \in Dirs, n \in Names :
              <<d, n>> \in v.found <=> d \in DOMAIN s /\ n \in s[d].files
    BY <1>b, <1>c, MergedViews
  <1>8. /\ DOMAIN s \subseteq Dirs
        /\ \A d \in DOMAIN s : /\ s[d] \in Listings /\ ListingTrue(d, s[d])
                               /\ s[d].seq \in 0..(scans[i] - 1)
    <2>1. /\ DOMAIN s \subseteq Dirs /\ scans[i] \in Nat
          /\ \A d \in DOMAIN s : s[d] \in Listings /\ ListingTrue(d, s[d])
      BY <1>0, <1>c DEF TypeOK, ListingsTrue
    <2>2. \A d \in DOMAIN s : s[d].seq < scans[i]
      BY <1>0, <1>c DEF ViewsInv, ListingSeen
    <2> QED BY <2>1, <2>2 DEF Listings
  <1>9. /\ DOMAIN NoWalk.seen = {} /\ NoWalk.now = 0 /\ NoWalk.mtime = 0
        /\ NoWalk.pending = {} /\ NoWalk.at = Nobody
    BY DEF NoWalk, Empty
  <1>10. TypeOK'
    <2>1. \A j \in Indexes :
             /\ DOMAIN cache'[j] \subseteq Dirs
             /\ \A d \in DOMAIN cache'[j] : cache'[j][d] \in Listings
      BY <1>0, <1>2, <1>8 DEF TypeOK
    <2>2. \A j \in Indexes :
             /\ DOMAIN walk'[j] = DOMAIN NoWalk
             /\ walk'[j].now \in 0..clock /\ walk'[j].mtime \in Int
             /\ walk'[j].pending \subseteq Dirs /\ walk'[j].at \in Dirs \cup {Nobody}
             /\ DOMAIN walk'[j].seen \subseteq Dirs
             /\ \A d \in DOMAIN walk'[j].seen : walk'[j].seen[d] \in Listings
      <3> SUFFICES ASSUME NEW j \in Indexes
                   PROVE  /\ DOMAIN walk'[j] = DOMAIN NoWalk
                          /\ walk'[j].now \in 0..clock /\ walk'[j].mtime \in Int
                          /\ walk'[j].pending \subseteq Dirs
                          /\ walk'[j].at \in Dirs \cup {Nobody}
                          /\ DOMAIN walk'[j].seen \subseteq Dirs
                          /\ \A d \in DOMAIN walk'[j].seen : walk'[j].seen[d] \in Listings
        OBVIOUS
      <3>0. clock \in Nat
        BY <1>0 DEF TypeOK
      <3>1. CASE j = i
        BY <1>4, <1>9, <3>0, <3>1
      <3>2. CASE j # i
        BY <1>0, <1>4, <3>2 DEF TypeOK
      <3> QED BY <3>1, <3>2
    <2>3. \A q \in Requests : /\ DOMAIN req'[q] = DOMAIN Fresh
                              /\ req'[q].pc \in {"idle", "lookup", "walk", "found", "done"}
                              /\ Busy(q)' => req'[q].index \in Indexes
      BY <1>0, <1>6 DEF TypeOK, Busy
    <2> QED BY <1>0, <1>1, <1>2, <1>3, <1>4, <1>5, <1>6, <2>1, <2>2, <2>3 DEF TypeOK
  <1>11. ListingsTrue'
    <2>1. \A d \in Dirs, l \in Listings : ListingTrue(d, l)' <=> ListingTrue(d, l)
      BY <1>1 DEF ListingTrue, Subdirs
    <2> SUFFICES ASSUME NEW j \in Indexes
                 PROVE  /\ \A d \in DOMAIN cache'[j] : ListingTrue(d, cache[j][d])'
                        /\ \A d \in DOMAIN walk'[j].seen : ListingTrue(d, walk[j].seen[d])'
      BY DEF ListingsTrue
    <2>2. CASE j = i
      <3>1. ASSUME NEW d \in DOMAIN cache'[j] PROVE ListingTrue(d, cache[j][d])'
        <4>1. d \in Dirs /\ cache'[j][d] \in Listings /\ ListingTrue(d, cache'[j][d])
          BY <1>2, <1>8, <2>2, <3>1
        <4> QED BY <2>1, <4>1
      <3> QED BY <1>4, <1>9, <2>2, <3>1
    <2>3. CASE j # i
      BY <1>0, <1>2, <1>4, <2>1, <2>3 DEF ListingsTrue, TypeOK
    <2> QED BY <2>2, <2>3
  <1>12. LockInv'
    <2> SUFFICES ASSUME NEW q \in Requests, NEW j \in Indexes
                 PROVE  lock'[j] = q <=> req'[q].pc = "walk" /\ req'[q].index = j
      BY DEF LockInv
    <2>1. lock[j] = q <=> req[q].pc = "walk" /\ req[q].index = j
      BY <1>0 DEF LockInv
    <2>2. lock[i] = r
      BY <1>0, <1>1, <1>a DEF LockInv
    <2>3. q # Nobody
      OBVIOUS
    <2>4. CASE q = r
      BY <1>5, <1>6, <1>a, <2>1, <2>3, <2>4
    <2>5. CASE q # r
      BY <1>5, <1>6, <2>1, <2>2, <2>3, <2>5
    <2> QED BY <2>4, <2>5
  <1>13. ViewsInv'
    <2> SUFFICES ASSUME NEW j \in Indexes
                 PROVE  /\ \A d \in DOMAIN cache'[j] : ListingSeen(j, d, cache[j][d])'
                        /\ \A d \in DOMAIN walk'[j].seen : ListingSeen(j, d, walk[j].seen[d])'
                        /\ \A t \in views'[j].signature : t[2] \in 0..(scans[j] - 1)
                        /\ \A f \in views'[j].found :
                              /\ f \in Dirs \X Names
                              /\ \E t \in views'[j].signature : t[1] = f[1]
      BY <1>1 DEF ViewsInv
    <2>1. CASE j = i
      <3>1. \A d \in DOMAIN cache'[j] : ListingSeen(j, d, cache[j][d])'
        <4> SUFFICES ASSUME NEW d \in DOMAIN s
                     PROVE  /\ s[d].seq < scans[i]
                            /\ <<d, s[d].seq>> \in v.signature =>
                                  \A n \in Names : n \in s[d].files <=> <<d, n>> \in v.found
          BY <1>1, <1>2, <1>3, <2>1 DEF ListingSeen
        <4> QED BY <1>0, <1>7, <1>8 DEF TypeOK
      <3>2. \A t \in v.signature : t[2] \in 0..(scans[i] - 1)
        BY <1>7, <1>8 DEF Signature
      <3>3. \A f \in v.found : f \in Dirs \X Names /\ \E t \in v.signature : t[1] = f[1]
        <4> SUFFICES ASSUME NEW f \in v.found PROVE \E t \in v.signature : t[1] = f[1]
          BY <1>7
        <4>1. PICK d \in Dirs, n \in Names : f = <<d, n>>
          BY <1>7
        <4>2. d \in DOMAIN s
          BY <1>7, <4>1
        <4>3. <<d, s[d].seq>> \in v.signature
          BY <1>7, <4>2 DEF Signature
        <4> QED BY <4>1, <4>3
      <3> QED BY <1>3, <1>4, <1>9, <2>1, <3>1, <3>2, <3>3
    <2>2. CASE j # i
      BY <1>0, <1>1, <1>2, <1>3, <1>4, <2>2 DEF ViewsInv, ListingSeen
    <2> QED BY <2>1, <2>2
  <1>14. WalkInv'
    <2>1. ASSUME NEW q \in Requests, req'[q].pc = "walk"
          PROVE  req'[q] = req[q] /\ req[q].index \in Indexes \ {i}
      <3>1. q # r /\ req'[q] = req[q] /\ req[q].pc = "walk"
        BY <1>6, <2>1
      <3>2. req[q].index \in Indexes
        BY <1>0, <3>1 DEF TypeOK, Busy
      <3>3. lock[i] = r /\ lock[req[q].index] = q
        BY <1>0, <1>1, <1>a, <3>1, <3>2 DEF LockInv
      <3> QED BY <3>1, <3>2, <3>3
    <2> SUFFICES ASSUME NEW q \in Requests, req'[q].pc = "walk",
                        NEW d \in Dirs, NEW n \in Names
                 PROVE  LET at == walk'[req'[q].index]
                            listed == d \in DOMAIN at.seen /\ n \in at.seen[d].files
                        IN /\ listed => <<d, n>> \in ever'[q]
                           /\ <<d, n>> \in always'[q] =>
                                 \/ listed
                                 \/ d \in at.pending \/ d = at.at
                                 \/ Root \in at.pending \/ Root = at.at
      BY DEF WalkInv, ToCome
    <2>2. walk'[req'[q].index] = walk[req[q].index]
      BY <1>4, <2>1
    <2>3. always' = always /\ ever' = ever
      BY <1>1
    <2>4. req[q].pc = "walk"
      BY <2>1
    <2> QED BY <1>0, <2>2, <2>3, <2>4 DEF WalkInv, ToCome
  <1>15. HistoryInv'
    <2>1. Busy(r)
      BY <1>1 DEF Busy
    <2> QED BY <1>0, <1>1, <1>6, <2>1 DEF HistoryInv, Busy, Present
  <1>16. FoundIsCurrent'
    <2>1. always[r] \subseteq Present /\ Present \subseteq Dirs \X Names
      BY <1>0, <1>1 DEF HistoryInv, Busy, Present
    <2>2. ASSUME NEW d \in Dirs, NEW n \in Names
          PROVE  LET listed == d \in DOMAIN s /\ n \in s[d].files
                 IN (listed => <<d, n>> \in ever[r]) /\ (<<d, n>> \in always[r] => listed)
      <3>1. ~ToCome(i, d) /\ ~ToCome(i, Root)
        BY <1>1 DEF ToCome
      <3> QED BY <1>0, <1>1, <1>a, <1>c, <3>1 DEF WalkInv
    <2>3. always[r] \subseteq v.found /\ v.found \subseteq ever[r]
      <3>1. ASSUME NEW f \in always[r] PROVE f \in v.found
        <4>1. PICK d \in Dirs, n \in Names : f = <<d, n>>
          BY <2>1
        <4> QED BY <1>7, <2>2, <4>1
      <3>2. ASSUME NEW f \in v.found PROVE f \in ever[r]
        <4>1. PICK d \in Dirs, n \in Names : f = <<d, n>>
          BY <1>7
        <4> QED BY <1>7, <2>2, <4>1
      <3> QED BY <3>1, <3>2
    <2> QED BY <1>0, <1>1, <1>6, <2>3 DEF FoundIsCurrent
  <1> QED BY <1>10, <1>11, <1>12, <1>13, <1>14, <1>15, <1>16 DEF Inv

-----------------------------------------------------------------------------
(* The requests.                                                            *)

\* A step of a request that leaves the indexes alone, and leaves it waiting to
\* look something up, or done.
LEMMA RequestInv ==
    ASSUME Inv, NEW r \in Requests, req[r].pc # "walk",
           UNCHANGED <<clock, disk, indexes>>,
           NEW x, DOMAIN x = DOMAIN Fresh, x.pc \in {"lookup", "done"},
           x.pc = "lookup" => x.index \in Indexes,
           req' = [req EXCEPT ![r] = x],
           \/ UNCHANGED histories /\ (x.pc = "lookup" => Busy(r))
           \/ /\ always' = [always EXCEPT ![r] = Present]
              /\ ever' = [ever EXCEPT ![r] = Present]
    PROVE  Inv'
  <1> USE DEF indexes, histories
  <1>0. /\ TypeOK /\ ListingsTrue /\ LockInv /\ ViewsInv /\ WalkInv /\ HistoryInv
        /\ FoundIsCurrent
    BY DEF Inv
  <1>1. /\ DOMAIN req' = Requests /\ req'[r] = x
        /\ \A q \in Requests \ {r} : req'[q] = req[q]
    BY <1>0 DEF TypeOK
  <1>2. /\ DOMAIN always' = Requests /\ DOMAIN ever' = Requests
        /\ \A q \in Requests \ {r} : always'[q] = always[q] /\ ever'[q] = ever[q]
        /\ \/ always'[r] = always[r] /\ ever'[r] = ever[r] /\ (x.pc = "lookup" => Busy(r))
           \/ always'[r] = Present /\ ever'[r] = Present
    BY <1>0 DEF TypeOK
  <1>3. TypeOK'
    <2>1. \A q \in Requests : /\ DOMAIN req'[q] = DOMAIN Fresh
                              /\ req'[q].pc \in {"idle", "lookup", "walk", "found", "done"}
                              /\ Busy(q)' => req'[q].index \in Indexes
      BY <1>0, <1>1 DEF TypeOK, Busy
    <2> QED BY <1>0, <1>1, <1>2, <2>1 DEF TypeOK
  <1>9. \A d, l : ListingTrue(d, l)' <=> ListingTrue(d, l)
    BY DEF ListingTrue, Subdirs
  <1>a. ListingsTrue'
    BY <1>0, <1>9 DEF ListingsTrue
  <1>4. ViewsInv'
    BY <1>0 DEF ViewsInv, ListingSeen
  <1>5. LockInv'
    BY <1>0, <1>1 DEF LockInv
  <1>6. WalkInv'
    BY <1>0, <1>1, <1>2 DEF WalkInv, ToCome
  <1>7. HistoryInv'
    BY <1>0, <1>1, <1>2 DEF HistoryInv, Busy, Present
  <1>8. FoundIsCurrent'
    BY <1>0, <1>1, <1>2 DEF FoundIsCurrent
  <1> QED BY <1>a, <1>3, <1>4, <1>5, <1>6, <1>7, <1>8 DEF Inv

\* A request asks: what was there since it began is what is there.
LEMMA AskInv ==
    ASSUME Inv, NEW r \in Requests, NEW kind, NEW k, live \in Indexes, Ask(r, kind, k)
    PROVE  Inv'
  <1> DEFINE x == [Fresh EXCEPT !.pc = "lookup", !.kind = kind, !.index = live, !.key = k]
  <1>1. DOMAIN x = DOMAIN Fresh /\ x.pc = "lookup" /\ x.index = live
    BY DEF Fresh
  <1>2. req' = [req EXCEPT ![r] = x]
    BY DEF Ask, Lookup
  <1>3. /\ req[r].pc # "walk" /\ UNCHANGED <<clock, disk, indexes>>
        /\ always' = [always EXCEPT ![r] = Present]
        /\ ever' = [ever EXCEPT ![r] = Present]
    BY DEF Ask
  <1> HIDE DEF x
  <1> QED BY <1>1, <1>2, <1>3, RequestInv

\* A request answers.
LEMMA AnswerInv ==
    ASSUME Inv, NEW r \in Requests, req[r].pc = "found", NEW status, NEW chain,
           Answer(r, status, chain)
    PROVE  Inv'
  <1>0. DOMAIN req = Requests /\ DOMAIN req[r] = DOMAIN Fresh
    BY DEF Inv, TypeOK
  <1>1. req' = [req EXCEPT ![r].pc = "done", ![r].status = status, ![r].chain = chain]
        /\ UNCHANGED <<clock, disk, indexes, histories>>
    BY DEF Answer
  <1>2. PICK x : x = [req[r] EXCEPT !.pc = "done", !.status = status, !.chain = chain]
    OBVIOUS
  <1>3. DOMAIN x = DOMAIN Fresh /\ x.pc = "done"
    BY <1>0, <1>2 DEF Fresh
  <1>4. req' = [req EXCEPT ![r] = x]
    BY <1>0, <1>1, <1>2
  <1> QED BY <1>1, <1>3, <1>4, RequestInv

\* So do all the ways a request goes on once it has looked up.
LEMMA ServeInv ==
    ASSUME Inv, NEW r \in Requests, live \in Indexes, Serve(r)
    PROVE  Inv'
  <1>1. CASE NotFound(r)
    BY <1>1, AnswerInv DEF NotFound
  <1>2. CASE ReadGps(r)
    BY <1>2, AnswerInv DEF ReadGps
  <1>3. CASE AnswerChain(r)
    BY <1>3, AnswerInv DEF AnswerChain
  <1>4. CASE LookUpChain(r)
    <2>0. DOMAIN req = Requests /\ DOMAIN req[r] = DOMAIN Fresh
      BY DEF Inv, TypeOK
    <2>1. /\ req' = [req EXCEPT ![r].pc = "lookup", ![r].kind = "chain", ![r].index = live]
          /\ req[r].pc = "found" /\ UNCHANGED <<clock, disk, indexes, histories>>
      BY <1>4 DEF LookUpChain
    <2>2. PICK x : x = [req[r] EXCEPT !.pc = "lookup", !.kind = "chain", !.index = live]
      OBVIOUS
    <2>3. DOMAIN x = DOMAIN Fresh /\ x.pc = "lookup" /\ x.index \in Indexes
      BY <2>0, <2>2 DEF Fresh
    <2>4. req' = [req EXCEPT ![r] = x]
      BY <2>0, <2>1, <2>2
    <2>5. Busy(r)
      BY <2>1 DEF Busy
    <2> QED BY <2>1, <2>3, <2>4, <2>5, RequestInv
  <1> QED BY <1>1, <1>2, <1>3, <1>4 DEF Serve

-----------------------------------------------------------------------------
(* The theorems.                                                            *)

\* The index in use is one of the indexes.
LEMMA LiveIsIndex == Spec => [](live \in Indexes)
  <1>1. Init => live \in Indexes
    BY DEF Init
  <1>2. live \in Indexes /\ [Next]_vars => (live \in Indexes)'
    <2> SUFFICES ASSUME live \in Indexes, [Next]_vars PROVE live' \in Indexes
      OBVIOUS
    <2>1. CASE ChangeSettings
      BY <2>1 DEF ChangeSettings
    <2>2. CASE Tick \/ UNCHANGED vars
      BY <2>2 DEF Tick, vars
    <2>3. ASSUME NEW d \in Dirs,
                 \/ MakeDir(d) \/ RemoveDir(d)
                 \/ \E n \in Names : AddFile(d, n) \/ RemoveFile(d, n)
          PROVE  live' \in Indexes
      BY <2>3 DEF MakeDir, RemoveDir, AddFile, RemoveFile, Change
    <2>4. ASSUME NEW r \in Requests, Refresh(r) PROVE live' \in Indexes
      BY <2>4 DEF Refresh, Acquire, StatDir, ScanDir, Merge
    <2>5. ASSUME NEW r \in Requests, Serve(r) PROVE live' \in Indexes
      BY <2>5 DEF Serve, NotFound, ReadGps, LookUpChain, AnswerChain, Answer
    <2>6. ASSUME NEW r \in Requests, NEW k \in Keys, NEW kind \in {"gps", "journey"},
                 Ask(r, kind, k)
          PROVE  live' \in Indexes
      BY <2>6 DEF Ask
    <2> QED BY <2>1, <2>2, <2>3, <2>4, <2>5, <2>6 DEF Next
  <1> QED BY <1>1, <1>2, PTL DEF Spec

\* Every step keeps the invariant.
LEMMA NextInv == Inv /\ live \in Indexes /\ [Next]_vars => Inv'
  <1> SUFFICES ASSUME Inv, live \in Indexes, [Next]_vars PROVE Inv'
    OBVIOUS
  <1>1. CASE Tick \/ ChangeSettings
    BY <1>1, TickInv, ChangeSettingsInv
  <1>2. CASE \E d \in Dirs : \/ MakeDir(d) \/ RemoveDir(d)
                             \/ \E n \in Names : AddFile(d, n) \/ RemoveFile(d, n)
    BY <1>2, DiskInv
  <1>4. CASE \E r \in Requests : Refresh(r)
    BY <1>4, AcquireInv, StatDirInv, ScanDirInv, MergeInv DEF Refresh
  <1>5. CASE \E r \in Requests : Serve(r)
    BY <1>5, ServeInv
  <1>6. CASE \E r \in Requests, k \in Keys, kind \in {"gps", "journey"} : Ask(r, kind, k)
    BY <1>6, AskInv
  <1>7. CASE UNCHANGED vars
    <2>1. UNCHANGED <<clock, disk, lock, cache, scans, views, walk, req, always, ever>>
      BY <1>7 DEF vars, indexes, histories
    <2>2. TypeOK'
      BY <2>1 DEF Inv, TypeOK, Busy
    <2>3. ListingsTrue'
      <3>1. ListingsTrue /\ \A d, l : ListingTrue(d, l)' <=> ListingTrue(d, l)
        BY <2>1 DEF Inv, ListingTrue, Subdirs
      <3> QED BY <2>1, <3>1 DEF ListingsTrue
    <2> QED BY <2>1, <2>2, <2>3, RestStays DEF Inv
  <1> QED BY <1>1, <1>2, <1>4, <1>5, <1>6, <1>7 DEF Next

\* The index is consistent in every run: with the disk, with its views, and with
\* what each request under way may see (RecordingIndex of viewer_index.py).
THEOREM InvHolds == Spec => []Inv
  BY InitInv, NextInv, LiveIsIndex, PTL DEF Spec

\* A directory that would be used from the cache without looking is listed as it
\* is: no two changes within a tick, no change between the stat and the scan, no
\* skew that the window outlasts makes a stale listing trusted (_refresh).
THEOREM TrustedIsTrueHolds == Spec => []TrustedIsTrue
  <1>1. Inv => TrustedIsTrue
    BY DEF Inv, ListingsTrue, ListingTrue, TrustedIsTrue, Trusted
  <1> QED BY <1>1, InvHolds, PTL

\* A lookup finds every recording that was there all the time, and none that was
\* not there at some time since the request began (_current, get, journey_chain).
THEOREM FoundIsCurrentHolds == Spec => []FoundIsCurrent
  <1>1. Inv => FoundIsCurrent
    BY DEF Inv
  <1> QED BY <1>1, InvHolds, PTL

-----------------------------------------------------------------------------
(* Tracks: what lies there throughout is served.                            *)

\* GpsIsServed of one request.
Served(r) ==
    \A n \in Sidecars, d \in Dirs :
        /\ req[r].pc = "done" /\ req[r].kind = "gps" /\ req[r].key = KeyOf[n]
        /\ <<d, n>> \in always[r]
        /\ \E v \in Names \ Sidecars : KeyOf[v] = KeyOf[n] /\ <<d, v>> \in always[r]
        /\ \A e \in Dirs \ {d}, m \in Names : KeyOf[m] = KeyOf[n] => <<e, m>> \notin ever[r]
        => req[r].status = "200"

\* The history names files in directories.
EverFits == \A r \in Requests : ever[r] \subseteq Dirs \X Names

\* An instant whose videos all lie in one directory is found there.
LEMMA FoundInItsDir ==
    ASSUME NEW found, found \subseteq Dirs \X Names, NEW d \in Dirs, NEW k,
           NEW v \in Names \ Sidecars, KeyOf[v] = k, <<d, v>> \in found,
           \A e \in Dirs \ {d}, m \in Names : KeyOf[m] = k => <<e, m>> \notin found
    PROVE  /\ Find(found, k) # {}
           /\ \A e \in Find(found, k) : e.dir = d /\ e.key = k
  <1> DEFINE es == {e \in Entries(found) : e.key = k}
             x == [dir |-> d, key |-> k]
  <1>1. \A e \in es : e.dir = d /\ e.key = k
    <2> SUFFICES ASSUME NEW e \in es PROVE e.dir = d /\ e.key = k
      OBVIOUS
    <2>1. e.key = k /\ \E f \in found : e = [dir |-> f[1], key |-> KeyOf[f[2]]]
      BY DEF Entries
    <2>2. PICK f \in found : e = [dir |-> f[1], key |-> KeyOf[f[2]]]
      BY <2>1
    <2>3. f[1] \in Dirs /\ f[2] \in Names /\ f = <<f[1], f[2]>>
      OBVIOUS
    <2>4. e.dir = f[1] /\ KeyOf[f[2]] = k
      BY <2>1, <2>2
    <2> QED BY <2>1, <2>3, <2>4
  <1>2. x \in es
    <2>1. <<d, v>> \in {g \in found : g[2] \notin Sidecars}
      OBVIOUS
    <2>2. x = [dir |-> <<d, v>>[1], key |-> KeyOf[<<d, v>>[2]]]
      OBVIOUS
    <2>3. x \in Entries(found)
      BY <2>1, <2>2 DEF Entries
    <2> QED BY <2>3
  <1>3. \A f \in es : Rank[f.dir] <= Rank[x.dir]
    BY <1>1
  <1>4. Find(found, k) = {e \in es : \A f \in es : Rank[f.dir] <= Rank[e.dir]}
    BY DEF Find
  <1> QED BY <1>1, <1>2, <1>3, <1>4

\* The lookup of a track that is served: what was there throughout was found.
LEMMA LookedUp ==
    ASSUME Inv, EverFits, NEW r \in Requests, req[r].pc = "found",
           NEW n \in Sidecars, NEW d \in Dirs, req[r].key = KeyOf[n],
           <<d, n>> \in always[r],
           \E v \in Names \ Sidecars : KeyOf[v] = KeyOf[n] /\ <<d, v>> \in always[r],
           \A e \in Dirs \ {d}, m \in Names : KeyOf[m] = KeyOf[n] => <<e, m>> \notin ever[r]
    PROVE  /\ Find(req[r].found, req[r].key) # {}
           /\ \A e \in Find(req[r].found, req[r].key) :
                 e.dir = d /\ HasGps(req[r].found, e)
           /\ <<d, n>> \in Present
  <1>1. /\ always[r] \subseteq req[r].found /\ req[r].found \subseteq ever[r]
        /\ always[r] \subseteq Present
    BY DEF Inv, FoundIsCurrent, HistoryInv, Busy
  <1>2. PICK v \in Names \ Sidecars : KeyOf[v] = KeyOf[n] /\ <<d, v>> \in always[r]
    OBVIOUS
  <1> DEFINE found == req[r].found
  <1>3. /\ found \subseteq Dirs \X Names /\ <<d, v>> \in found /\ <<d, n>> \in found
        /\ \A e \in Dirs \ {d}, m \in Names : KeyOf[m] = KeyOf[n] => <<e, m>> \notin found
    BY <1>1, <1>2 DEF EverFits
  <1> HIDE DEF found
  <1>4. /\ Find(found, KeyOf[n]) # {}
        /\ \A e \in Find(found, KeyOf[n]) : e.dir = d /\ e.key = KeyOf[n]
    BY <1>2, <1>3, FoundInItsDir
  <1>5. \A e \in Find(found, KeyOf[n]) : HasGps(found, e)
    BY <1>3, <1>4 DEF HasGps
  <1> QED BY <1>1, <1>4, <1>5 DEF found

\* A request that is answered: one that asked for a track, with what it found.
LEMMA AnsweredInv ==
    ASSUME Inv, NEW r \in Requests, NEW status, NEW chain, Answer(r, status, chain)
    PROVE  /\ req'[r].pc = "done" /\ req'[r].status = status
           /\ req'[r].kind = req[r].kind /\ req'[r].key = req[r].key
           /\ \A q \in Requests \ {r} : req'[q] = req[q]
           /\ UNCHANGED <<always, ever, disk>>
  <1>1. DOMAIN req = Requests /\ DOMAIN req[r] = DOMAIN Fresh
    BY DEF Inv, TypeOK
  <1>2. req' = [req EXCEPT ![r].pc = "done", ![r].status = status, ![r].chain = chain]
    BY DEF Answer
  <1>3. req'[r] = [req[r] EXCEPT !.pc = "done", !.status = status, !.chain = chain]
    BY <1>1, <1>2
  <1>4. \A q \in Requests \ {r} : req'[q] = req[q]
    BY <1>1, <1>2
  <1>5. /\ req'[r].pc = "done" /\ req'[r].status = status
        /\ req'[r].kind = req[r].kind /\ req'[r].key = req[r].key
    BY <1>1, <1>3 DEF Fresh
  <1> QED BY <1>4, <1>5 DEF Answer, histories

\* A step that leaves a request's answer and its history alone keeps it served.
LEMMA ServedStays ==
    ASSUME NEW r \in Requests, Served(r),
           \/ req'[r].pc # "done" \/ req'[r].kind # "gps"
           \/ req'[r] = req[r] /\ always'[r] = always[r] /\ ever'[r] = ever[r]
    PROVE  Served(r)'
  BY DEF Served

\* Not found: no request whose track lay there throughout is answered so.
LEMMA NotFoundServes ==
    ASSUME Inv, EverFits, NEW r \in Requests, NotFound(r), NEW q \in Requests, Served(q)
    PROVE  Served(q)'
  <1>1. req[r].pc = "found" /\ Answer(r, "404", <<>>)
    BY DEF NotFound
  <1>2. CASE q = r
    <2>1. /\ req'[r].kind = req[r].kind /\ req'[r].key = req[r].key
          /\ UNCHANGED <<always, ever>>
      BY <1>1, AnsweredInv
    <2>2. \/ Find(req[r].found, req[r].key) = {}
          \/ \A e \in Find(req[r].found, req[r].key) : ~HasGps(req[r].found, e)
      BY DEF NotFound
    <2>3. SUFFICES ASSUME NEW n \in Sidecars, NEW d \in Dirs,
             req'[r].key = KeyOf[n], <<d, n>> \in always'[r],
             \E v \in Names \ Sidecars : KeyOf[v] = KeyOf[n] /\ <<d, v>> \in always'[r],
             \A e \in Dirs \ {d}, m \in Names : KeyOf[m] = KeyOf[n] => <<e, m>> \notin ever'[r]
          PROVE  FALSE
      BY <1>2 DEF Served
    <2>4. /\ req[r].key = KeyOf[n] /\ <<d, n>> \in always[r]
          /\ \E v \in Names \ Sidecars : KeyOf[v] = KeyOf[n] /\ <<d, v>> \in always[r]
          /\ \A e \in Dirs \ {d}, m \in Names : KeyOf[m] = KeyOf[n] => <<e, m>> \notin ever[r]
      BY <2>1, <2>3
    <2>5. /\ Find(req[r].found, req[r].key) # {}
          /\ \A e \in Find(req[r].found, req[r].key) : HasGps(req[r].found, e)
      BY <1>1, <2>4, LookedUp
    <2> QED BY <2>2, <2>5
  <1>3. CASE q # r
    <2>1. req'[q] = req[q] /\ UNCHANGED <<always, ever>>
      BY <1>1, <1>3, AnsweredInv
    <2> QED BY <2>1, ServedStays
  <1> QED BY <1>2, <1>3

\* The sidecar that is read is the instant's only one, and it is still there.
LEMMA ReadGpsServes ==
    ASSUME Inv, EverFits, NEW r \in Requests, ReadGps(r), NEW q \in Requests, Served(q)
    PROVE  Served(q)'
  <1>1. /\ req[r].pc = "found"
        /\ \E e \in Find(req[r].found, req[r].key), n \in Sidecars :
              /\ KeyOf[n] = e.key
              /\ Answer(r, IF <<e.dir, n>> \in Present THEN "200" ELSE "500", <<>>)
    BY DEF ReadGps
  <1>2. PICK e \in Find(req[r].found, req[r].key), s \in Sidecars :
              /\ KeyOf[s] = e.key
              /\ Answer(r, IF <<e.dir, s>> \in Present THEN "200" ELSE "500", <<>>)
    BY <1>1
  <1>3. CASE q = r
    <2>1. /\ req'[r].kind = req[r].kind /\ req'[r].key = req[r].key
          /\ req'[r].status = IF <<e.dir, s>> \in Present THEN "200" ELSE "500"
          /\ UNCHANGED <<always, ever>>
      BY <1>2, AnsweredInv
    <2>2. SUFFICES ASSUME NEW n \in Sidecars, NEW d \in Dirs,
             req'[r].key = KeyOf[n], <<d, n>> \in always'[r],
             \E v \in Names \ Sidecars : KeyOf[v] = KeyOf[n] /\ <<d, v>> \in always'[r],
             \A f \in Dirs \ {d}, m \in Names : KeyOf[m] = KeyOf[n] => <<f, m>> \notin ever'[r]
          PROVE  <<e.dir, s>> \in Present
      BY <1>3, <2>1 DEF Served
    <2>3. /\ req[r].key = KeyOf[n] /\ <<d, n>> \in always[r]
          /\ \E v \in Names \ Sidecars : KeyOf[v] = KeyOf[n] /\ <<d, v>> \in always[r]
          /\ \A f \in Dirs \ {d}, m \in Names : KeyOf[m] = KeyOf[n] => <<f, m>> \notin ever[r]
      BY <2>1, <2>2
    <2>4. req[r].pc = "found"
      BY <1>1
    <2>5. /\ \A f \in Find(req[r].found, req[r].key) :
                f.dir = d /\ HasGps(req[r].found, f)
          /\ <<d, n>> \in Present
      BY <2>3, <2>4, LookedUp
    <2>6. e.key = req[r].key
      BY DEF Find
    <2>7. s = n
      BY <1>2, <2>3, <2>6, SidecarAssumption
    <2> QED BY <1>2, <2>5, <2>7
  <1>4. CASE q # r
    <2>1. req'[q] = req[q] /\ UNCHANGED <<always, ever>>
      BY <1>2, <1>4, AnsweredInv
    <2> QED BY <2>1, ServedStays
  <1> QED BY <1>3, <1>4

\* A request that does not answer leaves every answer alone.
LEMMA OthersServe ==
    ASSUME Inv, NEW r \in Requests,
           \/ Refresh(r) \/ LookUpChain(r) \/ AnswerChain(r)
           \/ \E k \in Keys, kind \in {"gps", "journey"} : Ask(r, kind, k),
           NEW q \in Requests, Served(q)
    PROVE  Served(q)'
  <1>0. DOMAIN req = Requests /\ DOMAIN req[r] = DOMAIN Fresh
        /\ DOMAIN always = Requests /\ DOMAIN ever = Requests
    BY DEF Inv, TypeOK
  <1>1. CASE Acquire(r)
    <2>1. req' = [req EXCEPT ![r].pc = "walk"] /\ UNCHANGED <<always, ever>>
      BY <1>1 DEF Acquire, histories
    <2>2. req'[r].pc = "walk" /\ \A p \in Requests \ {r} : req'[p] = req[p]
      BY <1>0, <2>1 DEF Fresh
    <2> QED BY <2>1, <2>2, ServedStays
  <1>2. CASE StatDir(r) \/ ScanDir(r)
    <2>1. UNCHANGED <<req, always, ever>>
      BY <1>2 DEF StatDir, ScanDir, histories
    <2> QED BY <2>1, ServedStays
  <1>3. CASE Merge(r)
    <2>1. /\ \E f : req' = [req EXCEPT ![r].pc = "found", ![r].found = f]
          /\ UNCHANGED <<always, ever>>
      BY <1>3 DEF Merge, histories
    <2>2. PICK f : req' = [req EXCEPT ![r].pc = "found", ![r].found = f]
      BY <2>1
    <2>3. req'[r].pc = "found" /\ \A p \in Requests \ {r} : req'[p] = req[p]
      BY <1>0, <2>2 DEF Fresh
    <2> QED BY <2>1, <2>3, ServedStays
  <1>4. CASE LookUpChain(r)
    <2>1. /\ req' = [req EXCEPT ![r].pc = "lookup", ![r].kind = "chain", ![r].index = live]
          /\ UNCHANGED <<always, ever>>
      BY <1>4 DEF LookUpChain, histories
    <2>2. req'[r].pc = "lookup" /\ \A p \in Requests \ {r} : req'[p] = req[p]
      BY <1>0, <2>1 DEF Fresh
    <2> QED BY <2>1, <2>2, ServedStays
  <1>5. CASE AnswerChain(r)
    <2>1. req[r].kind = "chain" /\ \E chain : Answer(r, "200", chain)
      BY <1>5 DEF AnswerChain
    <2>2. /\ req'[r].kind = "chain" /\ UNCHANGED <<always, ever>>
          /\ \A p \in Requests \ {r} : req'[p] = req[p]
      BY <2>1, AnsweredInv
    <2> QED BY <2>2, ServedStays
  <1>6. ASSUME NEW k \in Keys, NEW kind \in {"gps", "journey"}, Ask(r, kind, k)
        PROVE  Served(q)'
    <2>1. /\ req' = [req EXCEPT ![r] = [Fresh EXCEPT !.pc = "lookup", !.kind = kind,
                                                    !.index = live, !.key = k]]
          /\ always' = [always EXCEPT ![r] = Present]
          /\ ever' = [ever EXCEPT ![r] = Present]
      BY <1>6 DEF Ask, Lookup
    <2>2. /\ req'[r].pc = "lookup"
          /\ \A p \in Requests \ {r} : /\ req'[p] = req[p] /\ always'[p] = always[p]
                                       /\ ever'[p] = ever[p]
      BY <1>0, <2>1 DEF Fresh
    <2> QED BY <2>2, ServedStays
  <1> QED BY <1>1, <1>2, <1>3, <1>4, <1>5, <1>6 DEF Refresh

\* A change of the disk is remembered by the requests under way only.
LEMMA ChangeServes ==
    ASSUME Inv, Change, NEW q \in Requests, Served(q)
    PROVE  Served(q)'
  <1>1. UNCHANGED req
    BY DEF Change
  <1>2. CASE req[q].pc = "done"
    <2>1. ~Busy(q)
      BY <1>2 DEF Busy
    <2>2. always'[q] = always[q] /\ ever'[q] = ever[q]
      BY <2>1 DEF Change
    <2> QED BY <1>1, <2>2, ServedStays
  <1>3. CASE req[q].pc # "done"
    BY <1>1, <1>3, ServedStays
  <1> QED BY <1>2, <1>3

\* Every step of the disk is a change.
LEMMA DiskChanges ==
    ASSUME NEW d \in Dirs,
           \/ MakeDir(d) \/ RemoveDir(d)
           \/ \E n \in Names : AddFile(d, n) \/ RemoveFile(d, n)
    PROVE  Change
  BY DEF MakeDir, RemoveDir, AddFile, RemoveFile

\* Every step keeps the histories within the library.
LEMMA NextFits == EverFits /\ TypeOK /\ [Next]_vars => EverFits'
  <1> SUFFICES ASSUME EverFits, TypeOK, [Next]_vars PROVE EverFits'
    OBVIOUS
  <1>0. Present \subseteq Dirs \X Names /\ Present' \subseteq Dirs \X Names
        /\ DOMAIN ever = Requests
    BY DEF Present, TypeOK
  <1>1. CASE Change
    BY <1>0, <1>1 DEF Change, EverFits
  <1>2. ASSUME NEW r \in Requests, NEW k, NEW kind, Ask(r, kind, k) PROVE EverFits'
    BY <1>0, <1>2 DEF Ask, EverFits
  <1>3. CASE UNCHANGED ever
    BY <1>3 DEF EverFits
  <1>4. ASSUME NEW r \in Requests, Refresh(r) \/ Serve(r) PROVE UNCHANGED ever
    BY <1>4 DEF Refresh, Acquire, StatDir, ScanDir, Merge, Serve, NotFound, ReadGps,
                LookUpChain, AnswerChain, Answer, histories
  <1>5. CASE Tick \/ ChangeSettings \/ UNCHANGED vars
    BY <1>3, <1>5 DEF Tick, ChangeSettings, vars, histories
  <1> QED BY <1>1, <1>2, <1>3, <1>4, <1>5, DiskChanges DEF Next

\* Every step keeps every track that lay there throughout served.
LEMMA NextServes ==
    (\A r \in Requests : Served(r)) /\ Inv /\ EverFits /\ [Next]_vars
        => (\A r \in Requests : Served(r))'
  <1> SUFFICES ASSUME \A r \in Requests : Served(r), Inv, EverFits, [Next]_vars,
                      NEW q \in Requests
               PROVE  Served(q)'
    OBVIOUS
  <1>1. CASE Tick \/ ChangeSettings \/ UNCHANGED vars
    <2>1. UNCHANGED <<req, always, ever>>
      BY <1>1 DEF Tick, ChangeSettings, vars, histories
    <2> QED BY <2>1, ServedStays
  <1>2. CASE Change
    BY <1>2, ChangeServes
  <1>3. ASSUME NEW r \in Requests, Serve(r) PROVE Served(q)'
    BY <1>3, NotFoundServes, ReadGpsServes, OthersServe DEF Serve
  <1>4. ASSUME NEW r \in Requests, Refresh(r) PROVE Served(q)'
    BY <1>4, OthersServe
  <1>5. ASSUME NEW r \in Requests,
               \E k \in Keys, kind \in {"gps", "journey"} : Ask(r, kind, k)
        PROVE  Served(q)'
    BY <1>5, OthersServe
  <1> QED BY <1>1, <1>2, <1>3, <1>4, <1>5, DiskChanges DEF Next

\* A track that lies next to its video from the request to the answer, and
\* nowhere else, is served, whoever changes the library and however many look:
\* the second step of the request finds what the lookup named (api_viewer.py).
THEOREM GpsIsServedHolds == Spec => []GpsIsServed
  <1>1. Init => EverFits /\ \A r \in Requests : Served(r)
    BY DEF Init, EverFits, Served, Fresh
  <1>2. Inv => TypeOK
    BY DEF Inv
  <1>3. Spec => []EverFits
    BY <1>1, <1>2, InvHolds, NextFits, PTL DEF Spec
  <1>4. Spec => [](\A r \in Requests : Served(r))
    BY <1>1, <1>3, InvHolds, NextServes, PTL DEF Spec
  <1>5. (\A r \in Requests : Served(r)) => GpsIsServed
    BY DEF Served, GpsIsServed
  <1> QED BY <1>4, <1>5, PTL

-----------------------------------------------------------------------------
(* The journeys: the entries sorted.                                        *)

\* A video's entry names a directory and an instant.
LEMMA EntriesType ==
    ASSUME NEW found, found \subseteq Dirs \X Names
    PROVE  /\ Entries(found) \subseteq [dir : Dirs, key : Keys]
           /\ IsFiniteSet(Entries(found))
  <1>1. Entries(found) \subseteq [dir : Dirs, key : Keys]
    <2> SUFFICES ASSUME NEW e \in Entries(found) PROVE e \in [dir : Dirs, key : Keys]
      OBVIOUS
    <2>1. PICK f \in found : e = [dir |-> f[1], key |-> KeyOf[f[2]]]
      BY DEF Entries
    <2>2. f[1] \in Dirs /\ f[2] \in Names
      OBVIOUS
    <2> QED BY <2>1, <2>2
  <1>2. IsFiniteSet(Dirs \X Names)
    BY LibraryAssumption, FS_Product
  <1> DEFINE vs == {g \in found : g[2] \notin Sidecars}
  <1>3. IsFiniteSet(vs)
    BY <1>2, FS_Subset
  <1> DEFINE entry(f) == [dir |-> f[1], key |-> KeyOf[f[2]]]
             name == [f \in vs |-> entry(f)]
  <1>4. name \in [vs -> Entries(found)]
    BY DEF Entries
  <1>5. \A e \in Entries(found) : \E f \in vs : name[f] = e
    BY DEF Entries
  <1> HIDE DEF name, vs
  <1>6. name \in Surjection(vs, Entries(found))
    BY <1>4, <1>5, Fun_IsSurj
  <1> QED BY <1>1, <1>3, <1>6, FS_Surjection

\* Of two entries of a type one precedes the other, and not the other it.
LEMMA PrecedesIsTotal ==
    ASSUME NEW e \in [dir : Dirs, key : Keys], NEW f \in [dir : Dirs, key : Keys],
           TypeOf[e.key] = TypeOf[f.key]
    PROVE  /\ ~(Precedes(e, f) /\ (f = e \/ Precedes(f, e)))
           /\ e = f \/ Precedes(e, f) \/ Precedes(f, e)
  <1>1. /\ TimeOf[e.key] \in Nat /\ TimeOf[f.key] \in Nat
        /\ Rank[e.dir] \in Nat /\ Rank[f.dir] \in Nat
    OBVIOUS
  <1>2. ~(Precedes(e, f) /\ (f = e \/ Precedes(f, e)))
    BY <1>1 DEF Precedes
  <1>3. ASSUME ~Precedes(e, f), ~Precedes(f, e) PROVE e = f
    <2>1. TimeOf[e.key] = TimeOf[f.key] /\ Rank[e.dir] = Rank[f.dir]
      BY <1>1, <1>3 DEF Precedes
    <2>2. e.key = f.key /\ e.dir = f.dir
      BY <2>1, LibraryAssumption
    <2> QED BY <2>2
  <1> QED BY <1>2, <1>3

LEMMA PrecedesIsTransitive ==
    ASSUME NEW e \in [dir : Dirs, key : Keys], NEW f \in [dir : Dirs, key : Keys],
           NEW g \in [dir : Dirs, key : Keys], Precedes(e, f), Precedes(f, g)
    PROVE  Precedes(e, g)
  <1>1. /\ TimeOf[e.key] \in Nat /\ TimeOf[f.key] \in Nat /\ TimeOf[g.key] \in Nat
        /\ Rank[e.dir] \in Nat /\ Rank[f.dir] \in Nat /\ Rank[g.dir] \in Nat
    OBVIOUS
  <1> QED BY <1>1 DEF Precedes

\* The numbers up to n are n.
LEMMA CountTo ==
    ASSUME NEW n \in Nat
    PROVE  IsFiniteSet(1..n) /\ Cardinality(1..n) = n
  <1>1. 1 \in Int /\ n \in Int
    OBVIOUS
  <1>2. /\ IsFiniteSet(1..n)
        /\ Cardinality(1..n) = IF 1 > n THEN 0 ELSE n - 1 + 1
    BY <1>1, FS_Interval
  <1> QED BY <1>2

\* OldestFirst sorts: it lists every entry once, each before those it precedes.
LEMMA OldestFirstSorts ==
    ASSUME NEW es, es \subseteq [dir : Dirs, key : Keys], IsFiniteSet(es),
           \A e, f \in es : TypeOf[e.key] = TypeOf[f.key]
    PROVE  /\ OldestFirst(es) \in [1..Cardinality(es) -> es]
           /\ Cardinality(es) \in Nat
           /\ \A e \in es : \E j \in 1..Cardinality(es) : OldestFirst(es)[j] = e
           /\ \A i, j \in 1..Cardinality(es) :
                 i < j => Precedes(OldestFirst(es)[i], OldestFirst(es)[j])
  <1> DEFINE before(e) == {f \in es : f = e \/ Precedes(f, e)}
             place(e) == Cardinality(before(e))
             n == Cardinality(es)
             s == OldestFirst(es)
  <1>0. n \in Nat
    BY FS_CardinalityType
  <1>1. \A e \in es : /\ IsFiniteSet(before(e)) /\ place(e) \in Nat
                      /\ place(e) <= n /\ place(e) # 0
    <2> SUFFICES ASSUME NEW e \in es
                 PROVE  /\ IsFiniteSet(before(e)) /\ place(e) \in Nat
                        /\ place(e) <= n /\ place(e) # 0
      OBVIOUS
    <2>1. before(e) \in SUBSET es /\ e \in before(e)
      OBVIOUS
    <2> HIDE DEF before
    <2>2. IsFiniteSet(before(e)) /\ place(e) <= n
      BY <2>1, FS_Subset
    <2>3. place(e) # 0
      BY <2>1, <2>2, FS_EmptySet
    <2> QED BY <2>2, <2>3, FS_CardinalityType
  <1>2. ASSUME NEW e \in es, NEW f \in es, Precedes(e, f) PROVE place(e) < place(f)
    <2>1. before(e) \subseteq before(f)
      BY <1>2, PrecedesIsTransitive
    <2>2. f \in before(f) /\ f \notin before(e)
      BY <1>2, PrecedesIsTotal
    <2>3. IsFiniteSet(before(f)) /\ place(e) \in Nat /\ place(f) \in Nat
      BY <1>1
    <2> HIDE DEF before
    <2>4. place(e) <= place(f) /\ place(e) # place(f)
      BY <2>1, <2>2, <2>3, FS_Subset
    <2> QED BY <2>3, <2>4
  <1>3. \A e, f \in es : place(e) = place(f) => e = f
    <2> SUFFICES ASSUME NEW e \in es, NEW f \in es, e # f PROVE place(e) # place(f)
      OBVIOUS
    <2>1. Precedes(e, f) \/ Precedes(f, e)
      BY PrecedesIsTotal
    <2>2. place(e) < place(f) \/ place(f) < place(e)
      BY <1>2, <2>1
    <2>3. place(e) \in Nat /\ place(f) \in Nat
      BY <1>1
    <2> QED BY <2>2, <2>3
  <1>4. \A j \in 1..n : \E e \in es : place(e) = j
    <2> DEFINE p == [e \in es |-> place(e)]
    <2>1. \A e \in es : place(e) \in 1..n
      BY <1>0, <1>1
    <2> HIDE DEF place, n
    <2>2. p \in [es -> 1..n] /\ \A e, f \in es : p[e] = p[f] => e = f
      BY <1>3, <2>1
    <2>3. \A e \in es : p[e] = place(e)
      OBVIOUS
    <2> HIDE DEF p
    <2>4. p \in Injection(es, 1..n)
      BY <2>2, Fun_IsInj
    <2>5. n \in Nat
      BY <1>0 DEF n
    <2>6. IsFiniteSet(1..n) /\ Cardinality(1..n) = n
      BY <2>5, CountTo
    <2>7. p \in Surjection(es, 1..n)
      BY <2>4, <2>6, FS_Injection DEF n
    <2>8. \A j \in 1..n : \E e \in es : p[e] = j
      BY <2>7 DEF Surjection
    <2> QED BY <2>3, <2>8
  <1>5. s = [j \in 1..n |-> CHOOSE e \in es : place(e) = j]
    BY DEF OldestFirst
  <1>6. \A j \in 1..n : s[j] \in es /\ place(s[j]) = j
    <2> HIDE DEF place, n, s
    <2> QED BY <1>4, <1>5
  <1>7. s \in [1..n -> es]
    <2> HIDE DEF place, n, s
    <2> QED BY <1>5, <1>6
  <1>8. \A e \in es : \E j \in 1..n : s[j] = e
    <2> SUFFICES ASSUME NEW e \in es PROVE \E j \in 1..n : s[j] = e
      OBVIOUS
    <2>1. place(e) \in 1..n
      BY <1>0, <1>1
    <2> HIDE DEF place, n, s
    <2>2. s[place(e)] = e
      BY <1>3, <1>6, <2>1
    <2> QED BY <2>1, <2>2
  <1>9. ASSUME NEW i \in 1..n, NEW j \in 1..n, i < j PROVE Precedes(s[i], s[j])
    <2>1. s[i] \in es /\ s[j] \in es /\ place(s[i]) = i /\ place(s[j]) = j
      BY <1>6
    <2> HIDE DEF place, n, s
    <2>2. i \in Nat /\ j \in Nat
      BY <1>0
    <2>3. s[i] # s[j] /\ ~Precedes(s[j], s[i])
      BY <1>2, <1>9, <2>1, <2>2
    <2> QED BY <2>1, <2>3, PrecedesIsTotal
  <1> QED BY <1>0, <1>7, <1>8, <1>9

-----------------------------------------------------------------------------
(* A run of the sorted entries, and what is reached.                        *)

\* What is kept of a journey in JourneyIsMaximal: what is found and reached from
\* the start, in the order of time.
Complete(found, k, chain) ==
    LET es == Entries(found)
    IN (\A e, f \in es : e.key = f.key => e = f)
       => /\ ToSet(chain) = IF k \in {e.key : e \in es} THEN Reached(found, k) ELSE {}
          /\ \A j \in 1..(Len(chain) - 1) : TimeOf[chain[j].key] < TimeOf[chain[j + 1].key]

\* A set of numbers that has a member has a least one.
LEMMA Least ==
    ASSUME NEW T \in SUBSET Nat, T # {}
    PROVE  \E n \in T : \A m \in T : n <= m
  <1>1. OpToRel(<, Nat) = {s \in Nat \X Nat : s[1] < s[2]}
    BY DEF OpToRel
  <1>2. \E x \in T : \A y \in T : ~(<<y, x>> \in OpToRel(<, Nat))
    BY NatLessThanWellFounded, WFMin
  <1>3. \E x \in T : \A y \in T : <<y, x>> \notin {s \in Nat \X Nat : s[1] < s[2]}
    BY <1>1, <1>2, Zenon
  <1>4. PICK x \in T : \A y \in T : <<y, x>> \notin {s \in Nat \X Nat : s[1] < s[2]}
    BY <1>3
  <1>5. ASSUME NEW y \in T PROVE x <= y
    <2>1. <<y, x>> \in Nat \X Nat
      OBVIOUS
    <2>2. ~(<<y, x>>[1] < <<y, x>>[2])
      BY <2>1, <1>4
    <2> QED BY <2>1, <2>2
  <1> QED BY <1>5

\* A set of numbers up to n has a least and a greatest one.
LEMMA MinMax ==
    ASSUME NEW n \in Nat, NEW S \in SUBSET (0..n), S # {}
    PROVE  /\ Min(S) \in S
           /\ Max(S) \in S /\ \A x \in S : x <= Max(S)
  <1>1. S \in SUBSET Nat /\ \A x \in S : x \in Nat /\ n - x \in Nat
    OBVIOUS
  <1>2. \E m \in S : \A x \in S : m <= x
    BY <1>1, Least
  <1>3. \E m \in S : \A x \in S : m >= x
    <2> DEFINE T == {n - x : x \in S}
    <2>1. T \in SUBSET Nat
      BY <1>1
    <2>0. \A x \in S : n - x \in T
      OBVIOUS
    <2>2. T # {}
      BY <2>0
    <2>3. \E t \in T : \A y \in T : t <= y
      <3> HIDE DEF T
      <3> QED BY <2>1, <2>2, Least
    <2>4. PICK t \in T : \A y \in T : t <= y
      BY <2>3
    <2>5. PICK m \in S : t = n - m
      OBVIOUS
    <2>6. ASSUME NEW x \in S PROVE m >= x
      <3>1. n - m <= n - x
        <4> HIDE DEF T
        <4> QED BY <2>0, <2>4, <2>5
      <3>2. m \in Nat /\ x \in Nat
        OBVIOUS
      <3> QED BY <3>1, <3>2
    <2> QED BY <2>6
  <1>4. Min(S) \in S
    BY <1>2 DEF Min
  <1>5. Max(S) \in S /\ \A x \in S : Max(S) >= x
    BY <1>3 DEF Max
  <1> QED BY <1>1, <1>4, <1>5

\* The numbers from a up to, but not, c.
LEMMA UpTo == \A a, b, c \in Nat : b \in a..(c - 1) <=> a <= b /\ b < c
  OBVIOUS

\* An entry is reached from an instant by way of the others: Reached of one.
ReachedFrom(es, t, e) ==
    /\ TimeOf[e.key] >= t
    /\ \A f \in es : TimeOf[f.key] \in t..(TimeOf[e.key] - 1) =>
          \E g \in es : TimeOf[g.key] \in (TimeOf[f.key] + 1)..(TimeOf[f.key] + Gap)

\* The entries es in the order of time, and a run of them, from one that follows
\* the other to the next, that goes as far as it can.
IsRun(es, n, s, p, q) ==
    /\ es \subseteq [dir : Dirs, key : Keys]
    /\ n \in Nat /\ s \in [1..n -> es]
    /\ \A e \in es : \E j \in 1..n : s[j] = e
    /\ \A i, j \in 1..n : i < j => TimeOf[s[i].key] < TimeOf[s[j].key]
    /\ p \in 1..n /\ q \in p..n
    /\ \A i \in p..(q - 1) : Follows(s[i].key, s[i + 1].key)
    /\ q < n => ~Follows(s[q].key, s[q + 1].key)

\* A run holds exactly what is reached from its start.
LEMMA RunIsReached ==
    ASSUME NEW es, NEW n, NEW s, NEW p, NEW q, IsRun(es, n, s, p, q)
    PROVE  \A e \in es : (\E j \in p..q : s[j] = e) <=> ReachedFrom(es, TimeOf[s[p].key], e)
  <1> DEFINE T(e) == TimeOf[e.key]
             Near(e, f) == T(e) < T(f) /\ T(f) <= T(e) + Gap
             Linked(f) == \E g \in es : T(g) \in (T(f) + 1)..(T(f) + Gap)
  <1>1. /\ \A e \in es : T(e) \in Nat
        /\ \A i \in 1..n : s[i] \in es /\ T(s[i]) \in Nat
        /\ \A i, j \in 1..n : i < j => T(s[i]) < T(s[j])
    <2>1. \A e \in es : T(e) \in Nat
      BY DEF IsRun
    <2>2. \A i \in 1..n : s[i] \in es
      BY DEF IsRun
    <2>3. \A i, j \in 1..n : i < j => T(s[i]) < T(s[j])
      BY DEF IsRun
    <2> QED BY <2>1, <2>2, <2>3
  <1>2. n \in Nat /\ p \in 1..n /\ q \in 1..n /\ p <= q /\ Gap \in Nat
    BY DEF IsRun
  <1>0. \A e \in es : \E j \in 1..n : s[j] = e
    BY DEF IsRun
  <1>3. \A e, f \in es : /\ T(f) \in (T(e) + 1)..(T(e) + Gap) <=> Near(e, f)
                         /\ Follows(e.key, f.key) <=> Near(e, f)
    <2>1. ASSUME NEW a \in Nat, NEW b \in Nat
          PROVE  /\ b \in (a + 1)..(a + Gap) <=> a < b /\ b <= a + Gap
                 /\ b - a \in 1..Gap <=> a < b /\ b <= a + Gap
      BY <1>2
    <2> SUFFICES ASSUME NEW e \in es, NEW f \in es
                 PROVE  /\ T(f) \in (T(e) + 1)..(T(e) + Gap) <=> Near(e, f)
                        /\ Follows(e.key, f.key) <=> Near(e, f)
      OBVIOUS
    <2>2. T(e) \in Nat /\ T(f) \in Nat
      BY <1>1
    <2>3. Follows(e.key, f.key) <=> T(f) - T(e) \in 1..Gap
      BY DEF Follows
    <2> HIDE DEF T
    <2> QED BY <2>1, <2>2, <2>3
  <1>4. \A f \in es : Linked(f) <=> \E g \in es : Near(f, g)
    BY <1>3
  <1>5. /\ \A i \in p..(q - 1) : Near(s[i], s[i + 1])
        /\ q < n => ~Near(s[q], s[q + 1])
    <2>1. \A i \in p..(q - 1) : i \in 1..n /\ i + 1 \in 1..n
      BY <1>2
    <2>2. q < n => q \in 1..n /\ q + 1 \in 1..n
      BY <1>2
    <2>3. /\ \A i \in p..(q - 1) : Follows(s[i].key, s[i + 1].key)
          /\ q < n => ~Follows(s[q].key, s[q + 1].key)
      BY DEF IsRun
    <2> HIDE DEF Near, T
    <2> QED BY <1>1, <1>3, <2>1, <2>2, <2>3
  <1> DEFINE Between(e, f) == T(f) \in T(s[p])..(T(e) - 1)
  <1>6. \A e, f \in es : Between(e, f) <=> T(s[p]) <= T(f) /\ T(f) < T(e)
    <2>1. \A a, b, c \in Nat : b \in a..(c - 1) <=> a <= b /\ b < c
      BY UpTo
    <2>2. T(s[p]) \in Nat /\ \A e \in es : T(e) \in Nat
      BY <1>1, <1>2
    <2> HIDE DEF T
    <2> QED BY <2>1, <2>2
  <1> HIDE DEF T
  <1>7. \A i, j \in 1..n : T(s[i]) < T(s[j]) => i < j
    <2> SUFFICES ASSUME NEW i \in 1..n, NEW j \in 1..n, T(s[i]) < T(s[j])
                 PROVE  i < j
      OBVIOUS
    <2>1. T(s[i]) \in Nat /\ T(s[j]) \in Nat /\ i \in Nat /\ j \in Nat
      BY <1>1
    <2>2. i # j
      BY <2>1
    <2>3. ~(j < i)
      <3> SUFFICES ASSUME j < i PROVE FALSE
        OBVIOUS
      <3>1. T(s[j]) < T(s[i])
        BY <1>1
      <3> QED BY <2>1, <3>1
    <2> QED BY <2>1, <2>2, <2>3
  <1>8. \A i, j \in 1..n : i <= j => T(s[i]) <= T(s[j])
    <2> SUFFICES ASSUME NEW i \in 1..n, NEW j \in 1..n, i <= j
                 PROVE  T(s[i]) <= T(s[j])
      OBVIOUS
    <2>1. T(s[i]) \in Nat /\ T(s[j]) \in Nat
      BY <1>1
    <2>2. CASE i = j
      BY <2>1, <2>2
    <2>3. CASE i < j
      <3>1. T(s[i]) < T(s[j])
        BY <1>1, <2>3
      <3> QED BY <2>1, <3>1
    <2> QED BY <2>2, <2>3
  <1> HIDE DEF Between, Linked
  <1>9. ASSUME NEW j \in p..q
        PROVE  /\ s[j] \in es /\ T(s[j]) >= T(s[p])
               /\ \A f \in es : Between(s[j], f) => Linked(f)
    <2>1. j \in 1..n /\ p <= j /\ j <= q
      BY <1>2
    <2>2. s[j] \in es /\ T(s[p]) <= T(s[j]) /\ T(s[j]) \in Nat /\ T(s[p]) \in Nat
      BY <1>1, <1>2, <1>8, <2>1
    <2>3. ASSUME NEW f \in es, Between(s[j], f) PROVE Linked(f)
      <3>1. PICK i \in 1..n : s[i] = f
        BY <1>0
      <3>2. T(s[p]) <= T(f) /\ T(f) < T(s[j])
        BY <1>6, <2>2, <2>3
      <3>3. i < j
        BY <1>7, <2>1, <3>1, <3>2
      <3>4. p <= i
        <4> SUFFICES ASSUME i < p PROVE FALSE
          BY <1>2
        <4>1. T(s[i]) < T(s[p])
          BY <1>1, <1>2
        <4>2. T(f) \in Nat
          BY <1>1
        <4> QED BY <2>2, <3>1, <3>2, <4>1, <4>2
      <3>5. i \in p..(q - 1) /\ i + 1 \in 1..n
        BY <1>2, <2>1, <3>3, <3>4
      <3>6. Near(f, s[i + 1]) /\ s[i + 1] \in es
        BY <1>1, <1>5, <3>1, <3>5
      <3> HIDE DEF Near
      <3> QED BY <1>4, <3>6
    <2>4. T(s[j]) >= T(s[p])
      BY <2>2
    <2> QED BY <2>2, <2>3, <2>4
  <1>10. ASSUME NEW e \in es, T(e) >= T(s[p]),
                \A f \in es : Between(e, f) => Linked(f)
         PROVE  \E j \in p..q : s[j] = e
    <2>1. PICK j \in 1..n : s[j] = e
      BY <1>0
    <2>2. T(e) \in Nat /\ T(s[p]) \in Nat /\ T(s[q]) \in Nat /\ s[q] \in es
      BY <1>1, <1>2
    <2>3. ~(j < p)
      <3> SUFFICES ASSUME j < p PROVE FALSE
        OBVIOUS
      <3>1. T(e) < T(s[p])
        BY <1>1, <1>2, <2>1
      <3> QED BY <1>10, <2>2, <3>1
    <2>4. CASE j <= q
      BY <1>2, <2>1, <2>3, <2>4
    <2>5. CASE q < j
      <3>1. T(s[q]) < T(e)
        BY <1>1, <1>2, <2>1, <2>5
      <3>2. T(s[p]) <= T(s[q])
        BY <1>2, <1>8
      <3>3. Between(e, s[q])
        BY <1>6, <2>2, <3>1, <3>2
      <3>4. PICK g \in es : Near(s[q], g)
        BY <1>4, <1>10, <2>2, <3>3
      <3>5. PICK m \in 1..n : s[m] = g
        BY <1>0
      <3>6. q < m
        BY <1>2, <1>7, <3>4, <3>5
      <3>7. q + 1 \in 1..n /\ q + 1 <= m /\ q < n
        BY <1>2, <3>6
      <3>8. T(s[q + 1]) <= T(g) /\ T(s[q]) < T(s[q + 1])
        <4>1. T(s[q + 1]) <= T(s[m])
          BY <1>8, <3>7
        <4>2. q < q + 1
          BY <1>2
        <4> QED BY <1>1, <1>2, <3>5, <3>7, <4>1, <4>2
      <3>9. T(s[q + 1]) \in Nat /\ T(g) \in Nat
        BY <1>1, <3>7
      <3>10. T(s[q + 1]) <= T(s[q]) + Gap
        BY <1>2, <2>2, <3>4, <3>8, <3>9
      <3> QED BY <1>5, <3>7, <3>8, <3>10
    <2>6. j \in Nat /\ q \in Nat
      BY <1>2
    <2> QED BY <2>4, <2>5, <2>6
  <1>11. \A e \in es : ReachedFrom(es, T(s[p]), e) <=>
            /\ T(e) >= T(s[p])
            /\ \A f \in es : Between(e, f) => Linked(f)
    BY DEF ReachedFrom, T, Between, Linked
  <1>12. \A e \in es : (\E j \in p..q : s[j] = e) <=> ReachedFrom(es, T(s[p]), e)
    <2> HIDE DEF Between, Linked
    <2> QED BY <1>9, <1>10, <1>11
  <1> QED BY <1>12 DEF T

\* JourneyChain answers with a journey that is complete: of all that is found.
LEMMA JourneyComplete ==
    ASSUME NEW found, found \subseteq Dirs \X Names, NEW k \in Keys
    PROVE  Complete(found, k, JourneyChain(found, k))
  <1> DEFINE all == Entries(found)
             es == {e \in all : TypeOf[e.key] = TypeOf[k]}
             s == OldestFirst(es)
             n == Cardinality(es)
             starts == {i \in DOMAIN s : s[i].key = k}
             runs(p) == {q \in p..Len(s) :
                            \A i \in p..(q - 1) : Follows(s[i].key, s[i + 1].key)}
             chain == JourneyChain(found, k)
  <1> SUFFICES ASSUME \A e, f \in all : e.key = f.key => e = f
               PROVE  /\ ToSet(chain) = IF k \in {e.key : e \in all}
                                        THEN Reached(found, k) ELSE {}
                      /\ \A j \in 1..(Len(chain) - 1) :
                            TimeOf[chain[j].key] < TimeOf[chain[j + 1].key]
    BY DEF Complete
  <1>1. chain = IF starts = {} THEN <<>> ELSE SubSeq(s, Min(starts), Max(runs(Min(starts))))
    BY DEF JourneyChain
  <1>2. all \subseteq [dir : Dirs, key : Keys] /\ IsFiniteSet(all)
    BY EntriesType
  <1>3. es \subseteq [dir : Dirs, key : Keys] /\ IsFiniteSet(es)
    BY <1>2, FS_Subset
  <1> HIDE DEF all, s, n
  <1>4. \A e, f \in es : TypeOf[e.key] = TypeOf[f.key]
    OBVIOUS
  <1> HIDE DEF es
  <1>5. /\ s \in [1..n -> es] /\ n \in Nat
        /\ \A e \in es : \E j \in 1..n : s[j] = e
        /\ \A i, j \in 1..n : i < j => Precedes(s[i], s[j])
    BY <1>3, <1>4, OldestFirstSorts DEF s, n
  <1>6. s \in Seq(es) /\ Len(s) = n /\ DOMAIN s = 1..n
    BY <1>5
  <1>7. \A i, j \in 1..n : i < j => TimeOf[s[i].key] < TimeOf[s[j].key]
    <2> SUFFICES ASSUME NEW i \in 1..n, NEW j \in 1..n, i < j
                 PROVE  TimeOf[s[i].key] < TimeOf[s[j].key]
      OBVIOUS
    <2>1. Precedes(s[i], s[j]) /\ s[i] \in es /\ s[j] \in es
      BY <1>5
    <2>2. CASE TimeOf[s[i].key] = TimeOf[s[j].key]
      <3>1. s[i].key \in Keys /\ s[j].key \in Keys /\ TypeOf[s[i].key] = TypeOf[s[j].key]
        BY <1>3, <1>4, <2>1
      <3>2. s[i].key = s[j].key
        BY <2>2, <3>1, LibraryAssumption
      <3>3. s[i] = s[j]
        BY <2>1, <3>2 DEF es
      <3>4. ~Precedes(s[i], s[i])
        BY <1>3, <2>1, PrecedesIsTotal
      <3> QED BY <2>1, <3>3, <3>4
    <2> QED BY <2>1, <2>2 DEF Precedes
  <1>8. CASE starts = {}
    <2>1. k \notin {e.key : e \in all}
      <3> SUFFICES ASSUME NEW e \in all, e.key = k PROVE FALSE
        OBVIOUS
      <3>1. e \in es
        BY DEF es
      <3>2. PICK j \in 1..n : s[j] = e
        BY <1>5, <3>1
      <3> QED BY <1>6, <1>8, <3>2
    <2>2. chain = <<>>
      BY <1>1, <1>8
    <2> HIDE DEF chain
    <2> QED BY <2>1, <2>2 DEF ToSet
  <1>9. CASE starts # {}
    <2> DEFINE p == Min(starts)
               q == Max(runs(p))
    <2>1. p \in 1..n /\ s[p].key = k
      <3>1. starts \in SUBSET (0..n)
        BY <1>5, <1>6
      <3>2. p \in starts
        <4> HIDE DEF starts
        <4> QED BY <1>5, <1>9, <3>1, MinMax
      <3> QED BY <1>6, <3>2
    <2> HIDE DEF p, starts
    <2>2. q \in runs(p) /\ \A x \in runs(p) : x <= q
      <3>1. runs(p) \in SUBSET (0..n) /\ p \in runs(p)
        BY <1>5, <1>6, <2>1
      <3> HIDE DEF runs
      <3> QED BY <1>5, <3>1, MinMax
    <2> HIDE DEF q
    <2>3. /\ q \in p..n /\ \A i \in p..(q - 1) : Follows(s[i].key, s[i + 1].key)
      BY <1>6, <2>2
    <2>4. q < n => ~Follows(s[q].key, s[q + 1].key)
      <3> SUFFICES ASSUME q < n, Follows(s[q].key, s[q + 1].key) PROVE FALSE
        OBVIOUS
      <3>1. q + 1 \in p..Len(s) /\ q \in Nat
        BY <1>5, <1>6, <2>1, <2>3
      <3>2. \A i \in p..q : i \in p..(q - 1) \/ i = q
        BY <1>5, <2>1, <2>3
      <3>3. q + 1 - 1 = q
        BY <3>1
      <3>4. q + 1 \in runs(p)
        BY <2>3, <3>1, <3>2, <3>3
      <3>5. q + 1 <= q
        BY <2>2, <3>4
      <3> QED BY <3>1, <3>5
    <2> HIDE DEF runs
    <2>5. chain = SubSeq(s, p, q)
      BY <1>1, <1>9 DEF p, q
    <2> HIDE DEF chain
    <2>6. /\ DOMAIN chain = 1..(q - p + 1) /\ Len(chain) = q - p + 1
          /\ \A j \in 1..(q - p + 1) : chain[j] = s[p + j - 1]
      BY <1>5, <1>6, <2>1, <2>3, <2>5
    <2>7. \A e \in es : e \in ToSet(chain) <=> \E j \in p..q : s[j] = e
      <3>1. \A j \in 1..(q - p + 1) : p + j - 1 \in p..q
        BY <2>1, <2>3
      <3>2. \A j \in p..q : /\ j - p + 1 \in 1..(q - p + 1)
                             /\ p + (j - p + 1) - 1 = j
        BY <2>1, <2>3
      <3>3. \A j \in p..q : s[j] = chain[j - p + 1]
        BY <2>6, <3>2
      <3>4. \A e : e \in ToSet(chain) <=> \E i \in 1..(q - p + 1) : chain[i] = e
        BY <2>6 DEF ToSet
      <3>5. ASSUME NEW i \in 1..(q - p + 1) PROVE \E j \in p..q : s[j] = chain[i]
        BY <2>6, <3>1
      <3>6. ASSUME NEW j \in p..q PROVE \E i \in 1..(q - p + 1) : chain[i] = s[j]
        BY <3>2, <3>3
      <3> QED BY <3>4, <3>5, <3>6
    <2>8. ToSet(chain) \subseteq es
      <3>1. \A j \in 1..(q - p + 1) : p + j - 1 \in 1..n
        BY <1>5, <2>1, <2>3
      <3> QED BY <1>5, <2>6, <3>1 DEF ToSet
    <2>9. \A e \in es : e \in ToSet(chain) <=> ReachedFrom(es, TimeOf[k], e)
      <3>1. IsRun(es, n, s, p, q)
        BY <1>3, <1>5, <1>7, <2>1, <2>3, <2>4 DEF IsRun
      <3>2. \A e \in es : (\E j \in p..q : s[j] = e) <=>
                           ReachedFrom(es, TimeOf[s[p].key], e)
        BY <3>1, RunIsReached
      <3> QED BY <2>1, <2>7, <3>2
    <2>10. Reached(found, k) = {e \in es : ReachedFrom(es, TimeOf[k], e)}
      BY DEF Reached, ReachedFrom, es, all
    <2>11. ToSet(chain) = Reached(found, k)
      <3> SUFFICES ToSet(chain) = {e \in es : ReachedFrom(es, TimeOf[k], e)}
        BY <2>10
      <3> QED BY <2>8, <2>9
    <2>12. k \in {e.key : e \in all}
      <3>1. s[p] \in es
        BY <1>5, <2>1
      <3>2. s[p] \in all
        BY <3>1 DEF es
      <3> QED BY <2>1, <3>2
    <2>13. \A j \in 1..(Len(chain) - 1) : TimeOf[chain[j].key] < TimeOf[chain[j + 1].key]
      <3> SUFFICES ASSUME NEW j \in 1..(Len(chain) - 1)
                   PROVE  TimeOf[chain[j].key] < TimeOf[chain[j + 1].key]
        OBVIOUS
      <3>1. p \in Nat /\ q \in Nat /\ n \in Nat /\ 1 <= p /\ q <= n
        BY <1>5, <2>1, <2>3
      <3>2. j \in Nat /\ 1 <= j /\ j + 1 <= q - p + 1
        BY <2>6, <3>1
      <3>3. j \in 1..(q - p + 1) /\ j + 1 \in 1..(q - p + 1)
        BY <3>1, <3>2
      <3>4. chain[j] = s[p + j - 1] /\ chain[j + 1] = s[p + (j + 1) - 1]
        BY <2>6, <3>3
      <3>5. /\ p + j - 1 \in 1..n /\ p + (j + 1) - 1 \in 1..n
            /\ p + j - 1 < p + (j + 1) - 1
        BY <3>1, <3>2
      <3> QED BY <1>7, <3>4, <3>5
    <2> QED BY <2>11, <2>12, <2>13
  <1> QED BY <1>8, <1>9

-----------------------------------------------------------------------------
(* A journey is told complete.                                              *)

\* JourneyIsMaximal of one request, and the instant it asked for.
Told(r) ==
    /\ req[r].pc # "idle" => req[r].key \in Keys
    /\ req[r].pc = "done" /\ req[r].kind = "chain" =>
          Complete(req[r].found, req[r].key, req[r].chain)

\* Every request that a step leaves alone keeps its answer.
LEMMA ToldStays ==
    ASSUME NEW r \in Requests, Told(r), req'[r] = req[r]
    PROVE  Told(r)'
  BY DEF Told

\* An answer: what is told is what the chain was made of.
LEMMA AnswerTells ==
    ASSUME Inv, NEW r \in Requests, NEW status, NEW chain, Answer(r, status, chain),
           req[r].pc = "found", Told(r),
           req[r].kind = "chain" => Complete(req[r].found, req[r].key, chain)
    PROVE  Told(r)' /\ \A q \in Requests \ {r} : req'[q] = req[q]
  <1>1. DOMAIN req = Requests /\ DOMAIN req[r] = DOMAIN Fresh
    BY DEF Inv, TypeOK
  <1>2. req' = [req EXCEPT ![r].pc = "done", ![r].status = status, ![r].chain = chain]
    BY DEF Answer
  <1>3. req'[r] = [req[r] EXCEPT !.pc = "done", !.status = status, !.chain = chain]
    BY <1>1, <1>2
  <1>4. \A q \in Requests \ {r} : req'[q] = req[q]
    BY <1>1, <1>2
  <1>5. /\ req'[r].pc = "done" /\ req'[r].chain = chain /\ req'[r].found = req[r].found
        /\ req'[r].kind = req[r].kind /\ req'[r].key = req[r].key
    BY <1>1, <1>3 DEF Fresh
  <1>6. req[r].key \in Keys
    BY DEF Told
  <1> QED BY <1>4, <1>5, <1>6 DEF Told

\* The answers to a request: a journey is complete, for what is found lies in
\* the library.
LEMMA ServeTells ==
    ASSUME Inv, EverFits, NEW r \in Requests, Serve(r), \A q \in Requests : Told(q),
           NEW q \in Requests
    PROVE  Told(q)'
  <1>0. DOMAIN req = Requests /\ DOMAIN req[r] = DOMAIN Fresh /\ Told(r)
    BY DEF Inv, TypeOK
  <1>1. CASE NotFound(r)
    <2>1. req[r].pc = "found" /\ req[r].kind # "chain" /\ Answer(r, "404", <<>>)
      BY <1>1 DEF NotFound
    <2> QED BY <1>0, <2>1, AnswerTells, ToldStays
  <1>2. CASE ReadGps(r)
    <2>1. req[r].pc = "found" /\ req[r].kind # "chain" /\ \E status : Answer(r, status, <<>>)
      BY <1>2 DEF ReadGps
    <2> QED BY <1>0, <2>1, AnswerTells, ToldStays
  <1>3. CASE LookUpChain(r)
    <2>1. /\ req' = [req EXCEPT ![r].pc = "lookup", ![r].kind = "chain", ![r].index = live]
          /\ req[r].pc = "found"
      BY <1>3 DEF LookUpChain
    <2>2. /\ req'[r].pc = "lookup" /\ req'[r].key = req[r].key
          /\ \A p \in Requests \ {r} : req'[p] = req[p]
      BY <1>0, <2>1 DEF Fresh
    <2>3. Told(r)'
      BY <1>0, <2>1, <2>2 DEF Told
    <2> QED BY <2>2, <2>3, ToldStays
  <1>4. CASE AnswerChain(r)
    <2>1. /\ req[r].pc = "found" /\ req[r].kind = "chain"
          /\ Answer(r, "200", JourneyChain(req[r].found, req[r].key))
      BY <1>4 DEF AnswerChain
    <2>2. req[r].found \subseteq Dirs \X Names
      BY <2>1 DEF Inv, FoundIsCurrent, EverFits
    <2>3. req[r].key \in Keys
      BY <1>0, <2>1 DEF Told
    <2>4. Complete(req[r].found, req[r].key, JourneyChain(req[r].found, req[r].key))
      BY <2>2, <2>3, JourneyComplete
    <2> QED BY <1>0, <2>1, <2>4, AnswerTells, ToldStays
  <1> QED BY <1>1, <1>2, <1>3, <1>4 DEF Serve

\* A lookup tells nothing yet.
LEMMA RefreshTells ==
    ASSUME Inv, NEW r \in Requests, Refresh(r), \A q \in Requests : Told(q),
           NEW q \in Requests
    PROVE  Told(q)'
  <1>0. DOMAIN req = Requests /\ DOMAIN req[r] = DOMAIN Fresh /\ Told(r)
    BY DEF Inv, TypeOK
  <1>1. CASE Acquire(r)
    <2>1. req' = [req EXCEPT ![r].pc = "walk"] /\ req[r].pc = "lookup"
      BY <1>1 DEF Acquire
    <2>2. /\ req'[r].pc = "walk" /\ req'[r].key = req[r].key
          /\ \A p \in Requests \ {r} : req'[p] = req[p]
      BY <1>0, <2>1 DEF Fresh
    <2>3. Told(r)'
      BY <1>0, <2>1, <2>2 DEF Told
    <2> QED BY <2>2, <2>3, ToldStays
  <1>2. CASE StatDir(r) \/ ScanDir(r)
    <2>1. req' = req
      BY <1>2 DEF StatDir, ScanDir
    <2> QED BY <2>1, ToldStays
  <1>3. CASE Merge(r)
    <2>1. req[r].pc = "walk" /\ \E f : req' = [req EXCEPT ![r].pc = "found", ![r].found = f]
      BY <1>3 DEF Merge
    <2>2. PICK f : req' = [req EXCEPT ![r].pc = "found", ![r].found = f]
      BY <2>1
    <2>3. /\ req'[r].pc = "found" /\ req'[r].key = req[r].key
          /\ \A p \in Requests \ {r} : req'[p] = req[p]
      BY <1>0, <2>2 DEF Fresh
    <2>4. Told(r)'
      BY <1>0, <2>1, <2>3 DEF Told
    <2> QED BY <2>3, <2>4, ToldStays
  <1> QED BY <1>1, <1>2, <1>3 DEF Refresh

\* A question is about an instant.
LEMMA AskTells ==
    ASSUME Inv, NEW r \in Requests, NEW k \in Keys, NEW kind \in {"gps", "journey"},
           Ask(r, kind, k), \A q \in Requests : Told(q), NEW q \in Requests
    PROVE  Told(q)'
  <1>1. DOMAIN req = Requests
    BY DEF Inv, TypeOK
  <1>2. req' = [req EXCEPT ![r] = [Fresh EXCEPT !.pc = "lookup", !.kind = kind,
                                               !.index = live, !.key = k]]
    BY DEF Ask, Lookup
  <1>3. /\ req'[r].pc = "lookup" /\ req'[r].key = k
        /\ \A p \in Requests \ {r} : req'[p] = req[p]
    BY <1>1, <1>2 DEF Fresh
  <1>4. Told(r)'
    BY <1>3 DEF Told
  <1> QED BY <1>3, <1>4, ToldStays

\* Every step keeps every journey that was told complete.
LEMMA NextTells ==
    (\A r \in Requests : Told(r)) /\ Inv /\ EverFits /\ [Next]_vars
        => (\A r \in Requests : Told(r))'
  <1> SUFFICES ASSUME \A r \in Requests : Told(r), Inv, EverFits, [Next]_vars,
                      NEW q \in Requests
               PROVE  Told(q)'
    OBVIOUS
  <1>1. CASE UNCHANGED req
    BY <1>1, ToldStays
  <1>2. CASE Tick \/ ChangeSettings \/ Change \/ UNCHANGED vars
    BY <1>1, <1>2 DEF Tick, ChangeSettings, Change, vars
  <1>3. ASSUME NEW r \in Requests, Serve(r) PROVE Told(q)'
    BY <1>3, ServeTells
  <1>4. ASSUME NEW r \in Requests, Refresh(r) PROVE Told(q)'
    BY <1>4, RefreshTells
  <1>5. ASSUME NEW r \in Requests, NEW k \in Keys, NEW kind \in {"gps", "journey"},
               Ask(r, kind, k)
        PROVE  Told(q)'
    BY <1>5, AskTells
  <1> QED BY <1>2, <1>3, <1>4, <1>5, DiskChanges DEF Next

\* A journey is every recording that is reached from its start in steps of at
\* most the gap, each once and in the order of time, of those that one refresh
\* found, whatever changes the library meanwhile (journey_chain, api_viewer.py).
THEOREM JourneyIsMaximalHolds == Spec => []JourneyIsMaximal
  <1>1. Init => \A r \in Requests : Told(r)
    BY DEF Init, Told, Fresh
  <1>2. Init => EverFits
    BY DEF Init, EverFits
  <1>3. Inv => TypeOK
    BY DEF Inv
  <1>4. Spec => []EverFits
    BY <1>2, <1>3, InvHolds, NextFits, PTL DEF Spec
  <1>5. Spec => [](\A r \in Requests : Told(r))
    BY <1>1, <1>4, InvHolds, NextTells, PTL DEF Spec
  <1>6. (\A r \in Requests : Told(r)) => JourneyIsMaximal
    BY DEF Told, Complete, JourneyIsMaximal
  <1> QED BY <1>5, <1>6, PTL

=============================================================================
