-------------------------- MODULE SyncService_proofs --------------------------
(***************************************************************************)
(* Proofs about SyncService, for any number of requests, stops, command     *)
(* lines, jobs and ends of the server.                                      *)
(*                                                                         *)
(* The argument: Inv is inductive.  _sync_lock has one holder, the caller   *)
(* that took it and then the thread that caller started (LockInv), which is *)
(* why one thread at most is alive; jobs are numbered by holders (JobInv);  *)
(* the lock file is held by whoever works on the destination (FileInv); a   *)
(* job nobody has begun can be neither shown nor stopped (UnbegunInv); and  *)
(* the verdict on a job is published once, because its own thread is the    *)
(* only one that publishes while it lives (ResultInv).  With what StoryInv   *)
(* adds, that what is shown as running does run, every step is one that     *)
(* JobBoard allows.                                                         *)
(***************************************************************************)
EXTENDS SyncService, TLAPS

-----------------------------------------------------------------------------
(* The inductive invariant behind the safety properties.                    *)

Holding(c) == caller[c].pc \in {"clear", "name", "spawn"}
Unbegun(j) == thread[j] \in {"none", "configure", "lock", "begin"}
Verdict(j) == IF result[j] = "ok" THEN "complete" ELSE "failed"
Verdicts(j) == shown[j] \cap {"complete", "failed"}

\* The lock has one holder: the caller that took it, then the thread it starts.
LockInv ==
    /\ \A c \in Callers : Holding(c) =>
          /\ locked
          /\ \A d \in Callers : Holding(d) => d = c
          /\ \A j \in Jobs : ~Alive(j)
    /\ \A j \in Jobs : Alive(j) => locked /\ \A k \in Jobs : Alive(k) => k = j

\* A job is created by the one holder, and its thread is a new one.
JobInv ==
    /\ \A c \in Callers :
          /\ caller[c].pc \in {"clear", "name"} => created < MaxJobs
          /\ caller[c].pc = "spawn" =>
                caller[c].job \in 1..created /\ thread[caller[c].job] = "none"
    /\ \A j \in Jobs : j > created => thread[j] = "none"

FileInv ==
    /\ Syncing # {} => fileLock = Server
    /\ \A o \in Outside : fileLock = o

\* What has not begun is not known: it is not shown and cannot be stopped.
UnbegunInv ==
    \A j \in Jobs : Unbegun(j) =>
        /\ shown[j] = {}
        /\ pub.job # j
        /\ j \notin asked /\ \A s \in Stoppers : stopper[s] # j

\* How the end of a job comes to be shown, once.
ResultInv ==
    CleaningIsQuick => \A j \in Jobs :
        /\ thread[j] \in {"download", "end", "lateBegin", "lateEnd"} =>
              Verdicts(j) = {}
        /\ thread[j] \in {"lateBegin", "lateEnd"} => result[j] = "failed"
        /\ thread[j] \in {"clean", "unlock"} => pub.job = j
        /\ thread[j] \in {"clean", "unlock", "surface"} /\ pub.job = j =>
              timer[j] = "armed" /\ Verdicts(j) = {Verdict(j)}
        /\ thread[j] = "surface" /\ pub.job # j =>
              Verdicts(j) = {} /\ result[j] = "failed"
        /\ thread[j] \in {"record", "done"} => Verdicts(j) = {Verdict(j)}

\* What is shown as running does run; how a job went is settled when its sync
\* is over; and what is still to be shown to begin was never shown.
StoryInv ==
    /\ pub.state = "running" =>
          pub.job \in Jobs /\ thread[pub.job] \in {"download", "end", "lateEnd"}
    /\ \A j \in Jobs :
          /\ Unbegun(j) \/ thread[j] = "download" => result[j] = "none"
          /\ thread[j] = "end" => result[j] # "none"
          /\ CleaningIsQuick =>
                /\ thread[j] = "surface" /\ pub.job # j => shown[j] = {}
                /\ thread[j] = "lateBegin" => shown[j] = {}

Inv ==
    /\ TypeOK
    /\ LockInv
    /\ JobInv
    /\ FileInv
    /\ UnbegunInv
    /\ RunningIsShown
    /\ StopIsNotLost
    /\ ResultInv

-----------------------------------------------------------------------------
(* The invariant is inductive.                                             *)

\* The abbreviations of the module are always expanded.
USE DEF Jobs, NoJob, callers, threads, files, publisher, stops, process, Idle,
        Resting, Alive, Publish, Cancelled, BeginJob, EndJob, Superseded,
        Goto, Result, Vanish, Syncing, Outside, Holding, Unbegun, Verdict,
        Verdicts

\* At the start nobody holds anything and nothing has been shown.
LEMMA InitInv == Init => Inv
  <1> SUFFICES ASSUME Init PROVE Inv
    OBVIOUS
  <1>1. TypeOK
    <2>1. caller \in [Callers -> CallerPlaces]
      BY DEF Init, CallerPlaces
    <2>2. created \in 0..MaxJobs /\ ends \in 0..MaxEnds
      BY ServiceAssumption DEF Init
    <2>3. /\ thread \in [Jobs -> {"none"}] /\ result \in [Jobs -> {"none"}]
          /\ outsider \in [Outsiders -> {"idle"}] /\ timer \in [Jobs -> {"off"}]
          /\ shown \in [Jobs -> {{}}] /\ stopper \in [Stoppers -> {NoJob}]
      BY DEF Init
    <2>4. QED
      BY <2>1, <2>2, <2>3 DEF Init, TypeOK
  <1>2. LockInv /\ JobInv /\ FileInv /\ UnbegunInv
    BY DEF Init, LockInv, JobInv, FileInv, UnbegunInv
  <1>3. RunningIsShown /\ StopIsNotLost /\ ResultInv
    BY DEF Init, RunningIsShown, StopIsNotLost, ResultInv
  <1>4. QED
    BY <1>1, <1>2, <1>3 DEF Inv

\* Whoever gets the lock is its only holder; whoever does not changes nothing.
LEMMA TriggerInv ==
    ASSUME Inv, NEW c \in Callers, Trigger(c)
    PROVE  Inv'
  <1> USE DEF Trigger, Inv, TypeOK, LockInv, JobInv, FileInv, UnbegunInv,
              RunningIsShown, StopIsNotLost, ResultInv
  <1>1. CASE locked
    <2>1. /\ caller' = [caller EXCEPT ![c] = [pc |-> "busy", job |-> NoJob]]
          /\ UNCHANGED locked
      BY <1>1
    <2>2. TypeOK'
      <3>1. caller' \in [Callers -> CallerPlaces]
        BY <2>1 DEF CallerPlaces
      <3>2. QED
        BY <2>1, <3>1
    <2>4. \A d \in Callers : Holding(d)' => d # c /\ caller'[d] = caller[d]
      BY <2>1
    <2>5. LockInv'
      BY <2>1, <2>4
    <2>6. JobInv'
      BY <2>1
    <2>3. QED
      BY <2>1, <2>2, <2>5, <2>6
  <1>2. CASE ~locked
    <2>1. /\ locked' = TRUE /\ created < MaxJobs
          /\ caller' = [caller EXCEPT ![c] = [pc |-> "clear", job |-> NoJob]]
          /\ UNCHANGED <<thread, created>>
      BY <1>2
    <2>2. \A d \in Callers : ~Holding(d)
      BY <1>2
    <2>3. \A j \in Jobs : ~Alive(j)
      BY <1>2
    <2>4. LockInv'
      BY <2>1, <2>2, <2>3
    <2>5. JobInv'
      <3>1. \A d \in Callers : d # c => caller'[d] = caller[d]
        BY <2>1
      <3>2. caller'[c].pc = "clear"
        BY <2>1
      <3>3. QED
        BY <2>1, <3>1, <3>2
    <2>6. TypeOK'
      <3>1. caller' \in [Callers -> CallerPlaces]
        BY <2>1 DEF CallerPlaces
      <3>2. QED
        BY <2>1, <3>1
    <2>7. QED
      BY <1>2, <2>1, <2>4, <2>5, <2>6
  <1>3. QED
    BY <1>1, <1>2

\* The flag is cleared by the holder of the lock, when no job downloads.
LEMMA ClearStopInv ==
    ASSUME Inv, NEW c \in Callers, ClearStop(c)
    PROVE  Inv'
  <1>1. caller[c].pc = "clear" /\ stopFlag' = FALSE
    BY DEF ClearStop
  <1>2. /\ caller' = [caller EXCEPT ![c].pc = "name"]
        /\ UNCHANGED <<locked, currentJob, created, threads, files, publisher,
                       stopper, asked, stopped, process>>
    BY DEF ClearStop
  <1>3. caller' \in [Callers -> CallerPlaces]
    BY <1>2 DEF Inv, TypeOK, CallerPlaces
  <1>4. TypeOK'
    BY <1>1, <1>2, <1>3 DEF Inv, TypeOK
  <1>5. /\ caller'[c].pc = "name" /\ caller'[c].job = caller[c].job
        /\ \A d \in Callers : d # c => caller'[d] = caller[d]
    BY <1>2 DEF Inv, TypeOK, CallerPlaces
  <1>6. LockInv' /\ JobInv'
    BY <1>1, <1>2, <1>5 DEF Inv, LockInv, JobInv
  <1>7. FileInv' /\ UnbegunInv' /\ RunningIsShown' /\ ResultInv'
    BY <1>2 DEF Inv, FileInv, UnbegunInv, RunningIsShown, ResultInv
  <1>8. StopIsNotLost'
    <2>1. \A j \in Jobs : thread[j] # "download"
      BY <1>1 DEF Inv, LockInv
    <2>2. QED
      BY <1>2, <2>1 DEF StopIsNotLost
  <1>9. QED
    BY <1>4, <1>6, <1>7, <1>8 DEF Inv

\* The lock passes from the caller to its new thread.
LEMMA SpawnThreadInv ==
    ASSUME Inv, NEW c \in Callers, SpawnThread(c)
    PROVE  Inv'
  <1> USE DEF SpawnThread, Inv, TypeOK, LockInv, JobInv, FileInv, UnbegunInv,
              RunningIsShown, ResultInv, StopIsNotLost
  <1> DEFINE j == caller[c].job
  <1>0. j \in Jobs /\ thread[j] = "none" /\ j <= created
    BY ServiceAssumption
  <1>1. /\ \A d \in Callers : d # c => ~Holding(d)
        /\ \A k \in Jobs : ~Alive(k)
        /\ locked
    <2>1. Holding(c)
      OBVIOUS
    <2>2. QED
      BY <2>1
  <1>2. \A d \in Callers : ~Holding(d)'
    BY <1>0, <1>1
  <1>3. /\ thread'[j] = "configure"
        /\ \A k \in Jobs : k # j => thread'[k] = thread[k]
    BY <1>0, <1>1
  <1>4. TypeOK'
    <2>1. caller' \in [Callers -> CallerPlaces]
      BY DEF CallerPlaces
    <2>2. QED
      BY <2>1, <1>0
  <1>5. LockInv' /\ JobInv'
    BY <1>0, <1>1, <1>2, <1>3
  <1>6. (FileInv /\ UnbegunInv /\ RunningIsShown /\ StopIsNotLost /\ ResultInv)'
    BY <1>0, <1>1, <1>3
  <1>7. QED
    BY <1>4, <1>5, <1>6

\* The thread goes on to the lock file or gives up.
LEMMA ConfigureInv ==
    ASSUME Inv, NEW j \in Jobs, Configure(j)
    PROVE  Inv'
  <1> USE DEF Configure, Inv, TypeOK, LockInv, JobInv, FileInv, UnbegunInv,
              RunningIsShown, ResultInv, StopIsNotLost
  <1>1. Alive(j) /\ \A k \in Jobs : Alive(k) => k = j
    OBVIOUS
  <1>2. CASE thread' = [thread EXCEPT ![j] = "lock"] /\ UNCHANGED result
    BY <1>1, <1>2
  <1>3. CASE /\ thread' = [thread EXCEPT ![j] = "surface"]
             /\ result' = [result EXCEPT ![j] = "failed"]
    BY <1>1, <1>3
  <1>4. QED
    BY <1>2, <1>3

\* The thread takes the lock file, unless an outsider has it.
LEMMA TakeFileLockInv ==
    ASSUME Inv, NEW j \in Jobs, TakeFileLock(j)
    PROVE  Inv'
  <1> USE ServiceAssumption
  <1> USE DEF TakeFileLock, Inv, TypeOK, LockInv, JobInv, FileInv, UnbegunInv,
              RunningIsShown, ResultInv, StopIsNotLost
  <1>1. Alive(j) /\ \A k \in Jobs : Alive(k) => k = j
    OBVIOUS
  <1>2. CASE fileLock \in {Nobody, Server}
    <2>1. /\ thread' = [thread EXCEPT ![j] = "begin"]
          /\ fileLock' = Server
          /\ UNCHANGED result
      BY <1>2
    <2>2. Outside = {}
      BY <1>2
    <2>3. TypeOK' /\ LockInv' /\ JobInv'
      BY <1>1, <2>1
    <2>4. (FileInv /\ UnbegunInv /\ RunningIsShown /\ StopIsNotLost)'
      BY <1>1, <2>1, <2>2
    <2>5. ResultInv'
      BY <1>1, <2>1
    <2>6. QED
      BY <2>3, <2>4, <2>5
  <1>3. CASE fileLock \in Outsiders
    <2>1. /\ thread' = [thread EXCEPT ![j] = "surface"]
          /\ result' = [result EXCEPT ![j] = "failed"]
          /\ UNCHANGED fileLock
      BY <1>3
    <2>2. TypeOK' /\ LockInv' /\ JobInv'
      BY <1>1, <2>1
    <2>3. (FileInv /\ UnbegunInv /\ RunningIsShown /\ StopIsNotLost)'
      BY <1>1, <2>1
    <2>4. ResultInv'
      BY <1>1, <2>1
    <2>5. QED
      BY <2>2, <2>3, <2>4
  <1>4. QED
    BY <1>2, <1>3

\* A job that begins is the one shown, and no stop names it yet.
LEMMA SyncBeginsInv ==
    ASSUME Inv, NEW j \in Jobs, SyncBegins(j)
    PROVE  Inv'
  <1> USE DEF SyncBegins, Inv, TypeOK, LockInv, JobInv, FileInv, UnbegunInv,
              StopIsNotLost
  <1>1. Alive(j) /\ \A k \in Jobs : Alive(k) => k = j
    OBVIOUS
  <1>2. \A k \in Jobs : Alive(k)' => k = j
    BY <1>1
  <1>3. RunningIsShown'
    BY <1>2 DEF RunningIsShown
  <1>4. ResultInv'
    <2>1. \A k \in Jobs : k # j =>
            /\ ~Alive(k)
            /\ thread'[k] = thread[k]
            /\ result'[k] = result[k]
            /\ shown'[k] = shown[k]
      BY <1>1
    <2>2. Verdicts(j)' = {}
      OBVIOUS
    <2>3. QED
      BY <2>1, <2>2 DEF ResultInv
  <1>5. TypeOK'
    OBVIOUS
  <1>6. LockInv' /\ JobInv' /\ FileInv'
    BY <1>1, <1>2
  <1>8. UnbegunInv' /\ StopIsNotLost'
    BY <1>1
  <1>7. QED
    BY <1>3, <1>4, <1>5, <1>6, <1>8

\* The same of a job that is shown after the fact.
LEMMA LateBeginInv ==
    ASSUME Inv, NEW j \in Jobs, LateBegin(j)
    PROVE  Inv'
  <1> USE DEF LateBegin, Inv, TypeOK, LockInv, JobInv, FileInv, UnbegunInv,
              StopIsNotLost
  <1>1. Alive(j) /\ \A k \in Jobs : Alive(k) => k = j
    OBVIOUS
  <1>2. \A k \in Jobs : Alive(k)' => k = j
    BY <1>1
  <1>3. RunningIsShown'
    BY <1>2 DEF RunningIsShown
  <1>4. ResultInv'
    <2>1. \A k \in Jobs : k # j =>
            /\ ~Alive(k)
            /\ thread'[k] = thread[k]
            /\ result'[k] = result[k]
            /\ shown'[k] = shown[k]
      BY <1>1
    <2>2. CleaningIsQuick => Verdicts(j)' = {}
      BY DEF ResultInv
    <2>3. QED
      BY <2>1, <2>2 DEF ResultInv
  <1>5. TypeOK'
    OBVIOUS
  <1>6. LockInv' /\ JobInv' /\ FileInv'
    BY <1>1, <1>2
  <1>8. UnbegunInv' /\ StopIsNotLost'
    BY <1>1
  <1>7. QED
    BY <1>3, <1>4, <1>5, <1>6, <1>8

\* When the only living thread leaves the destination, nobody works on it.
LEMMA NobodyElse ==
    ASSUME NEW j \in Jobs,
           \A k \in Jobs : thread'[k] = IF k = j THEN "surface" ELSE thread[k],
           \A k \in Jobs : k # j => thread[k] \in {"none", "done", "dead"}
    PROVE  Syncing' = {}
  OBVIOUS

\* The lock file is given back with nobody at work on the destination.
LEMMA UnlockInv ==
    ASSUME Inv, NEW j \in Jobs, Unlock(j)
    PROVE  Inv'
  <1> USE ServiceAssumption
  <1> USE DEF Unlock, Inv, TypeOK, LockInv, JobInv, FileInv, UnbegunInv,
              RunningIsShown, ResultInv, StopIsNotLost
  <1>1. Alive(j) /\ \A k \in Jobs : Alive(k) => k = j
    OBVIOUS
  <1>2. fileLock = Server
    OBVIOUS
  <1>3. FileInv'
    <2>1. \A k \in Jobs : thread'[k] = IF k = j THEN "surface" ELSE thread[k]
      BY DEF Goto
    <2>2. \A k \in Jobs : k # j => thread[k] \in {"none", "done", "dead"}
      BY <1>1
    <2>3. Syncing' = {}
      BY <2>1, <2>2, NobodyElse
    <2>4. Outside' = {}
      BY <1>2
    <2>5. QED
      BY <2>3, <2>4
  <1>4. TypeOK' /\ LockInv' /\ JobInv'
    BY <1>1
  <1>5. UnbegunInv' /\ RunningIsShown' /\ StopIsNotLost'
    BY <1>1
  <1>6. ResultInv'
    BY <1>1
  <1>7. QED
    BY <1>3, <1>4, <1>5, <1>6

\* The lock is given back by its only holder.
LEMMA ReleaseInv ==
    ASSUME Inv, NEW j \in Jobs, Release(j)
    PROVE  Inv'
  <1> USE DEF Release, Inv, TypeOK, LockInv, JobInv, FileInv, UnbegunInv,
              RunningIsShown, ResultInv, StopIsNotLost
  <1>1. Alive(j) /\ \A k \in Jobs : Alive(k) => k = j
    OBVIOUS
  <1>2. \A k \in Jobs : ~Alive(k)'
    BY <1>1
  <1>3. \A c \in Callers : ~Holding(c)'
    BY <1>1
  <1>4. LockInv'
    BY <1>2, <1>3
  <1>4a. TypeOK'
    <2>1. thread' = [thread EXCEPT ![j] = "done"]
      OBVIOUS
    <2>2. thread' \in [Jobs -> {"none", "configure", "lock", "begin", "download",
                               "end", "clean", "unlock", "surface", "lateBegin",
                               "lateEnd", "record", "done", "dead"}]
      BY <2>1
    <2>3. QED
      BY <2>2
  <1>5. QED
    BY <1>1, <1>4, <1>4a

\* A stop names a job that was shown.
LEMMA StopSetsInv ==
    ASSUME Inv, NEW s \in Stoppers, StopSets(s)
    PROVE  Inv'
  <1>1. stopper[s] \in Jobs
    BY DEF StopSets, Inv, TypeOK
  <1>2a. asked' \subseteq Jobs
    BY <1>1 DEF StopSets, Inv, TypeOK
  <1>2. asked' \subseteq Jobs /\ stopper' \in [Stoppers -> Jobs \cup {NoJob}]
    BY <1>2a DEF StopSets, Inv, TypeOK
  <1> USE DEF StopSets, Inv, TypeOK, LockInv, JobInv, FileInv, UnbegunInv,
              RunningIsShown, ResultInv, StopIsNotLost
  <1>3. TypeOK'
    BY <1>2
  <1>4. LockInv' /\ JobInv' /\ FileInv' /\ RunningIsShown' /\ ResultInv'
    OBVIOUS
  <1>5. UnbegunInv'
    <2> SUFFICES ASSUME NEW j \in Jobs, Unbegun(j)'
                 PROVE  (/\ shown[j] = {} /\ pub.job # j
                         /\ j \notin asked /\ \A t \in Stoppers : stopper[t] # j)'
      OBVIOUS
    <2>1. Unbegun(j)
      OBVIOUS
    <2>2. stopper[s] # j /\ NoJob # j
      BY <2>1, <1>1, ServiceAssumption
    <2> QED BY <2>1, <2>2
  <1>6. StopIsNotLost'
    OBVIOUS
  <1> QED
    BY <1>3, <1>4, <1>5, <1>6

\* Nothing of the server process survives its end.
LEMMA VanishInv ==
    ASSUME Inv, Vanish
    PROVE  Inv'
  <1> USE ServiceAssumption
  <1> USE DEF Inv, TypeOK, LockInv, JobInv, FileInv, UnbegunInv, RunningIsShown,
              ResultInv, StopIsNotLost
  <1>1. \A j \in Jobs : /\ ~Alive(j)' 
                        /\ thread'[j] \in {"done", "none"} => thread'[j] = thread[j]
    OBVIOUS
  <1>2. FileInv'
    <2>1. Syncing' = {} /\ Outside' = Outside
      BY <1>1
    <2>3. QED
      BY <2>1
  <1>3. TypeOK'
    <2>1. caller' \in [Callers -> CallerPlaces]
      BY DEF CallerPlaces
    <2>2. stopper' \in [Stoppers -> Jobs \cup {NoJob}]
      OBVIOUS
    <2>3. ends' \in 0..MaxEnds
      OBVIOUS
    <2>4. thread' \in [Jobs -> {"none", "configure", "lock", "begin", "download",
                            "end", "clean", "unlock", "surface", "lateBegin",
                            "lateEnd", "record", "done", "dead"}]
      OBVIOUS
    <2>5. timer' \in [Jobs -> {"off", "armed", "firing"}]
      OBVIOUS
    <2>6. QED
      BY <2>1, <2>2, <2>3, <2>4, <2>5
  <1>4. LockInv' /\ JobInv'
    BY <1>1
  <1>5. (UnbegunInv /\ RunningIsShown /\ StopIsNotLost /\ ResultInv)'
    BY <1>1
  <1>6. QED
    BY <1>2, <1>3, <1>4, <1>5
\* The other steps of trigger_sync preserve the invariant.
LEMMA CallInv ==
    ASSUME Inv, NEW c \in Callers, Call(c)
    PROVE  Inv'
  <1> USE ServiceAssumption
      DEF Inv, TypeOK, LockInv, JobInv, FileInv, UnbegunInv, RunningIsShown,
              StopIsNotLost, ResultInv, CallerPlaces
  <1>1. CASE AnswerBusy(c)
    BY <1>1 DEF AnswerBusy
  <1>2. CASE NameJob(c)
    BY <1>2 DEF NameJob
  <1>3. CASE SpawnFails(c)
    BY <1>3 DEF SpawnFails
  <1> HIDE DEF Inv
  <1>4. QED
    BY <1>1, <1>2, <1>3, ClearStopInv, SpawnThreadInv DEF Call

\* The steps of the sync thread preserve the invariant.
LEMMA WorkInv ==
    ASSUME Inv, NEW j \in Jobs, Work(j)
    PROVE  Inv'
  <1> USE DEF Inv, TypeOK, LockInv, JobInv, FileInv, UnbegunInv, RunningIsShown,
              StopIsNotLost, ResultInv
  <1>1. CASE SyncRecordings(j)
    BY <1>1 DEF SyncRecordings
  <1>2. CASE SyncStopped(j)
    BY <1>2 DEF SyncStopped
  <1>3. CASE SyncEnds(j)
    BY <1>3 DEF SyncEnds
  <1>4. CASE CleanDestination(j)
    BY <1>4 DEF CleanDestination
  <1>5. CASE Surface(j)
    BY <1>5 DEF Surface
  <1>6. CASE LateEnd(j)
    BY <1>6 DEF LateEnd
  <1> HIDE DEF Inv
  <1>7. QED
    BY <1>1, <1>2, <1>3, <1>4, <1>5, <1>6, ConfigureInv, TakeFileLockInv,
       SyncBeginsInv, UnlockInv, LateBeginInv, ReleaseInv DEF Work

\* A timer never wipes a job that runs.
LEMMA TimeInv ==
    ASSUME Inv, NEW j \in Jobs, Time(j)
    PROVE  Inv'
  <1> USE DEF Inv, TypeOK, LockInv, JobInv, FileInv, UnbegunInv, RunningIsShown,
              StopIsNotLost, ResultInv
  <1>1. CASE TimerFires(j)
    BY <1>1 DEF TimerFires
  <1>2. CASE ResetToIdle(j)
    BY <1>2 DEF ResetToIdle
  <1> HIDE DEF Inv
  <1>3. QED
    BY <1>1, <1>2 DEF Time

\* Stops, outsiders and the life of the server preserve the invariant.
LEMMA WorldInv ==
    ASSUME Inv,
           \/ \E s \in Stoppers : StopReads(s) \/ StopSets(s)
           \/ \E o \in Outsiders : OutsiderBegins(o) \/ OutsiderEnds(o)
           \/ ShutDown \/ Exit \/ Crash \/ Restart
    PROVE  Inv'
  <1> USE ServiceAssumption
      DEF Inv, TypeOK, LockInv, JobInv, FileInv, UnbegunInv, RunningIsShown,
          StopIsNotLost, ResultInv
  <1>1. ASSUME NEW s \in Stoppers, StopReads(s) PROVE Inv'
    BY <1>1 DEF StopReads
  <1>2. ASSUME NEW o \in Outsiders, OutsiderBegins(o) PROVE Inv'
    BY <1>2 DEF OutsiderBegins
  <1>3. ASSUME NEW o \in Outsiders, OutsiderEnds(o) PROVE Inv'
    BY <1>3 DEF OutsiderEnds
  <1>4. CASE ShutDown
    BY <1>4 DEF ShutDown
  <1>5. CASE Restart
    BY <1>5 DEF Restart
  <1> HIDE DEF Inv, Vanish
  <1>6. QED
    BY <1>1, <1>2, <1>3, <1>4, <1>5, StopSetsInv, VanishInv DEF Exit, Crash

\* Every step preserves the invariant.
LEMMA NextInv ==
    ASSUME Inv, [Next]_vars
    PROVE  Inv'
  <1>1. CASE UNCHANGED vars
    BY <1>1 DEF vars, Inv, TypeOK, LockInv, JobInv, FileInv, UnbegunInv,
                RunningIsShown, StopIsNotLost, ResultInv
  <1>2. QED
    BY <1>1, TriggerInv, CallInv, WorkInv, TimeInv, WorldInv DEF Next

\* The inductive invariant holds throughout every behaviour.
THEOREM Invariance == Spec => []Inv
  BY InitInv, NextInv, PTL DEF Spec

\* Type correctness of the service's state.
THEOREM TypeCorrect == Spec => []TypeOK
  <1>1. Inv => TypeOK
    BY DEF Inv
  <1>2. QED
    BY <1>1, Invariance, PTL

\* No two syncs ever work on the destination at once: neither two threads of
\* the server (_sync_lock) nor the server and a command line, nor two command
\* lines (lock, unlock), whatever is killed and restarted.
THEOREM Exclusion == Spec => []MutualExclusion
  <1>1. ASSUME Inv PROVE MutualExclusion
    <2>1. \A j, k \in Syncing : j = k
      BY <1>1 DEF Inv, LockInv
    <2>2. \A o, p \in Outside : o = p
      BY <1>1 DEF Inv, FileInv
    <2>3. Syncing = {} \/ Outside = {}
      BY <1>1, ServiceAssumption DEF Inv, FileInv
    <2>4. QED
      BY <2>1, <2>2, <2>3 DEF MutualExclusion
  <1>2. QED
    BY <1>1, Invariance, PTL

\* A running job is shown as running until its own thread says how it went:
\* no retention timer, armed or already fired, wipes it (_reset_to_idle).
THEOREM Running == Spec => []RunningIsShown
  <1>1. Inv => RunningIsShown
    BY DEF Inv
  <1>2. QED
    BY <1>1, Invariance, PTL

\* An acknowledged stop stays set as long as the job it names downloads.
THEOREM Stopping == Spec => []StopIsNotLost
  <1>1. Inv => StopIsNotLost
    BY DEF Inv
  <1>2. QED
    BY <1>1, Invariance, PTL

\* As long as cleaning takes less than the retention window, every job that is
\* over has been shown to end once, the way it went (_do_sync's finally).
THEOREM Surfacing ==
    ASSUME CleaningIsQuick
    PROVE  Spec => []ResultShown
  <1>1. Inv => ResultShown
    BY DEF Inv, ResultInv, ResultShown
  <1>2. QED
    BY <1>1, Invariance, PTL

-----------------------------------------------------------------------------
(* The service implements the board.                                        *)

\* What the board shows and what is told of the jobs is left alone.
Quiet == UNCHANGED <<pub, shown, result, thread>>

\* The steps of the callers but one, of the timers but one, of those who stop and
\* of the other processes are quiet.
LEMMA QuietSteps ==
    ASSUME \/ \E c \in Callers : \/ Trigger(c) \/ AnswerBusy(c) \/ ClearStop(c)
                                 \/ NameJob(c) \/ SpawnFails(c)
           \/ \E j \in Jobs : TimerFires(j)
           \/ \E s \in Stoppers : StopReads(s) \/ StopSets(s)
           \/ \E o \in Outsiders : OutsiderBegins(o) \/ OutsiderEnds(o)
           \/ ShutDown \/ Restart \/ UNCHANGED vars
    PROVE  Quiet
  BY DEF Quiet, Trigger, AnswerBusy, ClearStop, NameJob, SpawnFails, TimerFires,
         StopReads, StopSets, OutsiderBegins, OutsiderEnds, ShutDown, Restart, vars

\* A thread that is alive is the only one: the others were not started or are over.
LEMMA Alone ==
    ASSUME Inv, NEW j \in Jobs, Alive(j)
    PROVE  \A k \in Jobs : k # j => thread[k] \in {"none", "done", "dead"}
  BY DEF Inv, LockInv

\* A thread is started once.
LEMMA SpawnsNew ==
    ASSUME Inv, NEW c \in Callers, SpawnThread(c)
    PROVE  caller[c].job \in Jobs /\ thread[caller[c].job] = "none"
  <1>1. /\ created \in 0..MaxJobs /\ MaxJobs \in Nat
        /\ caller[c].job \in 1..created /\ thread[caller[c].job] = "none"
    BY ServiceAssumption DEF Inv, TypeOK, JobInv, SpawnThread
  <1> QED BY <1>1

\* At the start no story has begun.
LEMMA InitStory == Init => StoryInv
  BY DEF Init, StoryInv

\* The thread that works moves every story on, its own.
LEMMA WorkStory ==
    ASSUME Inv, StoryInv, NEW j \in Jobs, Work(j)
    PROVE  StoryInv'
  <1> USE DEF StoryInv
  <1>0. /\ DOMAIN thread = Jobs /\ DOMAIN result = Jobs /\ DOMAIN shown = Jobs
        /\ pub \in [job : Jobs \cup {NoJob},
                    state : {"idle", "running", "complete", "failed"}]
    BY DEF Inv, TypeOK
  <1>1. Alive(j) /\ \A k \in Jobs : k # j => thread[k] \in {"none", "done", "dead"}
    <2>1. Alive(j)
      BY DEF Work, Configure, TakeFileLock, SyncBegins, SyncRecordings, SyncStopped,
             SyncEnds, CleanDestination, Unlock, Surface, LateBegin, LateEnd, Release
    <2> QED BY <2>1, Alone
  <1>2. /\ UnbegunInv /\ RunningIsShown /\ ResultInv
    BY DEF Inv
  <1>g. ASSUME Unbegun(j), UNCHANGED <<pub, result, shown>>, NEW to \in {"lock", "begin"},
               thread' = [thread EXCEPT ![j] = to]
        PROVE  StoryInv'
    BY <1>0, <1>1, <1>g
  <1>f. ASSUME Unbegun(j), UNCHANGED <<pub, shown>>, Result(j, "failed"),
               thread' = [thread EXCEPT ![j] = "surface"]
        PROVE  StoryInv'
    <2>1. shown[j] = {} /\ pub.job # j
      BY <1>2, <1>f DEF UnbegunInv
    <2> QED BY <1>0, <1>1, <1>f, <2>1
  <1>3. CASE Configure(j)
    BY <1>1, <1>3, <1>g, <1>f DEF Configure
  <1>4. CASE TakeFileLock(j)
    BY <1>1, <1>4, <1>g, <1>f DEF TakeFileLock
  <1>5. CASE SyncBegins(j)
    BY <1>0, <1>1, <1>5 DEF SyncBegins
  <1>6. CASE SyncRecordings(j) \/ SyncStopped(j)
    <2>1. /\ thread[j] = "download" /\ thread' = [thread EXCEPT ![j] = "end"]
          /\ UNCHANGED <<pub, shown>> /\ \E r \in {"ok", "failed"} : Result(j, r)
      BY <1>6 DEF SyncRecordings, SyncStopped
    <2>2. pub.job = j
      BY <1>2, <2>1 DEF RunningIsShown
    <2> QED BY <1>0, <1>1, <2>1, <2>2
  <1>7. CASE SyncEnds(j)
    BY <1>0, <1>1, <1>7 DEF SyncEnds
  <1>8. CASE CleanDestination(j)
    BY <1>0, <1>1, <1>8 DEF CleanDestination
  <1>9. CASE Unlock(j)
    BY <1>0, <1>1, <1>2, <1>9 DEF Unlock, ResultInv
  <1>a. CASE Surface(j)
    BY <1>0, <1>1, <1>a DEF Surface
  <1>b. CASE LateBegin(j)
    BY <1>0, <1>1, <1>b DEF LateBegin
  <1>c. CASE LateEnd(j)
    BY <1>0, <1>1, <1>c DEF LateEnd
  <1>d. CASE Release(j)
    BY <1>0, <1>1, <1>d DEF Release
  <1> QED BY <1>3, <1>4, <1>5, <1>6, <1>7, <1>8, <1>9, <1>a, <1>b, <1>c, <1>d DEF Work

\* So does no other step than those of the threads and the end of the process.
LEMMA NextStory ==
    ASSUME Inv, StoryInv, [Next]_vars
    PROVE  StoryInv'
  <1>0. /\ DOMAIN thread = Jobs
        /\ pub \in [job : Jobs \cup {NoJob},
                    state : {"idle", "running", "complete", "failed"}]
    BY DEF Inv, TypeOK
  <1>1. CASE Quiet
    BY <1>1 DEF Quiet, StoryInv
  <1>2. ASSUME NEW c \in Callers, SpawnThread(c) PROVE StoryInv'
    <2>1. caller[c].job \in Jobs /\ thread[caller[c].job] = "none"
      BY <1>2, SpawnsNew
    <2>2. /\ UNCHANGED <<pub, result, shown>>
          /\ thread' = [thread EXCEPT ![caller[c].job] = "configure"]
      BY <1>2 DEF SpawnThread
    <2> QED BY <1>0, <2>1, <2>2 DEF StoryInv
  <1>3. ASSUME NEW j \in Jobs, ResetToIdle(j) PROVE StoryInv'
    <2>1. /\ UNCHANGED <<thread, result, shown>>
          /\ pub' = pub \/ (pub' = Idle /\ pub.job = j)
      <3>1. CASE Superseded(j)
        BY <1>3, <3>1 DEF ResetToIdle
      <3>2. CASE ~Superseded(j)
        BY <1>3, <3>2 DEF ResetToIdle
      <3> QED BY <3>1, <3>2
    <2>2. ResultInv /\ timer[j] = "firing"
      BY <1>3 DEF Inv, ResetToIdle
    <2> QED BY <2>1, <2>2 DEF StoryInv, ResultInv
  <1>4. CASE Vanish
    BY <1>0, <1>4 DEF StoryInv
  <1> HIDE DEF Vanish
  <1> QED BY <1>1, <1>2, <1>3, <1>4, QuietSteps, WorkStory DEF Next, Call, Time, Exit, Crash

\* No job is lost but by the end of the process.
LEMMA LostStays ==
    ASSUME \A k \in Jobs : thread'[k] = "dead" <=> thread[k] = "dead"
    PROVE  {k \in Jobs : thread'[k] = "dead"} = {k \in Jobs : thread[k] = "dead"}
  OBVIOUS

\* Every step of the thread that works is one of the board's, or none.
LEMMA WorkImplements ==
    ASSUME CleaningIsQuick, Inv, StoryInv, NEW j \in Jobs, Work(j)
    PROVE  [Board!Next]_(Board!vars)
  <1> USE DEF StoryInv
  <1>0. /\ DOMAIN thread = Jobs /\ DOMAIN result = Jobs /\ DOMAIN shown = Jobs
        /\ pub \in [job : Jobs \cup {NoJob},
                    state : {"idle", "running", "complete", "failed"}]
    BY DEF Inv, TypeOK
  <1>1. /\ Alive(j) /\ \A k \in Jobs : k # j => thread[k] \in {"none", "done", "dead"}
        /\ Alive(j)' \/ thread'[j] = "done"
        /\ \A k \in Jobs : k # j => thread'[k] = thread[k]
    <2>1. Alive(j) /\ \E to : to \notin {"none", "dead"} /\ thread' = [thread EXCEPT ![j] = to]
      BY DEF Work, Configure, TakeFileLock, SyncBegins, SyncRecordings, SyncStopped,
             SyncEnds, CleanDestination, Unlock, Surface, LateBegin, LateEnd, Release
    <2> QED BY <1>0, <2>1, Alone
  <1>l. /\ {k \in Jobs : thread'[k] = "dead"} = {k \in Jobs : thread[k] = "dead"}
        /\ j \notin {k \in Jobs : thread[k] = "dead"}
    BY <1>1, LostStays
  <1>2. /\ UnbegunInv /\ RunningIsShown /\ ResultInv
    BY DEF Inv
  <1>s. UNCHANGED <<pub, shown, result>> => UNCHANGED Board!vars
    BY <1>l DEF Board!vars
  <1>n. \/ \E r \in {"ok", "failed"} : Board!Settle(j, r)
        \/ Board!Begin(j) \/ Board!End(j)
        => Board!Next
    BY DEF Board!Next
  <1>f. thread[j] \in {"configure", "lock"} /\ Result(j, "failed") /\ UNCHANGED <<pub, shown>>
        => Board!Settle(j, "failed")
    BY <1>0, <1>2, <1>l DEF Board!Settle, UnbegunInv
  <1>3. CASE Configure(j)
    BY <1>3, <1>s, <1>n, <1>f DEF Configure
  <1>4. CASE TakeFileLock(j)
    BY <1>4, <1>s, <1>n, <1>f DEF TakeFileLock
  <1>b. thread[j] \in {"begin", "lateBegin"} /\ BeginJob(j) /\ UNCHANGED result
        => Board!Begin(j)
    BY <1>0, <1>1, <1>2, <1>l DEF Board!Begin, Board!Show, UnbegunInv
  <1>5. CASE SyncBegins(j)
    BY <1>5, <1>b, <1>n DEF SyncBegins
  <1>6. CASE SyncRecordings(j) \/ SyncStopped(j)
    <2>1. /\ thread[j] = "download" /\ UNCHANGED <<pub, shown>>
          /\ \E r \in {"ok", "failed"} : Result(j, r)
      BY <1>6 DEF SyncRecordings, SyncStopped
    <2>2. PICK r \in {"ok", "failed"} : Result(j, r)
      BY <2>1
    <2>3. Board!Settle(j, r)
      BY <1>0, <1>2, <1>l, <2>1, <2>2 DEF Board!Settle, RunningIsShown
    <2> QED BY <2>3, <1>n
  <1>e. ASSUME thread[j] \in {"end", "lateEnd"}, EndJob(Verdict(j)), UNCHANGED result,
               result[j] # "none"
        PROVE  Board!End(j)
    <2>1. pub = [job |-> j, state |-> "running"]
      BY <1>2, <1>e DEF RunningIsShown
    <2> QED BY <1>0, <1>l, <1>e, <2>1 DEF Board!End, Board!Show
  <1>7. CASE SyncEnds(j)
    <2>1. thread[j] = "end" /\ EndJob(Verdict(j)) /\ UNCHANGED result /\ result[j] # "none"
      BY <1>7 DEF SyncEnds
    <2>2. Board!End(j)
      BY <2>1, <1>e
    <2> QED BY <2>2, <1>n
  <1>8. CASE CleanDestination(j) \/ Unlock(j) \/ Surface(j) \/ Release(j)
    BY <1>8, <1>s DEF CleanDestination, Unlock, Surface, Release
  <1>9. CASE LateBegin(j)
    BY <1>9, <1>b, <1>n DEF LateBegin
  <1>a. CASE LateEnd(j)
    <2>1. thread[j] = "lateEnd" /\ EndJob("failed") /\ UNCHANGED result
      BY <1>a DEF LateEnd
    <2>2. result[j] = "failed"
      BY <1>2, <2>1 DEF ResultInv
    <2>3. EndJob(Verdict(j))
      BY <2>1, <2>2
    <2>4. Board!End(j)
      BY <2>1, <2>2, <2>3, <1>e
    <2> QED BY <2>4, <1>n
  <1> QED BY <1>3, <1>4, <1>5, <1>6, <1>7, <1>8, <1>9, <1>a DEF Work

\* The end of the process is an outage: what was shown as running is lost.
LEMMA VanishImplements ==
    ASSUME Inv, StoryInv, Vanish
    PROVE  Board!Next
  <1> DEFINE more == {k \in Jobs : Alive(k)}
             dead == {k \in Jobs : thread[k] = "dead"}
  <1>0. DOMAIN thread = Jobs
    BY DEF Inv, TypeOK
  <1>1. \A k \in Jobs : thread'[k] = "dead" <=> Alive(k) \/ thread[k] = "dead"
    BY <1>0
  <1>2. {k \in Jobs : thread'[k] = "dead"} = dead \cup more
    BY <1>1
  <1>3. pub.state = "running" => pub.job \in more
    BY DEF StoryInv
  <1>4. more \in SUBSET Jobs /\ UNCHANGED <<shown, result>> /\ pub' = Idle
    OBVIOUS
  <1> QED BY <1>2, <1>3, <1>4 DEF Board!Next, Board!Outage

\* Every step is one of the board's, or leaves the board alone.
LEMMA StepImplements ==
    ASSUME CleaningIsQuick, Inv, StoryInv, [Next]_vars
    PROVE  [Board!Next]_(Board!vars)
  <1>1. CASE Quiet
    BY <1>1 DEF Quiet, Board!vars
  <1>2. ASSUME NEW c \in Callers, SpawnThread(c) PROVE UNCHANGED Board!vars
    <2>1. caller[c].job \in Jobs /\ thread[caller[c].job] = "none" /\ DOMAIN thread = Jobs
      BY <1>2, SpawnsNew DEF Inv, TypeOK
    <2>2. /\ UNCHANGED <<pub, result, shown>>
          /\ thread' = [thread EXCEPT ![caller[c].job] = "configure"]
      BY <1>2 DEF SpawnThread
    <2>3. \A k \in Jobs : thread'[k] = "dead" <=> thread[k] = "dead"
      BY <2>1, <2>2
    <2> QED BY <2>2, <2>3, LostStays DEF Board!vars
  <1>3. ASSUME NEW j \in Jobs, ResetToIdle(j) PROVE [Board!Next]_(Board!vars)
    <2>1. UNCHANGED <<thread, result, shown>>
      BY <1>3 DEF ResetToIdle
    <2>2. CASE Superseded(j)
      BY <1>3, <2>1, <2>2 DEF ResetToIdle, Board!vars
    <2>3. CASE ~Superseded(j)
      BY <1>3, <2>1, <2>3 DEF ResetToIdle, Board!Next, Board!Forget
    <2> QED BY <2>2, <2>3
  <1>4. CASE Vanish
    BY <1>4, VanishImplements
  <1> HIDE DEF Vanish
  <1> QED BY <1>1, <1>2, <1>3, <1>4, QuietSteps, WorkImplements
          DEF Next, Call, Time, Exit, Crash

\* The service, with its threads, its locks, its timers and its ends, tells each
\* job's story once, on one board, the way it went (_do_sync, begin_job, end_job,
\* _reset_to_idle), for every number of requests, jobs and processes, as long as
\* cleaning takes less than the retention window.
THEOREM Implements ==
    ASSUME CleaningIsQuick
    PROVE  Spec => BoardSpec
  <1>1. Init => Board!Init
    BY DEF Init, Board!Init
  <1>2. Inv /\ StoryInv /\ [Next]_vars => Inv' /\ StoryInv'
    BY NextInv, NextStory
  <1>3. Inv /\ StoryInv /\ [Next]_vars => [Board!Next]_(Board!vars)
    BY StepImplements
  <1> QED BY <1>1, <1>2, <1>3, InitInv, InitStory, PTL DEF Spec, BoardSpec, Board!Spec

=============================================================================
