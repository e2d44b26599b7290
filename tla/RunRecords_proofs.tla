--------------------------- MODULE RunRecords_proofs ---------------------------
(***************************************************************************)
(* Theorems of RunRecords, for any number of overlapping runs, kills and    *)
(* failures: what is kept of the last pull is true, a failing sink does not *)
(* take the place of the sync's result, and what overlaps cannot spoil is   *)
(* kept, whole and complete.                                                *)
(***************************************************************************)
EXTENDS RunRecords, TLAPS

-----------------------------------------------------------------------------
(* The inductive invariant behind PullIsTrue and DeliveryKeepsResult.       *)

TruePull(pull) == pull \in pulled \cup {0}
Reported(c) == c \in {Absent, Torn} \/ TruePull(c.pull)

\* What a run has loaded or pulled is true, and so is what it has left anywhere,
\* the temporary file included, that another run may put in place.
PullInv ==
    /\ \A r \in Runs : TruePull(run[r].pull)
    /\ state \in {Absent, Torn, Foreign} \/ TruePull(state)
    /\ Reported(temp) /\ Reported(file) /\ Reported(gateway)

\* The places after the except clauses of a command line.
Later == {"unlock", "report", "save", "state", "emit", "text", "replace", "push"}

\* A command line has no error before its sync ends and no exit code before the except
\* clauses; from then on, whatever its reports do, the two agree, and what it gives its
\* caller in the end is the result of its sync.
Outcome(r, q) ==
    r \in CommandLines =>
        /\ q.pc \in {"setup", "sync"} => q.error = "none"
        /\ q.pc \in {"setup", "sync", "clean"} => q.exit = 0
        /\ q.pc \in Later /\ q.error # "interrupt" => q.exit = Result(r, q.error)
        /\ q.pc = "idle" => q.given \in {Result(r, q.error)}
                                           \cup (IF q.alien THEN {Traceback} ELSE {})

ResultInv == \A r \in Runs : Outcome(r, run[r])

Inv == TypeOK /\ PullInv /\ ResultInv

-----------------------------------------------------------------------------
(* What the other properties need besides.                                  *)

\* Without overlap one run is under way: what it has pulled is later than what
\* was ever kept, and what it has loaded is the latest.
KeptInv ==
    /\ pulled \subseteq 0..clock /\ high \in 0..clock /\ faults \in Nat
    /\ ~overlap =>
          /\ \A q, r \in Runs : run[q].pc # "idle" /\ run[r].pc # "idle" => q = r
          /\ \A r \in Runs :
                /\ run[r].pull = 0 \/ (run[r].pc # "idle" /\ run[r].pull >= high)
                /\ run[r].pc = "state" => state = Torn /\ run[r].pull # 0
    /\ StateKept

\* Without a clash one run reports: the temporary file is as it has left it, and
\* its report is later than what the metrics file ever showed.
ReportInv ==
    /\ fd \in [Runs -> {"none", "temp", "file", "gone"}]
    /\ ~clash =>
        /\ shown \in 0..clock
        /\ file \in Payloads \cup {Absent}
        /\ file # Absent => file.ts = shown
        /\ \A q, r \in Runs : Reporting(q) /\ Reporting(r) => q = r
        /\ \A r \in Runs :
              /\ Reporting(r) => run[r].ts \in shown..clock
              /\ run[r].pc = "text" => fd[r] = "temp" /\ temp = Torn
              /\ run[r].pc = "replace" => temp = Payload(r)

Finalized == {"save", "state", "emit", "text", "replace", "push", "record"}

\* The server's report is later than its rows, so that none is replaced, and none
\* that a retention keeps is missing.
RowsInv ==
    /\ rows \subseteq ended
    /\ \A e \in ended : e.ts \in 0..clock
    /\ \A r \in Runs : run[r].ts <= clock
    /\ run[Server].pc \in Finalized => \A e \in ended : e.ts < run[Server].ts
    /\ \A r \in CommandLines : run[r].pc \notin {"record", "prune"}
    /\ SeriesIsComplete

-----------------------------------------------------------------------------
(* The invariant is inductive.                                             *)

USE RecordsAssumption

LEMMA InitInv == Init => Inv
  <1> SUFFICES ASSUME Init PROVE Inv
    OBVIOUS
  <1>1. TypeOK
    BY DEF Init, TypeOK, RunStates, Places, Idle, Reasons
  <1>2. PullInv
    BY DEF Init, PullInv, TruePull, Reported, Idle
  <1>3. ResultInv
    BY DEF Init, ResultInv, Outcome, Later, Result, Idle
  <1> QED BY <1>1, <1>2, <1>3 DEF Inv

\* A step of one run that leaves every place with a true time preserves Inv.
LEMMA StepInv ==
    ASSUME Inv, NEW r \in Runs, NEW q \in RunStates,
           run' = [run EXCEPT ![r] = q],
           clock' \in Nat, pulled' \subseteq Nat, pulled \subseteq pulled',
           q.pull \in pulled' \cup {0},
           Outcome(r, q),
           state' \in {state, Absent, Torn} \/ TruePull(state)',
           temp' \in {temp, file, Absent, Torn} \/ TruePull(temp.pull)',
           file' \in {temp, file, Absent, Torn} \/ TruePull(file.pull)',
           gateway' = gateway \/ TruePull(gateway.pull)'
    PROVE  Inv'
  <1>1. TypeOK'
    BY DEF Inv, TypeOK
  <1>2. /\ run \in [Runs -> RunStates]
        /\ \A p : TruePull(p) => TruePull(p)'
    BY DEF Inv, TypeOK, TruePull
  <1>3. /\ \A s \in Runs : TruePull(run[s].pull)'
        /\ state' \in {Absent, Torn, Foreign} \/ TruePull(state)'
    BY <1>2 DEF Inv, PullInv, TruePull
  <1>4. Reported(temp)' /\ Reported(file)' /\ Reported(gateway)'
    BY <1>2 DEF Inv, PullInv, Reported
  <1>5. ResultInv'
    <2>1. \A s \in Runs : run'[s] = IF s = r THEN q ELSE run[s]
      BY <1>2
    <2>2. \A s \in Runs : Outcome(s, run[s])
      BY DEF Inv, ResultInv
    <2>3. ASSUME NEW s \in Runs PROVE Outcome(s, run'[s])
      BY <2>1, <2>2
    <2> QED BY <2>3 DEF ResultInv, Outcome
  <1> QED BY <1>1, <1>3, <1>4, <1>5 DEF Inv, PullInv

\* A step of a run that is under way.
LEMMA BusyInv ==
    ASSUME Inv, NEW r \in Runs, run[r].pc # "idle", NEW q \in RunStates,
           run' = [run EXCEPT ![r] = q], q.pull = run[r].pull, Outcome(r, q),
           clock' \in Nat, UNCHANGED pulled,
           state' \in {state, Absent, Torn, run[r].pull},
           temp' \in {temp, file, Absent, Torn} \/ temp'.pull = run[r].pull,
           file' \in {temp, file, Absent, Torn} \/ file'.pull = run[r].pull,
           gateway' = gateway \/ gateway'.pull = run[r].pull
    PROVE  Inv'
  <1>1. TruePull(run[r].pull) /\ pulled' \subseteq Nat
    BY DEF Inv, TypeOK, PullInv
  <1>2. run[r].pull \in pulled' \cup {0}
    BY <1>1 DEF TruePull
  <1> QED BY <1>1, <1>2, StepInv DEF TruePull

\* A run goes to its next place.
LEMMA Goes ==
    ASSUME Inv, NEW r \in Runs, NEW place \in Places, Go(r, place),
           \/ place \in {"record", "prune"}
           \/ run[r].pc = "setup" /\ place = "sync"
           \/ run[r].pc \in Later /\ place \in Later
    PROVE  \E q \in RunStates : /\ run' = [run EXCEPT ![r] = q]
                                /\ q.pull = run[r].pull /\ Outcome(r, q)
  <1> DEFINE q == [run[r] EXCEPT !.pc = place]
  <1>1. run' = [run EXCEPT ![r] = q]
    BY DEF Go
  <1>2. /\ q \in RunStates /\ q.pull = run[r].pull /\ q.pc = place
        /\ q.exit = run[r].exit /\ q.error = run[r].error
    BY DEF Inv, TypeOK, RunStates
  <1>3. Outcome(r, run[r])
    BY DEF Inv, ResultInv
  <1> HIDE DEF q
  <1>4. Outcome(r, q)
    BY <1>2, <1>3 DEF Outcome, Later
  <1> QED BY <1>1, <1>2, <1>4

\* What the except clauses make of a run.
LEMMA CaughtType ==
    ASSUME Inv, NEW r \in Runs, NEW e \in Errors \cup {"none", "busy", "bug", "interrupt"},
           NEW place \in Later, run[r].pc \in {"setup", "clean"}
    PROVE  LET q == [Caught(r, e) EXCEPT !.pc = place]
           IN q \in RunStates /\ q.pull = run[r].pull /\ Outcome(r, q)
  <1>1. run[r] \in RunStates /\ place \in Places
    BY DEF Inv, TypeOK, Later, Places
  <1>2. Classify(e) \in Reasons
    BY DEF Classify, Reasons
  <1>3. ExitCode(r, e) \in 0..3
    BY DEF ExitCode
  <1> DEFINE code == IF r = Server /\ run[r].ok THEN 0 ELSE ExitCode(r, e)
             c == Caught(r, e)
  <1>4. /\ c \in RunStates /\ c.pull = run[r].pull /\ c.error = e
        /\ c.exit = IF e \in {"none", "interrupt"} THEN run[r].exit ELSE code
    <2>1. CASE e \in {"none", "interrupt"}
      <3>1. c = [run[r] EXCEPT !.error = e]
        BY <2>1 DEF Caught
      <3> QED BY <2>1, <3>1, <1>1 DEF RunStates
    <2>2. CASE e \notin {"none", "interrupt"}
      <3>1. c = [run[r] EXCEPT !.error = e, !.reason = Classify(e), !.exit = code]
        BY <2>2 DEF Caught
      <3>2. code \in 0..3
        BY <1>3
      <3> DEFINE reason == Classify(e)
      <3> HIDE DEF c, code, reason
      <3>3. [run[r] EXCEPT !.error = e] \in RunStates
        BY <1>1 DEF RunStates
      <3>4. [run[r] EXCEPT !.error = e, !.reason = reason] \in RunStates
        BY <1>1, <1>2, <3>3 DEF RunStates, reason
      <3>5. /\ [run[r] EXCEPT !.error = e, !.reason = reason, !.exit = code] \in RunStates
            /\ [run[r] EXCEPT !.error = e, !.reason = reason, !.exit = code].pull = run[r].pull
            /\ [run[r] EXCEPT !.error = e, !.reason = reason, !.exit = code].error = e
            /\ [run[r] EXCEPT !.error = e, !.reason = reason, !.exit = code].exit = code
        BY <1>1, <3>2, <3>4 DEF RunStates
      <3> QED BY <2>2, <3>1, <3>5 DEF reason
    <2> QED BY <2>1, <2>2
  <1> DEFINE q == [c EXCEPT !.pc = place]
  <1>5. Outcome(r, run[r])
    BY DEF Inv, ResultInv
  <1> HIDE DEF c
  <1>6. /\ q \in RunStates /\ q.pull = run[r].pull /\ q.pc = place
        /\ q.error = e /\ q.exit = c.exit
    BY <1>1, <1>4 DEF RunStates
  <1> HIDE DEF q
  <1>7. ASSUME r \in CommandLines PROVE e # "interrupt" => q.exit = Result(r, e)
    <2>1. r # Server /\ run[r].exit = 0
      BY <1>5, <1>7 DEF Outcome
    <2> QED BY <2>1, <1>4, <1>6 DEF Result
  <1>8. Outcome(r, q)
    BY <1>6, <1>7 DEF Outcome, Later
  <1> QED BY <1>6, <1>8 DEF q, c

-----------------------------------------------------------------------------
(* The run.                                                                 *)

\* What is loaded of the state file is a true time, or none.
LEMMA StartInv ==
    ASSUME Inv, NEW r \in Runs, Start(r)
    PROVE  Inv'
  <1>1. PICK wet \in BOOLEAN :
           run' = [run EXCEPT ![r] = [Idle EXCEPT !.pc = "setup", !.wet = wet,
                                                  !.pull = LoadedState]]
    BY DEF Start
  <1> DEFINE q == [Idle EXCEPT !.pc = "setup", !.wet = wet, !.pull = LoadedState]
  <1>2. LoadedState \in pulled \cup {0} /\ LoadedState \in Nat
    <2>1. CASE state \in {Absent, Torn, Foreign}
      BY <2>1 DEF LoadedState
    <2>2. CASE state \notin {Absent, Torn, Foreign}
      <3>1. LoadedState = state
        BY <2>2 DEF LoadedState
      <3>2. state \in pulled \cup {0} /\ pulled \subseteq Nat
        BY <2>2 DEF Inv, TypeOK, PullInv, TruePull
      <3> QED BY <3>1, <3>2
    <2> QED BY <2>1, <2>2
  <1>3. Idle \in RunStates /\ Idle.error = "none" /\ Idle.exit = 0
    BY DEF Idle, RunStates, Places, Reasons
  <1>4. q \in RunStates /\ q.pull = LoadedState
        /\ q.pc = "setup" /\ q.error = "none" /\ q.exit = 0
    BY <1>2, <1>3 DEF RunStates, Places
  <1> HIDE DEF q
  <1>6. Outcome(r, q)
    BY <1>4 DEF Outcome, Later
  <1>5. UNCHANGED <<clock, pulled, state, temp, file, gateway>> /\ clock \in Nat
           /\ pulled \subseteq Nat
    BY DEF Start, sinks, Inv, TypeOK
  <1> QED BY <1>1, <1>2, <1>4, <1>5, <1>6, StepInv DEF TruePull, q

\* What is left of a command line.
LeftOver(q, error, given, alien) ==
    /\ q \in RunStates /\ q.pull = 0 /\ q.pc = "idle" /\ q.ts = 0
    /\ q.error = error /\ q.given = given /\ q.alien = alien

LEMMA OverType ==
    ASSUME NEW error \in Errors \cup {"none", "busy", "bug", "interrupt"},
           NEW given \in 0..4, NEW alien \in BOOLEAN
    PROVE  LeftOver(Over(error, given, alien), error, given, alien)
  <1> Idle \in RunStates /\ Idle.pull = 0 /\ Idle.pc = "idle" /\ Idle.ts = 0
    BY DEF Idle, RunStates, Places, Reasons
  <1>1. [Idle EXCEPT !.error = error] \in RunStates
    BY DEF RunStates
  <1>2. [Idle EXCEPT !.error = error, !.given = given] \in RunStates
    BY <1>1 DEF RunStates
  <1>3. [Idle EXCEPT !.error = error, !.given = given, !.alien = alien] \in RunStates
    BY <1>2 DEF RunStates
  <1> QED BY <1>3 DEF RunStates, Over, LeftOver

\* A run that is over, or killed, is as if it had not been.
LEMMA OverInv ==
    ASSUME Inv, NEW r \in Runs, run' = [run EXCEPT ![r] = Idle],
           UNCHANGED <<clock, pulled, state, temp, file, gateway>>
    PROVE  Inv'
  <1>1. Idle \in RunStates /\ Idle.pull = 0
    BY DEF Idle, RunStates, Places, Reasons
  <1>2. clock' \in Nat /\ pulled' \subseteq Nat
    BY DEF Inv, TypeOK
  <1>3. Outcome(r, Idle)
    BY DEF Outcome, Idle, Later, Result
  <1> QED BY <1>1, <1>2, <1>3, StepInv

\* A state file that cannot be loaded ends a run before it has begun.
LEMMA LoadFailsInv ==
    ASSUME Inv, NEW r \in Runs, LoadFails(r)
    PROVE  Inv'
  <1>1. UNCHANGED <<clock, pulled, state, temp, file, gateway>> /\ clock' \in Nat
           /\ pulled' \subseteq Nat
    BY DEF LoadFails, sinks, histories, Inv, TypeOK
  <1>2. CASE r = Server
    BY <1>1, <1>2, OverInv DEF LoadFails
  <1>3. CASE r # Server
    <2> DEFINE q == Over("none", Traceback, TRUE)
    <2>1. run' = [run EXCEPT ![r] = q]
      BY <1>3 DEF LoadFails
    <2>2. LeftOver(q, "none", Traceback, TRUE)
      <3>1. Traceback \in 0..4
        BY DEF Traceback
      <3> QED BY <3>1, OverType
    <2> HIDE DEF q
    <2>3. Outcome(r, q)
      BY <2>2 DEF LeftOver, Outcome, Later
    <2>4. q \in RunStates /\ q.pull = 0
      BY <2>2 DEF LeftOver
    <2> QED BY <1>1, <2>1, <2>3, <2>4, StepInv
  <1> QED BY <1>2, <1>3

LEMMA LockTaken ==
    ASSUME Inv, NEW r \in Runs, Lock(r)
    PROVE  Inv'
  <1>1. UNCHANGED <<clock, pulled, state, temp, file, gateway>> /\ clock \in Nat
           /\ run[r].pc = "setup"
    BY DEF Lock, sinks, histories, Inv, TypeOK
  <1>2. \E q \in RunStates : /\ run' = [run EXCEPT ![r] = q]
                             /\ q.pull = run[r].pull /\ Outcome(r, q)
    <2>1. CASE Go(r, "sync")
      BY <1>1, <2>1, Goes DEF Places
    <2>2. CASE run' = [run EXCEPT ![r] = [Caught(r, "busy") EXCEPT !.pc = "report"]]
      BY <1>1, <2>2, CaughtType DEF Later
    <2>3. CASE \E e \in Errors :
                  run' = [run EXCEPT ![r] = [Caught(r, e) EXCEPT !.pc = "report"]]
      <3>1. PICK e \in Errors :
                run' = [run EXCEPT ![r] = [Caught(r, e) EXCEPT !.pc = "report"]]
        BY <2>3
      <3> DEFINE q == [Caught(r, e) EXCEPT !.pc = "report"]
      <3>2. q \in RunStates /\ q.pull = run[r].pull /\ Outcome(r, q)
        BY <1>1, CaughtType DEF Later
      <3> QED BY <3>1, <3>2
    <2> QED BY <2>1, <2>2, <2>3 DEF Lock
  <1> QED BY <1>1, <1>2, BusyInv

\* A pull that is not dry makes the time it records true.
LEMMA PullTrue ==
    ASSUME Inv, NEW r \in Runs, Pull(r)
    PROVE  Inv'
  <1>1. /\ clock' = clock + 1 /\ run[r].pc = "sync"
        /\ run' = [run EXCEPT ![r].pull = IF run[r].wet THEN clock' ELSE @]
        /\ pulled' = IF run[r].wet THEN pulled \cup {clock'} ELSE pulled
        /\ UNCHANGED <<state, temp, file, gateway>>
    BY DEF Pull, RecordFileDownload, sinks
  <1> DEFINE q == [run[r] EXCEPT !.pull = IF run[r].wet THEN clock + 1 ELSE run[r].pull]
  <1>2. /\ clock' \in Nat /\ pulled' \subseteq Nat /\ pulled \subseteq pulled'
        /\ run[r] \in RunStates /\ TruePull(run[r].pull)
    BY <1>1 DEF Inv, TypeOK, PullInv
  <1>3. run' = [run EXCEPT ![r] = q]
    BY <1>1, <1>2 DEF RunStates
  <1>4. q \in RunStates /\ q.pc = "sync" /\ q.error = run[r].error /\ q.exit = run[r].exit
        /\ q.pull = IF run[r].wet THEN clock + 1 ELSE run[r].pull
    BY <1>1, <1>2 DEF RunStates
  <1>5. q.pull \in pulled' \cup {0}
    BY <1>1, <1>2, <1>4 DEF TruePull
  <1>6. Outcome(r, q)
    <2>1. Outcome(r, run[r])
      BY DEF Inv, ResultInv
    <2> HIDE DEF q
    <2> QED BY <1>1, <1>4, <2>1 DEF Outcome, Later
  <1> QED BY <1>1, <1>2, <1>3, <1>4, <1>5, <1>6, StepInv

LEMMA SyncedInv ==
    ASSUME Inv, NEW r \in Runs, SyncReturns(r) \/ SyncRaises(r) \/ Clean(r) \/ Unlock(r)
    PROVE  Inv'
  <1>1. UNCHANGED <<clock, pulled, state, temp, file, gateway>> /\ clock \in Nat
           /\ run[r].pc # "idle" /\ run[r] \in RunStates
    BY DEF SyncReturns, SyncRaises, Clean, Unlock, sinks, histories, Inv, TypeOK
  <1>0. Outcome(r, run[r])
    BY DEF Inv, ResultInv
  <1>2. \E q \in RunStates : /\ run' = [run EXCEPT ![r] = q]
                             /\ q.pull = run[r].pull /\ Outcome(r, q)
    <2>1. CASE SyncReturns(r)
      <3> DEFINE q == [run[r] EXCEPT !.pc = "clean", !.ok = TRUE]
      <3>1. run' = [run EXCEPT ![r] = q] /\ run[r].pc = "sync"
        BY <2>1, <1>1 DEF SyncReturns, RunStates
      <3>2. q \in RunStates /\ q.pull = run[r].pull /\ q.pc = "clean" /\ q.exit = run[r].exit
        BY <1>1 DEF RunStates, Places
      <3> HIDE DEF q
      <3>3. Outcome(r, q)
        BY <1>0, <3>1, <3>2 DEF Outcome, Later
      <3> QED BY <3>1, <3>2, <3>3
    <2>2. CASE SyncRaises(r)
      <3>1. PICK e \in Errors \cup {"interrupt"} :
                run' = [run EXCEPT ![r].pc = "clean", ![r].error = e]
        BY <2>2 DEF SyncRaises
      <3> DEFINE q == [run[r] EXCEPT !.pc = "clean", !.error = e]
      <3>0. run[r].pc = "sync"
        BY <2>2 DEF SyncRaises
      <3>2. run' = [run EXCEPT ![r] = q]
        BY <3>1, <1>1 DEF RunStates
      <3>3. q \in RunStates /\ q.pull = run[r].pull /\ q.pc = "clean" /\ q.exit = run[r].exit
        BY <1>1 DEF RunStates, Places
      <3> HIDE DEF q
      <3>4. Outcome(r, q)
        BY <1>0, <3>0, <3>3 DEF Outcome, Later
      <3> QED BY <3>2, <3>3, <3>4
    <2>3. CASE Clean(r)
      <3>1. PICK e \in {run[r].error, "bug"} :
                run' = [run EXCEPT ![r] = [Caught(r, e) EXCEPT !.pc = "unlock"]]
        BY <2>3 DEF Clean
      <3>2. e \in Errors \cup {"none", "busy", "bug", "interrupt"} /\ run[r].pc = "clean"
        BY <2>3, <1>1 DEF RunStates, Clean
      <3> DEFINE q == [Caught(r, e) EXCEPT !.pc = "unlock"]
      <3>3. q \in RunStates /\ q.pull = run[r].pull /\ Outcome(r, q)
        BY <3>2, CaughtType DEF Later
      <3> QED BY <3>1, <3>3
    <2>4. CASE Unlock(r)
      BY <2>4, Goes DEF Unlock, Places, Later
    <2> QED BY <2>1, <2>2, <2>3, <2>4 DEF SyncReturns, SyncRaises, Clean, Unlock
  <1> QED BY <1>1, <1>2, BusyInv

-----------------------------------------------------------------------------
(* The reports.                                                             *)

LEMMA FinalizeInv ==
    ASSUME Inv, NEW r \in Runs, Finalize(r)
    PROVE  Inv'
  <1> DEFINE q == [run[r] EXCEPT !.pc = "save", !.ts = clock + 1]
  <1>1. run[r] \in RunStates /\ run[r].pc # "idle" /\ clock' = clock + 1 /\ clock' \in Nat
        /\ UNCHANGED <<pulled, state, temp, file, gateway>>
    BY DEF Finalize, sinks, Inv, TypeOK
  <1>2. run' = [run EXCEPT ![r] = q]
    BY <1>1 DEF Finalize, RunStates
  <1>3. /\ q \in RunStates /\ q.pull = run[r].pull /\ q.pc = "save"
        /\ q.exit = run[r].exit /\ q.error = run[r].error
    BY <1>1 DEF RunStates, Places
  <1>4. run[r].pc = "report" /\ Outcome(r, run[r])
    BY DEF Finalize, Inv, ResultInv
  <1> HIDE DEF q
  <1>5. Outcome(r, q)
    BY <1>3, <1>4 DEF Outcome, Later
  <1> QED BY <1>1, <1>2, <1>3, <1>5, BusyInv

\* The state file is truncated, or has what the run has loaded or pulled.
LEMMA StateInv ==
    ASSUME Inv, NEW r \in Runs, OpenState(r) \/ WriteState(r)
    PROVE  Inv'
  <1>1. /\ UNCHANGED <<clock, pulled, temp, file, gateway>> /\ clock' \in Nat
        /\ run[r].pc \in {"save", "state"}
        /\ state' \in {state, Absent, Torn, run[r].pull}
    BY DEF OpenState, WriteState, histories, Inv, TypeOK
  <1>2. Go(r, "emit") \/ Go(r, "state")
    BY DEF OpenState, WriteState
  <1>3. \E q \in RunStates : /\ run' = [run EXCEPT ![r] = q]
                             /\ q.pull = run[r].pull /\ Outcome(r, q)
    BY <1>1, <1>2, Goes DEF Places, Later
  <1> QED BY <1>1, <1>3, BusyInv

LEMMA PayloadTrue ==
    ASSUME NEW r \in Runs PROVE Payload(r).pull = run[r].pull
  BY DEF Payload

\* The metrics file and its temporary one have what a run has loaded or pulled,
\* whosever they are.
LEMMA FileInv ==
    ASSUME Inv, NEW r \in Runs, OpenTemp(r) \/ WriteTemp(r) \/ Replace(r)
    PROVE  Inv'
  <1>1. /\ UNCHANGED <<clock, pulled, state, gateway>> /\ clock' \in Nat
        /\ run[r].pc \in {"emit", "text", "replace"}
    BY DEF OpenTemp, WriteTemp, Replace, Inv, TypeOK
  <1>2. Go(r, "text") \/ Go(r, "replace") \/ Go(r, "push")
    BY DEF OpenTemp, WriteTemp, Replace, GiveUp
  <1>3. /\ temp' \in {temp, file, Absent, Torn} \/ temp'.pull = run[r].pull
        /\ file' \in {temp, file, Absent, Torn} \/ file'.pull = run[r].pull
    <2>1. CASE GiveUp(r)
      BY <2>1 DEF GiveUp
    <2>2. CASE OpenTemp(r) /\ ~GiveUp(r)
      BY <2>2 DEF OpenTemp, OpenTruncated
    <2>3. CASE WriteTemp(r) /\ ~GiveUp(r)
      <3>1. CASE fd[r] = "temp"
        BY <2>3, <3>1, PayloadTrue DEF WriteTemp, Written
      <3>2. CASE fd[r] = "file"
        BY <2>3, <3>2, PayloadTrue DEF WriteTemp, Written
      <3>3. CASE fd[r] \notin {"temp", "file"}
        BY <2>3, <3>3 DEF WriteTemp
      <3> QED BY <3>1, <3>2, <3>3
    <2>4. CASE Replace(r) /\ ~GiveUp(r)
      BY <2>4 DEF Replace
    <2> QED BY <2>1, <2>2, <2>3, <2>4
  <1>4. \E q \in RunStates : /\ run' = [run EXCEPT ![r] = q]
                             /\ q.pull = run[r].pull /\ Outcome(r, q)
    BY <1>1, <1>2, Goes DEF Places, Later
  <1> QED BY <1>1, <1>3, <1>4, BusyInv

\* The last report gives the caller what the except clauses have made of the sync, or
\* a traceback: the interrupt, or what a gateway that does not speak HTTP makes of it.
LEMMA PushInv ==
    ASSUME Inv, NEW r \in Runs, Push(r)
    PROVE  Inv'
  <1>1. /\ UNCHANGED <<clock, pulled, state, temp, file>> /\ clock' \in Nat
        /\ run[r] \in RunStates /\ run[r].pc = "push" /\ pulled' \subseteq Nat
        /\ TruePull(run[r].pull) /\ gateway' \in {gateway, Payload(r)}
    BY DEF Push, histories, Inv, TypeOK, PullInv
  <1>2. gateway' = gateway \/ gateway'.pull \in pulled' \cup {0}
    BY <1>1, PayloadTrue DEF TruePull
  <1>3. Done(r, Returned(r), FALSE) \/ Done(r, Traceback, TRUE)
    BY DEF Push, PushFails
  <1>4. CASE r = Server
    <2>1. Go(r, "record")
      BY <1>3, <1>4 DEF Done, Go, RunStates, Inv, TypeOK
    <2>2. \E q \in RunStates : /\ run' = [run EXCEPT ![r] = q]
                               /\ q.pull = run[r].pull /\ Outcome(r, q)
      BY <2>1, Goes DEF Places
    <2> QED BY <1>1, <2>2, PayloadTrue, BusyInv
  <1>5. CASE r # Server
    <2>1. PICK given \in {Returned(r), Traceback}, alien \in BOOLEAN :
              /\ run' = [run EXCEPT ![r] = Over(run[r].error, given, alien)]
              /\ given = Returned(r) \/ (alien /\ given = Traceback)
      <3>1. CASE Done(r, Returned(r), FALSE)
        BY <3>1, <1>5 DEF Done
      <3>2. CASE Done(r, Traceback, TRUE)
        BY <3>2, <1>5 DEF Done
      <3> QED BY <1>3, <3>1, <3>2
    <2>2. given \in 0..4
      BY <1>1 DEF Returned, Traceback, RunStates
    <2> DEFINE q == Over(run[r].error, given, alien)
    <2>3. LeftOver(q, run[r].error, given, alien)
      <3>1. run[r].error \in Errors \cup {"none", "busy", "bug", "interrupt"}
        BY <1>1 DEF RunStates
      <3>2. given \in 0..4 /\ alien \in BOOLEAN
        BY <2>2
      <3> QED BY <3>1, <3>2, OverType
    <2>4. run' = [run EXCEPT ![r] = q]
      BY <2>1
    <2> HIDE DEF q
    <2>5. r \in CommandLines => Returned(r) = Result(r, run[r].error)
      <3>1. Outcome(r, run[r])
        BY DEF Inv, ResultInv
      <3>2. CASE run[r].error = "interrupt"
        BY <3>2 DEF Returned, Result
      <3>3. CASE run[r].error # "interrupt"
        BY <1>1, <3>1, <3>3 DEF Returned, Outcome, Later
      <3> QED BY <3>2, <3>3
    <2>6. Outcome(r, q)
      BY <2>1, <2>3, <2>5 DEF LeftOver, Outcome, Later
    <2>7. q \in RunStates /\ q.pull = 0
      BY <2>3 DEF LeftOver
    <2> QED BY <1>1, <1>2, <2>4, <2>6, <2>7, StepInv DEF TruePull
  <1> QED BY <1>4, <1>5

LEMMA RecordedInv ==
    ASSUME Inv, NEW r \in Runs, RecordRun(r) \/ Prune(r) \/ Kill(r)
    PROVE  Inv'
  <1>1. /\ UNCHANGED <<clock, pulled, state, temp, file, gateway>> /\ clock' \in Nat
        /\ run[r].pc # "idle"
    BY DEF RecordRun, Prune, Kill, histories, Inv, TypeOK
  <1>2. run' = [run EXCEPT ![r] = Idle] \/ Go(r, "prune")
    BY DEF RecordRun, Prune, Kill
  <1>3. CASE Go(r, "prune")
    <2>1. \E q \in RunStates : /\ run' = [run EXCEPT ![r] = q]
                               /\ q.pull = run[r].pull /\ Outcome(r, q)
      BY <1>3, Goes DEF Places
    <2> QED BY <1>1, <2>1, BusyInv
  <1> QED BY <1>1, <1>2, <1>3, OverInv

\* Every step preserves the invariant.
LEMMA NextInv == Inv /\ [Next]_vars => Inv'
  <1> SUFFICES ASSUME Inv, [Next]_vars PROVE Inv'
    OBVIOUS
  <1>1. CASE UNCHANGED vars
    BY <1>1 DEF vars, sinks, histories, Inv, TypeOK, PullInv, TruePull, Reported,
                ResultInv, Outcome
  <1>2. ASSUME NEW r \in Runs, Synchronise(r) PROVE Inv'
    BY <1>2, LoadFailsInv, StartInv, LockTaken, PullTrue, SyncedInv DEF Synchronise
  <1>3. ASSUME NEW r \in Runs, Report(r) \/ Kill(r) PROVE Inv'
    BY <1>3, FinalizeInv, StateInv, FileInv, PushInv, RecordedInv DEF Report
  <1> QED BY <1>1, <1>2, <1>3 DEF Next

-----------------------------------------------------------------------------
(* What a step does to the place, the last pull and the time of its run.    *)

Others(r) == \A s \in Runs \ {r} : run'[s] = run[s]

LEMMA GoFacts ==
    ASSUME Inv, NEW r \in Runs, NEW place \in Places, Go(r, place)
    PROVE  /\ Others(r) /\ run'[r].pc = place /\ run'[r].pull = run[r].pull
           /\ run'[r].ts = run[r].ts /\ Payload(r)' = Payload(r)
  <1>1. run[r] \in RunStates /\ run \in [Runs -> RunStates]
    BY DEF Inv, TypeOK
  <1>2. run'[r] = [run[r] EXCEPT !.pc = place] /\ Others(r)
    BY <1>1 DEF Go, Others
  <1> QED BY <1>1, <1>2 DEF RunStates, Payload

LEMMA CaughtFacts ==
    ASSUME Inv, NEW r \in Runs, NEW e, NEW place \in Places,
           run' = [run EXCEPT ![r] = [Caught(r, e) EXCEPT !.pc = place]]
    PROVE  /\ Others(r) /\ run'[r].pc = place /\ run'[r].pull = run[r].pull
           /\ run'[r].ts = run[r].ts
  <1>1. run[r] \in RunStates /\ run \in [Runs -> RunStates]
    BY DEF Inv, TypeOK
  <1>2. run'[r] = [Caught(r, e) EXCEPT !.pc = place] /\ Others(r)
    BY <1>1 DEF Others
  <1>3. /\ DOMAIN Caught(r, e) = DOMAIN run[r]
        /\ Caught(r, e).pull = run[r].pull /\ Caught(r, e).ts = run[r].ts
    BY <1>1 DEF Caught, RunStates
  <1> QED BY <1>1, <1>2, <1>3 DEF RunStates

\* From the lock to its release a run stays out of the files and the rows.
LEMMA SyncMoves ==
    ASSUME Inv, NEW r \in Runs,
           Lock(r) \/ SyncReturns(r) \/ SyncRaises(r) \/ Clean(r) \/ Unlock(r)
    PROVE  /\ Others(r) /\ run'[r].pull = run[r].pull /\ run'[r].ts = run[r].ts
           /\ run[r].pc \in {"setup", "sync", "clean", "unlock"}
           /\ run'[r].pc \in {"sync", "clean", "unlock", "report"}
           /\ UNCHANGED <<clock, sinks, histories>> /\ faults' \in {faults, faults + 1}
  <1>1. /\ run[r].pc \in {"setup", "sync", "clean", "unlock"}
        /\ UNCHANGED <<clock, sinks, histories>> /\ faults' \in {faults, faults + 1}
    BY DEF Lock, SyncReturns, SyncRaises, Clean, Unlock, Fault
  <1>2. run[r] \in RunStates /\ run \in [Runs -> RunStates]
    BY DEF Inv, TypeOK
  <1>3. CASE Lock(r)
    <2>1. CASE Go(r, "sync")
      BY <1>1, <2>1, GoFacts DEF Places
    <2>2. CASE \E e \in Errors \cup {"busy"} :
                  run' = [run EXCEPT ![r] = [Caught(r, e) EXCEPT !.pc = "report"]]
      BY <1>1, <2>2, CaughtFacts DEF Places
    <2> QED BY <1>3, <2>1, <2>2 DEF Lock
  <1>4. CASE SyncReturns(r)
    <2>1. run'[r] = [run[r] EXCEPT !.pc = "clean", !.ok = TRUE] /\ Others(r)
      BY <1>2, <1>4 DEF SyncReturns, Others
    <2> QED BY <1>1, <1>2, <2>1 DEF RunStates
  <1>5. CASE SyncRaises(r)
    <2>1. PICK e : run' = [run EXCEPT ![r].pc = "clean", ![r].error = e]
      BY <1>5 DEF SyncRaises
    <2>2. run'[r] = [run[r] EXCEPT !.pc = "clean", !.error = e] /\ Others(r)
      BY <1>2, <2>1 DEF Others
    <2> QED BY <1>1, <1>2, <2>2 DEF RunStates
  <1>6. CASE Clean(r)
    <2>1. PICK e : run' = [run EXCEPT ![r] = [Caught(r, e) EXCEPT !.pc = "unlock"]]
      BY <1>6 DEF Clean
    <2> QED BY <1>1, <2>1, CaughtFacts DEF Places
  <1>7. CASE Unlock(r)
    BY <1>1, <1>7, GoFacts DEF Unlock, Places
  <1> QED BY <1>3, <1>4, <1>5, <1>6, <1>7

\* A run that ends: of a command line what it returned is left.
LEMMA EndMoves ==
    ASSUME Inv, NEW r \in Runs, Push(r) \/ RecordRun(r) \/ Prune(r) \/ Kill(r)
    PROVE  /\ Others(r) /\ run[r].pc # "idle" /\ faults' \in {faults, faults + 1}
           /\ \/ run'[r].pc = "idle" /\ run'[r].pull = 0 /\ run'[r].ts = 0
              \/ /\ \/ Push(r) /\ r = Server /\ run'[r].pc = "record"
                    \/ RecordRun(r) /\ run'[r].pc = "prune"
                 /\ run'[r].pull = run[r].pull /\ run'[r].ts = run[r].ts
           /\ UNCHANGED <<clock, state, temp, file, pulled, high, shown, overlap, clash>>
  <1>1. /\ run[r].pc # "idle" /\ faults' \in {faults, faults + 1}
        /\ UNCHANGED <<clock, state, temp, file, pulled, high, shown, overlap, clash>>
    BY DEF Push, PushFails, RecordRun, Prune, Kill, Fault, histories
  <1>2. run[r] \in RunStates /\ run \in [Runs -> RunStates]
    BY DEF Inv, TypeOK
  <1>3. Idle.pc = "idle" /\ Idle.pull = 0 /\ Idle.ts = 0
    BY DEF Idle
  <1>4. CASE run' = [run EXCEPT ![r] = Idle]
    BY <1>1, <1>2, <1>3, <1>4 DEF Others
  <1>5. CASE Push(r)
    <2>1. PICK given, alien : Done(r, given, alien)
      BY <1>5 DEF Push, PushFails
    <2>2. CASE r = Server
      <3>1. Go(r, "record")
        BY <1>2, <2>1, <2>2 DEF Done, Go, RunStates
      <3> QED BY <1>1, <1>5, <2>2, <3>1, GoFacts DEF Places
    <2>3. CASE r # Server
      <3> DEFINE q == Over(run[r].error, given, alien)
      <3>1. run'[r] = q /\ Others(r)
        BY <1>2, <2>1, <2>3 DEF Done, Others
      <3>2. q.pc = "idle" /\ q.pull = 0 /\ q.ts = 0
        BY DEF Over, Idle
      <3> HIDE DEF q
      <3> QED BY <1>1, <3>1, <3>2
    <2> QED BY <2>2, <2>3
  <1>6. CASE RecordRun(r) /\ Go(r, "prune")
    BY <1>1, <1>6, GoFacts DEF Places
  <1> QED BY <1>4, <1>5, <1>6 DEF RecordRun, Prune, Kill

\* A report finds its way by places of its own.
LEMMA ReportMoves ==
    ASSUME Inv, NEW r \in Runs,
           OpenState(r) \/ WriteState(r) \/ OpenTemp(r) \/ WriteTemp(r) \/ Replace(r)
    PROVE  /\ Others(r) /\ run'[r].pull = run[r].pull /\ run'[r].ts = run[r].ts
           /\ Payload(r)' = Payload(r) /\ Reporting(r)
           /\ run'[r].pc \in {"state", "emit", "text", "replace", "push"}
           /\ faults' \in {faults, faults + 1}
           /\ UNCHANGED <<clock, rows, pulled, ended, overlap, clash>>
  <1>1. /\ faults' \in {faults, faults + 1} /\ Reporting(r)
        /\ UNCHANGED <<clock, rows, pulled, ended, overlap, clash>>
    BY DEF OpenState, WriteState, OpenTemp, WriteTemp, Replace, Fault, histories, Reporting
  <1>2. \E place \in {"state", "emit", "text", "replace", "push"} : Go(r, place)
    BY DEF OpenState, WriteState, OpenTemp, WriteTemp, Replace, GiveUp
  <1> QED BY <1>1, <1>2, GoFacts DEF Places

LEMMA FinalizeMoves ==
    ASSUME Inv, NEW r \in Runs, Finalize(r)
    PROVE  /\ Others(r) /\ run'[r].pull = run[r].pull /\ run'[r].ts = clock'
           /\ run[r].pc = "report" /\ run'[r].pc = "save" /\ clock' = clock + 1
           /\ UNCHANGED <<sinks, faults, pulled, high, shown, ended, overlap>>
  <1>1. run[r] \in RunStates /\ run \in [Runs -> RunStates]
    BY DEF Inv, TypeOK
  <1>2. run'[r] = [run[r] EXCEPT !.pc = "save", !.ts = clock'] /\ Others(r)
    BY <1>1 DEF Finalize, Others
  <1> QED BY <1>1, <1>2 DEF Finalize, RunStates

LEMMA LoadFailsMoves ==
    ASSUME Inv, NEW r \in Runs, LoadFails(r)
    PROVE  /\ Others(r) /\ run'[r].pc = "idle" /\ run'[r].pull = 0 /\ run'[r].ts = 0
           /\ run[r].pc = "idle" /\ UNCHANGED <<clock, sinks, faults, histories>>
  <1>1. run \in [Runs -> RunStates]
    BY DEF Inv, TypeOK
  <1> DEFINE q == IF r = Server THEN Idle ELSE Over("none", Traceback, TRUE)
  <1>2. run'[r] = q /\ Others(r)
    BY <1>1 DEF LoadFails, Others
  <1>3. q.pc = "idle" /\ q.pull = 0 /\ q.ts = 0
    BY DEF Idle, Over
  <1> HIDE DEF q
  <1> QED BY <1>2, <1>3 DEF LoadFails

LEMMA StartMoves ==
    ASSUME Inv, NEW r \in Runs, Start(r)
    PROVE  /\ Others(r) /\ run'[r].pull = LoadedState /\ run'[r].ts = 0
           /\ run[r].pc = "idle" /\ run'[r].pc = "setup"
           /\ overlap' = (overlap \/ \E q \in Runs : run[q].pc # "idle")
           /\ UNCHANGED <<clock, sinks, faults, pulled, high, shown, ended, clash>>
  <1>1. run \in [Runs -> RunStates]
    BY DEF Inv, TypeOK
  <1>2. PICK wet \in BOOLEAN :
            run' = [run EXCEPT ![r] = [Idle EXCEPT !.pc = "setup", !.wet = wet,
                                                   !.pull = LoadedState]]
    BY DEF Start
  <1>3. /\ run'[r] = [Idle EXCEPT !.pc = "setup", !.wet = wet, !.pull = LoadedState]
        /\ Others(r)
    BY <1>1, <1>2 DEF Others
  <1> QED BY <1>3 DEF Start, Idle

LEMMA PullMoves ==
    ASSUME Inv, NEW r \in Runs, Pull(r)
    PROVE  /\ Others(r) /\ run'[r].ts = run[r].ts
           /\ run[r].pc = "sync" /\ run'[r].pc = "sync" /\ clock' = clock + 1
           /\ run'[r].pull = run[r].pull \/ run'[r].pull = clock'
           /\ pulled' \in {pulled, pulled \cup {clock'}}
           /\ UNCHANGED <<sinks, faults, high, shown, ended, overlap, clash>>
  <1>1. run[r] \in RunStates /\ run \in [Runs -> RunStates]
    BY DEF Inv, TypeOK
  <1>2. /\ run'[r] = [run[r] EXCEPT !.pull = IF run[r].wet THEN clock' ELSE run[r].pull]
        /\ Others(r)
    BY <1>1 DEF Pull, RecordFileDownload, Others
  <1> QED BY <1>1, <1>2 DEF Pull, RecordFileDownload, RunStates

-----------------------------------------------------------------------------
(* The time that is kept.                                                   *)

LEMMA MaxFacts ==
    ASSUME NEW a \in Nat, NEW b \in Nat
    PROVE  Max({a, b}) \in {a, b} /\ Max({a, b}) >= a /\ Max({a, b}) >= b
  <1>1. \E x \in {a, b} : \A y \in {a, b} : x >= y
    OBVIOUS
  <1>2. Max({a, b}) \in {a, b} /\ \A y \in {a, b} : Max({a, b}) >= y
    BY <1>1 DEF Max
  <1> QED BY <1>2

\* A step of a run that leaves the state file alone, and times that were pulled.
LEMMA KeptQuiet ==
    ASSUME Inv, KeptInv, NEW r \in Runs, Others(r),
           run[r].pc # "idle" \/ run'[r].pc = "idle",
           run'[r].pc # "state", run[r].pc = "state" => faults' = faults + 1,
           \/ run'[r].pull = run[r].pull /\ run'[r].pc # "idle"
           \/ run'[r].pull = 0,
           faults' \in {faults, faults + 1}, clock' \in {clock, clock + 1},
           UNCHANGED <<state, high, overlap, pulled>>
    PROVE  KeptInv'
  <1>1. pulled' \subseteq 0..clock' /\ high' \in 0..clock' /\ faults' \in Nat
    BY DEF KeptInv, Inv, TypeOK
  <1>2. CASE overlap
    BY <1>1, <1>2 DEF KeptInv, StateKept
  <1>3. CASE ~overlap
    <2>1. /\ \A p, q \in Runs : run[p].pc # "idle" /\ run[q].pc # "idle" => p = q
          /\ \A s \in Runs : /\ run[s].pull = 0 \/ (run[s].pc # "idle" /\ run[s].pull >= high)
                             /\ run[s].pc = "state" => state = Torn /\ run[s].pull # 0
          /\ state \in {Absent, Torn, Foreign, high}
          /\ state = Torn => faults > 0 \/ \E s \in Runs : run[s].pc = "state"
      BY <1>3 DEF KeptInv, StateKept
    <2>2. \A p, q \in Runs : run'[p].pc # "idle" /\ run'[q].pc # "idle" => p = q
      BY <2>1 DEF Others
    <2>3. \A s \in Runs : /\ run'[s].pull = 0 \/ (run'[s].pc # "idle" /\ run'[s].pull >= high')
                          /\ run'[s].pc = "state" => state' = Torn /\ run'[s].pull # 0
      BY <2>1 DEF Others
    <2>4. state = Torn => faults' > 0 \/ \E s \in Runs : run'[s].pc = "state"
      <3>1. faults \in Nat
        BY DEF KeptInv
      <3> QED BY <2>1, <3>1 DEF Others
    <2> QED BY <1>1, <2>1, <2>2, <2>3, <2>4 DEF KeptInv, StateKept
  <1> QED BY <1>2, <1>3

LEMMA StartKept ==
    ASSUME Inv, KeptInv, NEW r \in Runs, Start(r)
    PROVE  KeptInv'
  <1>1. /\ Others(r) /\ run'[r].pull = LoadedState
        /\ run[r].pc = "idle" /\ run'[r].pc = "setup"
        /\ overlap' = (overlap \/ \E q \in Runs : run[q].pc # "idle")
        /\ UNCHANGED <<clock, state, faults, pulled, high>>
    BY StartMoves DEF sinks
  <1>2. pulled' \subseteq 0..clock' /\ high' \in 0..clock' /\ faults' \in Nat
    BY <1>1 DEF KeptInv
  <1>3. CASE overlap'
    BY <1>2, <1>3 DEF KeptInv, StateKept
  <1>4. CASE ~overlap'
    <2>1. ~overlap /\ \A q \in Runs : run[q].pc = "idle"
      BY <1>1, <1>4
    <2>2. /\ \A s \in Runs : run[s].pull = 0
          /\ state \in {Absent, Torn, Foreign, high}
          /\ state = Torn => faults > 0
      BY <2>1 DEF KeptInv, StateKept
    <2>3. \A p, q \in Runs : run'[p].pc # "idle" /\ run'[q].pc # "idle" => p = q
      BY <1>1, <2>1 DEF Others
    <2>4. LoadedState = 0 \/ LoadedState = high
      BY <2>2 DEF LoadedState
    <2>5. high \in Nat /\ high >= high
      BY <1>1, <1>2
    <2>6. \A s \in Runs : /\ run'[s].pull = 0 \/ (run'[s].pc # "idle" /\ run'[s].pull >= high')
                          /\ run'[s].pc = "state" => state' = Torn /\ run'[s].pull # 0
      BY <1>1, <2>1, <2>2, <2>4, <2>5 DEF Others
    <2> QED BY <1>1, <1>2, <2>2, <2>3, <2>6 DEF KeptInv, StateKept
  <1> QED BY <1>3, <1>4

\* What is pulled is later than what was ever kept.
LEMMA PullKept ==
    ASSUME Inv, KeptInv, NEW r \in Runs, Pull(r)
    PROVE  KeptInv'
  <1>1. /\ Others(r) /\ run[r].pc = "sync" /\ run'[r].pc = "sync" /\ clock' = clock + 1
        /\ run'[r].pull = run[r].pull \/ run'[r].pull = clock'
        /\ pulled' \in {pulled, pulled \cup {clock'}}
        /\ UNCHANGED <<state, faults, high, overlap>>
    BY PullMoves DEF sinks
  <1>2. /\ pulled \subseteq 0..clock /\ high \in 0..clock /\ faults \in Nat /\ clock \in Nat
    BY DEF KeptInv, Inv, TypeOK
  <1>3. pulled' \subseteq 0..clock' /\ high' \in 0..clock' /\ faults' \in Nat
    BY <1>1, <1>2
  <1>4. CASE overlap
    BY <1>1, <1>3, <1>4 DEF KeptInv, StateKept
  <1>5. CASE ~overlap
    <2>1. /\ \A p, q \in Runs : run[p].pc # "idle" /\ run[q].pc # "idle" => p = q
          /\ \A s \in Runs : /\ run[s].pull = 0 \/ (run[s].pc # "idle" /\ run[s].pull >= high)
                             /\ run[s].pc = "state" => state = Torn /\ run[s].pull # 0
          /\ state \in {Absent, Torn, Foreign, high}
          /\ state = Torn => faults > 0 \/ \E s \in Runs : run[s].pc = "state"
      BY <1>5 DEF KeptInv, StateKept
    <2>2. \A p, q \in Runs : run'[p].pc # "idle" /\ run'[q].pc # "idle" => p = q
      BY <1>1, <2>1 DEF Others
    <2>3. clock' >= high
      BY <1>1, <1>2
    <2>4. \A s \in Runs : /\ run'[s].pull = 0 \/ (run'[s].pc # "idle" /\ run'[s].pull >= high')
                          /\ run'[s].pc = "state" => state' = Torn /\ run'[s].pull # 0
      BY <1>1, <2>1, <2>3 DEF Others
    <2>5. state = Torn => faults' > 0 \/ \E s \in Runs : run'[s].pc = "state"
      BY <1>1, <2>1 DEF Others
    <2> QED BY <1>1, <1>3, <2>1, <2>2, <2>4, <2>5 DEF KeptInv, StateKept
  <1> QED BY <1>4, <1>5

\* A save truncates the state file, and then it has what was pulled or loaded.
LEMMA SaveKept ==
    ASSUME Inv, KeptInv, NEW r \in Runs, OpenState(r) \/ WriteState(r)
    PROVE  KeptInv'
  <1>1. /\ Others(r) /\ run'[r].pull = run[r].pull /\ faults' \in {faults, faults + 1}
        /\ UNCHANGED <<clock, pulled, overlap>>
    BY ReportMoves
  <1>2. /\ pulled \subseteq 0..clock /\ high \in 0..clock /\ faults \in Nat /\ clock \in Nat
        /\ run[r].pull \in pulled \cup {0} /\ faults' \in Nat
    BY <1>1 DEF KeptInv, Inv, TypeOK, PullInv, TruePull
  <1>3. CASE OpenState(r)
    <2>1. UNCHANGED high /\ run[r].pc = "save"
      BY <1>3 DEF OpenState, histories
    <2>2. CASE state' = state /\ run'[r].pc = "emit"
      BY <1>1, <2>1, <2>2, KeptQuiet
    <2>3. CASE state' = Torn /\ run'[r].pc = "state" /\ run[r].pull # 0
      <3>1. CASE overlap
        BY <1>1, <1>2, <2>1, <3>1 DEF KeptInv, StateKept
      <3>2. CASE ~overlap
        <4>1. /\ \A p, q \in Runs : run[p].pc # "idle" /\ run[q].pc # "idle" => p = q
              /\ \A s \in Runs :
                    run[s].pull = 0 \/ (run[s].pc # "idle" /\ run[s].pull >= high)
          BY <3>2 DEF KeptInv
        <4>2. \A p, q \in Runs : run'[p].pc # "idle" /\ run'[q].pc # "idle" => p = q
          BY <1>1, <2>1, <4>1 DEF Others
        <4>3. \A s \in Runs :
                 /\ run'[s].pull = 0 \/ (run'[s].pc # "idle" /\ run'[s].pull >= high')
                 /\ run'[s].pc = "state" => state' = Torn /\ run'[s].pull # 0
          BY <1>1, <2>1, <2>3, <4>1 DEF Others
        <4> QED BY <1>1, <1>2, <2>1, <2>3, <4>2, <4>3 DEF KeptInv, StateKept
      <3> QED BY <3>1, <3>2
    <2>4. \/ state' = state /\ Go(r, "emit")
          \/ state' = Torn /\ Go(r, "state") /\ run[r].pull # 0
      BY <1>3 DEF OpenState, NoPull
    <2> QED BY <2>2, <2>3, <2>4, GoFacts DEF Places
  <1>4. CASE WriteState(r)
    <2>1. run[r].pc = "state" /\ run'[r].pc = "emit"
      BY <1>4, GoFacts DEF WriteState, Places
    <2>2. /\ state' \in {run[r].pull, state, Torn}
          /\ high' = IF state' = Torn THEN high ELSE Max({high, LoadedState'})
          /\ \/ state' = run[r].pull
             \/ state' = Torn /\ state # Torn
             \/ state' = state /\ faults' = faults + 1
      BY <1>4 DEF WriteState, Fault
    <2>3. state' \in {Absent, Torn, Foreign} \/ state' \in pulled \cup {0}
      BY <1>2, <2>2 DEF Inv, PullInv, TruePull
    <2>4. LoadedState' \in 0..clock
      <3>1. LoadedState' = 0 \/ LoadedState' \in pulled
        BY <2>3 DEF LoadedState
      <3>2. \A p \in pulled \cup {0} : p \in 0..clock
        BY <1>2
      <3> QED BY <3>1, <3>2
    <2>5. high' \in 0..clock
      <3>1. high \in Nat /\ LoadedState' \in Nat /\ high <= clock /\ LoadedState' <= clock
        BY <1>2, <2>4
      <3>2. Max({high, LoadedState'}) \in {high, LoadedState'}
        BY <3>1, MaxFacts
      <3>3. high' = high \/ high' = LoadedState'
        BY <2>2, <3>2
      <3> QED BY <1>2, <2>4, <3>3
    <2>6. CASE overlap
      BY <1>1, <1>2, <2>5, <2>6 DEF KeptInv, StateKept
    <2>7. CASE ~overlap
      <3>1. /\ \A p, q \in Runs : run[p].pc # "idle" /\ run[q].pc # "idle" => p = q
            /\ \A s \in Runs : run[s].pull = 0 \/ (run[s].pc # "idle" /\ run[s].pull >= high)
            /\ state = Torn /\ run[r].pull # 0
        BY <2>1, <2>7 DEF KeptInv
      <3>2. \A p, q \in Runs : run'[p].pc # "idle" /\ run'[q].pc # "idle" => p = q
        BY <1>1, <2>1, <3>1 DEF Others
      <3>3. \A s \in Runs \ {r} : run[s].pull = 0 /\ run[s].pc # "state"
        BY <2>1, <3>1
      <3>4. /\ run[r].pull \in Nat /\ run[r].pull >= high
            /\ run[r].pull \notin {Absent, Torn, Foreign}
        <4>1. run[r].pull \in 0..clock
          <5>1. \A p \in pulled \cup {0} : p \in 0..clock
            BY <1>2
          <5> QED BY <1>2, <5>1
        <4>2. run[r].pull \in Nat /\ run[r].pull >= high
          BY <1>2, <3>1, <4>1
        <4> QED BY <4>2, ContentsAssumption
      <3>5. CASE state' = run[r].pull
        <4>1. LoadedState' = run[r].pull /\ state' # Torn
          BY <3>4, <3>5 DEF LoadedState
        <4>2. high' = run[r].pull
          <5>1. high' = Max({high, run[r].pull}) /\ high \in Nat
            BY <1>2, <2>2, <4>1
          <5>2. high' \in {high, run[r].pull} /\ high' >= high /\ high' >= run[r].pull
            BY <3>4, <5>1, MaxFacts
          <5> QED BY <3>4, <5>1, <5>2
        <4>3. \A s \in Runs :
                 /\ run'[s].pull = 0 \/ (run'[s].pc # "idle" /\ run'[s].pull >= high')
                 /\ run'[s].pc = "state" => state' = Torn /\ run'[s].pull # 0
          BY <1>1, <2>1, <3>3, <3>4, <4>2 DEF Others
        <4> QED BY <1>1, <1>2, <2>5, <3>2, <3>5, <4>1, <4>2, <4>3 DEF KeptInv, StateKept
      <3>6. CASE state' = state /\ faults' = faults + 1
        <4>1. high' = high /\ state' = Torn /\ faults' > 0
          BY <1>2, <2>2, <3>1, <3>6
        <4>2. \A s \in Runs :
                 /\ run'[s].pull = 0 \/ (run'[s].pc # "idle" /\ run'[s].pull >= high')
                 /\ run'[s].pc = "state" => state' = Torn /\ run'[s].pull # 0
          BY <1>1, <2>1, <3>3, <3>4, <4>1 DEF Others
        <4> QED BY <1>1, <1>2, <2>5, <3>2, <4>1, <4>2 DEF KeptInv, StateKept
      <3> QED BY <2>2, <3>1, <3>5, <3>6
    <2> QED BY <2>6, <2>7
  <1> QED BY <1>3, <1>4

LEMMA NextKept == Inv /\ KeptInv /\ [Next]_vars => KeptInv'
  <1> SUFFICES ASSUME Inv, KeptInv, [Next]_vars PROVE KeptInv'
    OBVIOUS
  <1>1. CASE UNCHANGED vars
    BY <1>1 DEF vars, sinks, histories, KeptInv, StateKept
  <1>2. ASSUME NEW r \in Runs, Synchronise(r) PROVE KeptInv'
    <2>1. CASE Lock(r) \/ SyncReturns(r) \/ SyncRaises(r) \/ Clean(r) \/ Unlock(r)
      BY <2>1, SyncMoves, KeptQuiet DEF sinks, histories
    <2>2. CASE LoadFails(r)
      BY <2>2, LoadFailsMoves, KeptQuiet DEF sinks, histories
    <2> QED BY <1>2, <2>1, <2>2, StartKept, PullKept DEF Synchronise
  <1>3. ASSUME NEW r \in Runs, Report(r) \/ Kill(r) PROVE KeptInv'
    <2>1. CASE Finalize(r)
      BY <2>1, FinalizeMoves, KeptQuiet DEF sinks
    <2>2. CASE OpenState(r) \/ WriteState(r)
      BY <2>2, SaveKept
    <2>3. CASE OpenTemp(r) \/ WriteTemp(r) \/ Replace(r)
      <3>1. UNCHANGED <<state, high>> /\ run[r].pc \in {"emit", "text", "replace"}
        BY <2>3 DEF OpenTemp, WriteTemp, Replace
      <3>2. run'[r].pc \in {"text", "replace", "push"}
        BY <2>3, GoFacts DEF OpenTemp, WriteTemp, Replace, GiveUp, Places
      <3> QED BY <2>3, <3>1, <3>2, ReportMoves, KeptQuiet
    <2>4. CASE Push(r) \/ RecordRun(r) \/ Prune(r) \/ Kill(r)
      <3>1. run[r].pc = "state" => faults' = faults + 1
        BY <2>4 DEF Push, RecordRun, Prune, Kill, Fault
      <3> QED BY <2>4, <3>1, EndMoves, KeptQuiet
    <2> QED BY <1>3, <2>1, <2>2, <2>3, <2>4 DEF Report
  <1> QED BY <1>1, <1>2, <1>3 DEF Next

LEMMA InitKept == Init => KeptInv
  BY ContentsAssumption DEF Init, KeptInv, StateKept, Idle

-----------------------------------------------------------------------------
(* The metrics file.                                                        *)

\* A step of a run that does not touch the metrics file or its temporary one.
LEMMA ReportQuiet ==
    ASSUME Inv, ReportInv, NEW r \in Runs, Others(r),
           Reporting(r)' => /\ Reporting(r) /\ run'[r].ts = run[r].ts
                            /\ run'[r].pc \in {"state", "emit"},
           clock' \in {clock, clock + 1},
           fd' = fd \/ fd' = [fd EXCEPT ![r] = "none"],
           UNCHANGED <<temp, file, shown, clash>>
    PROVE  ReportInv'
  <1>1. fd' \in [Runs -> {"none", "temp", "file", "gone"}] /\ \A s \in Runs \ {r} : fd'[s] = fd[s]
    BY DEF ReportInv
  <1>2. CASE clash
    BY <1>1, <1>2 DEF ReportInv
  <1>3. CASE ~clash
    <2>1. /\ shown \in 0..clock
          /\ file \in Payloads \cup {Absent}
          /\ file # Absent => file.ts = shown
          /\ \A p, q \in Runs : Reporting(p) /\ Reporting(q) => p = q
          /\ \A s \in Runs :
                /\ Reporting(s) => run[s].ts \in shown..clock
                /\ run[s].pc = "text" => fd[s] = "temp" /\ temp = Torn
                /\ run[s].pc = "replace" => temp = Payload(s)
      BY <1>3 DEF ReportInv
    <2>2. /\ \A s \in Runs \ {r} : /\ Reporting(s)' = Reporting(s)
                                   /\ Payload(s)' = Payload(s)
          /\ run'[r].pc \notin {"text", "replace"}
      BY DEF Others, Reporting, Payload
    <2>3. shown' \in 0..clock'
      BY <2>1 DEF Inv, TypeOK
    <2>4. \A p, q \in Runs : Reporting(p)' /\ Reporting(q)' => p = q
      BY <2>1, <2>2
    <2>5. ASSUME NEW s \in Runs
          PROVE  /\ Reporting(s)' => run'[s].ts \in shown'..clock'
                 /\ run'[s].pc = "text" => fd'[s] = "temp" /\ temp' = Torn
                 /\ run'[s].pc = "replace" => temp' = Payload(s)'
      <3>1. Reporting(s)' => run'[s].ts \in shown'..clock'
        <4>1. Reporting(s)' => Reporting(s) /\ run'[s].ts = run[s].ts
          BY <2>2 DEF Others
        <4>2. clock \in Nat /\ shown' = shown
          BY DEF Inv, TypeOK
        <4>3. Reporting(s) => run[s].ts \in shown..clock'
          BY <2>1, <4>2
        <4> QED BY <4>1, <4>2, <4>3
      <3>2. CASE s = r
        BY <2>2, <3>1, <3>2
      <3>3. CASE s # r
        BY <1>1, <2>1, <2>2, <3>1, <3>3 DEF Others
      <3> QED BY <3>2, <3>3
    <2> QED BY <1>1, <2>1, <2>3, <2>4, <2>5 DEF ReportInv
  <1> QED BY <1>2, <1>3

\* A report that begins is later than all that was ever shown.
LEMMA FinalizeReport ==
    ASSUME Inv, ReportInv, NEW r \in Runs, Finalize(r)
    PROVE  ReportInv'
  <1>1. /\ Others(r) /\ run'[r].ts = clock' /\ run[r].pc = "report" /\ run'[r].pc = "save"
        /\ clock' = clock + 1 /\ clock \in Nat
        /\ UNCHANGED <<temp, file, fd, shown>>
        /\ clash' = (clash \/ \E q \in Runs : Reporting(q))
    BY FinalizeMoves DEF Finalize, sinks, Inv, TypeOK
  <1>2. CASE clash'
    BY <1>1, <1>2 DEF ReportInv
  <1>3. CASE ~clash'
    <2>1. /\ shown \in 0..clock
          /\ file \in Payloads \cup {Absent}
          /\ file # Absent => file.ts = shown
          /\ \A s \in Runs : ~Reporting(s)
      BY <1>1, <1>3 DEF ReportInv
    <2>2. \A s \in Runs \ {r} : /\ Reporting(s)' = Reporting(s)
                                /\ run[s].pc \notin {"text", "replace"}
      BY <1>1, <2>1 DEF Others, Reporting
    <2>3. shown' \in 0..clock' /\ run'[r].ts \in shown'..clock'
      BY <1>1, <2>1
    <2>4. \A p, q \in Runs : Reporting(p)' /\ Reporting(q)' => p = q
      BY <2>1, <2>2
    <2>5. \A s \in Runs :
             /\ Reporting(s)' => run'[s].ts \in shown'..clock'
             /\ run'[s].pc \notin {"text", "replace"}
      BY <1>1, <2>1, <2>2, <2>3 DEF Others
    <2> QED BY <1>1, <2>1, <2>3, <2>4, <2>5 DEF ReportInv
  <1> QED BY <1>2, <1>3

\* A step on the files: without a clash no other run reports, and what the run
\* leaves of them is said here.
LEMMA FileStep ==
    ASSUME Inv, ReportInv, NEW r \in Runs, Reporting(r), Others(r),
           run'[r].ts = run[r].ts, Payload(r)' = Payload(r),
           UNCHANGED <<clock, clash>>,
           fd' \in [Runs -> {"none", "temp", "file", "gone"}],
           ~clash => /\ \/ UNCHANGED <<file, shown>>
                        \/ file' = Payload(r) /\ shown' = run[r].ts
                     /\ run'[r].pc = "text" => fd'[r] = "temp" /\ temp' = Torn
                     /\ run'[r].pc = "replace" => temp' = Payload(r)
    PROVE  ReportInv'
  <1>1. CASE clash
    BY <1>1 DEF ReportInv
  <1>2. CASE ~clash
    <2>1. /\ shown \in 0..clock
          /\ file \in Payloads \cup {Absent}
          /\ file # Absent => file.ts = shown
          /\ \A q \in Runs : Reporting(q) => q = r
          /\ run[r].ts \in shown..clock
      BY <1>2 DEF ReportInv
    <2>2. \A s \in Runs \ {r} : /\ ~Reporting(s)'
                                /\ run'[s].pc \notin {"text", "replace"}
      BY <2>1 DEF Others, Reporting
    <2>3. \A p, q \in Runs : Reporting(p)' /\ Reporting(q)' => p = q
      BY <2>2
    <2>4. /\ Payload(r) \in Payloads /\ Payload(r).ts = run[r].ts
          /\ run[r].ts \in Nat /\ clock \in Nat
      BY DEF Inv, TypeOK, RunStates, Payload, Payloads
    <2>5. shown' \in 0..clock' /\ run[r].ts \in shown'..clock'
      <3>1. shown' = shown \/ shown' = run[r].ts
        BY <1>2
      <3> QED BY <2>1, <2>4, <3>1
    <2>6. file' \in Payloads \cup {Absent} /\ (file' # Absent => file'.ts = shown')
      <3>1. CASE UNCHANGED <<file, shown>>
        BY <2>1, <3>1
      <3>2. CASE file' = Payload(r) /\ shown' = run[r].ts
        BY <2>4, <3>2
      <3> QED BY <1>2, <3>1, <3>2
    <2>7. \A s \in Runs :
             /\ Reporting(s)' => run'[s].ts \in shown'..clock'
             /\ run'[s].pc = "text" => fd'[s] = "temp" /\ temp' = Torn
             /\ run'[s].pc = "replace" => temp' = Payload(s)'
      <3>1. ASSUME NEW s \in Runs
            PROVE  /\ Reporting(s)' => run'[s].ts \in shown'..clock'
                   /\ run'[s].pc = "text" => fd'[s] = "temp" /\ temp' = Torn
                   /\ run'[s].pc = "replace" => temp' = Payload(s)'
        <4>1. CASE s = r
          BY <1>2, <2>5, <4>1
        <4>2. CASE s # r
          BY <2>2, <4>2
        <4> QED BY <4>1, <4>2
      <3> QED BY <3>1
    <2> QED BY <2>3, <2>5, <2>6, <2>7 DEF ReportInv
  <1> QED BY <1>1, <1>2

\* A report that gives up leaves no temporary file.
LEMMA GiveUpReport ==
    ASSUME Inv, ReportInv, NEW r \in Runs, Reporting(r), GiveUp(r), Others(r),
           run'[r].pc = "push", run'[r].ts = run[r].ts, Payload(r)' = Payload(r),
           UNCHANGED <<clock, clash>>
    PROVE  ReportInv'
  <1>1. fd' \in [Runs -> {"none", "temp", "file", "gone"}] /\ UNCHANGED <<file, shown>>
    BY DEF GiveUp, ReportInv
  <1> QED BY <1>1, FileStep

LEMMA FilesReport ==
    ASSUME Inv, ReportInv, NEW r \in Runs, OpenTemp(r) \/ WriteTemp(r) \/ Replace(r)
    PROVE  ReportInv'
  <1>1. /\ Others(r) /\ run'[r].ts = run[r].ts /\ Payload(r)' = Payload(r) /\ Reporting(r)
        /\ UNCHANGED <<clock, clash>>
    BY ReportMoves
  <1>2. fd \in [Runs -> {"none", "temp", "file", "gone"}]
    BY DEF ReportInv
  <1>3. CASE GiveUp(r)
    <2>1. run'[r].pc = "push"
      BY <1>3, GoFacts DEF GiveUp, Places
    <2> QED BY <1>1, <1>3, <2>1, GiveUpReport
  <1>4. CASE OpenTemp(r) /\ ~GiveUp(r)
    <2>1. OpenTruncated(r) /\ Go(r, "text") /\ UNCHANGED shown
      BY <1>4 DEF OpenTemp
    <2>2. /\ temp' = Torn /\ UNCHANGED file /\ run'[r].pc = "text"
          /\ fd' \in [Runs -> {"none", "temp", "file", "gone"}] /\ fd'[r] = "temp"
      BY <1>2, <2>1, GoFacts DEF OpenTruncated, Places
    <2> QED BY <1>1, <2>1, <2>2, FileStep
  <1>5. CASE WriteTemp(r) /\ ~GiveUp(r)
    <2>1. /\ run[r].pc = "text" /\ Go(r, "replace") /\ fd' = [fd EXCEPT ![r] = "none"]
          /\ shown' = IF file' \in {Absent, Torn} THEN shown ELSE Max({shown, file'.ts})
          /\ fd[r] = "temp" => temp' \in Written(temp, Payload(r)) /\ UNCHANGED file
      BY <1>5 DEF WriteTemp
    <2>2. fd' \in [Runs -> {"none", "temp", "file", "gone"}] /\ run'[r].pc = "replace"
      BY <1>2, <2>1, GoFacts DEF Places
    <2>3. ASSUME ~clash PROVE temp' = Payload(r) /\ UNCHANGED <<file, shown>>
      <3>1. /\ fd[r] = "temp" /\ temp = Torn /\ shown \in 0..clock
            /\ file # Absent => file.ts = shown
        BY <2>1, <2>3 DEF ReportInv
      <3>2. temp' = Payload(r) /\ file' = file
        BY <2>1, <3>1 DEF Written
      <3>3. shown \in Nat
        BY <3>1 DEF Inv, TypeOK
      <3>4. Max({shown, shown}) = shown
        BY <3>3, MaxFacts
      <3> QED BY <2>1, <3>1, <3>2, <3>4
    <2> QED BY <1>1, <2>2, <2>3, FileStep
  <1>6. CASE Replace(r) /\ ~GiveUp(r)
    <2>1. /\ run[r].pc = "replace" /\ Go(r, "push") /\ file' = temp
          /\ fd' = [q \in Runs |-> IF fd[q] = "temp" THEN "file"
                                   ELSE IF fd[q] = "file" THEN "gone" ELSE fd[q]]
          /\ shown' = IF temp = Torn THEN shown ELSE Max({shown, temp.ts})
      BY <1>6 DEF Replace
    <2>2. fd' \in [Runs -> {"none", "temp", "file", "gone"}] /\ run'[r].pc = "push"
      <3>1. run'[r].pc = "push"
        BY <2>1, GoFacts DEF Places
      <3>2. \A q \in Runs : fd[q] \in {"none", "temp", "file", "gone"}
        BY <1>2
      <3> QED BY <2>1, <3>1, <3>2
    <2>3. ASSUME ~clash PROVE file' = Payload(r) /\ shown' = run[r].ts
      <3>1. temp = Payload(r) /\ shown \in 0..clock /\ run[r].ts \in shown..clock
        BY <1>1, <2>1, <2>3 DEF ReportInv
      <3>2. /\ Payload(r) \in Payloads /\ Payload(r).ts = run[r].ts
            /\ run[r].ts \in Nat /\ clock \in Nat
        BY DEF Inv, TypeOK, RunStates, Payload, Payloads
      <3>3. temp # Torn
        BY <3>1, <3>2, ContentsAssumption
      <3>4. shown \in Nat /\ shown <= run[r].ts
        BY <3>1, <3>2
      <3>5. /\ Max({shown, run[r].ts}) \in {shown, run[r].ts}
            /\ Max({shown, run[r].ts}) >= run[r].ts
        BY <3>2, <3>4, MaxFacts
      <3>6. Max({shown, run[r].ts}) = run[r].ts
        BY <3>2, <3>4, <3>5
      <3> QED BY <2>1, <3>1, <3>2, <3>3, <3>6
    <2> QED BY <1>1, <2>2, <2>3, FileStep
  <1> QED BY <1>3, <1>4, <1>5, <1>6

LEMMA NextReport == Inv /\ ReportInv /\ [Next]_vars => ReportInv'
  <1> SUFFICES ASSUME Inv, ReportInv, [Next]_vars PROVE ReportInv'
    OBVIOUS
  <1>1. CASE UNCHANGED vars
    BY <1>1 DEF vars, sinks, histories, ReportInv, Reporting, Payload
  <1>2. ASSUME NEW r \in Runs, Synchronise(r) PROVE ReportInv'
    <2>1. CASE Lock(r) \/ SyncReturns(r) \/ SyncRaises(r) \/ Clean(r) \/ Unlock(r)
      <3>1. ~Reporting(r)'
        BY <2>1, SyncMoves DEF Reporting
      <3> QED BY <2>1, <3>1, SyncMoves, ReportQuiet DEF sinks, histories
    <2>2. CASE Start(r)
      <3>1. ~Reporting(r)'
        BY <2>2, StartMoves DEF Reporting
      <3> QED BY <2>2, <3>1, StartMoves, ReportQuiet DEF sinks
    <2>3. CASE Pull(r)
      <3>1. ~Reporting(r)'
        BY <2>3, PullMoves DEF Reporting
      <3> QED BY <2>3, <3>1, PullMoves, ReportQuiet DEF sinks
    <2>4. CASE LoadFails(r)
      <3>1. ~Reporting(r)'
        BY <2>4, LoadFailsMoves DEF Reporting
      <3> QED BY <2>4, <3>1, LoadFailsMoves, ReportQuiet DEF sinks, histories
    <2> QED BY <1>2, <2>1, <2>2, <2>3, <2>4 DEF Synchronise
  <1>3. ASSUME NEW r \in Runs, Report(r) \/ Kill(r) PROVE ReportInv'
    <2>1. CASE OpenState(r) \/ WriteState(r)
      <3>1. UNCHANGED <<fd, temp, file, shown>>
        BY <2>1 DEF OpenState, WriteState, histories
      <3>2. run'[r].pc \in {"state", "emit"}
        BY <2>1, GoFacts DEF OpenState, WriteState, Places
      <3> QED BY <2>1, <3>1, <3>2, ReportMoves, ReportQuiet
    <2>2. CASE Push(r) \/ RecordRun(r) \/ Prune(r) \/ Kill(r)
      <3>1. fd' = fd \/ fd' = [fd EXCEPT ![r] = "none"]
        BY <2>2 DEF Push, RecordRun, Prune, Kill
      <3>2. ~Reporting(r)'
        BY <2>2, EndMoves DEF Reporting
      <3> QED BY <2>2, <3>1, <3>2, EndMoves, ReportQuiet
    <2> QED BY <1>3, <2>1, <2>2, FinalizeReport, FilesReport DEF Report
  <1> QED BY <1>1, <1>2, <1>3 DEF Next

LEMMA InitReport == Init => ReportInv
  <1> SUFFICES ASSUME Init PROVE ReportInv
    OBVIOUS
  <1>1. \A r \in Runs : run[r].pc = "idle"
    BY DEF Init, Idle
  <1> QED BY <1>1 DEF Init, ReportInv, Reporting

-----------------------------------------------------------------------------
(* The rows.                                                                *)

\* Whatever is not added or pruned: what has been recorded stays, as long as the
\* clock does not go back.
LEMMA SeriesStays ==
    ASSUME RowsInv, clock \in Nat, clock' \in {clock, clock + 1}, UNCHANGED <<rows, ended>>
    PROVE  SeriesIsComplete'
  <1> SUFFICES ASSUME NEW w \in Windows, \A days \in Retentions : days = 0 \/ w <= days
               PROVE  Series(w)' = {e \in ended' : e.ts >= clock' - w}
    BY DEF SeriesIsComplete
  <1>1. /\ rows \subseteq ended /\ Series(w) = {e \in ended : e.ts >= clock - w}
        /\ \A e \in ended : e.ts \in 0..clock
    BY DEF RowsInv, SeriesIsComplete
  <1>2. w \in Nat
    OBVIOUS
  <1>3. ASSUME NEW e \in ended, e.ts >= clock' - w PROVE e \in rows
    <2>1. e.ts \in Nat /\ e.ts >= clock - w
      <3>1. e.ts \in 0..clock
        BY <1>1
      <3> QED BY <1>2, <1>3, <3>1
    <2> QED BY <1>1, <2>1 DEF Series, Query
  <1> QED BY <1>1, <1>3 DEF Series, Query

LEMMA RowsQuiet ==
    ASSUME Inv, RowsInv, NEW r \in Runs, Others(r),
           run'[r].ts \in {0, run[r].ts},
           run'[r].pc \in Finalized => run[r].pc \in Finalized /\ run'[r].ts = run[r].ts,
           run'[r].pc = "record" => r = Server, run'[r].pc # "prune",
           clock' \in {clock, clock + 1}, UNCHANGED <<rows, ended>>
    PROVE  RowsInv'
  <1>1. SeriesIsComplete'
    BY SeriesStays DEF Inv, TypeOK
  <1>2. clock \in Nat /\ \A s \in Runs : run[s].ts \in Nat /\ run[s].ts <= clock
    BY DEF Inv, TypeOK, RunStates, RowsInv
  <1>3. \A s \in Runs : run'[s].ts <= clock'
    BY <1>2 DEF Others
  <1>4. \A e \in ended' : e.ts \in 0..clock'
    BY <1>2 DEF RowsInv
  <1>5. run'[Server].pc \in Finalized => \A e \in ended' : e.ts < run'[Server].ts
    BY DEF RowsInv, Others, Runs
  <1>6. \A s \in CommandLines : run'[s].pc \notin {"record", "prune"}
    BY DEF RowsInv, Others, Runs
  <1> QED BY <1>1, <1>3, <1>4, <1>5, <1>6 DEF RowsInv

\* A time of its own, later than those of all rows.
LEMMA FinalizeRows ==
    ASSUME Inv, RowsInv, NEW r \in Runs, Finalize(r)
    PROVE  RowsInv'
  <1>1. /\ Others(r) /\ run'[r].ts = clock' /\ run'[r].pc = "save"
        /\ clock' = clock + 1 /\ clock \in Nat /\ UNCHANGED <<rows, ended>>
    BY FinalizeMoves DEF sinks, Inv, TypeOK
  <1>2. SeriesIsComplete'
    BY <1>1, SeriesStays
  <1>3. /\ \A s \in Runs : run[s].ts \in Nat /\ run[s].ts <= clock
        /\ \A e \in ended : e.ts \in Nat /\ e.ts <= clock
    BY <1>1 DEF Inv, TypeOK, RunStates, RowsInv
  <1>4. /\ \A s \in Runs : run'[s].ts <= clock'
        /\ \A e \in ended' : e.ts \in 0..clock'
    BY <1>1, <1>3 DEF Others
  <1>5. run'[Server].pc \in Finalized => \A e \in ended' : e.ts < run'[Server].ts
    <2>1. CASE r = Server
      BY <1>1, <1>3, <2>1
    <2>2. CASE r # Server
      BY <1>1, <2>2 DEF RowsInv, Others, Runs
    <2> QED BY <2>1, <2>2
  <1>6. \A s \in CommandLines : run'[s].pc \notin {"record", "prune"}
    BY <1>1 DEF RowsInv, Others, Runs
  <1> QED BY <1>1, <1>2, <1>4, <1>5, <1>6 DEF RowsInv

\* A row that is added replaces none.
LEMMA RecordRows ==
    ASSUME Inv, RowsInv, NEW r \in Runs, RecordRun(r), Go(r, "prune")
    PROVE  RowsInv'
  <1>1. /\ run[r].pc = "record" /\ r = Server /\ Others(r)
        /\ run'[r].pc = "prune" /\ run'[r].ts = run[r].ts /\ UNCHANGED clock
    BY GoFacts DEF RecordRun, RowsInv, Runs, Places
  <1>2. run[r].ts \in 0..clock /\ clock \in Nat /\ run[r].ts \in Nat /\ Row(r).ts = run[r].ts
    BY DEF Inv, TypeOK, RunStates, RowsInv, Row
  <1>3. \A e \in ended : e.ts \in 0..clock /\ e.ts < run[r].ts
    BY <1>1 DEF RowsInv, Finalized
  <1>4. rows' = rows \cup {Row(r)} /\ ended' = ended \cup {Row(r)} /\ rows \subseteq ended
    <2>1. rows \subseteq ended /\ \A e \in ended : e.ts # run[r].ts
      <3>1. \A e \in ended : e.ts # run[r].ts
        BY <1>2, <1>3
      <3> QED BY <3>1 DEF RowsInv
    <2>2. {x \in rows : x.ts # run[r].ts} = rows
      BY <2>1
    <2>3. /\ rows' = {x \in rows : x.ts # run[r].ts} \cup {Row(r)}
          /\ ended' = ended \cup {Row(r)}
      <3>1. ~(run' = [run EXCEPT ![r] = Idle])
        <4>1. run \in [Runs -> RunStates]
          BY DEF Inv, TypeOK
        <4> QED BY <1>1, <4>1 DEF Idle
      <3> QED BY <3>1 DEF RecordRun
    <2> QED BY <2>1, <2>2, <2>3
  <1>5. SeriesIsComplete'
    <2> SUFFICES ASSUME NEW w \in Windows, \A days \in Retentions : days = 0 \/ w <= days
                 PROVE  Series(w)' = {e \in ended' : e.ts >= clock' - w}
      BY DEF SeriesIsComplete
    <2>1. Series(w) = {e \in ended : e.ts >= clock - w}
      BY DEF RowsInv, SeriesIsComplete
    <2> QED BY <1>1, <1>4, <2>1 DEF Series, Query
  <1>6. \A s \in Runs : run'[s].ts <= clock'
    BY <1>1 DEF RowsInv, Others
  <1>7. \A e \in ended' : e.ts \in 0..clock'
    BY <1>1, <1>2, <1>3, <1>4
  <1>8. /\ \A s \in CommandLines : run'[s].pc \notin {"record", "prune"}
        /\ run'[Server].pc \notin Finalized
    BY <1>1 DEF RowsInv, Others, Runs, Finalized
  <1> QED BY <1>4, <1>5, <1>6, <1>7, <1>8 DEF RowsInv

\* A retention drops rows that no range it covers needs.
LEMMA PruneRows ==
    ASSUME Inv, RowsInv, NEW r \in Runs, Prune(r)
    PROVE  RowsInv'
  <1>1. /\ Others(r) /\ run'[r].pc = "idle" /\ run'[r].ts = 0 /\ UNCHANGED <<clock, ended>>
    <2>1. run \in [Runs -> RunStates]
      BY DEF Inv, TypeOK
    <2> QED BY <2>1 DEF Prune, Others, Idle, histories
  <1>2. \/ rows' = rows
        \/ \E days \in Retentions : days # 0 /\ rows' = {x \in rows : x.ts >= clock - days}
    BY DEF Prune, KeepsAll
  <1>3. SeriesIsComplete' /\ rows' \subseteq ended
    <2>1. CASE rows' = rows
      BY <1>1, <2>1, SeriesStays DEF Inv, TypeOK, RowsInv
    <2>2. CASE \E days \in Retentions : days # 0 /\ rows' = {x \in rows : x.ts >= clock - days}
      <3>1. PICK days \in Retentions : days # 0 /\ rows' = {x \in rows : x.ts >= clock - days}
        BY <2>2
      <3>2. rows \subseteq ended /\ clock \in Nat /\ days \in Nat
        BY DEF RowsInv, Inv, TypeOK
      <3>3. ASSUME NEW w \in Windows, \A d \in Retentions : d = 0 \/ w <= d
            PROVE  Series(w)' = {e \in ended' : e.ts >= clock' - w}
        <4>1. w \in Nat /\ w <= days
          BY <3>1, <3>3
        <4>2. /\ Series(w) = {e \in ended : e.ts >= clock - w}
              /\ \A e \in ended : e.ts \in 0..clock
          BY <3>3 DEF RowsInv, SeriesIsComplete
        <4>3. ASSUME NEW e \in ended, e.ts >= clock - w PROVE e \in rows'
          <5>1. e \in rows
            BY <4>2, <4>3 DEF Series, Query
          <5>2. e.ts \in 0..clock
            BY <4>2
          <5>3. e.ts >= clock - days
            BY <3>2, <4>1, <4>3, <5>2
          <5> QED BY <3>1, <5>1, <5>3
        <4> QED BY <1>1, <3>1, <3>2, <4>3 DEF Series, Query
      <3> QED BY <3>1, <3>2, <3>3 DEF SeriesIsComplete
    <2> QED BY <1>2, <2>1, <2>2
  <1>4. \A s \in Runs : run'[s].ts <= clock'
    BY <1>1 DEF RowsInv, Others, Inv, TypeOK
  <1>5. /\ \A s \in CommandLines : run'[s].pc \notin {"record", "prune"}
        /\ run'[Server].pc \in Finalized => \A e \in ended' : e.ts < run'[Server].ts
        /\ \A e \in ended' : e.ts \in 0..clock'
    BY <1>1 DEF RowsInv, Others, Runs, Finalized
  <1> QED BY <1>1, <1>3, <1>4, <1>5 DEF RowsInv

LEMMA NextRows == Inv /\ RowsInv /\ [Next]_vars => RowsInv'
  <1> SUFFICES ASSUME Inv, RowsInv, [Next]_vars PROVE RowsInv'
    OBVIOUS
  <1>1. CASE UNCHANGED vars
    BY <1>1 DEF vars, sinks, histories, RowsInv, SeriesIsComplete, Series, Query
  <1>2. ASSUME NEW r \in Runs, Synchronise(r) PROVE RowsInv'
    <2>1. CASE Lock(r) \/ SyncReturns(r) \/ SyncRaises(r) \/ Clean(r) \/ Unlock(r)
      <3>1. run'[r].pc \notin Finalized \cup {"prune"}
        BY <2>1, SyncMoves DEF Finalized
      <3> QED BY <2>1, <3>1, SyncMoves, RowsQuiet DEF sinks, histories, Finalized
    <2>2. CASE Start(r)
      BY <2>2, StartMoves, RowsQuiet DEF sinks, Finalized
    <2>3. CASE Pull(r)
      BY <2>3, PullMoves, RowsQuiet DEF sinks, Finalized
    <2>4. CASE LoadFails(r)
      BY <2>4, LoadFailsMoves, RowsQuiet DEF sinks, histories, Finalized
    <2> QED BY <1>2, <2>1, <2>2, <2>3, <2>4 DEF Synchronise
  <1>3. ASSUME NEW r \in Runs, Report(r) \/ Kill(r) PROVE RowsInv'
    <2>1. CASE OpenState(r) \/ WriteState(r) \/ OpenTemp(r) \/ WriteTemp(r) \/ Replace(r)
      <3>1. Reporting(r) /\ run'[r].pc \in {"state", "emit", "text", "replace", "push"}
        BY <2>1, ReportMoves
      <3>2. /\ run[r].pc \in Finalized /\ run'[r].pc # "record" /\ run'[r].pc # "prune"
        BY <3>1 DEF Reporting, Finalized
      <3> QED BY <2>1, <3>2, ReportMoves, RowsQuiet
    <2>2. CASE Push(r) \/ Kill(r) \/ (RecordRun(r) /\ ~Go(r, "prune"))
      <3>1. UNCHANGED <<rows, ended>>
        BY <2>2 DEF Push, Kill, RecordRun, histories
      <3>2. /\ Others(r) /\ UNCHANGED clock
            /\ \/ run'[r].pc = "idle" /\ run'[r].ts = 0
               \/ /\ r = Server /\ run[r].pc = "push" /\ run'[r].pc = "record"
                  /\ run'[r].ts = run[r].ts
        <4>1. CASE RecordRun(r) /\ ~Go(r, "prune")
          <5>1. run' = [run EXCEPT ![r] = Idle] /\ run \in [Runs -> RunStates] /\ UNCHANGED clock
            BY <4>1 DEF RecordRun, Inv, TypeOK
          <5> QED BY <5>1 DEF Others, Idle
        <4>2. CASE Kill(r)
          <5>1. run' = [run EXCEPT ![r] = Idle] /\ run \in [Runs -> RunStates] /\ UNCHANGED clock
            BY <4>2 DEF Kill, Inv, TypeOK
          <5> QED BY <5>1 DEF Others, Idle
        <4>3. CASE Push(r)
          <5>1. run[r].pc = "push" /\ ~RecordRun(r)
            BY <4>3 DEF Push, RecordRun
          <5> QED BY <4>3, <5>1, EndMoves
        <4> QED BY <2>2, <4>1, <4>2, <4>3
      <3> QED BY <3>1, <3>2, RowsQuiet DEF Finalized
    <2> QED BY <1>3, <2>1, <2>2, FinalizeRows, RecordRows, PruneRows DEF Report
  <1> QED BY <1>1, <1>2, <1>3 DEF Next

LEMMA InitRows == Init => RowsInv
  <1> SUFFICES ASSUME Init PROVE RowsInv
    OBVIOUS
  <1>1. \A r \in Runs : run[r].pc = "idle" /\ run[r].ts = 0
    BY DEF Init, Idle
  <1>2. SeriesIsComplete
    BY DEF Init, SeriesIsComplete, Series, Query
  <1> QED BY <1>1, <1>2 DEF Init, RowsInv, Runs, Finalized

-----------------------------------------------------------------------------
(* Theorems.                                                                *)

\* The invariant holds throughout, whichever runs overlap, fail or are killed
\* (cmd_sync, _do_sync, metrics.py).
THEOREM Invariance == Spec => []Inv
  BY InitInv, NextInv, PTL DEF Spec

\* The time of the last pull in the state file, the metrics file and at the
\* gateway is always one at which a run did pull a file (load_metrics_state,
\* record_file_download, save_metrics_state, write_metrics_file, push_metrics).
THEOREM PullsAreTrue == Spec => []PullIsTrue
  <1>1. Inv => PullIsTrue
    BY DEF Inv, PullInv, PullIsTrue, LoadedState, TruePull, Reported
  <1> QED BY <1>1, Invariance, PTL

\* What a command line gives its caller is the result of its sync, whatever fails,
\* overlaps or is killed meanwhile; only what this program has not written, or a gateway
\* that answers no HTTP, makes a traceback of it (cmd_sync, save_metrics_state,
\* write_metrics_file, push_metrics, load_metrics_state).
THEOREM ResultsAreKept == Spec => []DeliveryKeepsResult
  <1>1. Inv => DeliveryKeepsResult
    BY DEF Inv, ResultInv, Outcome, DeliveryKeepsResult, Runs
  <1> QED BY <1>1, Invariance, PTL

\* As long as runs do not overlap, the time that is kept never goes back, and is lost
\* only by a save that is cut off or fails (load_metrics_state, save_metrics_state,
\* record_file_download).
THEOREM TimesAreKept == Spec => []StateKept
  <1>1. Inv /\ KeptInv /\ [Next]_vars => Inv' /\ KeptInv'
    BY NextInv, NextKept
  <1>2. KeptInv => StateKept
    BY DEF KeptInv
  <1> QED BY <1>1, <1>2, InitInv, InitKept, PTL DEF Spec

\* As long as no two runs report at once, the metrics file is whole and has the newest
\* report made, whatever is killed or fails (write_metrics_file).
THEOREM MetricsStayWhole == Spec => []MetricsFileWhole
  <1>1. Inv /\ ReportInv /\ [Next]_vars => Inv' /\ ReportInv'
    BY NextInv, NextReport
  <1>2. ReportInv => MetricsFileWhole
    BY ContentsAssumption DEF ReportInv, MetricsFileWhole
  <1> QED BY <1>1, <1>2, InitInv, InitReport, PTL DEF Spec

\* The statistics page shows every recorded run of a range that no retention is
\* shorter than (record_run, prune, api_stats.series).
THEOREM SeriesAreComplete == Spec => []SeriesIsComplete
  <1>1. Inv /\ RowsInv /\ [Next]_vars => Inv' /\ RowsInv'
    BY NextInv, NextRows
  <1>2. RowsInv => SeriesIsComplete
    BY DEF RowsInv
  <1> QED BY <1>1, <1>2, InitInv, InitRows, PTL DEF Spec

=============================================================================
