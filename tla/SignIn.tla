-------------------------------- MODULE SignIn --------------------------------
(***************************************************************************)
(* Signing in, in auth.mode "login": the tables of failed attempts and of   *)
(* lockouts, the password check, the session cookie with the fingerprint of *)
(* the password it was issued for, and the change of the password           *)
(* (auth.py, routes/auth.py, api_auth.py).  The requests of a browser       *)
(* interleave.  The first password is SettingsStore's business, as is the   *)
(* key that signs the cookies.                                              *)
(***************************************************************************)
EXTENDS Integers, Sequences, FiniteSets

CONSTANTS
    Clients,      \* the browsers, each at an address of its own
    Threads,      \* the web server's threads
    Nobody,       \* the client of an idle thread
    Window,       \* _FAILURE_WINDOW_SECONDS
    Threshold,    \* _FAILURE_THRESHOLD
    Lockout,      \* _LOCKOUT_SECONDS
    MaxTracked,   \* _MAX_TRACKED_IPS
    MaxClock,     \* bound: the clock
    MaxAttempts,  \* bound: passwords typed
    MaxVisits     \* bound: other requests

ASSUME SignInAssumption ==
    /\ Nobody \notin Clients /\ IsFiniteSet(Threads)
    /\ {Window, Threshold, Lockout, MaxTracked} \subseteq Nat \ {0}
    /\ Window < Lockout
    /\ {MaxClock, MaxAttempts, MaxVisits} \subseteq Nat

VARIABLES
    clock,     \* time.monotonic()
    failures,  \* _failure_timestamps: the times of an address, and its turn
    locked,    \* _locked_until: the end of its lockout, and its turn
    turns,     \* the failures recorded: entries have turns in the order of the dict
    password,  \* auth.password_hash, known by its version
    cookie,    \* the session of each browser: its password version, 0 for none
    thread,    \* the request of each thread
    attempts, visits,
    failed,    \* the failures of each address since it was cleared (history)
    dropped,   \* how many of them when an entry of it was evicted (history)
    proved     \* the passwords each client has shown to know (history)

tables == <<failures, locked, turns>>
histories == <<failed, dropped, proved>>
vars == <<clock, tables, password, cookie, thread, attempts, visits, histories>>

Idle == [pc |-> "idle", kind |-> "page", client |-> Nobody, typed |-> 0,
         seen |-> 0, session |-> 0, out |-> 0]

Init ==
    /\ clock = 0 /\ failures = <<>> /\ locked = <<>> /\ turns = 0
    /\ password = 1
    /\ cookie = [c \in Clients |-> 0]
    /\ thread = [t \in Threads |-> Idle]
    /\ attempts = 0 /\ visits = 0
    /\ failed = [c \in Clients |-> <<>>] /\ dropped = [c \in Clients |-> 0]
    /\ proved = [c \in Clients |-> {}]

-----------------------------------------------------------------------------
(* Tables: from addresses to entries.                                       *)

Only(table, ips) == [ip \in ips |-> table[ip]]
Without(table, ip) == Only(table, DOMAIN table \ {ip})

With(table, ip, entry) ==
    [c \in DOMAIN table \cup {ip} |-> IF c = ip THEN entry ELSE table[c]]

\* An address that is in the table keeps its place in the order.
Turn(table, ip) == IF ip \in DOMAIN table THEN table[ip].turn ELSE turns

\* Wrong variant: old failures count for ever.
AnyTime(times) == times

\* The deque without what is older than the window, popped from the left.
Recent(times) ==
    LET popped == CHOOSE n \in 0..Len(times) :
            /\ \A j \in 1..n : times[j] < clock - Window
            /\ n < Len(times) => times[n + 1] >= clock - Window
    IN SubSeq(times, popped + 1, Len(times))

Tick ==
    /\ clock < MaxClock
    /\ clock' = clock + 1
    /\ UNCHANGED <<tables, password, cookie, thread, attempts, visits, histories>>

\* Wrong variant: one failure too many.
TooMany(times) == Len(times) > Threshold

Enough(times) == Len(times) >= Threshold

IsLocked(ip) == ip \in DOMAIN locked /\ clock < locked[ip].until

\* What is_login_locked_out answers.
LockedOut(ip) ==
    \/ IsLocked(ip)
    \/ ip \in DOMAIN failures /\ Enough(Recent(failures[ip].times))

\* What is_login_locked_out forgets: a lockout that is over, old failures.
Refreshed(ip) ==
    /\ IF IsLocked(ip) THEN UNCHANGED <<failures, locked>>
       ELSE /\ locked' = Without(locked, ip)
            /\ failures' = IF ip \in DOMAIN failures
                  THEN [failures EXCEPT ![ip].times = Recent(@)]
                  ELSE failures
    /\ UNCHANGED turns

After(table, ip) == {c \in DOMAIN table : table[c].turn > table[ip].turn}

\* Wrong variant: there is no room for the entry to come.
NewestFull(table) ==
    Only(table, {ip \in DOMAIN table : Cardinality(After(table, ip)) < MaxTracked})

\* The newest MaxTracked - 1 entries at most.
Newest(table) ==
    Only(table, {ip \in DOMAIN table : Cardinality(After(table, ip)) < MaxTracked - 1})

\* _prune_rate_limit_state: what is stale, then the oldest entries.
Prune ==
    [failures |-> Newest(Only(failures, {ip \in DOMAIN failures :
                                            Recent(failures[ip].times) # <<>>})),
     locked |-> Newest(Only(locked, {ip \in DOMAIN locked : locked[ip].until > clock}))]

\* What record_login_failure leaves of the tables before it makes its entries.
Kept(ip) ==
    IF /\ ip \notin DOMAIN failures
       /\ \/ Cardinality(DOMAIN failures) >= MaxTracked
          \/ Cardinality(DOMAIN locked) >= MaxTracked
    THEN Prune
    ELSE [failures |-> failures, locked |-> locked]

Times(table, ip) == IF ip \in DOMAIN table THEN table[ip].times ELSE <<>>

Evicted(c, kept) ==
    \/ c \in DOMAIN failures \ DOMAIN kept.failures
    \/ c \in DOMAIN locked \ DOMAIN kept.locked

\* record_login_failure, under _rate_limit_lock.
RecordFailure(ip) ==
    LET kept == Kept(ip)
        times == Recent(Append(Times(kept.failures, ip), clock))
    IN /\ failures' = With(kept.failures, ip,
                           [times |-> times, turn |-> Turn(kept.failures, ip)])
       /\ locked' = IF Enough(times)
             THEN With(kept.locked, ip, [until |-> clock + Lockout,
                                         turn |-> Turn(kept.locked, ip)])
             ELSE kept.locked
       /\ turns' = turns + 1
       /\ failed' = [failed EXCEPT ![ip] = Append(@, clock)]
       /\ dropped' = [c \in Clients |->
             IF Evicted(c, kept) THEN Len(failed[c]) ELSE dropped[c]]

-----------------------------------------------------------------------------
(* Requests.                                                                *)

\* A request begins: the cookie is loaded, login_post reads the settings.
Ask(t, c, kind, typed) ==
    /\ thread[t].pc = "idle"
    /\ thread' = [thread EXCEPT ![t] =
          [pc |-> IF kind = "login" THEN "check" ELSE "authorize",
           kind |-> kind, client |-> c, typed |-> typed,
           seen |-> IF kind = "login" THEN password ELSE 0,
           session |-> cookie[c], out |-> cookie[c]]]
    /\ UNCHANGED <<clock, tables, password, cookie, histories>>

\* POST /login or /api/auth/password, with the password or another word.
Type(t, c) ==
    /\ attempts < MaxAttempts /\ attempts' = attempts + 1
    /\ \E kind \in {"login", "change"}, typed \in {password, 0} :
          Ask(t, c, kind, typed)
    /\ UNCHANGED visits

\* A page, or POST /logout.
Visit(t, c) ==
    /\ visits < MaxVisits /\ visits' = visits + 1
    /\ cookie[c] # 0
    /\ \E kind \in {"page", "logout"} : Ask(t, c, kind, 0)
    /\ UNCHANGED attempts

Goto(t, place) == thread' = [thread EXCEPT ![t].pc = place]

\* login_required: a session issued for another password is cleared.
Authorize(t) ==
    /\ thread[t].pc = "authorize"
    /\ IF thread[t].session = password
       THEN thread' = [thread EXCEPT
                ![t].pc = IF thread[t].kind = "change" THEN "check" ELSE "respond",
                ![t].out = IF thread[t].kind = "logout" THEN 0 ELSE @]
       ELSE thread' = [thread EXCEPT ![t].pc = "respond", ![t].out = 0]
    /\ UNCHANGED <<clock, tables, password, cookie, attempts, visits, histories>>

CheckLockout(t) ==
    /\ thread[t].pc = "check"
    /\ Refreshed(thread[t].client)
    /\ Goto(t, IF LockedOut(thread[t].client) THEN "respond"
               ELSE IF thread[t].kind = "change" THEN "read" ELSE "verify")
    /\ UNCHANGED <<clock, password, cookie, attempts, visits, histories>>

\* change_password reads the hash to verify.
ReadHash(t) ==
    /\ thread[t].pc = "read"
    /\ thread' = [thread EXCEPT ![t].pc = "verify", ![t].seen = password]
    /\ UNCHANGED <<clock, tables, password, cookie, attempts, visits, histories>>

VerifyFails(t) ==
    /\ thread[t].pc = "verify" /\ thread[t].typed # thread[t].seen
    /\ RecordFailure(thread[t].client)
    /\ Goto(t, "respond")
    /\ UNCHANGED <<clock, password, cookie, attempts, visits, proved>>

\* The new password is too short, or is hashed and stored by update().
Change(t) ==
    LET c == thread[t].client IN
    /\ thread[t].pc = "verify" /\ thread[t].kind = "change"
    /\ thread[t].typed = thread[t].seen
    /\ \/ Goto(t, "respond") /\ UNCHANGED <<password, proved>>
       \/ /\ password' = password + 1
          /\ thread' = [thread EXCEPT ![t].pc = "clear", ![t].seen = password']
          /\ proved' = [proved EXCEPT ![c] = @ \cup {password'}]
    /\ UNCHANGED <<clock, tables, cookie, attempts, visits, failed, dropped>>

LoginMatches(t) ==
    LET c == thread[t].client IN
    /\ thread[t].pc = "verify" /\ thread[t].kind = "login"
    /\ thread[t].typed = thread[t].seen
    /\ Goto(t, "clear")
    /\ proved' = [proved EXCEPT ![c] = @ \cup {thread[t].seen}]
    /\ UNCHANGED <<clock, tables, password, cookie, attempts, visits, failed, dropped>>

\* Wrong variant: the session is of the settings as they are by now.
IssueCurrent(t) == password

\* The password version of the session that is issued.
IssuedFor(t) == thread[t].seen

\* clear_login_failures; then the session is filled.
ClearFailures(t) ==
    LET c == thread[t].client IN
    /\ thread[t].pc = "clear"
    /\ failures' = Without(failures, c) /\ locked' = Without(locked, c)
    /\ UNCHANGED turns
    /\ thread' = [thread EXCEPT ![t].pc = "respond", ![t].out = IssuedFor(t)]
    /\ failed' = [failed EXCEPT ![c] = <<>>] /\ dropped' = [dropped EXCEPT ![c] = 0]
    /\ UNCHANGED <<clock, password, cookie, attempts, visits, proved>>

\* Every response sets the cookie, a permanent session's again and again.
Respond(t) ==
    LET q == thread[t] IN
    /\ q.pc = "respond"
    /\ cookie' = [cookie EXCEPT ![q.client] = q.out]
    /\ thread' = [thread EXCEPT ![t] = Idle]
    /\ UNCHANGED <<clock, tables, password, attempts, visits, histories>>

Serve(t) ==
    \/ Authorize(t) \/ CheckLockout(t) \/ ReadHash(t) \/ VerifyFails(t)
    \/ Change(t) \/ LoginMatches(t) \/ ClearFailures(t) \/ Respond(t)

Next ==
    \/ Tick
    \/ \E t \in Threads :
          Serve(t) \/ \E c \in Clients : Type(t, c) \/ Visit(t, c)

Spec == Init /\ [][Next]_vars

-----------------------------------------------------------------------------
(* Properties.                                                              *)

Requests ==
    [pc : {"idle", "authorize", "check", "read", "verify", "clear", "respond"},
     kind : {"page", "logout", "login", "change"}, client : Clients \cup {Nobody},
     typed : Nat, seen : Nat, session : Nat, out : Nat]

SessionTypes ==
    /\ password \in Nat \ {0}
    /\ cookie \in [Clients -> Nat]
    /\ thread \in [Threads -> Requests]
    /\ proved \in [Clients -> SUBSET Nat]

\* The entries of a table have turns of their own, of those before n.
Orderly(table, n) ==
    /\ DOMAIN table \subseteq Clients /\ IsFiniteSet(DOMAIN table)
    /\ \A ip \in DOMAIN table : table[ip].turn \in 0..(n - 1)
    /\ \A a, b \in DOMAIN table : table[a].turn = table[b].turn => a = b

TableTypes ==
    /\ clock \in Nat /\ turns \in Nat
    /\ Orderly(failures, turns) /\ Orderly(locked, turns)
    /\ \A ip \in DOMAIN failures : failures[ip] \in [times : Seq(Nat), turn : Nat]
    /\ \A ip \in DOMAIN locked : locked[ip] \in [until : Nat, turn : Nat]
    /\ failed \in [Clients -> Seq(Nat)]
    /\ dropped \in [Clients -> Nat]

TypeOK == SessionTypes /\ TableTypes

\* The tables stay bounded: failures by MaxTracked, and lockouts, which addresses
\* already tracked may still add, by twice as many.
TablesBounded ==
    /\ Cardinality(DOMAIN failures) <= MaxTracked
    /\ Cardinality(DOMAIN locked) < 2 * MaxTracked

Count(times, from, to) == Cardinality({j \in DOMAIN times : times[j] \in from..to})

\* Nobody is locked out, or not any more, but for Threshold failures within a
\* window of which the last is not older than a lockout; none is cleared away.
LockoutIsDeserved ==
    \A c \in Clients : LockedOut(c) =>
        \E j \in DOMAIN failed[c] :
            /\ clock - failed[c][j] < Lockout
            /\ Count(failed[c], failed[c][j] - Window, failed[c][j]) >= Threshold

\* The failures of an address in the window, since an entry of it was evicted.
InWindow(c) ==
    {j \in (dropped[c] + 1)..Len(failed[c]) : failed[c][j] >= clock - Window}

\* Threads that check before any of them records let through one password each
\* beyond the threshold, and no more, as long as the tables hold the address.
AttemptsBounded ==
    \A c \in Clients : Cardinality(InWindow(c)) < Threshold + Cardinality(Threads)

\* A session is of the current password only in the browser of a client that
\* has shown to know it or that set it.
SessionIsEarned ==
    \A c \in Clients : cookie[c] = password => password \in proved[c]

=============================================================================
