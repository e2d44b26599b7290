----------------------------- MODULE SignIn_proofs -----------------------------
(***************************************************************************)
(* Theorems of SignIn, for any number of browsers, threads and passwords:   *)
(* who has a session, and what the tables of failures and lockouts hold.    *)
(***************************************************************************)
EXTENDS SignIn, FiniteSetTheorems, WellFoundedInduction, TLAPS

-----------------------------------------------------------------------------
(* The inductive invariants behind SessionIsEarned and, for the tables,     *)
(* behind the other properties.                                             *)

\* No session, or one of a password that the client has known.
Earned(c, session) == session = 0 \/ session \in proved[c]

\* What a request has loaded and will set is its browser's, past and present,
\* or was earned since.
SessionInv ==
    /\ \A c \in Clients : Earned(c, cookie[c])
    /\ \A t \in Threads : thread[t].pc # "idle" =>
          /\ thread[t].client \in Clients
          /\ Earned(thread[t].client, thread[t].out)
          /\ thread[t].pc = "clear" => thread[t].seen \in proved[thread[t].client]

Inv == SessionTypes /\ SessionInv

\* Only an address with failures gets a lockout without a look at the bound.
BoundInv ==
    /\ Cardinality(DOMAIN failures) <= MaxTracked
    /\ Cardinality(DOMAIN locked \ DOMAIN failures) < MaxTracked

\* What the table has of an address, times, is the end of all its failures; those
\* before are old, but for as many as were gone when an entry was evicted.
EndOf(all, times, gone, now) ==
    LET past == Len(all) - Len(times)
    IN /\ \A i, j \in DOMAIN all : i < j => all[i] <= all[j]
       /\ \A j \in DOMAIN all : all[j] <= now
       /\ past >= 0 /\ gone <= Len(all)
       /\ \A j \in DOMAIN times : times[j] = all[past + j]
       /\ \A j \in (gone + 1)..past : all[j] < now - Window

TimesOf(c) == EndOf(failed[c], Times(failures, c), dropped[c], clock)

\* The failure that set a lockout, and those before it within the window.
LockoutOf(c) ==
    \E j \in DOMAIN failed[c] :
        /\ locked[c].until = failed[c][j] + Lockout
        /\ Count(failed[c], failed[c][j] - Window, failed[c][j]) >= Threshold

\* The threads that will try a password of a client without another look.
Trying(c) == {t \in Threads : thread[t].client = c /\ thread[t].pc \in {"read", "verify"}}

TriesOf(c) ==
    Cardinality(InWindow(c)) + Cardinality(Trying(c)) < Threshold + Cardinality(Threads)

TablesInv ==
    /\ TableTypes /\ BoundInv
    /\ \A c \in Clients : TimesOf(c) /\ TriesOf(c)
    /\ \A c \in DOMAIN locked : LockoutOf(c)

-----------------------------------------------------------------------------
(* The invariant is inductive.                                             *)

LEMMA InitInv == Init => Inv
  BY SignInAssumption
     DEF Init, Inv, SessionTypes, SessionInv, Earned, Idle, Requests

\* A request begins with the session of its browser.
LEMMA AskInv ==
    ASSUME Inv, NEW t \in Threads, NEW c \in Clients,
           NEW kind \in {"page", "logout", "login", "change"}, NEW typed \in Nat,
           Ask(t, c, kind, typed)
    PROVE  Inv'
  <1> DEFINE place == IF kind = "login" THEN "check" ELSE "authorize"
             seen == IF kind = "login" THEN password ELSE 0
             new == [pc |-> place, kind |-> kind, client |-> c, typed |-> typed,
                     seen |-> seen, session |-> cookie[c], out |-> cookie[c]]
  <1>1. thread' = [thread EXCEPT ![t] = new]
    BY DEF Ask
  <1>2. UNCHANGED <<password, cookie, proved>>
    BY DEF Ask, histories
  <1>3. new \in Requests
    BY DEF Inv, SessionTypes, Requests
  <1>4. SessionTypes'
    BY <1>1, <1>2, <1>3 DEF Inv, SessionTypes
  <1>5. SessionInv'
    BY <1>1, <1>2 DEF Inv, SessionInv, SessionTypes, Earned
  <1> QED BY <1>4, <1>5 DEF Inv

\* What a step that leaves cookies and proofs alone may do to its request.
LEMMA GoOnInv ==
    ASSUME Inv, NEW t \in Threads, thread[t].pc # "idle",
           NEW q \in Requests, thread' = [thread EXCEPT ![t] = q],
           q.pc # "clear", q.client = thread[t].client,
           q.out = thread[t].out \/ q.out = 0,
           UNCHANGED <<password, cookie, proved>>
    PROVE  Inv'
  BY DEF Inv, SessionTypes, SessionInv, Earned

LEMMA AuthorizeInv ==
    ASSUME Inv, NEW t \in Threads, Authorize(t)
    PROVE  Inv'
  <1> DEFINE current == thread[t].session = password
             change == thread[t].kind = "change"
             logout == thread[t].kind = "logout"
             q == [thread[t] EXCEPT
                     !.pc = IF current /\ change THEN "check" ELSE "respond",
                     !.out = IF current /\ ~logout THEN @ ELSE 0]
  <1>1. thread' = [thread EXCEPT ![t] = q]
    BY DEF Authorize, Inv, SessionTypes, Requests
  <1>2. thread[t].pc # "idle" /\ UNCHANGED <<password, cookie, proved>>
    BY DEF Authorize, histories
  <1>3. q \in Requests /\ q.pc # "clear" /\ q.client = thread[t].client
    BY DEF Inv, SessionTypes, Requests
  <1>4. q.out = thread[t].out \/ q.out = 0
    BY DEF Inv, SessionTypes, Requests
  <1> QED BY <1>1, <1>2, <1>3, <1>4, GoOnInv

\* The steps that only go to the next place.
LEMMA GotoInv ==
    ASSUME Inv, NEW t \in Threads, thread[t].pc # "idle",
           NEW place \in {"check", "read", "verify", "respond"}, Goto(t, place),
           UNCHANGED <<password, cookie, proved>>
    PROVE  Inv'
  <1> DEFINE q == [thread[t] EXCEPT !.pc = place]
  <1>1. thread' = [thread EXCEPT ![t] = q]
    BY DEF Goto
  <1>2. q \in Requests /\ q.pc # "clear" /\ q.client = thread[t].client
           /\ q.out = thread[t].out
    BY DEF Inv, SessionTypes, Requests
  <1> QED BY <1>1, <1>2, GoOnInv

LEMMA ReadHashInv ==
    ASSUME Inv, NEW t \in Threads, ReadHash(t)
    PROVE  Inv'
  <1> DEFINE q == [thread[t] EXCEPT !.pc = "verify", !.seen = password]
  <1>1. thread' = [thread EXCEPT ![t] = q]
    BY DEF ReadHash, Inv, SessionTypes, Requests
  <1>2. thread[t].pc # "idle" /\ UNCHANGED <<password, cookie, proved>>
    BY DEF ReadHash, histories
  <1>3. q \in Requests /\ q.pc # "clear" /\ q.client = thread[t].client
           /\ q.out = thread[t].out
    BY DEF Inv, SessionTypes, Requests
  <1> QED BY <1>1, <1>2, <1>3, GoOnInv

\* The password was typed, or is a new one: it is proved, and issued.
LEMMA ProveInv ==
    ASSUME Inv, NEW t \in Threads, thread[t].pc # "idle",
           NEW p \in Nat, password' \in Nat \ {0},
           thread' = [thread EXCEPT ![t] = [@ EXCEPT !.pc = "clear", !.seen = p]],
           proved' = [proved EXCEPT ![thread[t].client] = @ \cup {p}],
           UNCHANGED cookie
    PROVE  Inv'
  <1> DEFINE c == thread[t].client
             q == [thread[t] EXCEPT !.pc = "clear", !.seen = p]
  <1>1. c \in Clients
    BY DEF Inv, SessionInv
  <1>2. q \in Requests /\ q.client = c /\ q.out = thread[t].out /\ q.seen = p
           /\ q.pc = "clear"
    BY DEF Inv, SessionTypes, Requests
  <1>3. thread' = [thread EXCEPT ![t] = q]
    OBVIOUS
  <1>4. \A d \in Clients : proved[d] \subseteq proved'[d]
    BY <1>1 DEF Inv, SessionTypes
  <1>5. p \in proved'[c]
    BY <1>1 DEF Inv, SessionTypes
  <1>6. SessionTypes'
    BY <1>1, <1>2, <1>3 DEF Inv, SessionTypes
  <1>7. \A d \in Clients : Earned(d, cookie[d])'
    BY <1>4 DEF Inv, SessionInv, Earned
  <1>8. ASSUME NEW u \in Threads, thread'[u].pc # "idle"
        PROVE  /\ thread'[u].client \in Clients
               /\ Earned(thread[u].client, thread[u].out)'
               /\ thread'[u].pc = "clear" => thread'[u].seen \in proved'[thread'[u].client]
    <2>1. CASE u = t
      BY <2>1, <1>1, <1>2, <1>3, <1>4, <1>5 DEF Inv, SessionTypes, SessionInv, Earned
    <2>2. CASE u # t
      <3>1. thread'[u] = thread[u]
        BY <2>2, <1>3 DEF Inv, SessionTypes
      <3> QED BY <3>1, <1>4, <1>8 DEF Inv, SessionInv, Earned
    <2> QED BY <2>1, <2>2
  <1> QED BY <1>6, <1>7, <1>8 DEF Inv, SessionInv

LEMMA ClearInv ==
    ASSUME Inv, NEW t \in Threads, ClearFailures(t)
    PROVE  Inv'
  <1> DEFINE q == [thread[t] EXCEPT !.pc = "respond", !.out = thread[t].seen]
  <1>1. thread' = [thread EXCEPT ![t] = q]
    BY DEF ClearFailures, IssuedFor, Inv, SessionTypes, Requests
  <1>2. thread[t].pc = "clear" /\ UNCHANGED <<password, cookie, proved>>
    BY DEF ClearFailures
  <1>3. q \in Requests /\ q.pc = "respond" /\ q.client = thread[t].client
           /\ q.out = thread[t].seen
    BY DEF Inv, SessionTypes, Requests
  <1> QED BY <1>1, <1>2, <1>3 DEF Inv, SessionTypes, SessionInv, Earned

LEMMA RespondInv ==
    ASSUME Inv, NEW t \in Threads, Respond(t)
    PROVE  Inv'
  <1>1. /\ thread[t].pc = "respond" /\ UNCHANGED <<password, proved>>
        /\ cookie' = [cookie EXCEPT ![thread[t].client] = thread[t].out]
        /\ thread' = [thread EXCEPT ![t] = Idle]
    BY DEF Respond, histories
  <1>2. Idle \in Requests /\ Idle.pc = "idle"
    BY DEF Idle, Requests
  <1>3. thread[t].client \in Clients /\ thread[t].out \in Nat
           /\ Earned(thread[t].client, thread[t].out)
    BY <1>1 DEF Inv, SessionTypes, SessionInv, Requests
  <1>4. SessionTypes'
    BY <1>1, <1>2, <1>3 DEF Inv, SessionTypes
  <1>5. SessionInv'
    BY <1>1, <1>2, <1>3 DEF Inv, SessionTypes, SessionInv, Earned
  <1> QED BY <1>4, <1>5 DEF Inv

\* The password is right: that of a login, or of a change, which may be refused.
LEMMA VerifiedInv ==
    ASSUME Inv, NEW t \in Threads, LoginMatches(t) \/ Change(t)
    PROVE  Inv'
  <1>0. thread[t] \in Requests
    BY DEF Inv, SessionTypes
  <1>1. CASE LoginMatches(t)
    <2>1. thread' = [thread EXCEPT ![t] = [@ EXCEPT !.pc = "clear", !.seen = thread[t].seen]]
      <3>1. [thread[t] EXCEPT !.pc = "clear"]
              = [thread[t] EXCEPT !.pc = "clear", !.seen = thread[t].seen]
        BY <1>0 DEF Requests
      <3> QED BY <1>1, <3>1 DEF LoginMatches, Goto
    <2>2. /\ proved' = [proved EXCEPT ![thread[t].client] = @ \cup {thread[t].seen}]
          /\ thread[t].pc # "idle" /\ UNCHANGED <<password, cookie>>
      BY <1>1 DEF LoginMatches
    <2>3. thread[t].seen \in Nat /\ password' \in Nat \ {0}
      BY <1>0, <2>2 DEF Requests, Inv, SessionTypes
    <2> QED BY <2>1, <2>2, <2>3, ProveInv
  <1>2. CASE Change(t)
    <2>1. CASE Goto(t, "respond") /\ UNCHANGED <<password, proved>>
      BY <2>1, <1>2, GotoInv DEF Change
    <2>2. CASE /\ password' = password + 1
               /\ thread' = [thread EXCEPT ![t].pc = "clear", ![t].seen = password']
               /\ proved' = [proved EXCEPT ![thread[t].client] = @ \cup {password'}]
      <3>1. password + 1 \in Nat \ {0}
        BY DEF Inv, SessionTypes
      <3>2. thread[t].pc # "idle" /\ UNCHANGED cookie
        BY <1>2 DEF Change
      <3>3. thread' = [thread EXCEPT ![t] = [@ EXCEPT !.pc = "clear", !.seen = password + 1]]
        BY <2>2 DEF Inv, SessionTypes, Requests
      <3> QED BY <2>2, <3>1, <3>2, <3>3, ProveInv
    <2> QED BY <1>2, <2>1, <2>2 DEF Change
  <1> QED BY <1>1, <1>2

\* Checking for a lockout and recording a failure touch the tables only.
LEMMA CheckedInv ==
    ASSUME Inv, NEW t \in Threads, CheckLockout(t) \/ VerifyFails(t)
    PROVE  Inv'
  <1>1. thread[t].pc # "idle" /\ UNCHANGED <<password, cookie, proved>>
    <2>1. CASE CheckLockout(t)
      BY <2>1 DEF CheckLockout, histories
    <2>2. CASE VerifyFails(t)
      BY <2>2 DEF VerifyFails
    <2> QED BY <2>1, <2>2
  <1>2. \E place \in {"check", "read", "verify", "respond"} : Goto(t, place)
    <2>1. CASE CheckLockout(t)
      BY <2>1 DEF CheckLockout
    <2>2. CASE VerifyFails(t)
      BY <2>2 DEF VerifyFails
    <2> QED BY <2>1, <2>2
  <1> QED BY <1>1, <1>2, GotoInv

\* Every step preserves the invariant.
LEMMA NextInv == Inv /\ [Next]_vars => Inv'
  <1> SUFFICES ASSUME Inv, [Next]_vars PROVE Inv'
    OBVIOUS
  <1>1. CASE Tick
    BY <1>1 DEF Tick, histories, Inv, SessionTypes, SessionInv, Earned
  <1>2. ASSUME NEW t \in Threads, Serve(t) PROVE Inv'
    BY <1>2, AuthorizeInv, CheckedInv, ReadHashInv, VerifiedInv, ClearInv, RespondInv
       DEF Serve
  <1>3. ASSUME NEW t \in Threads, NEW c \in Clients, Type(t, c) \/ Visit(t, c)
        PROVE  Inv'
    <2>1. PICK kind \in {"page", "logout", "login", "change"}, typed \in {password, 0} :
              Ask(t, c, kind, typed)
      BY <1>3 DEF Type, Visit
    <2>2. typed \in Nat
      BY DEF Inv, SessionTypes
    <2> QED BY <2>1, <2>2, AskInv
  <1>4. CASE UNCHANGED vars
    BY <1>4 DEF vars, histories, Inv, SessionTypes, SessionInv, Earned
  <1> QED BY <1>1, <1>2, <1>3, <1>4 DEF Next

-----------------------------------------------------------------------------
(* Theorems.                                                                *)

\* The invariant of sessions holds throughout, whatever interleaves (auth.py,
\* routes/auth.py, api_auth.py).
THEOREM Invariance == Spec => []Inv
  BY InitInv, NextInv, PTL DEF Spec

\* A session of the current password is in no browser but those of clients that
\* have shown to know that password or have set it (login_post, change_password,
\* login_required): neither a request that was under way when the password was
\* changed nor one that was checked before brings one to another.
THEOREM SessionsEarned == Spec => []SessionIsEarned
  <1>1. Inv => SessionIsEarned
    BY DEF Inv, SessionTypes, SessionInv, Earned, SessionIsEarned
  <1> QED BY <1>1, Invariance, PTL

\* A set of numbers that has a member has a least one.
LEMMA Least ==
    ASSUME NEW T \in SUBSET Nat, T # {}
    PROVE  \E n \in T : \A m \in T : n <= m
  <1>1. OpToRel(<, Nat) = {s \in Nat \X Nat : s[1] < s[2]}
    BY DEF OpToRel
  <1>2. \E x \in T : \A y \in T : ~(<<y, x>> \in OpToRel(<, Nat))
    BY NatLessThanWellFounded, WFMin
  <1>3. \E x \in T : \A y \in T : <<y, x>> \notin {s \in Nat \X Nat : s[1] < s[2]}
    BY <1>1, <1>2, Zenon
  <1>4. PICK x \in T : \A y \in T : <<y, x>> \notin {s \in Nat \X Nat : s[1] < s[2]}
    BY <1>3
  <1>5. ASSUME NEW y \in T PROVE x <= y
    <2>1. <<y, x>> \in Nat \X Nat
      OBVIOUS
    <2>2. ~(<<y, x>>[1] < <<y, x>>[2])
      BY <2>1, <1>4
    <2> QED BY <2>1, <2>2
  <1> QED BY <1>5

-----------------------------------------------------------------------------
(* Tables.                                                                  *)

\* A part of a table is one.
LEMMA OnlyFacts ==
    ASSUME NEW table, NEW n \in Nat, Orderly(table, n), NEW ips \in SUBSET DOMAIN table
    PROVE  /\ DOMAIN Only(table, ips) = ips
           /\ \A ip \in ips : Only(table, ips)[ip] = table[ip]
           /\ Orderly(Only(table, ips), n)
  <1>1. DOMAIN Only(table, ips) = ips /\ \A ip \in ips : Only(table, ips)[ip] = table[ip]
    BY DEF Only
  <1>2. IsFiniteSet(ips)
    BY FS_Subset DEF Orderly
  <1> QED BY <1>1, <1>2 DEF Orderly

\* With an entry that has the turn of the old one, or the next.
LEMMA WithFacts ==
    ASSUME NEW table, NEW n \in Nat, Orderly(table, n), NEW ip \in Clients, NEW entry,
           entry.turn = IF ip \in DOMAIN table THEN table[ip].turn ELSE n
    PROVE  /\ DOMAIN With(table, ip, entry) = DOMAIN table \cup {ip}
           /\ With(table, ip, entry)[ip] = entry
           /\ \A c \in DOMAIN table \ {ip} : With(table, ip, entry)[c] = table[c]
           /\ Orderly(With(table, ip, entry), n + 1)
  <1>1. /\ DOMAIN With(table, ip, entry) = DOMAIN table \cup {ip}
        /\ With(table, ip, entry)[ip] = entry
        /\ \A c \in DOMAIN table \ {ip} : With(table, ip, entry)[c] = table[c]
    BY DEF With
  <1>2. IsFiniteSet(DOMAIN table \cup {ip})
    BY FS_AddElement DEF Orderly
  <1> DEFINE new == With(table, ip, entry)
  <1>3. \A c \in DOMAIN new : new[c].turn = IF c \in DOMAIN table THEN table[c].turn ELSE n
    BY <1>1
  <1>4. \A c \in DOMAIN new : new[c].turn \in 0..(n + 1 - 1)
    BY <1>3 DEF Orderly
  <1>5. \A a, b \in DOMAIN new : new[a].turn = new[b].turn => a = b
    BY <1>1, <1>3 DEF Orderly
  <1>6. DOMAIN new \subseteq Clients
    BY <1>1 DEF Orderly
  <1> QED BY <1>1, <1>2, <1>4, <1>5, <1>6 DEF Orderly

\* There are fewer newest entries than MaxTracked: the oldest of them has all
\* others after it.
LEMMA NewestFacts ==
    ASSUME NEW table, NEW n \in Nat, Orderly(table, n)
    PROVE  /\ DOMAIN Newest(table) \subseteq DOMAIN table
           /\ \A ip \in DOMAIN Newest(table) : Newest(table)[ip] = table[ip]
           /\ Orderly(Newest(table), n)
           /\ Cardinality(DOMAIN Newest(table)) < MaxTracked
  <1> DEFINE K == {ip \in DOMAIN table : Cardinality(After(table, ip)) < MaxTracked - 1}
  <1>1. /\ DOMAIN Newest(table) = K
        /\ \A ip \in K : Newest(table)[ip] = table[ip]
        /\ Orderly(Newest(table), n)
    BY OnlyFacts DEF Newest
  <1>2. MaxTracked \in Nat \ {0}
    BY SignInAssumption
  <1>3. IsFiniteSet(K) /\ Cardinality(K) \in Nat
    BY FS_Subset, FS_CardinalityType DEF Orderly
  <1>4. Cardinality(K) < MaxTracked
    <2>1. CASE K = {}
      BY <2>1, <1>2, FS_EmptySet
    <2>2. CASE K # {}
      <3> DEFINE T == {table[ip].turn : ip \in K}
      <3>1. T \in SUBSET Nat /\ T # {}
        BY <2>2 DEF Orderly
      <3>2. PICK least \in T : \A m \in T : least <= m
        BY <3>1, Least
      <3>3. PICK ip \in K : table[ip].turn = least
        BY <3>2
      <3>4. K \ {ip} \subseteq After(table, ip)
        <4> SUFFICES ASSUME NEW c \in K \ {ip} PROVE c \in After(table, ip)
          OBVIOUS
        <4>1. least <= table[c].turn /\ table[c].turn # table[ip].turn
          BY <3>2, <3>3 DEF Orderly
        <4>2. table[c].turn \in Nat /\ table[ip].turn \in Nat
          BY DEF Orderly
        <4> QED BY <3>3, <4>1, <4>2 DEF After
      <3>5. IsFiniteSet(After(table, ip))
        BY FS_Subset DEF After, Orderly
      <3>6. /\ Cardinality(K \ {ip}) <= Cardinality(After(table, ip))
            /\ Cardinality(After(table, ip)) \in Nat
        BY <3>4, <3>5, FS_Subset, FS_CardinalityType
      <3>7. Cardinality(K \ {ip}) = Cardinality(K) - 1
        BY <1>3, <3>3, FS_RemoveElement
      <3>8. Cardinality(After(table, ip)) < MaxTracked - 1
        BY <3>3
      <3> QED BY <1>2, <1>3, <3>6, <3>7, <3>8
    <2> QED BY <2>1, <2>2
  <1> QED BY <1>1, <1>4

\* What is left when room is made: parts of both tables, each with room for an
\* entry of an address that is not there yet.
LEMMA KeptFacts ==
    ASSUME TableTypes, NEW ip \in Clients
    PROVE  /\ DOMAIN Kept(ip).failures \subseteq DOMAIN failures
           /\ DOMAIN Kept(ip).locked \subseteq DOMAIN locked
           /\ \A c \in DOMAIN Kept(ip).failures : Kept(ip).failures[c] = failures[c]
           /\ \A c \in DOMAIN Kept(ip).locked : Kept(ip).locked[c] = locked[c]
           /\ Orderly(Kept(ip).failures, turns) /\ Orderly(Kept(ip).locked, turns)
           /\ ip \in DOMAIN failures =>
                 Kept(ip).failures = failures /\ Kept(ip).locked = locked
           /\ ip \notin DOMAIN failures =>
                 /\ Cardinality(DOMAIN Kept(ip).failures) < MaxTracked
                 /\ Cardinality(DOMAIN Kept(ip).locked) < MaxTracked
  <1>1. CASE Kept(ip) = Prune
    <2> DEFINE live == Only(failures, {c \in DOMAIN failures :
                                            Recent(failures[c].times) # <<>>})
               on == Only(locked, {c \in DOMAIN locked : locked[c].until > clock})
    <2>0. turns \in Nat /\ Orderly(failures, turns) /\ Orderly(locked, turns)
      BY DEF TableTypes
    <2>1. /\ DOMAIN live \subseteq DOMAIN failures
          /\ \A c \in DOMAIN live : live[c] = failures[c]
          /\ Orderly(live, turns)
      BY <2>0, OnlyFacts
    <2>2. /\ DOMAIN on \subseteq DOMAIN locked
          /\ \A c \in DOMAIN on : on[c] = locked[c]
          /\ Orderly(on, turns)
      BY <2>0, OnlyFacts
    <2>3. Kept(ip).failures = Newest(live) /\ Kept(ip).locked = Newest(on)
      BY <1>1 DEF Prune
    <2> HIDE DEF live, on
    <2>4. /\ DOMAIN Newest(live) \subseteq DOMAIN live
          /\ \A c \in DOMAIN Newest(live) : Newest(live)[c] = live[c]
          /\ Orderly(Newest(live), turns)
          /\ Cardinality(DOMAIN Newest(live)) < MaxTracked
      BY <2>0, <2>1, NewestFacts
    <2>5. /\ DOMAIN Newest(on) \subseteq DOMAIN on
          /\ \A c \in DOMAIN Newest(on) : Newest(on)[c] = on[c]
          /\ Orderly(Newest(on), turns)
          /\ Cardinality(DOMAIN Newest(on)) < MaxTracked
      BY <2>0, <2>2, NewestFacts
    <2>6. ip \in DOMAIN failures => Kept(ip) = [failures |-> failures, locked |-> locked]
      BY DEF Kept
    <2> QED BY <2>1, <2>2, <2>3, <2>4, <2>5, <2>6
  <1>2. CASE Kept(ip) # Prune
    <2>1. /\ Kept(ip) = [failures |-> failures, locked |-> locked]
          /\ ip \notin DOMAIN failures =>
                /\ ~(Cardinality(DOMAIN failures) >= MaxTracked)
                /\ ~(Cardinality(DOMAIN locked) >= MaxTracked)
      BY <1>2 DEF Kept
    <2>2. Cardinality(DOMAIN failures) \in Nat /\ Cardinality(DOMAIN locked) \in Nat
      BY FS_CardinalityType DEF TableTypes, Orderly
    <2> QED BY <2>1, <2>2, SignInAssumption DEF TableTypes
  <1> QED BY <1>1, <1>2

-----------------------------------------------------------------------------
(* Times.                                                                   *)

\* Of times that rise those within the window are the last.
LEMMA RecentFacts ==
    ASSUME clock \in Nat, NEW times \in Seq(Nat),
           \A i, j \in DOMAIN times : i < j => times[i] <= times[j]
    PROVE  \E n \in 0..Len(times) :
              /\ Recent(times) \in Seq(Nat) /\ Len(Recent(times)) = Len(times) - n
              /\ \A j \in 1..(Len(times) - n) : Recent(times)[j] = times[n + j]
              /\ \A j \in 1..n : times[j] < clock - Window
              /\ \A j \in (n + 1)..Len(times) : times[j] >= clock - Window
  <1> DEFINE P(n) == /\ \A j \in 1..n : times[j] < clock - Window
                     /\ n < Len(times) => times[n + 1] >= clock - Window
             T == {i \in 1..Len(times) : times[i] >= clock - Window}
  <1>1. Len(times) \in Nat /\ Window \in Nat /\ DOMAIN times = 1..Len(times)
           /\ \A i \in 1..Len(times) : times[i] \in Nat
    BY SignInAssumption
  <1>2. \E n \in 0..Len(times) : P(n)
    <2>1. CASE T = {}
      <3>1. \A j \in 1..Len(times) : times[j] < clock - Window
        BY <1>1, <2>1
      <3>2. Len(times) \in 0..Len(times) /\ ~(Len(times) < Len(times))
        BY <1>1
      <3>3. P(Len(times))
        BY <3>1, <3>2
      <3> QED BY <3>2, <3>3
    <2>2. CASE T # {}
      <3>1. PICK i \in T : \A m \in T : i <= m
        <4>1. T \in SUBSET Nat
          BY <1>1
        <4> QED BY <2>2, <4>1, Least
      <3>2. i \in 1..Len(times) /\ i - 1 \in 0..Len(times) /\ i - 1 + 1 = i
        BY <1>1, <3>1
      <3>3. \A j \in 1..(i - 1) : times[j] < clock - Window
        <4> SUFFICES ASSUME NEW j \in 1..(i - 1) PROVE times[j] < clock - Window
          OBVIOUS
        <4>1. j \in 1..Len(times) /\ ~(i <= j)
          BY <1>1, <3>2
        <4>2. j \notin T
          BY <3>1, <4>1
        <4> QED BY <1>1, <4>1, <4>2
      <3>4. times[i - 1 + 1] >= clock - Window
        BY <3>1, <3>2
      <3>5. P(i - 1)
        BY <3>3, <3>4
      <3> QED BY <3>2, <3>5
    <2> QED BY <2>1, <2>2
  <1> DEFINE n == CHOOSE n \in 0..Len(times) : P(n)
  <1>3. n \in 0..Len(times) /\ P(n)
    BY <1>2, Zenon
  <1>4. Recent(times) = SubSeq(times, n + 1, Len(times))
    BY DEF Recent
  <1> HIDE DEF n
  <1>5. n \in Nat /\ n <= Len(times)
    BY <1>1, <1>3
  <1>6. /\ Recent(times) \in Seq(Nat) /\ Len(Recent(times)) = Len(times) - n
        /\ \A j \in 1..(Len(times) - n) : Recent(times)[j] = times[n + j]
    <2>1. n + 1 \in 1..Len(times) + 1 /\ n + 1 \in Int /\ Len(times) \in 0..Len(times)
             /\ Len(times) - (n + 1) + 1 = Len(times) - n
      BY <1>1, <1>5
    <2>2. CASE n < Len(times)
      <3>1. n + 1 <= Len(times) /\ 1 <= n + 1
        BY <1>1, <1>5, <2>2
      <3>2. /\ SubSeq(times, n + 1, Len(times)) \in Seq(Nat)
            /\ Len(SubSeq(times, n + 1, Len(times))) = Len(times) - n
            /\ \A j \in 1..(Len(times) - n) :
                  SubSeq(times, n + 1, Len(times))[j] = times[n + j]
        BY <1>1, <1>5, <2>1, <3>1
      <3> QED BY <1>4, <3>2
    <2>3. CASE n = Len(times)
      <3>1. SubSeq(times, n + 1, Len(times)) = <<>> /\ Len(times) - n = 0
        BY <1>1, <2>3
      <3>2. <<>> \in Seq(Nat) /\ Len(<<>>) = 0
        OBVIOUS
      <3>3. \A j \in 1..(Len(times) - n) : FALSE
        BY <3>1
      <3> QED BY <1>4, <3>1, <3>2, <3>3
    <2>4. n < Len(times) \/ n = Len(times)
      <3>1. \A a, b \in Nat : a <= b => a < b \/ a = b
        OBVIOUS
      <3> QED BY <1>1, <1>5, <3>1
    <2> QED BY <2>2, <2>3, <2>4
  <1>7. ASSUME NEW j \in (n + 1)..Len(times) PROVE times[j] >= clock - Window
    <2>1. j \in 1..Len(times) /\ n + 1 \in 1..Len(times) /\ n < Len(times) /\ n + 1 <= j
      BY <1>1, <1>5
    <2>2. times[n + 1] >= clock - Window
      BY <1>3, <2>1
    <2>3. times[n + 1] <= times[j]
      BY <1>1, <2>1
    <2>4. times[j] \in Nat /\ times[n + 1] \in Nat
      BY <1>1, <2>1
    <2> QED BY <1>1, <2>2, <2>3, <2>4
  <1> QED BY <1>3, <1>5, <1>6, <1>7


\* What EndOf says of a table holds when old times are popped from it, and then what
\* it has is not old.
LEMMA EndRecent ==
    ASSUME clock \in Nat, NEW f \in Seq(Nat), NEW times \in Seq(Nat), NEW d \in Nat,
           EndOf(f, times, d, clock)
    PROVE  /\ Recent(times) \in Seq(Nat) /\ EndOf(f, Recent(times), d, clock)
           /\ \A j \in (Len(f) - Len(Recent(times)) + 1)..Len(f) : f[j] >= clock - Window
  <1>0. /\ \A i, j \in DOMAIN f : i < j => f[i] <= f[j]
        /\ \A j \in DOMAIN f : f[j] <= clock
        /\ Len(times) <= Len(f) /\ d <= Len(f)
        /\ \A j \in DOMAIN times : times[j] = f[Len(f) - Len(times) + j]
        /\ \A j \in (d + 1)..(Len(f) - Len(times)) : f[j] < clock - Window
    BY DEF EndOf
  <1>1. /\ Len(f) \in Nat /\ Len(times) \in Nat /\ Window \in Nat
        /\ DOMAIN f = 1..Len(f) /\ DOMAIN times = 1..Len(times)
        /\ Len(times) <= Len(f) /\ d <= Len(f)
    BY SignInAssumption DEF EndOf
  <1>2. \A i, j \in DOMAIN times : i < j => times[i] <= times[j]
    <2> SUFFICES ASSUME NEW i \in DOMAIN times, NEW j \in DOMAIN times, i < j
                 PROVE  times[i] <= times[j]
      OBVIOUS
    <2> DEFINE past == Len(f) - Len(times)
    <2>1. /\ past \in Nat /\ past + Len(times) = Len(f)
          /\ i \in Nat /\ 1 <= i /\ i <= Len(times) /\ j \in Nat /\ 1 <= j /\ j <= Len(times)
      BY <1>1
    <2>2. times[i] = f[past + i] /\ times[j] = f[past + j]
      BY <1>0
    <2> HIDE DEF past
    <2>3. past + i \in DOMAIN f /\ past + j \in DOMAIN f /\ past + i < past + j
      <3>1. DOMAIN f = 1..Len(f) /\ Len(f) \in Nat /\ Len(times) \in Nat
        BY <1>1
      <3>2. ASSUME NEW p \in Nat, NEW k \in Nat, NEW l \in Nat, NEW m \in Nat,
                   p + l = m, 1 <= k, k <= l
            PROVE  p + k \in 1..m
        BY <3>2
      <3>3. past + i \in 1..Len(f) /\ past + j \in 1..Len(f)
        BY <2>1, <3>1, <3>2
      <3>4. past + i < past + j
        BY <2>1
      <3> QED BY <3>1, <3>3, <3>4
    <2> QED BY <1>0, <2>2, <2>3
  <1>3. PICK n \in 0..Len(times) :
              /\ Recent(times) \in Seq(Nat) /\ Len(Recent(times)) = Len(times) - n
              /\ \A j \in 1..(Len(times) - n) : Recent(times)[j] = times[n + j]
              /\ \A j \in 1..n : times[j] < clock - Window
              /\ \A j \in (n + 1)..Len(times) : times[j] >= clock - Window
    BY <1>2, RecentFacts, Zenon
  <1>4. /\ n \in Nat /\ n <= Len(times) /\ DOMAIN Recent(times) = 1..(Len(times) - n)
        /\ Len(f) - Len(Recent(times)) = Len(f) - Len(times) + n
    <2>1. n \in Nat /\ n <= Len(times)
      BY <1>1
    <2>2. Recent(times) \in Seq(Nat) /\ Len(Recent(times)) = Len(times) - n
      BY <1>3
    <2>3. DOMAIN Recent(times) = 1..(Len(times) - n)
      BY <2>2
    <2>4. Len(f) - (Len(times) - n) = Len(f) - Len(times) + n
      BY <1>1, <2>1
    <2> QED BY <2>1, <2>2, <2>3, <2>4
  <1>5. ASSUME NEW j \in DOMAIN Recent(times)
        PROVE  Recent(times)[j] = f[Len(f) - Len(Recent(times)) + j]
    <2>1. j \in 1..(Len(times) - n) /\ n + j \in DOMAIN times
      <3>1. j \in 1..(Len(times) - n)
        BY <1>4
      <3>2. n \in Nat /\ DOMAIN times = 1..Len(times) /\ Len(times) \in Nat
        BY <1>1, <1>4
      <3> QED BY <3>1, <3>2
    <2>2. Len(f) - Len(times) + (n + j) = Len(f) - Len(Recent(times)) + j
      <3>1. j \in Nat /\ Len(Recent(times)) = Len(times) - n
        BY <1>3, <2>1
      <3> QED BY <1>1, <1>4, <3>1
    <2> QED BY <1>0, <1>3, <2>1, <2>2
  <1>6. ASSUME NEW j \in (d + 1)..(Len(f) - Len(Recent(times)))
        PROVE  f[j] < clock - Window
    <2> DEFINE past == Len(f) - Len(times)
    <2>0. past \in Nat /\ j \in Nat /\ d + 1 <= j /\ j <= past + n
      BY <1>1, <1>4
    <2> HIDE DEF past
    <2>1. CASE j <= past
      <3>1. j \in (d + 1)..past
        BY <2>0, <2>1
      <3> QED BY <1>0, <3>1 DEF past
    <2>2. CASE ~(j <= past)
      <3>1. j - past \in 1..n /\ past + (j - past) = j
        BY <1>4, <2>0, <2>2
      <3>2. j - past \in DOMAIN times
        BY <1>1, <1>4, <3>1
      <3>3. times[j - past] = f[j]
        BY <1>0, <3>1, <3>2 DEF past
      <3> QED BY <1>3, <3>1, <3>3
    <2> QED BY <2>1, <2>2
  <1>7. ASSUME NEW j \in (Len(f) - Len(Recent(times)) + 1)..Len(f)
        PROVE  f[j] >= clock - Window
    <2> DEFINE past == Len(f) - Len(times)
    <2>0. past \in Nat /\ j \in Nat /\ past + n + 1 <= j /\ j <= Len(f) /\ past + Len(times) = Len(f)
      BY <1>1, <1>4
    <2> HIDE DEF past
    <2>1. j - past \in (n + 1)..Len(times) /\ j - past \in DOMAIN times /\ past + (j - past) = j
      BY <1>1, <1>4, <2>0
    <2>2. times[j - past] = f[j]
      BY <1>0, <2>1 DEF past
    <2> QED BY <1>3, <2>1, <2>2
  <1>8. EndOf(f, Recent(times), d, clock)
    <2>1. Len(f) - Len(Recent(times)) >= 0
      BY <1>1, <1>4
    <2> QED BY <1>0, <1>5, <1>6, <2>1 DEF EndOf
  <1> QED BY <1>3, <1>7, <1>8

\* It holds later on, and of an end of a list when one more failure is added to
\* both; and more may be gone, up to all.
LEMMA EndGoesOn ==
    ASSUME NEW f \in Seq(Nat), NEW times \in Seq(Nat), NEW d \in Nat, NEW now \in Nat,
           EndOf(f, times, d, now)
    PROVE  /\ EndOf(f, times, d, now + 1)
           /\ EndOf(f, times, Len(f), now) /\ EndOf(f, <<>>, Len(f), now)
           /\ EndOf(Append(f, now), Append(times, now), d, now)
  <1>0. /\ \A i, j \in DOMAIN f : i < j => f[i] <= f[j]
        /\ \A j \in DOMAIN f : f[j] <= now
        /\ Len(times) <= Len(f) /\ d <= Len(f)
        /\ \A j \in DOMAIN times : times[j] = f[Len(f) - Len(times) + j]
        /\ \A j \in (d + 1)..(Len(f) - Len(times)) : f[j] < now - Window
    BY DEF EndOf
  <1>1. /\ Len(f) \in Nat /\ Len(times) \in Nat /\ Window \in Nat
        /\ DOMAIN f = 1..Len(f) /\ DOMAIN times = 1..Len(times)
        /\ \A j \in DOMAIN f : f[j] \in Nat
    BY SignInAssumption
  <1>2. EndOf(f, times, d, now + 1)
    <2>1. \A j \in DOMAIN f : f[j] <= now + 1
      BY <1>0, <1>1
    <2>2. \A j \in (d + 1)..(Len(f) - Len(times)) : f[j] < now + 1 - Window
      <3> SUFFICES ASSUME NEW j \in (d + 1)..(Len(f) - Len(times))
                   PROVE  f[j] < now + 1 - Window
        OBVIOUS
      <3>1. f[j] < now - Window /\ j \in 1..Len(f)
        BY <1>0, <1>1
      <3>2. f[j] \in Nat
        BY <1>1, <3>1
      <3> QED BY <1>1, <3>1, <3>2
    <2> QED BY <1>0, <1>1, <2>1, <2>2 DEF EndOf
  <1>3. EndOf(f, times, Len(f), now)
    <2>1. \A j \in (Len(f) + 1)..(Len(f) - Len(times)) : FALSE
      BY <1>1
    <2> QED BY <1>0, <1>1, <2>1 DEF EndOf
  <1>4. EndOf(f, <<>>, Len(f), now)
    <2>1. Len(<<>>) = 0 /\ DOMAIN <<>> = {} /\ Len(f) - 0 = Len(f)
      BY <1>1
    <2>2. \A j \in (Len(f) + 1)..Len(f) : FALSE
      BY <1>1
    <2> QED BY <1>0, <1>1, <2>1, <2>2 DEF EndOf
  <1>5. EndOf(Append(f, now), Append(times, now), d, now)
    <2> DEFINE g == Append(f, now)
               ts == Append(times, now)
    <2>1. /\ Len(g) = Len(f) + 1 /\ DOMAIN g = 1..(Len(f) + 1)
          /\ \A j \in 1..Len(f) : g[j] = f[j]
          /\ g[Len(f) + 1] = now
      BY <1>1
    <2>2. /\ Len(ts) = Len(times) + 1 /\ DOMAIN ts = 1..(Len(times) + 1)
          /\ \A j \in 1..Len(times) : ts[j] = times[j]
          /\ ts[Len(times) + 1] = now
      BY <1>1
    <2>3. Len(g) - Len(ts) = Len(f) - Len(times)
      BY <1>1, <2>1, <2>2
    <2> HIDE DEF g, ts
    <2>4. ASSUME NEW i \in DOMAIN g, NEW j \in DOMAIN g, i < j PROVE g[i] <= g[j]
      <3>1. i \in 1..Len(f)
        BY <1>1, <2>1, <2>4
      <3>2. CASE j \in 1..Len(f)
        BY <1>0, <1>1, <2>1, <2>4, <3>1, <3>2
      <3>3. CASE j = Len(f) + 1
        BY <1>0, <1>1, <2>1, <3>1, <3>3
      <3>4. j \in 1..Len(f) \/ j = Len(f) + 1
        BY <1>1, <2>1
      <3> QED BY <3>2, <3>3, <3>4
    <2>5. \A j \in DOMAIN g : g[j] <= now
      BY <1>0, <1>1, <2>1
    <2>6. ASSUME NEW j \in DOMAIN ts PROVE ts[j] = g[Len(g) - Len(ts) + j]
      <3>1. CASE j \in 1..Len(times)
        <4>1. Len(f) - Len(times) + j \in 1..Len(f)
          BY <1>0, <1>1, <3>1
        <4> QED BY <1>0, <1>1, <2>1, <2>2, <2>3, <3>1, <4>1
      <3>2. CASE j = Len(times) + 1
        <4>1. Len(f) - Len(times) + j = Len(f) + 1
          BY <1>1, <3>2
        <4> QED BY <2>1, <2>2, <2>3, <3>2, <4>1
      <3> QED BY <1>1, <2>2, <3>1, <3>2
    <2>7. ASSUME NEW j \in (d + 1)..(Len(g) - Len(ts)) PROVE g[j] < now - Window
      <3>1. j \in (d + 1)..(Len(f) - Len(times)) /\ j \in 1..Len(f)
        BY <1>1, <2>3
      <3> QED BY <1>0, <2>1, <3>1
    <2>8. Len(g) - Len(ts) >= 0 /\ d <= Len(g)
      BY <1>0, <1>1, <2>1, <2>3
    <2>9. EndOf(g, ts, d, now)
      BY <2>4, <2>5, <2>6, <2>7, <2>8 DEF EndOf
    <2> QED BY <2>9 DEF g, ts
  <1> QED BY <1>2, <1>3, <1>4, <1>5

\* How many times of a list lie in a range does not fall when the list grows, and is
\* at least the length of any stretch of it that lies in the range.
LEMMA CountFacts ==
    ASSUME NEW f \in Seq(Nat), NEW from \in Int, NEW to \in Int
    PROVE  /\ Count(f, from, to) \in Nat
           /\ \A e \in Nat : Count(f, from, to) <= Count(Append(f, e), from, to)
           /\ \A n \in 0..Len(f) :
                 (\A j \in (Len(f) - n + 1)..Len(f) : f[j] \in from..to)
                    => n <= Count(f, from, to)
  <1> DEFINE In(g) == {j \in DOMAIN g : g[j] \in from..to}
  <1>1. \A g \in Seq(Nat) : IsFiniteSet(In(g)) /\ Cardinality(In(g)) \in Nat
    <2> SUFFICES ASSUME NEW g \in Seq(Nat)
                 PROVE  IsFiniteSet(In(g)) /\ Cardinality(In(g)) \in Nat
      OBVIOUS
    <2>1. IsFiniteSet(1..Len(g)) /\ DOMAIN g = 1..Len(g)
      BY FS_Interval
    <2> QED BY <2>1, FS_Subset, FS_CardinalityType
  <1>2. ASSUME NEW e \in Nat PROVE Count(f, from, to) <= Count(Append(f, e), from, to)
    <2>1. In(f) \subseteq In(Append(f, e))
      OBVIOUS
    <2>2. Append(f, e) \in Seq(Nat)
      OBVIOUS
    <2> QED BY <1>1, <2>1, <2>2, FS_Subset DEF Count
  <1>3. ASSUME NEW n \in 0..Len(f), \A j \in (Len(f) - n + 1)..Len(f) : f[j] \in from..to
        PROVE  n <= Count(f, from, to)
    <2>1. Len(f) - n + 1 \in Int /\ Len(f) \in Int /\ Len(f) - (Len(f) - n + 1) + 1 = n
             /\ n \in Nat /\ Len(f) \in Nat
      OBVIOUS
    <2>2. Cardinality((Len(f) - n + 1)..Len(f)) = n
      BY <2>1, FS_Interval
    <2>3. (Len(f) - n + 1)..Len(f) \subseteq In(f)
      BY <1>3, <2>1
    <2>4. IsFiniteSet(In(f)) /\ Count(f, from, to) = Cardinality(In(f))
      BY <1>1 DEF Count
    <2> HIDE DEF In
    <2>5. Cardinality((Len(f) - n + 1)..Len(f)) <= Cardinality(In(f))
      BY <2>3, <2>4, FS_Subset
    <2> QED BY <2>2, <2>4, <2>5
  <1> QED BY <1>1, <1>2, <1>3 DEF Count


-----------------------------------------------------------------------------
(* Steps that leave the tables alone, and the clock.                        *)

\* The numbers that TriesOf adds up.
LEMMA Numbers ==
    ASSUME TablesInv, NEW c \in Clients
    PROVE  /\ IsFiniteSet(InWindow(c)) /\ Cardinality(InWindow(c)) \in Nat
           /\ IsFiniteSet(Trying(c)) /\ Cardinality(Trying(c)) \in Nat
           /\ Cardinality(Threads) \in Nat /\ Threshold \in Nat \ {0}
           /\ \A T \in SUBSET Threads :
                 IsFiniteSet(T) /\ Cardinality(T) \in 0..Cardinality(Threads)
  <1>1. dropped[c] + 1 \in Int /\ Len(failed[c]) \in Int
    BY DEF TablesInv, TableTypes
  <1>2. IsFiniteSet(InWindow(c)) /\ Cardinality(InWindow(c)) \in Nat
    <2>1. IsFiniteSet((dropped[c] + 1)..Len(failed[c]))
      BY <1>1, FS_Interval
    <2> QED BY <2>1, FS_Subset, FS_CardinalityType DEF InWindow
  <1>3. IsFiniteSet(Threads) /\ Threshold \in Nat \ {0}
    BY SignInAssumption
  <1>4. Cardinality(Threads) \in Nat
    BY <1>3, FS_CardinalityType
  <1>5. ASSUME NEW T \in SUBSET Threads
        PROVE  IsFiniteSet(T) /\ Cardinality(T) \in 0..Cardinality(Threads)
    <2>1. IsFiniteSet(T) /\ Cardinality(T) <= Cardinality(Threads)
      BY <1>3, FS_Subset
    <2>2. Cardinality(T) \in Nat
      BY <2>1, FS_CardinalityType
    <2> QED BY <1>4, <2>1, <2>2
  <1>6. Trying(c) \in SUBSET Threads
    BY DEF Trying
  <1> QED BY <1>2, <1>3, <1>4, <1>5, <1>6

\* There are no more tries when there is no more in the window and nobody else tries.
LEMMA FewerTries ==
    ASSUME TablesInv, NEW c \in Clients,
           InWindow(c)' \subseteq InWindow(c), Trying(c)' \subseteq Trying(c)
    PROVE  TriesOf(c)'
  <1>1. /\ IsFiniteSet(InWindow(c)) /\ Cardinality(InWindow(c)) \in Nat
        /\ IsFiniteSet(Trying(c)) /\ Cardinality(Trying(c)) \in Nat
        /\ Cardinality(Threads) \in Nat /\ Threshold \in Nat \ {0}
    BY Numbers
  <1>2. /\ Cardinality(InWindow(c)') <= Cardinality(InWindow(c))
        /\ IsFiniteSet(InWindow(c)')
    BY <1>1, FS_Subset
  <1>3. Cardinality(Trying(c)') <= Cardinality(Trying(c)) /\ IsFiniteSet(Trying(c)')
    BY <1>1, FS_Subset
  <1>4. Cardinality(InWindow(c)') \in Nat /\ Cardinality(Trying(c)') \in Nat
    BY <1>2, <1>3, FS_CardinalityType
  <1>5. Cardinality(InWindow(c)) + Cardinality(Trying(c)) < Threshold + Cardinality(Threads)
    BY DEF TablesInv, TriesOf
  <1>6. Cardinality(InWindow(c)') + Cardinality(Trying(c)') < Threshold + Cardinality(Threads)
    BY <1>1, <1>2, <1>3, <1>4, <1>5
  <1> QED BY <1>6 DEF TriesOf

\* A request that goes on elsewhere tries no more than it did.
LEMMA FewerTrying ==
    ASSUME Inv, NEW t \in Threads, NEW q, thread' = [thread EXCEPT ![t] = q],
           q.pc \in {"read", "verify"} =>
              thread[t].pc \in {"read", "verify"} /\ q.client = thread[t].client
    PROVE  \A c \in Clients : Trying(c)' \subseteq Trying(c)
  BY DEF Inv, SessionTypes, Trying

LEMMA QuietTables ==
    ASSUME TablesInv, UNCHANGED <<clock, tables, failed, dropped>>,
           \A c \in Clients : Trying(c)' \subseteq Trying(c)
    PROVE  TablesInv'
  <1> USE DEF tables
  <1>1. TableTypes' /\ BoundInv'
    BY DEF TablesInv, TableTypes, BoundInv, Orderly
  <1>2. ASSUME NEW c \in Clients PROVE TimesOf(c)' /\ TriesOf(c)'
    <2>1. InWindow(c)' = InWindow(c)
      BY DEF InWindow
    <2>2. TimesOf(c)'
      BY DEF TablesInv, TimesOf, Times
    <2> QED BY <2>1, <2>2, FewerTries
  <1>3. \A c \in DOMAIN locked' : LockoutOf(c)'
    BY DEF TablesInv, LockoutOf, Count
  <1> QED BY <1>1, <1>2, <1>3 DEF TablesInv

\* The window moves on.
LEMMA TickTables ==
    ASSUME TablesInv, Tick
    PROVE  TablesInv'
  <1>1. /\ clock' = clock + 1 /\ clock \in Nat
        /\ failures' = failures /\ locked' = locked /\ turns' = turns
        /\ failed' = failed /\ dropped' = dropped /\ thread' = thread
    BY DEF Tick, tables, histories, TablesInv, TableTypes
  <1>2. TableTypes' /\ BoundInv'
    BY <1>1 DEF TablesInv, TableTypes, BoundInv, Orderly
  <1>3. ASSUME NEW c \in Clients PROVE TimesOf(c)' /\ TriesOf(c)'
    <2>1. /\ failed[c] \in Seq(Nat) /\ Window \in Nat /\ dropped[c] \in Nat
          /\ \A j \in DOMAIN failed[c] : failed[c][j] \in Nat
      BY SignInAssumption DEF TablesInv, TableTypes
    <2>2. InWindow(c)' \subseteq InWindow(c)
      <3> SUFFICES ASSUME NEW j \in InWindow(c)' PROVE j \in InWindow(c)
        OBVIOUS
      <3>1. j \in (dropped[c] + 1)..Len(failed[c]) /\ failed[c][j] >= clock + 1 - Window
        <4>1. j \in (dropped'[c] + 1)..Len(failed'[c]) /\ failed'[c][j] >= clock' - Window
          BY DEF InWindow
        <4>2. dropped'[c] = dropped[c] /\ failed'[c] = failed[c] /\ clock' = clock + 1
          BY <1>1
        <4> QED BY <1>1, <2>1, <4>1, <4>2
      <3>2. failed[c][j] \in Nat
        BY <2>1, <3>1
      <3> QED BY <1>1, <2>1, <3>1, <3>2 DEF InWindow
    <2>3. Trying(c)' = Trying(c)
      BY <1>1 DEF Trying
    <2>4. TimesOf(c)'
      <3>1. Times(failures, c) \in Seq(Nat)
        BY DEF TablesInv, TableTypes, Times
      <3>2. EndOf(failed[c], Times(failures, c), dropped[c], clock + 1)
        BY <1>1, <2>1, <3>1, EndGoesOn DEF TablesInv, TimesOf
      <3> QED BY <1>1, <3>2 DEF TimesOf
    <2> QED BY <2>2, <2>3, <2>4, FewerTries
  <1>4. \A c \in DOMAIN locked' : LockoutOf(c)'
    BY <1>1 DEF TablesInv, LockoutOf, Count
  <1> QED BY <1>2, <1>3, <1>4 DEF TablesInv


-----------------------------------------------------------------------------
(* Steps on the tables.                                                     *)

\* Entries whose times alone change keep their order.
LEMMA SameTurns ==
    ASSUME NEW old, NEW new, NEW n \in Nat, Orderly(old, n), DOMAIN new = DOMAIN old,
           \A ip \in DOMAIN old : new[ip].turn = old[ip].turn
    PROVE  Orderly(new, n)
  BY DEF Orderly

\* The window has at most what a table has that EndOf speaks of.
LEMMA WindowIsTable ==
    ASSUME TablesInv, NEW c \in Clients, NEW times \in Seq(Nat),
           EndOf(failed[c], times, dropped[c], clock)
    PROVE  Cardinality(InWindow(c)) <= Len(times)
  <1> DEFINE f == failed[c]
             d == dropped[c]
             past == Len(f) - Len(times)
  <1>1. /\ f \in Seq(Nat) /\ d \in Nat /\ clock \in Nat /\ Window \in Nat
        /\ Len(f) \in Nat /\ Len(times) \in Nat /\ DOMAIN f = 1..Len(f)
    BY SignInAssumption DEF TablesInv, TableTypes
  <1>2. past >= 0 /\ \A j \in (d + 1)..past : f[j] < clock - Window
    BY DEF EndOf
  <1>3. InWindow(c) \subseteq (past + 1)..Len(f)
    <2> SUFFICES ASSUME NEW j \in InWindow(c) PROVE j \in (past + 1)..Len(f)
      OBVIOUS
    <2>1. j \in (d + 1)..Len(f) /\ f[j] >= clock - Window
      BY DEF InWindow
    <2>2. j \in DOMAIN f /\ f[j] \in Nat
      BY <1>1, <2>1
    <2>3. ~(f[j] < clock - Window)
      BY <1>1, <2>1, <2>2
    <2>4. j \notin (d + 1)..past
      BY <1>2, <2>3
    <2> QED BY <1>1, <1>2, <2>1, <2>4
  <1>4. /\ past + 1 \in Int /\ Len(f) \in Int
        /\ Len(f) - (past + 1) + 1 = Len(times) /\ (past + 1 > Len(f) => Len(times) = 0)
    BY <1>1, <1>2
  <1>5. /\ IsFiniteSet((past + 1)..Len(f))
        /\ Cardinality((past + 1)..Len(f)) = Len(times)
    <2> HIDE DEF past, f
    <2>1. /\ IsFiniteSet((past + 1)..Len(f))
          /\ Cardinality((past + 1)..Len(f))
                = IF past + 1 > Len(f) THEN 0 ELSE Len(f) - (past + 1) + 1
      BY <1>4, FS_Interval
    <2>2. CASE past + 1 > Len(f)
      BY <1>4, <2>1, <2>2
    <2>3. CASE ~(past + 1 > Len(f))
      BY <1>4, <2>1, <2>3
    <2> QED BY <2>2, <2>3
  <1> QED BY <1>3, <1>5, FS_Subset

\* Who is not locked out has fewer failures in the window than the threshold.
LEMMA FreeToTry ==
    ASSUME TablesInv, NEW ip \in Clients, ~LockedOut(ip)
    PROVE  Cardinality(InWindow(ip)) < Threshold
  <1>1. /\ Threshold \in Nat \ {0} /\ clock \in Nat /\ dropped[ip] \in Nat
        /\ failed[ip] \in Seq(Nat) /\ Times(failures, ip) \in Seq(Nat)
        /\ EndOf(failed[ip], Times(failures, ip), dropped[ip], clock)
    BY SignInAssumption DEF TablesInv, TableTypes, TimesOf, Times
  <1>2. Cardinality(InWindow(ip)) \in Nat
    BY Numbers
  <1>3. CASE ip \in DOMAIN failures
    <2>1. Times(failures, ip) = failures[ip].times
      BY <1>3 DEF Times
    <2>2. ~(Len(Recent(Times(failures, ip))) >= Threshold)
      BY <1>3, <2>1 DEF LockedOut, Enough
    <2>3. /\ Recent(Times(failures, ip)) \in Seq(Nat)
          /\ EndOf(failed[ip], Recent(Times(failures, ip)), dropped[ip], clock)
      BY <1>1, EndRecent
    <2>4. Cardinality(InWindow(ip)) <= Len(Recent(Times(failures, ip)))
      BY <2>3, WindowIsTable
    <2>5. Len(Recent(Times(failures, ip))) \in Nat
      BY <2>3
    <2> QED BY <1>1, <1>2, <2>2, <2>4, <2>5
  <1>4. CASE ip \notin DOMAIN failures
    <2>1. Times(failures, ip) = <<>>
      BY <1>4 DEF Times
    <2>2. Cardinality(InWindow(ip)) <= 0
      <3>1. Cardinality(InWindow(ip)) <= Len(Times(failures, ip))
        BY <1>1, WindowIsTable
      <3> QED BY <2>1, <3>1
    <2> QED BY <1>1, <1>2, <2>2
  <1> QED BY <1>3, <1>4

\* A lockout that is over and old failures are forgotten; who passes tries.
LEMMA CheckTables ==
    ASSUME Inv, TablesInv, NEW t \in Threads, CheckLockout(t)
    PROVE  TablesInv'
  <1>1. PICK ip \in Clients : ip = thread[t].client /\ thread[t].pc = "check"
    BY DEF CheckLockout, Inv, SessionInv
  <1>2. PICK place : /\ thread' = [thread EXCEPT ![t].pc = place]
                     /\ LockedOut(ip) => place = "respond"
    BY <1>1 DEF CheckLockout, Goto
  <1>3. /\ clock' = clock /\ failed' = failed /\ dropped' = dropped
        /\ Refreshed(ip) /\ turns' = turns
    BY <1>1 DEF CheckLockout, histories, Refreshed
  <1>4. thread[t] \in Requests /\ thread \in [Threads -> Requests]
    BY DEF Inv, SessionTypes
  <1>5. /\ \A c \in Clients \ {ip} : Trying(c)' \subseteq Trying(c)
        /\ LockedOut(ip) => Trying(ip)' \subseteq Trying(ip)
    BY <1>1, <1>2, <1>4 DEF Trying, Requests
  <1>6. CASE IsLocked(ip)
    <2>1. UNCHANGED <<clock, tables, failed, dropped>>
      BY <1>3, <1>6 DEF Refreshed, tables
    <2>2. \A c \in Clients : Trying(c)' \subseteq Trying(c)
      BY <1>5, <1>6 DEF LockedOut
    <2> QED BY <2>1, <2>2, QuietTables
  <1>7. CASE ~IsLocked(ip)
    <2>0. /\ TableTypes /\ clock \in Nat /\ turns \in Nat
          /\ Orderly(failures, turns) /\ Orderly(locked, turns)
          /\ failed \in [Clients -> Seq(Nat)] /\ dropped \in [Clients -> Nat]
      BY DEF TablesInv, TableTypes
    <2>1. /\ locked' = Without(locked, ip)
          /\ failures' = IF ip \in DOMAIN failures
                         THEN [failures EXCEPT ![ip].times = Recent(@)] ELSE failures
      BY <1>3, <1>7 DEF Refreshed
    <2>2. /\ DOMAIN locked' = DOMAIN locked \ {ip}
          /\ \A c \in DOMAIN locked' : locked'[c] = locked[c]
          /\ Orderly(locked', turns)
      <3>1. locked' = Only(locked, DOMAIN locked \ {ip})
        BY <2>1 DEF Without
      <3>2. DOMAIN locked \ {ip} \in SUBSET DOMAIN locked
        OBVIOUS
      <3> QED BY <2>0, <3>1, <3>2, OnlyFacts
    <2>3. /\ DOMAIN failures' = DOMAIN failures
          /\ \A c \in DOMAIN failures \ {ip} : failures'[c] = failures[c]
          /\ ip \in DOMAIN failures =>
                failures'[ip] = [failures[ip] EXCEPT !.times = Recent(failures[ip].times)]
      BY <2>1
    <2>4. /\ \A c \in Clients \ {ip} : Times(failures', c) = Times(failures, c)
          /\ ip \notin DOMAIN failures => Times(failures', ip) = Times(failures, ip)
      BY <2>3 DEF Times
    <2>5. ip \in DOMAIN failures =>
             /\ failures[ip] \in [times : Seq(Nat), turn : Nat]
             /\ Times(failures, ip) = failures[ip].times
             /\ failures'[ip].turn = failures[ip].turn
             /\ Times(failures', ip) = Recent(Times(failures, ip))
      BY <2>0, <2>3 DEF TableTypes, Times
    <2>6. ip \in DOMAIN failures =>
             /\ Recent(Times(failures, ip)) \in Seq(Nat)
             /\ EndOf(failed[ip], Recent(Times(failures, ip)), dropped[ip], clock)
      <3> SUFFICES ASSUME ip \in DOMAIN failures
                   PROVE  /\ Recent(Times(failures, ip)) \in Seq(Nat)
                          /\ EndOf(failed[ip], Recent(Times(failures, ip)), dropped[ip], clock)
        OBVIOUS
      <3>1. Times(failures, ip) \in Seq(Nat) /\ failed[ip] \in Seq(Nat) /\ dropped[ip] \in Nat
        BY <2>0, <2>5
      <3>2. EndOf(failed[ip], Times(failures, ip), dropped[ip], clock)
        BY DEF TablesInv, TimesOf
      <3> QED BY <2>0, <3>1, <3>2, EndRecent
    <2>7. TableTypes'
      <3>1. \A c \in DOMAIN failures : failures'[c].turn = failures[c].turn
        BY <2>3, <2>5
      <3>2. Orderly(failures', turns)
        BY <2>0, <2>3, <3>1, SameTurns
      <3>3. ASSUME NEW c \in DOMAIN failures PROVE failures'[c] \in [times : Seq(Nat), turn : Nat]
        <4>1. CASE c = ip
          <5>1. failures[ip] \in [times : Seq(Nat), turn : Nat]
                   /\ Recent(failures[ip].times) \in Seq(Nat)
            BY <2>5, <2>6, <4>1
          <5> QED BY <2>3, <4>1, <5>1
        <4>2. CASE c # ip
          BY <2>0, <2>3, <4>2 DEF TableTypes
        <4> QED BY <4>1, <4>2
      <3>4. \A c \in DOMAIN locked' : locked'[c] \in [until : Nat, turn : Nat]
        BY <2>0, <2>2 DEF TableTypes
      <3> QED BY <1>3, <2>0, <2>2, <2>3, <3>2, <3>3, <3>4 DEF TableTypes
    <2>8. BoundInv'
      <3>1. DOMAIN locked' \ DOMAIN failures' \subseteq DOMAIN locked \ DOMAIN failures
        BY <2>2, <2>3
      <3>2. IsFiniteSet(DOMAIN locked \ DOMAIN failures)
        BY <2>0, FS_Difference DEF Orderly
      <3>3. /\ Cardinality(DOMAIN locked' \ DOMAIN failures')
                  <= Cardinality(DOMAIN locked \ DOMAIN failures)
            /\ Cardinality(DOMAIN locked' \ DOMAIN failures') \in Nat
            /\ Cardinality(DOMAIN locked \ DOMAIN failures) \in Nat
        BY <3>1, <3>2, FS_Subset, FS_CardinalityType
      <3> QED BY <2>3, <3>3, SignInAssumption DEF TablesInv, BoundInv
    <2>9. ASSUME NEW c \in Clients PROVE TimesOf(c)'
      <3>1. EndOf(failed[c], Times(failures', c), dropped[c], clock)
        <4>1. EndOf(failed[c], Times(failures, c), dropped[c], clock)
          BY DEF TablesInv, TimesOf
        <4> QED BY <2>4, <2>5, <2>6, <4>1
      <3> QED BY <1>3, <3>1 DEF TimesOf
    <2>10. ASSUME NEW c \in Clients PROVE TriesOf(c)'
      <3>1. InWindow(c)' = InWindow(c)
        BY <1>3 DEF InWindow
      <3>2. CASE Trying(c)' \subseteq Trying(c)
        BY <3>1, <3>2, FewerTries
      <3>3. CASE ~(Trying(c)' \subseteq Trying(c))
        <4>1. c = ip /\ ~LockedOut(ip)
          BY <1>5, <3>3
        <4>2. Cardinality(InWindow(c)) < Threshold
          BY <4>1, FreeToTry
        <4>3. Trying(c)' \in SUBSET Threads
          BY DEF Trying
        <4>4. /\ Cardinality(Trying(c)') \in 0..Cardinality(Threads)
              /\ Cardinality(InWindow(c)) \in Nat
              /\ Cardinality(Threads) \in Nat /\ Threshold \in Nat
          BY <4>3, Numbers
        <4>5. Cardinality(InWindow(c)') + Cardinality(Trying(c)') < Threshold + Cardinality(Threads)
          BY <3>1, <4>2, <4>4
        <4> QED BY <4>5 DEF TriesOf
      <3> QED BY <3>2, <3>3
    <2>11. ASSUME NEW c \in DOMAIN locked' PROVE LockoutOf(c)'
      BY <1>3, <2>2 DEF TablesInv, LockoutOf, Count
    <2> QED BY <2>7, <2>8, <2>9, <2>10, <2>11 DEF TablesInv
  <1> QED BY <1>6, <1>7


\* Who has shown the password is in no table, and has no failures.
LEMMA ClearTables ==
    ASSUME Inv, TablesInv, NEW t \in Threads, ClearFailures(t)
    PROVE  TablesInv'
  <1>1. PICK ip \in Clients : ip = thread[t].client /\ thread[t].pc = "clear"
    BY DEF ClearFailures, Inv, SessionInv
  <1>2. /\ failures' = Without(failures, ip) /\ locked' = Without(locked, ip)
        /\ turns' = turns /\ clock' = clock
        /\ failed' = [failed EXCEPT ![ip] = <<>>]
        /\ dropped' = [dropped EXCEPT ![ip] = 0]
        /\ thread' = [thread EXCEPT ![t].pc = "respond", ![t].out = IssuedFor(t)]
    BY <1>1 DEF ClearFailures
  <1>3. \A c \in Clients : Trying(c)' \subseteq Trying(c)
    <2>1. thread[t] \in Requests /\ thread \in [Threads -> Requests]
      BY DEF Inv, SessionTypes
    <2> QED BY <1>1, <1>2, <2>1 DEF Trying, Requests
  <1>4. /\ TableTypes /\ clock \in Nat /\ turns \in Nat
        /\ Orderly(failures, turns) /\ Orderly(locked, turns)
        /\ failed \in [Clients -> Seq(Nat)] /\ dropped \in [Clients -> Nat]
    BY DEF TablesInv, TableTypes
  <1>5. /\ DOMAIN failures' = DOMAIN failures \ {ip}
        /\ \A c \in DOMAIN failures' : failures'[c] = failures[c]
        /\ Orderly(failures', turns)
    BY <1>2, <1>4, OnlyFacts DEF Without
  <1>6. /\ DOMAIN locked' = DOMAIN locked \ {ip}
        /\ \A c \in DOMAIN locked' : locked'[c] = locked[c]
        /\ Orderly(locked', turns)
    BY <1>2, <1>4, OnlyFacts DEF Without
  <1>7. /\ failed'[ip] = <<>> /\ dropped'[ip] = 0
        /\ \A c \in Clients \ {ip} : failed'[c] = failed[c] /\ dropped'[c] = dropped[c]
    BY <1>2, <1>4
  <1>8. TableTypes'
    BY <1>2, <1>4, <1>5, <1>6 DEF TableTypes
  <1>9. BoundInv'
    <2>1. DOMAIN locked' \ DOMAIN failures' \subseteq DOMAIN locked \ DOMAIN failures
      BY <1>5, <1>6
    <2>2. IsFiniteSet(DOMAIN locked \ DOMAIN failures) /\ IsFiniteSet(DOMAIN failures)
      BY <1>4, FS_Difference DEF Orderly
    <2>3. /\ Cardinality(DOMAIN locked' \ DOMAIN failures')
                <= Cardinality(DOMAIN locked \ DOMAIN failures)
          /\ Cardinality(DOMAIN locked' \ DOMAIN failures') \in Nat
          /\ Cardinality(DOMAIN locked \ DOMAIN failures) \in Nat
      BY <2>1, <2>2, FS_Subset, FS_CardinalityType
    <2>4. /\ Cardinality(DOMAIN failures') <= Cardinality(DOMAIN failures)
          /\ Cardinality(DOMAIN failures') \in Nat /\ Cardinality(DOMAIN failures) \in Nat
      BY <1>5, <2>2, FS_Subset, FS_CardinalityType
    <2> QED BY <2>3, <2>4, SignInAssumption DEF TablesInv, BoundInv
  <1>10. ASSUME NEW c \in Clients PROVE TimesOf(c)' /\ TriesOf(c)'
    <2>1. CASE c = ip
      <3>1. TimesOf(c)'
        <4>1. Times(failures', ip) = <<>>
          BY <1>5 DEF Times
        <4>2. EndOf(<<>>, <<>>, 0, clock)
          BY DEF EndOf
        <4> QED BY <1>2, <1>7, <2>1, <4>1, <4>2 DEF TimesOf
      <3>2. InWindow(c)' \subseteq InWindow(c)
        BY <1>7, <2>1 DEF InWindow
      <3> QED BY <1>3, <3>1, <3>2, FewerTries
    <2>2. CASE c # ip
      <3>1. Times(failures', c) = Times(failures, c)
        BY <1>5, <2>2 DEF Times
      <3>2. TimesOf(c)'
        BY <1>2, <1>7, <2>2, <3>1 DEF TimesOf, TablesInv
      <3>3. InWindow(c)' = InWindow(c)
        BY <1>2, <1>7, <2>2 DEF InWindow
      <3> QED BY <1>3, <3>2, <3>3, FewerTries
    <2> QED BY <2>1, <2>2
  <1>11. ASSUME NEW c \in DOMAIN locked' PROVE LockoutOf(c)'
    <2>1. c \in Clients \ {ip} /\ c \in DOMAIN locked
      BY <1>4, <1>6 DEF Orderly
    <2>2. failed'[c] = failed[c] /\ locked'[c] = locked[c]
      BY <1>6, <1>7, <2>1
    <2> QED BY <2>1, <2>2 DEF TablesInv, LockoutOf, Count
  <1> QED BY <1>8, <1>9, <1>10, <1>11 DEF TablesInv

\* What a failure leaves in the tables, for the address that failed and others.
LEMMA RecordFacts ==
    ASSUME TablesInv, NEW ip \in Clients, RecordFailure(ip)
    PROVE  \E ts \in Seq(Nat), gone \in [Clients -> Nat] :
             /\ turns' = turns + 1
             /\ dropped' = gone /\ failed' = [failed EXCEPT ![ip] = Append(failed[ip], clock)]
             /\ DOMAIN failures' = DOMAIN Kept(ip).failures \cup {ip}
             /\ Orderly(failures', turns + 1) /\ Orderly(locked', turns + 1)
             /\ failures'[ip].times = ts /\ failures'[ip] \in [times : Seq(Nat), turn : Nat]
             /\ \A c \in DOMAIN Kept(ip).failures \ {ip} : failures'[c] = failures[c]
             /\ EndOf(Append(failed[ip], clock), ts, gone[ip], clock)
             /\ \A j \in (Len(failed[ip]) + 2 - Len(ts))..(Len(failed[ip]) + 1) :
                   Append(failed[ip], clock)[j] >= clock - Window
             /\ DOMAIN locked' = IF Len(ts) >= Threshold THEN DOMAIN Kept(ip).locked \cup {ip}
                                 ELSE DOMAIN Kept(ip).locked
             /\ Len(ts) >= Threshold => /\ locked'[ip].until = clock + Lockout
                                        /\ locked'[ip] \in [until : Nat, turn : Nat]
             /\ \A c \in DOMAIN Kept(ip).locked :
                   c # ip \/ ~(Len(ts) >= Threshold) => locked'[c] = locked[c]
             /\ \A c \in Clients : \/ gone[c] = dropped[c]
                                      /\ (c \in DOMAIN failures => c \in DOMAIN Kept(ip).failures)
                                   \/ gone[c] = Len(failed[c])
  <1> DEFINE F == Kept(ip).failures
             L == Kept(ip).locked
             old == Times(F, ip)
             ts == Recent(Append(old, clock))
             gone == [c \in Clients |-> IF Evicted(c, Kept(ip)) THEN Len(failed[c]) ELSE dropped[c]]
             entry == [times |-> ts, turn |-> Turn(F, ip)]
             lock == [until |-> clock + Lockout, turn |-> Turn(L, ip)]
  <1>1. /\ TableTypes /\ clock \in Nat /\ turns \in Nat /\ failed \in [Clients -> Seq(Nat)]
        /\ dropped \in [Clients -> Nat] /\ Lockout \in Nat
    BY SignInAssumption DEF TablesInv, TableTypes
  <1>2. /\ DOMAIN F \subseteq DOMAIN failures /\ DOMAIN L \subseteq DOMAIN locked
        /\ \A c \in DOMAIN F : F[c] = failures[c]
        /\ \A c \in DOMAIN L : L[c] = locked[c]
        /\ Orderly(F, turns) /\ Orderly(L, turns)
        /\ ip \in DOMAIN failures => F = failures /\ L = locked
    BY <1>1, KeptFacts
  <1>3. /\ failures' = With(F, ip, entry)
        /\ locked' = IF Len(ts) >= Threshold THEN With(L, ip, lock) ELSE L
        /\ turns' = turns + 1
        /\ failed' = [failed EXCEPT ![ip] = Append(failed[ip], clock)]
        /\ dropped' = gone
    BY DEF RecordFailure, Enough
  <1>4. /\ gone \in [Clients -> Nat]
        /\ \A c \in Clients : \/ /\ gone[c] = dropped[c]
                                 /\ c \in DOMAIN failures => c \in DOMAIN F
                              \/ gone[c] = Len(failed[c])
    <2>1. \A c \in Clients : Len(failed[c]) \in Nat /\ dropped[c] \in Nat
      BY <1>1
    <2> QED BY <2>1 DEF Evicted
  <1>5. old \in Seq(Nat) /\ Turn(F, ip) \in Nat /\ Turn(L, ip) \in Nat
    <2>1. CASE ip \in DOMAIN F
      <3>1. F[ip] \in [times : Seq(Nat), turn : Nat]
        BY <1>1, <1>2, <2>1 DEF TableTypes
      <3> QED BY <1>1, <1>2, <2>1, <3>1 DEF Times, Turn, Orderly
    <2>2. CASE ip \notin DOMAIN F
      BY <1>1, <1>2, <2>2 DEF Times, Turn, Orderly
    <2> QED BY <2>1, <2>2
  <1>6. EndOf(failed[ip], old, gone[ip], clock)
    <2>1. EndOf(failed[ip], Times(failures, ip), dropped[ip], clock)
             /\ Times(failures, ip) \in Seq(Nat) /\ failed[ip] \in Seq(Nat) /\ dropped[ip] \in Nat
      BY <1>1 DEF TablesInv, TimesOf, TableTypes, Times
    <2>2. /\ EndOf(failed[ip], Times(failures, ip), Len(failed[ip]), clock)
          /\ EndOf(failed[ip], <<>>, Len(failed[ip]), clock)
      BY <1>1, <2>1, EndGoesOn
    <2>3. CASE ip \in DOMAIN failures
      <3>1. old = Times(failures, ip)
        BY <1>2, <2>3
      <3> QED BY <1>4, <2>1, <2>2, <3>1
    <2>4. CASE ip \notin DOMAIN failures
      <3>1. old = <<>> /\ Times(failures, ip) = <<>>
        BY <1>2, <2>4 DEF Times
      <3> QED BY <1>4, <2>1, <2>2, <3>1
    <2> QED BY <2>3, <2>4
  <1>7. EndOf(Append(failed[ip], clock), Append(old, clock), gone[ip], clock)
    <2>1. gone[ip] \in Nat /\ failed[ip] \in Seq(Nat)
      BY <1>1, <1>4
    <2> HIDE DEF gone, old
    <2> QED BY <1>1, <1>5, <1>6, <2>1, EndGoesOn
  <1>8. /\ ts \in Seq(Nat)
        /\ EndOf(Append(failed[ip], clock), ts, gone[ip], clock)
        /\ \A j \in (Len(Append(failed[ip], clock)) - Len(ts) + 1)..Len(Append(failed[ip], clock)) :
              Append(failed[ip], clock)[j] >= clock - Window
    <2>1. gone[ip] \in Nat /\ Append(failed[ip], clock) \in Seq(Nat)
             /\ Append(old, clock) \in Seq(Nat)
      BY <1>1, <1>4, <1>5
    <2> HIDE DEF gone, old
    <2> QED BY <1>1, <1>7, <2>1, EndRecent
  <1> HIDE DEF ts, gone
  <1>9. \A j \in (Len(failed[ip]) + 2 - Len(ts))..(Len(failed[ip]) + 1) :
              Append(failed[ip], clock)[j] >= clock - Window
    <2>1. /\ Len(failed[ip]) \in Nat /\ Len(ts) \in Nat
          /\ Len(Append(failed[ip], clock)) = Len(failed[ip]) + 1
      BY <1>1, <1>8
    <2> SUFFICES ASSUME NEW j \in (Len(failed[ip]) + 2 - Len(ts))..(Len(failed[ip]) + 1)
                 PROVE  Append(failed[ip], clock)[j] >= clock - Window
      OBVIOUS
    <2>2. j \in (Len(Append(failed[ip], clock)) - Len(ts) + 1)..Len(Append(failed[ip], clock))
      BY <2>1
    <2> QED BY <1>8, <2>2
  <1>10. /\ DOMAIN failures' = DOMAIN F \cup {ip} /\ failures'[ip] = entry
         /\ \A c \in DOMAIN F \ {ip} : failures'[c] = failures[c]
         /\ Orderly(failures', turns + 1)
    <2>1. entry.turn = IF ip \in DOMAIN F THEN F[ip].turn ELSE turns
      BY DEF Turn
    <2> HIDE DEF entry, F
    <2>2. /\ DOMAIN With(F, ip, entry) = DOMAIN F \cup {ip}
          /\ With(F, ip, entry)[ip] = entry
          /\ \A c \in DOMAIN F \ {ip} : With(F, ip, entry)[c] = F[c]
          /\ Orderly(With(F, ip, entry), turns + 1)
      BY <1>1, <1>2, <2>1, WithFacts
    <2>3. failures' = With(F, ip, entry)
      BY <1>3
    <2> QED BY <1>2, <2>2, <2>3
  <1>11. /\ DOMAIN locked' = IF Len(ts) >= Threshold THEN DOMAIN L \cup {ip} ELSE DOMAIN L
         /\ Len(ts) >= Threshold => locked'[ip] = lock
         /\ \A c \in DOMAIN L : c # ip \/ ~(Len(ts) >= Threshold) => locked'[c] = locked[c]
         /\ Orderly(locked', turns + 1)
    <2>1. lock.turn = IF ip \in DOMAIN L THEN L[ip].turn ELSE turns
      BY DEF Turn
    <2>2. CASE Len(ts) >= Threshold
      <3> HIDE DEF lock, L
      <3>1. /\ DOMAIN With(L, ip, lock) = DOMAIN L \cup {ip}
            /\ With(L, ip, lock)[ip] = lock
            /\ \A c \in DOMAIN L \ {ip} : With(L, ip, lock)[c] = L[c]
            /\ Orderly(With(L, ip, lock), turns + 1)
        BY <1>1, <1>2, <2>1, WithFacts
      <3>2. locked' = With(L, ip, lock)
        BY <1>3, <2>2
      <3> QED BY <1>2, <2>2, <3>1, <3>2
    <2>3. CASE ~(Len(ts) >= Threshold)
      <3>1. Orderly(L, turns + 1)
        BY <1>1, <1>2 DEF Orderly
      <3> HIDE DEF lock, L
      <3> QED BY <1>2, <1>3, <2>3, <3>1
    <2> QED BY <2>2, <2>3
  <1>12. /\ entry.times = ts /\ entry \in [times : Seq(Nat), turn : Nat]
         /\ lock.until = clock + Lockout /\ lock \in [until : Nat, turn : Nat]
    BY <1>1, <1>5, <1>8
  <1> HIDE DEF F, L, entry, lock
  <1>13. /\ turns' = turns + 1 /\ dropped' = gone
         /\ failed' = [failed EXCEPT ![ip] = Append(failed[ip], clock)]
         /\ failures'[ip].times = ts /\ failures'[ip] \in [times : Seq(Nat), turn : Nat]
         /\ EndOf(Append(failed[ip], clock), ts, gone[ip], clock)
         /\ Len(ts) >= Threshold => /\ locked'[ip].until = clock + Lockout
                                    /\ locked'[ip] \in [until : Nat, turn : Nat]
    BY <1>3, <1>8, <1>10, <1>11, <1>12
  <1>14. ts \in Seq(Nat) /\ gone \in [Clients -> Nat]
    BY <1>4, <1>8
  <1> QED BY <1>4, <1>9, <1>10, <1>11, <1>13, <1>14, Zenon DEF F, L


\* A wrong password: the thread tries no more, and one failure more is recorded.
LEMMA FailTables ==
    ASSUME Inv, TablesInv, NEW t \in Threads, VerifyFails(t)
    PROVE  TablesInv'
  <1>1. PICK ip \in Clients : ip = thread[t].client /\ thread[t].pc = "verify"
    BY DEF VerifyFails, Inv, SessionInv
  <1>2. RecordFailure(ip) /\ clock' = clock /\ thread' = [thread EXCEPT ![t].pc = "respond"]
    BY <1>1 DEF VerifyFails, Goto
  <1> DEFINE F == DOMAIN Kept(ip).failures
             L == DOMAIN Kept(ip).locked
  <1>3. PICK ts \in Seq(Nat), gone \in [Clients -> Nat] :
             /\ turns' = turns + 1
             /\ dropped' = gone /\ failed' = [failed EXCEPT ![ip] = Append(failed[ip], clock)]
             /\ DOMAIN failures' = F \cup {ip}
             /\ Orderly(failures', turns + 1) /\ Orderly(locked', turns + 1)
             /\ failures'[ip].times = ts /\ failures'[ip] \in [times : Seq(Nat), turn : Nat]
             /\ \A c \in F \ {ip} : failures'[c] = failures[c]
             /\ EndOf(Append(failed[ip], clock), ts, gone[ip], clock)
             /\ \A j \in (Len(failed[ip]) + 2 - Len(ts))..(Len(failed[ip]) + 1) :
                   Append(failed[ip], clock)[j] >= clock - Window
             /\ DOMAIN locked' = IF Len(ts) >= Threshold THEN L \cup {ip} ELSE L
             /\ Len(ts) >= Threshold => /\ locked'[ip].until = clock + Lockout
                                        /\ locked'[ip] \in [until : Nat, turn : Nat]
             /\ \A c \in L : c # ip \/ ~(Len(ts) >= Threshold) => locked'[c] = locked[c]
             /\ \A c \in Clients : \/ gone[c] = dropped[c] /\ (c \in DOMAIN failures => c \in F)
                                   \/ gone[c] = Len(failed[c])
    BY <1>2, RecordFacts, Zenon
  <1>4. /\ TableTypes /\ clock \in Nat /\ turns \in Nat /\ dropped \in [Clients -> Nat]
        /\ failed \in [Clients -> Seq(Nat)]
        /\ Orderly(failures, turns) /\ Orderly(locked, turns)
    BY DEF TablesInv, TableTypes
  <1>5. /\ F \subseteq DOMAIN failures /\ L \subseteq DOMAIN locked
        /\ ip \in DOMAIN failures => F = DOMAIN failures /\ L = DOMAIN locked
        /\ ip \notin DOMAIN failures => Cardinality(F) < MaxTracked /\ Cardinality(L) < MaxTracked
        /\ IsFiniteSet(F) /\ IsFiniteSet(L)
    BY <1>4, KeptFacts DEF Orderly
  <1> HIDE DEF F, L
  <1>6. /\ failed' = [failed EXCEPT ![ip] = Append(failed[ip], clock)]
        /\ failed'[ip] = Append(failed[ip], clock)
        /\ \A c \in Clients \ {ip} : failed'[c] = failed[c]
    BY <1>3, <1>4
  <1>7. TableTypes'
    <2>1. \A c \in DOMAIN failures' : failures'[c] \in [times : Seq(Nat), turn : Nat]
      <3> SUFFICES ASSUME NEW c \in DOMAIN failures'
                   PROVE  failures'[c] \in [times : Seq(Nat), turn : Nat]
        OBVIOUS
      <3>1. CASE c = ip
        BY <1>3, <3>1
      <3>2. CASE c # ip
        <4>1. c \in DOMAIN failures /\ failures'[c] = failures[c]
          BY <1>3, <1>5, <3>2
        <4> QED BY <1>4, <4>1 DEF TableTypes
      <3> QED BY <3>1, <3>2
    <2>2. \A c \in DOMAIN locked' : locked'[c] \in [until : Nat, turn : Nat]
      <3> SUFFICES ASSUME NEW c \in DOMAIN locked'
                   PROVE  locked'[c] \in [until : Nat, turn : Nat]
        OBVIOUS
      <3>1. CASE c = ip /\ Len(ts) >= Threshold
        BY <1>3, <3>1
      <3>2. CASE ~(c = ip /\ Len(ts) >= Threshold)
        <4>1. c \in L
          BY <1>3, <3>2
        <4>2. c \in DOMAIN locked /\ locked'[c] = locked[c]
          BY <1>3, <1>5, <3>2, <4>1
        <4> QED BY <1>4, <4>2 DEF TableTypes
      <3> QED BY <3>1, <3>2
    <2>3. failed' \in [Clients -> Seq(Nat)]
      <3>1. Append(failed[ip], clock) \in Seq(Nat)
        BY <1>4
      <3> QED BY <1>4, <1>6, <3>1
    <2>4. turns' = turns + 1 /\ turns + 1 \in Nat /\ dropped' \in [Clients -> Nat]
             /\ Orderly(failures', turns + 1) /\ Orderly(locked', turns + 1)
      BY <1>3, <1>4
    <2> QED BY <1>2, <1>4, <2>1, <2>2, <2>3, <2>4 DEF TableTypes
  <1>8. BoundInv'
    <2>1. DOMAIN failures' = F \cup {ip} /\ DOMAIN locked' \subseteq L \cup {ip}
      BY <1>3
    <2>2. DOMAIN locked' \ DOMAIN failures' \subseteq L \ F
      BY <2>1
    <2>3. MaxTracked \in Nat \ {0}
      BY SignInAssumption
    <2>4. /\ Cardinality(F) \in Nat /\ Cardinality(L) \in Nat
          /\ Cardinality(F \cup {ip}) = IF ip \in F THEN Cardinality(F) ELSE Cardinality(F) + 1
      BY <1>5, FS_AddElement, FS_CardinalityType
    <2>5. IsFiniteSet(L \ F) /\ L \ F \subseteq L
      BY <1>5, FS_Difference
    <2>6. /\ Cardinality(DOMAIN locked' \ DOMAIN failures') <= Cardinality(L \ F)
          /\ Cardinality(L \ F) <= Cardinality(L) /\ Cardinality(L \ F) \in Nat
          /\ Cardinality(DOMAIN locked' \ DOMAIN failures') \in Nat
      BY <1>5, <2>2, <2>5, FS_Subset, FS_CardinalityType
    <2>7. CASE ip \in DOMAIN failures
      <3>1. F = DOMAIN failures /\ L = DOMAIN locked /\ F \cup {ip} = F
        BY <1>5, <2>7
      <3>2. Cardinality(F) <= MaxTracked /\ Cardinality(L \ F) < MaxTracked
        BY <3>1 DEF TablesInv, BoundInv
      <3> QED BY <2>1, <2>3, <2>4, <2>6, <3>1, <3>2 DEF BoundInv
    <2>8. CASE ip \notin DOMAIN failures
      <3>1. Cardinality(F) < MaxTracked /\ Cardinality(L) < MaxTracked
        BY <1>5, <2>8
      <3>2. Cardinality(DOMAIN failures') <= MaxTracked
        BY <2>1, <2>3, <2>4, <3>1
      <3>3. Cardinality(DOMAIN locked' \ DOMAIN failures') < MaxTracked
        BY <2>3, <2>4, <2>6, <3>1
      <3> QED BY <3>2, <3>3 DEF BoundInv
    <2> QED BY <2>7, <2>8
  <1>9. ASSUME NEW c \in Clients PROVE TimesOf(c)'
    <2>1. CASE c = ip
      <3>1. Times(failures', ip) = ts
        BY <1>3 DEF Times
      <3> QED BY <1>2, <1>3, <1>6, <2>1, <3>1 DEF TimesOf
    <2>2. CASE c # ip
      <3>1. failed'[c] = failed[c] /\ dropped'[c] = gone[c] /\ clock' = clock
        BY <1>2, <1>3, <1>6, <2>2
      <3>2. /\ EndOf(failed[c], Times(failures, c), dropped[c], clock)
            /\ Times(failures, c) \in Seq(Nat) /\ failed[c] \in Seq(Nat) /\ dropped[c] \in Nat
        BY <1>4 DEF TablesInv, TimesOf, TableTypes, Times
      <3>3. /\ EndOf(failed[c], Times(failures, c), Len(failed[c]), clock)
            /\ EndOf(failed[c], <<>>, Len(failed[c]), clock)
        BY <1>4, <3>2, EndGoesOn
      <3>4. \/ Times(failures', c) = Times(failures, c)
            \/ Times(failures', c) = <<>> /\ c \in DOMAIN failures \ F
        BY <1>3, <1>5, <2>2 DEF Times
      <3>5. EndOf(failed[c], Times(failures', c), gone[c], clock)
        BY <1>3, <3>2, <3>3, <3>4
      <3> QED BY <3>1, <3>5 DEF TimesOf
    <2> QED BY <2>1, <2>2
  <1>10. ASSUME NEW c \in Clients PROVE TriesOf(c)'
    <2>0. thread[t] \in Requests /\ thread \in [Threads -> Requests]
      BY DEF Inv, SessionTypes
    <2>1. /\ dropped[c] <= Len(failed[c]) /\ dropped[c] \in Nat /\ Len(failed[c]) \in Nat
          /\ gone[c] \in Nat /\ dropped[c] <= gone[c]
      <3>1. EndOf(failed[c], Times(failures, c), dropped[c], clock)
        BY DEF TablesInv, TimesOf
      <3>2. dropped[c] <= Len(failed[c])
        BY <3>1 DEF EndOf
      <3>3. dropped[c] \in Nat /\ Len(failed[c]) \in Nat
        BY <1>4
      <3>4. gone[c] \in Nat /\ (gone[c] = dropped[c] \/ gone[c] = Len(failed[c]))
        BY <1>3
      <3>5. dropped[c] <= gone[c]
        BY <3>2, <3>3, <3>4
      <3> QED BY <3>2, <3>3, <3>4, <3>5
    <2>2. CASE c # ip
      <3>1. Trying(c)' \subseteq Trying(c)
        BY <1>1, <1>2, <2>0, <2>2 DEF Trying, Requests
      <3>2. InWindow(c)' \subseteq InWindow(c)
        <4> SUFFICES ASSUME NEW j \in InWindow(c)' PROVE j \in InWindow(c)
          OBVIOUS
        <4>1. j \in (dropped'[c] + 1)..Len(failed'[c]) /\ failed'[c][j] >= clock' - Window
          BY DEF InWindow
        <4>2. dropped'[c] = gone[c] /\ failed'[c] = failed[c] /\ clock' = clock
          BY <1>2, <1>3, <1>6, <2>2
        <4>3. j \in (dropped[c] + 1)..Len(failed[c])
          BY <2>1, <4>1, <4>2
        <4> QED BY <4>1, <4>2, <4>3 DEF InWindow
      <3> QED BY <3>1, <3>2, FewerTries
    <2>3. CASE c = ip
      <3> DEFINE new == Len(failed[c]) + 1
      <3>1. /\ Trying(c)' = Trying(c) \ {t} /\ t \in Trying(c)
        BY <1>1, <1>2, <2>0, <2>3 DEF Trying, Requests
      <3>2. InWindow(c)' \subseteq InWindow(c) \cup {new}
        <4> SUFFICES ASSUME NEW j \in InWindow(c)', j # new PROVE j \in InWindow(c)
          OBVIOUS
        <4>1. j \in (dropped'[c] + 1)..Len(failed'[c]) /\ failed'[c][j] >= clock' - Window
          BY DEF InWindow
        <4>2. /\ dropped'[c] = gone[c] /\ failed'[c] = Append(failed[c], clock)
              /\ clock' = clock /\ failed[c] \in Seq(Nat)
          BY <1>2, <1>3, <1>4, <1>6, <2>3
        <4>3. Len(failed'[c]) = new
          BY <1>4, <4>2
        <4>4. j \in (dropped[c] + 1)..Len(failed[c]) /\ j \in 1..Len(failed[c])
          <5>1. j \in (gone[c] + 1)..(Len(failed[c]) + 1) /\ j # Len(failed[c]) + 1
            BY <4>1, <4>2, <4>3
          <5>2. ASSUME NEW l \in Nat, NEW d \in Nat, NEW e \in Nat, d <= e,
                       j \in (e + 1)..(l + 1), j # l + 1
                PROVE  j \in (d + 1)..l /\ j \in 1..l
            BY <5>2
          <5> HIDE DEF new
          <5> QED BY <2>1, <5>1, <5>2
        <4>5. failed'[c][j] = failed[c][j]
          BY <1>4, <4>2, <4>4
        <4> QED BY <4>1, <4>2, <4>4, <4>5 DEF InWindow
      <3>3. /\ IsFiniteSet(InWindow(c)) /\ Cardinality(InWindow(c)) \in Nat
            /\ IsFiniteSet(Trying(c)) /\ Cardinality(Trying(c)) \in Nat
            /\ Cardinality(Threads) \in Nat /\ Threshold \in Nat
        BY Numbers
      <3> HIDE DEF new
      <3>4. /\ IsFiniteSet(InWindow(c) \cup {new})
            /\ Cardinality(InWindow(c) \cup {new}) <= Cardinality(InWindow(c)) + 1
            /\ Cardinality(InWindow(c) \cup {new}) \in Nat
        <4>1. /\ IsFiniteSet(InWindow(c) \cup {new})
              /\ Cardinality(InWindow(c) \cup {new})
                    = IF new \in InWindow(c) THEN Cardinality(InWindow(c))
                      ELSE Cardinality(InWindow(c)) + 1
          BY <3>3, FS_AddElement
        <4> QED BY <3>3, <4>1
      <3>5. /\ Cardinality(InWindow(c)') <= Cardinality(InWindow(c) \cup {new})
            /\ Cardinality(InWindow(c)') \in Nat
        BY <3>2, <3>4, FS_Subset, FS_CardinalityType
      <3>6. Cardinality(Trying(c) \ {t}) = Cardinality(Trying(c)) - 1
        BY <3>1, <3>3, FS_RemoveElement
      <3>7. Cardinality(InWindow(c)) + Cardinality(Trying(c)) < Threshold + Cardinality(Threads)
        BY DEF TablesInv, TriesOf
      <3>8. Cardinality(InWindow(c)') + Cardinality(Trying(c)') < Threshold + Cardinality(Threads)
        BY <3>1, <3>3, <3>4, <3>5, <3>6, <3>7
      <3> QED BY <3>8 DEF TriesOf
    <2> QED BY <2>2, <2>3
  <1>11. ASSUME NEW c \in DOMAIN locked' PROVE LockoutOf(c)'
    <2>0. /\ Window \in Nat /\ Lockout \in Nat /\ Threshold \in Nat \ {0}
          /\ c \in Clients /\ failed[ip] \in Seq(Nat) /\ failed[c] \in Seq(Nat)
      BY <1>3, <1>4, SignInAssumption DEF Orderly
    <2>1. CASE c = ip /\ Len(ts) >= Threshold
      <3> DEFINE g == Append(failed[ip], clock)
                 k == Len(failed[ip]) + 1
      <3>1. /\ g \in Seq(Nat) /\ k \in DOMAIN g /\ g[k] = clock /\ Len(g) = k
            /\ k \in Nat /\ Len(failed[ip]) \in Nat /\ Len(ts) \in Nat
        BY <1>4, <2>0
      <3>2. Len(ts) <= k /\ \A j \in DOMAIN g : g[j] <= clock /\ g[j] \in Nat
        <4>1. Len(g) - Len(ts) >= 0 /\ \A j \in DOMAIN g : g[j] <= clock
          BY <1>3 DEF EndOf
        <4> QED BY <3>1, <4>1
      <3>3. \A j \in (Len(failed[ip]) + 2 - Len(ts))..k : g[j] >= clock - Window
        BY <1>3
      <3> HIDE DEF g
      <3>4. \A j \in (Len(g) - Len(ts) + 1)..Len(g) : g[j] \in (clock - Window)..clock
        <4> SUFFICES ASSUME NEW j \in (Len(g) - Len(ts) + 1)..Len(g)
                     PROVE  g[j] \in (clock - Window)..clock
          OBVIOUS
        <4>1. j \in DOMAIN g /\ j \in (Len(failed[ip]) + 2 - Len(ts))..k
          BY <3>1, <3>2
        <4>2. g[j] >= clock - Window /\ g[j] <= clock /\ g[j] \in Nat
          BY <3>2, <3>3, <4>1
        <4> QED BY <1>4, <2>0, <4>2
      <3>5. Len(ts) <= Count(g, clock - Window, clock) /\ Count(g, clock - Window, clock) \in Nat
        <4>1. clock - Window \in Int /\ clock \in Int /\ Len(ts) \in 0..Len(g)
          BY <1>4, <2>0, <3>1, <3>2
        <4> QED BY <3>1, <3>4, <4>1, CountFacts
      <3>6. Count(g, g[k] - Window, g[k]) >= Threshold
        BY <2>0, <2>1, <3>1, <3>5
      <3>7. locked'[c].until = g[k] + Lockout /\ failed'[c] = g
        BY <1>3, <1>6, <2>1, <3>1 DEF g
      <3> QED BY <3>1, <3>6, <3>7 DEF LockoutOf
    <2>2. CASE ~(c = ip /\ Len(ts) >= Threshold)
      <3>1. c \in L
        BY <1>3, <2>2
      <3>2. locked'[c] = locked[c] /\ c \in DOMAIN locked
        BY <1>3, <1>5, <2>2, <3>1
      <3>3. PICK j \in DOMAIN failed[c] :
                 /\ locked[c].until = failed[c][j] + Lockout
                 /\ Count(failed[c], failed[c][j] - Window, failed[c][j]) >= Threshold
        BY <3>2 DEF TablesInv, LockoutOf
      <3>4. CASE c # ip
        <4>1. failed'[c] = failed[c]
          BY <1>6, <2>0, <3>4
        <4> QED BY <3>2, <3>3, <4>1 DEF LockoutOf
      <3>5. CASE c = ip
        <4> DEFINE g == Append(failed[c], clock)
                   x == failed[c][j]
        <4>1. /\ j \in DOMAIN g /\ g[j] = x /\ g \in Seq(Nat) /\ x \in Nat /\ failed'[c] = g
          BY <1>4, <1>6, <2>0, <3>5
        <4>2. x - Window \in Int /\ x \in Int
          BY <2>0, <4>1
        <4>3. /\ Count(failed[c], x - Window, x) <= Count(g, x - Window, x)
              /\ Count(failed[c], x - Window, x) \in Nat /\ Count(g, x - Window, x) \in Nat
          <5> HIDE DEF x
          <5>1. /\ Count(failed[c], x - Window, x) \in Nat
                /\ Count(failed[c], x - Window, x) <= Count(g, x - Window, x)
            BY <1>4, <2>0, <4>2, CountFacts
          <5>2. Count(g, x - Window, x) \in Nat
            BY <4>1, <4>2, CountFacts
          <5> QED BY <5>1, <5>2
        <4>4. Count(g, g[j] - Window, g[j]) >= Threshold
          BY <2>0, <3>3, <4>1, <4>3
        <4>5. locked'[c].until = g[j] + Lockout
          BY <3>2, <3>3, <4>1
        <4> HIDE DEF g, x
        <4> QED BY <4>1, <4>4, <4>5 DEF LockoutOf
      <3> QED BY <3>4, <3>5
    <2> QED BY <2>1, <2>2
  <1> QED BY <1>7, <1>8, <1>9, <1>10, <1>11 DEF TablesInv


-----------------------------------------------------------------------------
(* All steps.                                                               *)

LEMMA InitTables == Init => TablesInv
  <1> SUFFICES ASSUME Init PROVE TablesInv
    OBVIOUS
  <1>1. /\ clock = 0 /\ failures = <<>> /\ locked = <<>> /\ turns = 0
        /\ failed = [c \in Clients |-> <<>>] /\ dropped = [c \in Clients |-> 0]
        /\ thread = [t \in Threads |-> Idle]
    BY DEF Init
  <1>2. DOMAIN failures = {} /\ DOMAIN locked = {} /\ Cardinality({}) = 0 /\ IsFiniteSet({})
    BY <1>1, FS_EmptySet
  <1>3. TableTypes
    <2>1. <<>> \in Seq(Nat)
      OBVIOUS
    <2> QED BY <1>1, <1>2, <2>1 DEF TableTypes, Orderly
  <1>4. BoundInv
    <2>1. {} \ {} = {}
      OBVIOUS
    <2> QED BY <1>2, <2>1, SignInAssumption DEF BoundInv
  <1>5. ASSUME NEW c \in Clients PROVE TimesOf(c) /\ TriesOf(c)
    <2>1. EndOf(<<>>, <<>>, 0, 0)
      BY DEF EndOf
    <2>2. TimesOf(c)
      BY <1>1, <1>2, <2>1 DEF TimesOf, Times
    <2>3. InWindow(c) = {} /\ Trying(c) = {}
      BY <1>1 DEF InWindow, Trying, Idle
    <2>4. Cardinality(Threads) \in Nat /\ Threshold \in Nat \ {0}
      BY SignInAssumption, FS_CardinalityType
    <2> QED BY <1>2, <2>2, <2>3, <2>4 DEF TriesOf
  <1>6. \A c \in DOMAIN locked : LockoutOf(c)
    BY <1>2
  <1> QED BY <1>3, <1>4, <1>5, <1>6 DEF TablesInv

\* Most steps of a request leave the tables alone, and bring no thread to try.
LEMMA ServeTables ==
    ASSUME Inv, TablesInv, NEW t \in Threads,
           Authorize(t) \/ ReadHash(t) \/ Change(t) \/ LoginMatches(t) \/ Respond(t)
    PROVE  TablesInv'
  <1>1. UNCHANGED <<clock, tables, failed, dropped>>
    BY DEF Authorize, ReadHash, Change, LoginMatches, Respond, histories
  <1>2. thread[t] \in Requests /\ thread \in [Threads -> Requests]
    BY DEF Inv, SessionTypes
  <1>3. \A c \in Clients : Trying(c)' \subseteq Trying(c)
    <2>1. CASE Authorize(t)
      <3>1. \E place \in {"check", "respond"}, out \in Nat :
               thread' = [thread EXCEPT ![t].pc = place, ![t].out = out]
        <4>1. thread[t].out \in Nat /\ 0 \in Nat
          BY <1>2 DEF Requests
        <4> QED BY <2>1, <4>1 DEF Authorize
      <3> QED BY <1>2, <3>1 DEF Trying, Requests
    <2>2. CASE ReadHash(t)
      BY <1>2, <2>2 DEF ReadHash, Trying, Requests
    <2>3. CASE Change(t)
      <3>1. CASE Goto(t, "respond")
        BY <1>2, <3>1 DEF Goto, Trying, Requests
      <3>2. CASE thread' = [thread EXCEPT ![t].pc = "clear", ![t].seen = password']
        BY <1>2, <3>2 DEF Trying, Requests
      <3> QED BY <2>3, <3>1, <3>2 DEF Change
    <2>4. CASE LoginMatches(t)
      BY <1>2, <2>4 DEF LoginMatches, Goto, Trying, Requests
    <2>5. CASE Respond(t)
      BY <1>2, <2>5 DEF Respond, Idle, Trying, Requests
    <2> QED BY <2>1, <2>2, <2>3, <2>4, <2>5
  <1> QED BY <1>1, <1>3, QuietTables

LEMMA NextTables == Inv /\ TablesInv /\ [Next]_vars => TablesInv'
  <1> SUFFICES ASSUME Inv, TablesInv, [Next]_vars PROVE TablesInv'
    OBVIOUS
  <1>1. ASSUME NEW t \in Threads, Serve(t) PROVE TablesInv'
    BY <1>1, ServeTables, CheckTables, FailTables, ClearTables DEF Serve
  <1>2. ASSUME NEW t \in Threads, NEW c \in Clients, Type(t, c) \/ Visit(t, c)
        PROVE  TablesInv'
    <2>1. PICK kind \in {"page", "logout", "login", "change"}, typed \in {password, 0} :
              Ask(t, c, kind, typed)
      BY <1>2 DEF Type, Visit
    <2> DEFINE q == [pc |-> IF kind = "login" THEN "check" ELSE "authorize",
                     kind |-> kind, client |-> c, typed |-> typed,
                     seen |-> IF kind = "login" THEN password ELSE 0,
                     session |-> cookie[c], out |-> cookie[c]]
    <2>2. thread' = [thread EXCEPT ![t] = q] /\ q.pc \notin {"read", "verify"}
      BY <2>1 DEF Ask
    <2>3. UNCHANGED <<clock, tables, failed, dropped>>
      BY <2>1 DEF Ask, histories
    <2> HIDE DEF q
    <2> QED BY <2>2, <2>3, FewerTrying, QuietTables
  <1>3. CASE UNCHANGED vars
    <2>1. \A c \in Clients : Trying(c)' = Trying(c)
      BY <1>3 DEF vars, Trying
    <2> QED BY <1>3, <2>1, QuietTables DEF vars, histories
  <1> QED BY <1>1, <1>2, <1>3, TickTables DEF Next

-----------------------------------------------------------------------------
(* Theorems about the tables.                                               *)

\* The tables are as the inductive invariant says, whatever interleaves, is
\* pruned or evicted (record_login_failure, is_login_locked_out).
THEOREM TablesSound == Spec => [](TypeOK /\ TablesInv)
  <1>1. Inv /\ TablesInv => TypeOK
    BY DEF Inv, TablesInv, TypeOK
  <1> QED BY <1>1, InitInv, InitTables, NextInv, NextTables, PTL DEF Spec

\* The table of failures has at most MaxTracked addresses, and that of lockouts
\* less than twice as many: an address gets one without a look at the bound only if it
\* is in the table of failures (_prune_rate_limit_state, record_login_failure).
THEOREM TablesStayBounded == Spec => []TablesBounded
  <1>1. TablesInv => TablesBounded
    <2> SUFFICES ASSUME TablesInv PROVE TablesBounded
      OBVIOUS
    <2> DEFINE F == DOMAIN failures
               L == DOMAIN locked
    <2>1. /\ IsFiniteSet(F) /\ IsFiniteSet(L) /\ MaxTracked \in Nat \ {0}
          /\ Cardinality(F) <= MaxTracked /\ Cardinality(L \ F) < MaxTracked
      BY SignInAssumption DEF TablesInv, TableTypes, Orderly, BoundInv
    <2> HIDE DEF F, L
    <2>2. /\ IsFiniteSet(L \ F) /\ IsFiniteSet(L \cap F)
          /\ Cardinality(L \cap F) <= Cardinality(F)
          /\ Cardinality(L \ F) \in Nat /\ Cardinality(L \cap F) \in Nat
          /\ Cardinality(F) \in Nat /\ Cardinality(L) \in Nat
      BY <2>1, FS_Difference, FS_Subset, FS_CardinalityType
    <2>3. Cardinality(L) = Cardinality(L \ F) + Cardinality(L \cap F)
      <3>1. Cardinality(L \ F) = Cardinality(L) - Cardinality(L \cap F)
        BY <2>1, FS_Difference
      <3> QED BY <2>2, <3>1
    <2>4. Cardinality(F) <= MaxTracked /\ Cardinality(L) < 2 * MaxTracked
      BY <2>1, <2>2, <2>3
    <2> QED BY <2>4 DEF TablesBounded, F, L
  <1> QED BY <1>1, TablesSound, PTL

\* Who is locked out has failed Threshold times within a window, no longer ago than a
\* lockout lasts, and has not shown the password since (is_login_locked_out).
THEOREM LockoutsAreDeserved == Spec => []LockoutIsDeserved
  <1>1. TablesInv => LockoutIsDeserved
    <2> SUFFICES ASSUME TablesInv, NEW c \in Clients, LockedOut(c)
                 PROVE  \E j \in DOMAIN failed[c] :
                           /\ clock - failed[c][j] < Lockout
                           /\ Count(failed[c], failed[c][j] - Window, failed[c][j]) >= Threshold
      BY DEF LockoutIsDeserved
    <2> DEFINE f == failed[c]
               n == Len(f)
    <2>1. /\ clock \in Nat /\ Window \in Nat /\ Lockout \in Nat /\ Window < Lockout
          /\ Threshold \in Nat \ {0} /\ f \in Seq(Nat) /\ dropped[c] \in Nat
          /\ n \in Nat /\ DOMAIN f = 1..n
      BY SignInAssumption DEF TablesInv, TableTypes
    <2>2. CASE IsLocked(c)
      <3>1. c \in DOMAIN locked /\ clock < locked[c].until
        BY <2>2 DEF IsLocked
      <3>2. PICK j \in DOMAIN f :
                /\ locked[c].until = f[j] + Lockout
                /\ Count(f, f[j] - Window, f[j]) >= Threshold
        BY <3>1 DEF TablesInv, LockoutOf
      <3>3. clock - f[j] < Lockout
        BY <2>1, <3>1, <3>2
      <3> QED BY <3>2, <3>3
    <2>3. CASE ~IsLocked(c)
      <3> DEFINE ts == Recent(Times(failures, c))
      <3>1. c \in DOMAIN failures /\ Len(ts) >= Threshold
        BY <2>3 DEF LockedOut, Enough, Times
      <3>2. Times(failures, c) \in Seq(Nat) /\ EndOf(f, Times(failures, c), dropped[c], clock)
        BY DEF TablesInv, TableTypes, TimesOf, Times
      <3>3. /\ ts \in Seq(Nat) /\ EndOf(f, ts, dropped[c], clock)
            /\ \A j \in (n - Len(ts) + 1)..n : f[j] >= clock - Window
        BY <2>1, <3>2, EndRecent
      <3> HIDE DEF ts, f
      <3>4. /\ \A i, j \in DOMAIN f : i < j => f[i] <= f[j]
            /\ \A j \in DOMAIN f : f[j] <= clock
            /\ Len(ts) <= n /\ Len(ts) \in Nat
        <4>1. /\ \A i, j \in DOMAIN f : i < j => f[i] <= f[j]
              /\ \A j \in DOMAIN f : f[j] <= clock
              /\ n - Len(ts) >= 0 /\ Len(ts) \in Nat
          BY <3>3 DEF EndOf
        <4> QED BY <2>1, <4>1
      <3>5. n \in DOMAIN f /\ f[n] \in Nat /\ f[n] <= clock /\ f[n] >= clock - Window
        <4>1. n \in DOMAIN f /\ n \in (n - Len(ts) + 1)..n
          BY <2>1, <3>1, <3>4
        <4>2. f[n] \in Nat
          <5>1. f \in Seq(Nat) /\ n \in DOMAIN f
            BY <2>1, <4>1
          <5> HIDE DEF n
          <5> QED BY <5>1
        <4>3. f[n] <= clock
          BY <3>4, <4>1
        <4>4. f[n] >= clock - Window
          BY <3>3, <4>1
        <4> QED BY <4>1, <4>2, <4>3, <4>4
      <3>6. \A j \in (n - Len(ts) + 1)..n : f[j] \in (f[n] - Window)..f[n]
        <4> SUFFICES ASSUME NEW j \in (n - Len(ts) + 1)..n
                     PROVE  f[j] \in (f[n] - Window)..f[n]
          OBVIOUS
        <4>1. j \in DOMAIN f /\ f[j] \in Nat /\ f[j] >= clock - Window
          BY <2>1, <3>3, <3>4
        <4>2. f[j] <= f[n]
          <5>1. CASE j = n
            BY <3>5, <5>1
          <5>2. CASE j # n
            <6>1. j < n
              BY <2>1, <4>1, <5>2
            <6> QED BY <3>4, <3>5, <4>1, <6>1
          <5> QED BY <5>1, <5>2
        <4> QED BY <2>1, <3>5, <4>1, <4>2
      <3>7. Len(ts) <= Count(f, f[n] - Window, f[n]) /\ Count(f, f[n] - Window, f[n]) \in Nat
        <4>1. f[n] - Window \in Int /\ f[n] \in Int /\ Len(ts) \in 0..n
          BY <2>1, <3>4, <3>5
        <4> QED BY <2>1, <3>6, <4>1, CountFacts
      <3>8. Count(f, f[n] - Window, f[n]) >= Threshold /\ clock - f[n] < Lockout
        BY <2>1, <3>1, <3>4, <3>5, <3>7
      <3> QED BY <3>5, <3>8 DEF f
    <2> QED BY <2>2, <2>3
  <1> QED BY <1>1, TablesSound, PTL

\* No interleaving of checks and failures lets an address fail more often within a
\* window than the threshold and one password each of the threads that had
\* checked before, unless an entry of it was evicted (login_post, change_password).
THEOREM AttemptsAreBounded == Spec => []AttemptsBounded
  <1>1. TablesInv => AttemptsBounded
    <2> SUFFICES ASSUME TablesInv, NEW c \in Clients
                 PROVE  Cardinality(InWindow(c)) < Threshold + Cardinality(Threads)
      BY DEF AttemptsBounded
    <2>1. /\ Cardinality(InWindow(c)) \in Nat /\ Cardinality(Trying(c)) \in Nat
          /\ Cardinality(Threads) \in Nat /\ Threshold \in Nat
      BY Numbers
    <2>2. Cardinality(InWindow(c)) + Cardinality(Trying(c)) < Threshold + Cardinality(Threads)
      BY DEF TablesInv, TriesOf
    <2> QED BY <2>1, <2>2
  <1> QED BY <1>1, TablesSound, PTL

=============================================================================
