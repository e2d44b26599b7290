---------------------------- MODULE SettingsStore ----------------------------
(***************************************************************************)
(* The settings of the server: the store in memory, settings.json on disk,  *)
(* the request threads that update them, and the parts of the server that   *)
(* follow them through a listener (settings.py, server/__init__.py,         *)
(* scheduler.py, __main__.py and the routes that call update).  The server  *)
(* process can be killed and the machine can lose its power between any two *)
(* steps of a save.                                                         *)
(*                                                                         *)
(* A value of a field is the number of the update that gave it, 0 before    *)
(* any; a settings object is a function from fields to values.              *)
(***************************************************************************)
EXTENDS Naturals, Sequences

CONSTANTS
    Threads,        \* the request threads
    Fields,         \* the fields of the settings
    Password,       \* auth.password_hash, 0 when no password has been set
    Secret,         \* auth.session_secret, 0 when it is empty
    Patches,        \* the sets of fields that a request may change together
    Watched,        \* the fields each listener looks at, in the order of
                    \* their registration
    Absent,         \* the content of a file that does not exist
    Half,           \* the content of a file that was not written to its end
    NoOne, Boot,    \* who holds the store's lock, besides a request thread
    ListenersMayFail, \* TRUE when a listener may raise
    MaxVersion      \* bound: values given to fields

ASSUME SettingsAssumption ==
    /\ {Password, Secret} \subseteq Fields
    /\ Patches \subseteq SUBSET Fields
    /\ Watched \in Seq(SUBSET Fields)
    /\ NoOne # Boot /\ {NoOne, Boot} \cap Threads = {}
    /\ MaxVersion \in Nat
    /\ ListenersMayFail \in BOOLEAN

Settings == [Fields -> 0..MaxVersion]

ASSUME ContentAssumption == Absent # Half /\ {Absent, Half} \cap Settings = {}

VARIABLES
    server,     \* the server process: "down", "boot" or "up"
    memory,     \* SettingsStore._settings
    holder,     \* who holds SettingsStore._lock
    saving,     \* the place of _save
    target,     \* the settings it saves
    version,    \* the values given so far
    file,       \* settings.json, as a process reads it
    durable,    \* settings.json, as a power loss may leave its name
    tmp,        \* settings.json.tmp
    dirty,      \* those of the two whose data has not all reached the disk
    thread,     \* each request thread: its place and its local variables
    applied,    \* the settings each listener last acted upon
    promised    \* the settings an answer has told or a start has saved
                \* (history)

disk == <<file, durable, tmp, dirty>>
save == <<holder, saving, target, version>>
vars == <<server, memory, disk, save, thread, applied, promised>>

Blank == [f \in Fields |-> 0]
Resting ==
    [pc |-> "idle", fields |-> {}, first |-> FALSE, seen |-> Blank,
     old |-> Blank, new |-> Blank, next |-> 1]
Unfollowed == [i \in DOMAIN Watched |-> Blank]

\* No file yet, or one that an older release or an operator has left.
Init ==
    /\ server = "down"
    /\ memory = Blank
    /\ holder = NoOne /\ saving = "none" /\ target = Blank /\ version = 0
    /\ file \in {Absent, Blank}
    /\ durable = file /\ tmp = Absent /\ dirty = {}
    /\ thread = [u \in Threads |-> Resting]
    /\ applied = Unfollowed
    /\ promised = Blank

\* The settings that an update, or the start, makes of others.
Given(s, S) == [f \in Fields |-> IF f \in S THEN version + 1 ELSE s[f]]

-----------------------------------------------------------------------------
(* The start of the server: _load_or_bootstrap, then whoever follows the    *)
(* settings takes its first value from them.                                *)

Serve(s) ==
    /\ server' = "up"
    /\ memory' = s
    /\ applied' = [i \in DOMAIN Watched |-> s]

\* The file is there, and is taken as it is: _load writes nothing, not even a
\* name that a killed process has not made durable.
Load ==
    /\ server = "down"
    /\ file \in Settings /\ file[Secret] # 0
    /\ Serve(file)
    /\ UNCHANGED <<disk, save, thread, promised>>

\* The settings to begin with have to be saved first: those of the file with
\* a new secret, or those of the environment, with a password or without.
BeginBoot ==
    /\ server = "down"
    /\ version < MaxVersion
    /\ \/ file \in Settings /\ file[Secret] = 0 /\ target' = Given(file, {Secret})
       \/ file = Absent /\ \E S \in {{Secret}, {Secret, Password}} :
             target' = Given(Blank, S)
    /\ server' = "boot"
    /\ holder' = Boot /\ saving' = "open" /\ version' = version + 1
    /\ UNCHANGED <<memory, disk, thread, applied, promised>>

-----------------------------------------------------------------------------
(* A request, up to the lock.                                               *)

Go(u, place) == thread' = [thread EXCEPT ![u].pc = place]

\* A handler looks at the settings: without a password every request but the
\* first-run form is sent away (redirect_to_first_run), and with one the form
\* is (first_run_post).
Read(u) ==
    /\ server = "up" /\ thread[u].pc = "idle" /\ holder = NoOne
    /\ \E S \in Patches, first \in BOOLEAN :
          /\ first <=> memory[Password] = 0
          /\ first => S = {Password}
          /\ thread' = [thread EXCEPT ![u] =
                [Resting EXCEPT !.pc = "read", !.fields = S, !.first = first,
                                !.seen = memory]]
    /\ UNCHANGED <<server, memory, disk, save, applied, promised>>

\* Wrong variants: what the handler saw before the lock is what it changes;
\* whether there is a password is not asked again under the lock.
MutateSeen(t) == Given(t.seen, t.fields)
MutateAnyway(t) == Given(memory, t.fields)

\* The mutation: made of the settings as of the update, and none for a
\* first-run form that another one has overtaken (_set_initial_password).
Mutation(t) ==
    IF t.first /\ memory[Password] # 0 THEN memory ELSE Given(memory, t.fields)

\* update takes the lock, applies the mutation and validates the result.
Update(u) ==
    /\ thread[u].pc = "read" /\ holder = NoOne
    /\ version < MaxVersion
    /\ holder' = u
    /\ target' = Mutation(thread[u])
    /\ version' = version + 1
    /\ saving' = "open"
    /\ Go(u, "update")
    /\ UNCHANGED <<server, memory, disk, applied, promised>>

\* Validation fails, before the lock or under it.
Reject(u) ==
    /\ thread[u].pc = "read" /\ holder = NoOne
    /\ thread' = [thread EXCEPT ![u] = Resting]
    /\ UNCHANGED <<server, memory, disk, save, applied, promised>>

-----------------------------------------------------------------------------
(* _save, and what follows it under the lock.                               *)

OpenTmp ==
    /\ saving = "open"
    /\ tmp' = Half
    /\ dirty' = dirty \ {"tmp"}
    /\ saving' = "write"
    /\ UNCHANGED <<server, memory, file, durable, holder, target, version,
                   thread, applied, promised>>

\* json.dump and flush: the data is in the system's cache.
WriteTmp ==
    /\ saving = "write"
    /\ tmp' = target
    /\ dirty' = dirty \cup {"tmp"}
    /\ saving' = "sync"
    /\ UNCHANGED <<server, memory, file, durable, holder, target, version,
                   thread, applied, promised>>

SyncTmp ==
    /\ saving = "sync"
    /\ dirty' = dirty \ {"tmp"}
    /\ saving' = "replace"
    /\ UNCHANGED <<server, memory, file, durable, tmp, holder, target, version,
                   thread, applied, promised>>

\* chmod and os.replace.
Replace ==
    /\ saving = "replace"
    /\ file' = tmp
    /\ tmp' = Absent
    /\ dirty' = IF "tmp" \in dirty THEN {"file"} ELSE {}
    /\ saving' = "syncdir"
    /\ UNCHANGED <<server, memory, durable, holder, target, version, thread,
                   applied, promised>>

\* A wrong variant: no fsync of the directory.
SkipSyncDir ==
    /\ saving = "syncdir"
    /\ saving' = "set"
    /\ UNCHANGED <<server, memory, disk, holder, target, version, thread,
                   applied, promised>>

SyncDir ==
    /\ saving = "syncdir"
    /\ durable' = file
    /\ saving' = "set"
    /\ UNCHANGED <<server, memory, file, tmp, dirty, holder, target, version,
                   thread, applied, promised>>

\* An exception leaves _save: the request fails, or the start does.
GiveUp ==
    /\ holder' = NoOne /\ saving' = "none" /\ target' = Blank
    /\ IF holder = Boot
       THEN server' = "down" /\ UNCHANGED thread
       ELSE server' = server /\ thread' = [thread EXCEPT ![holder] = Resting]
    /\ UNCHANGED <<version, memory, applied, promised>>

\* While the new file is written: it is removed, if that works.
WriteFails ==
    /\ saving \in {"open", "write", "sync"}
    /\ tmp' \in {tmp, Absent}
    /\ dirty' = IF tmp' = Absent THEN dirty \ {"tmp"} ELSE dirty
    /\ UNCHANGED <<file, durable>>
    /\ GiveUp

\* After that: the new file stays, beside the old one or in its place.
InstallFails ==
    /\ saving \in {"replace", "syncdir"}
    /\ UNCHANGED disk
    /\ GiveUp

\* self._settings = new, and the lock is released.
Commit ==
    /\ saving = "set"
    /\ IF holder = Boot
       THEN Serve(target) /\ promised' = target /\ UNCHANGED thread
       ELSE /\ memory' = target
            /\ thread' = [thread EXCEPT ![holder].pc = "notify",
                             ![holder].old = memory, ![holder].new = target]
            /\ UNCHANGED <<server, applied, promised>>
    /\ holder' = NoOne /\ saving' = "none" /\ target' = Blank
    /\ UNCHANGED <<disk, version>>

-----------------------------------------------------------------------------
(* The listeners, outside the lock, and the answer.                         *)

Differ(s, t, S) == \E f \in S : s[f] # t[f]

NextListener(u) == thread' = [thread EXCEPT ![u].next = @ + 1]

\* A listener acts when what it watches differs.
Notify(u) ==
    LET t == thread[u] IN
    /\ t.pc = "notify" /\ t.next <= Len(Watched)
    /\ applied' = IF Differ(t.old, t.new, Watched[t.next])
                  THEN [applied EXCEPT ![t.next] = t.new]
                  ELSE applied
    /\ NextListener(u)
    /\ UNCHANGED <<server, memory, disk, save, promised>>

\* Its exception is logged, and the next one is called.
ListenerFails(u) ==
    /\ ListenersMayFail
    /\ thread[u].pc = "notify" /\ thread[u].next <= Len(Watched)
    /\ NextListener(u)
    /\ UNCHANGED <<server, memory, disk, save, applied, promised>>

Answer(u) ==
    LET t == thread[u] IN
    /\ t.pc = "notify" /\ t.next > Len(Watched)
    /\ promised' = [f \in Fields |->
                      IF t.new[f] > promised[f] THEN t.new[f] ELSE promised[f]]
    /\ thread' = [thread EXCEPT ![u] = Resting]
    /\ UNCHANGED <<server, memory, disk, save, applied>>

-----------------------------------------------------------------------------
(* The system below the server.                                             *)

Down ==
    /\ server' = "down"
    /\ memory' = Blank /\ applied' = Unfollowed
    /\ holder' = NoOne /\ saving' = "none" /\ target' = Blank
    /\ thread' = [u \in Threads |-> Resting]
    /\ UNCHANGED <<version, promised>>

\* The process ends; what it has given to the system stays.
Kill ==
    /\ server # "down"
    /\ Down
    /\ UNCHANGED disk

\* The machine loses its power: a name that was not made durable may be gone
\* back, and data that was not may be missing.
PowerLoss ==
    /\ Down
    /\ file' \in {durable, file} \cup (IF "file" \in dirty THEN {Half} ELSE {})
    /\ durable' = file'
    /\ tmp' = Absent
    /\ dirty' = {}

\* The system writes out by itself what nobody has asked it to.
Flush ==
    /\ durable # file \/ dirty # {}
    /\ durable' = file
    /\ dirty' = {}
    /\ UNCHANGED <<server, memory, file, tmp, save, thread, applied, promised>>

-----------------------------------------------------------------------------

Save ==
    \/ OpenTmp \/ WriteTmp \/ SyncTmp \/ Replace \/ SyncDir
    \/ WriteFails \/ InstallFails \/ Commit

Request(u) ==
    \/ Read(u) \/ Update(u) \/ Reject(u)
    \/ Notify(u) \/ ListenerFails(u) \/ Answer(u)

Next ==
    \/ Load \/ BeginBoot
    \/ Save
    \/ \E u \in Threads : Request(u)
    \/ Kill \/ PowerLoss \/ Flush

Spec == Init /\ [][Next]_vars

-----------------------------------------------------------------------------
(* Properties.                                                              *)

Places == {"none", "open", "write", "sync", "replace", "syncdir", "set"}

ThreadStates ==
    [pc : {"idle", "read", "update", "notify"}, fields : SUBSET Fields,
     first : BOOLEAN, seen : Settings, old : Settings, new : Settings,
     next : 1..(Len(Watched) + 1)]

TypeOK ==
    /\ server \in {"down", "boot", "up"}
    /\ {memory, target, promised} \subseteq Settings
    /\ holder \in Threads \cup {NoOne, Boot}
    /\ saving \in Places
    /\ version \in 0..MaxVersion
    /\ {file, durable, tmp} \subseteq Settings \cup {Absent, Half}
    /\ dirty \subseteq {"tmp", "file"}
    /\ thread \in [Threads -> ThreadStates]
    /\ applied \in [DOMAIN Watched -> Settings]

\* settings.json is never found half written, whenever the process is killed
\* or the power goes (_save: a temporary file, fsync, os.replace).
FileIsWhole == file # Half /\ durable # Half

AtLeast(c, s) == c \in Settings /\ \A f \in Fields : c[f] >= s[f]

\* What an update has been answered with, or a start has saved, is what any
\* later start finds, unless a later update has changed it: no crash, failed
\* save or concurrent update of another field takes it back (update, _save).
PromiseKept == promised # Blank => AtLeast(file, promised) /\ AtLeast(durable, promised)

\* No update undoes another: a field only ever goes on to a newer value, as
\* long as the server runs (update applies the mutation under its lock to the
\* settings as they are then).
NoUpdateUndone ==
    [][server = "up" /\ server' = "up" =>
          \A f \in Fields : memory'[f] >= memory[f]]_vars

\* The first-run form sets the password once: of two that are submitted at
\* the same time one changes nothing (_set_initial_password).
FirstRunOnce ==
    [][server = "up" /\ server' = "up" /\ memory[Password] # 0
         /\ memory'[Password] # memory[Password]
       => ~thread[holder].first]_vars

\* When no update is under way, every listener has acted upon the settings
\* that are in force: the signing key, the schedule and the log handlers.
FollowersAgree ==
    server = "up" /\ holder = NoOne /\ (\A u \in Threads : thread[u].pc # "notify")
       => \A i \in DOMAIN Watched : ~Differ(applied[i], memory, Watched[i])

\* The settings are a register that outlives the server, whatever threads,
\* failed saves, kills and power losses there are: what an update brings into
\* force is safe on the disk before, and what was promised is never taken back.
\* A start takes what it finds, which a power loss may still take back.
Promised == INSTANCE Register WITH
    Values <- 0..MaxVersion, Nothing <- Absent,
    inForce <- IF server = "up" THEN memory ELSE Absent,
    stored <- file, safe <- durable

RegisterSpec == Promised!Spec

=============================================================================
