------------------------ MODULE SettingsStore_proofs ------------------------
(***************************************************************************)
(* Proofs about SettingsStore: its inductive invariant, the theorems that   *)
(* follow from it, and that it implements Register.                         *)
(***************************************************************************)
EXTENDS SettingsStore, TLAPS

-----------------------------------------------------------------------------
(* The inductive invariant behind the safety properties.                    *)

\* The lock, the place of the save and the server's state go together.
LockInv ==
    /\ holder = NoOne <=> saving = "none"
    /\ server = "boot" <=> holder = Boot
    /\ \A u \in Threads :
          /\ thread[u].pc = "update" <=> holder = u
          /\ thread[u].pc # "idle" => server = "up"

\* How far a save has got on the disk.
SaveInv ==
    /\ "file" \notin dirty
    /\ saving \in {"sync", "replace"} => tmp = target
    /\ saving = "replace" => "tmp" \notin dirty
    /\ saving \in {"syncdir", "set"} => file = target
    /\ saving = "set" => durable = target

\* No value is newer than the last one given.
ValueInv ==
    /\ \A f \in Fields : memory[f] <= version /\ target[f] <= version
    /\ \A c \in {file, durable} :
          c \in Settings => \A f \in Fields : c[f] <= version

\* settings.json is never behind the memory, nor the memory behind a promise;
\* what a thread is about to answer is in both and safe on the disk; and what is
\* being saved is not behind what it is made of.
OrderInv ==
    /\ server = "up" =>
          /\ AtLeast(file, memory)
          /\ AtLeast(memory, promised)
          /\ \A u \in Threads :
                thread[u].pc = "notify" =>
                   AtLeast(memory, thread[u].new) /\ AtLeast(durable, thread[u].new)
    /\ holder \in Threads => AtLeast(target, memory)
    /\ holder = Boot =>
          AtLeast(target, promised) /\ (file \in Settings => AtLeast(target, file))

\* A first-run form that was overtaken saves the settings as they are.
FirstInv ==
    \A u \in Threads :
        holder = u /\ thread[u].first /\ memory[Password] # 0 => target = memory

Inv ==
    /\ TypeOK
    /\ FileIsWhole
    /\ LockInv
    /\ SaveInv
    /\ ValueInv
    /\ OrderInv
    /\ FirstInv
    /\ PromiseKept

-----------------------------------------------------------------------------
(* The invariant is inductive.                                             *)

USE SettingsAssumption, ContentAssumption

-----------------------------------------------------------------------------
(* Settings and their order.                                                *)

\* The order of settings is reflexive.
LEMMA AtLeastItself == \A s \in Settings : AtLeast(s, s)
  BY DEF AtLeast, Settings

\* The order of settings is transitive.
LEMMA AtLeastTrans ==
    ASSUME NEW a, NEW b, NEW c \in Settings, AtLeast(a, b), AtLeast(b, c)
    PROVE  AtLeast(a, c)
  BY DEF AtLeast, Settings

\* Nothing is older than the settings to begin with.
LEMMA BlankIsOldest ==
    /\ Blank \in Settings
    /\ \A f \in Fields : Blank[f] = 0
    /\ \A s \in Settings : AtLeast(s, Blank)
  BY DEF AtLeast, Settings, Blank

\* A mutation gives new values to some fields and keeps the others.
LEMMA GivenIsNewer ==
    ASSUME NEW s \in Settings, NEW S \in SUBSET Fields,
           version \in Nat, version < MaxVersion,
           \A f \in Fields : s[f] <= version
    PROVE  /\ Given(s, S) \in Settings
           /\ AtLeast(Given(s, S), s)
           /\ \A f \in Fields : Given(s, S)[f] <= version + 1
  <1>1. Given(s, S) \in Settings
    BY DEF Given, Settings
  <1>2. \A f \in Fields : Given(s, S)[f] >= s[f] /\ Given(s, S)[f] <= version + 1
    BY DEF Given, Settings
  <1> QED BY <1>1, <1>2 DEF AtLeast

\* What an update makes of the settings under its lock.
LEMMA MutationIsNewer ==
    ASSUME TypeOK, ValueInv, NEW u \in Threads, version < MaxVersion
    PROVE  /\ Mutation(thread[u]) \in Settings
           /\ AtLeast(Mutation(thread[u]), memory)
           /\ \A f \in Fields : Mutation(thread[u])[f] <= version + 1
           /\ thread[u].first /\ memory[Password] # 0
                => Mutation(thread[u]) = memory
  <1>1. /\ memory \in Settings /\ version \in Nat
        /\ thread[u].fields \in SUBSET Fields
    BY DEF TypeOK, ThreadStates
  <1>2. \A f \in Fields : memory[f] <= version /\ memory[f] \in Nat
    BY <1>1 DEF ValueInv, Settings
  <1>3. AtLeast(memory, memory)
    BY <1>1, AtLeastItself
  <1>4. \A f \in Fields : memory[f] <= version + 1
    BY <1>1, <1>2
  <1>5. /\ Given(memory, thread[u].fields) \in Settings
        /\ AtLeast(Given(memory, thread[u].fields), memory)
        /\ \A f \in Fields : Given(memory, thread[u].fields)[f] <= version + 1
    BY <1>1, <1>2, GivenIsNewer
  <1> QED BY <1>1, <1>3, <1>4, <1>5 DEF Mutation

\* A thread at rest is one of the threads' states.
LEMMA RestingType ==
    /\ Resting.pc = "idle"
    /\ Resting \in ThreadStates
  <1>1. Len(Watched) \in Nat
    OBVIOUS
  <1> QED BY <1>1, BlankIsOldest DEF Resting, ThreadStates

\* The newer of two settings, field by field.
LEMMA NewerOfBoth ==
    ASSUME NEW a \in Settings, NEW b \in Settings, NEW m \in Settings,
           AtLeast(m, a), AtLeast(m, b),
           NEW n, n = [f \in Fields |-> IF a[f] > b[f] THEN a[f] ELSE b[f]]
    PROVE  n \in Settings /\ AtLeast(m, n)
  BY DEF AtLeast, Settings

\* Values that were not newer than the last one given stay so.
LEMMA ValuesStay ==
    ASSUME NEW s \in Settings, version \in Nat, \A f \in Fields : s[f] <= version
    PROVE  \A f \in Fields : s[f] <= version + 1
  BY DEF Settings

\* A thread that has called a listener goes on to the next.
LEMMA NextListenerType ==
    ASSUME thread \in [Threads -> ThreadStates], NEW u \in Threads,
           thread[u].next <= Len(Watched), NextListener(u)
    PROVE  thread' \in [Threads -> ThreadStates]
  <1> DEFINE t == [thread[u] EXCEPT !.next = @ + 1]
  <1>1. thread[u] \in ThreadStates /\ Len(Watched) \in Nat
    OBVIOUS
  <1>2. thread[u].next + 1 \in 1..(Len(Watched) + 1)
    BY <1>1 DEF ThreadStates
  <1>3. t \in ThreadStates
    BY <1>1, <1>2 DEF ThreadStates
  <1>4. thread' = [thread EXCEPT ![u] = t]
    BY DEF NextListener
  <1> QED BY <1>3, <1>4

\* A thread that takes another place is still one.
LEMMA ThreadMoves ==
    ASSUME thread \in [Threads -> ThreadStates], NEW u \in Threads,
           NEW t \in ThreadStates
    PROVE  [thread EXCEPT ![u] = t] \in [Threads -> ThreadStates]
  OBVIOUS

-----------------------------------------------------------------------------
(* The invariant holds initially.                                           *)

\* Init establishes every part of the invariant.
LEMMA InitInv == Init => Inv
  <1> SUFFICES ASSUME Init PROVE Inv
    OBVIOUS
  <1> USE BlankIsOldest
  <1>0. /\ server = "down" /\ holder = NoOne /\ saving = "none" /\ dirty = {}
        /\ memory = Blank /\ target = Blank /\ promised = Blank /\ version = 0
        /\ file \in {Absent, Blank} /\ durable = file /\ tmp = Absent
        /\ \A u \in Threads : thread[u] = Resting
    BY DEF Init
  <1>1. TypeOK
    <2>1. thread \in [Threads -> ThreadStates]
      BY RestingType DEF Init
    <2>2. applied \in [DOMAIN Watched -> Settings]
      BY DEF Init, Unfollowed
    <2> QED BY <1>0, <2>1, <2>2 DEF TypeOK, Places
  <1>2. FileIsWhole
    BY <1>0 DEF FileIsWhole
  <1>3. LockInv /\ FirstInv
    BY <1>0, RestingType DEF LockInv, FirstInv
  <1>4. SaveInv
    BY <1>0 DEF SaveInv
  <1>5. ValueInv
    <2>1. \A f \in Fields : Blank[f] <= 0
      BY DEF Blank
    <2> QED BY <1>0, <2>1 DEF ValueInv
  <1>6. OrderInv
    BY <1>0 DEF OrderInv
  <1>7. PromiseKept
    BY <1>0 DEF PromiseKept
  <1> QED BY <1>1, <1>2, <1>3, <1>4, <1>5, <1>6, <1>7 DEF Inv

\* The start of a server with a settings file.
LEMMA LoadInv ==
    ASSUME Inv, Load
    PROVE  Inv'
  <1> USE DEF Inv
  <1>1. TypeOK'
    BY AtLeastItself DEF Load, Serve, disk, save, TypeOK, Places
  <1>2. FileIsWhole'
    BY AtLeastItself DEF Load, Serve, disk, save, FileIsWhole, SaveInv, TypeOK
  <1>3. LockInv'
    BY AtLeastItself DEF Load, Serve, disk, save, LockInv, TypeOK
  <1>4. SaveInv'
    BY AtLeastItself DEF Load, Serve, disk, save, SaveInv, LockInv
  <1>5. ValueInv'
    BY AtLeastItself DEF Load, Serve, disk, save, ValueInv, SaveInv, TypeOK
  <1>6. OrderInv'
    <2>1. AtLeast(file, file) /\ AtLeast(file, promised)
      <3>1. file \in Settings
        BY DEF Load
      <3> QED BY <3>1, AtLeastItself, BlankIsOldest DEF PromiseKept
    <2>2. \A u \in Threads : thread[u].pc = "idle"
      BY DEF Load, LockInv
    <2>3. holder = NoOne
      BY DEF Load, LockInv, TypeOK
    <2>4. /\ server' = "up" /\ memory' = file
          /\ UNCHANGED <<file, durable, thread, promised, holder>>
      BY DEF Load, Serve, disk, save
    <2> QED BY <2>1, <2>2, <2>3, <2>4 DEF OrderInv
  <1>7. FirstInv'
    BY AtLeastItself DEF Load, Serve, disk, save, FirstInv, LockInv, TypeOK
  <1>8. PromiseKept'
    BY AtLeastItself DEF Load, Serve, disk, save, PromiseKept, OrderInv,
       SaveInv, LockInv, TypeOK
  <1> QED BY <1>1, <1>2, <1>3, <1>4, <1>5, <1>6, <1>7, <1>8

\* The start of a server that has to save settings first.
LEMMA BeginBootInv ==
    ASSUME Inv, BeginBoot
    PROVE  Inv'
  <1> USE DEF Inv
  <1>0. /\ target' \in Settings /\ AtLeast(target', promised)
        /\ file \in Settings => AtLeast(target', file)
        /\ \A f \in Fields : target'[f] <= version + 1
        /\ version \in Nat /\ version < MaxVersion
    <2>1. /\ version \in Nat /\ version < MaxVersion /\ promised \in Settings
          /\ Secret \in Fields /\ Password \in Fields
      BY DEF BeginBoot, TypeOK
    <2>2. CASE file \in Settings /\ target' = Given(file, {Secret})
      <3>1. /\ target' \in Settings /\ AtLeast(target', file)
            /\ \A f \in Fields : target'[f] <= version + 1
        BY <2>1, <2>2, GivenIsNewer DEF ValueInv
      <3>2. AtLeast(file, promised)
        BY <2>1, <2>2, BlankIsOldest DEF PromiseKept
      <3> QED BY <2>1, <3>1, <3>2, AtLeastTrans
    <2>3. CASE /\ file = Absent
               /\ \E S \in {{Secret}, {Secret, Password}} : target' = Given(Blank, S)
      <3>1. promised = Blank
        BY <2>3 DEF PromiseKept, AtLeast
      <3>2. \A f \in Fields : Blank[f] <= version
        BY <2>1, BlankIsOldest
      <3>3. /\ target' \in Settings
            /\ \A f \in Fields : target'[f] <= version + 1
        BY <2>1, <2>3, <3>2, BlankIsOldest, GivenIsNewer
      <3>4. file \notin Settings
        BY <2>3
      <3> QED BY <2>1, <3>1, <3>3, <3>4, BlankIsOldest
    <2> QED BY <2>2, <2>3 DEF BeginBoot
  <1>1. TypeOK'
    BY <1>0 DEF BeginBoot, disk, TypeOK, Places
  <1>2. FileIsWhole'
    BY <1>0 DEF BeginBoot, disk, FileIsWhole, SaveInv, TypeOK
  <1>3. LockInv'
    BY <1>0 DEF BeginBoot, disk, LockInv, TypeOK
  <1>4. SaveInv'
    BY <1>0 DEF BeginBoot, disk, SaveInv, LockInv
  <1>5. ValueInv'
    BY <1>0, ValuesStay DEF BeginBoot, disk, ValueInv, SaveInv, TypeOK
  <1>6. OrderInv'
    BY <1>0 DEF BeginBoot, disk, OrderInv, LockInv, SaveInv, TypeOK
  <1>7. FirstInv'
    BY <1>0 DEF BeginBoot, disk, FirstInv, LockInv, TypeOK
  <1>8. PromiseKept'
    BY <1>0 DEF BeginBoot, disk, PromiseKept, OrderInv, SaveInv, LockInv, TypeOK
  <1> QED BY <1>1, <1>2, <1>3, <1>4, <1>5, <1>6, <1>7, <1>8

\* A handler reads the settings.
LEMMA ReadInv ==
    ASSUME Inv, NEW u \in Threads, Read(u)
    PROVE  Inv'
  <1> USE DEF Inv
  <1>1. TypeOK'
    <2>1. PICK S \in Patches, first \in BOOLEAN :
               thread' = [thread EXCEPT ![u] =
                  [Resting EXCEPT !.pc = "read", !.fields = S, !.first = first,
                                  !.seen = memory]]
      BY DEF Read
    <2>2. [Resting EXCEPT !.pc = "read", !.fields = S, !.first = first,
                          !.seen = memory] \in ThreadStates
      <3>1. memory \in Settings /\ S \in SUBSET Fields
        BY DEF TypeOK
      <3> QED BY <3>1, RestingType DEF ThreadStates
    <2>3. thread' \in [Threads -> ThreadStates]
      BY <2>1, <2>2, ThreadMoves DEF TypeOK
    <2> QED
      BY <2>3 DEF Read, disk, save, TypeOK, Places
  <1>2. FileIsWhole'
    BY RestingType DEF Read, disk, save, FileIsWhole, SaveInv, TypeOK
  <1>3. LockInv'
    BY RestingType DEF Read, disk, save, LockInv, TypeOK
  <1>4. SaveInv'
    BY RestingType DEF Read, disk, save, SaveInv, LockInv
  <1>5. ValueInv'
    BY RestingType DEF Read, disk, save, ValueInv, SaveInv, TypeOK
  <1>6. OrderInv'
    BY RestingType DEF Read, disk, save, OrderInv, LockInv, SaveInv, TypeOK
  <1>7. FirstInv'
    BY RestingType DEF Read, disk, save, FirstInv, LockInv, TypeOK
  <1>8. PromiseKept'
    BY RestingType DEF Read, disk, save, PromiseKept, OrderInv, SaveInv,
       LockInv, TypeOK
  <1> QED BY <1>1, <1>2, <1>3, <1>4, <1>5, <1>6, <1>7, <1>8

\* An update takes the lock.
LEMMA UpdateInv ==
    ASSUME Inv, NEW u \in Threads, Update(u)
    PROVE  Inv'
  <1> USE DEF Inv
  <1>0. /\ target' \in Settings /\ AtLeast(target', memory)
        /\ \A f \in Fields : target'[f] <= version + 1
        /\ thread[u].first /\ memory[Password] # 0 => target' = memory
        /\ version \in Nat /\ version < MaxVersion
    BY MutationIsNewer DEF Update, TypeOK
  <1>1. TypeOK'
    <2>1. thread' \in [Threads -> ThreadStates]
      <3>1. thread \in [Threads -> ThreadStates]
        BY DEF TypeOK
      <3>2. [thread[u] EXCEPT !.pc = "update"] \in ThreadStates
        BY <3>1 DEF ThreadStates
      <3>3. thread' = [thread EXCEPT ![u] = [thread[u] EXCEPT !.pc = "update"]]
        BY <3>1 DEF Update, Go
      <3> QED BY <3>1, <3>2, <3>3
    <2> QED
      BY <1>0, <2>1 DEF Update, disk, TypeOK, Places
  <1>2. FileIsWhole'
    BY <1>0 DEF Update, Go, disk, FileIsWhole, SaveInv, TypeOK
  <1>3. LockInv'
    BY <1>0 DEF Update, Go, disk, LockInv, TypeOK
  <1>4. SaveInv'
    BY <1>0 DEF Update, Go, disk, SaveInv, LockInv
  <1>5. ValueInv'
    BY <1>0, ValuesStay DEF Update, Go, disk, ValueInv, SaveInv, TypeOK
  <1>6. OrderInv'
    BY <1>0 DEF Update, Go, disk, OrderInv, LockInv, SaveInv, TypeOK
  <1>7. FirstInv'
    BY <1>0 DEF Update, Go, disk, FirstInv, LockInv, TypeOK
  <1>8. PromiseKept'
    BY <1>0 DEF Update, Go, disk, PromiseKept, OrderInv, SaveInv, LockInv,
       TypeOK
  <1> QED BY <1>1, <1>2, <1>3, <1>4, <1>5, <1>6, <1>7, <1>8

\* Validation fails.
LEMMA RejectInv ==
    ASSUME Inv, NEW u \in Threads, Reject(u)
    PROVE  Inv'
  <1> USE DEF Inv
  <1>1. TypeOK'
    BY RestingType DEF Reject, disk, save, TypeOK, Places
  <1>2. FileIsWhole'
    BY RestingType DEF Reject, disk, save, FileIsWhole, SaveInv, TypeOK
  <1>3. LockInv'
    BY RestingType DEF Reject, disk, save, LockInv, TypeOK
  <1>4. SaveInv'
    BY RestingType DEF Reject, disk, save, SaveInv, LockInv
  <1>5. ValueInv'
    BY RestingType DEF Reject, disk, save, ValueInv, SaveInv, TypeOK
  <1>6. OrderInv'
    BY RestingType DEF Reject, disk, save, OrderInv, LockInv, SaveInv, TypeOK
  <1>7. FirstInv'
    BY RestingType DEF Reject, disk, save, FirstInv, LockInv, TypeOK
  <1>8. PromiseKept'
    BY RestingType DEF Reject, disk, save, PromiseKept, OrderInv, SaveInv,
       LockInv, TypeOK
  <1> QED BY <1>1, <1>2, <1>3, <1>4, <1>5, <1>6, <1>7, <1>8

\* The temporary file is opened.
LEMMA OpenTmpInv ==
    ASSUME Inv, OpenTmp
    PROVE  Inv'
  <1> USE DEF Inv
  <1>1. TypeOK'
    BY DEF OpenTmp, TypeOK, Places
  <1>2. FileIsWhole'
    BY DEF OpenTmp, FileIsWhole, SaveInv, TypeOK
  <1>3. LockInv'
    BY DEF OpenTmp, LockInv, TypeOK
  <1>4. SaveInv'
    BY DEF OpenTmp, SaveInv, LockInv
  <1>5. ValueInv'
    BY DEF OpenTmp, ValueInv, SaveInv, TypeOK
  <1>6. OrderInv'
    BY DEF OpenTmp, OrderInv, LockInv, SaveInv, TypeOK
  <1>7. FirstInv'
    BY DEF OpenTmp, FirstInv, LockInv, TypeOK
  <1>8. PromiseKept'
    BY DEF OpenTmp, PromiseKept, OrderInv, SaveInv, LockInv, TypeOK
  <1> QED BY <1>1, <1>2, <1>3, <1>4, <1>5, <1>6, <1>7, <1>8

\* The temporary file is written.
LEMMA WriteTmpInv ==
    ASSUME Inv, WriteTmp
    PROVE  Inv'
  <1> USE DEF Inv
  <1>1. TypeOK'
    BY DEF WriteTmp, TypeOK, Places
  <1>2. FileIsWhole'
    BY DEF WriteTmp, FileIsWhole, SaveInv, TypeOK
  <1>3. LockInv'
    BY DEF WriteTmp, LockInv, TypeOK
  <1>4. SaveInv'
    BY DEF WriteTmp, SaveInv, LockInv
  <1>5. ValueInv'
    BY DEF WriteTmp, ValueInv, SaveInv, TypeOK
  <1>6. OrderInv'
    BY DEF WriteTmp, OrderInv, LockInv, SaveInv, TypeOK
  <1>7. FirstInv'
    BY DEF WriteTmp, FirstInv, LockInv, TypeOK
  <1>8. PromiseKept'
    BY DEF WriteTmp, PromiseKept, OrderInv, SaveInv, LockInv, TypeOK
  <1> QED BY <1>1, <1>2, <1>3, <1>4, <1>5, <1>6, <1>7, <1>8

\* The temporary file is synced.
LEMMA SyncTmpInv ==
    ASSUME Inv, SyncTmp
    PROVE  Inv'
  <1> USE DEF Inv
  <1>1. TypeOK'
    BY DEF SyncTmp, TypeOK, Places
  <1>2. FileIsWhole'
    BY DEF SyncTmp, FileIsWhole, SaveInv, TypeOK
  <1>3. LockInv'
    BY DEF SyncTmp, LockInv, TypeOK
  <1>4. SaveInv'
    BY DEF SyncTmp, SaveInv, LockInv
  <1>5. ValueInv'
    BY DEF SyncTmp, ValueInv, SaveInv, TypeOK
  <1>6. OrderInv'
    BY DEF SyncTmp, OrderInv, LockInv, SaveInv, TypeOK
  <1>7. FirstInv'
    BY DEF SyncTmp, FirstInv, LockInv, TypeOK
  <1>8. PromiseKept'
    BY DEF SyncTmp, PromiseKept, OrderInv, SaveInv, LockInv, TypeOK
  <1> QED BY <1>1, <1>2, <1>3, <1>4, <1>5, <1>6, <1>7, <1>8

\* The temporary file takes the place of the settings file.
LEMMA ReplaceInv ==
    ASSUME Inv, Replace
    PROVE  Inv'
  <1> USE DEF Inv
  <1>1. TypeOK'
    BY DEF Replace, TypeOK, Places
  <1>2. FileIsWhole'
    BY DEF Replace, FileIsWhole, SaveInv, TypeOK
  <1>3. LockInv'
    BY DEF Replace, LockInv, TypeOK
  <1>4. SaveInv'
    BY DEF Replace, SaveInv, LockInv
  <1>5. ValueInv'
    BY DEF Replace, ValueInv, SaveInv, TypeOK
  <1>6. OrderInv'
    BY AtLeastItself DEF Replace, OrderInv, LockInv, SaveInv, TypeOK
  <1>7. FirstInv'
    BY DEF Replace, FirstInv, LockInv, TypeOK
  <1>8. PromiseKept'
    BY AtLeastTrans DEF Replace, PromiseKept, OrderInv, SaveInv, LockInv, TypeOK
  <1> QED BY <1>1, <1>2, <1>3, <1>4, <1>5, <1>6, <1>7, <1>8

\* Once the settings file is durable, so is what a thread is about to answer.
LEMMA SafeAsFile ==
    ASSUME Inv, NEW u \in Threads, thread[u].pc = "notify"
    PROVE  AtLeast(file, thread[u].new)
  <1>1. server = "up" /\ {memory, thread[u].new} \subseteq Settings
    BY DEF Inv, TypeOK, LockInv, ThreadStates
  <1>2. AtLeast(file, memory) /\ AtLeast(memory, thread[u].new)
    BY <1>1 DEF Inv, OrderInv
  <1> QED BY <1>1, <1>2, AtLeastTrans

\* The directory is synced.
LEMMA SyncDirInv ==
    ASSUME Inv, SyncDir
    PROVE  Inv'
  <1> USE DEF Inv
  <1>1. TypeOK'
    BY DEF SyncDir, TypeOK, Places
  <1>2. FileIsWhole'
    BY DEF SyncDir, FileIsWhole, SaveInv, TypeOK
  <1>3. LockInv'
    BY DEF SyncDir, LockInv, TypeOK
  <1>4. SaveInv'
    BY DEF SyncDir, SaveInv, LockInv
  <1>5. ValueInv'
    BY DEF SyncDir, ValueInv, SaveInv, TypeOK
  <1>6. OrderInv'
    BY SafeAsFile DEF SyncDir, OrderInv, LockInv, SaveInv, TypeOK
  <1>7. FirstInv'
    BY DEF SyncDir, FirstInv, LockInv, TypeOK
  <1>8. PromiseKept'
    BY DEF SyncDir, PromiseKept, OrderInv, SaveInv, LockInv, TypeOK
  <1> QED BY <1>1, <1>2, <1>3, <1>4, <1>5, <1>6, <1>7, <1>8

\* A save fails before the settings file is touched.
LEMMA WriteFailsInv ==
    ASSUME Inv, WriteFails
    PROVE  Inv'
  <1> USE DEF Inv
  <1>1. TypeOK'
    <2>1. thread' \in [Threads -> ThreadStates]
      BY RestingType, ThreadMoves DEF TypeOK, GiveUp, LockInv, WriteFails
    <2> QED
      BY BlankIsOldest, <2>1 DEF WriteFails, GiveUp, TypeOK, Places
  <1>2. FileIsWhole'
    BY RestingType, BlankIsOldest DEF WriteFails, GiveUp, FileIsWhole,
       SaveInv, TypeOK
  <1>3. LockInv'
    BY RestingType, BlankIsOldest DEF WriteFails, GiveUp, LockInv, TypeOK
  <1>4. SaveInv'
    BY RestingType, BlankIsOldest DEF WriteFails, GiveUp, SaveInv, LockInv
  <1>5. ValueInv'
    BY BlankIsOldest DEF WriteFails, GiveUp, ValueInv, TypeOK
  <1>6. OrderInv'
    BY RestingType, BlankIsOldest DEF WriteFails, GiveUp, OrderInv, LockInv,
       SaveInv, TypeOK
  <1>7. FirstInv'
    BY RestingType, BlankIsOldest DEF WriteFails, GiveUp, FirstInv, LockInv,
       TypeOK
  <1>8. PromiseKept'
    BY RestingType, BlankIsOldest DEF WriteFails, GiveUp, PromiseKept,
       OrderInv, SaveInv, LockInv, TypeOK
  <1> QED BY <1>1, <1>2, <1>3, <1>4, <1>5, <1>6, <1>7, <1>8

\* A save fails later.
LEMMA InstallFailsInv ==
    ASSUME Inv, InstallFails
    PROVE  Inv'
  <1> USE DEF Inv
  <1>1. TypeOK'
    <2>1. thread' \in [Threads -> ThreadStates]
      BY RestingType, ThreadMoves DEF TypeOK, GiveUp, LockInv, InstallFails
    <2> QED
      BY BlankIsOldest, <2>1 DEF InstallFails, GiveUp, disk, TypeOK, Places
  <1>2. FileIsWhole'
    BY RestingType, BlankIsOldest DEF InstallFails, GiveUp, disk,
       FileIsWhole, SaveInv, TypeOK
  <1>3. LockInv'
    BY RestingType, BlankIsOldest DEF InstallFails, GiveUp, disk, LockInv,
       TypeOK
  <1>4. SaveInv'
    BY RestingType, BlankIsOldest DEF InstallFails, GiveUp, disk, SaveInv,
       LockInv
  <1>5. ValueInv'
    BY BlankIsOldest DEF InstallFails, GiveUp, disk, ValueInv, TypeOK
  <1>6. OrderInv'
    BY RestingType, BlankIsOldest DEF InstallFails, GiveUp, disk, OrderInv,
       LockInv, SaveInv, TypeOK
  <1>7. FirstInv'
    BY RestingType, BlankIsOldest DEF InstallFails, GiveUp, disk, FirstInv,
       LockInv, TypeOK
  <1>8. PromiseKept'
    BY RestingType, BlankIsOldest DEF InstallFails, GiveUp, disk,
       PromiseKept, OrderInv, SaveInv, LockInv, TypeOK
  <1> QED BY <1>1, <1>2, <1>3, <1>4, <1>5, <1>6, <1>7, <1>8

\* The saved settings are put in force.
LEMMA CommitInv ==
    ASSUME Inv, Commit
    PROVE  Inv'
  <1> USE DEF Inv
  <1>0. /\ saving = "set" /\ file = target /\ durable = target
        /\ holder \in Threads \cup {Boot}
        /\ {target, memory, promised} \subseteq Settings
    BY DEF Commit, SaveInv, LockInv, TypeOK
  <1>1. TypeOK'
    <2>1. CASE holder = Boot
      <3>1. applied' \in [DOMAIN Watched -> Settings]
        BY <1>0, <2>1 DEF Commit, Serve
      <3> QED BY <1>0, <2>1, <3>1, BlankIsOldest DEF Commit, Serve, disk, TypeOK, Places
    <2>2. CASE holder # Boot
      <3>1. thread' \in [Threads -> ThreadStates]
        <4> DEFINE t == [thread[holder] EXCEPT !.pc = "notify", !.old = memory,
                                               !.new = target]
        <4>1. holder \in Threads /\ thread[holder] \in ThreadStates
          BY <1>0, <2>2 DEF TypeOK
        <4>2. t \in ThreadStates
          BY <1>0, <4>1 DEF ThreadStates
        <4>3. thread' = [thread EXCEPT ![holder] = t]
          BY <2>2 DEF Commit
        <4> QED BY <4>1, <4>2, <4>3 DEF TypeOK
      <3> QED BY <1>0, <2>2, <3>1, BlankIsOldest DEF Commit, disk, TypeOK, Places
    <2> QED BY <2>1, <2>2
  <1>2. FileIsWhole'
    BY <1>0, RestingType, BlankIsOldest, AtLeastItself DEF Commit, Serve,
       disk, FileIsWhole, SaveInv, TypeOK
  <1>3. LockInv'
    <2>1. CASE holder = Boot
      BY <1>0, <2>1 DEF Commit, Serve, LockInv
    <2>2. CASE holder # Boot
      <3>1. \A u \in Threads :
               /\ u # holder => thread'[u].pc = thread[u].pc
               /\ u = holder => thread'[u].pc = "notify"
        BY <2>2 DEF Commit, TypeOK, ThreadStates
      <3>2. holder \in Threads /\ server' = server /\ holder' = NoOne /\ saving' = "none"
        BY <1>0, <2>2 DEF Commit
      <3>3. server = "up"
        BY <3>2 DEF LockInv
      <3> QED BY <3>1, <3>2, <3>3 DEF LockInv
    <2> QED BY <2>1, <2>2
  <1>4. SaveInv'
    BY <1>0, RestingType, BlankIsOldest, AtLeastItself DEF Commit, Serve,
       disk, SaveInv, LockInv
  <1>5. ValueInv'
    BY <1>0, RestingType, BlankIsOldest, AtLeastItself DEF Commit, Serve,
       disk, ValueInv, SaveInv, TypeOK
  <1>6. OrderInv'
    <2>1. CASE holder = Boot
      <3>1. \A u \in Threads : thread[u].pc = "idle"
        BY <2>1 DEF LockInv, TypeOK, ThreadStates
      <3> QED BY <1>0, <2>1, <3>1, AtLeastItself DEF Commit, Serve, disk, OrderInv
    <2>2. CASE holder # Boot
      <3>1. holder \in Threads /\ server = "up" /\ promised' = promised /\ memory' = target
            /\ file' = target /\ durable' = target /\ holder' = NoOne
        BY <1>0, <2>2 DEF Commit, LockInv, disk
      <3>2. AtLeast(target, memory) /\ AtLeast(memory, promised)
        BY <3>1 DEF OrderInv
      <3>3. AtLeast(target, promised) /\ AtLeast(target, target)
        BY <1>0, <3>2, AtLeastTrans, AtLeastItself
      <3>4. ASSUME NEW u \in Threads, thread'[u].pc = "notify"
            PROVE  AtLeast(target, thread'[u].new)
        <4>1. CASE u = holder
          BY <2>2, <3>1, <3>3, <4>1 DEF Commit, TypeOK, ThreadStates
        <4>2. CASE u # holder
          <5>1. thread'[u] = thread[u]
            BY <2>2, <4>2 DEF Commit, TypeOK
          <5>2. AtLeast(memory, thread[u].new) /\ thread[u].new \in Settings
            BY <3>1, <3>4, <5>1 DEF OrderInv, TypeOK, ThreadStates
          <5> QED BY <3>2, <5>1, <5>2, AtLeastTrans
        <4> QED BY <4>1, <4>2
      <3> QED BY <1>0, <3>1, <3>3, <3>4 DEF OrderInv
    <2> QED BY <2>1, <2>2
  <1>7. FirstInv'
    BY <1>0, RestingType, BlankIsOldest, AtLeastItself DEF Commit, Serve,
       disk, FirstInv, LockInv, TypeOK
  <1>8. PromiseKept'
    BY <1>0, RestingType, BlankIsOldest, AtLeastItself DEF Commit, Serve,
       disk, PromiseKept, OrderInv, SaveInv, LockInv, TypeOK
  <1> QED BY <1>1, <1>2, <1>3, <1>4, <1>5, <1>6, <1>7, <1>8

\* A listener is called.
LEMMA NotifyInv ==
    ASSUME Inv, NEW u \in Threads, Notify(u)
    PROVE  Inv'
  <1> USE DEF Inv
  <1>1. TypeOK'
    <2>1. thread' \in [Threads -> ThreadStates]
      BY NextListenerType DEF TypeOK, Notify
    <2>2. applied' \in [DOMAIN Watched -> Settings]
      BY DEF TypeOK, Notify, ThreadStates
    <2> QED
      BY <2>2, <2>1 DEF Notify, disk, save, TypeOK, Places
  <1>2. FileIsWhole'
    BY DEF Notify, NextListener, disk, save, FileIsWhole, SaveInv, TypeOK
  <1>3. LockInv'
    BY DEF Notify, NextListener, disk, save, LockInv, TypeOK
  <1>4. SaveInv'
    BY DEF Notify, NextListener, disk, save, SaveInv, LockInv
  <1>5. ValueInv'
    BY DEF Notify, NextListener, disk, save, ValueInv, SaveInv, TypeOK
  <1>6. OrderInv'
    BY DEF Notify, NextListener, disk, save, OrderInv, LockInv, SaveInv, TypeOK
  <1>7. FirstInv'
    BY DEF Notify, NextListener, disk, save, FirstInv, LockInv, TypeOK
  <1>8. PromiseKept'
    BY DEF Notify, NextListener, disk, save, PromiseKept, OrderInv, SaveInv,
       LockInv, TypeOK
  <1> QED BY <1>1, <1>2, <1>3, <1>4, <1>5, <1>6, <1>7, <1>8

\* A listener raises.
LEMMA ListenerFailsInv ==
    ASSUME Inv, NEW u \in Threads, ListenerFails(u)
    PROVE  Inv'
  <1> USE DEF Inv
  <1>1. TypeOK'
    <2>1. thread' \in [Threads -> ThreadStates]
      BY NextListenerType DEF TypeOK, ListenerFails
    <2> QED
      BY <2>1 DEF ListenerFails, disk, save, TypeOK, Places
  <1>2. FileIsWhole'
    BY DEF ListenerFails, NextListener, disk, save, FileIsWhole, SaveInv, TypeOK
  <1>3. LockInv'
    BY DEF ListenerFails, NextListener, disk, save, LockInv, TypeOK
  <1>4. SaveInv'
    BY DEF ListenerFails, NextListener, disk, save, SaveInv, LockInv
  <1>5. ValueInv'
    BY DEF ListenerFails, NextListener, disk, save, ValueInv, SaveInv, TypeOK
  <1>6. OrderInv'
    BY DEF ListenerFails, NextListener, disk, save, OrderInv, LockInv,
       SaveInv, TypeOK
  <1>7. FirstInv'
    BY DEF ListenerFails, NextListener, disk, save, FirstInv, LockInv, TypeOK
  <1>8. PromiseKept'
    BY DEF ListenerFails, NextListener, disk, save, PromiseKept, OrderInv,
       SaveInv, LockInv, TypeOK
  <1> QED BY <1>1, <1>2, <1>3, <1>4, <1>5, <1>6, <1>7, <1>8

\* An answer tells of settings that are in force and safe.
LEMMA AnswerIsSafe ==
    ASSUME Inv, NEW u \in Threads, Answer(u)
    PROVE  /\ server = "up" /\ {memory, durable, promised, promised'} \subseteq Settings
           /\ AtLeast(memory, promised') /\ AtLeast(durable, promised')
           /\ AtLeast(promised', promised)
           /\ UNCHANGED <<server, memory, file, durable>>
  <1>1. /\ server = "up" /\ thread[u].pc = "notify"
        /\ {memory, promised, thread[u].new} \subseteq Settings
    BY DEF Inv, Answer, LockInv, TypeOK, ThreadStates
  <1>2. /\ AtLeast(memory, promised) /\ AtLeast(memory, thread[u].new)
        /\ AtLeast(durable, thread[u].new)
    BY <1>1 DEF Inv, OrderInv
  <1>3. durable \in Settings
    BY <1>2 DEF AtLeast
  <1>4. AtLeast(durable, promised)
    BY <1>3, BlankIsOldest DEF Inv, PromiseKept
  <1>5. promised' = [f \in Fields |-> IF thread[u].new[f] > promised[f]
                                      THEN thread[u].new[f] ELSE promised[f]]
    BY DEF Answer
  <1>6. promised' \in Settings /\ AtLeast(memory, promised')
    BY <1>1, <1>2, <1>5, NewerOfBoth
  <1>7. AtLeast(durable, promised')
    BY <1>1, <1>2, <1>3, <1>4, <1>5, NewerOfBoth
  <1>8. \A f \in Fields : promised'[f] >= promised[f]
    <2>1. ASSUME NEW f \in Fields PROVE promised'[f] >= promised[f]
      <3>1. promised[f] \in Nat /\ thread[u].new[f] \in Nat
        BY <1>1 DEF Settings
      <3>2. promised'[f] = IF thread[u].new[f] > promised[f] THEN thread[u].new[f]
                           ELSE promised[f]
        BY <1>5
      <3> QED BY <3>1, <3>2
    <2> QED BY <2>1
  <1>9. UNCHANGED <<server, memory, file, durable>>
    BY DEF Answer, disk
  <1> QED BY <1>1, <1>3, <1>6, <1>7, <1>8, <1>9 DEF AtLeast

\* A request is answered.
LEMMA AnswerInv ==
    ASSUME Inv, NEW u \in Threads, Answer(u)
    PROVE  Inv'
  <1> USE DEF Inv
  <1>0. /\ server = "up" /\ memory \in Settings
        /\ promised' \in Settings /\ AtLeast(memory, promised')
        /\ AtLeast(durable, promised')
    BY AnswerIsSafe
  <1>1. TypeOK'
    <2>1. thread' \in [Threads -> ThreadStates]
      BY RestingType, ThreadMoves DEF TypeOK, Answer
    <2> QED
      BY <1>0, <2>1 DEF Answer, disk, save, TypeOK, Places
  <1>2. FileIsWhole'
    BY <1>0, RestingType DEF Answer, disk, save, FileIsWhole, SaveInv, TypeOK
  <1>3. LockInv'
    BY <1>0, RestingType DEF Answer, disk, save, LockInv, TypeOK
  <1>4. SaveInv'
    BY <1>0, RestingType DEF Answer, disk, save, SaveInv, LockInv
  <1>5. ValueInv'
    BY <1>0, RestingType DEF Answer, disk, save, ValueInv, SaveInv, TypeOK
  <1>6. OrderInv'
    BY <1>0, RestingType DEF Answer, disk, save, OrderInv, LockInv, SaveInv,
       TypeOK
  <1>7. FirstInv'
    BY <1>0, RestingType DEF Answer, disk, save, FirstInv, LockInv, TypeOK
  <1>8. PromiseKept'
    BY <1>0, RestingType, AtLeastTrans DEF Answer, disk, save, PromiseKept,
       OrderInv, SaveInv, LockInv, TypeOK
  <1> QED BY <1>1, <1>2, <1>3, <1>4, <1>5, <1>6, <1>7, <1>8

\* The process is killed.
LEMMA KillInv ==
    ASSUME Inv, Kill
    PROVE  Inv'
  <1> USE DEF Inv
  <1>1. TypeOK'
    <2>1. thread' \in [Threads -> ThreadStates]
      BY RestingType DEF TypeOK, Down, Kill
    <2>2. applied' \in [DOMAIN Watched -> Settings]
      BY BlankIsOldest DEF Down, Unfollowed, Kill
    <2> QED
      BY BlankIsOldest, <2>2, <2>1 DEF Kill, Down, disk, TypeOK, Places
  <1>2. FileIsWhole'
    BY RestingType, BlankIsOldest DEF Kill, Down, disk, FileIsWhole, SaveInv,
       TypeOK
  <1>3. LockInv'
    BY RestingType, BlankIsOldest DEF Kill, Down, disk, LockInv, TypeOK
  <1>4. SaveInv'
    BY RestingType, BlankIsOldest DEF Kill, Down, disk, SaveInv, LockInv
  <1>5. ValueInv'
    BY RestingType, BlankIsOldest DEF Kill, Down, disk, ValueInv, SaveInv,
       TypeOK
  <1>6. OrderInv'
    BY RestingType, BlankIsOldest DEF Kill, Down, disk, OrderInv, LockInv,
       SaveInv, TypeOK
  <1>7. FirstInv'
    BY RestingType, BlankIsOldest DEF Kill, Down, disk, FirstInv, LockInv,
       TypeOK
  <1>8. PromiseKept'
    BY RestingType, BlankIsOldest DEF Kill, Down, disk, PromiseKept,
       OrderInv, SaveInv, LockInv, TypeOK
  <1> QED BY <1>1, <1>2, <1>3, <1>4, <1>5, <1>6, <1>7, <1>8

\* The power is lost.
LEMMA PowerLossInv ==
    ASSUME Inv, PowerLoss
    PROVE  Inv'
  <1> USE DEF Inv
  <1>1. TypeOK'
    <2>1. thread' \in [Threads -> ThreadStates]
      BY RestingType DEF TypeOK, Down, PowerLoss
    <2>2. applied' \in [DOMAIN Watched -> Settings]
      BY BlankIsOldest DEF Down, Unfollowed, PowerLoss
    <2> QED
      BY BlankIsOldest, <2>2, <2>1 DEF PowerLoss, Down, TypeOK, Places
  <1>2. FileIsWhole'
    BY RestingType, BlankIsOldest DEF PowerLoss, Down, FileIsWhole, SaveInv,
       TypeOK
  <1>3. LockInv'
    BY RestingType, BlankIsOldest DEF PowerLoss, Down, LockInv, TypeOK
  <1>4. SaveInv'
    BY RestingType, BlankIsOldest DEF PowerLoss, Down, SaveInv, LockInv
  <1>5. ValueInv'
    BY RestingType, BlankIsOldest DEF PowerLoss, Down, ValueInv, SaveInv, TypeOK
  <1>6. OrderInv'
    BY RestingType, BlankIsOldest DEF PowerLoss, Down, OrderInv, LockInv,
       SaveInv, TypeOK
  <1>7. FirstInv'
    BY RestingType, BlankIsOldest DEF PowerLoss, Down, FirstInv, LockInv, TypeOK
  <1>8. PromiseKept'
    BY RestingType, BlankIsOldest DEF PowerLoss, Down, PromiseKept, OrderInv,
       SaveInv, LockInv, TypeOK
  <1> QED BY <1>1, <1>2, <1>3, <1>4, <1>5, <1>6, <1>7, <1>8

\* The system writes out what it holds.
LEMMA FlushInv ==
    ASSUME Inv, Flush
    PROVE  Inv'
  <1> USE DEF Inv
  <1>1. TypeOK'
    BY DEF Flush, save, TypeOK, Places
  <1>2. FileIsWhole'
    BY DEF Flush, save, FileIsWhole, SaveInv, TypeOK
  <1>3. LockInv'
    BY DEF Flush, save, LockInv, TypeOK
  <1>4. SaveInv'
    BY DEF Flush, save, SaveInv, LockInv
  <1>5. ValueInv'
    BY DEF Flush, save, ValueInv, SaveInv, TypeOK
  <1>6. OrderInv'
    BY SafeAsFile DEF Flush, save, OrderInv, LockInv, SaveInv, TypeOK
  <1>7. FirstInv'
    BY DEF Flush, save, FirstInv, LockInv, TypeOK
  <1>8. PromiseKept'
    BY DEF Flush, save, PromiseKept, OrderInv, SaveInv, LockInv, TypeOK
  <1> QED BY <1>1, <1>2, <1>3, <1>4, <1>5, <1>6, <1>7, <1>8

-----------------------------------------------------------------------------
(* The theorems.                                                            *)

\* Every step preserves the invariant.
LEMMA NextInv ==
    ASSUME Inv, [Next]_vars
    PROVE  Inv'
  <1>1. CASE Load
    BY <1>1, LoadInv
  <1>2. CASE BeginBoot
    BY <1>2, BeginBootInv
  <1>3. CASE Save
    BY <1>3, OpenTmpInv, WriteTmpInv, SyncTmpInv, ReplaceInv, SyncDirInv,
       WriteFailsInv, InstallFailsInv, CommitInv DEF Save
  <1>4. ASSUME NEW u \in Threads, Request(u) PROVE Inv'
    BY <1>4, ReadInv, UpdateInv, RejectInv, NotifyInv, ListenerFailsInv,
       AnswerInv DEF Request
  <1>5. CASE Kill \/ PowerLoss \/ Flush
    BY <1>5, KillInv, PowerLossInv, FlushInv
  <1>6. CASE UNCHANGED vars
    BY <1>6 DEF vars, disk, save, Inv, TypeOK, FileIsWhole, LockInv, SaveInv,
                ValueInv, OrderInv, FirstInv, PromiseKept
  <1> QED BY <1>1, <1>2, <1>3, <1>4, <1>5, <1>6 DEF Next

\* The inductive invariant holds in every reachable state.
THEOREM Invariance == Spec => []Inv
  BY InitInv, NextInv, PTL DEF Spec

\* Every variable keeps its type, whatever threads, fields and listeners
\* there are.
THEOREM TypeCorrect == Spec => []TypeOK
  <1>1. Inv => TypeOK
    BY DEF Inv
  <1> QED BY <1>1, Invariance, PTL

\* settings.json is never found half written, for any number of concurrent
\* updates and of crashes and power losses (_save).
THEOREM WholeFile == Spec => []FileIsWhole
  <1>1. Inv => FileIsWhole
    BY DEF Inv
  <1> QED BY <1>1, Invariance, PTL

\* An answered update survives every crash, power loss, failed save and
\* concurrent update of other fields (update, _save).
THEOREM Durability == Spec => []PromiseKept
  <1>1. Inv => PromiseKept
    BY DEF Inv
  <1> QED BY <1>1, Invariance, PTL

\* Only Commit, the end of a start and that of the server change the memory.
LEMMA MemoryChanges ==
    ASSUME Inv, [Next]_vars, server = "up", server' = "up", memory' # memory
    PROVE  /\ holder \in Threads
           /\ memory' = target
           /\ target # memory
  <1>1. CASE Save
    <2>1. Commit
      BY <1>1 DEF Save, OpenTmp, WriteTmp, SyncTmp, Replace, SyncDir,
         WriteFails,
                  InstallFails, GiveUp
    <2>2. holder \in Threads
      BY <2>1 DEF Commit, Inv, TypeOK, LockInv
    <2>3. holder # Boot
      BY <2>2
    <2>4. memory' = target
      BY <2>1, <2>3 DEF Commit
    <2> QED BY <2>2, <2>4
  <1>2. ~Load /\ ~BeginBoot
    BY DEF Load, BeginBoot
  <1>3. ASSUME NEW u \in Threads, Request(u) PROVE FALSE
    BY <1>3 DEF Request, Read, Update, Reject, Notify, ListenerFails, Answer
  <1>4. ~Kill /\ ~PowerLoss /\ ~Flush /\ ~UNCHANGED vars
    BY DEF Kill, PowerLoss, Down, Flush, vars
  <1> QED BY <1>1, <1>2, <1>3, <1>4 DEF Next

\* No update undoes another as long as the server runs: the mutation is
\* applied under the lock to what is in force then (update).
THEOREM UpdatesLast == Spec => NoUpdateUndone
  <1>1. ASSUME Inv, [Next]_vars
        PROVE  server = "up" /\ server' = "up" =>
                  \A f \in Fields : memory'[f] >= memory[f]
    <2> SUFFICES ASSUME server = "up", server' = "up"
                 PROVE  \A f \in Fields : memory'[f] >= memory[f]
      OBVIOUS
    <2>1. CASE memory' = memory
      <3>1. AtLeast(memory, memory)
        BY <1>1, AtLeastItself DEF Inv, TypeOK
      <3> QED BY <2>1, <3>1 DEF AtLeast
    <2>2. CASE memory' # memory
      <3>1. holder \in Threads /\ memory' = target
        BY <1>1, <2>2, MemoryChanges
      <3>2. AtLeast(target, memory)
        BY <1>1, <3>1 DEF Inv, OrderInv
      <3> QED BY <3>1, <3>2 DEF AtLeast
    <2> QED BY <2>1, <2>2
  <1> QED BY <1>1, Invariance, PTL DEF Spec, NoUpdateUndone

\* Of any number of first-run forms submitted together, one sets the password
\* (_set_initial_password asks again under the lock).
THEOREM FirstRunWins == Spec => FirstRunOnce
  <1>1. ASSUME Inv, [Next]_vars
        PROVE  server = "up" /\ server' = "up" /\ memory[Password] # 0
                 /\ memory'[Password] # memory[Password]
               => ~thread[holder].first
    <2> SUFFICES ASSUME server = "up", server' = "up", memory[Password] # 0,
                        memory'[Password] # memory[Password],
                        thread[holder].first
                 PROVE  FALSE
      OBVIOUS
    <2>1. holder \in Threads /\ target # memory
      BY <1>1, MemoryChanges
    <2> QED BY <1>1, <2>1 DEF Inv, FirstInv
  <1> QED BY <1>1, Invariance, PTL DEF Spec, FirstRunOnce

-----------------------------------------------------------------------------
(* The settings are a register that outlives the server.                    *)

\* What the register has in force.
InForce == IF server = "up" THEN memory ELSE Absent

\* The contents of the register are the settings, none of which is Absent.
LEMMA RegisterContents ==
    /\ Promised!Contents = Settings
    /\ Promised!Blank = Blank
    /\ Absent \notin Settings
  BY DEF Promised!Contents, Promised!Blank, Settings, Blank

\* Nothing of the register changes: a step of the save before the replacement,
\* of a failed one, of a request or a listener.
LEMMA Stutters ==
    ASSUME server' = server \/ (server # "up" /\ server' # "up"),
           UNCHANGED <<memory, file, durable, promised>>
    PROVE  UNCHANGED Promised!vars
  BY DEF Promised!vars

\* The new file takes the place of the old one: new contents are stored, not
\* older than those in force, or than those that were found.
LEMMA ReplaceStores == ASSUME Inv, Replace PROVE Promised!Store
  <1>1. /\ file' = target /\ target \in Settings /\ memory \in Settings
        /\ UNCHANGED <<server, memory, durable, promised>>
    BY DEF Replace, Inv, SaveInv, TypeOK
  <1>2. server = "up" => AtLeast(target, memory)
    BY DEF Replace, Inv, LockInv, OrderInv, TypeOK
  <1>3. server # "up" => holder = Boot
    BY DEF Replace, Inv, LockInv, TypeOK
  <1>4. server # "up" /\ file # Absent => AtLeast(target, file)
    BY <1>3 DEF Inv, OrderInv, TypeOK, FileIsWhole
  <1>5. InForce # Absent <=> server = "up"
    BY <1>1, RegisterContents DEF InForce
  <1> DEFINE base == IF InForce # Absent THEN InForce ELSE file
  <1>6. base # Absent => \A f \in Fields : file'[f] >= base[f]
    BY <1>1, <1>2, <1>4, <1>5 DEF InForce, AtLeast
  <1> QED BY <1>1, <1>6, RegisterContents DEF Promised!Store, Promised!NotOlder, InForce

\* What was replaced is made durable.
LEMMA SyncDirSecures == ASSUME SyncDir \/ Flush PROVE Promised!Secure
  BY DEF SyncDir, Flush, Promised!Secure, save

\* The new settings of an update come into force when they are safe, and so do
\* those that a start had to save.
LEMMA CommitAdopts ==
    ASSUME Inv, Commit
    PROVE  Promised!Adopt \/ Promised!Start
  <1>1. /\ file = target /\ durable = target /\ target \in Settings
        /\ memory \in Settings /\ holder \in Threads \cup {Boot}
        /\ UNCHANGED <<file, durable>>
    BY DEF Commit, Inv, LockInv, SaveInv, TypeOK, disk
  <1>2. CASE holder = Boot
    <2>1. server # "up" /\ server' = "up" /\ memory' = target /\ promised' = target
      BY <1>2 DEF Commit, Serve, Inv, LockInv
    <2> QED BY <1>1, <2>1, RegisterContents DEF Promised!Start
  <1>3. CASE holder # Boot
    <2>1. server = "up" /\ server' = "up" /\ memory' = target /\ promised' = promised
      BY <1>1, <1>3 DEF Commit, Inv, LockInv
    <2> QED BY <1>1, <2>1, RegisterContents DEF Promised!Adopt
  <1> QED BY <1>2, <1>3

\* A start takes the settings that it finds.
LEMMA LoadStarts == ASSUME Inv, Load PROVE Promised!Start
  <1>1. /\ server = "down" /\ file \in Settings
        /\ server' = "up" /\ memory' = file
        /\ UNCHANGED <<file, durable, promised>>
    BY DEF Load, Serve, disk
  <1> QED BY <1>1, RegisterContents DEF Promised!Start

\* An answer tells of settings that are in force and safe.
LEMMA AnswerPromises == ASSUME Inv, NEW u \in Threads, Answer(u) PROVE Promised!Promise
  <1>1. /\ server = "up" /\ {memory, durable, promised, promised'} \subseteq Settings
        /\ UNCHANGED <<server, memory, file, durable>>
    BY AnswerIsSafe
  <1>2. \A f \in Fields : /\ memory[f] >= promised'[f]
                         /\ durable[f] >= promised'[f]
                         /\ promised'[f] >= promised[f]
    BY AnswerIsSafe DEF AtLeast
  <1> QED BY <1>1, <1>2, RegisterContents
          DEF Promised!Promise, Promised!NotOlder

\* Every step of the settings is one of the register, or none.
LEMMA NextRegisters == ASSUME Inv, [Next]_vars PROVE [Promised!Next]_(Promised!vars)
  <1>1. CASE Load
    BY <1>1, LoadStarts DEF Promised!Next
  <1>2. CASE BeginBoot
    BY <1>2, Stutters DEF BeginBoot, disk
  <1>3. CASE Save
    <2>1. CASE OpenTmp \/ WriteTmp \/ SyncTmp
      BY <2>1, Stutters DEF OpenTmp, WriteTmp, SyncTmp
    <2>2. CASE Replace
      BY <2>2, ReplaceStores DEF Promised!Next
    <2>3. CASE SyncDir
      BY <2>3, SyncDirSecures DEF Promised!Next
    <2>4. CASE WriteFails \/ InstallFails
      <3>1. UNCHANGED <<memory, file, durable, promised>>
        BY <2>4 DEF WriteFails, InstallFails, GiveUp, disk
      <3>2. server' = server \/ (server # "up" /\ server' # "up")
        BY <2>4 DEF WriteFails, InstallFails, GiveUp, Inv, LockInv
      <3> QED BY <3>1, <3>2, Stutters
    <2>5. CASE Commit
      BY <2>5, CommitAdopts DEF Promised!Next
    <2> QED BY <1>3, <2>1, <2>2, <2>3, <2>4, <2>5 DEF Save
  <1>4. ASSUME NEW u \in Threads, Request(u) PROVE [Promised!Next]_(Promised!vars)
    <2>1. CASE Answer(u)
      BY <2>1, AnswerPromises DEF Promised!Next
    <2>2. CASE Read(u) \/ Update(u) \/ Reject(u) \/ Notify(u) \/ ListenerFails(u)
      BY <2>2, Stutters DEF Read, Update, Reject, Notify, ListenerFails, disk
    <2> QED BY <1>4, <2>1, <2>2 DEF Request
  <1>5. CASE Kill
    <2>1. server' = "down" /\ UNCHANGED <<file, durable, promised>>
      BY <1>5 DEF Kill, Down, disk
    <2> QED BY <2>1 DEF Promised!Next, Promised!Stop
  <1>6. CASE PowerLoss
    <2>1. /\ server' = "down" /\ file' \in {file, durable} /\ durable' = file'
          /\ promised' = promised
      BY <1>6 DEF PowerLoss, Down, Inv, SaveInv
    <2> QED BY <2>1 DEF Promised!Next, Promised!PowerLoss
  <1>7. CASE Flush
    BY <1>7, SyncDirSecures DEF Promised!Next
  <1>8. CASE UNCHANGED vars
    BY <1>8, Stutters DEF vars, disk
  <1> QED BY <1>1, <1>2, <1>3, <1>4, <1>5, <1>6, <1>7, <1>8 DEF Next

\* The settings store implements a register that outlives the server: what an
\* update brings into force is safe on the disk before, what is promised is safe
\* and never taken back, and a start takes what it finds, for any number of
\* concurrent updates, failed saves, kills and power losses (_save, update,
\* _load_or_bootstrap).
THEOREM Implements == Spec => RegisterSpec
  <1>1. Init => Promised!Init
    BY RegisterContents DEF Init, Promised!Init
  <1>2. Inv /\ [Next]_vars => [Promised!Next]_(Promised!vars)
    BY NextRegisters
  <1> QED BY <1>1, <1>2, Invariance, PTL DEF Spec, RegisterSpec, Promised!Spec

=============================================================================
