--------------------------- MODULE SyncRun_proofs ---------------------------
(***************************************************************************)
(* Proofs about SyncRun, for every dashcam, archive, size and bound.        *)
(*                                                                         *)
(* The argument: Inv is inductive.  It adds to the safety properties what   *)
(* the download loop has in hand (LoopInv: a recent recording of this run's *)
(* listing, a file not yet installed), how the open partial relates to its  *)
(* transfer (TransferInv: it is as long as what was delivered, and what it  *)
(* is measured against is the size of the file) and what retention left     *)
(* (RetentionInv).  InitInv, the lemmas per action and NextInv show that it *)
(* is inductive; the theorems that follow come from it.  CountInv (the      *)
(* counts of the job against what the loop has left) and CoolingInv (the    *)
(* markers against the window of retry_failed_after) rest on Inv and are    *)
(* proved after it, each for the property it carries.                       *)
(***************************************************************************)
EXTENDS SyncRun, FiniteSetTheorems, TLAPS

-----------------------------------------------------------------------------
(* The inductive invariant behind the safety properties.                    *)

\* The places of download_file once its checks have passed.
InHand == {"again", "request", "mark", "write", "stream", "close"}

\* What the loop has in hand comes from the current, hence recent, listing.
LoopInv ==
    /\ todo \subseteq current
    /\ \A r \in current : DayOf[ShotOf[r]] >= cutoff
    /\ pc \in {"file"} \cup InHand => rec \in current
    /\ pc \in InHand =>
          step <= Len(Artifacts) /\ Cur \notin DOMAIN final /\ ~opt.dry
    /\ pc \in {"idle", "prepare"} => current = {}
    /\ ~Downloading => todo = {}

\* An open partial is as long as what its body has delivered, and the size it
\* is measured against is the right one.
TransferInv ==
    /\ pc = "request" => offset = ResumeOffset(Cur)
    /\ pc = "write" => Cur \in marker
    /\ pc \in {"stream", "close"} => Cur \in DOMAIN partial
    /\ pc = "stream" => wire = Len(partial[Cur]) /\ offset <= wire
    /\ ServerSendsLength /\ pc \in {"stream", "close"} => expected = Size

\* What retention removed stays away as long as the run may install files.
RetentionInv ==
    pc \in {"list", "prune", "next", "file"} \cup InHand /\ ~opt.dry =>
       \A f \in DOMAIN final : Day[f] >= cutoff

Inv ==
    /\ TypeOK
    /\ \A f \in DOMAIN final : final[f] \in Contents
    /\ FinalIsWhole
    /\ PartialIsPrefix
    /\ NoOrphans
    /\ LoopInv
    /\ TransferInv
    /\ RetentionInv

\* What the counts rest on: they start from zero, a job that counts has no
\* outcome yet, a recording is in hand only inside the loop over its artifacts,
\* and what is being downloaded is not an artifact that is left out.
CountInv ==
    /\ pc \in {"prepare", "list", "prune"} => completed = 0 /\ failed = 0
    /\ pc \notin {"idle", "clean"} => outcome = "none"
    /\ pc \notin {"file"} \cup InHand => rec = NoRecording
    /\ pc \in InHand => Artifacts[step] \notin opt.skip
    /\ CountersAgree

\* A file in its window has a marker that says so, unless that was swept; and
\* the file in hand is not in its window, unless its marker was swept.
CoolingInv ==
    /\ cooling \subseteq recent \cup swept
    /\ pc \in InHand \ {"again"} => Cur \notin cooling \ swept

-----------------------------------------------------------------------------
(* The invariant is inductive.                                             *)

\* The first n blocks of a file, as a sequence.
LEMMA PrefixType ==
    ASSUME NEW n \in 0..Size
    PROVE  /\ Prefix(n) \in Seq(1..Size)
           /\ Len(Prefix(n)) = n
           /\ Prefix(n) \in Contents
  <1>1. Size \in Nat
    BY ConstantsAssumption
  <1>2. Prefix(n) \in [1..n -> 1..Size]
    BY <1>1 DEF Prefix
  <1>3. Prefix(n) \in Seq(1..Size)
    BY <1>1, <1>2
  <1>4. Len(Prefix(n)) = n
    BY <1>1, <1>2
  <1>5. QED
    BY <1>3, <1>4 DEF Contents

\* Writing the block that follows the first n gives the first n + 1.
LEMMA PrefixGrows ==
    ASSUME NEW n \in 0..(Size - 1)
    PROVE  Append(Prefix(n), Source[n + 1]) = Prefix(n + 1)
  <1>1. Size \in Nat /\ n + 1 \in 1..Size /\ n \in Nat
    BY ConstantsAssumption
  <1>2. Source[n + 1] = n + 1
    BY <1>1 DEF Source, Prefix
  <1>3. Prefix(n) \in Seq(Nat) /\ Len(Prefix(n)) = n
    BY <1>1 DEF Prefix
  <1>4. Append(Prefix(n), n + 1) = [i \in 1..(n + 1) |-> IF i = n + 1 THEN n + 1
     ELSE Prefix(n)[i]]
    BY <1>1, <1>3
  <1>5. QED
    BY <1>1, <1>2, <1>4 DEF Prefix

\* Losing the last of the first n blocks leaves the first n - 1.
LEMMA PrefixShrinks ==
    ASSUME NEW n \in 1..Size
    PROVE  SubSeq(Prefix(n), 1, n - 1) = Prefix(n - 1)
  <1>1. Size \in Nat /\ n \in Nat /\ n - 1 \in Nat
    BY ConstantsAssumption
  <1>2. SubSeq(Prefix(n), 1, n - 1) = [i \in 1..(n - 1) |-> Prefix(n)[i]]
    BY <1>1 DEF Prefix
  <1>3. QED
    BY <1>1, <1>2 DEF Prefix

\* The loop's recording and step name a file of the dashcam.
LEMMA FileInHand ==
    ASSUME NEW r \in Recordings, NEW i \in 1..Len(Artifacts)
    PROVE  /\ FileOf(r, Artifacts[i]) \in Files
           /\ Day[FileOf(r, Artifacts[i])] = DayOf[ShotOf[r]]
           /\ Group[FileOf(r, Artifacts[i])] \in Groups
           /\ \A R \in SUBSET Recordings :
                 r \in R => FileOf(r, Artifacts[i]) \in FilesOf(R)
  <1>1. i \in DOMAIN Artifacts
    BY ConstantsAssumption
  <1>2. FileOf(r, Artifacts[i]) \in Files
    BY <1>1 DEF Files, FilesOf
  <1>3. Shot(FileOf(r, Artifacts[i])) = ShotOf[r]
    BY DEF Shot, FileOf
  <1>4. ShotOf[r] \in Shots
    BY ConstantsAssumption
  <1>5. Day[FileOf(r, Artifacts[i])] = DayOf[ShotOf[r]]
    BY <1>2, <1>3 DEF Day
  <1>6. Group[FileOf(r, Artifacts[i])] \in Groups
    BY <1>2, <1>3, <1>4, ConstantsAssumption DEF Group
  <1>7. \A R \in SUBSET Recordings :
           r \in R => FileOf(r, Artifacts[i]) \in FilesOf(R)
    BY <1>1 DEF FilesOf
  <1>8. QED
    BY <1>2, <1>5, <1>6, <1>7


\* The directory after a name has been given a content.
LEMMA PutFacts ==
    ASSUME NEW d, NEW f, NEW c
    PROVE  /\ DOMAIN Put(d, f, c) = DOMAIN d \cup {f}
           /\ Put(d, f, c)[f] = c
           /\ \A x \in DOMAIN d : x # f => Put(d, f, c)[x] = d[x]
  BY DEF Put

\* The directory after a name has been removed.
LEMMA WithoutFacts ==
    ASSUME NEW d, NEW f
    PROVE  /\ DOMAIN Without(d, f) = DOMAIN d \ {f}
           /\ \A x \in DOMAIN d \ {f} : Without(d, f)[x] = d[x]
  BY DEF Without

\* A content is a sequence of blocks, no longer than the file, and is the whole
\* file when it is as long.
LEMMA ContentsType ==
    \A c \in Contents :
       c \in Seq(1..Size) /\ Len(c) \in 0..Size /\ c = Prefix(Len(c))
  BY PrefixType DEF Contents

\* A file has a day.
LEMMA DayType == cutoff \in Cutoffs => cutoff \in Nat /\ \A f \in Files : Day[f]
   \in Nat
  <1>1. ASSUME NEW f \in Files PROVE Day[f] \in Nat
    <2>1. PICK r \in Recordings, i \in DOMAIN Artifacts : f = FileOf(r,
       Artifacts[i])
      BY DEF Files, FilesOf
    <2>2. i \in 1..Len(Artifacts)
      BY ConstantsAssumption
    <2>3. Day[f] = DayOf[ShotOf[r]]
      BY <2>1, <2>2, FileInHand
    <2>4. QED
      BY <2>3, ConstantsAssumption
  <1>2. QED
    BY <1>1, ConstantsAssumption

\* What download_file knows of the file in hand once it has sent the request.
LEMMA CurFacts ==
    ASSUME Inv, pc \in InHand
    PROVE  /\ rec \in current /\ rec \in Recordings
           /\ step \in 1..Len(Artifacts)
           /\ Cur \in Files /\ Cur \in FilesOf(current)
           /\ Cur \notin DOMAIN final /\ Day[Cur] >= cutoff
           /\ ~opt.dry /\ DOMAIN partial \subseteq FilesOf(current)
  <1>1. rec \in current /\ rec \in Recordings
    BY DEF Inv, LoopInv, TypeOK
  <1>2. step \in 1..Len(Artifacts)
    BY ConstantsAssumption DEF Inv, LoopInv, TypeOK
  <1>3. Cur \in Files /\ Cur \in FilesOf(current) /\ Day[Cur] = DayOf[ShotOf[rec]]
    BY <1>1, <1>2, FileInHand DEF Inv, TypeOK, Cur
  <1>4. QED
    BY <1>1, <1>2, <1>3 DEF Inv, LoopInv, NoOrphans, Orphans, Downloading, InHand

\* The invariant survives a change of the open partial to another prefix.
LEMMA PartialWritten ==
    ASSUME Inv, pc \in InHand,
           NEW n \in 0..Size, partial' = Put(partial, Cur, Prefix(n))
    PROVE  /\ DOMAIN partial' = DOMAIN partial \cup {Cur}
           /\ DOMAIN partial' \subseteq Files
           /\ DOMAIN partial' \subseteq FilesOf(current)
           /\ \A f \in DOMAIN partial' : partial'[f] \in Seq(1..Size)
           /\ PartialIsPrefix'
           /\ Len(partial'[Cur]) = n
  <1>1. /\ DOMAIN partial' = DOMAIN partial \cup {Cur}
        /\ partial'[Cur] = Prefix(n)
        /\ \A x \in DOMAIN partial : x # Cur => partial'[x] = partial[x]
    BY DEF Put
  <1>2. PartialIsPrefix'
    BY <1>1, PrefixType DEF Inv, PartialIsPrefix
  <1>3. \A f \in DOMAIN partial' : partial'[f] \in Seq(1..Size)
    BY <1>2, ContentsType DEF PartialIsPrefix
  <1>4. QED
    BY <1>1, <1>2, <1>3, CurFacts, PrefixType DEF Inv, TypeOK

\* The invariant survives the removal of a partial.
LEMMA PartialRemoved ==
    ASSUME Inv, pc \in InHand, partial' =
       Without(partial, Cur)
    PROVE  /\ DOMAIN partial' = DOMAIN partial \ {Cur}
           /\ DOMAIN partial' \subseteq Files
           /\ DOMAIN partial' \subseteq FilesOf(current)
           /\ \A f \in DOMAIN partial' : partial'[f] \in Seq(1..Size)
           /\ PartialIsPrefix'
  <1>1. /\ DOMAIN partial' = DOMAIN partial \ {Cur}
        /\ \A x \in DOMAIN partial \ {Cur} : partial'[x] = partial[x]
    BY WithoutFacts
  <1>2. PartialIsPrefix'
    BY <1>1 DEF Inv, PartialIsPrefix
  <1>3. QED
    BY <1>1, <1>2, CurFacts DEF Inv, TypeOK

\* An empty destination satisfies the invariant.
LEMMA InitInv == Init => Inv
  <1> SUFFICES ASSUME Init PROVE Inv
    OBVIOUS
  <1>1. DOMAIN final = {} /\ DOMAIN partial = {}
    BY DEF Init, Empty
  <1>2. Len(Artifacts) \in Nat /\ Size \in Nat /\ MaxFaults \in Nat
    BY ConstantsAssumption
  <1>3. 1 \in 1..(Len(Artifacts) + 1) /\ 0 \in 0..Size /\ 0 \in 0..MaxFaults
    BY <1>2
  <1>4. TypeOK
    BY <1>1, <1>3 DEF Init, TypeOK
  <1>5. QED
    BY <1>1, <1>4 DEF Init, Inv, FinalIsWhole, PartialIsPrefix, NoOrphans,
                      LoopInv, TransferInv, RetentionInv, Downloading, InHand

\* DestinationPrepared preserves the invariant.
LEMMA DestinationPreparedInv ==
    ASSUME Inv, DestinationPrepared
    PROVE  Inv'
  <1> USE ConstantsAssumption
      DEF DestinationPrepared, Inv, TypeOK, FinalIsWhole, PartialIsPrefix,
          NoOrphans, LoopInv, TransferInv, RetentionInv, Downloading, InHand,
          Orphans,
          Cur, ResumeOffset, disk, markers, history, job, loop, xfer, counts,
          Fault, NoFault,
          DiskError, NoTransfer, NoLoop, EndFailed, Abort, AbortFile,
          FinishFile, SkipFile, NoTransferNeeded, NextArtifact, InFile,
          EnsureGroup,
          OutdatedFiles, OutdatedMarkers
  <1>10. TypeOK'
    BY DayType
  <1>11. (\A f \in DOMAIN final : final[f] \in Contents)'
    BY DayType
  <1>12. FinalIsWhole'
    BY DayType
  <1>13. PartialIsPrefix'
    BY DayType
  <1>14. NoOrphans'
    BY DayType
  <1>15. LoopInv'
    BY DayType
  <1>16. TransferInv'
    BY DayType
  <1>17. RetentionInv'
    BY DayType
  <1> QED
    BY <1>10, <1>11, <1>12, <1>13, <1>14, <1>15, <1>16, <1>17 DEF Inv

\* ListRecordings preserves the invariant.
LEMMA ListRecordingsInv ==
    ASSUME Inv, ListRecordings
    PROVE  Inv'
  <1> USE ConstantsAssumption
      DEF ListRecordings, Inv, TypeOK, FinalIsWhole, PartialIsPrefix, NoOrphans,
          LoopInv, TransferInv, RetentionInv, Downloading, InHand, Orphans, Cur,
          ResumeOffset, disk, markers, history, job, loop, xfer, counts, Fault,
          NoFault,
          DiskError, NoTransfer, NoLoop, EndFailed, Abort, AbortFile,
          FinishFile, SkipFile, NoTransferNeeded, NextArtifact, InFile,
          EnsureGroup
  <1>1. PICK L \in Listings : current' = {r \in L : DayOf[ShotOf[r]] >= cutoff}
    OBVIOUS
  <1>2. L \subseteq Recordings
    OBVIOUS
  <1>10. TypeOK'
    BY <1>1, <1>2
  <1>11. (\A f \in DOMAIN final : final[f] \in Contents)'
    BY <1>1, <1>2
  <1>12. FinalIsWhole'
    BY <1>1, <1>2
  <1>13. PartialIsPrefix'
    BY <1>1, <1>2
  <1>14. NoOrphans'
    BY <1>1, <1>2
  <1>15. LoopInv'
    BY <1>1, <1>2
  <1>16. TransferInv'
    BY <1>1, <1>2
  <1>17. RetentionInv'
    BY <1>1, <1>2
  <1> QED
    BY <1>10, <1>11, <1>12, <1>13, <1>14, <1>15, <1>16, <1>17 DEF Inv

\* OrphansPruned preserves the invariant.
LEMMA OrphansPrunedInv ==
    ASSUME Inv, OrphansPruned
    PROVE  Inv'
  <1> USE ConstantsAssumption
      DEF OrphansPruned, Inv, TypeOK, FinalIsWhole, PartialIsPrefix, NoOrphans,
          LoopInv, TransferInv, RetentionInv, Downloading, InHand, Orphans, Cur,
          ResumeOffset, disk, markers, history, job, loop, xfer, counts, Fault,
          NoFault,
          DiskError, NoTransfer, NoLoop, EndFailed, Abort, AbortFile,
          FinishFile, SkipFile, NoTransferNeeded, NextArtifact, InFile,
          EnsureGroup
  <1>1. Cardinality(current) \in Nat
    BY FiniteAssumption, FS_Subset, FS_CardinalityType
  <1>2. IsFiniteSet(DOMAIN Artifacts)
    BY FS_Interval
  <1>3. ArtifactsPerRecording \in Nat
    BY <1>2, FS_Subset, FS_CardinalityType DEF ArtifactsPerRecording
  <1>4. total' \in Nat
    BY <1>1, <1>3
  <1>10. TypeOK'
    BY <1>4
  <1>11. (\A f \in DOMAIN final : final[f] \in Contents)'
    BY <1>4
  <1>12. FinalIsWhole'
    BY <1>4
  <1>13. PartialIsPrefix'
    BY <1>4
  <1>14. NoOrphans'
    BY <1>4
  <1>15. LoopInv'
    BY <1>4
  <1>16. TransferInv'
    BY <1>4
  <1>17. RetentionInv'
    BY <1>4
  <1> QED
    BY <1>10, <1>11, <1>12, <1>13, <1>14, <1>15, <1>16, <1>17 DEF Inv

\* AnswerWhole preserves the invariant.
LEMMA AnswerWholeInv ==
    ASSUME Inv, AnswerWhole
    PROVE  Inv'
  <1> USE ConstantsAssumption
      DEF AnswerWhole, Inv, TypeOK, FinalIsWhole, PartialIsPrefix, NoOrphans,
          LoopInv, TransferInv, RetentionInv, Downloading, InHand, Orphans,
          ResumeOffset, disk, markers, history, job, loop, xfer, counts, Fault,
          NoFault,
          DiskError, NoTransfer, NoLoop, EndFailed, Abort, AbortFile,
          FinishFile, SkipFile, NoTransferNeeded, NextArtifact, InFile,
          EnsureGroup, Lengths
  <1>0. Cur' = Cur
    BY DEF Cur
  <1>1. Prefix(0) = <<>>
    BY DEF Prefix
  <1>2. partial' = Put(partial, Cur, Prefix(0))
    BY <1>1
  <1>3. pc \in InHand /\ Size \in Nat /\ 0 \in 0..Size
    OBVIOUS
  <1>4. ServerSendsLength => expected' = Size
    OBVIOUS
  <1>5. /\ pc' = "stream" /\ Cur' \in DOMAIN partial'
        /\ wire' = Len(partial'[Cur']) /\ offset' <= wire'
    BY <1>0, <1>2, <1>3, PartialWritten
  <1>10. TypeOK'
    BY <1>0, <1>1, <1>2, <1>3, CurFacts, PartialWritten
  <1>11. (\A f \in DOMAIN final : final[f] \in Contents)'
    BY <1>0, <1>1, <1>2, <1>3, CurFacts, PartialWritten
  <1>12. FinalIsWhole'
    BY <1>0, <1>1, <1>2, <1>3, CurFacts, PartialWritten
  <1>13. PartialIsPrefix'
    BY <1>0, <1>1, <1>2, <1>3, CurFacts, PartialWritten
  <1>14. NoOrphans'
    BY <1>0, <1>1, <1>2, <1>3, CurFacts, PartialWritten
  <1>15. LoopInv'
    BY <1>0, <1>1, <1>2, <1>3, CurFacts, PartialWritten
  <1>16. TransferInv'
    BY <1>4, <1>5 DEF TransferInv
  <1>17. RetentionInv'
    BY <1>0, <1>1, <1>2, <1>3, CurFacts, PartialWritten
  <1> QED
    BY <1>10, <1>11, <1>12, <1>13, <1>14, <1>15, <1>16, <1>17 DEF Inv

\* AnswerRest preserves the invariant.
LEMMA AnswerRestInv ==
    ASSUME Inv, NEW b \in 0..(Size - 1), NEW start \in {b, NoHeader},
       AnswerRest(b, start)
    PROVE  Inv'
  <1> USE ConstantsAssumption
      DEF AnswerRest, Inv, TypeOK, FinalIsWhole, PartialIsPrefix, NoOrphans,
          LoopInv, TransferInv, RetentionInv, Downloading, InHand, Orphans,
          ResumeOffset, disk, markers, history, job, loop, xfer, counts, Fault,
          NoFault,
          DiskError, NoTransfer, NoLoop, EndFailed, Abort, AbortFile,
          FinishFile, SkipFile, NoTransferNeeded, NextArtifact, InFile,
          EnsureGroup
  <1>0. Cur' = Cur
    BY DEF Cur
  <1>1. Cur \in DOMAIN partial /\ offset = Len(partial[Cur])
    OBVIOUS
  <1>2. offset \in 0..Size /\ Size \in Nat
    BY <1>1, ContentsType
  <1>3. start = offset
    BY DEF ResumeAction
  <1>4. b = offset
    BY <1>2, <1>3 DEF NoHeader
  <1>5. expected' \in Nat /\ (ServerSendsLength => expected' = Size)
    <2>1. PICK tot \in BOOLEAN, len \in Lengths :
             expected' = IF tot THEN Size
                         ELSE offset + IF len THEN Size - b ELSE 0
      OBVIOUS
    <2>2. ServerSendsLength => len
      BY DEF Lengths
    <2>3. offset + (Size - offset) = Size /\ offset + 0 = offset
      BY <1>2
    <2>4. QED
      BY <1>2, <1>4, <2>1, <2>2, <2>3
  <1>6. /\ pc' = "stream" /\ partial' = partial
        /\ wire' = b /\ offset' = offset
    OBVIOUS
  <1>7. /\ Cur' \in DOMAIN partial'
        /\ wire' = Len(partial'[Cur']) /\ offset' <= wire'
    <2> HIDE DEF Inv, AnswerRest, ResumeOffset
    <2>1. QED
      BY <1>0, <1>1, <1>2, <1>4, <1>6
  <1>10. TypeOK'
    BY <1>0, <1>1, <1>2, <1>4, <1>5, CurFacts
  <1>11. (\A f \in DOMAIN final : final[f] \in Contents)'
    BY <1>0, <1>1, <1>2, <1>4, <1>5, CurFacts
  <1>12. FinalIsWhole'
    BY <1>0, <1>1, <1>2, <1>4, <1>5, CurFacts
  <1>13. PartialIsPrefix'
    BY <1>0, <1>1, <1>2, <1>4, <1>5, CurFacts
  <1>14. NoOrphans'
    BY <1>0, <1>1, <1>2, <1>4, <1>5, CurFacts
  <1>15. LoopInv'
    BY <1>0, <1>1, <1>2, <1>4, <1>5, CurFacts
  <1>16. TransferInv'
    BY <1>5, <1>6, <1>7 DEF TransferInv
  <1>17. RetentionInv'
    BY <1>0, <1>1, <1>2, <1>4, <1>5, CurFacts
  <1> QED
    BY <1>10, <1>11, <1>12, <1>13, <1>14, <1>15, <1>16, <1>17 DEF Inv

\* Discarding the partial, or failing to, and asking for the same file again
\* preserves the invariant.
LEMMA RestartInv ==
    ASSUME Inv, pc = "request", NEW fault \in BOOLEAN, Restart(fault)
    PROVE  Inv'
  <1> USE ConstantsAssumption
  <1>1. /\ pc' = "again" /\ offset' = 0 /\ expected' = 0 /\ wire' = 0
        /\ UNCHANGED <<final, marker, recent, dirs, opt, cutoff, current, todo,
                       rec, step, total, completed, failed, outcome, stop,
                       cooling, swept>>
    BY DEF Restart, NoTransfer, markers, history, job, loop, counts
  <1>2. faults' \in 0..MaxFaults
    BY DEF Restart, Fault, NoFault, DiskError, Inv, TypeOK
  <1>3. partial' = Without(partial, Cur) \/ partial' = partial
    BY DEF Restart
  <1>4. /\ DOMAIN partial' \subseteq Files
        /\ DOMAIN partial' \subseteq FilesOf(current)
        /\ \A f \in DOMAIN partial' : partial'[f] \in Seq(1..Size)
        /\ PartialIsPrefix'
    <2>1. CASE partial' = Without(partial, Cur)
      BY <2>1, PartialRemoved DEF InHand
    <2>2. CASE partial' = partial
      BY <2>2, CurFacts DEF Inv, TypeOK, PartialIsPrefix, InHand
    <2> QED BY <1>3, <2>1, <2>2
  <1>5. TypeOK'
    BY <1>1, <1>2, <1>4 DEF Inv, TypeOK
  <1>6. (\A f \in DOMAIN final : final[f] \in Contents)' /\ FinalIsWhole'
    BY <1>1 DEF Inv, FinalIsWhole
  <1>7. NoOrphans'
    BY <1>1, <1>4 DEF NoOrphans, Orphans
  <1>8. LoopInv'
    <2>1. /\ rec \in current /\ step <= Len(Artifacts)
          /\ Cur \notin DOMAIN final /\ ~opt.dry
      BY CurFacts DEF InHand, Inv, LoopInv
    <2>2. Cur' = Cur
      BY <1>1 DEF Cur
    <2> QED BY <1>1, <2>1, <2>2 DEF Inv, LoopInv, Downloading, InHand
  <1>9. TransferInv' /\ RetentionInv'
    BY <1>1 DEF Inv, TransferInv, RetentionInv, InHand
  <1> QED BY <1>4, <1>5, <1>6, <1>7, <1>8, <1>9 DEF Inv

\* AnswerWrongRange preserves the invariant.
LEMMA AnswerWrongRangeInv ==
    ASSUME Inv, NEW b \in 0..(Size - 1), NEW start \in {b, NoHeader},
           AnswerWrongRange(b, start)
    PROVE  Inv'
  BY RestartInv DEF AnswerWrongRange

\* AnswerUnsatisfiable preserves the invariant.
LEMMA AnswerUnsatisfiableInv ==
    ASSUME Inv, AnswerUnsatisfiable
    PROVE  Inv'
  <1> (offset < Size) \in BOOLEAN
    OBVIOUS
  <1> QED BY RestartInv DEF AnswerUnsatisfiable

\* WriteChunk preserves the invariant.
LEMMA WriteChunkInv ==
    ASSUME Inv, WriteChunk
    PROVE  Inv'
  <1> USE ConstantsAssumption
      DEF WriteChunk, Inv, TypeOK, FinalIsWhole, PartialIsPrefix, NoOrphans,
          LoopInv, TransferInv, RetentionInv, Downloading, InHand, Orphans,
          ResumeOffset, disk, markers, history, job, loop, xfer, counts, Fault,
          NoFault,
          DiskError, NoTransfer, NoLoop, EndFailed, Abort, AbortFile,
          FinishFile, SkipFile, NoTransferNeeded, NextArtifact, InFile,
          EnsureGroup
  <1>0. Cur' = Cur
    BY DEF Cur
  <1>1. Cur \in DOMAIN partial /\ wire = Len(partial[Cur]) /\ wire \in 0..(Size
     - 1) /\ Size \in Nat
    OBVIOUS
  <1>2. partial[Cur] = Prefix(wire)
    BY <1>1, ContentsType
  <1>3. partial' = Put(partial, Cur, Prefix(wire + 1)) /\ wire + 1 \in 0..Size
    <2>1. Append(partial[Cur], Source[wire + 1]) = Prefix(wire + 1)
      BY <1>1, <1>2, PrefixGrows
    <2>2. QED
      BY <1>1, <2>1
  <1>10. TypeOK'
    BY <1>0, <1>1, <1>3, CurFacts, PartialWritten
  <1>11. (\A f \in DOMAIN final : final[f] \in Contents)'
    BY <1>0, <1>1, <1>3, CurFacts, PartialWritten
  <1>12. FinalIsWhole'
    BY <1>0, <1>1, <1>3, CurFacts, PartialWritten
  <1>13. PartialIsPrefix'
    BY <1>0, <1>1, <1>3, CurFacts, PartialWritten
  <1>14. NoOrphans'
    BY <1>0, <1>1, <1>3, CurFacts, PartialWritten
  <1>15. LoopInv'
    BY <1>0, <1>1, <1>3, CurFacts, PartialWritten
  <1>16. TransferInv'
    BY <1>0, <1>1, <1>3, CurFacts, PartialWritten
  <1>17. RetentionInv'
    BY <1>0, <1>1, <1>3, CurFacts, PartialWritten
  <1> QED
    BY <1>10, <1>11, <1>12, <1>13, <1>14, <1>15, <1>16, <1>17 DEF Inv

\* Install preserves the invariant.
LEMMA InstallInv ==
    ASSUME Inv, Install
    PROVE  Inv'
  <1> USE ConstantsAssumption
      DEF Install, Inv, TypeOK, FinalIsWhole, PartialIsPrefix, NoOrphans,
          LoopInv, TransferInv, RetentionInv, Downloading, InHand, Orphans,
          ResumeOffset, disk, markers, history, job, loop, xfer, counts, Fault,
          NoFault,
          DiskError, NoTransfer, NoLoop, EndFailed, Abort, AbortFile,
          FinishFile, SkipFile, NoTransferNeeded, NextArtifact, InFile,
          EnsureGroup
  <1>1. Cur \in DOMAIN partial /\ partial[Cur] \in Contents /\ pc = "close"
    OBVIOUS
  <1>2. ServerSendsLength => partial[Cur] = Source
    BY <1>1, ContentsType DEF Truncation, Source
  <1>3. /\ DOMAIN final' = DOMAIN final \cup {Cur}
        /\ final'[Cur] = partial[Cur]
        /\ \A x \in DOMAIN final : x # Cur => final'[x] = final[x]
    BY DEF Put, Install
  <1>10. TypeOK'
    BY <1>1, <1>2, <1>3, CurFacts, ContentsType, PartialRemoved
  <1>11. (\A f \in DOMAIN final : final[f] \in Contents)'
    BY <1>1, <1>2, <1>3, CurFacts, ContentsType, PartialRemoved
  <1>12. FinalIsWhole'
    BY <1>1, <1>2, <1>3, CurFacts, ContentsType, PartialRemoved
  <1>13. PartialIsPrefix'
    BY <1>1, <1>2, <1>3, CurFacts, ContentsType, PartialRemoved
  <1>14. NoOrphans'
    BY <1>1, <1>2, <1>3, CurFacts, ContentsType, PartialRemoved
  <1>15. LoopInv'
    BY <1>1, <1>2, <1>3, CurFacts, ContentsType, PartialRemoved
  <1>16. TransferInv'
    BY <1>1, <1>2, <1>3, CurFacts, ContentsType, PartialRemoved
  <1>17. RetentionInv'
    BY <1>1, <1>2, <1>3, CurFacts, ContentsType, PartialRemoved
  <1> QED
    BY <1>10, <1>11, <1>12, <1>13, <1>14, <1>15, <1>16, <1>17 DEF Inv

\* RunOver preserves the invariant.
LEMMA RunOverInv ==
    ASSUME Inv, RunOver
    PROVE  Inv'
  <1> USE ConstantsAssumption
      DEF RunOver, Inv, TypeOK, FinalIsWhole, PartialIsPrefix, NoOrphans,
          LoopInv, TransferInv, RetentionInv, Downloading, InHand, Orphans,
          ResumeOffset, disk, markers, history, job, loop, xfer, counts, Fault,
          NoFault,
          DiskError, NoTransfer, NoLoop, EndFailed, Abort, AbortFile,
          FinishFile, SkipFile, NoTransferNeeded, NextArtifact, InFile,
          EnsureGroup
  <1>10. TypeOK'
    BY TRUE
  <1>11. (\A f \in DOMAIN final : final[f] \in Contents)'
    BY TRUE
  <1>12. FinalIsWhole'
    BY TRUE
  <1>13. PartialIsPrefix'
    BY TRUE
  <1>14. NoOrphans'
    BY TRUE
  <1>15. LoopInv'
    BY TRUE
  <1>16. TransferInv'
    BY TRUE
  <1>17. RetentionInv'
    BY TRUE
  <1> QED
    BY <1>10, <1>11, <1>12, <1>13, <1>14, <1>15, <1>16, <1>17 DEF Inv

\* Kill preserves the invariant.
LEMMA KillInv ==
    ASSUME Inv, Kill
    PROVE  Inv'
  <1>1. /\ PartialIsPrefix'
        /\ DOMAIN partial' = DOMAIN partial
        /\ \A f \in DOMAIN partial' : partial'[f] \in Seq(1..Size)
    <2>1. CASE UNCHANGED partial
      BY <2>1 DEF Inv, TypeOK, PartialIsPrefix
    <2>2. CASE ~ UNCHANGED partial
      <3>1. /\ pc = "stream" /\ wire > offset
            /\ partial' = Put(partial, Cur,
                              SubSeq(partial[Cur], 1, Len(partial[Cur]) - 1))
        BY <2>2 DEF Kill
      <3>2. Cur \in DOMAIN partial /\ wire = Len(partial[Cur])
        BY <3>1 DEF Inv, TransferInv
      <3>3. partial[Cur] \in Contents
        BY <3>2 DEF Inv, PartialIsPrefix
      <3>4. PICK n \in 1..Size : n = Len(partial[Cur]) /\ partial[Cur] = Prefix(n)
        BY <3>1, <3>2, <3>3, ContentsType DEF Inv, TypeOK
      <3>5. SubSeq(partial[Cur], 1, n - 1) = Prefix(n - 1)
        BY <3>4, PrefixShrinks
      <3>6. partial' = Put(partial, Cur, Prefix(n - 1))
        BY <3>1, <3>4, <3>5
      <3>7. n - 1 \in 0..Size
        BY ConstantsAssumption
      <3>8. QED
        BY <3>1, <3>2, <3>6, <3>7, PartialWritten DEF InHand
    <2>3. QED
      BY <2>1, <2>2
  <1>2. TypeOK'
    <2>1. faults' \in 0..MaxFaults
      BY ConstantsAssumption DEF Kill, Fault, Inv, TypeOK
    <2>2. 1 \in 1..(Len(Artifacts) + 1) /\ 0 \in 0..Size
      BY ConstantsAssumption
    <2>3. DOMAIN partial' \subseteq Files
      BY <1>1 DEF Inv, TypeOK
    <2>4. QED
      BY <1>1, <2>1, <2>2, <2>3 DEF Kill, Inv, TypeOK, NoLoop, NoTransfer,
          markers, history
  <1>3. QED
    BY <1>1, <1>2
    DEF Kill, Inv, FinalIsWhole, NoOrphans, LoopInv, TransferInv, RetentionInv,
        Downloading, InHand, NoLoop

\* The beginning of a run preserves the invariant.
LEMMA StartInv ==
    ASSUME Inv, Start
    PROVE  Inv'
  <1>1. TypeOK'
    BY DEF Start, disk, markers, history, loop, xfer, NoFault, Inv, TypeOK
  <1>2. QED
    BY <1>1 DEF Start, disk, markers, history, loop, xfer, NoFault, Inv,
        FinalIsWhole,
                PartialIsPrefix, NoOrphans, LoopInv, TransferInv, RetentionInv,
                Downloading, InHand

\* Retention, listing and pruning preserve the invariant.
LEMMA PrepareInv ==
    ASSUME Inv, Prepare
    PROVE  Inv'
  <1> USE ConstantsAssumption, FileInHand
      DEF Inv, TypeOK, FinalIsWhole, PartialIsPrefix, NoOrphans, LoopInv,
          TransferInv, RetentionInv, Downloading, InHand, Orphans,
          ResumeOffset, disk, markers, history,
          job, loop, xfer, counts, Fault, NoFault, DiskError, NoTransfer,
          NoLoop, EndFailed, Abort, AbortFile, FinishFile, SkipFile,
          NoTransferNeeded,
          NextArtifact, InFile, EnsureGroup, Cur
  <1>1. ASSUME NEW f \in Files, RemoveOutdatedFile(f) PROVE Inv'
    BY <1>1 DEF RemoveOutdatedFile, OutdatedFiles, Without
  <1>2. ASSUME NEW f \in Files, RemoveOutdatedMarker(f) PROVE Inv'
    BY <1>2 DEF RemoveOutdatedMarker, OutdatedMarkers, Unmark, Forget
  <1>3. ASSUME ListingFails PROVE Inv'
    BY <1>3 DEF ListingFails
  <1>4. ASSUME NEW f \in Files, PruneOrphan(f) PROVE Inv'
    BY <1>4 DEF PruneOrphan, Without
  <1>5. ASSUME RemovalFails PROVE Inv'
    BY <1>5 DEF RemovalFails
  <1>6. QED
    BY <1>1, <1>2, <1>3, <1>4, <1>5, DestinationPreparedInv, ListRecordingsInv,
       OrphansPrunedInv DEF Prepare

\* The steps of the loop up to a request preserve the invariant.
LEMMA DownloadInv ==
    ASSUME Inv, Download
    PROVE  Inv'
  <1> USE ConstantsAssumption, FileInHand
      DEF Inv, TypeOK, FinalIsWhole, PartialIsPrefix, NoOrphans, LoopInv,
          TransferInv, RetentionInv, Downloading, InHand, Orphans,
          ResumeOffset, disk, markers, history,
          job, loop, xfer, counts, Fault, NoFault, DiskError, NoTransfer,
          NoLoop, EndFailed, Abort, AbortFile, FinishFile, SkipFile,
          NextArtifact, InFile, EnsureGroup, Cur
  <1>0. ASSUME NoTransferNeeded PROVE {total', completed', failed'} \subseteq Nat
                                      /\ outcome' = outcome
    BY <1>0 DEF NoTransferNeeded
  <1>1. ASSUME NEW r \in Recordings, NextRecording(r) PROVE Inv'
    BY <1>1 DEF NextRecording
  <1>2. ASSUME DiskTooFull PROVE Inv'
    BY <1>2 DEF DiskTooFull
  <1>3. ASSUME RecordingDone PROVE Inv'
    BY <1>3 DEF RecordingDone
  <1>4. ASSUME AllDone PROVE Inv'
    BY <1>4 DEF AllDone
  <1>5. ASSUME SkipMetadata PROVE Inv'
    BY <1>5 DEF SkipMetadata
  <1>6. ASSUME GroupDirFails PROVE Inv'
    BY <1>6 DEF GroupDirFails
  <1>7. ASSUME AlreadyDownloaded PROVE Inv'
    BY <1>7, <1>0 DEF AlreadyDownloaded
  <1>8. ASSUME DryRunFile PROVE Inv'
    BY <1>8 DEF DryRunFile
  <1>9. ASSUME RecentlyFailed PROVE Inv'
    BY <1>9, <1>0 DEF RecentlyFailed
  <1>10. ASSUME SendRequest PROVE Inv'
    <2>1. /\ pc \in {"file", "again"} /\ pc' = "request"
          /\ ~opt.dry /\ Cur \notin DOMAIN final
          /\ rec # NoRecording /\ step <= Len(Artifacts)
          /\ offset' = ResumeOffset(Cur)
          /\ dirs' = IF Grouped THEN dirs \cup {Group[Cur]} ELSE dirs
          /\ UNCHANGED <<final, partial, opt, cutoff, current, todo, rec, step,
                         expected, wire, total, completed, failed, outcome,
                         stop, cooling>>
      BY <1>10 DEF SendRequest
    <2>2. /\ marker' \subseteq marker /\ recent' \subseteq marker'
          /\ swept' \subseteq cooling /\ faults' \in 0..MaxFaults
      BY <1>10 DEF SendRequest, RemoveDownloadFailedMarker, Unmark, Forget
    <2> QED BY <2>1, <2>2
  <1>11. QED
    BY <1>1, <1>2, <1>3, <1>4, <1>5, <1>6, <1>7, <1>8, <1>9, <1>10 DEF Download

\* Failed answers, transfers and renames preserve the invariant.
LEMMA FailureInv ==
    ASSUME Inv,
           \/ AnswerHttpError \/ OpenMarker \/ WriteMarker \/ MarkFails
           \/ ConnectionFails \/ TransferFails \/ StopSeen
           \/ EndOfBody \/ Truncated \/ RenameFails
    PROVE  Inv'
  <1> USE ConstantsAssumption, FileInHand
      DEF Inv, TypeOK, FinalIsWhole, PartialIsPrefix, NoOrphans, LoopInv,
          TransferInv, RetentionInv, Downloading, InHand, Orphans,
          ResumeOffset, disk, markers, history,
          job, loop, xfer, counts, Fault, NoFault, DiskError, NoTransfer,
          NoLoop, EndFailed, Abort, AbortFile, FinishFile, SkipFile,
          NoTransferNeeded,
          NextArtifact, InFile, EnsureGroup, Cur
  <1>1. ASSUME AnswerHttpError PROVE Inv'
    BY <1>1 DEF AnswerHttpError
  <1>2. ASSUME ConnectionFails PROVE Inv'
    BY <1>2 DEF ConnectionFails
  <1>3. ASSUME TransferFails PROVE Inv'
    BY <1>3 DEF TransferFails
  <1>4. ASSUME StopSeen PROVE Inv'
    BY <1>4 DEF StopSeen
  <1>5. ASSUME EndOfBody PROVE Inv'
    BY <1>5 DEF EndOfBody
  <1>6. ASSUME Truncated PROVE Inv'
    BY <1>6 DEF Truncated
  <1>7. ASSUME RenameFails PROVE Inv'
    BY <1>7 DEF RenameFails
  <1>8. ASSUME OpenMarker PROVE Inv'
    BY <1>8, CurFacts DEF OpenMarker
  <1>9. ASSUME WriteMarker PROVE Inv'
    BY <1>9, CurFacts DEF WriteMarker
  <1>10. ASSUME MarkFails PROVE Inv'
    BY <1>10 DEF MarkFails
  <1>11. QED
    BY <1>1, <1>2, <1>3, <1>4, <1>5, <1>6, <1>7, <1>8, <1>9, <1>10

\* Answers, chunks and the end of a file preserve the invariant.
LEMMA TransferStepInv ==
    ASSUME Inv, Transfer
    PROVE  Inv'
  <1>1. ASSUME NEW b \in 0..(Size - 1), NEW start \in {b, NoHeader},
               AnswerRest(b, start) \/ AnswerWrongRange(b, start)
        PROVE  Inv'
    BY <1>1, AnswerRestInv, AnswerWrongRangeInv
  <1>2. QED
    BY <1>1, FailureInv, AnswerWholeInv, AnswerUnsatisfiableInv, WriteChunkInv,
       InstallInv DEF Transfer

\* Cleaning preserves the invariant.
LEMMA CleanInv ==
    ASSUME Inv, Clean
    PROVE  Inv'
  <1> USE ConstantsAssumption, FileInHand
      DEF Inv, TypeOK, FinalIsWhole, PartialIsPrefix, NoOrphans, LoopInv,
          TransferInv, RetentionInv, Downloading, InHand, Orphans,
          ResumeOffset, disk, markers, history,
          job, loop, xfer, counts, Fault, NoFault, DiskError, NoTransfer,
          NoLoop, EndFailed, Abort, AbortFile, FinishFile, SkipFile,
          NoTransferNeeded,
          NextArtifact, InFile, EnsureGroup, Cur
  <1>1. ASSUME NEW f \in Files, CleanFile(f) PROVE Inv'
    BY <1>1 DEF CleanFile, Without
  <1>2. ASSUME NEW f \in Files, CleanMarker(f) PROVE Inv'
    BY <1>2 DEF CleanMarker, Unmark, Forget
  <1>3. ASSUME NEW g \in Groups, CleanDir(g) PROVE Inv'
    BY <1>3 DEF CleanDir
  <1>4. QED
    BY <1>1, <1>2, <1>3, RunOverInv DEF Clean

\* Stops, kills and the passage of time preserve the invariant.
LEMMA WorldInv ==
    ASSUME Inv, World
    PROVE  Inv'
  <1> USE ConstantsAssumption, FileInHand
      DEF Inv, TypeOK, FinalIsWhole, PartialIsPrefix, NoOrphans, LoopInv,
          TransferInv, RetentionInv, Downloading, InHand, Orphans,
          ResumeOffset, disk, markers, history,
          job, loop, xfer, counts, Fault, NoFault, DiskError, NoTransfer,
          NoLoop, EndFailed, Abort, AbortFile, FinishFile, SkipFile,
          NoTransferNeeded,
          NextArtifact, InFile, EnsureGroup, Cur
  <1>1. ASSUME RequestStop PROVE Inv'
    BY <1>1 DEF RequestStop
  <1>2. ASSUME NEW f \in Files, WindowPasses(f) PROVE Inv'
    BY <1>2 DEF WindowPasses
  <1>3. QED
    BY <1>1, <1>2, KillInv DEF World

\* Every step preserves the invariant.
LEMMA NextInv ==
    ASSUME Inv, [Next]_vars
    PROVE  Inv'
  <1>1. CASE Start
    BY <1>1, StartInv
  <1>2. CASE Run
    BY <1>2, PrepareInv, DownloadInv, TransferStepInv, CleanInv DEF Run
  <1>3. CASE World
    BY <1>3, WorldInv
  <1>4. CASE UNCHANGED vars
    BY <1>4 DEF vars, disk, markers, history, job, loop, xfer, counts, Inv,
        TypeOK, FinalIsWhole,
                PartialIsPrefix, NoOrphans, LoopInv, TransferInv, RetentionInv,
                Downloading, InHand, Orphans, ResumeOffset, Cur
  <1>5. QED
    BY <1>1, <1>2, <1>3, <1>4 DEF Next

\* The inductive invariant holds throughout every behaviour of the sync engine
\* (sync.py), whatever the dashcam answers and wherever the process is killed.
THEOREM Invariance == Spec => []Inv
  BY InitInv, NextInv, PTL DEF Spec

\* Type correctness of the sync engine's state.
THEOREM TypeCorrect == Spec => []TypeOK
  <1>1. Inv => TypeOK
    BY DEF Inv
  <1>2. QED
    BY <1>1, Invariance, PTL

\* Whatever resumes, restarts, truncations, stops and kills a download went
\* through, what is under a final name is the whole file, of a dashcam that tells
\* lengths (_transfer_to_temp, _stream_response, the rename in download_file).
THEOREM Integrity == Spec => []FinalIsWhole
  <1>1. Inv => FinalIsWhole
    BY DEF Inv
  <1>2. QED
    BY <1>1, Invariance, PTL

\* At any time, in the middle of a run or after it was killed, a partial is a
\* beginning of the file, that a later run may resume (_resume_offset).
THEOREM Resumable == Spec => []PartialIsPrefix
  <1>1. Inv => PartialIsPrefix
    BY DEF Inv
  <1>2. QED
    BY <1>1, Invariance, PTL

\* While a run downloads there are no unexpected partials and nothing older
\* than the retention limit (prepare_destination, prune_orphan_partials).
THEOREM CleanArchive == Spec => [](NoOrphans /\ RetentionHolds)
  <1>1. Inv => NoOrphans /\ RetentionHolds
    BY DEF Inv, RetentionInv, RetentionHolds, Downloading, InHand
  <1>2. QED
    BY <1>1, Invariance, PTL

\* Every step of a run is a step of the archive or leaves the archive alone.
LEMMA StepImplements ==
    ASSUME Inv, [Next]_vars
    PROVE  [Promise!Next]_(Promise!vars)
  <1>1. ASSUME NEW f \in Files, RemoveOutdatedFile(f) PROVE Promise!Expire(f)
    BY <1>1 DEF RemoveOutdatedFile, OutdatedFiles, Without, Promise!Expire, job
  <1>2. ASSUME NEW f \in Files, CleanFile(f) PROVE Promise!Discard(f)
    BY <1>2 DEF CleanFile, Emptied, HoldsVideo, Without, Promise!Discard, job
  <1>3. ASSUME Install PROVE Cur \in Files /\ Promise!Store(Cur)
    <2>1. pc = "close"
      BY <1>3 DEF Install
    <2>2. Cur \in Files /\ Cur \notin DOMAIN final /\ Day[Cur] >= cutoff
      BY <2>1, CurFacts DEF InHand
    <2>3. Cur \in DOMAIN partial /\ partial[Cur] \in Contents
      BY <2>1 DEF Inv, TransferInv, PartialIsPrefix
    <2>4. ServerSendsLength => partial[Cur] = Source
      BY <1>3, <2>1, <2>3, ContentsType
      DEF Install, Truncation, ResumeOffset, Inv, TransferInv, Source
    <2>5. partial[Cur] \in IF ServerSendsLength THEN {Source} ELSE Contents
      BY <2>3, <2>4
    <2>6. QED
      BY <1>3, <2>2, <2>5 DEF Install, Promise!Store, Put, job
  <1>4. ASSUME Start PROVE Promise!SetLimit
    BY <1>4 DEF Start, disk, markers, history, Promise!SetLimit
  <1>5. ASSUME Prepare, ~ \E f \in Files : RemoveOutdatedFile(f)
        PROVE  UNCHANGED <<final, cutoff>>
    BY <1>5 DEF Prepare, RemoveOutdatedMarker, DestinationPrepared,
       ListRecordings,
                ListingFails, PruneOrphan, OrphansPruned, RemovalFails, disk,
                markers, history, job
  <1>6. ASSUME Download
        PROVE  UNCHANGED <<final, cutoff>>
    BY <1>6 DEF Download, NextRecording, DiskTooFull, RecordingDone, AllDone,
                SkipMetadata, GroupDirFails, AlreadyDownloaded, DryRunFile,
                RecentlyFailed, SendRequest, disk, markers, history, job
  <1>7. ASSUME Transfer, ~Install
        PROVE  UNCHANGED <<final, cutoff>>
    BY <1>7 DEF Transfer, AnswerWhole, AnswerRest, AnswerWrongRange, Restart,
                AnswerUnsatisfiable, AnswerHttpError, OpenMarker, WriteMarker,
         MarkFails, ConnectionFails,
                TransferFails, WriteChunk, StopSeen, EndOfBody, Truncated,
                RenameFails, disk, markers, history, job
  <1>8. ASSUME Clean, ~ \E f \in Files : CleanFile(f)
        PROVE  UNCHANGED <<final, cutoff>>
    BY <1>8 DEF Clean, CleanMarker, CleanDir, RunOver, disk, markers, history, job
  <1>9. ASSUME World \/ UNCHANGED vars
        PROVE  UNCHANGED <<final, cutoff>>
    BY <1>9 DEF World, Kill, RequestStop, WindowPasses, vars, disk, markers,
        history, job
  <1>10. QED
    BY <1>1, <1>2, <1>3, <1>4, <1>5, <1>6, <1>7, <1>8, <1>9
    DEF Next, Run, Promise!Next, Promise!vars

\* The engine, step by step, only ever does to the archive what Archive allows:
\* store a whole, recent, absent file; expire an old one; discard the files of a
\* group directory that holds no video (sync, prepare_destination,
\* clean_destination).
THEOREM Implements == Spec => ArchiveSpec
  <1>1. Init => Promise!Init
    BY DEF Init, Promise!Init, Empty
  <1>2. QED
    BY <1>1, StepImplements, Invariance, PTL DEF Spec, ArchiveSpec, Promise!Spec

-----------------------------------------------------------------------------
(* The counts.  Left(i) loses one artifact a step; todo one recording.      *)

\* The artifacts left of a recording: all at the beginning, one less after
\* each that is not left out, none at the end.
LEMMA LeftFacts ==
    /\ Left(1) = {i \in DOMAIN Artifacts : Artifacts[i] \notin opt.skip}
    /\ \A i \in Nat : IsFiniteSet(Left(i)) /\ Cardinality(Left(i)) \in Nat
    /\ \A i \in 1..Len(Artifacts) :
          Cardinality(Left(i)) = IF Artifacts[i] \in opt.skip
                                 THEN Cardinality(Left(i + 1))
                                 ELSE Cardinality(Left(i + 1)) + 1
    /\ Cardinality(Left(Len(Artifacts) + 1)) = 0
  <1>1. Len(Artifacts) \in Nat /\ DOMAIN Artifacts = 1..Len(Artifacts)
    BY ConstantsAssumption
  <1>2. IsFiniteSet(DOMAIN Artifacts)
    BY <1>1, FS_Interval
  <1>3. ASSUME NEW i \in Nat
        PROVE  IsFiniteSet(Left(i)) /\ Cardinality(Left(i)) \in Nat
    BY <1>2, FS_Subset, FS_CardinalityType DEF Left
  <1>4. ASSUME NEW i \in 1..Len(Artifacts)
        PROVE  Cardinality(Left(i)) = IF Artifacts[i] \in opt.skip
                                      THEN Cardinality(Left(i + 1))
                                      ELSE Cardinality(Left(i + 1)) + 1
    <2>1. CASE Artifacts[i] \in opt.skip
      <3>1. Left(i) = Left(i + 1)
        BY <1>1, <2>1 DEF Left
      <3> QED BY <2>1, <3>1
    <2>2. CASE Artifacts[i] \notin opt.skip
      <3>1. Left(i) = Left(i + 1) \cup {i} /\ i \notin Left(i + 1)
        BY <1>1, <2>2 DEF Left
      <3>2. IsFiniteSet(Left(i + 1))
        BY <1>1, <1>3
      <3>3. Cardinality(Left(i)) = Cardinality(Left(i + 1)) + 1
        BY <3>1, <3>2, FS_AddElement
      <3> QED BY <2>2, <3>3
    <2> QED BY <2>1, <2>2
  <1>5. Left(Len(Artifacts) + 1) = {}
    BY <1>1 DEF Left
  <1>6. Left(1) = {i \in DOMAIN Artifacts : Artifacts[i] \notin opt.skip}
    BY <1>1 DEF Left
  <1> QED BY <1>3, <1>4, <1>5, <1>6, FS_EmptySet

\* The recordings still to be taken are finitely many.
LEMMA TodoFacts ==
    ASSUME NEW R \in SUBSET Recordings
    PROVE  /\ Cardinality(R) \in Nat
           /\ \A r \in R : Cardinality(R \ {r}) = Cardinality(R) - 1
  <1>1. IsFiniteSet(R)
    BY FiniteAssumption, FS_Subset
  <1> QED BY <1>1, FS_CardinalityType, FS_RemoveElement

\* What is left when a recording is in hand, and when none is.
LEMMA RemainingFacts ==
    ASSUME Inv
    PROVE  /\ ArtifactsPerRecording = Cardinality(Left(1))
           /\ ArtifactsPerRecording \in Nat /\ Cardinality(todo) \in Nat
           /\ rec = NoRecording =>
                 Remaining = Cardinality(todo) * ArtifactsPerRecording
           /\ rec # NoRecording =>
                 Remaining = Cardinality(todo) * ArtifactsPerRecording
                               + Cardinality(Left(step))
           /\ Cardinality(Left(step)) \in Nat
           /\ Cardinality(todo) * ArtifactsPerRecording \in Nat
  <1>1. todo \subseteq Recordings /\ step \in Nat /\ 1 \in Nat
    BY ConstantsAssumption DEF Inv, TypeOK
  <1>2. ArtifactsPerRecording = Cardinality(Left(1))
    BY LeftFacts DEF ArtifactsPerRecording
  <1>3. ArtifactsPerRecording \in Nat /\ Cardinality(Left(step)) \in Nat
    BY <1>1, <1>2, LeftFacts
  <1>4. Cardinality(todo) \in Nat
    BY <1>1, TodoFacts
  <1>5. Cardinality(todo) * ArtifactsPerRecording \in Nat
    BY <1>3, <1>4
  <1> QED BY <1>2, <1>3, <1>4, <1>5 DEF Remaining

\* One file less to come is one more counted, or one less in the total.
LEMMA Tally ==
    ASSUME total \in Nat, completed \in Nat, failed \in Nat,
           NEW r \in Nat, total = completed + failed + (r + 1),
           \/ completed' = completed + 1 /\ failed' = failed /\ total' = total
           \/ completed' = completed /\ failed' = failed + 1 /\ total' = total
           \/ /\ completed' = completed /\ failed' = failed
              /\ total > 0 => total' = total - 1
    PROVE  total' = completed' + failed' + r
  OBVIOUS

\* An artifact is accounted for: counted, or taken off the total.
LEMMA OneLess ==
    ASSUME Inv, Inv', CountInv, pc \in {"file"} \cup InHand, pc' = "file",
           step <= Len(Artifacts), step' = step + 1,
           UNCHANGED <<opt, rec, todo, outcome>>,
           Artifacts[step] \in opt.skip =>
               UNCHANGED <<total, completed, failed>>,
           Artifacts[step] \notin opt.skip =>
               \/ completed' = completed + 1 /\ failed' = failed /\ total' = total
               \/ completed' = completed /\ failed' = failed + 1 /\ total' = total
               \/ /\ completed' = completed /\ failed' = failed
                  /\ total > 0 => total' = total - 1
    PROVE  CountInv'
  <1>1. rec # NoRecording /\ rec' # NoRecording
    BY ConstantsAssumption DEF Inv, LoopInv, TypeOK, InHand
  <1>2. /\ step \in 1..Len(Artifacts) /\ step \in Nat /\ step + 1 \in Nat
        /\ total \in Nat /\ completed \in Nat /\ failed \in Nat
        /\ total' \in Nat /\ completed' \in Nat /\ failed' \in Nat
    <2>1. Len(Artifacts) \in Nat
      BY ConstantsAssumption
    <2> QED BY <2>1 DEF Inv, TypeOK
  <1>3. /\ Left(step)' = Left(step + 1)
        /\ ArtifactsPerRecording' = ArtifactsPerRecording
    BY DEF Left, ArtifactsPerRecording
  <1>4. Remaining' = Cardinality(todo) * ArtifactsPerRecording
                        + Cardinality(Left(step + 1))
    BY <1>1, <1>3 DEF Remaining
  <1>5. Remaining = Cardinality(todo) * ArtifactsPerRecording
                        + Cardinality(Left(step))
    BY <1>1, RemainingFacts
  <1>6. /\ Cardinality(Left(step + 1)) \in Nat
        /\ Cardinality(todo) * ArtifactsPerRecording \in Nat
    BY <1>2, LeftFacts, RemainingFacts
  <1>7. total = completed + failed + Remaining
    BY DEF CountInv, CountersAgree, Downloading, InHand
  <1>8. CASE Artifacts[step] \in opt.skip
    <2>1. Cardinality(Left(step)) = Cardinality(Left(step + 1))
      BY <1>2, <1>8, LeftFacts
    <2> QED BY <1>4, <1>5, <1>7, <1>8, <2>1 DEF CountInv, CountersAgree, InHand
  <1>9. CASE Artifacts[step] \notin opt.skip
    <2>1. Cardinality(Left(step)) = Cardinality(Left(step + 1)) + 1
      BY <1>2, <1>9, LeftFacts
    <2>2. Remaining' \in Nat /\ Remaining = Remaining' + 1
      BY <1>4, <1>5, <1>6, <2>1
    <2>3. total' = completed' + failed' + Remaining'
      <3>1. total = completed + failed + (Remaining' + 1)
        BY <1>7, <2>2
      <3> QED BY <1>2, <1>9, <2>2, <3>1, Tally
    <2> QED BY <1>9, <2>3 DEF CountInv, CountersAgree, InHand
  <1> QED BY <1>8, <1>9

\* A step that leaves the counts and the loop as they are.
LEMMA SameCounts ==
    ASSUME Inv, CountInv, UNCHANGED <<opt, rec, step, todo, counts>>,
           \/ pc' = pc
           \/ pc \in {"prepare", "list"} /\ pc' \in {"list", "prune"}
           \/ /\ pc \in {"file"} \cup InHand /\ pc' \in InHand
              /\ Artifacts[step] \notin opt.skip
    PROVE  CountInv'
  <1>1. Remaining' = Remaining
    BY DEF Remaining, Left, ArtifactsPerRecording
  <1>2. UNCHANGED <<total, completed, failed, outcome>>
    BY DEF counts
  <1> QED BY <1>1, <1>2 DEF CountInv, CountersAgree, Downloading, InHand

\* A run that an exception ends says so, and counts no more.
LEMMA EndCounts ==
    ASSUME pc' = "clean", outcome' = "failed", rec' = NoRecording
    PROVE  CountInv'
  BY DEF CountInv, CountersAgree, Downloading, InHand

\* The run up to its loop, and the first count.
LEMMA PrepareCounts ==
    ASSUME Inv, Inv', CountInv, Prepare
    PROVE  CountInv'
  <1> USE DEF disk, markers, history, job, loop, xfer, EndFailed, NoLoop, Abort
  <1>1. ASSUME NEW f \in Files, RemoveOutdatedFile(f) PROVE CountInv'
    BY <1>1, SameCounts DEF RemoveOutdatedFile
  <1>2. ASSUME NEW f \in Files, RemoveOutdatedMarker(f) PROVE CountInv'
    BY <1>2, SameCounts DEF RemoveOutdatedMarker
  <1>3. CASE DestinationPrepared
    BY <1>3, SameCounts DEF DestinationPrepared
  <1>4. CASE ListRecordings
    BY <1>4, SameCounts DEF ListRecordings
  <1>5. CASE ListingFails \/ RemovalFails
    BY <1>5, EndCounts DEF ListingFails, RemovalFails
  <1>6. ASSUME NEW f \in Files, PruneOrphan(f) PROVE CountInv'
    BY <1>6, SameCounts DEF PruneOrphan
  <1>7. CASE OrphansPruned
    <2>1. /\ pc = "prune" /\ pc' = "next" /\ todo' = current
          /\ total' = Cardinality(current) * ArtifactsPerRecording
          /\ UNCHANGED <<opt, rec, step, completed, failed, outcome>>
      BY <1>7 DEF OrphansPruned
    <2>2. rec = NoRecording /\ completed = 0 /\ failed = 0 /\ outcome = "none"
      BY <2>1 DEF CountInv, InHand
    <2>3. ArtifactsPerRecording' = ArtifactsPerRecording
      BY <2>1 DEF ArtifactsPerRecording
    <2>4. Remaining' = total'
      BY <2>1, <2>2, <2>3, RemainingFacts, TodoFacts DEF Remaining, Inv, TypeOK
    <2> QED BY <2>1, <2>2, <2>4 DEF CountInv, CountersAgree, Downloading,
        InHand, Inv, TypeOK
  <1> QED BY <1>1, <1>2, <1>3, <1>4, <1>5, <1>6, <1>7 DEF Prepare

\* The loop: a recording that is taken leaves todo, its artifacts go one by one.
LEMMA DownloadCounts ==
    ASSUME Inv, Inv', CountInv, Download
    PROVE  CountInv'
  <1> USE DEF disk, markers, history, job, loop, xfer, counts, EndFailed,
      NoLoop, Abort, AbortFile,
              NoTransfer, NextArtifact, InFile, InHand
  <1>0. /\ total \in Nat /\ completed \in Nat /\ failed \in Nat
        /\ NoRecording \notin Recordings
    BY ConstantsAssumption DEF Inv, TypeOK
  <1>1. ASSUME NEW r \in Recordings, NextRecording(r) PROVE CountInv'
    <2>1. /\ pc = "next" /\ pc' = "file" /\ r \in todo /\ rec' = r /\ step' = 1
          /\ todo' = todo \ {r} /\ todo \subseteq Recordings
          /\ UNCHANGED <<opt, total, completed, failed, outcome>>
      BY <1>1 DEF NextRecording, Inv, TypeOK
    <2>2. rec = NoRecording /\ outcome = "none"
      BY <2>1 DEF CountInv
    <2>3. /\ ArtifactsPerRecording' = ArtifactsPerRecording
          /\ Left(step)' = Left(1)
      BY <2>1 DEF ArtifactsPerRecording, Left
    <2>4. Cardinality(todo') = Cardinality(todo) - 1
      BY <2>1, TodoFacts
    <2> DEFINE n == Cardinality(todo)
               a == ArtifactsPerRecording
    <2>5. Remaining' = (n - 1) * a + a
      BY <1>0, <2>1, <2>3, <2>4, RemainingFacts DEF Remaining
    <2>6. n \in Nat /\ a \in Nat /\ Remaining = n * a
      BY <2>2, RemainingFacts
    <2>7. (n - 1) * a + a = n * a
      <3> HIDE DEF n, a
      <3> QED BY <2>6
    <2>8. Remaining' = Remaining
      BY <2>5, <2>6, <2>7
    <2> QED BY <2>1, <2>2, <2>8 DEF CountInv, CountersAgree, Downloading, InHand
  <1>2. CASE DiskTooFull \/ GroupDirFails
    BY <1>2, EndCounts DEF DiskTooFull, GroupDirFails
  <1>3. CASE RecordingDone
    <2>1. /\ pc = "file" /\ pc' = "next" /\ step > Len(Artifacts)
          /\ rec' = NoRecording /\ rec # NoRecording
          /\ UNCHANGED <<opt, todo, total, completed, failed, outcome>>
      BY <1>0, <1>3 DEF RecordingDone, Inv, LoopInv, TypeOK
    <2>2. step = Len(Artifacts) + 1
      <3>1. Len(Artifacts) \in Nat /\ step \in 1..(Len(Artifacts) + 1)
        BY ConstantsAssumption DEF Inv, TypeOK
      <3> QED BY <2>1, <3>1
    <2>3. ArtifactsPerRecording' = ArtifactsPerRecording
      BY <2>1 DEF ArtifactsPerRecording
    <2>4. Cardinality(Left(step)) = 0
      BY <2>2, LeftFacts
    <2>5. Remaining = Cardinality(todo) * ArtifactsPerRecording
      BY <2>1, <2>4, RemainingFacts
    <2>6. Remaining' = Cardinality(todo) * ArtifactsPerRecording
      BY <2>1, <2>3, RemainingFacts DEF Remaining
    <2> QED BY <2>1, <2>5, <2>6 DEF CountInv, CountersAgree, Downloading, InHand
  <1>4. CASE AllDone
    <2>1. /\ pc = "next" /\ pc' = "clean" /\ todo = {} /\ rec = NoRecording
          /\ UNCHANGED <<rec, total, completed, failed>>
      BY <1>4 DEF AllDone, CountInv
    <2>2. Cardinality(todo) = 0
      BY <2>1, FS_EmptySet
    <2>3. Remaining = 0
      BY <2>1, <2>2, RemainingFacts
    <2> QED BY <1>0, <2>1, <2>3 DEF CountInv, CountersAgree, Downloading, InHand
  <1>5. CASE SkipMetadata
    BY <1>5, OneLess DEF SkipMetadata
  <1>6. CASE AlreadyDownloaded \/ RecentlyFailed
    BY <1>0, <1>6, OneLess
    DEF AlreadyDownloaded, RecentlyFailed, NoTransferNeeded, SkipFile, FinishFile
  <1>7. CASE DryRunFile
    BY <1>0, <1>7, OneLess DEF DryRunFile, FinishFile
  <1>8. CASE SendRequest
    BY <1>8, SameCounts DEF SendRequest
  <1> QED BY <1>1, <1>2, <1>3, <1>4, <1>5, <1>6, <1>7, <1>8 DEF Download

\* A file in hand is counted once, however its request or its body ends.
LEMMA TransferCounts ==
    ASSUME Inv, Inv', CountInv, Transfer
    PROVE  CountInv'
  <1> USE DEF disk, markers, history, job, loop, xfer, counts, EndFailed,
      NoLoop, AbortFile,
              NoTransfer, NextArtifact, InHand
  <1>0. total \in Nat /\ completed \in Nat /\ failed \in Nat
    BY DEF Inv, TypeOK
  <1>1. pc \in InHand =>
           Artifacts[step] \notin opt.skip /\ step <= Len(Artifacts)
    BY DEF CountInv, Inv, LoopInv
  <1>2. CASE AnswerWhole
    BY <1>1, <1>2, SameCounts DEF AnswerWhole
  <1>3. ASSUME NEW b \in 0..(Size - 1), NEW start \in {b, NoHeader},
               AnswerRest(b, start) \/ AnswerWrongRange(b, start)
        PROVE  CountInv'
    BY <1>1, <1>3, SameCounts DEF AnswerRest, AnswerWrongRange, Restart
  <1>4. CASE AnswerUnsatisfiable
    BY <1>1, <1>4, SameCounts DEF AnswerUnsatisfiable, Restart
  <1>5. CASE WriteMarker \/ MarkFails \/ ConnectionFails
    BY <1>0, <1>1, <1>5, OneLess
    DEF WriteMarker, MarkFails, ConnectionFails, FinishFile
  <1>11. CASE AnswerHttpError \/ OpenMarker
    BY <1>1, <1>11, SameCounts DEF AnswerHttpError, OpenMarker
  <1>6. CASE TransferFails \/ StopSeen \/ RenameFails
    BY <1>6, EndCounts DEF TransferFails, StopSeen, RenameFails
  <1>7. CASE WriteChunk
    BY <1>7, SameCounts DEF WriteChunk
  <1>8. CASE EndOfBody
    BY <1>1, <1>8, SameCounts DEF EndOfBody
  <1>9. CASE Truncated
    BY <1>0, <1>1, <1>9, OneLess DEF Truncated, FinishFile
  <1>10. CASE Install
    BY <1>0, <1>1, <1>10, OneLess DEF Install, FinishFile
  <1> QED BY <1>2, <1>3, <1>4, <1>5, <1>6, <1>7, <1>8, <1>9, <1>10,
         <1>11 DEF Transfer

\* Outside the loop the counts stay; a new run and a kill reset them.
LEMMA OtherCounts ==
    ASSUME Inv, CountInv, Start \/ Clean \/ World \/ UNCHANGED vars
    PROVE  CountInv'
  <1> USE DEF disk, markers, history, job, loop, xfer
  <1>1. CASE Start
    BY <1>1 DEF Start, CountInv, CountersAgree, Downloading, InHand
  <1>2. ASSUME NEW f \in Files, CleanFile(f) \/ CleanMarker(f) PROVE CountInv'
    BY <1>2, SameCounts DEF CleanFile, CleanMarker
  <1>3. ASSUME NEW g \in Groups, CleanDir(g) PROVE CountInv'
    BY <1>3, SameCounts DEF CleanDir
  <1>4. CASE RunOver
    BY <1>4 DEF RunOver, CountInv, CountersAgree, Downloading, InHand, counts
  <1>5. CASE Kill
    BY <1>5 DEF Kill, NoLoop, CountInv, CountersAgree, Downloading, InHand
  <1>6. CASE RequestStop
    BY <1>6, SameCounts DEF RequestStop
  <1>7. ASSUME NEW f \in Files, WindowPasses(f) PROVE CountInv'
    BY <1>7, SameCounts DEF WindowPasses
  <1>8. CASE UNCHANGED vars
    BY <1>8, SameCounts DEF vars
  <1> QED BY <1>1, <1>2, <1>3, <1>4, <1>5, <1>6, <1>7, <1>8 DEF Clean, World

\* At every point of every run files_total is what was counted and what is
\* left, and at the end of a successful one nothing is left.
THEOREM CountsAgree == Spec => []CountersAgree
  <1>1. Init => CountInv
    BY DEF Init, CountInv, CountersAgree, Downloading, InHand
  <1>2. Inv /\ Inv' /\ CountInv /\ [Next]_vars => CountInv'
    BY PrepareCounts, DownloadCounts, TransferCounts, OtherCounts DEF Next, Run
  <1>3. CountInv => CountersAgree
    BY DEF CountInv
  <1> QED BY <1>1, <1>2, <1>3, Invariance, PTL DEF Spec

-----------------------------------------------------------------------------
(* What a step may never do.                                                *)

\* Outside download_file nothing is written; whatever removes a file looks at
\* dry_run first, and no request is sent in a dry run.
LEMMA DryStep ==
    ASSUME Inv, [Next]_vars, pc # "idle", opt.dry
    PROVE  UNCHANGED <<final, partial, marker>>
  <1> USE DEF disk, markers, InHand
  <1>0. pc \notin InHand
    BY DEF Inv, LoopInv
  <1>1. CASE Prepare
    BY <1>1 DEF Prepare, RemoveOutdatedFile, RemoveOutdatedMarker,
         DestinationPrepared, ListRecordings, ListingFails, PruneOrphan,
         OrphansPruned, RemovalFails
  <1>2. CASE Download
    BY <1>2 DEF Download, NextRecording, DiskTooFull, RecordingDone, AllDone,
         SkipMetadata, GroupDirFails, AlreadyDownloaded, DryRunFile,
         RecentlyFailed, SendRequest
  <1>3. CASE Transfer
    BY <1>0, <1>3 DEF Transfer, AnswerWhole, AnswerRest, AnswerWrongRange,
         AnswerUnsatisfiable, AnswerHttpError, OpenMarker, WriteMarker,
         MarkFails, ConnectionFails, TransferFails,
         WriteChunk, StopSeen, EndOfBody, Truncated, Install, RenameFails
  <1>4. CASE Clean
    BY <1>4 DEF Clean, CleanFile, CleanMarker, CleanDir, RunOver
  <1>5. CASE World
    BY <1>0, <1>5 DEF World, Kill, RequestStop, WindowPasses
  <1>6. CASE Start
    BY <1>6 DEF Start
  <1>7. CASE UNCHANGED vars
    BY <1>7 DEF vars
  <1> QED BY <1>1, <1>2, <1>3, <1>4, <1>5, <1>6, <1>7 DEF Next, Run

\* A dry run leaves the archive, the partials and the markers alone, wherever
\* it fails, is stopped or is killed.
THEOREM DryRunIsHarmless == Spec => DryRunKeepsFiles
  <1>1. Inv /\ [Next]_vars =>
           [pc # "idle" /\ opt.dry => UNCHANGED <<final, partial, marker>>]_vars
    BY DryStep
  <1> QED BY <1>1, Invariance, PTL DEF Spec, DryRunKeepsFiles

\* A step after which no more is in its window, and no less is swept or told by
\* a marker, as long as nothing new is requested.
LEMMA CoolingKept ==
    ASSUME CoolingInv, cooling' \subseteq cooling,
           cooling' \cap recent \subseteq recent' \cup swept',
           cooling' \cap swept \subseteq swept',
           pc' \in InHand \ {"again"} =>
               pc \in InHand \ {"again"} /\ UNCHANGED <<rec, step>>
    PROVE  CoolingInv'
  <1>1. (cooling \subseteq recent \cup swept)'
    BY DEF CoolingInv
  <1>2. ASSUME pc' \in InHand \ {"again"} PROVE Cur' \notin cooling' \ swept'
    <2>1. Cur' = Cur /\ Cur \notin cooling \ swept
      BY <1>2 DEF Cur, CoolingInv
    <2> QED BY <2>1
  <1> QED BY <1>1, <1>2 DEF CoolingInv

\* A request is sent when no recent marker is in the way, or when reading it
\* failed, which is remembered; only then may the window of a file begin anew.
LEMMA CoolingStep ==
    ASSUME Inv, CoolingInv, [Next]_vars
    PROVE  CoolingInv'
  <1> USE DEF disk, markers, history, job, loop, NextArtifact, EndFailed, Abort,
              AbortFile, InHand
  <1>1. CASE Prepare
    <2>1. ASSUME NEW f \in Files, RemoveOutdatedMarker(f) PROVE CoolingInv'
      BY <2>1, CoolingKept DEF RemoveOutdatedMarker, Unmark, Forget
    <2> QED BY <1>1, <2>1, CoolingKept DEF Prepare, RemoveOutdatedFile,
          DestinationPrepared, ListRecordings, ListingFails, PruneOrphan,
          OrphansPruned, RemovalFails
  <1>2. CASE Download
    <2>1. CASE SendRequest
      <3>1. /\ cooling' = cooling /\ UNCHANGED <<rec, step>>
            /\ swept \subseteq swept'
        BY <2>1 DEF SendRequest, RemoveDownloadFailedMarker, Forget
      <3>2. recent' = recent \/ recent' = recent \ {Cur}
        BY <2>1 DEF SendRequest, RemoveDownloadFailedMarker, Unmark
      <3>3. Cur \notin cooling \ swept'
        <4>1. CASE ~BlockedByFailure(Cur)
          BY <3>1, <4>1 DEF BlockedByFailure, CoolingInv
        <4>2. CASE BlockedByFailure(Cur)
          BY <2>1, <4>2 DEF SendRequest, RemoveDownloadFailedMarker, Forget
        <4> QED BY <4>1, <4>2
      <3>4. Cur' = Cur
        BY <3>1 DEF Cur
      <3>5. cooling' \subseteq recent' \cup swept'
        BY <3>1, <3>2, <3>3 DEF CoolingInv
      <3> QED BY <3>1, <3>3, <3>4, <3>5 DEF CoolingInv
    <2> QED BY <1>2, <2>1, CoolingKept DEF Download, NextRecording, DiskTooFull,
          RecordingDone, AllDone, SkipMetadata, GroupDirFails,
          AlreadyDownloaded, DryRunFile, RecentlyFailed
  <1>3. CASE Transfer
    <2>1. CASE OpenMarker
      <3>1. Cur \notin cooling \ swept
        BY <2>1 DEF OpenMarker, CoolingInv
      <3> QED BY <2>1, <3>1, CoolingKept DEF OpenMarker
    <2>2. CASE WriteMarker
      <3>1. /\ recent' = recent \cup {Cur} /\ cooling' = cooling \cup {Cur}
            /\ swept' = swept \ {Cur} /\ pc' = "file"
        BY <2>2 DEF WriteMarker
      <3> QED BY <3>1 DEF CoolingInv
    <2> QED BY <1>3, <2>1, <2>2, CoolingKept DEF Transfer, AnswerWhole,
          AnswerRest, AnswerWrongRange, AnswerUnsatisfiable, Restart,
          AnswerHttpError, MarkFails, ConnectionFails, TransferFails,
          WriteChunk, StopSeen, EndOfBody, Truncated, Install, RenameFails
  <1>4. CASE Clean
    <2>1. ASSUME NEW f \in Files, CleanMarker(f) PROVE CoolingInv'
      BY <2>1, CoolingKept DEF CleanMarker, Unmark, Forget
    <2> QED BY <1>4, <2>1, CoolingKept DEF Clean, CleanFile, CleanDir, RunOver
  <1>5. CASE World
    <2>1. ASSUME NEW f \in Files, WindowPasses(f) PROVE CoolingInv'
      BY <2>1, CoolingKept DEF WindowPasses
    <2> QED BY <1>5, <2>1, CoolingKept DEF World, Kill, RequestStop
  <1>6. CASE Start
    BY <1>6, CoolingKept DEF Start
  <1>7. CASE UNCHANGED vars
    BY <1>7, CoolingKept DEF vars
  <1> QED BY <1>1, <1>2, <1>3, <1>4, <1>5, <1>6, <1>7 DEF Next, Run

\* Only SendRequest brings the loop to a request.
LEMMA OnlySendRequest ==
    ASSUME [Next]_vars, Requests
    PROVE  SendRequest
  <1> USE DEF Requests, NextArtifact, Abort, AbortFile, EndFailed
  <1>1. CASE Prepare
    BY <1>1 DEF Prepare, RemoveOutdatedFile, RemoveOutdatedMarker,
         DestinationPrepared, ListRecordings, ListingFails, PruneOrphan,
         OrphansPruned, RemovalFails
  <1>2. CASE Download
    BY <1>2 DEF Download, NextRecording, DiskTooFull, RecordingDone, AllDone,
         SkipMetadata, GroupDirFails, AlreadyDownloaded, DryRunFile,
         RecentlyFailed
  <1>3. CASE Transfer
    BY <1>3 DEF Transfer, AnswerWhole, AnswerRest, AnswerWrongRange,
         AnswerUnsatisfiable, Restart, AnswerHttpError, OpenMarker,
         WriteMarker, MarkFails, ConnectionFails, TransferFails, WriteChunk,
         StopSeen, EndOfBody, Truncated, Install, RenameFails
  <1>4. CASE Clean \/ World \/ Start \/ UNCHANGED vars
    BY <1>4 DEF Clean, CleanFile, CleanMarker, CleanDir, RunOver, World, Kill,
         RequestStop, WindowPasses, Start, vars
  <1> QED BY <1>1, <1>2, <1>3, <1>4 DEF Next, Run

\* Over any number of runs and kills, between any two steps of writing a marker
\* too, a file whose failure reached its marker is not requested again before
\* retry_failed_after has gone by, unless something other than the passing of
\* that time has put the marker out of effect: retention, the cleaning of an
\* emptied group directory, or a marker that could not be read.
THEOREM RetriesWait == Spec => RetryWindow
  <1>1. Init => CoolingInv
    BY DEF Init, CoolingInv, InHand
  <1>2. Inv /\ CoolingInv /\ [Next]_vars => CoolingInv'
    BY CoolingStep
  <1>3. Inv /\ CoolingInv /\ [Next]_vars =>
           [Requests => Cur \notin cooling \ swept']_vars
    <2> SUFFICES ASSUME Inv, CoolingInv, [Next]_vars, Requests
                 PROVE  Cur \notin cooling \ swept'
      OBVIOUS
    <2>1. SendRequest
      BY OnlySendRequest
    <2>2. CoolingInv' /\ pc' = "request"
      BY CoolingStep DEF Requests
    <2>3. Cur' \notin cooling' \ swept'
      BY <2>2 DEF CoolingInv, InHand
    <2>4. Cur' = Cur /\ cooling' = cooling
      BY <2>1 DEF SendRequest, loop, Cur
    <2> QED BY <2>3, <2>4
  <1> QED BY <1>1, <1>2, <1>3, Invariance, PTL DEF Spec, RetryWindow

=============================================================================
