--------------------------- MODULE LogStream_proofs ---------------------------
(***************************************************************************)
(* Proofs about LogStream, for any number of pages and of worker threads,   *)
(* any sizes of the ring and of a queue, and any bounds.                    *)
(*                                                                         *)
(* The argument: TypeOK is inductive with the places of the streams         *)
(* (PlaceInv), which say who holds a slot and who a queue; that is          *)
(* NothingLeaks.  For what a page shows, the frames on their way to it and  *)
(* the queue of the stream it reads are followed from line to line: each    *)
(* goes on from a mark (MarkBefore, EndMark), and what lies between the     *)
(* mark and its last line is in it or may be missed (Ordered).  When a      *)
(* frame arrives, the rows it adds therefore continue the chain of those    *)
(* the page has (FreshChained, ChainConcat).                                *)
(*                                                                         *)
(* What the filter of a frame keeps is proved from Least, by the smallest   *)
(* index whose rank is large enough.                                        *)
(***************************************************************************)
EXTENDS LogStream, FiniteSetTheorems, SequenceTheorems, WellFoundedInduction,
        TLAPS

-----------------------------------------------------------------------------
(* The inductive invariant behind the safety properties.                    *)

\* Who has a slot or a queue, and who has a client at the other end.
PlaceInv ==
    /\ NothingLeaks /\ IsFiniteSet(slot)
    /\ \A c \in Conns :
          /\ c \in subs <=> place[c] \in {"subscribed", "streaming", "closing"}
          /\ c \notin subs => queue[c] = <<>>
          /\ reader[c] # NoOne => place[c] \in {"unstarted", "subscribed", "streaming"}

Increasing(ns) == \A i, j \in DOMAIN ns : i < j => ns[i] < ns[j]

\* The ring holds the last lines, a queue lines in their order; that of a
\* stream that has subscribed and not yet read the ring goes up to the last.
QueueOf(c) ==
    /\ Increasing(queue[c])
    /\ \A i \in DOMAIN queue[c] : queue[c][i] <= seq
    /\ place[c] = "subscribed" /\ queue[c] # <<>> => Last(queue[c]) = seq

RingInv ==
    /\ lines = <<>> => seq = 0
    /\ \A i \in DOMAIN lines : lines[i] = seq - Len(lines) + i
    /\ \A c \in Conns : QueueOf(c)

\* Where the rows of a page end, and of which process they are.
RowMark(b) == IF shown[b] = <<>> THEN 0 ELSE Last(shown[b]).seq

PageOf(b) ==
    /\ bootId[b] <= boot
    /\ shown[b] # <<>> => Last(shown[b]).boot = bootId[b]
    /\ page[b] \in {"waiting", "asking", "open", "broken"} => lastSeq[b] = RowMark(b)
    /\ bootId[b] = boot => RowMark(b) <= seq

PageInv == \A b \in Clients : PageOf(b)

\* What the i-th frame on its way to a page must go on from: the frame before
\* it, or what the page has shown of the same process.
MarkBefore(b, i) ==
    IF i > 1 THEN Last(net[b][i - 1].lines)
    ELSE IF net[b][1].boot = bootId[b] THEN lastSeq[b] ELSE 0

\* The lines after m up to n of a process are all among ns or may be missed.
Covered(k, m, n, ns) ==
    \A x \in (m + 1)..n : x \in ToSet(ns) \/ [boot |-> k, seq |-> x] \in missable

FrameOf(b, i) ==
    /\ net[b][i].boot = net[b][1].boot
    /\ net[b][i].boot \in bootId[b]..boot
    /\ page[b] = "open" => net[b][i].boot = boot
    /\ net[b][i].lines # <<>> /\ Increasing(net[b][i].lines)
    /\ MarkBefore(b, i) <= Last(net[b][i].lines)
    /\ net[b][i].boot = boot => Last(net[b][i].lines) <= seq
    /\ Covered(net[b][i].boot, MarkBefore(b, i), Last(net[b][i].lines),
               net[b][i].lines)

NetInv ==
    \A b \in Clients :
        /\ page[b] \notin {"open", "broken"} => net[b] = <<>>
        /\ \A i \in DOMAIN net[b] : FrameOf(b, i)

\* The last line a page that reads a stream of this process will have shown.
EndMark(b) ==
    IF net[b] # <<>> THEN Last(Last(net[b]).lines)
    ELSE IF bootId[b] = boot THEN lastSeq[b] ELSE 0

\* A stream that page b reads.
StreamOf(c, b) ==
    /\ page[b] = "open"
    /\ \A d \in Conns : reader[d] = b => d = c
    /\ place[c] \in {"unstarted", "subscribed"} => net[b] = <<>>
    /\ place[c] = "streaming" =>
          /\ queue[c] # <<>> => EndMark(b) <= Last(queue[c])
          /\ Covered(boot, EndMark(b), seq, queue[c])

StreamInv == \A c \in Conns, b \in Clients : reader[c] = b => StreamOf(c, b)

Inv ==
    /\ TypeOK /\ PlaceInv /\ RingInv /\ PageInv /\ NetInv /\ StreamInv
    /\ RowsInOrder /\ NothingMissed

-----------------------------------------------------------------------------
(* What the page makes of a frame.                                          *)

\* A set of numbers that has a member has a least one.
LEMMA Least ==
    ASSUME NEW T \in SUBSET Nat, T # {}
    PROVE  \E n \in T : \A m \in T : n <= m
  <1>1. OpToRel(<, Nat) = {s \in Nat \X Nat : s[1] < s[2]}
    BY DEF OpToRel
  <1>2. \E x \in T : \A y \in T : ~(<<y, x>> \in OpToRel(<, Nat))
    BY NatLessThanWellFounded, WFMin
  <1>3. \E x \in T : \A y \in T : <<y, x>> \notin {s \in Nat \X Nat : s[1] < s[2]}
    BY <1>1, <1>2, Zenon
  <1>4. PICK x \in T : \A y \in T : <<y, x>> \notin {s \in Nat \X Nat : s[1] < s[2]}
    BY <1>3
  <1>5. ASSUME NEW y \in T PROVE x <= y
    <2>1. <<y, x>> \in Nat \X Nat
      OBVIOUS
    <2>2. ~(<<y, x>>[1] < <<y, x>>[2])
      BY <2>1, <1>4
    <2> QED BY <2>1, <2>2
  <1> QED BY <1>5

\* The rank of a number in a set: how many members go up to it.
Rank(kept, i) == Cardinality({k \in kept : k <= i})

\* A rank is a number; it goes up by one at a member and stays elsewhere.
LEMMA RankStep ==
    ASSUME NEW n \in Nat, NEW kept \in SUBSET (1..n)
    PROVE  /\ IsFiniteSet(kept) /\ Cardinality(kept) \in Nat
           /\ \A i \in 0..n : Rank(kept, i) \in Nat
           /\ Rank(kept, 0) = 0 /\ Rank(kept, n) = Cardinality(kept)
           /\ \A i \in 1..n :
                 /\ i \in kept => Rank(kept, i) = Rank(kept, i - 1) + 1
                 /\ i \notin kept => Rank(kept, i) = Rank(kept, i - 1)
  <1>0. \A k \in kept : k \in Nat /\ 1 <= k /\ k <= n
    OBVIOUS
  <1>1. IsFiniteSet(kept) /\ Cardinality(kept) \in Nat
    <2>1. IsFiniteSet(1..n)
      BY FS_Interval
    <2>2. IsFiniteSet(kept)
      BY <2>1, FS_Subset
    <2> QED BY <2>2, FS_CardinalityType
  <1>2. ASSUME NEW i \in 0..n
        PROVE  IsFiniteSet({k \in kept : k <= i}) /\ Rank(kept, i) \in Nat
    <2>1. IsFiniteSet({k \in kept : k <= i})
      BY <1>1, FS_Subset
    <2> QED BY <2>1, FS_CardinalityType DEF Rank
  <1>3. Rank(kept, 0) = 0
    <2>0. \A k \in kept : ~(k <= 0)
      BY <1>0
    <2>1. {k \in kept : k <= 0} = {}
      BY <2>0, Zenon
    <2> QED BY <2>1, FS_EmptySet DEF Rank
  <1>4. Rank(kept, n) = Cardinality(kept)
    <2>1. {k \in kept : k <= n} = kept
      BY <1>0, Zenon
    <2> QED BY <2>1 DEF Rank
  <1>5. ASSUME NEW i \in 1..n
        PROVE  /\ i \in kept => Rank(kept, i) = Rank(kept, i - 1) + 1
               /\ i \notin kept => Rank(kept, i) = Rank(kept, i - 1)
    <2>1. i - 1 \in 0..n
      OBVIOUS
    <2>2. CASE i \in kept
      <3>0. (\A k \in kept : k <= i <=> k <= i - 1 \/ k = i) /\ i <= i
        BY <1>0
      <3>1. {k \in kept : k <= i} = {k \in kept : k <= i - 1} \cup {i}
        BY <3>0, <2>2, Zenon
      <3>2. i \notin {k \in kept : k <= i - 1}
        OBVIOUS
      <3>3. Cardinality({k \in kept : k <= i}) = Cardinality({k \in kept : k <= i - 1}) + 1
        BY <1>2, <2>1, <3>1, <3>2, FS_AddElement
      <3> QED BY <2>2, <3>3 DEF Rank
    <2>3. CASE i \notin kept
      <3>0. \A k \in kept : k <= i <=> k <= i - 1
        BY <1>0, <2>3
      <3>1. {k \in kept : k <= i} = {k \in kept : k <= i - 1}
        BY <3>0, Zenon
      <3> QED BY <2>3, <3>1 DEF Rank
    <2> QED BY <2>2, <2>3
  <1> QED BY <1>1, <1>2, <1>3, <1>4, <1>5

\* The ranks of the members are the numbers from one to how many there are,
\* each the rank of one member, in the order of the members.
LEMMA RankCounts ==
    ASSUME NEW n \in Nat, NEW kept \in SUBSET (1..n)
    PROVE  /\ \A i \in kept : Rank(kept, i) \in 1..Cardinality(kept)
           /\ \A i, j \in kept : i < j => Rank(kept, i) < Rank(kept, j)
           /\ \A r \in 1..Cardinality(kept) : \E i \in kept : Rank(kept, i) = r
  <1> USE RankStep
  <1>0. \A k \in kept : k \in Nat /\ 1 <= k /\ k <= n
    OBVIOUS
  <1>1. ASSUME NEW i \in 0..n, NEW j \in 0..n, i <= j
        PROVE  Rank(kept, i) <= Rank(kept, j)
    <2>1. IsFiniteSet({k \in kept : k <= j})
      BY FS_Subset
    <2>0. \A k \in kept : k <= i => k <= j
      BY <1>0, <1>1
    <2>2. {k \in kept : k <= i} \subseteq {k \in kept : k <= j}
      BY <2>0, Zenon
    <2> QED BY <2>1, <2>2, FS_Subset DEF Rank
  <1>2. ASSUME NEW i \in kept, NEW j \in kept, i < j
        PROVE  Rank(kept, i) < Rank(kept, j)
    <2>1. i \in 0..n /\ j - 1 \in 0..n /\ i <= j - 1 /\ j \in 1..n
      BY <1>2
    <2>2. Rank(kept, i) <= Rank(kept, j - 1)
      BY <1>1, <2>1
    <2>3. Rank(kept, j) = Rank(kept, j - 1) + 1 /\ Rank(kept, j - 1) \in Nat
      BY <2>1
    <2>4. Rank(kept, i) \in Nat
      BY <2>1
    <2> QED BY <2>2, <2>3, <2>4
  <1>3. ASSUME NEW i \in kept PROVE Rank(kept, i) \in 1..Cardinality(kept)
    <2>1. i \in 1..n /\ i - 1 \in 0..n /\ i \in 0..n /\ n \in 0..n
      OBVIOUS
    <2>2. Rank(kept, i) = Rank(kept, i - 1) + 1 /\ Rank(kept, i - 1) \in Nat
      BY <2>1
    <2>3. Rank(kept, i) <= Rank(kept, n)
      BY <1>1, <2>1
    <2>4. Rank(kept, n) = Cardinality(kept) /\ Cardinality(kept) \in Nat
      OBVIOUS
    <2> QED BY <2>2, <2>3, <2>4
  <1>4. ASSUME NEW r \in 1..Cardinality(kept)
        PROVE  \E i \in kept : Rank(kept, i) = r
    <2> DEFINE T == {i \in 1..n : Rank(kept, i) >= r}
    <2>1. Cardinality(kept) \in Nat /\ r \in Nat \ {0} /\ r <= Cardinality(kept)
      OBVIOUS
    <2>2. n # 0
      <3> SUFFICES ASSUME n = 0 PROVE FALSE
        OBVIOUS
      <3>1. Rank(kept, 0) = 0 /\ Rank(kept, n) = Cardinality(kept)
        OBVIOUS
      <3> QED BY <2>1, <3>1
    <2>3. n \in T /\ T \in SUBSET Nat
      <3>1. n \in 1..n /\ Rank(kept, n) = Cardinality(kept)
        BY <2>2
      <3> QED BY <2>1, <3>1
    <2>4. PICK i \in T : \A m \in T : i <= m
      BY <2>3, Least
    <2>5. i \in 1..n /\ Rank(kept, i) >= r
      BY <2>4
    <2>6. /\ Rank(kept, i - 1) \in Nat /\ Rank(kept, i) \in Nat
          /\ \/ i \in kept /\ Rank(kept, i) = Rank(kept, i - 1) + 1
             \/ i \notin kept /\ Rank(kept, i) = Rank(kept, i - 1)
      <3>1. i - 1 \in 0..n /\ i \in 0..n /\ i \in 1..n
        BY <2>5
      <3>2. Rank(kept, i - 1) \in Nat /\ Rank(kept, i) \in Nat
        BY <3>1, RankStep
      <3>3. /\ i \in kept => Rank(kept, i) = Rank(kept, i - 1) + 1
            /\ i \notin kept => Rank(kept, i) = Rank(kept, i - 1)
        BY <3>1, RankStep
      <3> QED BY <3>2, <3>3
    <2>7. Rank(kept, i - 1) < r
      <3>1. CASE i = 1
        <4>0. Rank(kept, 0) = 0
          BY RankStep
        <4>1. i - 1 = 0 /\ Rank(kept, 0) = 0
          BY <3>1, <4>0
        <4> QED BY <2>1, <4>1
      <3>2. CASE i # 1
        <4>1. i - 1 \in 1..n /\ ~(i <= i - 1)
          BY <2>5, <3>2
        <4>2. i - 1 \notin T
          BY <2>4, <4>1
        <4> QED BY <2>1, <2>6, <4>1, <4>2
      <3> QED BY <3>1, <3>2
    <2> QED BY <2>1, <2>5, <2>6, <2>7
  <1> QED BY <1>2, <1>3, <1>4

\* What the watermark leaves of a frame: as many lines as pass it, each of them
\* at its rank.
LEMMA FreshPicks ==
    ASSUME NEW S \in SUBSET Nat, NEW ns \in Seq(S), NEW mark \in Nat
    PROVE  \E kept \in SUBSET (1..Len(ns)) :
              /\ \A i \in DOMAIN ns : i \in kept <=> ns[i] > mark
              /\ Fresh(ns, mark) \in Seq(S)
              /\ Len(Fresh(ns, mark)) = Cardinality(kept)
              /\ DOMAIN Fresh(ns, mark) = 1..Cardinality(kept)
              /\ \A j \in DOMAIN Fresh(ns, mark) :
                    \E i \in kept : Rank(kept, i) = j /\ Fresh(ns, mark)[j] = ns[i]
              /\ \A i \in kept : Rank(kept, i) \in DOMAIN Fresh(ns, mark)
                                 /\ Fresh(ns, mark)[Rank(kept, i)] = ns[i]
  <1> DEFINE kept == {i \in DOMAIN ns : ns[i] > mark}
  <1> DEFINE at(j) == CHOOSE i \in kept : Rank(kept, i) = j
  <1>1. Len(ns) \in Nat /\ DOMAIN ns = 1..Len(ns) /\ kept \in SUBSET (1..Len(ns))
    OBVIOUS
  <1>2. /\ Cardinality(kept) \in Nat
        /\ \A i \in kept : Rank(kept, i) \in 1..Cardinality(kept)
        /\ \A i, j \in kept : i < j => Rank(kept, i) < Rank(kept, j)
        /\ \A r \in 1..Cardinality(kept) : \E i \in kept : Rank(kept, i) = r
        /\ \A i \in kept : Rank(kept, i) \in Nat
    <2> HIDE DEF kept
    <2>1. kept \in SUBSET (1..Len(ns)) /\ Len(ns) \in Nat
      BY <1>1
    <2>2. /\ Cardinality(kept) \in Nat
          /\ \A i \in 0..Len(ns) : Rank(kept, i) \in Nat
      BY <2>1, RankStep
    <2>3. /\ \A i \in kept : Rank(kept, i) \in 1..Cardinality(kept)
          /\ \A i, j \in kept : i < j => Rank(kept, i) < Rank(kept, j)
          /\ \A r \in 1..Cardinality(kept) : \E i \in kept : Rank(kept, i) = r
      BY <2>1, RankCounts
    <2>4. \A i \in kept : i \in 0..Len(ns)
      BY <2>1
    <2> QED BY <2>2, <2>3, <2>4, Zenon
  <1>3. Fresh(ns, mark) = [j \in 1..Cardinality(kept) |-> ns[at(j)]]
    BY DEF Fresh, Rank
  <1>4. ASSUME NEW j \in 1..Cardinality(kept)
        PROVE  at(j) \in kept /\ Rank(kept, at(j)) = j /\ ns[at(j)] \in S
    <2>1. \E i \in kept : Rank(kept, i) = j
      BY <1>2
    <2>2. at(j) \in kept /\ Rank(kept, at(j)) = j
      BY <2>1, Zenon
    <2>3. \A i \in kept : ns[i] \in S
      BY <1>1
    <2> QED BY <2>2, <2>3
  <1>5. Fresh(ns, mark) \in Seq(S) /\ Len(Fresh(ns, mark)) = Cardinality(kept)
    <2> HIDE DEF at, kept
    <2>1. [j \in 1..Cardinality(kept) |-> ns[at(j)]] \in Seq(S)
      BY <1>2, <1>4, IsASeq
    <2> QED BY <1>2, <1>3, <2>1
  <1>6. ASSUME NEW j \in 1..Cardinality(kept)
        PROVE  \E i \in kept : Rank(kept, i) = j /\ Fresh(ns, mark)[j] = ns[i]
    BY <1>3, <1>4
  <1>7. ASSUME NEW i \in kept
        PROVE  /\ Rank(kept, i) \in 1..Cardinality(kept)
               /\ Fresh(ns, mark)[Rank(kept, i)] = ns[i]
    <2>1. Rank(kept, i) \in 1..Cardinality(kept)
      BY <1>2
    <2>2. at(Rank(kept, i)) \in kept /\ Rank(kept, at(Rank(kept, i))) = Rank(kept, i)
      BY <1>4, <2>1
    <2>3. at(Rank(kept, i)) = i
      <3> HIDE DEF at
      <3>1. at(Rank(kept, i)) \in Nat /\ i \in Nat
        BY <1>1, <2>2
      <3>2. ~(at(Rank(kept, i)) < i) /\ ~(i < at(Rank(kept, i)))
        BY <1>2, <2>2
      <3> QED BY <3>1, <3>2
    <2> QED BY <1>3, <2>1, <2>3
  <1>8. DOMAIN Fresh(ns, mark) = 1..Cardinality(kept)
    BY <1>3
  <1>9. \A i \in DOMAIN ns : i \in kept <=> ns[i] > mark
    OBVIOUS
  <1> QED
    <2> HIDE DEF kept, at
    <2> QED BY <1>1, <1>5, <1>6, <1>7, <1>8, <1>9, Zenon

\* The same for a frame whose lines ascend: it ascends, what it keeps is what
\* passes the mark, and it ends with the last line of the frame.
LEMMA FreshFilters ==
    ASSUME NEW S \in SUBSET Nat, NEW ns \in Seq(S), NEW mark \in Nat, Increasing(ns)
    PROVE  /\ Increasing(Fresh(ns, mark))
           /\ \A j \in DOMAIN Fresh(ns, mark) :
                 Fresh(ns, mark)[j] > mark /\ Fresh(ns, mark)[j] \in ToSet(ns)
           /\ \A n \in ToSet(ns) : n > mark => n \in ToSet(Fresh(ns, mark))
           /\ Fresh(ns, mark) # <<>> => Last(Fresh(ns, mark)) = Last(ns)
  <1> DEFINE F == Fresh(ns, mark)
  <1>2. Len(ns) \in Nat /\ DOMAIN ns = 1..Len(ns) /\ \A i \in DOMAIN ns : ns[i] \in S /\ ns[i] \in Nat
    <2>1. Len(ns) \in Nat /\ DOMAIN ns = 1..Len(ns) /\ \A i \in DOMAIN ns : ns[i] \in S
      OBVIOUS
    <2>2. \A x \in S : x \in Nat
      OBVIOUS
    <2> QED BY <2>1, <2>2
  <1>3. PICK kept \in SUBSET (1..Len(ns)) :
              /\ \A i \in DOMAIN ns : i \in kept <=> ns[i] > mark
              /\ F \in Seq(S) /\ Len(F) = Cardinality(kept)
              /\ DOMAIN F = 1..Cardinality(kept)
              /\ \A j \in DOMAIN F : \E i \in kept : Rank(kept, i) = j /\ F[j] = ns[i]
              /\ \A i \in kept : Rank(kept, i) \in DOMAIN F /\ F[Rank(kept, i)] = ns[i]
    BY FreshPicks, Zenon
  <1>4. /\ \A i \in kept : i \in DOMAIN ns /\ ns[i] > mark
        /\ \A i \in DOMAIN ns : ns[i] > mark => i \in kept
    BY <1>2, <1>3
  <1>5. /\ \A i, j \in kept : i < j => Rank(kept, i) < Rank(kept, j)
        /\ Cardinality(kept) \in Nat
        /\ Rank(kept, Len(ns)) = Cardinality(kept)
    BY <1>2, RankCounts, RankStep
  <1> HIDE DEF F
  <1>6. Increasing(F)
    <2> SUFFICES ASSUME NEW i \in DOMAIN F, NEW j \in DOMAIN F, i < j PROVE F[i] < F[j]
      BY DEF Increasing
    <2>1. PICK k \in kept : Rank(kept, k) = i /\ F[i] = ns[k]
      BY <1>3
    <2>2. PICK l \in kept : Rank(kept, l) = j /\ F[j] = ns[l]
      BY <1>3
    <2>3. k \in Nat /\ l \in Nat /\ i \in Nat /\ j \in Nat
      BY <1>2, <1>3, <1>4, <1>5
    <2>4. k < l
      BY <1>5, <2>1, <2>2, <2>3
    <2> QED BY <1>4, <2>1, <2>2, <2>4 DEF Increasing
  <1>7. ASSUME NEW j \in DOMAIN F PROVE F[j] > mark /\ F[j] \in ToSet(ns)
    BY <1>3, <1>4 DEF ToSet
  <1>8. ASSUME NEW n \in ToSet(ns), n > mark PROVE n \in ToSet(F)
    <2>1. PICK i \in DOMAIN ns : n = ns[i]
      BY DEF ToSet
    <2>2. i \in kept
      BY <1>4, <1>8, <2>1
    <2> QED BY <1>3, <2>1, <2>2 DEF ToSet
  <1>9. ASSUME F # <<>> PROVE Last(F) = Last(ns)
    <2>1. Len(F) # 0
      BY <1>3, <1>9, EmptySeq
    <2>2. Len(F) \in DOMAIN F
      BY <1>3, <1>5, <2>1
    <2>3. PICK i \in kept : Rank(kept, i) = Len(F)
      BY <1>3, <2>2
    <2>4. i \in 1..Len(ns) /\ Len(ns) \in DOMAIN ns /\ ns[i] > mark
      BY <1>2, <1>4
    <2>5. ns[Len(ns)] > mark
      <3>1. CASE i = Len(ns)
        BY <2>4, <3>1
      <3>2. CASE i # Len(ns)
        <4>0. i \in Nat /\ i <= Len(ns) /\ Len(ns) \in Nat
          BY <1>2, <2>4
        <4>1. i < Len(ns)
          BY <4>0, <3>2
        <4>2. ns[i] < ns[Len(ns)]
          BY <1>2, <2>4, <4>1 DEF Increasing
        <4> QED BY <1>2, <2>4, <4>2
      <3> QED BY <3>1, <3>2
    <2>6. Len(ns) \in kept
      BY <1>4, <2>4, <2>5
    <2> QED BY <1>3, <1>5, <2>6 DEF Last
  <1> QED BY <1>6, <1>7, <1>8, <1>9 DEF F

-----------------------------------------------------------------------------
(* Sequences.                                                               *)

\* What a sequence is after an element was added, and what its ends are.
LEMMA AppendFacts ==
    ASSUME NEW S, NEW s \in Seq(S), NEW e \in S
    PROVE  /\ Append(s, e) \in Seq(S) /\ Len(Append(s, e)) = Len(s) + 1
           /\ \A i \in 1..Len(s) : Append(s, e)[i] = s[i]
           /\ Append(s, e)[Len(s) + 1] = e
           /\ Last(Append(s, e)) = e /\ Append(s, e) # <<>>
  BY DEF Last

LEMMA LastFacts ==
    ASSUME NEW S, NEW s \in Seq(S), s # <<>>
    PROVE  /\ Len(s) \in Nat \ {0} /\ DOMAIN s = 1..Len(s)
           /\ Last(s) \in S /\ Last(s) = s[Len(s)] /\ Last(s) \in ToSet(s)
  BY DEF Last, ToSet

LEMMA TailFacts ==
    ASSUME NEW S, NEW s \in Seq(S), s # <<>>
    PROVE  /\ Tail(s) \in Seq(S) /\ Len(Tail(s)) = Len(s) - 1
           /\ Head(s) = s[1] /\ Head(s) \in S
           /\ DOMAIN Tail(s) = 1..(Len(s) - 1)
           /\ \A i \in 1..(Len(s) - 1) : Tail(s)[i] = s[i + 1]
           /\ Tail(s) # <<>> => Last(Tail(s)) = Last(s)
           /\ Tail(s) = <<>> => Last(s) = Head(s)
  <1>1. /\ Tail(s) \in Seq(S) /\ Len(Tail(s)) = Len(s) - 1
        /\ Head(s) = s[1] /\ Head(s) \in S /\ Len(s) \in Nat \ {0}
        /\ DOMAIN Tail(s) = 1..(Len(s) - 1)
        /\ \A i \in 1..(Len(s) - 1) : Tail(s)[i] = s[i + 1]
    OBVIOUS
  <1>2. ASSUME Tail(s) # <<>> PROVE Last(Tail(s)) = Last(s)
    <2>1. Len(s) - 1 # 0
      BY <1>1, <1>2, EmptySeq
    <2>2. Len(s) - 1 \in 1..(Len(s) - 1) /\ Len(s) - 1 + 1 = Len(s)
      BY <1>1, <2>1
    <2> QED BY <1>1, <2>2 DEF Last
  <1>3. ASSUME Tail(s) = <<>> PROVE Last(s) = Head(s)
    <2>0. Len(Tail(s)) = 0
      BY <1>3, EmptySeq
    <2>1. Len(s) \in Nat /\ Len(s) - 1 = 0
      BY <1>1, <2>0
    <2>2. Len(s) = 1
      BY <2>1
    <2> QED BY <1>1, <2>2 DEF Last
  <1> QED BY <1>1, <1>2, <1>3

\* The newest elements of a sequence: so many at most, those at its end.
LEMMA NewestFacts ==
    ASSUME NEW S, NEW s \in Seq(S), NEW n \in Nat \ {0}
    PROVE  /\ Newest(s, n) \in Seq(S)
           /\ Len(Newest(s, n)) <= n /\ Len(Newest(s, n)) <= Len(s)
           /\ Newest(s, n) = <<>> => s = <<>>
           /\ \A i \in 1..Len(Newest(s, n)) :
                 Newest(s, n)[i] = s[Len(s) - Len(Newest(s, n)) + i]
  <1>1. Len(s) \in Nat
    OBVIOUS
  <1>2. CASE Len(s) > n
    <2>1. Newest(s, n) = SubSeq(s, Len(s) - n + 1, Len(s))
      BY <1>2 DEF Newest
    <2>2. /\ Len(s) - n + 1 \in 1..Len(s) + 1 /\ Len(s) - n + 1 \in Int /\ Len(s) \in 0..Len(s)
          /\ Len(s) - (Len(s) - n + 1) + 1 = n /\ Len(s) - n + 1 <= Len(s)
      BY <1>1, <1>2
    <2>3. /\ SubSeq(s, Len(s) - n + 1, Len(s)) \in Seq(S)
          /\ Len(SubSeq(s, Len(s) - n + 1, Len(s))) = n
          /\ \A i \in 1..n :
                SubSeq(s, Len(s) - n + 1, Len(s))[i] = s[Len(s) - n + i]
      BY <1>1, <1>2
    <2>4. Newest(s, n) # <<>>
      BY <2>1, <2>3, EmptySeq
    <2> QED BY <1>1, <1>2, <2>1, <2>3, <2>4
  <1>3. CASE ~(Len(s) > n)
    <2>1. Newest(s, n) = s
      BY <1>3 DEF Newest
    <2>2. \A i \in 1..Len(s) : Len(s) - Len(s) + i = i
      BY <1>1
    <2> QED BY <1>1, <1>3, <2>1, <2>2
  <1> QED BY <1>2, <1>3

-----------------------------------------------------------------------------
(* Types, slots and queues.                                                 *)

LEMMA Bounds ==
    /\ MaxStreams \in Nat \ {0} /\ QueueMax \in Nat \ {0}
    /\ \A n \in Capacities : n \in Nat \ {0}
    /\ MaxLines \in Nat /\ MaxBoots \in Nat /\ MaxErrors \in Nat
    /\ NoOne \notin Clients
  BY LogAssumption

\* The empty sequence is one of whatever.
LEMMA Nothing ==
    \A S : <<>> \in Seq(S) /\ Len(<<>>) = 0
  OBVIOUS

LEMMA InitSafe == Init => TypeOK /\ PlaceInv
  <1> SUFFICES ASSUME Init PROVE TypeOK /\ PlaceInv
    OBVIOUS
  <1>1. TypeOK
    <2>1. 0 \in 0..MaxLines /\ 0 \in 0..MaxErrors /\ 1 \in Nat \ {0} /\ 0 \in Nat
      BY Bounds
    <2>2. /\ lines \in Seq(1..MaxLines) /\ Len(lines) <= capacity /\ capacity \in Capacities
          /\ queue \in [Conns -> Seq(1..MaxLines)]
          /\ \A c \in Conns : Len(queue[c]) <= QueueMax
      BY Bounds, Nothing DEF Init
    <2>3. net \in [Clients -> Seq(Frames)] /\ shown \in [Clients -> Seq(Rows)]
      BY Nothing DEF Init
    <2>4. /\ bootId \in [Clients -> Nat] /\ lastSeq \in [Clients -> 0..MaxLines]
          /\ reader \in [Conns -> Clients \cup {NoOne}]
      BY <2>1 DEF Init
    <2> QED BY <2>1, <2>2, <2>3, <2>4 DEF Init, TypeOK
  <1>2. PlaceInv
    <2>1. IsFiniteSet(slot) /\ active = Cardinality(slot) /\ active <= MaxStreams
      BY FS_EmptySet, Bounds DEF Init
    <2> QED BY <2>1 DEF Init, PlaceInv, NothingLeaks
  <1> QED BY <1>1, <1>2

\* A line is logged.
LEMMA EmitType ==
    ASSUME TypeOK, Emit PROVE TypeOK'
  <1> USE DEF buffer, streams, clients
  <1>1. /\ seq \in Nat /\ seq' = seq + 1 /\ seq' \in 1..MaxLines /\ seq' \in 0..MaxLines
        /\ capacity \in Nat \ {0} /\ lines \in Seq(1..MaxLines)
    BY Bounds DEF Emit, TypeOK
  <1>2. lines' \in Seq(1..MaxLines) /\ Len(lines') <= capacity
    <2>1. Append(lines, seq') \in Seq(1..MaxLines)
      BY <1>1, AppendFacts
    <2> QED BY <1>1, <2>1, NewestFacts DEF Emit
  <1>3. ASSUME NEW c \in Conns
        PROVE  queue'[c] \in Seq(1..MaxLines) /\ Len(queue'[c]) <= QueueMax
    <2>1. queue[c] \in Seq(1..MaxLines) /\ Len(queue[c]) <= QueueMax /\ Len(queue[c]) \in Nat
      BY DEF TypeOK
    <2>2. \/ queue'[c] = queue[c]
          \/ queue'[c] = Append(queue[c], seq') /\ Len(queue[c]) # QueueMax
      BY DEF Emit, Offer, Full
    <2>3. CASE queue'[c] = queue[c]
      BY <2>1, <2>3
    <2>4. CASE queue'[c] = Append(queue[c], seq') /\ Len(queue[c]) # QueueMax
      <3>1. /\ Append(queue[c], seq') \in Seq(1..MaxLines)
            /\ Len(Append(queue[c], seq')) = Len(queue[c]) + 1
        BY <1>1, <2>1, AppendFacts
      <3> QED BY <2>1, <2>4, <3>1, Bounds
    <2> QED BY <2>2, <2>3, <2>4
  <1>4. queue' \in [Conns -> Seq(1..MaxLines)]
    <2>1. queue' = [c \in Conns |-> queue'[c]]
      BY DEF Emit
    <2> QED BY <1>3, <2>1
  <1>5. UNCHANGED <<boot, capacity, subs, active, slot, place, reader, page, bootId,
                    lastSeq, net, shown, errors>>
    BY DEF Emit
  <1> QED BY <1>1, <1>2, <1>3, <1>4, <1>5 DEF TypeOK

\* The ring is resized, or the server starts again.
LEMMA BufferType ==
    ASSUME TypeOK, Reconfigure \/ Restart PROVE TypeOK'
  <1> USE DEF buffer, streams, clients
  <1>1. CASE Reconfigure
    <2>1. PICK n \in Capacities : capacity' = n /\ lines' = Newest(lines, n)
      BY <1>1 DEF Reconfigure, SetCapacity
    <2>2. lines \in Seq(1..MaxLines) /\ n \in Nat \ {0}
      BY Bounds DEF TypeOK
    <2>3. lines' \in Seq(1..MaxLines) /\ Len(lines') <= capacity' /\ capacity' \in Capacities
      BY <2>1, <2>2, NewestFacts
    <2>4. UNCHANGED <<boot, seq, queue, subs, active, slot, place, reader, page, bootId,
                      lastSeq, net, shown, errors>>
      BY <1>1 DEF Reconfigure
    <2> QED BY <2>3, <2>4 DEF TypeOK
  <1>2. CASE Restart
    <2>1. /\ boot' \in Nat \ {0} /\ seq' \in 0..MaxLines /\ active' \in Nat
          /\ lines' = <<>> /\ capacity' = capacity /\ capacity \in Nat \ {0}
          /\ capacity \in Capacities
      BY <1>2, Bounds DEF Restart, TypeOK
    <2>2. lines' \in Seq(1..MaxLines) /\ Len(lines') <= capacity'
      BY <2>1, Nothing
    <2>3. /\ queue' \in [Conns -> Seq(1..MaxLines)]
          /\ \A c \in Conns : Len(queue'[c]) <= QueueMax
      BY <1>2, Nothing, Bounds DEF Restart
    <2>4. /\ place' \in [Conns -> {"none", "unstarted", "subscribed", "streaming",
                                   "closing", "closed", "released"}]
          /\ reader' \in [Conns -> Clients \cup {NoOne}]
          /\ subs' \subseteq Conns /\ slot' \subseteq Conns
      BY <1>2 DEF Restart
    <2>5. page' \in [Clients -> {"away", "rendered", "waiting", "asking", "open",
                                 "broken", "left"}]
      BY <1>2 DEF Restart, TypeOK
    <2>6. UNCHANGED <<bootId, lastSeq, net, shown, errors>>
      BY <1>2 DEF Restart
    <2> QED BY <2>1, <2>2, <2>3, <2>4, <2>5, <2>6 DEF TypeOK
  <1> QED BY <1>1, <1>2

Places == {"none", "unstarted", "subscribed", "streaming", "closing", "closed",
           "released"}

\* What a stream writes is a frame of its process; it goes on streaming if
\* somebody reads it.
LEMMA SendFacts ==
    ASSUME TypeOK, NEW c \in Conns, NEW ns \in Seq(1..MaxLines), Send(c, ns)
    PROVE  /\ place' \in [Conns -> Places] /\ net' \in [Clients -> Seq(Frames)]
           /\ [boot |-> boot, lines |-> ns] \in Frames
  <1>1. [boot |-> boot, lines |-> ns] \in Frames /\ place \in [Conns -> Places]
    BY DEF TypeOK, Frames, Places
  <1>2. CASE reader[c] = NoOne
    BY <1>1, <1>2 DEF Send, TypeOK, Places
  <1>3. CASE reader[c] # NoOne
    <2>1. reader[c] \in Clients
      BY <1>3 DEF TypeOK
    <2>2. /\ place' = [place EXCEPT ![c] = "streaming"]
          /\ net' = [net EXCEPT ![reader[c]]
                       = Append(net[reader[c]], [boot |-> boot, lines |-> ns])]
      BY <1>3, <2>1 DEF Send, TypeOK
    <2>3. net \in [Clients -> Seq(Frames)]
      BY DEF TypeOK
    <2>4. Append(net[reader[c]], [boot |-> boot, lines |-> ns]) \in Seq(Frames)
      BY <1>1, <2>1, <2>3, AppendFacts
    <2>5. net' \in [Clients -> Seq(Frames)]
      BY <2>1, <2>2, <2>3, <2>4
    <2> QED BY <1>1, <2>2, <2>5 DEF Places
  <1> QED BY <1>2, <1>3

LEMMA StreamType ==
    ASSUME TypeOK, PlaceInv, NEW c \in Conns, Stream(c) PROVE TypeOK'
  <1> USE DEF buffer, streams, clients
  <1>0. /\ <<>> \in Seq(1..MaxLines) /\ Len(<<>>) <= QueueMax
        /\ queue \in [Conns -> Seq(1..MaxLines)]
        /\ \A d \in Conns : Len(queue[d]) <= QueueMax
    BY Bounds, Nothing DEF TypeOK
  <1>1. CASE Subscribe(c)
    <2>1. /\ queue' \in [Conns -> Seq(1..MaxLines)]
          /\ \A d \in Conns : Len(queue'[d]) <= QueueMax
      BY <1>0, <1>1 DEF Subscribe
    <2>2. /\ subs' \subseteq Conns
          /\ place' \in [Conns -> Places]
          /\ UNCHANGED <<boot, seq, lines, capacity, active, slot, reader, page,
                         bootId, lastSeq, net, shown, errors>>
      BY <1>1 DEF Subscribe, TypeOK, Places
    <2> QED BY <2>1, <2>2 DEF TypeOK, Places
  <1>2. CASE Snapshot(c)
    <2>1. place' \in [Conns -> Places] /\ net' \in [Clients -> Seq(Frames)]
      <3>1. CASE lines # <<>>
        <4>1. lines \in Seq(1..MaxLines) /\ Send(c, lines)
          BY <1>2, <3>1 DEF Snapshot, TypeOK
        <4> QED BY <4>1, SendFacts
      <3>2. CASE lines = <<>>
        BY <1>2, <3>2 DEF Snapshot, TypeOK, Places
      <3> QED BY <3>1, <3>2
    <2>2. UNCHANGED <<boot, seq, lines, capacity, queue, subs, active, slot, reader,
                      page, bootId, lastSeq, shown, errors>>
      BY <1>2 DEF Snapshot
    <2> QED BY <2>1, <2>2 DEF TypeOK, Places
  <1>3. CASE Drain(c)
    <2>1. queue[c] \in Seq(1..MaxLines) /\ Send(c, queue[c])
      BY <1>0, <1>3 DEF Drain
    <2>2. place' \in [Conns -> Places] /\ net' \in [Clients -> Seq(Frames)]
      BY <2>1, SendFacts
    <2>3. /\ queue' \in [Conns -> Seq(1..MaxLines)]
          /\ \A d \in Conns : Len(queue'[d]) <= QueueMax
      BY <1>0, <1>3 DEF Drain
    <2>4. UNCHANGED <<boot, seq, lines, capacity, subs, active, slot, reader, page,
                      bootId, lastSeq, shown, errors>>
      BY <1>3 DEF Drain
    <2> QED BY <2>2, <2>3, <2>4 DEF TypeOK, Places
  <1>4. CASE Heartbeat(c) \/ CloseUnstarted(c)
    <2>1. /\ place' \in [Conns -> Places]
          /\ UNCHANGED <<boot, seq, lines, capacity, queue, subs, active, slot, reader,
                         page, bootId, lastSeq, net, shown, errors>>
      BY <1>4 DEF Heartbeat, CloseUnstarted, TypeOK, Places
    <2> QED BY <2>1 DEF TypeOK, Places
  <1>5. CASE CloseBatches(c)
    <2>1. /\ queue' \in [Conns -> Seq(1..MaxLines)]
          /\ \A d \in Conns : Len(queue'[d]) <= QueueMax
      BY <1>0, <1>5 DEF CloseBatches
    <2>2. /\ subs' \subseteq Conns
          /\ place' \in [Conns -> Places]
          /\ UNCHANGED <<boot, seq, lines, capacity, active, slot, reader, page,
                         bootId, lastSeq, net, shown, errors>>
      BY <1>5 DEF CloseBatches, TypeOK, Places
    <2> QED BY <2>1, <2>2 DEF TypeOK, Places
  <1>6. CASE EndGuarded(c) \/ CloseResponse(c)
    <2>1. active' \in Nat /\ slot' \subseteq Conns
      <3>1. Release(c) /\ active \in Nat /\ slot \subseteq Conns
        BY <1>6 DEF EndGuarded, CloseResponse, TypeOK
      <3>2. IsFiniteSet(slot) /\ active = Cardinality(slot)
        BY DEF PlaceInv, NothingLeaks
      <3>3. c \in slot => active # 0
        BY <3>2, FS_EmptySet
      <3> QED BY <3>1, <3>3 DEF Release
    <2>2. /\ place' \in [Conns -> Places]
          /\ UNCHANGED <<boot, seq, lines, capacity, queue, subs, reader, page,
                         bootId, lastSeq, net, shown, errors>>
      BY <1>6 DEF EndGuarded, CloseResponse, TypeOK, Places
    <2> QED BY <2>1, <2>2 DEF TypeOK, Places
  <1> QED BY <1>1, <1>2, <1>3, <1>4, <1>5, <1>6 DEF Stream

Pages == {"away", "rendered", "waiting", "asking", "open", "broken", "left"}

\* What a page shows of a snapshot, and of a frame: rows.
RowsOf(k, ns) == [i \in DOMAIN ns |-> [boot |-> k, seq |-> ns[i]]]

Marker(b, frame) ==
    IF Restarted(b, frame) THEN <<[boot |-> frame.boot, seq |-> 0]>> ELSE <<>>

LEMMA RowsType ==
    ASSUME NEW k \in Nat, NEW ns \in Seq(1..MaxLines)
    PROVE  /\ RowsOf(k, ns) \in Seq(Rows) /\ Len(RowsOf(k, ns)) = Len(ns)
           /\ \A i \in 1..Len(ns) : /\ RowsOf(k, ns)[i].boot = k
                                    /\ RowsOf(k, ns)[i].seq = ns[i]
  <1>1. Len(ns) \in Nat /\ DOMAIN ns = 1..Len(ns)
    OBVIOUS
  <1>2. ASSUME NEW i \in 1..Len(ns) PROVE [boot |-> k, seq |-> ns[i]] \in Rows
    <2>1. ns[i] \in 1..MaxLines
      BY ElementOfSeq
    <2> QED BY <2>1 DEF Rows
  <1>3. [i \in 1..Len(ns) |-> [boot |-> k, seq |-> ns[i]]] \in Seq(Rows)
    BY <1>1, <1>2, IsASeq
  <1> QED BY <1>1, <1>3 DEF RowsOf

LEMMA MarkerType ==
    ASSUME NEW b \in Clients, NEW frame \in Frames
    PROVE  Marker(b, frame) \in Seq(Rows)
  <1>1. [boot |-> frame.boot, seq |-> 0] \in Rows
    BY Bounds DEF Frames, Rows
  <1> QED BY <1>1 DEF Marker

\* What the page does with a frame.
LEMMA ReceiveFacts ==
    ASSUME TypeOK, NEW b \in Clients, Receive(b)
    PROVE  \E frame \in Frames, mark \in 0..MaxLines, fresh \in Seq(1..MaxLines) :
              /\ net[b] # <<>> /\ frame = Head(net[b]) /\ page[b] \in {"open", "broken"}
              /\ mark = IF Restarted(b, frame) THEN 0 ELSE lastSeq[b]
              /\ fresh = Fresh(frame.lines, mark)
              /\ bootId' = [bootId EXCEPT ![b] = frame.boot]
              /\ lastSeq' = [lastSeq EXCEPT ![b] = IF fresh = <<>> THEN mark ELSE Last(fresh)]
              /\ shown' = [shown EXCEPT ![b] =
                    (shown[b] \o Marker(b, frame))
                    \o RowsOf(frame.boot, fresh)]
              /\ net' = [net EXCEPT ![b] = Tail(net[b])]
              /\ UNCHANGED <<buffer, streams, page, missable, errors>>
  <1> DEFINE frame == Head(net[b])
             mark == IF Restarted(b, frame) THEN 0 ELSE lastSeq[b]
             fresh == Fresh(frame.lines, mark)
  <1>1. net[b] # <<>> /\ net \in [Clients -> Seq(Frames)] /\ lastSeq[b] \in 0..MaxLines
    BY DEF Receive, TypeOK
  <1>2. frame \in Frames
    <2>1. net[b] \in Seq(Frames)
      BY <1>1
    <2> QED BY <1>1, <2>1, TailFacts
  <1>3. mark \in 0..MaxLines
    BY <1>1, Bounds
  <1>4. fresh \in Seq(1..MaxLines)
    <2>1. frame.lines \in Seq(1..MaxLines) /\ 1..MaxLines \in SUBSET Nat /\ mark \in Nat
      BY <1>2, <1>3 DEF Frames
    <2> HIDE DEF frame, mark
    <2> QED BY <2>1, FreshPicks
  <1>6. /\ page[b] \in {"open", "broken"}
        /\ bootId' = [bootId EXCEPT ![b] = frame.boot]
        /\ lastSeq' = [lastSeq EXCEPT ![b] = IF fresh = <<>> THEN mark ELSE Last(fresh)]
        /\ UNCHANGED <<buffer, streams, page, missable, errors>>
    BY DEF Receive
  <1>7. net' = [net EXCEPT ![b] = Tail(net[b])]
    BY <1>1 DEF Receive
  <1>8. shown' = [shown EXCEPT ![b] =
            (shown[b] \o Marker(b, frame))
            \o RowsOf(frame.boot, fresh)]
    BY DEF Receive, Marker, RowsOf
  <1> HIDE DEF frame, mark, fresh
  <1>9. /\ frame = Head(net[b])
        /\ mark = (IF Restarted(b, frame) THEN 0 ELSE lastSeq[b])
        /\ fresh = Fresh(frame.lines, mark)
    BY DEF frame, mark, fresh
  <1> QED BY <1>1, <1>2, <1>3, <1>4, <1>6, <1>7, <1>8, <1>9, Zenon

\* What a page does alone.
LEMMA ClientType ==
    ASSUME TypeOK, NEW b \in Clients,
           \/ RenderPage(b) \/ InitPage(b) \/ OpenStream(b) \/ Refuse(b)
           \/ LoseStream(b) \/ Leave(b)
    PROVE  TypeOK'
  <1> USE DEF buffer, streams, clients
  <1>0. /\ page \in [Clients -> Pages] /\ shown \in [Clients -> Seq(Rows)]
        /\ net \in [Clients -> Seq(Frames)] /\ <<>> \in Seq(Frames) /\ <<>> \in Seq(Rows)
        /\ boot \in Nat /\ bootId \in [Clients -> Nat] /\ lastSeq \in [Clients -> 0..MaxLines]
        /\ reader \in [Conns -> Clients \cup {NoOne}] /\ 0 \in 0..MaxLines
        /\ Unread(b) \in [Conns -> Clients \cup {NoOne}]
    BY Bounds DEF TypeOK, Pages, Unread
  <1>1. CASE RenderPage(b)
    <2>1. RowsOf(boot, lines) \in Seq(Rows)
      BY <1>0, RowsType DEF TypeOK
    <2>2. shown' = [shown EXCEPT ![b] = RowsOf(boot, lines)]
      BY <1>1 DEF RenderPage, Line, RowsOf
    <2>3. shown' \in [Clients -> Seq(Rows)]
      BY <1>0, <2>1, <2>2
    <2>4. /\ page' \in [Clients -> Pages] /\ bootId' \in [Clients -> Nat]
          /\ UNCHANGED <<boot, seq, lines, capacity, queue, subs, active, slot, place,
                         reader, lastSeq, net, errors>>
      BY <1>0, <1>1 DEF RenderPage, Pages
    <2> QED BY <2>3, <2>4 DEF TypeOK, Pages
  <1>2. CASE InitPage(b)
    <2>1. UNCHANGED <<boot, seq, lines, capacity, queue, subs, active, slot, place,
                      reader, bootId, net, shown, errors>>
      BY <1>2 DEF InitPage
    <2>2. page' \in [Clients -> Pages]
      BY <1>0, <1>2 DEF InitPage, Pages
    <2>3. lastSeq' \in [Clients -> 0..MaxLines]
      <3>1. shown[b] # <<>> => Last(shown[b]) \in Rows
        BY <1>0, LastFacts
      <3>2. shown[b] # <<>> => Last(shown[b]).seq \in 0..MaxLines
        BY <3>1 DEF Rows
      <3> QED BY <1>0, <1>2, <3>2 DEF InitPage
    <2> QED BY <2>1, <2>2, <2>3 DEF TypeOK, Pages
  <1>3. CASE OpenStream(b) \/ Refuse(b)
    <2>1. /\ page' \in [Clients -> Pages]
          /\ UNCHANGED <<boot, seq, lines, capacity, queue, subs, active, slot, place,
                         reader, bootId, lastSeq, net, shown, errors>>
      BY <1>0, <1>3 DEF OpenStream, Refuse, Pages
    <2> QED BY <2>1 DEF TypeOK, Pages
  <1>4. CASE LoseStream(b)
    <2>1. /\ page' \in [Clients -> Pages] /\ net' \in [Clients -> Seq(Frames)]
          /\ reader' \in [Conns -> Clients \cup {NoOne}] /\ errors' \in 0..MaxErrors
      BY <1>0, <1>4, Bounds DEF LoseStream, Pages, TypeOK
    <2>2. UNCHANGED <<boot, seq, lines, capacity, queue, subs, active, slot, place,
                      bootId, lastSeq, shown>>
      BY <1>4 DEF LoseStream
    <2> QED BY <2>1, <2>2 DEF TypeOK, Pages
  <1>5. CASE Leave(b)
    <2>1. /\ page' \in [Clients -> Pages] /\ net' \in [Clients -> Seq(Frames)]
          /\ shown' \in [Clients -> Seq(Rows)] /\ bootId' \in [Clients -> Nat]
          /\ lastSeq' \in [Clients -> 0..MaxLines]
          /\ reader' \in [Conns -> Clients \cup {NoOne}]
      BY <1>0, <1>5 DEF Leave, Pages
    <2>2. UNCHANGED <<boot, seq, lines, capacity, queue, subs, active, slot, place, errors>>
      BY <1>5 DEF Leave
    <2> QED BY <2>1, <2>2 DEF TypeOK, Pages
  <1> QED BY <1>1, <1>2, <1>3, <1>4, <1>5

\* A stream is accepted, a frame received.
LEMMA AcceptType ==
    ASSUME TypeOK, NEW b \in Clients, NEW c \in Conns, Accept(b, c) PROVE TypeOK'
  <1> USE DEF buffer, streams, clients
  <1>1. /\ place' \in [Conns -> Places] /\ page' \in [Clients -> Pages]
        /\ reader' \in [Conns -> Clients \cup {NoOne}]
        /\ active' \in Nat /\ slot' \subseteq Conns
    BY DEF Accept, TypeOK, Places, Pages
  <1>2. UNCHANGED <<boot, seq, lines, capacity, queue, subs, bootId, lastSeq, net,
                    shown, errors>>
    BY DEF Accept
  <1> QED BY <1>1, <1>2 DEF TypeOK, Places, Pages

LEMMA ReceiveType ==
    ASSUME TypeOK, NEW b \in Clients, Receive(b) PROVE TypeOK'
  <1> USE DEF buffer, streams, clients
  <1>1. PICK frame \in Frames, mark \in 0..MaxLines, fresh \in Seq(1..MaxLines) :
              /\ net[b] # <<>> /\ frame = Head(net[b]) /\ page[b] \in {"open", "broken"}
              /\ mark = IF Restarted(b, frame) THEN 0 ELSE lastSeq[b]
              /\ fresh = Fresh(frame.lines, mark)
              /\ bootId' = [bootId EXCEPT ![b] = frame.boot]
              /\ lastSeq' = [lastSeq EXCEPT ![b] = IF fresh = <<>> THEN mark ELSE Last(fresh)]
              /\ shown' = [shown EXCEPT ![b] =
                    (shown[b] \o Marker(b, frame)) \o RowsOf(frame.boot, fresh)]
              /\ net' = [net EXCEPT ![b] = Tail(net[b])]
              /\ UNCHANGED <<buffer, streams, page, missable, errors>>
    BY ReceiveFacts, Zenon
  <1>2. frame.boot \in Nat
    BY DEF Frames
  <1>3. /\ shown \in [Clients -> Seq(Rows)] /\ net \in [Clients -> Seq(Frames)]
        /\ bootId \in [Clients -> Nat] /\ lastSeq \in [Clients -> 0..MaxLines]
    BY DEF TypeOK
  <1>4. bootId' \in [Clients -> Nat]
    BY <1>1, <1>2, <1>3
  <1>5. lastSeq' \in [Clients -> 0..MaxLines]
    <2>1. fresh # <<>> => Last(fresh) \in 1..MaxLines
      BY LastFacts
    <2>2. (IF fresh = <<>> THEN mark ELSE Last(fresh)) \in 0..MaxLines
      BY <2>1
    <2> QED BY <1>1, <1>3, <2>2
  <1>6. shown' \in [Clients -> Seq(Rows)]
    <2>1. /\ shown[b] \in Seq(Rows) /\ Marker(b, frame) \in Seq(Rows)
          /\ RowsOf(frame.boot, fresh) \in Seq(Rows)
      BY <1>2, <1>3, MarkerType, RowsType
    <2>2. (shown[b] \o Marker(b, frame)) \o RowsOf(frame.boot, fresh) \in Seq(Rows)
      BY <2>1
    <2> QED BY <1>1, <1>3, <2>2
  <1>7. net' \in [Clients -> Seq(Frames)]
    <2>1. net[b] \in Seq(Frames)
      BY <1>3
    <2>2. Tail(net[b]) \in Seq(Frames)
      BY <1>1, <2>1, TailFacts
    <2> QED BY <1>1, <1>3, <2>2
  <1>8. UNCHANGED <<boot, seq, lines, capacity, queue, subs, active, slot, place, reader,
                    page, errors>>
    BY <1>1
  <1> QED BY <1>4, <1>5, <1>6, <1>7, <1>8 DEF TypeOK

\* The pages and the buffer: who has a slot, a queue or a reader.
LEMMA OthersPlace ==
    ASSUME TypeOK, PlaceInv,
           \/ Emit \/ Reconfigure \/ Restart
           \/ \E b \in Clients :
                 \/ RenderPage(b) \/ InitPage(b) \/ OpenStream(b) \/ Refuse(b)
                 \/ Receive(b) \/ LoseStream(b) \/ Leave(b)
    PROVE  PlaceInv'
  <1> USE DEF buffer, streams, clients
  <1>1. CASE Emit
    <2>1. /\ UNCHANGED <<subs, active, slot, place, reader>>
          /\ \A c \in Conns : c \notin subs => queue'[c] = queue[c]
      BY <1>1 DEF Emit
    <2> QED BY <2>1 DEF PlaceInv, NothingLeaks
  <1>2. CASE Reconfigure
    <2>1. UNCHANGED <<queue, subs, active, slot, place, reader>>
      BY <1>2 DEF Reconfigure
    <2> QED BY <2>1 DEF PlaceInv, NothingLeaks
  <1>3. CASE Restart
    <2>1. active' = Cardinality(slot') /\ IsFiniteSet(slot') /\ active' <= MaxStreams
      BY <1>3, FS_EmptySet, Bounds DEF Restart
    <2>2. /\ subs' = {} /\ slot' = {} /\ queue' = [c \in Conns |-> <<>>]
          /\ place' = [c \in Conns |-> "none"] /\ reader' = [c \in Conns |-> NoOne]
      BY <1>3 DEF Restart
    <2> QED BY <2>1, <2>2 DEF PlaceInv, NothingLeaks
  <1>4. ASSUME NEW b \in Clients,
               RenderPage(b) \/ InitPage(b) \/ OpenStream(b) \/ Refuse(b) \/ Receive(b)
        PROVE  PlaceInv'
    <2>1. UNCHANGED <<queue, subs, active, slot, place, reader>>
      BY <1>4 DEF RenderPage, InitPage, OpenStream, Refuse, Receive
    <2> QED BY <2>1 DEF PlaceInv, NothingLeaks
  <1>5. ASSUME NEW b \in Clients, LoseStream(b) \/ Leave(b) PROVE PlaceInv'
    <2>1. UNCHANGED <<queue, subs, active, slot, place>> /\ reader' = Unread(b)
      BY <1>5 DEF LoseStream, Leave
    <2>2. \A c \in Conns : reader'[c] # NoOne => reader[c] # NoOne
      BY <2>1 DEF Unread
    <2> QED BY <2>1, <2>2 DEF PlaceInv, NothingLeaks
  <1> QED BY <1>1, <1>2, <1>3, <1>4, <1>5

LEMMA AcceptPlace ==
    ASSUME TypeOK, PlaceInv, NEW b \in Clients, NEW c \in Conns, Accept(b, c)
    PROVE  PlaceInv'
  <1>1. /\ place[c] = "none" /\ active < MaxStreams /\ active' = active + 1
        /\ slot' = slot \cup {c} /\ UNCHANGED <<queue, subs>>
        /\ place' = [place EXCEPT ![c] = "unstarted"]
        /\ reader' = [reader EXCEPT ![c] = b]
        /\ place \in [Conns -> Places] /\ reader \in [Conns -> Clients \cup {NoOne}]
        /\ active \in Nat
    BY DEF Accept, TypeOK, Places
  <1>2. c \notin slot /\ IsFiniteSet(slot) /\ active = Cardinality(slot)
    BY <1>1 DEF PlaceInv, NothingLeaks
  <1>3. IsFiniteSet(slot') /\ active' = Cardinality(slot') /\ active' <= MaxStreams
    BY <1>1, <1>2, FS_AddElement, Bounds
  <1> QED BY <1>1, <1>3 DEF PlaceInv, NothingLeaks

LEMMA StreamPlace ==
    ASSUME TypeOK, PlaceInv, NEW c \in Conns, Stream(c) PROVE PlaceInv'
  <1> USE DEF buffer, streams, clients
  <1>0. place \in [Conns -> Places] /\ queue \in [Conns -> Seq(1..MaxLines)]
    BY DEF TypeOK, Places
  <1>1. CASE Subscribe(c)
    <2>1. /\ place[c] = "unstarted" /\ subs' = subs \cup {c}
          /\ queue' = [queue EXCEPT ![c] = <<>>]
          /\ place' = [place EXCEPT ![c] = "subscribed"]
          /\ UNCHANGED <<active, slot, reader>>
      BY <1>1 DEF Subscribe
    <2> QED BY <1>0, <2>1 DEF PlaceInv, NothingLeaks
  <1>2. CASE Snapshot(c) \/ Drain(c)
    <2>1. /\ place[c] \in {"subscribed", "streaming"}
          /\ UNCHANGED <<subs, active, slot, reader>>
          /\ (queue' = queue \/ queue' = [queue EXCEPT ![c] = <<>>])
      BY <1>2 DEF Snapshot, Drain
    <2>2. \/ place' = [place EXCEPT ![c] = "streaming"]
          \/ place' = [place EXCEPT ![c] = "closing"] /\ reader[c] = NoOne
      BY <1>2 DEF Snapshot, Drain, Send
    <2> QED BY <1>0, <2>1, <2>2 DEF PlaceInv, NothingLeaks
  <1>3. CASE Heartbeat(c)
    <2>1. /\ place[c] = "streaming" /\ reader[c] = NoOne
          /\ place' = [place EXCEPT ![c] = "closing"]
          /\ UNCHANGED <<queue, subs, active, slot, reader>>
      BY <1>3 DEF Heartbeat
    <2> QED BY <1>0, <2>1 DEF PlaceInv, NothingLeaks
  <1>4. CASE CloseUnstarted(c)
    <2>1. /\ place[c] = "unstarted" /\ reader[c] = NoOne
          /\ place' = [place EXCEPT ![c] = "released"]
          /\ UNCHANGED <<queue, subs, active, slot, reader>>
      BY <1>4 DEF CloseUnstarted
    <2> QED BY <1>0, <2>1 DEF PlaceInv, NothingLeaks
  <1>5. CASE CloseBatches(c)
    <2>1. /\ place[c] = "closing" /\ subs' = subs \ {c}
          /\ queue' = [queue EXCEPT ![c] = <<>>]
          /\ place' = [place EXCEPT ![c] = "closed"]
          /\ UNCHANGED <<active, slot, reader>>
      BY <1>5 DEF CloseBatches
    <2> QED BY <1>0, <2>1 DEF PlaceInv, NothingLeaks
  <1>6. CASE EndGuarded(c) \/ CloseResponse(c)
    <2>1. /\ slot' = slot \ {c} /\ active' = IF c \in slot THEN active - 1 ELSE active
          /\ UNCHANGED <<queue, subs, reader>>
          /\ \/ place[c] = "closed" /\ place' = [place EXCEPT ![c] = "released"]
             \/ place[c] = "released" /\ place' = [place EXCEPT ![c] = "none"]
      BY <1>6 DEF EndGuarded, CloseResponse, Release
    <2>2. IsFiniteSet(slot) /\ active = Cardinality(slot) /\ active <= MaxStreams /\ active \in Nat
      BY DEF PlaceInv, NothingLeaks, TypeOK
    <2>3. /\ IsFiniteSet(slot') /\ active' = Cardinality(slot') /\ active' <= MaxStreams
      BY <2>1, <2>2, FS_RemoveElement, Bounds
    <2>4. c \notin slot'
      BY <2>1
    <2>5. \A d \in Conns : d # c => (d \in slot' <=> d \in slot)
      BY <2>1
    <2>6. reader[c] = NoOne /\ c \notin subs
      BY <2>1 DEF PlaceInv
    <2> QED BY <1>0, <2>1, <2>3, <2>4, <2>5, <2>6 DEF PlaceInv, NothingLeaks
  <1> QED BY <1>1, <1>2, <1>3, <1>4, <1>5, <1>6 DEF Stream

\* The types and what the places of the streams say are inductive together.
LEMMA NextSafe ==
    ASSUME TypeOK, PlaceInv, [Next]_vars PROVE TypeOK' /\ PlaceInv'
  <1>1. CASE Emit
    BY <1>1, EmitType, OthersPlace
  <1>2. CASE Reconfigure \/ Restart
    BY <1>2, BufferType, OthersPlace
  <1>3. ASSUME NEW c \in Conns, Stream(c) PROVE TypeOK' /\ PlaceInv'
    BY <1>3, StreamType, StreamPlace
  <1>4. ASSUME NEW b \in Clients,
               \/ RenderPage(b) \/ InitPage(b) \/ OpenStream(b) \/ Refuse(b)
               \/ LoseStream(b) \/ Leave(b)
        PROVE  TypeOK' /\ PlaceInv'
    BY <1>4, ClientType, OthersPlace
  <1>5. ASSUME NEW b \in Clients, Receive(b) PROVE TypeOK' /\ PlaceInv'
    BY <1>5, ReceiveType, OthersPlace
  <1>6. ASSUME NEW b \in Clients, NEW c \in Conns, Accept(b, c)
        PROVE  TypeOK' /\ PlaceInv'
    BY <1>6, AcceptType, AcceptPlace
  <1>7. CASE UNCHANGED vars
    <2>1. UNCHANGED <<boot, seq, lines, capacity, queue, subs, active, slot, place,
                      reader, page, bootId, lastSeq, net, shown, errors>>
      BY <1>7 DEF vars, buffer, streams, clients
    <2> QED BY <2>1 DEF TypeOK, PlaceInv, NothingLeaks
  <1> QED BY <1>1, <1>2, <1>3, <1>4, <1>5, <1>6, <1>7 DEF Next, Connect

LEMMA SafeAlways == Spec => [](TypeOK /\ PlaceInv)
  <1>1. Init => TypeOK /\ PlaceInv
    BY InitSafe
  <1>2. (TypeOK /\ PlaceInv) /\ [Next]_vars => (TypeOK /\ PlaceInv)'
    BY NextSafe
  <1> QED BY <1>1, <1>2, PTL DEF Spec

\* TypeOK is an invariant, and so is the room it leaves: no queue grows beyond
\* _SUBSCRIBER_QUEUE_MAX and the ring never beyond its capacity, also while the
\* settings resize it.
THEOREM TypeCorrect == Spec => []TypeOK
  BY SafeAlways, PTL

\* NothingLeaks: however a stream ends, before it began, by a lost client, or by
\* both ways of releasing its slot at once, the slots that are out are counted
\* right, and an ended stream leaves neither a slot nor a queue behind.
THEOREM SlotsComeBack == Spec => []NothingLeaks
  <1>1. PlaceInv => NothingLeaks
    BY DEF PlaceInv
  <1> QED BY <1>1, SafeAlways, PTL

-----------------------------------------------------------------------------
(* What a step leaves alone.                                                *)

\* The marks are numbers of lines, and there is a last line to every frame.
LEMMA MarkTypes ==
    ASSUME TypeOK, NetInv, NEW b \in Clients
    PROVE  /\ EndMark(b) \in 0..MaxLines
           /\ Len(net[b]) \in Nat /\ DOMAIN net[b] = 1..Len(net[b])
           /\ \A i \in DOMAIN net[b] :
                 /\ MarkBefore(b, i) \in 0..MaxLines
                 /\ net[b][i] \in Frames /\ net[b][i].boot \in Nat
                 /\ net[b][i].lines \in Seq(1..MaxLines)
                 /\ Last(net[b][i].lines) \in 1..MaxLines
  <1>1. /\ net[b] \in Seq(Frames) /\ Len(net[b]) \in Nat /\ DOMAIN net[b] = 1..Len(net[b])
        /\ lastSeq[b] \in 0..MaxLines /\ 0 \in 0..MaxLines
    BY Bounds DEF TypeOK
  <1>2. ASSUME NEW i \in DOMAIN net[b]
        PROVE  /\ net[b][i] \in Frames /\ net[b][i].boot \in Nat
               /\ net[b][i].lines \in Seq(1..MaxLines)
               /\ Last(net[b][i].lines) \in 1..MaxLines
    <2>1. net[b][i] \in Frames
      BY <1>1, ElementOfSeq
    <2>2. net[b][i].lines \in Seq(1..MaxLines) /\ net[b][i].boot \in Nat
      BY <2>1 DEF Frames
    <2>3. net[b][i].lines # <<>>
      BY DEF NetInv, FrameOf
    <2> QED BY <2>1, <2>2, <2>3, LastFacts
  <1>3. ASSUME NEW i \in DOMAIN net[b] PROVE MarkBefore(b, i) \in 0..MaxLines
    <2>1. CASE i > 1
      <3>1. i - 1 \in DOMAIN net[b]
        BY <1>1, <2>1
      <3> QED BY <1>2, <2>1, <3>1 DEF MarkBefore
    <2>2. CASE ~(i > 1)
      BY <1>1, <2>2 DEF MarkBefore
    <2> QED BY <2>1, <2>2
  <1>4. EndMark(b) \in 0..MaxLines
    <2>1. CASE net[b] # <<>>
      <3>1. Len(net[b]) \in DOMAIN net[b] /\ Last(net[b]) = net[b][Len(net[b])]
        BY <1>1, <2>1, LastFacts
      <3> QED BY <1>2, <2>1, <3>1 DEF EndMark
    <2>2. CASE net[b] = <<>>
      BY <1>1, <2>2 DEF EndMark
    <2> QED BY <2>1, <2>2
  <1> QED BY <1>1, <1>2, <1>3, <1>4

\* What may be missed may be missed for good.
LEMMA CoveredGrows ==
    ASSUME missable \subseteq missable'
    PROVE  \A k, m, n, ns : Covered(k, m, n, ns) => Covered(k, m, n, ns)'
  BY DEF Covered

LEMMA PageSame ==
    ASSUME TypeOK, TypeOK', NEW b \in Clients, PageOf(b), boot' = boot, seq <= seq',
           bootId'[b] = bootId[b], shown'[b] = shown[b], lastSeq'[b] = lastSeq[b],
           page'[b] = page[b]
    PROVE  PageOf(b)'
  <1>1. RowMark(b)' = RowMark(b)
    BY DEF RowMark
  <1>2. RowMark(b) \in Nat /\ seq \in Nat /\ seq' \in Nat
    <2>1. shown[b] \in Seq(Rows) /\ seq \in Nat /\ seq' \in Nat
      BY DEF TypeOK
    <2>2. shown[b] # <<>> => Last(shown[b]) \in Rows
      BY <2>1, LastFacts
    <2> QED BY <2>1, <2>2 DEF RowMark, Rows
  <1> QED BY <1>1, <1>2 DEF PageOf

NetOf(b) ==
    /\ page[b] \notin {"open", "broken"} => net[b] = <<>>
    /\ \A i \in DOMAIN net[b] : FrameOf(b, i)

LEMMA NetSame ==
    ASSUME TypeOK, TypeOK', NetInv, NEW b \in Clients, missable \subseteq missable',
           boot' = boot, seq <= seq', bootId'[b] = bootId[b], lastSeq'[b] = lastSeq[b],
           net'[b] = net[b], page'[b] = page[b]
    PROVE  NetOf(b)'
  <1>1. page'[b] \notin {"open", "broken"} => net'[b] = <<>>
    BY DEF NetInv
  <1>2. ASSUME NEW i \in DOMAIN net[b] PROVE FrameOf(b, i)'
    <2>1. FrameOf(b, i)
      BY DEF NetInv
    <2>2. MarkBefore(b, i)' = MarkBefore(b, i)
      BY DEF MarkBefore
    <2>3. Last(net[b][i].lines) \in Nat /\ seq \in Nat /\ seq' \in Nat
      <3>1. Last(net[b][i].lines) \in 1..MaxLines
        BY MarkTypes
      <3> QED BY <3>1 DEF TypeOK
    <2>4. Covered(net[b][i].boot, MarkBefore(b, i), Last(net[b][i].lines),
                  net[b][i].lines)'
      <3>1. Covered(net[b][i].boot, MarkBefore(b, i), Last(net[b][i].lines),
                    net[b][i].lines)
        BY <2>1 DEF FrameOf
      <3> QED BY <2>2, <3>1 DEF Covered
    <2> QED BY <2>1, <2>2, <2>3, <2>4 DEF FrameOf
  <1> QED BY <1>1, <1>2 DEF NetOf

LEMMA StreamSame ==
    ASSUME NEW c \in Conns, NEW b, StreamOf(c, b), missable \subseteq missable',
           boot' = boot, seq' = seq, place'[c] = place[c], queue'[c] = queue[c],
           net'[b] = net[b], bootId'[b] = bootId[b], lastSeq'[b] = lastSeq[b],
           page'[b] = page[b], \A d \in Conns : reader'[d] = b => reader[d] = b
    PROVE  StreamOf(c, b)'
  <1>1. EndMark(b)' = EndMark(b)
    BY DEF EndMark
  <1>2. place[c] = "streaming" => Covered(boot, EndMark(b), seq, queue[c])'
    BY <1>1 DEF StreamOf, Covered
  <1> QED BY <1>1, <1>2 DEF StreamOf

\* Two rows that may follow each other: neither line repeated, no line missed.
Follows(r, s) ==
    /\ Before(r, s)
    /\ r.boot = s.boot =>
          \A n \in (r.seq + 1)..(s.seq - 1) : [boot |-> r.boot, seq |-> n] \in missable

Chained(rows) == \A i \in 1..(Len(rows) - 1) : Follows(rows[i], rows[i + 1])

LEMMA ChainedRows ==
    (\A b \in Clients : Chained(shown[b])) <=> RowsInOrder /\ NothingMissed
  <1>1. ASSUME \A b \in Clients : Chained(shown[b]) PROVE RowsInOrder /\ NothingMissed
    <2>1. RowsInOrder
      BY <1>1 DEF Chained, Follows, RowsInOrder
    <2>2. NothingMissed
      BY <1>1 DEF Chained, Follows, NothingMissed
    <2> QED BY <2>1, <2>2
  <1>2. ASSUME RowsInOrder, NothingMissed, NEW b \in Clients PROVE Chained(shown[b])
    BY <1>2 DEF Chained, Follows, RowsInOrder, NothingMissed
  <1> QED BY <1>1, <1>2

LEMMA RowsSame ==
    ASSUME NEW rows, missable \subseteq missable', Chained(rows)
    PROVE  \A r : r = rows => Chained(r)'
  BY DEF Chained, Follows

-----------------------------------------------------------------------------
(* The buffer.                                                              *)

Ordered == RingInv /\ PageInv /\ NetInv /\ StreamInv

\* A sequence of numbers one apart, and one that ends with the largest.
LEMMA LastIsLargest ==
    ASSUME NEW ns \in Seq(1..MaxLines), Increasing(ns)
    PROVE  \A x \in ToSet(ns) : x \in 1..MaxLines /\ x <= Last(ns)
  <1> SUFFICES ASSUME NEW x \in ToSet(ns) PROVE x \in 1..MaxLines /\ x <= Last(ns)
    OBVIOUS
  <1>1. PICK i \in DOMAIN ns : x = ns[i]
    BY DEF ToSet
  <1>2. i \in 1..Len(ns) /\ Len(ns) \in Nat /\ Len(ns) \in DOMAIN ns /\ Last(ns) = ns[Len(ns)]
    BY DEF Last
  <1>3. x \in 1..MaxLines /\ Last(ns) \in 1..MaxLines
    <2>1. Len(ns) \in 1..Len(ns)
      BY <1>2
    <2>2. ns[i] \in 1..MaxLines /\ ns[Len(ns)] \in 1..MaxLines
      BY <1>2, <2>1, ElementOfSeq
    <2> QED BY <1>1, <1>2, <2>2
  <1>4. CASE i = Len(ns)
    BY <1>1, <1>2, <1>3, <1>4
  <1>5. CASE i # Len(ns)
    <2>1. i < Len(ns)
      BY <1>2, <1>5
    <2>2. ns[i] < ns[Len(ns)]
      BY <1>2, <2>1 DEF Increasing
    <2> QED BY <1>1, <1>2, <1>3, <2>2
  <1> QED BY <1>4, <1>5

\* The last line a page will have shown has been logged.
LEMMA EndIsLogged ==
    ASSUME TypeOK, PageInv, NetInv, NEW b \in Clients, page[b] = "open"
    PROVE  EndMark(b) <= seq
  <1>1. CASE net[b] # <<>>
    <2>1. Len(net[b]) \in DOMAIN net[b] /\ Last(net[b]) = net[b][Len(net[b])]
      BY <1>1, MarkTypes, LastFacts DEF TypeOK
    <2>2. FrameOf(b, Len(net[b]))
      BY <2>1 DEF NetInv
    <2> QED BY <1>1, <2>1, <2>2 DEF FrameOf, EndMark
  <1>2. CASE net[b] = <<>>
    <2>1. PageOf(b) /\ lastSeq[b] = RowMark(b)
      BY DEF PageInv, PageOf
    <2> QED BY <1>2, <2>1 DEF PageOf, EndMark, TypeOK
  <1> QED BY <1>1, <1>2

LEMMA EmitQueue ==
    ASSUME GapFitsQueue, TypeOK, TypeOK', PlaceInv, RingInv, Emit, NEW c \in Conns
    PROVE  /\ QueueOf(c)'
           /\ c \in subs => \/ seq' \in ToSet(queue'[c])
                            \/ Full(c) /\ queue'[c] = queue[c]
           /\ ToSet(queue[c]) \subseteq ToSet(queue'[c])
           /\ queue'[c] # <<>> => \/ Last(queue'[c]) = seq'
                                  \/ queue[c] # <<>> /\ Last(queue'[c]) = Last(queue[c])
  <1>1. /\ seq \in Nat /\ seq' = seq + 1 /\ seq' \in 1..MaxLines
        /\ place' = place /\ queue[c] \in Seq(1..MaxLines) /\ QueueOf(c)
    BY DEF Emit, TypeOK, RingInv
  <1>2. Len(queue[c]) \in Nat /\ DOMAIN queue[c] = 1..Len(queue[c])
    BY <1>1
  <1>3. ASSUME NEW i \in DOMAIN queue[c] PROVE queue[c][i] \in Nat
    <2>1. queue[c][i] \in 1..MaxLines
      BY <1>1, <1>2, ElementOfSeq
    <2> QED BY <2>1
  <1>4. \/ queue'[c] = queue[c] /\ (c \in subs => Full(c))
        \/ queue'[c] = Append(queue[c], seq') /\ c \in subs
    BY DEF Emit, Offer
  <1>5. CASE queue'[c] = queue[c] /\ (c \in subs => Full(c))
    <2>1. place[c] # "subscribed" \/ queue[c] = <<>>
      <3>1. place[c] = "subscribed" => c \in subs
        BY DEF PlaceInv
      <3>2. c \in subs /\ place[c] = "subscribed" => ~Full(c)
        BY DEF Emit
      <3> QED BY <1>5, <3>1, <3>2
    <2>2. \A i \in DOMAIN queue[c] : queue[c][i] <= seq'
      BY <1>1, <1>3 DEF QueueOf
    <2>3. QueueOf(c)'
      BY <1>1, <1>5, <2>1, <2>2 DEF QueueOf
    <2> QED BY <1>5, <2>3
  <1>6. CASE queue'[c] = Append(queue[c], seq') /\ c \in subs
    <2> DEFINE q == Append(queue[c], seq')
    <2>1. /\ q \in Seq(1..MaxLines) /\ Len(q) = Len(queue[c]) + 1 /\ q # <<>>
          /\ \A i \in 1..Len(queue[c]) : q[i] = queue[c][i]
          /\ q[Len(queue[c]) + 1] = seq'
      BY <1>1, AppendFacts
    <2>2. DOMAIN q = 1..(Len(queue[c]) + 1)
      BY <2>1
    <2> HIDE DEF q
    <2>9. Last(q) = seq'
      BY <2>1 DEF Last
    <2>3. ASSUME NEW i \in DOMAIN q
          PROVE  \/ i \in DOMAIN queue[c] /\ q[i] = queue[c][i] /\ q[i] <= seq
                 \/ i = Len(queue[c]) + 1 /\ q[i] = seq'
      BY <1>1, <1>2, <2>1, <2>2 DEF QueueOf
    <2>4. \A i \in DOMAIN q : q[i] <= seq'
      BY <1>1, <1>3, <2>3
    <2>5. Increasing(q)
      <3> SUFFICES ASSUME NEW i \in DOMAIN q, NEW j \in DOMAIN q, i < j PROVE q[i] < q[j]
        BY DEF Increasing
      <3>1. i \in DOMAIN queue[c] /\ q[i] = queue[c][i] /\ q[i] <= seq
        BY <1>2, <2>2, <2>3
      <3>2. CASE j \in DOMAIN queue[c]
        BY <1>1, <2>1, <1>2, <3>1, <3>2 DEF QueueOf, Increasing
      <3>3. CASE j \notin DOMAIN queue[c]
        BY <1>1, <1>3, <2>3, <3>1, <3>3
      <3> QED BY <3>2, <3>3
    <2>6. queue'[c] = q
      BY <1>6 DEF q
    <2>7. QueueOf(c)'
      BY <2>4, <2>5, <2>6, <2>9 DEF QueueOf
    <2>8. seq' \in ToSet(q) /\ ToSet(queue[c]) \subseteq ToSet(q)
      <3>1. Len(queue[c]) + 1 \in DOMAIN q /\ \A i \in DOMAIN queue[c] : i \in DOMAIN q
        BY <1>2, <2>2
      <3> QED BY <1>2, <2>1, <3>1 DEF ToSet
    <2> QED BY <2>1, <2>6, <2>7, <2>8, <2>9
  <1> QED BY <1>4, <1>5, <1>6

LEMMA EmitOrdered ==
    ASSUME GapFitsQueue, TypeOK, TypeOK', PlaceInv, Ordered, Emit
    PROVE  Ordered' /\ missable \subseteq missable'
  <1> USE DEF buffer, streams, clients
  <1>0. /\ UNCHANGED <<boot, capacity, subs, place, reader, page, bootId, lastSeq, net, shown>>
        /\ seq \in Nat /\ seq' = seq + 1 /\ seq' \in 1..MaxLines /\ seq <= seq'
        /\ lines' = Newest(Append(lines, seq'), capacity)
        /\ capacity \in Nat \ {0} /\ lines \in Seq(1..MaxLines)
        /\ missable \subseteq missable'
    BY Bounds DEF Emit, TypeOK
  <1>1. RingInv'
    <2> DEFINE s == Append(lines, seq')
    <2>1. /\ s \in Seq(1..MaxLines) /\ Len(s) = Len(lines) + 1 /\ s # <<>>
          /\ \A i \in 1..Len(lines) : s[i] = lines[i]
          /\ s[Len(lines) + 1] = seq' /\ Len(lines) \in Nat
      BY <1>0, AppendFacts
    <2>2. \A i \in 1..Len(s) : s[i] = seq' - Len(s) + i
      <3>1. \A i \in 1..Len(lines) : lines[i] = seq - Len(lines) + i
        BY <2>1 DEF Ordered, RingInv
      <3> QED BY <1>0, <2>1, <3>1
    <2> HIDE DEF s
    <2>3. /\ lines' = Newest(s, capacity)
      BY <1>0 DEF s
    <2>4. /\ lines' \in Seq(1..MaxLines) /\ Len(lines') <= Len(s) /\ Len(lines') \in Nat
          /\ lines' # <<>>
          /\ \A i \in 1..Len(lines') : lines'[i] = s[Len(s) - Len(lines') + i]
      <3>1. capacity \in Nat \ {0}
        BY <1>0
      <3>2. /\ Newest(s, capacity) \in Seq(1..MaxLines) /\ Len(Newest(s, capacity)) <= Len(s)
            /\ Newest(s, capacity) # <<>>
        BY <2>1, <3>1, NewestFacts
      <3>3. \A i \in 1..Len(Newest(s, capacity)) :
                Newest(s, capacity)[i] = s[Len(s) - Len(Newest(s, capacity)) + i]
        BY <2>1, <3>1, NewestFacts
      <3> QED BY <2>3, <3>2, <3>3
    <2>5. \A i \in 1..Len(lines') : lines'[i] = seq' - Len(lines') + i
      BY <1>0, <2>1, <2>2, <2>4
    <2>6. DOMAIN lines' = 1..Len(lines')
      BY <2>4
    <2>7. \A c \in Conns : QueueOf(c)'
      BY EmitQueue DEF Ordered
    <2> QED BY <2>4, <2>5, <2>6, <2>7 DEF RingInv
  <1>2. PageInv'
    BY <1>0, PageSame DEF Ordered, PageInv
  <1>3. NetInv'
    <2>1. \A b \in Clients : NetOf(b)'
      BY <1>0, NetSame DEF Ordered
    <2> QED BY <2>1 DEF NetInv, NetOf
  <1>4. ASSUME NEW c \in Conns, NEW b \in Clients, reader'[c] = b PROVE StreamOf(c, b)'
    <2>1. reader[c] = b /\ StreamOf(c, b)
      BY <1>0, <1>4 DEF Ordered, StreamInv
    <2>2. EndMark(b)' = EndMark(b) /\ EndMark(b) <= seq /\ EndMark(b) \in Nat
      <3>1. EndMark(b)' = EndMark(b)
        BY <1>0 DEF EndMark
      <3>2. EndMark(b) \in 0..MaxLines
        BY <2>1, MarkTypes DEF Ordered
      <3>3. EndMark(b) <= seq
        BY <2>1, EndIsLogged DEF Ordered, StreamOf
      <3> QED BY <3>1, <3>2, <3>3
    <2>3. ASSUME place[c] = "streaming"
          PROVE  /\ queue'[c] # <<>> => EndMark(b) <= Last(queue'[c])
                 /\ Covered(boot, EndMark(b), seq, queue[c])
                 /\ \A x \in (EndMark(b) + 1)..seq' :
                       x \in ToSet(queue'[c]) \/ [boot |-> boot, seq |-> x] \in missable'
      <3>1. /\ queue[c] # <<>> => EndMark(b) <= Last(queue[c])
            /\ Covered(boot, EndMark(b), seq, queue[c])
            /\ c \in subs
        BY <2>1, <2>3 DEF StreamOf, PlaceInv
      <3>2. /\ queue'[c] # <<>> => \/ Last(queue'[c]) = seq'
                                   \/ queue[c] # <<>> /\ Last(queue'[c]) = Last(queue[c])
            /\ seq' \in ToSet(queue'[c]) \/ Full(c)
            /\ ToSet(queue[c]) \subseteq ToSet(queue'[c])
        BY <3>1, EmitQueue DEF Ordered
      <3>3. queue'[c] # <<>> => EndMark(b) <= Last(queue'[c])
        BY <1>0, <2>2, <3>1, <3>2
      <3>4. Full(c) => [boot |-> boot, seq |-> seq'] \in missable'
        <4>1. reader[c] # NoOne
          BY <2>1, Bounds
        <4> QED BY <3>1, <4>1 DEF Emit, Line
      <3>5. ASSUME NEW x \in (EndMark(b) + 1)..seq'
            PROVE  x \in ToSet(queue'[c]) \/ [boot |-> boot, seq |-> x] \in missable'
        <4>1. x = seq' \/ x \in (EndMark(b) + 1)..seq
          BY <1>0, <2>2
        <4>2. CASE x = seq'
          BY <3>2, <3>4, <4>2
        <4>3. CASE x \in (EndMark(b) + 1)..seq
          BY <1>0, <3>1, <3>2, <4>3 DEF Covered
        <4> QED BY <4>1, <4>2, <4>3
      <3> QED BY <3>1, <3>3, <3>5
    <2>4. place[c] = "streaming" => Covered(boot, EndMark(b), seq, queue[c])'
      BY <1>0, <2>2, <2>3 DEF Covered
    <2> QED BY <1>0, <2>1, <2>2, <2>3, <2>4 DEF StreamOf
  <1> QED BY <1>0, <1>1, <1>2, <1>3, <1>4 DEF Ordered, StreamInv

LEMMA ReconfigureOrdered ==
    ASSUME TypeOK, TypeOK', Ordered, Reconfigure
    PROVE  Ordered' /\ missable \subseteq missable'
  <1> USE DEF buffer, streams, clients
  <1>1. PICK n \in Capacities : lines' = Newest(lines, n)
    BY DEF Reconfigure, SetCapacity
  <1>2. /\ UNCHANGED <<boot, seq, queue, subs, place, reader, page, bootId, lastSeq, net,
                       shown, missable>>
        /\ n \in Nat \ {0} /\ lines \in Seq(1..MaxLines) /\ seq \in Nat /\ seq <= seq'
        /\ missable \subseteq missable'
    BY Bounds DEF Reconfigure, TypeOK
  <1>3. RingInv'
    <2>1. /\ lines' \in Seq(1..MaxLines) /\ Len(lines') <= Len(lines)
          /\ lines' = <<>> => lines = <<>>
      BY <1>1, <1>2, NewestFacts
    <2>2. \A i \in 1..Len(lines') : lines'[i] = lines[Len(lines) - Len(lines') + i]
      BY <1>1, <1>2, NewestFacts
    <2>3. /\ \A i \in 1..Len(lines) : lines[i] = seq - Len(lines) + i
          /\ Len(lines) \in Nat /\ Len(lines') \in Nat /\ DOMAIN lines' = 1..Len(lines')
      BY <1>2, <2>1 DEF Ordered, RingInv
    <2>4. ASSUME NEW i \in 1..Len(lines') PROVE lines'[i] = seq' - Len(lines') + i
      <3>1. Len(lines) - Len(lines') + i \in 1..Len(lines)
        BY <2>1, <2>3
      <3> QED BY <1>2, <2>2, <2>3, <3>1
    <2>5. \A c \in Conns : QueueOf(c)'
      BY <1>2 DEF Ordered, RingInv, QueueOf
    <2> QED BY <1>2, <2>1, <2>3, <2>4, <2>5 DEF Ordered, RingInv
  <1>4. PageInv'
    BY <1>2, PageSame DEF Ordered, PageInv
  <1>5. NetInv'
    <2>1. \A b \in Clients : NetOf(b)'
      BY <1>2, NetSame DEF Ordered
    <2> QED BY <2>1 DEF NetInv, NetOf
  <1>6. StreamInv'
    BY <1>2, StreamSame DEF Ordered, StreamInv
  <1> QED BY <1>2, <1>3, <1>4, <1>5, <1>6 DEF Ordered

\* Another process: what was on its way to the pages is of one before it.
LEMMA RestartOrdered ==
    ASSUME TypeOK, TypeOK', Ordered, Restart
    PROVE  Ordered' /\ missable \subseteq missable'
  <1> USE DEF buffer, streams, clients
  <1>1. /\ boot' = boot + 1 /\ boot \in Nat /\ seq' = 0 /\ lines' = <<>>
        /\ queue' = [c \in Conns |-> <<>>] /\ place' = [c \in Conns |-> "none"]
        /\ reader' = [c \in Conns |-> NoOne]
        /\ page' = [b \in Clients |-> IF page[b] = "open" THEN "broken" ELSE page[b]]
        /\ UNCHANGED <<bootId, lastSeq, net, shown, missable>>
    BY DEF Restart, TypeOK
  <1>2. RingInv'
    BY <1>1 DEF RingInv, QueueOf, Increasing
  <1>3. PageInv'
    <2> SUFFICES ASSUME NEW b \in Clients PROVE PageOf(b)'
      BY DEF PageInv
    <2>1. PageOf(b) /\ bootId[b] \in Nat /\ RowMark(b)' = RowMark(b)
      BY <1>1 DEF Ordered, PageInv, TypeOK, RowMark
    <2> QED BY <1>1, <2>1 DEF PageOf
  <1>4. NetInv'
    <2> SUFFICES ASSUME NEW b \in Clients PROVE NetOf(b)'
      BY DEF NetInv, NetOf
    <2>1. page'[b] \notin {"open", "broken"} => net'[b] = <<>>
      BY <1>1 DEF Ordered, NetInv
    <2>2. ASSUME NEW i \in DOMAIN net[b] PROVE FrameOf(b, i)'
      <3>1. FrameOf(b, i) /\ MarkBefore(b, i)' = MarkBefore(b, i)
        BY <1>1 DEF Ordered, NetInv, MarkBefore
      <3>2. net[b][i].boot \in Nat /\ bootId[b] \in Nat
        BY MarkTypes DEF Ordered, TypeOK
      <3>3. Covered(net[b][i].boot, MarkBefore(b, i), Last(net[b][i].lines),
                    net[b][i].lines)'
        BY <1>1, <3>1 DEF FrameOf, Covered
      <3>4. net[b][i].boot \in bootId[b]..(boot + 1) /\ net[b][i].boot # boot + 1
        BY <1>1, <3>1, <3>2 DEF FrameOf
      <3> QED BY <1>1, <3>1, <3>3, <3>4 DEF FrameOf
    <2> QED BY <1>1, <2>1, <2>2 DEF NetOf
  <1>5. StreamInv'
    BY <1>1, Bounds DEF StreamInv
  <1> QED BY <1>1, <1>2, <1>3, <1>4, <1>5 DEF Ordered

-----------------------------------------------------------------------------
(* A stream.                                                                *)

\* A stream that nobody reads, or that has not sent anything yet.
LEMMA QuietOrdered ==
    ASSUME TypeOK, TypeOK', PlaceInv, Ordered, NEW c \in Conns,
           \/ Subscribe(c) \/ Heartbeat(c) \/ CloseUnstarted(c)
           \/ CloseBatches(c) \/ EndGuarded(c) \/ CloseResponse(c)
    PROVE  Ordered' /\ missable \subseteq missable'
  <1> USE DEF buffer, streams, clients
  <1>1. /\ UNCHANGED <<boot, seq, lines, page, bootId, lastSeq, net, shown, reader, missable>>
        /\ seq \in Nat /\ seq <= seq' /\ missable \subseteq missable'
    BY DEF Subscribe, Heartbeat, CloseUnstarted, CloseBatches, EndGuarded,
           CloseResponse, TypeOK
  <1>2. /\ queue' = queue \/ queue' = [queue EXCEPT ![c] = <<>>]
        /\ \A d \in Conns : d # c => place'[d] = place[d]
        /\ queue \in [Conns -> Seq(1..MaxLines)]
        /\ place'[c] = "subscribed" => queue'[c] = <<>> /\ place[c] = "unstarted"
        /\ place'[c] # "streaming"
        /\ place'[c] = "unstarted" => place[c] = "unstarted"
        /\ reader[c] # NoOne => place[c] = "unstarted"
    <2>1. place \in [Conns -> Places] /\ queue \in [Conns -> Seq(1..MaxLines)]
      BY DEF TypeOK, Places
    <2>2. reader[c] # NoOne => place[c] \in {"unstarted", "subscribed", "streaming"}
      BY DEF PlaceInv
    <2>3. CASE Subscribe(c)
      BY <2>1, <2>3 DEF Subscribe
    <2>4. CASE Heartbeat(c) \/ CloseUnstarted(c)
      BY <2>1, <2>4 DEF Heartbeat, CloseUnstarted
    <2>5. CASE CloseBatches(c) \/ EndGuarded(c) \/ CloseResponse(c)
      BY <2>1, <2>2, <2>5 DEF CloseBatches, EndGuarded, CloseResponse
    <2> QED BY <2>3, <2>4, <2>5
  <1>3. RingInv'
    <2>1. \A d \in Conns : queue'[d] = <<>> \/ (queue'[d] = queue[d] /\ QueueOf(d))
      BY <1>2 DEF Ordered, RingInv
    <2>2. ASSUME NEW d \in Conns PROVE QueueOf(d)'
      <3>1. CASE queue'[d] = <<>>
        BY <3>1 DEF QueueOf, Increasing
      <3>2. CASE queue'[d] # <<>>
        BY <1>1, <1>2, <2>1, <3>2 DEF QueueOf
      <3> QED BY <3>1, <3>2
    <2> QED BY <1>1, <2>2 DEF Ordered, RingInv
  <1>4. PageInv'
    BY <1>1, PageSame DEF Ordered, PageInv
  <1>5. NetInv'
    <2>1. \A b \in Clients : NetOf(b)'
      BY <1>1, NetSame DEF Ordered
    <2> QED BY <2>1 DEF NetInv, NetOf
  <1>6. ASSUME NEW d \in Conns, NEW b \in Clients, reader'[d] = b PROVE StreamOf(d, b)'
    <2>1. reader[d] = b /\ StreamOf(d, b)
      BY <1>1, <1>6 DEF Ordered, StreamInv
    <2>2. CASE d = c
      <3>1. place[c] = "unstarted"
        BY <1>2, <2>1, <2>2, Bounds
      <3> QED BY <1>1, <1>2, <2>1, <2>2, <3>1 DEF StreamOf
    <2>3. CASE d # c
      <3>1. place'[d] = place[d] /\ queue'[d] = queue[d]
        BY <1>2, <2>3
      <3> QED BY <1>1, <2>1, <3>1, StreamSame
    <2> QED BY <2>2, <2>3
  <1> QED BY <1>1, <1>3, <1>4, <1>5, <1>6 DEF Ordered, StreamInv

\* A page that reads a stream gets the next frame of it: the frame goes on from
\* where what it has will end.
LEMMA SendOrdered ==
    ASSUME TypeOK, TypeOK', Ordered, NEW c \in Conns, NEW b \in Clients, reader[c] = b,
           NEW ns \in Seq(1..MaxLines), ns # <<>>, Increasing(ns), Last(ns) <= seq,
           EndMark(b) <= Last(ns), missable \subseteq missable',
           \A x \in (EndMark(b) + 1)..Last(ns) :
               x \in ToSet(ns) \/ [boot |-> boot, seq |-> x] \in missable',
           net' = [net EXCEPT ![b] = Append(net[b], [boot |-> boot, lines |-> ns])],
           UNCHANGED <<boot, seq, page, bootId, lastSeq>>
    PROVE  NetInv' /\ EndMark(b)' = Last(ns)
  <1> DEFINE frame == [boot |-> boot, lines |-> ns]
  <1>0. PICK L \in Nat : L = Len(net[b]) /\ DOMAIN net[b] = 1..L
    BY DEF TypeOK
  <1>1. /\ frame.boot = boot /\ frame.lines = ns /\ frame \in Frames
        /\ net[b] \in Seq(Frames) /\ L \in Nat /\ DOMAIN net[b] = 1..L /\ L = Len(net[b])
        /\ net'[b] = Append(net[b], frame) /\ net \in [Clients -> Seq(Frames)]
        /\ seq \in Nat /\ seq <= seq' /\ page[b] = "open"
    <2>1. frame.boot = boot /\ frame.lines = ns /\ frame \in Frames
      BY DEF TypeOK, Frames
    <2>2. net \in [Clients -> Seq(Frames)] /\ seq \in Nat /\ seq <= seq'
      BY DEF TypeOK
    <2>3. page[b] = "open"
      BY DEF Ordered, StreamInv, StreamOf
    <2> QED BY <1>0, <2>1, <2>2, <2>3
  <1> HIDE DEF frame
  <1>2. /\ Len(net'[b]) = L + 1 /\ net'[b] # <<>> /\ net'[b] \in Seq(Frames)
        /\ \A i \in 1..L : net'[b][i] = net[b][i]
        /\ net'[b][L + 1] = frame
    BY <1>1, AppendFacts
  <1>3. Last(net'[b]) = frame
    BY <1>2 DEF Last
  <1>4. EndMark(b)' = Last(ns)
    BY <1>1, <1>2, <1>3 DEF EndMark
  <1>5. DOMAIN net'[b] = 1..(L + 1)
    BY <1>1, <1>2
  <1>6. ASSUME NEW i \in DOMAIN net[b] PROVE FrameOf(b, i)'
    <2>1. FrameOf(b, i) /\ i \in 1..L /\ 1 \in 1..L /\ L \in Nat
      BY <1>1 DEF Ordered, NetInv
    <2>2. net'[b][i] = net[b][i] /\ net'[b][1] = net[b][1]
      BY <1>2, <2>1
    <2>3. MarkBefore(b, i)' = MarkBefore(b, i)
      <3>1. CASE i > 1
        <4>1. i - 1 \in 1..L
          BY <2>1, <3>1
        <4>2. net'[b][i - 1] = net[b][i - 1]
          BY <1>2, <4>1
        <4> QED BY <3>1, <4>2 DEF MarkBefore
      <3>2. CASE ~(i > 1)
        BY <2>2, <3>2 DEF MarkBefore
      <3> QED BY <3>1, <3>2
    <2>4. Covered(net[b][i].boot, MarkBefore(b, i), Last(net[b][i].lines), net[b][i].lines)'
      <3>1. Covered(net[b][i].boot, MarkBefore(b, i), Last(net[b][i].lines), net[b][i].lines)
        BY <2>1 DEF FrameOf
      <3> QED BY <2>2, <2>3, <3>1 DEF Covered
    <2> QED BY <2>1, <2>2, <2>3, <2>4 DEF FrameOf
  <1>7. FrameOf(b, L + 1)'
    <2>1. MarkBefore(b, L + 1)' = EndMark(b)
      <3>1. CASE net[b] # <<>>
        <4>1. L + 1 > 1 /\ (L + 1) - 1 = L /\ L \in 1..L
          BY <1>1, <3>1, EmptySeq
        <4>2. net'[b][(L + 1) - 1] = Last(net[b])
          BY <1>1, <1>2, <4>1 DEF Last
        <4>3. MarkBefore(b, L + 1)' = Last(net'[b][(L + 1) - 1].lines)
          BY <4>1 DEF MarkBefore
        <4>4. EndMark(b) = Last(Last(net[b]).lines)
          BY <3>1 DEF EndMark
        <4> QED BY <4>2, <4>3, <4>4
      <3>2. CASE net[b] = <<>>
        <4>1. L = 0
          BY <1>1, <3>2, EmptySeq
        <4>2. net'[b][1] = frame
          BY <1>2, <4>1
        <4> QED BY <1>1, <3>2, <4>1, <4>2 DEF MarkBefore, EndMark
      <3> QED BY <3>1, <3>2
    <2>2. net'[b][1].boot = boot
      <3>1. CASE net[b] # <<>>
        <4>1. 1 \in 1..L
          BY <1>1, <3>1, EmptySeq
        <4>2. net'[b][1] = net[b][1] /\ FrameOf(b, 1)
          BY <1>1, <1>2, <4>1 DEF Ordered, NetInv
        <4> QED BY <1>1, <4>2 DEF FrameOf
      <3>2. CASE net[b] = <<>>
        <4>1. L = 0
          BY <1>1, <3>2, EmptySeq
        <4> QED BY <1>1, <1>2, <4>1
      <3> QED BY <3>1, <3>2
    <2>3. boot \in bootId[b]..boot
      BY DEF Ordered, PageInv, PageOf, TypeOK
    <2>4. \A x \in (EndMark(b) + 1)..Last(ns) :
              x \in ToSet(frame.lines) \/ [boot |-> frame.boot, seq |-> x] \in missable'
      BY <1>1
    <2> QED BY <1>1, <1>2, <2>1, <2>2, <2>3, <2>4 DEF FrameOf, Covered
  <1>8. NetOf(b)'
    <2>1. \A i \in DOMAIN net'[b] : FrameOf(b, i)'
      <3>1. \A i \in DOMAIN net'[b] : i \in DOMAIN net[b] \/ i = L + 1
        BY <1>1, <1>5
      <3> QED BY <1>6, <1>7, <3>1
    <2>2. page'[b] = "open"
      BY <1>1
    <2> QED BY <2>1, <2>2 DEF NetOf
  <1>9. ASSUME NEW d \in Clients, d # b PROVE NetOf(d)'
    <2>1. net'[d] = net[d]
      BY <1>1, <1>9
    <2> QED BY <1>1, <2>1, NetSame DEF Ordered
  <1> QED BY <1>4, <1>8, <1>9 DEF NetInv, NetOf

\* Who nobody reads sends nothing.
LEMMA SnapshotOrdered ==
    ASSUME TypeOK, TypeOK', PlaceInv, Ordered, NEW c \in Conns, Snapshot(c)
    PROVE  Ordered' /\ missable \subseteq missable'
  <1> USE DEF buffer, streams, clients
  <1>1. /\ UNCHANGED <<boot, seq, lines, queue, reader, page, bootId, lastSeq, shown>>
        /\ place[c] = "subscribed" /\ missable \subseteq missable'
        /\ \A x \in 1..seq : x \in ToSet(lines) \/ [boot |-> boot, seq |-> x] \in missable'
        /\ seq \in Nat /\ lines \in Seq(1..MaxLines) /\ seq <= seq'
        /\ place \in [Conns -> Places] /\ \A b \in Clients : bootId[b] \in Nat
    BY DEF Snapshot, Line, TypeOK, Places
  <1>2. /\ \A d \in Conns : d # c => place'[d] = place[d]
        /\ place'[c] \in {"streaming", "closing"}
    BY <1>1 DEF Snapshot, Send
  <1>3. RingInv'
    <2>1. \A d \in Conns : QueueOf(d)'
      BY <1>1, <1>2 DEF Ordered, RingInv, QueueOf
    <2> QED BY <1>1, <2>1 DEF Ordered, RingInv
  <1>4. PageInv'
    BY <1>1, PageSame DEF Ordered, PageInv
  <1>5. \A b \in Clients : net'[b] = net[b] => NetOf(b)'
    BY <1>1, NetSame DEF Ordered
  <1>6. ASSUME NEW d \in Conns, NEW b \in Clients, reader[d] = b, d # c
        PROVE  net'[b] = net[b] => StreamOf(d, b)'
    <2>1. StreamOf(d, b)
      BY <1>6 DEF Ordered, StreamInv
    <2> QED BY <1>1, <1>2, <1>6, <2>1, StreamSame
  <1>7. CASE reader[c] = NoOne
    <2>1. net' = net
      BY <1>7 DEF Snapshot, Send
    <2>2. StreamInv'
      BY <1>1, <1>6, <1>7, <2>1, Bounds DEF StreamInv
    <2> QED BY <1>1, <1>3, <1>4, <1>5, <2>1, <2>2 DEF Ordered, NetInv, NetOf
  <1>8. CASE reader[c] # NoOne
    <2>1. PICK b \in Clients : reader[c] = b
      BY <1>8 DEF TypeOK
    <2>2. /\ StreamOf(c, b) /\ net[b] = <<>> /\ page[b] = "open" /\ PageOf(b)
          /\ \A d \in Conns : reader[d] = b => d = c
      BY <1>1, <2>1 DEF Ordered, StreamInv, StreamOf, PageInv
    <2>3. /\ EndMark(b) \in 0..MaxLines /\ EndMark(b) <= seq
      BY <2>2, MarkTypes, EndIsLogged DEF Ordered
    <2>4. CASE lines = <<>>
      <3>1. seq = 0 /\ net' = net /\ place' = [place EXCEPT ![c] = "streaming"]
        BY <2>4 DEF Ordered, RingInv, Snapshot
      <3>2. EndMark(b)' = EndMark(b) /\ EndMark(b) = 0
        BY <1>1, <2>3, <3>1 DEF EndMark
      <3>3. queue[c] = <<>>
        <4>1. queue[c] \in Seq(1..MaxLines) /\ \A i \in DOMAIN queue[c] : queue[c][i] <= 0
          BY <3>1 DEF Ordered, RingInv, QueueOf, TypeOK
        <4> SUFFICES ASSUME queue[c] # <<>> PROVE FALSE
          OBVIOUS
        <4>2. /\ Last(queue[c]) \in 1..MaxLines /\ Last(queue[c]) = queue[c][Len(queue[c])]
              /\ Len(queue[c]) \in Nat \ {0} /\ DOMAIN queue[c] = 1..Len(queue[c])
          BY <4>1, LastFacts
        <4> QED BY <4>1, <4>2
      <3>4. Covered(boot, EndMark(b), seq, queue[c])'
        BY <1>1, <3>1, <3>2 DEF Covered
      <3>5. StreamOf(c, b)'
        BY <1>1, <1>2, <2>2, <3>1, <3>3, <3>4 DEF StreamOf
      <3>6. StreamInv'
        BY <1>1, <1>6, <2>1, <2>2, <3>1, <3>5 DEF StreamInv
      <3> QED BY <1>1, <1>3, <1>4, <1>5, <3>1, <3>6 DEF Ordered, NetInv, NetOf
    <2>5. CASE lines # <<>>
      <3>1. /\ net' = [net EXCEPT ![b] = Append(net[b], [boot |-> boot, lines |-> lines])]
            /\ place' = [place EXCEPT ![c] = "streaming"]
        <4>1. Send(c, lines) /\ net \in [Clients -> Seq(Frames)]
          BY <2>5 DEF Snapshot, TypeOK
        <4> QED BY <1>8, <2>1, <4>1 DEF Send
      <3>2. Last(lines) = seq /\ Increasing(lines)
        <4>1. /\ Len(lines) \in DOMAIN lines /\ Len(lines) \in Nat /\ DOMAIN lines = 1..Len(lines)
              /\ \A i \in DOMAIN lines : lines[i] = seq - Len(lines) + i
          BY <1>1, <2>5, LastFacts DEF Ordered, RingInv
        <4>2. Last(lines) = seq
          BY <1>1, <4>1 DEF Last
        <4>3. Increasing(lines)
          BY <1>1, <4>1 DEF Increasing
        <4> QED BY <4>2, <4>3
      <3>3. \A x \in (EndMark(b) + 1)..Last(lines) :
                x \in ToSet(lines) \/ [boot |-> boot, seq |-> x] \in missable'
        BY <1>1, <2>3, <3>2
      <3>4. NetInv' /\ EndMark(b)' = seq
        <4>1. EndMark(b) <= Last(lines) /\ Last(lines) <= seq
          BY <1>1, <2>3, <3>2
        <4> QED BY <1>1, <2>1, <2>5, <3>1, <3>2, <3>3, <4>1, SendOrdered
      <3>5. queue[c] # <<>> => Last(queue[c]) = seq
        BY <1>1 DEF Ordered, RingInv, QueueOf
      <3>6. Covered(boot, EndMark(b), seq, queue[c])'
        BY <1>1, <3>4 DEF Covered
      <3>7. StreamOf(c, b)'
        BY <1>1, <1>2, <2>2, <3>1, <3>4, <3>5, <3>6 DEF StreamOf
      <3>8. \A a \in Clients : a # b => net'[a] = net[a]
        BY <3>1
      <3>9. StreamInv'
        BY <1>1, <1>6, <2>1, <2>2, <3>7, <3>8 DEF StreamInv
      <3> QED BY <1>1, <1>3, <1>4, <3>4, <3>9 DEF Ordered
    <2> QED BY <2>4, <2>5
  <1> QED BY <1>7, <1>8

LEMMA DrainOrdered ==
    ASSUME TypeOK, TypeOK', PlaceInv, Ordered, NEW c \in Conns, Drain(c)
    PROVE  Ordered' /\ missable \subseteq missable'
  <1> USE DEF buffer, streams, clients
  <1>1. /\ UNCHANGED <<boot, seq, lines, reader, page, bootId, lastSeq, shown, missable>>
        /\ place[c] = "streaming" /\ queue[c] # <<>> /\ Send(c, queue[c])
        /\ missable \subseteq missable' /\ seq \in Nat /\ seq <= seq'
        /\ queue' = [queue EXCEPT ![c] = <<>>] /\ queue \in [Conns -> Seq(1..MaxLines)]
        /\ place \in [Conns -> Places] /\ net \in [Clients -> Seq(Frames)]
    BY DEF Drain, TypeOK, Places
  <1>2. /\ \A d \in Conns : d # c => place'[d] = place[d] /\ queue'[d] = queue[d]
        /\ place'[c] \in {"streaming", "closing"} /\ queue'[c] = <<>>
    BY <1>1 DEF Send
  <1>3. RingInv'
    <2>1. \A d \in Conns : QueueOf(d)'
      <3>1. QueueOf(c)'
        BY <1>2 DEF QueueOf, Increasing
      <3>2. \A d \in Conns : d # c => QueueOf(d)'
        BY <1>1, <1>2 DEF Ordered, RingInv, QueueOf
      <3> QED BY <3>1, <3>2
    <2> QED BY <1>1, <2>1 DEF Ordered, RingInv
  <1>4. PageInv'
    BY <1>1, PageSame DEF Ordered, PageInv
  <1>5. \A b \in Clients : net'[b] = net[b] => NetOf(b)'
    BY <1>1, NetSame DEF Ordered
  <1>6. ASSUME NEW d \in Conns, NEW b \in Clients, reader[d] = b, d # c
        PROVE  net'[b] = net[b] => StreamOf(d, b)'
    <2>1. StreamOf(d, b)
      BY <1>6 DEF Ordered, StreamInv
    <2> QED BY <1>1, <1>2, <1>6, <2>1, StreamSame
  <1>7. CASE reader[c] = NoOne
    <2>1. net' = net
      BY <1>1, <1>7 DEF Send
    <2>2. StreamInv'
      BY <1>1, <1>6, <1>7, <2>1, Bounds DEF StreamInv
    <2> QED BY <1>1, <1>3, <1>4, <1>5, <2>1, <2>2 DEF Ordered, NetInv, NetOf
  <1>8. CASE reader[c] # NoOne
    <2>1. PICK b \in Clients : reader[c] = b
      BY <1>8 DEF TypeOK
    <2>2. /\ StreamOf(c, b) /\ page[b] = "open" /\ EndMark(b) <= Last(queue[c])
          /\ Covered(boot, EndMark(b), seq, queue[c])
          /\ \A d \in Conns : reader[d] = b => d = c
      BY <1>1, <2>1 DEF Ordered, StreamInv, StreamOf
    <2>3. EndMark(b) \in 0..MaxLines
      BY MarkTypes DEF Ordered
    <2>4. /\ queue[c] \in Seq(1..MaxLines) /\ Increasing(queue[c])
          /\ Last(queue[c]) <= seq /\ Last(queue[c]) \in 1..MaxLines
      <3>1. queue[c] \in Seq(1..MaxLines) /\ QueueOf(c)
        BY <1>1 DEF Ordered, RingInv
      <3>2. /\ Len(queue[c]) \in Nat \ {0} /\ DOMAIN queue[c] = 1..Len(queue[c])
            /\ Last(queue[c]) = queue[c][Len(queue[c])]
            /\ Last(queue[c]) \in 1..MaxLines
        BY <1>1, <3>1, LastFacts
      <3> QED BY <3>1, <3>2 DEF QueueOf
    <2>5. /\ net' = [net EXCEPT ![b] = Append(net[b], [boot |-> boot, lines |-> queue[c]])]
          /\ place' = [place EXCEPT ![c] = "streaming"]
      BY <1>1, <1>8, <2>1 DEF Send
    <2>6. \A x \in (EndMark(b) + 1)..Last(queue[c]) :
              x \in ToSet(queue[c]) \/ [boot |-> boot, seq |-> x] \in missable'
      BY <1>1, <2>2, <2>3, <2>4 DEF Covered
    <2>7. NetInv' /\ EndMark(b)' = Last(queue[c])
      BY <1>1, <2>1, <2>2, <2>4, <2>5, <2>6, SendOrdered
    <2>8. Covered(boot, EndMark(b), seq, queue[c])'
      <3>1. ASSUME NEW x \in (Last(queue[c]) + 1)..seq
            PROVE  [boot |-> boot, seq |-> x] \in missable
        <4>1. x \in (EndMark(b) + 1)..seq /\ ~(x <= Last(queue[c]))
          BY <2>2, <2>3, <2>4
        <4>2. x \notin ToSet(queue[c])
          BY <2>4, <4>1, LastIsLargest
        <4> QED BY <2>2, <4>1, <4>2 DEF Covered
      <3> QED BY <1>1, <2>7, <3>1 DEF Covered
    <2>9. StreamOf(c, b)'
      BY <1>1, <1>2, <2>2, <2>5, <2>8 DEF StreamOf
    <2>10. StreamInv'
      <3>1. \A a \in Clients : a # b => net'[a] = net[a]
        BY <2>5
      <3> QED BY <1>1, <1>6, <2>1, <2>2, <2>9, <3>1 DEF StreamInv
    <2> QED BY <1>1, <1>3, <1>4, <2>7, <2>10 DEF Ordered
  <1> QED BY <1>7, <1>8

LEMMA StreamOrdered ==
    ASSUME TypeOK, TypeOK', PlaceInv, Ordered, NEW c \in Conns, Stream(c)
    PROVE  Ordered' /\ missable \subseteq missable' /\ shown' = shown
  <1>1. shown' = shown
    BY DEF Stream, Subscribe, Snapshot, Drain, Heartbeat, CloseUnstarted, CloseBatches,
           EndGuarded, CloseResponse, clients
  <1>2. CASE Snapshot(c)
    BY <1>1, <1>2, SnapshotOrdered
  <1>3. CASE Drain(c)
    BY <1>1, <1>3, DrainOrdered
  <1>4. CASE ~Snapshot(c) /\ ~Drain(c)
    BY <1>1, <1>4, QuietOrdered DEF Stream
  <1> QED BY <1>2, <1>3, <1>4

-----------------------------------------------------------------------------
(* A page.                                                                  *)

\* What a step of one page leaves of the others, and of the streams.
LEMMA OthersOrdered ==
    ASSUME TypeOK, TypeOK', Ordered, NEW b \in Clients,
           UNCHANGED <<boot, seq, lines, queue>>, missable \subseteq missable',
           \A a \in Clients : a # b => /\ bootId'[a] = bootId[a] /\ lastSeq'[a] = lastSeq[a]
                                       /\ net'[a] = net[a] /\ shown'[a] = shown[a]
                                       /\ page'[a] = page[a],
           \A d \in Conns : /\ reader'[d] \in {b, NoOne} \/ reader'[d] = reader[d]
                            /\ reader[d] \notin {b, NoOne} =>
                                  place'[d] = place[d] /\ reader'[d] = reader[d]
                            /\ place'[d] = "subscribed" => place[d] = "subscribed",
           PageOf(b)', NetOf(b)', \A d \in Conns : reader'[d] = b => StreamOf(d, b)'
    PROVE  Ordered'
  <1>1. RingInv'
    <2>1. \A d \in Conns : QueueOf(d)'
      BY DEF Ordered, RingInv, QueueOf
    <2> QED BY <2>1 DEF Ordered, RingInv
  <1>2. seq <= seq'
    BY DEF TypeOK
  <1>3. PageInv'
    BY <1>2, PageSame DEF Ordered, PageInv
  <1>4. NetInv'
    <2>1. \A a \in Clients : a # b => NetOf(a)'
      BY <1>2, NetSame DEF Ordered
    <2> QED BY <2>1 DEF NetInv, NetOf
  <1>5. ASSUME NEW d \in Conns, NEW a \in Clients, reader'[d] = a PROVE StreamOf(d, a)'
    <2>1. CASE a = b
      BY <1>5, <2>1
    <2>2. CASE a # b
      <3>1. a # NoOne
        BY Bounds
      <3>2. reader[d] = a /\ place'[d] = place[d]
        BY <1>5, <2>2, <3>1
      <3>3. \A e \in Conns : reader'[e] = a => reader[e] = a
        BY <2>2, <3>1
      <3>4. StreamOf(d, a)
        BY <3>2 DEF Ordered, StreamInv
      <3> QED BY <2>2, <3>2, <3>3, <3>4, StreamSame
    <2> QED BY <2>1, <2>2
  <1> QED BY <1>1, <1>3, <1>4, <1>5 DEF Ordered, StreamInv

\* A page that does not read a stream.
LEMMA NoStream ==
    ASSUME Ordered, NEW b \in Clients, page[b] # "open"
    PROVE  \A d \in Conns : reader[d] # b
  BY DEF Ordered, StreamInv, StreamOf

LEMMA ConnectOrdered ==
    ASSUME TypeOK, TypeOK', PlaceInv, Ordered, NEW b \in Clients,
           InitPage(b) \/ OpenStream(b) \/ Refuse(b) \/ LoseStream(b) \/ Leave(b)
    PROVE  Ordered' /\ missable \subseteq missable'
  <1> USE DEF buffer, streams, clients
  <1>1. /\ UNCHANGED <<boot, seq, lines, queue, place, missable>>
        /\ \A a \in Clients : a # b => /\ bootId'[a] = bootId[a] /\ lastSeq'[a] = lastSeq[a]
                                       /\ net'[a] = net[a] /\ shown'[a] = shown[a]
                                       /\ page'[a] = page[a]
    <2>1. CASE InitPage(b)
      BY <2>1 DEF InitPage, TypeOK
    <2>2. CASE OpenStream(b) \/ Refuse(b)
      BY <2>2 DEF OpenStream, Refuse, TypeOK
    <2>3. CASE LoseStream(b)
      BY <2>3 DEF LoseStream, TypeOK
    <2>4. CASE Leave(b)
      BY <2>4 DEF Leave, TypeOK
    <2> QED BY <2>1, <2>2, <2>3, <2>4
  <1>2. \A d \in Conns : reader'[d] # b /\ (reader[d] # b => reader'[d] = reader[d])
                         /\ (reader[d] = b => reader'[d] = NoOne)
    <2>1. CASE InitPage(b) \/ OpenStream(b) \/ Refuse(b)
      <3>1. page[b] # "open" /\ reader' = reader
        BY <2>1 DEF InitPage, OpenStream, Refuse
      <3> QED BY <3>1, NoStream
    <2>2. CASE LoseStream(b) \/ Leave(b)
      <3>1. reader' = Unread(b)
        BY <2>2 DEF LoseStream, Leave
      <3> QED BY <3>1, Bounds DEF Unread
    <2> QED BY <2>1, <2>2
  <1>3. page'[b] \notin {"open", "broken"} /\ net'[b] = <<>>
    <2>1. page \in [Clients -> Pages] /\ net \in [Clients -> Seq(Frames)]
      BY DEF TypeOK, Pages
    <2>2. CASE InitPage(b) \/ OpenStream(b) \/ Refuse(b)
      BY <2>1, <2>2 DEF InitPage, OpenStream, Refuse, Ordered, NetInv
    <2>3. CASE LoseStream(b) \/ Leave(b)
      BY <2>1, <2>3 DEF LoseStream, Leave
    <2> QED BY <2>2, <2>3
  <1>4. PageOf(b)'
    <2>0. /\ page \in [Clients -> Pages] /\ shown \in [Clients -> Seq(Rows)]
          /\ bootId \in [Clients -> Nat] /\ lastSeq \in [Clients -> 0..MaxLines]
          /\ PageOf(b) /\ boot \in Nat \ {0}
      BY DEF TypeOK, Pages, Ordered, PageInv
    <2>1. CASE InitPage(b)
      <3>1. bootId' = bootId /\ shown' = shown /\ lastSeq'[b] = RowMark(b) /\ boot' = boot
            /\ seq' = seq
        BY <2>0, <2>1 DEF InitPage, RowMark
      <3> QED BY <2>0, <3>1 DEF PageOf, RowMark
    <2>2. CASE OpenStream(b) \/ Refuse(b) \/ LoseStream(b)
      <3>1. /\ UNCHANGED <<bootId, shown, lastSeq, boot, seq>>
            /\ page[b] \in {"waiting", "asking", "open", "broken"}
        BY <2>2 DEF OpenStream, Refuse, LoseStream
      <3> QED BY <2>0, <3>1 DEF PageOf, RowMark
    <2>3. CASE Leave(b)
      <3>1. /\ page'[b] = "left" /\ shown'[b] = <<>> /\ bootId'[b] = 0 /\ boot' = boot
        BY <2>0, <2>3 DEF Leave
      <3> QED BY <2>0, <3>1 DEF PageOf
    <2> QED BY <2>1, <2>2, <2>3
  <1>5. NetOf(b)'
    BY <1>3 DEF NetOf
  <1>6. \A d \in Conns : /\ reader'[d] \in {b, NoOne} \/ reader'[d] = reader[d]
                         /\ reader[d] \notin {b, NoOne} =>
                               place'[d] = place[d] /\ reader'[d] = reader[d]
                         /\ place'[d] = "subscribed" => place[d] = "subscribed"
                         /\ reader'[d] # b
    BY <1>1, <1>2
  <1> QED BY <1>1, <1>4, <1>5, <1>6, OthersOrdered

LEMMA AcceptOrdered ==
    ASSUME TypeOK, TypeOK', PlaceInv, Ordered, NEW b \in Clients, NEW c \in Conns,
           Accept(b, c)
    PROVE  Ordered' /\ missable \subseteq missable'
  <1> USE DEF buffer, streams, clients
  <1>1. /\ UNCHANGED <<boot, seq, lines, queue, bootId, lastSeq, net, shown, missable>>
        /\ page[b] = "asking" /\ page' = [page EXCEPT ![b] = "open"]
        /\ place[c] = "none" /\ place' = [place EXCEPT ![c] = "unstarted"]
        /\ reader' = [reader EXCEPT ![c] = b]
        /\ page \in [Clients -> Pages] /\ place \in [Conns -> Places]
        /\ reader \in [Conns -> Clients \cup {NoOne}]
    BY DEF Accept, TypeOK, Pages, Places
  <1>2. reader[c] = NoOne /\ net[b] = <<>> /\ PageOf(b) /\ \A d \in Conns : reader[d] # b
    BY <1>1, NoStream DEF PlaceInv, Ordered, NetInv, PageInv
  <1>3. PageOf(b)'
    BY <1>1, <1>2 DEF PageOf, RowMark
  <1>4. NetOf(b)'
    BY <1>1, <1>2 DEF NetOf
  <1>5. \A d \in Conns : reader'[d] = b => StreamOf(d, b)'
    BY <1>1, <1>2 DEF StreamOf
  <1>6. \A d \in Conns : /\ reader'[d] \in {b, NoOne} \/ reader'[d] = reader[d]
                         /\ reader[d] \notin {b, NoOne} =>
                               place'[d] = place[d] /\ reader'[d] = reader[d]
                         /\ place'[d] = "subscribed" => place[d] = "subscribed"
    BY <1>1, <1>2
  <1>7. \A a \in Clients : a # b => /\ bootId'[a] = bootId[a] /\ lastSeq'[a] = lastSeq[a]
                                    /\ net'[a] = net[a] /\ shown'[a] = shown[a]
                                    /\ page'[a] = page[a]
    BY <1>1
  <1> QED BY <1>1, <1>3, <1>4, <1>5, <1>6, <1>7, OthersOrdered

\* What a page shows when it is loaded: the ring, a chain of lines one apart.
LEMMA RenderOrdered ==
    ASSUME TypeOK, TypeOK', PlaceInv, Ordered, NEW b \in Clients, RenderPage(b)
    PROVE  Ordered' /\ missable \subseteq missable' /\ Chained(shown[b])'
  <1> USE DEF buffer, streams, clients
  <1>1. /\ UNCHANGED <<boot, seq, lines, queue, place, reader, lastSeq, net>>
        /\ missable \subseteq missable' /\ page[b] = "away"
        /\ page' = [page EXCEPT ![b] = "rendered"]
        /\ bootId' = [bootId EXCEPT ![b] = boot]
        /\ shown' = [shown EXCEPT ![b] = RowsOf(boot, lines)]
        /\ page \in [Clients -> Pages] /\ bootId \in [Clients -> Nat]
        /\ shown \in [Clients -> Seq(Rows)] /\ boot \in Nat /\ seq \in Nat
        /\ lines \in Seq(1..MaxLines) /\ Len(lines) \in Nat
    BY DEF RenderPage, Line, RowsOf, TypeOK, Pages
  <1>2. /\ shown'[b] = RowsOf(boot, lines) /\ shown'[b] \in Seq(Rows)
        /\ Len(shown'[b]) = Len(lines)
        /\ \A i \in 1..Len(lines) : /\ shown'[b][i].boot = boot
                                    /\ shown'[b][i].seq = seq - Len(lines) + i
    <2>1. shown'[b] = RowsOf(boot, lines)
      BY <1>1
    <2>2. \A i \in 1..Len(lines) : lines[i] = seq - Len(lines) + i
      BY <1>1 DEF Ordered, RingInv
    <2> QED BY <1>1, <2>1, <2>2, RowsType
  <1>3. shown'[b] # <<>> => Last(shown'[b]).boot = boot /\ Last(shown'[b]).seq = seq
    <2> SUFFICES ASSUME shown'[b] # <<>>
                 PROVE  Last(shown'[b]).boot = boot /\ Last(shown'[b]).seq = seq
      OBVIOUS
    <2>1. Last(shown'[b]) = shown'[b][Len(lines)] /\ Len(lines) # 0
      BY <1>2, EmptySeq DEF Last
    <2>2. Len(lines) \in 1..Len(lines) /\ seq - Len(lines) + Len(lines) = seq
      BY <1>1, <2>1
    <2> QED BY <1>2, <2>1, <2>2
  <1>4. PageOf(b)'
    <2>1. RowMark(b)' \in 0..seq
      BY <1>1, <1>3 DEF RowMark
    <2> QED BY <1>1, <1>3, <2>1 DEF PageOf
  <1>5. NetOf(b)' /\ \A d \in Conns : reader'[d] # b
    BY <1>1, NoStream DEF NetOf, Ordered, NetInv
  <1>6. Ordered'
    <2>1. \A a \in Clients : a # b => /\ bootId'[a] = bootId[a] /\ lastSeq'[a] = lastSeq[a]
                                      /\ net'[a] = net[a] /\ shown'[a] = shown[a]
                                      /\ page'[a] = page[a]
      BY <1>1
    <2> QED BY <1>1, <1>4, <1>5, <2>1, OthersOrdered
  <1>7. Chained(shown[b])'
    <2>1. PICK r \in Seq(Rows) : r = shown'[b]
      BY <1>2
    <2>2. ASSUME NEW i \in 1..(Len(r) - 1)
          PROVE  /\ r[i].boot = r[i + 1].boot /\ r[i].boot \in Nat /\ r[i].seq \in Int
                 /\ r[i + 1].seq = r[i].seq + 1
      <3>1. i \in 1..Len(lines) /\ i + 1 \in 1..Len(lines)
        BY <1>1, <1>2, <2>1
      <3>2. /\ r[i].boot = boot /\ r[i].seq = seq - Len(lines) + i
            /\ r[i + 1].boot = boot /\ r[i + 1].seq = seq - Len(lines) + (i + 1)
        BY <1>2, <2>1, <3>1
      <3> QED BY <1>1, <3>2
    <2>3. ASSUME NEW i \in 1..(Len(r) - 1) PROVE Follows(r[i], r[i + 1])'
      BY <2>2 DEF Follows, Before
    <2>4. Chained(r)'
      BY <2>3 DEF Chained
    <2> QED BY <2>1, <2>4 DEF Chained, Follows
  <1> QED BY <1>1, <1>6, <1>7

-----------------------------------------------------------------------------
(* A page receives a frame.                                                 *)

\* Two chains make one if the second may follow the first.
LEMMA ChainConcat ==
    ASSUME NEW r \in Seq(Rows), NEW s \in Seq(Rows), Chained(r), Chained(s),
           r # <<>> /\ s # <<>> => Follows(Last(r), s[1])
    PROVE  /\ Chained(r \o s) /\ r \o s \in Seq(Rows)
           /\ s # <<>> => r \o s # <<>> /\ Last(r \o s) = Last(s)
           /\ s = <<>> => r \o s = r
  <1>1. /\ Len(r) \in Nat /\ Len(s) \in Nat /\ Len(r \o s) = Len(r) + Len(s)
        /\ \A i \in 1..Len(r) : (r \o s)[i] = r[i]
        /\ \A i \in 1..Len(s) : (r \o s)[Len(r) + i] = s[i]
        /\ r \o s \in Seq(Rows)
    OBVIOUS
  <1>2. ASSUME NEW i \in 1..(Len(r \o s) - 1) PROVE Follows((r \o s)[i], (r \o s)[i + 1])
    <2>1. CASE i < Len(r)
      <3>1. i \in 1..Len(r) /\ i + 1 \in 1..Len(r) /\ i \in 1..(Len(r) - 1)
        BY <1>1, <2>1
      <3> QED BY <1>1, <3>1 DEF Chained
    <2>2. CASE i = Len(r)
      <3>1. /\ Len(r) \in 1..Len(r) /\ 1 \in 1..Len(s) /\ r # <<>> /\ s # <<>>
        BY <1>1, <2>2, EmptySeq
      <3>2. (r \o s)[i] = Last(r) /\ (r \o s)[i + 1] = s[1]
        BY <1>1, <2>2, <3>1 DEF Last
      <3> QED BY <3>1, <3>2
    <2>3. CASE i > Len(r)
      <3>1. PICK j \in 1..(Len(s) - 1) : i = Len(r) + j
        <4>1. i - Len(r) \in 1..(Len(s) - 1) /\ i = Len(r) + (i - Len(r))
          BY <1>1, <2>3
        <4> QED BY <4>1
      <3>2. j \in 1..Len(s) /\ j + 1 \in 1..Len(s) /\ i + 1 = Len(r) + (j + 1)
        BY <1>1, <3>1
      <3>3. (r \o s)[i] = s[j] /\ (r \o s)[i + 1] = s[j + 1]
        BY <1>1, <3>1, <3>2
      <3> QED BY <3>1, <3>3 DEF Chained
    <2> QED BY <1>1, <2>1, <2>2, <2>3
  <1>3. ASSUME s # <<>> PROVE r \o s # <<>> /\ Last(r \o s) = Last(s)
    <2>1. Len(s) \in 1..Len(s)
      BY <1>1, <1>3, EmptySeq
    <2>2. (r \o s)[Len(r) + Len(s)] = s[Len(s)] /\ Len(r \o s) # 0
      BY <1>1, <2>1
    <2> QED BY <1>1, <2>2, EmptySeq DEF Last
  <1>4. s = <<>> => r \o s = r
    BY ConcatEmptySeq
  <1> QED BY <1>1, <1>2, <1>3, <1>4 DEF Chained

\* What the watermark leaves of a frame is a chain, and goes on from the mark.
LEMMA FreshChained ==
    ASSUME NEW k \in Nat, NEW ns \in Seq(1..MaxLines), ns # <<>>, Increasing(ns),
           NEW mark \in 0..MaxLines, Covered(k, mark, Last(ns), ns),
           NEW fresh, fresh = Fresh(ns, mark)
    PROVE  /\ fresh \in Seq(1..MaxLines) /\ Chained(RowsOf(k, fresh))
           /\ fresh # <<>> =>
                 /\ \A r \in Rows : r.boot = k /\ r.seq = mark =>
                       Follows(r, RowsOf(k, fresh)[1])
                 /\ Last(fresh) = Last(ns)
                 /\ Last(RowsOf(k, fresh)).boot = k
                 /\ Last(RowsOf(k, fresh)).seq = Last(fresh)
           /\ fresh = <<>> => Last(ns) <= mark
           /\ RowsOf(k, fresh) = <<>> <=> fresh = <<>>
  <1>1. /\ 1..MaxLines \in SUBSET Nat /\ mark \in Nat
        /\ fresh \in Seq(1..MaxLines)
    <2>1. 1..MaxLines \in SUBSET Nat /\ mark \in Nat
      OBVIOUS
    <2> QED BY <2>1, FreshPicks
  <1>2. /\ Increasing(fresh)
        /\ \A j \in DOMAIN fresh : fresh[j] > mark /\ fresh[j] \in ToSet(ns)
        /\ \A n \in ToSet(ns) : n > mark => n \in ToSet(fresh)
        /\ fresh # <<>> => Last(fresh) = Last(ns)
    BY <1>1, FreshFilters
  <1>3. /\ Len(fresh) \in Nat /\ DOMAIN fresh = 1..Len(fresh)
        /\ \A j \in 1..Len(fresh) : fresh[j] \in 1..MaxLines /\ fresh[j] <= Last(ns)
    <2>1. Len(fresh) \in Nat /\ DOMAIN fresh = 1..Len(fresh)
      BY <1>1
    <2> QED BY <1>2, <2>1, LastIsLargest
  <1>4. /\ RowsOf(k, fresh) \in Seq(Rows) /\ Len(RowsOf(k, fresh)) = Len(fresh)
        /\ \A i \in 1..Len(fresh) : /\ RowsOf(k, fresh)[i].boot = k
                                    /\ RowsOf(k, fresh)[i].seq = fresh[i]
    BY <1>1, RowsType
  <1>5. Last(ns) \in 1..MaxLines /\ Last(ns) \in ToSet(ns)
    BY LastFacts
  <1>6. ASSUME NEW x \in Nat, x > mark, x <= Last(ns),
               [boot |-> k, seq |-> x] \notin missable
        PROVE  \E l \in 1..Len(fresh) : x = fresh[l]
    <2>1. x \in (mark + 1)..Last(ns)
      BY <1>1, <1>5, <1>6
    <2>2. x \in ToSet(ns)
      BY <1>6, <2>1 DEF Covered
    <2>3. x \in ToSet(fresh)
      BY <1>2, <1>6, <2>2
    <2> QED BY <1>3, <2>3 DEF ToSet
  <1>7. ASSUME NEW i \in 1..(Len(fresh) - 1)
        PROVE  Follows(RowsOf(k, fresh)[i], RowsOf(k, fresh)[i + 1])
    <2>1. i \in 1..Len(fresh) /\ i + 1 \in 1..Len(fresh) /\ i < i + 1
      BY <1>3
    <2>2. fresh[i] < fresh[i + 1] /\ fresh[i] \in Nat /\ fresh[i + 1] \in Nat
      BY <1>2, <1>3, <2>1 DEF Increasing
    <2>3. ASSUME NEW n \in (fresh[i] + 1)..(fresh[i + 1] - 1)
          PROVE  [boot |-> k, seq |-> n] \in missable
      <3> SUFFICES ASSUME [boot |-> k, seq |-> n] \notin missable PROVE FALSE
        OBVIOUS
      <3>1. n \in Nat /\ n > mark /\ n <= Last(ns) /\ fresh[i] < n /\ n < fresh[i + 1]
        <4>1. fresh[i] > mark /\ fresh[i + 1] <= Last(ns) /\ Last(ns) \in Nat /\ mark \in Nat
          BY <1>1, <1>2, <1>3, <1>5, <2>1
        <4> QED BY <2>2, <4>1
      <3>2. PICK l \in 1..Len(fresh) : n = fresh[l]
        BY <1>6, <3>1
      <3>3. l \in Nat /\ i \in Nat /\ (l <= i \/ i + 1 <= l)
        BY <2>1
      <3>4. CASE l <= i
        <4>1. l = i \/ l < i
          BY <3>3, <3>4
        <4>2. l < i => fresh[l] < fresh[i]
          BY <1>2, <1>3, <2>1 DEF Increasing
        <4> QED BY <2>2, <3>1, <3>2, <4>1, <4>2
      <3>5. CASE i + 1 <= l
        <4>1. l = i + 1 \/ i + 1 < l
          BY <3>3, <3>5
        <4>2. i + 1 < l => fresh[i + 1] < fresh[l]
          BY <1>2, <1>3, <2>1 DEF Increasing
        <4> QED BY <2>2, <3>1, <3>2, <4>1, <4>2
      <3> QED BY <3>3, <3>4, <3>5
    <2> QED BY <1>4, <2>1, <2>2, <2>3 DEF Follows, Before
  <1>8. ASSUME fresh # <<>>, NEW r \in Rows, r.boot = k, r.seq = mark
        PROVE  Follows(r, RowsOf(k, fresh)[1])
    <2>1. 1 \in 1..Len(fresh)
      BY <1>3, <1>8, EmptySeq
    <2>2. fresh[1] > mark /\ fresh[1] \in 1..MaxLines /\ fresh[1] <= Last(ns)
      BY <1>2, <1>3, <2>1
    <2>3. ASSUME NEW n \in (mark + 1)..(fresh[1] - 1)
          PROVE  [boot |-> k, seq |-> n] \in missable
      <3> SUFFICES ASSUME [boot |-> k, seq |-> n] \notin missable PROVE FALSE
        OBVIOUS
      <3>1. n \in Nat /\ n > mark /\ n <= Last(ns) /\ n < fresh[1]
        BY <1>1, <1>5, <2>2
      <3>2. PICK l \in 1..Len(fresh) : n = fresh[l]
        BY <1>6, <3>1
      <3>3. l = 1 \/ 1 < l
        OBVIOUS
      <3>4. 1 < l => fresh[1] < fresh[l]
        BY <1>2, <1>3, <2>1 DEF Increasing
      <3> QED BY <2>2, <3>1, <3>2, <3>3, <3>4
    <2> QED BY <1>1, <1>4, <1>8, <2>1, <2>2, <2>3 DEF Follows, Before
  <1>9. ASSUME fresh # <<>>
        PROVE  /\ Last(RowsOf(k, fresh)).boot = k
               /\ Last(RowsOf(k, fresh)).seq = Last(fresh)
    <2>1. Len(fresh) \in 1..Len(fresh)
      BY <1>3, <1>9, EmptySeq
    <2> QED BY <1>4, <2>1 DEF Last
  <1>10. fresh = <<>> => Last(ns) <= mark
    <2> SUFFICES ASSUME fresh = <<>>, Last(ns) > mark PROVE FALSE
      BY <1>1, <1>5
    <2>1. Last(ns) \in ToSet(fresh)
      BY <1>2, <1>5
    <2> QED BY <2>1 DEF ToSet
  <1>11. RowsOf(k, fresh) = <<>> <=> fresh = <<>>
    BY <1>1, <1>4, EmptySeq
  <1>12. Chained(RowsOf(k, fresh))
    BY <1>4, <1>7 DEF Chained
  <1> QED BY <1>1, <1>2, <1>8, <1>9, <1>10, <1>11, <1>12

LEMMA ReceiveOrdered ==
    ASSUME TypeOK, TypeOK', PlaceInv, Ordered, NEW b \in Clients, Chained(shown[b]),
           Receive(b)
    PROVE  Ordered' /\ missable \subseteq missable' /\ Chained(shown[b])'
  <1> USE DEF buffer, streams, clients
  <1>1. PICK frame \in Frames, mark \in 0..MaxLines, fresh \in Seq(1..MaxLines) :
              /\ net[b] # <<>> /\ frame = Head(net[b]) /\ page[b] \in {"open", "broken"}
              /\ mark = IF Restarted(b, frame) THEN 0 ELSE lastSeq[b]
              /\ fresh = Fresh(frame.lines, mark)
              /\ bootId' = [bootId EXCEPT ![b] = frame.boot]
              /\ lastSeq' = [lastSeq EXCEPT ![b] = IF fresh = <<>> THEN mark ELSE Last(fresh)]
              /\ shown' = [shown EXCEPT ![b] =
                    (shown[b] \o Marker(b, frame)) \o RowsOf(frame.boot, fresh)]
              /\ net' = [net EXCEPT ![b] = Tail(net[b])]
              /\ UNCHANGED <<buffer, streams, page, missable, errors>>
    BY ReceiveFacts, Zenon
  <1>2. /\ UNCHANGED <<boot, seq, lines, queue, place, reader, page, missable>>
        /\ missable \subseteq missable'
        /\ bootId \in [Clients -> Nat] /\ lastSeq \in [Clients -> 0..MaxLines]
        /\ net \in [Clients -> Seq(Frames)] /\ shown \in [Clients -> Seq(Rows)]
        /\ net[b] \in Seq(Frames) /\ shown[b] \in Seq(Rows) /\ lastSeq[b] \in 0..MaxLines
        /\ bootId[b] \in Nat /\ boot \in Nat /\ seq \in Nat /\ PageOf(b)
    <2>1. UNCHANGED <<boot, seq, lines, queue, place, reader, page, missable>>
      BY <1>1
    <2>2. missable \subseteq missable' /\ PageOf(b)
      BY <2>1 DEF Ordered, PageInv
    <2>3. /\ bootId \in [Clients -> Nat] /\ lastSeq \in [Clients -> 0..MaxLines]
          /\ net \in [Clients -> Seq(Frames)] /\ shown \in [Clients -> Seq(Rows)]
      BY DEF TypeOK
    <2>5. boot \in Nat /\ seq \in Nat
      BY DEF TypeOK
    <2>4. /\ net[b] \in Seq(Frames) /\ shown[b] \in Seq(Rows) /\ lastSeq[b] \in 0..MaxLines
          /\ bootId[b] \in Nat
      BY <2>3
    <2> QED BY <2>1, <2>2, <2>3, <2>4, <2>5
  \* The frame, and where it goes on from.
  <1>3. /\ Len(net[b]) \in Nat \ {0} /\ DOMAIN net[b] = 1..Len(net[b])
        /\ frame = net[b][1] /\ 1 \in DOMAIN net[b] /\ FrameOf(b, 1)
    <2>1. Len(net[b]) \in Nat \ {0} /\ DOMAIN net[b] = 1..Len(net[b])
      BY <1>1, <1>2, LastFacts
    <2>2. frame = net[b][1] /\ 1 \in DOMAIN net[b]
      BY <1>1, <1>2, <2>1
    <2> QED BY <2>1, <2>2 DEF Ordered, NetInv
  <1>4. /\ frame.boot \in Nat /\ frame.lines \in Seq(1..MaxLines) /\ frame.lines # <<>>
        /\ frame.boot \in bootId[b]..boot /\ Increasing(frame.lines)
        /\ Last(frame.lines) \in 1..MaxLines
        /\ frame.boot = boot => Last(frame.lines) <= seq
        /\ MarkBefore(b, 1) = IF frame.boot = bootId[b] THEN lastSeq[b] ELSE 0
        /\ MarkBefore(b, 1) <= Last(frame.lines)
        /\ Covered(frame.boot, MarkBefore(b, 1), Last(frame.lines), frame.lines)
    <2>1. frame.boot \in Nat /\ frame.lines \in Seq(1..MaxLines)
      BY DEF Frames
    <2>2. /\ frame.lines # <<>> /\ frame.boot \in bootId[b]..boot /\ Increasing(frame.lines)
          /\ frame.boot = boot => Last(frame.lines) <= seq
          /\ MarkBefore(b, 1) <= Last(frame.lines)
          /\ Covered(frame.boot, MarkBefore(b, 1), Last(frame.lines), frame.lines)
      BY <1>3 DEF FrameOf
    <2>3. MarkBefore(b, 1) = IF frame.boot = bootId[b] THEN lastSeq[b] ELSE 0
      BY <1>3 DEF MarkBefore
    <2>4. Last(frame.lines) \in 1..MaxLines
      BY <2>1, <2>2, LastFacts
    <2> QED BY <2>1, <2>2, <2>3, <2>4
  \* A restart is told by the boot id alone.
  <1>5. Restarted(b, frame) <=> frame.boot # bootId[b]
    <2>1. frame.boot = bootId[b] => ~(Last(frame.lines) < lastSeq[b])
      BY <1>2, <1>4
    <2> QED BY <2>1 DEF Restarted, NewBoot, WentBack
  <1>6. mark = MarkBefore(b, 1)
    BY <1>1, <1>4, <1>5
  <1>7. /\ Chained(RowsOf(frame.boot, fresh))
        /\ fresh # <<>> =>
              /\ \A r \in Rows : r.boot = frame.boot /\ r.seq = mark =>
                    Follows(r, RowsOf(frame.boot, fresh)[1])
              /\ Last(fresh) = Last(frame.lines)
              /\ Last(RowsOf(frame.boot, fresh)).boot = frame.boot
              /\ Last(RowsOf(frame.boot, fresh)).seq = Last(fresh)
        /\ fresh = <<>> => Last(frame.lines) <= mark
        /\ RowsOf(frame.boot, fresh) = <<>> <=> fresh = <<>>
        /\ RowsOf(frame.boot, fresh) \in Seq(Rows)
    <2>1. Covered(frame.boot, mark, Last(frame.lines), frame.lines) /\ fresh = Fresh(frame.lines, mark)
      BY <1>1, <1>4, <1>6
    <2>2. RowsOf(frame.boot, fresh) \in Seq(Rows)
      BY <1>4, RowsType
    <2> QED BY <1>4, <2>1, <2>2, FreshChained
  <1>8. lastSeq'[b] = Last(frame.lines) /\ bootId'[b] = frame.boot
    <2>1. fresh = <<>> => mark = Last(frame.lines)
      BY <1>4, <1>6, <1>7
    <2> QED BY <1>1, <1>2, <1>7, <2>1
  \* The rows: the marker, if any, then what is fresh.
  <1>9. PICK rows \in Seq(Rows) :
              /\ rows = shown[b] \o Marker(b, frame) /\ Chained(rows)
              /\ rows # <<>> => Last(rows).boot = frame.boot /\ Last(rows).seq = mark
              /\ rows = <<>> => mark = 0
              /\ rows # <<>> => Last(rows) \in Rows
    <2>1. CASE Restarted(b, frame)
      <3>0. [boot |-> frame.boot, seq |-> 0] \in Rows
        BY <1>4, Bounds DEF Rows
      <3>1. PICK m \in Rows : m = [boot |-> frame.boot, seq |-> 0]
        BY <3>0, Zenon
      <3>2. Marker(b, frame) = <<m>> /\ <<m>> \in Seq(Rows) /\ <<m>> # <<>>
        BY <2>1, <3>1 DEF Marker
      <3>3. Chained(<<m>>) /\ Last(<<m>>) = m /\ <<m>>[1] = m
        BY DEF Chained, Last
      <3>4. shown[b] # <<>> => Follows(Last(shown[b]), <<m>>[1])
        <4> SUFFICES ASSUME shown[b] # <<>> PROVE Follows(Last(shown[b]), m)
          BY <3>3
        <4>1. Last(shown[b]).boot = bootId[b] /\ bootId[b] < frame.boot /\ m.boot = frame.boot
          BY <1>2, <1>4, <1>5, <2>1, <3>1 DEF PageOf
        <4> QED BY <1>2, <1>4, <4>1 DEF Follows, Before
      <3>5. /\ Chained(shown[b] \o <<m>>) /\ shown[b] \o <<m>> \in Seq(Rows)
            /\ shown[b] \o <<m>> # <<>> /\ Last(shown[b] \o <<m>>) = m
        BY <1>2, <3>2, <3>3, <3>4, ChainConcat
      <3>6. mark = 0 /\ m.boot = frame.boot /\ m.seq = 0
        BY <1>1, <2>1, <3>1
      <3> QED BY <3>2, <3>5, <3>6
    <2>2. CASE ~Restarted(b, frame)
      <3>1. Marker(b, frame) = <<>> /\ frame.boot = bootId[b] /\ mark = lastSeq[b]
        BY <1>1, <1>5, <2>2 DEF Marker
      <3>2. shown[b] \o Marker(b, frame) = shown[b]
        BY <1>2, <3>1, ConcatEmptySeq
      <3>3. lastSeq[b] = RowMark(b)
        BY <1>1, <1>2 DEF PageOf
      <3>4. /\ shown[b] # <<>> => Last(shown[b]).boot = bootId[b] /\ Last(shown[b]).seq = mark
            /\ shown[b] = <<>> => mark = 0
        BY <1>2, <3>1, <3>3 DEF PageOf, RowMark
      <3>5. shown[b] # <<>> => Last(shown[b]) \in Rows
        BY <1>2, LastFacts
      <3> QED BY <1>2, <3>1, <3>2, <3>4, <3>5
    <2> QED BY <2>1, <2>2
  <1>10. /\ shown'[b] = rows \o RowsOf(frame.boot, fresh) /\ Chained(shown'[b])
         /\ shown'[b] # <<>> =>
               Last(shown'[b]).boot = frame.boot /\ Last(shown'[b]).seq = Last(frame.lines)
         /\ shown'[b] = <<>> => Last(frame.lines) = 0
    <2>1. shown'[b] = rows \o RowsOf(frame.boot, fresh)
      BY <1>1, <1>2, <1>9
    <2>2. rows # <<>> /\ RowsOf(frame.boot, fresh) # <<>> =>
              Follows(Last(rows), RowsOf(frame.boot, fresh)[1])
      BY <1>7, <1>9
    <2>3. /\ Chained(rows \o RowsOf(frame.boot, fresh))
          /\ RowsOf(frame.boot, fresh) # <<>> =>
                /\ rows \o RowsOf(frame.boot, fresh) # <<>>
                /\ Last(rows \o RowsOf(frame.boot, fresh)) = Last(RowsOf(frame.boot, fresh))
          /\ RowsOf(frame.boot, fresh) = <<>> => rows \o RowsOf(frame.boot, fresh) = rows
      BY <1>7, <1>9, <2>2, ChainConcat
    <2>4. CASE fresh # <<>>
      BY <1>7, <2>1, <2>3, <2>4
    <2>5. CASE fresh = <<>>
      <3>1. mark = Last(frame.lines) /\ shown'[b] = rows
        BY <1>4, <1>6, <1>7, <2>1, <2>3, <2>5
      <3> QED BY <1>9, <2>1, <2>3, <3>1
    <2> QED BY <2>4, <2>5
  <1>11. Chained(shown[b])'
    BY <1>2, <1>10 DEF Chained, Follows
  <1>12. PageOf(b)'
    <2>1. RowMark(b)' = Last(frame.lines)
      BY <1>10 DEF RowMark
    <2> QED BY <1>2, <1>4, <1>8, <1>10, <2>1 DEF PageOf
  \* The frames behind it.
  <1>13. /\ net'[b] = Tail(net[b]) /\ DOMAIN net'[b] = 1..(Len(net[b]) - 1)
         /\ \A i \in 1..(Len(net[b]) - 1) : net'[b][i] = net[b][i + 1]
         /\ net'[b] # <<>> => Last(net'[b]) = Last(net[b])
         /\ net'[b] = <<>> => Last(net[b]) = frame
    <2>1. net'[b] = Tail(net[b])
      BY <1>1, <1>2
    <2> QED BY <1>1, <1>2, <2>1, TailFacts
  <1>14. ASSUME NEW i \in DOMAIN net'[b] PROVE FrameOf(b, i)'
    <2>1. /\ i \in Nat /\ i \in 1..(Len(net[b]) - 1) /\ Len(net[b]) - 1 \in Nat /\ i + 1 \in DOMAIN net[b] /\ i + 1 > 1
          /\ 1 \in 1..(Len(net[b]) - 1)
      BY <1>3, <1>13
    <2>2. /\ FrameOf(b, i + 1) /\ net'[b][i] = net[b][i + 1] /\ net'[b][1] = net[b][1 + 1]
          /\ FrameOf(b, 1 + 1)
      <3>1. 1 + 1 \in DOMAIN net[b]
        BY <1>3, <2>1
      <3> QED BY <1>13, <2>1, <3>1 DEF Ordered, NetInv
    <2>3. MarkBefore(b, i)' = MarkBefore(b, i + 1)
      <3>1. MarkBefore(b, i + 1) = Last(net[b][i].lines)
        <4>1. (i + 1) - 1 = i
          BY <2>1
        <4> QED BY <2>1, <4>1 DEF MarkBefore
      <3>2. CASE i > 1
        <4>1. i - 1 \in 1..(Len(net[b]) - 1) /\ (i - 1) + 1 = i
          BY <2>1, <3>2
        <4>2. net'[b][i - 1] = net[b][i]
          BY <1>13, <4>1
        <4> QED BY <3>1, <3>2, <4>2 DEF MarkBefore
      <3>3. CASE ~(i > 1)
        <4>1. i = 1
          BY <2>1, <3>3
        <4>2. net'[b][1].boot = bootId'[b]
          BY <1>3, <1>8, <2>2 DEF FrameOf
        <4>3. MarkBefore(b, i)' = lastSeq'[b]
          BY <4>1, <4>2 DEF MarkBefore
        <4> QED BY <1>3, <1>8, <3>1, <4>1, <4>3
      <3> QED BY <3>2, <3>3
    <2>4. Covered(net'[b][i].boot, MarkBefore(b, i + 1), Last(net'[b][i].lines), net'[b][i].lines)
      BY <2>2 DEF FrameOf
    <2>5. Covered(net[b][i].boot, MarkBefore(b, i), Last(net[b][i].lines), net[b][i].lines)'
      BY <1>2, <2>3, <2>4 DEF Covered
    <2>6. /\ net'[b][i].boot = net'[b][1].boot /\ net'[b][i].boot = frame.boot
      BY <1>3, <2>2 DEF FrameOf
    <2>7. net'[b][i].boot \in bootId'[b]..boot'
      BY <1>2, <1>4, <1>8, <2>6
    <2> QED BY <1>2, <2>2, <2>3, <2>5, <2>6, <2>7 DEF FrameOf
  <1>15. NetOf(b)'
    BY <1>1, <1>2, <1>14 DEF NetOf
  <1>16. ASSUME NEW d \in Conns, reader'[d] = b PROVE StreamOf(d, b)'
    <2>1. reader[d] = b /\ StreamOf(d, b)
      BY <1>2, <1>16 DEF Ordered, StreamInv
    <2>2. page[b] = "open" /\ frame.boot = boot
      BY <1>3, <2>1 DEF StreamOf, FrameOf
    <2>3. EndMark(b)' = EndMark(b)
      BY <1>1, <1>2, <1>8, <1>13, <2>2 DEF EndMark
    <2>4. place[d] = "streaming" => Covered(boot, EndMark(b), seq, queue[d])'
      BY <1>2, <2>1, <2>3 DEF StreamOf, Covered
    <2>5. place[d] \notin {"unstarted", "subscribed"}
      BY <1>1, <2>1 DEF StreamOf
    <2> QED BY <1>2, <2>1, <2>3, <2>4, <2>5 DEF StreamOf
  <1>17. Ordered'
    <2>1. \A a \in Clients : a # b => /\ bootId'[a] = bootId[a] /\ lastSeq'[a] = lastSeq[a]
                                      /\ net'[a] = net[a] /\ shown'[a] = shown[a]
                                      /\ page'[a] = page[a]
      BY <1>1, <1>2
    <2> QED BY <1>2, <1>12, <1>15, <1>16, <2>1, OthersOrdered
  <1> QED BY <1>2, <1>11, <1>17

-----------------------------------------------------------------------------
(* The chain of what a page shows.                                          *)

LEMMA InitOrdered == Init => Ordered /\ \A b \in Clients : Chained(shown[b])
  <1> SUFFICES ASSUME Init PROVE Ordered /\ \A b \in Clients : Chained(shown[b])
    OBVIOUS
  <1>1. RingInv
    BY DEF Init, RingInv, QueueOf, Increasing
  <1>2. PageInv
    BY DEF Init, PageInv, PageOf, RowMark
  <1>3. NetInv
    BY DEF Init, NetInv
  <1>4. StreamInv
    BY Bounds DEF Init, StreamInv
  <1>5. \A b \in Clients : Chained(shown[b])
    BY DEF Init, Chained
  <1> QED BY <1>1, <1>2, <1>3, <1>4, <1>5 DEF Ordered

LEMMA NextOrdered ==
    ASSUME GapFitsQueue, TypeOK, TypeOK', PlaceInv, Ordered,
           \A b \in Clients : Chained(shown[b]), [Next]_vars
    PROVE  Ordered' /\ \A b \in Clients : Chained(shown[b])'
  <1> USE DEF buffer, streams, clients
  <1>1. ASSUME missable \subseteq missable', NEW b \in Clients, shown'[b] = shown[b]
        PROVE  Chained(shown[b])'
    BY <1>1 DEF Chained, Follows
  <1>2. CASE Emit \/ Reconfigure \/ Restart
    <2>1. shown' = shown
      BY <1>2 DEF Emit, Reconfigure, Restart
    <2> QED BY <1>1, <1>2, <2>1, EmitOrdered, ReconfigureOrdered, RestartOrdered
  <1>3. ASSUME NEW c \in Conns, Stream(c)
        PROVE  Ordered' /\ \A b \in Clients : Chained(shown[b])'
    <2>1. Ordered' /\ missable \subseteq missable' /\ shown' = shown
      BY <1>3, StreamOrdered
    <2> QED BY <1>1, <2>1
  <1>4. ASSUME NEW b \in Clients, NEW c \in Conns, Accept(b, c)
        PROVE  Ordered' /\ \A a \in Clients : Chained(shown[a])'
    <2>1. shown' = shown
      BY <1>4 DEF Accept
    <2> QED BY <1>1, <1>4, <2>1, AcceptOrdered
  <1>5. ASSUME NEW b \in Clients,
               InitPage(b) \/ OpenStream(b) \/ Refuse(b) \/ LoseStream(b)
        PROVE  Ordered' /\ \A a \in Clients : Chained(shown[a])'
    <2>1. shown' = shown
      BY <1>5 DEF InitPage, OpenStream, Refuse, LoseStream
    <2> QED BY <1>1, <1>5, <2>1, ConnectOrdered
  <1>6. ASSUME NEW b \in Clients, Leave(b)
        PROVE  Ordered' /\ \A a \in Clients : Chained(shown[a])'
    <2>1. /\ shown'[b] = <<>> /\ \A a \in Clients : a # b => shown'[a] = shown[a]
      BY <1>6 DEF Leave, TypeOK
    <2>2. Chained(shown[b])'
      BY <2>1 DEF Chained
    <2> QED BY <1>1, <1>6, <2>1, <2>2, ConnectOrdered
  <1>7. ASSUME NEW b \in Clients, RenderPage(b)
        PROVE  Ordered' /\ \A a \in Clients : Chained(shown[a])'
    <2>1. \A a \in Clients : a # b => shown'[a] = shown[a]
      BY <1>7 DEF RenderPage, TypeOK
    <2> QED BY <1>1, <1>7, <2>1, RenderOrdered
  <1>8. ASSUME NEW b \in Clients, Receive(b)
        PROVE  Ordered' /\ \A a \in Clients : Chained(shown[a])'
    <2>1. \A a \in Clients : a # b => shown'[a] = shown[a]
      BY <1>8 DEF Receive, TypeOK
    <2> QED BY <1>1, <1>8, <2>1, ReceiveOrdered
  <1>9. CASE UNCHANGED vars
    <2>1. UNCHANGED <<boot, seq, lines, queue, place, reader, page, bootId, lastSeq, net,
                      shown, missable>>
      BY <1>9 DEF vars
    <2>2. \A b \in Clients : Chained(shown[b])'
      BY <1>1, <2>1
    <2>3. RingInv'
      BY <2>1 DEF Ordered, RingInv, QueueOf
    <2>4. seq <= seq' /\ missable \subseteq missable'
      BY <2>1 DEF TypeOK
    <2>5. PageInv'
      BY <2>1, <2>4, PageSame DEF Ordered, PageInv
    <2>6. NetInv'
      <3>1. \A b \in Clients : NetOf(b)'
        BY <2>1, <2>4, NetSame DEF Ordered
      <3> QED BY <3>1 DEF NetInv, NetOf
    <2>7. StreamInv'
      BY <2>1, <2>4, StreamSame DEF Ordered, StreamInv
    <2> QED BY <2>2, <2>3, <2>5, <2>6, <2>7 DEF Ordered
  <1> QED BY <1>2, <1>3, <1>4, <1>5, <1>6, <1>7, <1>8, <1>9 DEF Next, Connect

\* The chain of every page: RowsInOrder and NothingMissed, with what makes them
\* inductive.
THEOREM ChainsUnbroken ==
    ASSUME GapFitsQueue
    PROVE  Spec => [](TypeOK /\ PlaceInv /\ Ordered /\ RowsInOrder /\ NothingMissed)
  <1> DEFINE I == TypeOK /\ PlaceInv /\ Ordered /\ \A b \in Clients : Chained(shown[b])
  <1>1. Init => I
    BY InitSafe, InitOrdered
  <1>2. I /\ [Next]_vars => I'
    <2> SUFFICES ASSUME I, [Next]_vars PROVE I'
      OBVIOUS
    <2>1. TypeOK' /\ PlaceInv'
      BY NextSafe
    <2>2. Ordered' /\ \A b \in Clients : Chained(shown[b])'
      BY <2>1, NextOrdered
    <2> QED BY <2>1, <2>2
  <1>3. I => TypeOK /\ PlaceInv /\ Ordered /\ RowsInOrder /\ NothingMissed
    BY ChainedRows
  <1> HIDE DEF I
  <1> QED BY <1>1, <1>2, <1>3, PTL DEF Spec

\* RowsInOrder: while fewer lines than a queue holds are logged between the two
\* halves of a request, a page shows each line once and in its order, across the
\* snapshot in the page, the one of the stream, lost connections and restarts of
\* the server, however the streams of its earlier connections are still ending.
THEOREM LinesShownOnce ==
    ASSUME GapFitsQueue PROVE Spec => []RowsInOrder
  BY ChainsUnbroken, PTL

\* NothingMissed: and it leaves out no line between two that it shows, other than
\* what the ring had overwritten or its queue had no room for.
THEOREM NoLineSkipped ==
    ASSUME GapFitsQueue PROVE Spec => []NothingMissed
  BY ChainsUnbroken, PTL


====
