----------------------------- MODULE LevelsProofs -----------------------------
(***************************************************************************)
(* The files of a level never overlap, and reads and iterators find the    *)
(* last write of every key.                                                *)
(*                                                                         *)
(* The invariant has two parts.  Shape: the levels are apart now and will  *)
(* be when the compaction under way is installed, because its inputs leave *)
(* no gap in the range of their keys, so that a memtable's table put in    *)
(* meanwhile cannot reach between them.  Reading, until a user key is      *)
(* split: of two entries of a key, a read comes to the newer one first,    *)
(* and what is not there any more is hidden from every snapshot, or is a   *)
(* deletion that hides nothing.                                            *)
(***************************************************************************)
EXTENDS Levels, FiniteSetTheorems, WellFoundedInduction, TLAPS

(***************************************************************************)
(* First elements of finite sets.                                          *)
(***************************************************************************)
\* R is a total order, strict, of S.
TotalOrder(R, S) ==
  /\ \A d, e, f \in S : <<d, e>> \in R /\ <<e, f>> \in R => <<d, f>> \in R
  /\ \A d \in S : <<d, d>> \notin R
  /\ \A d, e \in S : d = e \/ <<d, e>> \in R \/ <<e, d>> \in R

\* A set of natural numbers has a least one.
LEMMA LeastNatural ==
  ASSUME NEW T \in SUBSET Nat, T # {}
  PROVE  \E n \in T : \A m \in T : n <= m
<1> DEFINE R == OpToRel(<, Nat)
<1>1. \A m, n \in Nat : <<m, n>> \in R <=> m < n  BY DEF OpToRel
<1>2. \E n \in T : \A m \in T : ~ (<<m, n>> \in R)
  <2> HIDE DEF R
  <2>1. IsWellFoundedOn(R, Nat)  BY NatLessThanWellFounded DEF R
  <2> QED  BY <2>1, WFMin
<1>3. PICK n \in T : \A m \in T : ~ (<<m, n>> \in R)  BY <1>2
<1>4. n \in Nat /\ \A m \in T : m \in Nat  OBVIOUS
<1> HIDE DEF R
<1>5. \A m \in T : ~ (m < n)  BY <1>1, <1>3, <1>4
<1> QED  BY <1>4, <1>5

\* A finite set that is ordered has a first element.
LEMMA FirstExists ==
  ASSUME NEW S, IsFiniteSet(S), S # {}, NEW R, TotalOrder(R, S)
  PROVE  \E e \in S : \A d \in S : d = e \/ <<e, d>> \in R
<1> DEFINE below(e) == {d \in S : <<d, e>> \in R}
           ranks    == {Cardinality(below(e)) : e \in S}
<1>1. \A e \in S : IsFiniteSet(below(e)) /\ Cardinality(below(e)) \in Nat
  BY FS_Subset, FS_CardinalityType
<1>2. ranks \subseteq Nat /\ ranks # {}  BY <1>1
<1>3. PICK n \in ranks : \A m \in ranks : n <= m
  <2> HIDE DEF ranks
  <2> QED  BY <1>2, LeastNatural
<1>4. PICK e \in S : n = Cardinality(below(e))  OBVIOUS
<1>5. ASSUME NEW d \in S, d # e PROVE <<e, d>> \in R
  <2>1. SUFFICES ASSUME <<d, e>> \in R PROVE FALSE  BY <1>5 DEF TotalOrder
  <2>2. below(d) \subseteq below(e) /\ d \in below(e) /\ d \notin below(d)
    BY <2>1 DEF TotalOrder
  <2>3. /\ Cardinality(below(d)) <= Cardinality(below(e))
        /\ Cardinality(below(d)) # Cardinality(below(e))
    <3>1. IsFiniteSet(below(e))  BY <1>1
    <3> QED  BY <2>2, <3>1, FS_Subset
  <2>4. Cardinality(below(d)) \in Nat /\ Cardinality(below(e)) \in Nat  BY <1>1
  <2>5. Cardinality(below(d)) \in ranks  OBVIOUS
  <2> HIDE DEF ranks, below
  <2> QED  BY <2>3, <2>4, <2>5, <1>3, <1>4
<1> QED  BY <1>5

\* A finite set of numbers has a least and a greatest one.
LEMMA MinMaxIs ==
  ASSUME NEW S \in SUBSET Int, IsFiniteSet(S), S # {}
  PROVE  /\ Min(S) \in S /\ \A n \in S : Min(S) <= n
         /\ Max(S) \in S /\ \A n \in S : n <= Max(S)
<1> DEFINE less    == {p \in S \X S : p[1] < p[2]}
           greater == {p \in S \X S : p[1] > p[2]}
<1>1. TotalOrder(less, S) /\ TotalOrder(greater, S)
  <2>1. \A d, e \in S : <<d, e>> \in less <=> d < e  OBVIOUS
  <2>2. \A d, e \in S : <<d, e>> \in greater <=> d > e  OBVIOUS
  <2> HIDE DEF less, greater
  <2> QED  BY <2>1, <2>2 DEF TotalOrder
<1>2. \E e \in S : \A d \in S : d = e \/ <<e, d>> \in less
  <2> HIDE DEF less
  <2> QED  BY <1>1, FirstExists
<1>3. \E e \in S : \A d \in S : d = e \/ <<e, d>> \in greater
  <2> HIDE DEF greater
  <2> QED  BY <1>1, FirstExists
<1>4. \E e \in S : \A d \in S : e <= d
  <2>1. \A d, e \in S : <<d, e>> \in less => d <= e  OBVIOUS
  <2> HIDE DEF less
  <2>2. PICK e \in S : \A d \in S : d = e \/ <<e, d>> \in less  BY <1>2
  <2>3. e \in Int /\ \A d \in S : d \in Int /\ (d = e \/ e <= d)  BY <2>1, <2>2
  <2> QED  BY <2>3
<1>5. \E e \in S : \A d \in S : e >= d
  <2>1. \A d, e \in S : <<d, e>> \in greater => d >= e  OBVIOUS
  <2> HIDE DEF greater
  <2>2. PICK e \in S : \A d \in S : d = e \/ <<e, d>> \in greater  BY <1>3
  <2>3. e \in Int /\ \A d \in S : d \in Int /\ (d = e \/ e >= d)  BY <2>1, <2>2
  <2> QED  BY <2>3
<1> QED  BY <1>4, <1>5 DEF Min, Max

------------------------------------------------------------------------------
(***************************************************************************)
(* The inductive invariant.                                                *)
(***************************************************************************)
Ents(files)     == UNION {f.entries : f \in files}
AllBefore(A, B) == \A d \in A, e \in B : Before(d, e)
Apart(f, g)     == AllBefore(f.entries, g.entries) \/ AllBefore(g.entries, f.entries)

\* The files there will be when the compaction under way is installed.
After == IF compaction = None THEN version
         ELSE (version \ compaction.inputs) \cup compaction.outputs

FilesOK(files) ==
  /\ IsFiniteSet(files)
  /\ \A f \in files : f \in File /\ f.entries # {} /\ f.entries \subseteq 1..Len(history)

Types ==
  /\ history \in Seq([key : Keys, deletion : BOOLEAN]) /\ Len(history) <= MaxWrites
  /\ mem \subseteq 1..Len(history) /\ imm \subseteq 1..Len(history)
  /\ FilesOK(version)
  /\ snapshots \subseteq 0..Len(history)
  /\ keySplit \in BOOLEAN

\* A file that reaches into the range of keys from low to high.
Reaches(f, low, high) ==
  /\ \E d \in f.entries : Key(d) <= high
  /\ \E d \in f.entries : low <= Key(d)

\* No key between two of the files' is outside the range of each of them.
NoGap(files) ==
  \A d, e \in Ents(files), k \in Int :
    Key(d) <= k /\ k <= Key(e) => \E f \in files : Reaches(f, k, k)

\* The compaction under way takes the files of two levels and leaves no gap.
CompactionOK ==
  compaction # None =>
    /\ compaction \in [inputs : SUBSET version, outputs : SUBSET File]
    /\ FilesOK(compaction.outputs) /\ Ents(compaction.outputs) \subseteq Ents(compaction.inputs)
    /\ NoGap(compaction.inputs)
    /\ \E l \in 0..(NumLevels - 2) :
         /\ \A f \in compaction.inputs : f.level \in {l, l + 1}
         /\ \A f \in compaction.outputs : f.level = l + 1

LevelsApart(files) ==
  \A f, g \in files : f # g /\ f.level = g.level /\ f.level > 0 => Apart(f, g)

Shape == Types /\ CompactionOK /\ LevelsApart(version) /\ LevelsApart(After)

\* A read comes to f before g.
Newer(f, g) == f.level < g.level \/ (f.level = 0 /\ g.level = 0 /\ g.number < f.number)

\* Of two entries of a key in two files, a read comes to the newer one first.
InOrder(f, g) ==
  \A d \in f.entries, e \in g.entries :
    Key(d) = Key(e) => (Newer(f, g) /\ d > e) \/ (Newer(g, f) /\ e > d)

Ordered(files) == \A f, g \in files : f # g => InOrder(f, g)

MemTablesAreNewer ==
  /\ \A d \in mem, e \in imm \cup Ents(version) : d > e
  /\ \A d \in imm, e \in Ents(version) : d > e

\* An entry that is not there is hidden from every snapshot, or is a deletion
\* that hides nothing.
Complete(entries) ==
  \A e \in (1..Len(history)) \ entries :
    /\ e <= SmallestSnapshot
    /\ \/ \E d \in 1..Len(history) : Key(d) = Key(e) /\ d > e /\ d <= SmallestSnapshot
       \/ IsDeletion(e) /\ \A d \in entries : Key(d) = Key(e) => d > e

Reading ==
  /\ Ordered(version) /\ Ordered(After)
  /\ MemTablesAreNewer
  /\ Complete(mem \cup imm \cup Ents(version)) /\ Complete(mem \cup imm \cup Ents(After))

IInv == Shape /\ (keySplit \/ Reading)

------------------------------------------------------------------------------
(***************************************************************************)
(* Entries and the files that hold them.                                   *)
(***************************************************************************)
\* Entries have keys.
LEMMA KeysAre ==
  ASSUME Types
  PROVE  /\ Len(history) \in Nat
         /\ \A e \in 1..Len(history) : e \in Nat /\ Key(e) \in Keys /\ Key(e) \in Int
                                       /\ IsDeletion(e) \in BOOLEAN
<1>1. history \in Seq([key : Keys, deletion : BOOLEAN]) /\ Keys \subseteq Int
  BY LevelsAssumption DEF Types
<1>2. Len(history) \in Nat  BY <1>1
<1>3. ASSUME NEW e \in 1..Len(history)
      PROVE  e \in Nat /\ Key(e) \in Keys /\ IsDeletion(e) \in BOOLEAN
  <2> DEFINE writes == [key : Keys, deletion : BOOLEAN]
  <2>1. history[e] \in writes
    <3>1. history \in Seq(writes)  BY <1>1
    <3> HIDE DEF writes
    <3> QED  BY <3>1, <1>3
  <2>2. e \in Nat  BY <1>2, <1>3
  <2> QED  BY <2>1, <2>2 DEF Key, IsDeletion
<1> QED  BY <1>1, <1>2, <1>3

\* The last sequence number is how many writes there were.
LEMMA LastSequenceIs ==
  ASSUME Types
  PROVE  LastSequence = Len(history)
<1>1. history \in Seq([key : Keys, deletion : BOOLEAN])  BY DEF Types
<1>2. DOMAIN history = 1..Len(history) /\ Len(history) \in Nat  BY <1>1
<1>3. {0} \cup DOMAIN history = 0..Len(history)  BY <1>2
<1>4. IsFiniteSet(0..Len(history))  BY <1>2, FS_Interval
<1>5. /\ Max(0..Len(history)) \in 0..Len(history)
      /\ \A n \in 0..Len(history) : n <= Max(0..Len(history))
  <2>1. 0..Len(history) \in SUBSET Int /\ 0..Len(history) # {}  BY <1>2
  <2> QED  BY <1>4, <2>1, MinMaxIs
<1>6. LastSequence = Max(0..Len(history))  BY <1>3 DEF LastSequence
<1>7. Len(history) \in 0..Len(history) /\ 0..Len(history) \subseteq Nat  BY <1>2
<1> QED  BY <1>2, <1>5, <1>6, <1>7

\* The order of the entries is total.
LEMMA BeforeIsOrder ==
  ASSUME Types
  PROVE  /\ \A d, e, f \in 1..Len(history) : Before(d, e) /\ Before(e, f) => Before(d, f)
         /\ \A d \in 1..Len(history) : ~ Before(d, d)
         /\ \A d, e \in 1..Len(history) : d = e \/ Before(d, e) \/ Before(e, d)
BY KeysAre DEF Before

\* Where the entries of a file begin and end.
LEMMA EndsAre ==
  ASSUME Types, NEW f, f.entries \subseteq 1..Len(history), f.entries # {}
  PROVE  /\ Smallest(f) \in f.entries
         /\ \A d \in f.entries : d = Smallest(f) \/ Before(Smallest(f), d)
         /\ Largest(f) \in f.entries
         /\ \A d \in f.entries : d = Largest(f) \/ Before(d, Largest(f))
<1> DEFINE S    == f.entries
           up   == {p \in S \X S : Before(p[1], p[2])}
           down == {p \in S \X S : Before(p[2], p[1])}
<1>1. IsFiniteSet(S)
  <2>1. IsFiniteSet(1..Len(history))  BY KeysAre, FS_Interval
  <2> QED  BY <2>1, FS_Subset
<1>2. \A d, e \in S : (<<d, e>> \in up <=> Before(d, e)) /\ (<<d, e>> \in down <=> Before(e, d))
  OBVIOUS
<1>3. TotalOrder(up, S) /\ TotalOrder(down, S)
  <2>1. \A d \in S : d \in 1..Len(history)  OBVIOUS
  <2> HIDE DEF up, down, S
  <2> QED  BY <1>2, <2>1, BeforeIsOrder DEF TotalOrder
<1>4. \E e \in S : \A d \in S : d = e \/ <<e, d>> \in up
  <2> HIDE DEF up
  <2> QED  BY <1>1, <1>3, FirstExists
<1>5. \E e \in S : \A d \in S : d = e \/ <<e, d>> \in down
  <2> HIDE DEF down
  <2> QED  BY <1>1, <1>3, FirstExists
<1>6. \E e \in f.entries : \A d \in f.entries : d = e \/ Before(e, d)
  <2>1. \A d, e \in S : <<d, e>> \in up <=> Before(d, e)  BY <1>2
  <2> HIDE DEF up, down
  <2>2. PICK e \in S : \A d \in S : d = e \/ <<e, d>> \in up  BY <1>4
  <2>3. \A d \in S : d = e \/ Before(e, d)  BY <2>1, <2>2
  <2> QED  BY <2>3
<1>7. \E e \in f.entries : \A d \in f.entries : d = e \/ Before(d, e)
  <2>1. \A d, e \in S : <<e, d>> \in down <=> Before(d, e)  BY <1>2
  <2> HIDE DEF up, down
  <2>2. PICK e \in S : \A d \in S : d = e \/ <<e, d>> \in down  BY <1>5
  <2>3. \A d \in S : d = e \/ Before(d, e)  BY <2>1, <2>2
  <2> QED  BY <2>3
<1> QED  BY <1>6, <1>7 DEF Smallest, Largest

\* The least and the greatest key of a file.
LEMMA KeyRangeIs ==
  ASSUME Types, NEW f, f.entries \subseteq 1..Len(history), f.entries # {}
  PROVE  /\ SmallestKey(f) \in Int /\ LargestKey(f) \in Int
         /\ SmallestKey(f) \in Keys /\ LargestKey(f) \in Keys
         /\ \E d \in f.entries : Key(d) = SmallestKey(f)
         /\ \E d \in f.entries : Key(d) = LargestKey(f)
         /\ \A d \in f.entries : SmallestKey(f) <= Key(d) /\ Key(d) <= LargestKey(f)
<1>1. /\ Smallest(f) \in f.entries /\ Largest(f) \in f.entries
      /\ \A d \in f.entries : d = Smallest(f) \/ Before(Smallest(f), d)
      /\ \A d \in f.entries : d = Largest(f) \/ Before(d, Largest(f))
  BY EndsAre
<1>2. \A d \in f.entries : d \in Nat /\ Key(d) \in Int /\ Key(d) \in Keys  BY KeysAre
<1> QED  BY <1>1, <1>2 DEF SmallestKey, LargestKey, Before

\* The overlapping files are those that reach into the range.
LEMMA OverlappingIs ==
  ASSUME Types, NEW low \in Int, NEW high \in Int, NEW l
  PROVE  Overlapping(l, low, high) = {f \in Level(l) : Reaches(f, low, high)}
<1>1. ASSUME NEW f \in version
      PROVE  (SmallestKey(f) <= high /\ low <= LargestKey(f)) <=> Reaches(f, low, high)
  <2>1. f.entries \subseteq 1..Len(history) /\ f.entries # {}  BY DEF Types, FilesOK
  <2>2. /\ SmallestKey(f) \in Int /\ LargestKey(f) \in Int
        /\ \E d \in f.entries : Key(d) = SmallestKey(f)
        /\ \E d \in f.entries : Key(d) = LargestKey(f)
        /\ \A d \in f.entries : SmallestKey(f) <= Key(d) /\ Key(d) <= LargestKey(f)
    BY <2>1, KeyRangeIs
  <2>3. \A d \in f.entries : Key(d) \in Int  BY <2>1, KeysAre
  <2> QED  BY <2>2, <2>3 DEF Reaches
<1> QED  BY <1>1 DEF Overlapping, Level

------------------------------------------------------------------------------
(***************************************************************************)
(* The files a compaction takes.                                           *)
(***************************************************************************)
Low(files)  == Min(KeysOf(files))
High(files) == Max(KeysOf(files))

\* The least and the greatest key of some files.
LEMMA LowHighAre ==
  ASSUME Types, NEW files \in SUBSET version, files # {}
  PROVE  /\ Low(files) \in Keys /\ High(files) \in Keys
         /\ Low(files) \in Int /\ High(files) \in Int
         /\ Low(files) <= High(files)
         /\ \E d \in Ents(files) : Key(d) = Low(files)
         /\ \E d \in Ents(files) : Key(d) = High(files)
         /\ \A d \in Ents(files) : Low(files) <= Key(d) /\ Key(d) <= High(files)
<1> DEFINE K == KeysOf(files)
<1>1. \A d \in Ents(files) : d \in 1..Len(history)  BY DEF Types, FilesOK, Ents
<1>2. K = {Key(d) : d \in Ents(files)}  BY DEF KeysOf, Ents
<1>3. K \subseteq Keys /\ K \in SUBSET Int  BY <1>1, <1>2, KeysAre
<1>4. K # {}  BY <1>2 DEF Types, FilesOK, Ents
<1>5. IsFiniteSet(K)  BY <1>3, LevelsAssumption, FS_Subset
<1>6. /\ Min(K) \in K /\ \A n \in K : Min(K) <= n
      /\ Max(K) \in K /\ \A n \in K : n <= Max(K)
  <2> HIDE DEF K
  <2> QED  BY <1>3, <1>4, <1>5, MinMaxIs
<1>7. Low(files) = Min(K) /\ High(files) = Max(K)  BY DEF Low, High
<1> HIDE DEF K
<1> QED  BY <1>2, <1>3, <1>6, <1>7

\* The ranges of keys around low and high that no file of level 0 crosses.
ClosedRanges(low, high) ==
  {r \in Keys \X Keys :
     /\ r[1] <= low /\ high <= r[2]
     /\ \A f \in Overlapping(0, r[1], r[2]) : r[1] <= SmallestKey(f) /\ LargestKey(f) <= r[2]}

\* The smallest of them.
Closure(low, high) ==
  CHOOSE r \in ClosedRanges(low, high) \cup {<<Min(Keys), Max(Keys)>>} :
    \A s \in ClosedRanges(low, high) : s[1] <= r[1] /\ r[2] <= s[2]

\* There is a smallest one.
LEMMA ClosureIs ==
  ASSUME Types, NEW low \in Keys, NEW high \in Keys, low <= high
  PROVE  /\ Closure(low, high) \in ClosedRanges(low, high)
         /\ \A s \in ClosedRanges(low, high) :
              s[1] <= Closure(low, high)[1] /\ Closure(low, high)[2] <= s[2]
<1> DEFINE C == ClosedRanges(low, high)
           whole == <<Min(Keys), Max(Keys)>>
<1>1. Keys \in SUBSET Int /\ IsFiniteSet(Keys) /\ Keys # {}  BY LevelsAssumption
<1>2. /\ Min(Keys) \in Keys /\ \A n \in Keys : Min(Keys) <= n
      /\ Max(Keys) \in Keys /\ \A n \in Keys : n <= Max(Keys)
  BY <1>1, MinMaxIs
<1>3. \A f \in version : SmallestKey(f) \in Keys /\ LargestKey(f) \in Keys
  <2> SUFFICES ASSUME NEW f \in version
               PROVE  SmallestKey(f) \in Keys /\ LargestKey(f) \in Keys
    OBVIOUS
  <2>1. f.entries \subseteq 1..Len(history) /\ f.entries # {}  BY DEF Types, FilesOK
  <2> QED  BY <2>1, KeyRangeIs
<1>4. \A r \in C : /\ r \in Keys \X Keys /\ r[1] <= low /\ high <= r[2]
                   /\ \A f \in Overlapping(0, r[1], r[2]) :
                        r[1] <= SmallestKey(f) /\ LargestKey(f) <= r[2]
  BY DEF ClosedRanges
<1>5. whole \in C
  BY <1>2, <1>3 DEF ClosedRanges, Overlapping, Level
<1>6. \E r \in C : \A s \in C : s[1] <= r[1] /\ r[2] <= s[2]
  <2> DEFINE firsts == {r[1] : r \in C}
             lasts  == {r[2] : r \in C}
  <2>1. firsts \in SUBSET Keys /\ lasts \in SUBSET Keys /\ firsts # {} /\ lasts # {}
    BY <1>4, <1>5
  <2>2. firsts \in SUBSET Int /\ lasts \in SUBSET Int  BY <1>1, <2>1
  <2>3. IsFiniteSet(firsts) /\ IsFiniteSet(lasts)  BY <1>1, <2>1, FS_Subset
  <2>4. Max(firsts) \in firsts /\ \A n \in firsts : n <= Max(firsts)
    <3> HIDE DEF firsts
    <3> QED  BY <2>1, <2>2, <2>3, MinMaxIs
  <2>5. Min(lasts) \in lasts /\ \A n \in lasts : Min(lasts) <= n
    <3> HIDE DEF lasts
    <3> QED  BY <2>1, <2>2, <2>3, MinMaxIs
  <2>6. PICK p \in C : p[1] = Max(firsts)  BY <2>4
  <2>7. PICK q \in C : q[2] = Min(lasts)  BY <2>5
  <2>8. \A s \in C : s[1] <= p[1] /\ q[2] <= s[2]
    <3> SUFFICES ASSUME NEW s \in C PROVE s[1] <= p[1] /\ q[2] <= s[2]  OBVIOUS
    <3>1. s[1] \in firsts /\ s[2] \in lasts  OBVIOUS
    <3> HIDE DEF firsts, lasts
    <3> QED  BY <3>1, <2>4, <2>5, <2>6, <2>7
  <2> HIDE DEF C, firsts, lasts
  <2> DEFINE r == <<p[1], q[2]>>
  <2>9. r \in Keys \X Keys /\ r[1] = p[1] /\ r[2] = q[2]  BY <1>4, <2>6, <2>7
  <2>10. ASSUME NEW f \in Overlapping(0, r[1], r[2])
         PROVE  r[1] <= SmallestKey(f) /\ LargestKey(f) <= r[2]
    <3>1. /\ f \in Level(0) /\ SmallestKey(f) <= q[2] /\ p[1] <= LargestKey(f)
          /\ SmallestKey(f) \in Int /\ LargestKey(f) \in Int
      BY <1>1, <1>3, <2>9, <2>10 DEF Overlapping, Level
    <3>2. p[1] \in Int /\ p[2] \in Int /\ q[1] \in Int /\ q[2] \in Int  BY <1>1, <1>4, <2>6, <2>7
    <3>3. q[2] <= p[2] /\ q[1] <= p[1]  BY <2>8, <2>6, <2>7
    <3>4. f \in Overlapping(0, p[1], p[2])  BY <3>1, <3>2, <3>3 DEF Overlapping
    <3>5. f \in Overlapping(0, q[1], q[2])  BY <3>1, <3>2, <3>3 DEF Overlapping
    <3> QED  BY <1>4, <2>9, <2>6, <2>7, <3>4, <3>5
  <2>11. r \in C
    <3>1. r[1] <= low /\ high <= r[2]  BY <1>4, <2>6, <2>7, <2>9
    <3> HIDE DEF r
    <3> QED  BY <2>9, <2>10, <3>1 DEF C, ClosedRanges
  <2> HIDE DEF r
  <2> QED  BY <2>8, <2>9, <2>11
<1>7. C \cup {whole} = C  BY <1>5
<1>8. Closure(low, high) = CHOOSE r \in C : \A s \in C : s[1] <= r[1] /\ r[2] <= s[2]
  BY <1>7 DEF Closure
<1> HIDE DEF C
<1>9. /\ Closure(low, high) \in C
      /\ \A s \in C : s[1] <= Closure(low, high)[1] /\ Closure(low, high)[2] <= s[2]
  BY <1>6, <1>8
<1> QED  BY <1>9 DEF C

\* What is taken of level 0, and of another level.
LEMMA GetOverlappingInputsIs ==
  ASSUME NEW low, NEW high, NEW l
  PROVE  GetOverlappingInputs(l, low, high) =
           IF l = 0 THEN Overlapping(0, Closure(low, high)[1], Closure(low, high)[2])
           ELSE Overlapping(l, low, high)
BY DEF GetOverlappingInputs, Closure, ClosedRanges

\* Every key from low to high is in the range of one of the files.
Covered(files, low, high) == \A k \in Int : low <= k /\ k <= high => \E f \in files : Reaches(f, k, k)

\* No file of level 0 that is left has a key within the range of the others.
Closed(files) ==
  \A f \in Level(0) \ files, g \in files :
    g.level = 0 => ~ Reaches(f, SmallestKey(g), LargestKey(g))

\* What GetOverlappingInputs returns: every file that reaches into the range, and at
\* level 0 what those reach into, and so on, without a gap.
Overlaps(files, l, low, high) ==
  /\ files \subseteq Level(l)
  /\ \A f \in Level(l) : Reaches(f, low, high) => f \in files
  /\ l # 0 => \A f \in files : Reaches(f, low, high)
  /\ l = 0 => Closed(files)
  /\ \A d \in Ents(files), k \in Int :
       (Key(d) <= k /\ k < low) \/ (high < k /\ k <= Key(d)) => \E f \in files : Reaches(f, k, k)

\* A file above level 0 that reaches into the range leaves no gap to it.
LEMMA LevelOverlaps ==
  ASSUME Types, NEW low \in Keys, NEW high \in Keys, low <= high, NEW l, l # 0
  PROVE  Overlaps(GetOverlappingInputs(l, low, high), l, low, high)
<1> DEFINE X == {f \in Level(l) : Reaches(f, low, high)}
<1>1. GetOverlappingInputs(l, low, high) = X
  BY OverlappingIs, GetOverlappingInputsIs, LevelsAssumption
<1>2. ASSUME NEW d \in Ents(X), NEW k \in Int,
             (Key(d) <= k /\ k < low) \/ (high < k /\ k <= Key(d))
      PROVE  \E f \in X : Reaches(f, k, k)
  <2>1. PICK f \in X : d \in f.entries  BY DEF Ents
  <2>2. \A e \in f.entries : Key(e) \in Int  BY KeysAre DEF Types, FilesOK, Level
  <2>3. low \in Int /\ high \in Int  BY LevelsAssumption
  <2>4. Reaches(f, k, k)  BY <1>2, <2>1, <2>2, <2>3 DEF Reaches
  <2> QED  BY <2>4
<1> QED  BY <1>1, <1>2 DEF Overlaps

\* The keys of a file of level 0, and whether it overlaps a range.
LEMMA ZeroFileIs ==
  ASSUME Types, NEW f \in version
  PROVE  /\ SmallestKey(f) \in Int /\ LargestKey(f) \in Int
         /\ SmallestKey(f) \in Keys /\ LargestKey(f) \in Keys
         /\ SmallestKey(f) <= LargestKey(f)
         /\ \A low, high \in Int :
              Reaches(f, low, high) <=> SmallestKey(f) <= high /\ low <= LargestKey(f)
         /\ \A d \in f.entries : Key(d) \in Int /\ SmallestKey(f) <= Key(d) /\ Key(d) <= LargestKey(f)
<1>1. f.entries \subseteq 1..Len(history) /\ f.entries # {}  BY DEF Types, FilesOK
<1>2. /\ SmallestKey(f) \in Int /\ LargestKey(f) \in Int
      /\ SmallestKey(f) \in Keys /\ LargestKey(f) \in Keys
      /\ \E d \in f.entries : Key(d) = SmallestKey(f)
      /\ \E d \in f.entries : Key(d) = LargestKey(f)
      /\ \A d \in f.entries : SmallestKey(f) <= Key(d) /\ Key(d) <= LargestKey(f)
  BY <1>1, KeyRangeIs
<1>3. \A d \in f.entries : Key(d) \in Int  BY <1>1, KeysAre
<1> QED  BY <1>2, <1>3 DEF Reaches

\* The files of a range that none crosses leave no gap to the keys it was grown from.
LEMMA ZeroOverlaps ==
  ASSUME Types, NEW low \in Keys, NEW high \in Keys, low <= high
  PROVE  Overlaps(GetOverlappingInputs(0, low, high), 0, low, high)
<1> DEFINE r == Closure(low, high)
           X == Overlapping(0, r[1], r[2])
<1>1. /\ r \in ClosedRanges(low, high)
      /\ \A s \in ClosedRanges(low, high) : s[1] <= r[1] /\ r[2] <= s[2]
  BY ClosureIs
<1>2. /\ r[1] \in Keys /\ r[2] \in Keys /\ r[1] \in Int /\ r[2] \in Int
      /\ low \in Int /\ high \in Int /\ r[1] <= low /\ high <= r[2]
      /\ \A f \in X : r[1] <= SmallestKey(f) /\ LargestKey(f) <= r[2]
  BY <1>1, LevelsAssumption DEF ClosedRanges
<1>3. \A f \in version : /\ SmallestKey(f) \in Int /\ LargestKey(f) \in Int
                         /\ SmallestKey(f) \in Keys /\ LargestKey(f) \in Keys
                         /\ SmallestKey(f) <= LargestKey(f)
                         /\ \A n, m \in Int :
                              Reaches(f, n, m) <=> SmallestKey(f) <= m /\ n <= LargestKey(f)
                         /\ \A d \in f.entries : /\ Key(d) \in Int
                                                 /\ SmallestKey(f) <= Key(d)
                                                 /\ Key(d) <= LargestKey(f)
  BY ZeroFileIs
<1>4. GetOverlappingInputs(0, low, high) = X  BY GetOverlappingInputsIs
<1> HIDE DEF r
<1>5. X \subseteq Level(0) /\ \A f \in X : f \in version  BY DEF Overlapping, Level
<1>6. \A f \in Level(0) : Reaches(f, low, high) => f \in X
  BY <1>2, <1>3 DEF Overlapping, Level
<1>7. Closed(X)
  <2> SUFFICES ASSUME NEW f \in Level(0) \ X, NEW g \in X
               PROVE  ~ Reaches(f, SmallestKey(g), LargestKey(g))
    BY DEF Closed
  <2>1. f \in version /\ g \in version  BY <1>5 DEF Level
  <2>2. ~ (SmallestKey(f) <= r[2] /\ r[1] <= LargestKey(f))  BY DEF Overlapping
  <2> HIDE DEF X
  <2> QED  BY <1>2, <1>3, <2>1, <2>2
<1>8. ASSUME NEW k \in Int, NEW e \in X, high < k, k <= LargestKey(e)
      PROVE  \E f \in X : Reaches(f, k, k)
  <2> SUFFICES ASSUME \A f \in X : ~ Reaches(f, k, k) PROVE FALSE  OBVIOUS
  <2> DEFINE ends == {LargestKey(f) : f \in {g \in X : LargestKey(g) < k}} \cup {high}
             s    == <<r[1], Max(ends)>>
  <2>1. ends \in SUBSET Keys /\ ends # {} /\ ends \in SUBSET Int
    BY <1>3, <1>5, LevelsAssumption
  <2>2. IsFiniteSet(ends)  BY <2>1, LevelsAssumption, FS_Subset
  <2>3. Max(ends) \in ends /\ \A n \in ends : n <= Max(ends)
    <3> HIDE DEF ends
    <3> QED  BY <2>1, <2>2, MinMaxIs
  <2>4. /\ Max(ends) < k /\ high <= Max(ends) /\ Max(ends) \in Keys /\ Max(ends) \in Int
        /\ \A g \in X : LargestKey(g) < k => LargestKey(g) <= Max(ends)
    <3>1. \A n \in ends : n < k  BY <1>8
    <3>2. high \in ends /\ \A g \in X : LargestKey(g) < k => LargestKey(g) \in ends  OBVIOUS
    <3> HIDE DEF ends
    <3> QED  BY <2>1, <2>3, <3>1, <3>2
  <2> HIDE DEF ends
  <2>5. k <= r[2]  BY <1>2, <1>3, <1>5, <1>8
  <2>6. ASSUME NEW g \in Overlapping(0, r[1], Max(ends))
        PROVE  r[1] <= SmallestKey(g) /\ LargestKey(g) <= Max(ends)
    <3>1. g \in version /\ SmallestKey(g) <= Max(ends)  BY DEF Overlapping, Level
    <3>2. g \in X  BY <1>2, <1>3, <2>4, <2>5, <3>1 DEF Overlapping
    <3>3. ~ Reaches(g, k, k)  BY <3>2
    <3>4. LargestKey(g) < k  BY <1>3, <2>4, <3>1, <3>3
    <3> QED  BY <1>2, <2>4, <3>2, <3>4
  <2>7. s \in ClosedRanges(low, high)
    <3>1. s \in Keys \X Keys /\ s[1] = r[1] /\ s[2] = Max(ends)  BY <1>2, <2>4
    <3> HIDE DEF s
    <3> QED  BY <1>2, <2>4, <2>6, <3>1 DEF ClosedRanges
  <2>8. r[2] <= Max(ends)  BY <1>1, <2>7
  <2> QED  BY <1>2, <2>4, <2>5, <2>8
<1>9. ASSUME NEW k \in Int, NEW e \in X, SmallestKey(e) <= k, k < low
      PROVE  \E f \in X : Reaches(f, k, k)
  <2> SUFFICES ASSUME \A f \in X : ~ Reaches(f, k, k) PROVE FALSE  OBVIOUS
  <2> DEFINE ends == {SmallestKey(f) : f \in {g \in X : k < SmallestKey(g)}} \cup {low}
             s    == <<Min(ends), r[2]>>
  <2>1. ends \in SUBSET Keys /\ ends # {} /\ ends \in SUBSET Int
    BY <1>3, <1>5, LevelsAssumption
  <2>2. IsFiniteSet(ends)  BY <2>1, LevelsAssumption, FS_Subset
  <2>3. Min(ends) \in ends /\ \A n \in ends : Min(ends) <= n
    <3> HIDE DEF ends
    <3> QED  BY <2>1, <2>2, MinMaxIs
  <2>4. /\ k < Min(ends) /\ Min(ends) <= low /\ Min(ends) \in Keys /\ Min(ends) \in Int
        /\ \A g \in X : k < SmallestKey(g) => Min(ends) <= SmallestKey(g)
    <3>1. \A n \in ends : k < n  BY <1>9
    <3>2. low \in ends /\ \A g \in X : k < SmallestKey(g) => SmallestKey(g) \in ends  OBVIOUS
    <3> HIDE DEF ends
    <3> QED  BY <2>1, <2>3, <3>1, <3>2
  <2> HIDE DEF ends
  <2>5. r[1] <= k  BY <1>2, <1>3, <1>5, <1>9
  <2>6. ASSUME NEW g \in Overlapping(0, Min(ends), r[2])
        PROVE  Min(ends) <= SmallestKey(g) /\ LargestKey(g) <= r[2]
    <3>1. g \in version /\ Min(ends) <= LargestKey(g)  BY DEF Overlapping, Level
    <3>2. g \in X  BY <1>2, <1>3, <2>4, <2>5, <3>1 DEF Overlapping
    <3>3. ~ Reaches(g, k, k)  BY <3>2
    <3>4. k < SmallestKey(g)  BY <1>3, <2>4, <3>1, <3>3
    <3> QED  BY <1>2, <2>4, <3>2, <3>4
  <2>7. s \in ClosedRanges(low, high)
    <3>1. s \in Keys \X Keys /\ s[1] = Min(ends) /\ s[2] = r[2]  BY <1>2, <2>4
    <3> HIDE DEF s
    <3> QED  BY <1>2, <2>4, <2>6, <3>1 DEF ClosedRanges
  <2>8. Min(ends) <= r[1]  BY <1>1, <2>7
  <2> QED  BY <1>2, <2>4, <2>5, <2>8
<1> HIDE DEF X
<1>10. ASSUME NEW d \in Ents(X), NEW k \in Int,
              (Key(d) <= k /\ k < low) \/ (high < k /\ k <= Key(d))
       PROVE  \E f \in X : Reaches(f, k, k)
  <2>1. PICK e \in X : d \in e.entries  BY DEF Ents
  <2>2. /\ SmallestKey(e) \in Int /\ LargestKey(e) \in Int /\ Key(d) \in Int
        /\ SmallestKey(e) <= Key(d) /\ Key(d) <= LargestKey(e)
    BY <1>3, <1>5, <2>1
  <2>3. CASE Key(d) <= k /\ k < low
    <3>1. SmallestKey(e) <= k  BY <2>2, <2>3
    <3> QED  BY <1>9, <2>3, <3>1
  <2>4. CASE high < k /\ k <= Key(d)
    <3>1. k <= LargestKey(e)  BY <2>2, <2>4
    <3> QED  BY <1>8, <2>4, <3>1
  <2> QED  BY <1>10, <2>3, <2>4
<1> QED  BY <1>4, <1>5, <1>6, <1>7, <1>10 DEF Overlaps

\* GetOverlappingInputs takes all that overlaps, at level 0 too.
LEMMA OverlapsAre ==
  ASSUME Types, NEW low \in Keys, NEW high \in Keys, low <= high, NEW l
  PROVE  Overlaps(GetOverlappingInputs(l, low, high), l, low, high)
BY LevelOverlaps, ZeroOverlaps

\* Files without a gap are without a gap when those that overlap them are added.
LEMMA Grows ==
  ASSUME Types, NEW C \in SUBSET version, C # {}, Covered(C, Low(C), High(C)), NEW l,
         NEW X \in SUBSET version, Overlaps(X, l, Low(C), High(C))
  PROVE  Covered(C \cup X, Low(C \cup X), High(C \cup X))
<1> DEFINE D == C \cup X
<1>1. D \in SUBSET version /\ D # {} /\ Ents(D) = Ents(C) \cup Ents(X)  BY DEF Ents
<1>2. /\ Low(C) \in Int /\ High(C) \in Int
      /\ \A d \in Ents(C) : Low(C) <= Key(d) /\ Key(d) <= High(C)
  BY LowHighAre
<1>3. /\ Low(D) \in Int /\ High(D) \in Int
      /\ \E d \in Ents(D) : Key(d) = Low(D)
      /\ \E d \in Ents(D) : Key(d) = High(D)
  <2> HIDE DEF D
  <2> QED  BY <1>1, LowHighAre
<1> HIDE DEF D
<1>4. SUFFICES ASSUME NEW k \in Int, Low(D) <= k, k <= High(D)
               PROVE  \E f \in D : Reaches(f, k, k)
  BY DEF Covered, D
<1>5. C \subseteq D /\ X \subseteq D  BY DEF D
<1>6. CASE Low(C) <= k /\ k <= High(C)  BY <1>5, <1>6 DEF Covered
<1>7. CASE k < Low(C)
  <2>1. PICK d \in Ents(D) : Key(d) = Low(D)  BY <1>3
  <2>2. d \in Ents(X)  BY <1>1, <1>2, <1>3, <1>4, <1>7, <2>1
  <2>3. Key(d) <= k  BY <1>4, <2>1
  <2>4. \E f \in X : Reaches(f, k, k)  BY <1>7, <2>2, <2>3 DEF Overlaps
  <2> QED  BY <1>5, <2>4
<1>8. CASE High(C) < k
  <2>1. PICK d \in Ents(D) : Key(d) = High(D)  BY <1>3
  <2>2. d \in Ents(X)  BY <1>1, <1>2, <1>3, <1>4, <1>8, <2>1
  <2>3. k <= Key(d)  BY <1>4, <2>1
  <2>4. \E f \in X : Reaches(f, k, k)  BY <1>8, <2>2, <2>3 DEF Overlaps
  <2> QED  BY <1>5, <2>4
<1> QED  BY <1>2, <1>6, <1>7, <1>8

\* What OverlappingInputs returns.
LEMMA OverlappingInputsAre ==
  ASSUME Types, NEW C \in SUBSET version, C # {}, NEW l
  PROVE  /\ Overlaps(OverlappingInputs(l, C), l, Low(C), High(C))
         /\ OverlappingInputs(l, C) \in SUBSET version
<1>1. OverlappingInputs(l, C) = GetOverlappingInputs(l, Low(C), High(C))
  BY DEF OverlappingInputs, Low, High
<1>2. Overlaps(OverlappingInputs(l, C), l, Low(C), High(C))  BY <1>1, LowHighAre, OverlapsAre
<1> QED  BY <1>2 DEF Overlaps, Level

\* A file that some of the files hold or whose keys they share reaches into their range.
LEMMA OwnReaches ==
  ASSUME Types, NEW C \in SUBSET version, NEW f \in C
  PROVE  Reaches(f, Low(C), High(C))
<1>1. \A d \in f.entries : d \in Ents(C)  BY DEF Ents
<1>2. f.entries # {}  BY DEF Types, FilesOK
<1>3. \A d \in Ents(C) : Low(C) <= Key(d) /\ Key(d) <= High(C)  BY LowHighAre
<1> QED  BY <1>1, <1>2, <1>3 DEF Reaches

\* What more files reach into is at least as much.
LEMMA RangeGrows ==
  ASSUME Types, NEW C \in SUBSET version, C # {}, NEW D \in SUBSET version, C \subseteq D,
         NEW f \in version, Reaches(f, Low(C), High(C))
  PROVE  Reaches(f, Low(D), High(D))
<1>1. /\ Low(C) \in Int /\ High(C) \in Int
      /\ \E d \in Ents(C) : Key(d) = Low(C)
      /\ \E d \in Ents(C) : Key(d) = High(C)
  BY LowHighAre
<1>2. /\ Low(D) \in Int /\ High(D) \in Int
      /\ \A d \in Ents(D) : Low(D) <= Key(d) /\ Key(d) <= High(D)
  <2>1. D # {}  OBVIOUS
  <2> QED  BY <2>1, LowHighAre
<1>3. Ents(C) \subseteq Ents(D)  BY DEF Ents
<1>4. Low(D) <= Low(C) /\ High(C) <= High(D)  BY <1>1, <1>2, <1>3
<1>5. \A d \in f.entries : Key(d) \in Int  BY KeysAre DEF Types, FilesOK
<1> QED  BY <1>1, <1>2, <1>4, <1>5 DEF Reaches

\* The files of two levels that a compaction takes: A of level l, and every file of the
\* next level that reaches into their range.
TwoLevels(A, B, l) ==
  /\ A \subseteq Level(l) /\ A # {}
  /\ B = {g \in Level(l + 1) : Reaches(g, Low(A), High(A))}
  /\ l = 0 => Closed(A)
  /\ NoGap(A \cup B)

\* A compaction takes such files, the one it started from among them.
LEMMA InputsAre ==
  ASSUME Types, NEW f \in version, NEW inputs \in Inputs(f)
  PROVE  \E A, B \in SUBSET version :
           inputs = A \cup B /\ f \in A /\ TwoLevels(A, B, f.level)
<1> DEFINE l  == f.level
           A0 == Picked(f)
           B0 == OverlappingInputs(l + 1, A0)
           A1 == OverlappingInputs(l, A0 \cup B0)
           B1 == OverlappingInputs(l + 1, A1)
<1>1. l \in Nat /\ f.entries # {}  BY DEF Types, FilesOK, File
<1>2. A0 \in SUBSET version /\ A0 \subseteq Level(l) /\ f \in A0 /\ (l = 0 => Closed(A0))
      /\ Covered(A0, Low(A0), High(A0))
  <2> DEFINE one == {f}
  <2>1. one \in SUBSET version /\ one # {} /\ f \in one  OBVIOUS
  <2>2. Reaches(f, Low(one), High(one))  BY <2>1, OwnReaches
  <2>3. Covered(one, Low(one), High(one))
    <3>1. Ents(one) = f.entries  BY DEF Ents
    <3>2. /\ Low(one) \in Int /\ High(one) \in Int
          /\ \E d \in Ents(one) : Key(d) = Low(one)
          /\ \E d \in Ents(one) : Key(d) = High(one)
      <4> HIDE DEF one
      <4> QED  BY <2>1, LowHighAre
    <3> HIDE DEF one
    <3>3. ASSUME NEW k \in Int, Low(one) <= k, k <= High(one) PROVE Reaches(f, k, k)
      BY <3>1, <3>2, <3>3 DEF Reaches
    <3> QED  BY <2>1, <3>3 DEF Covered
  <2>4. CASE l = 0
    <3> DEFINE X == OverlappingInputs(0, one)
    <3>1. A0 = X  BY <2>4 DEF Picked
    <3> HIDE DEF one
    <3>2. Overlaps(X, 0, Low(one), High(one)) /\ X \in SUBSET version
      BY <2>1, OverlappingInputsAre
    <3> HIDE DEF X
    <3>3. f \in X /\ X \subseteq Level(0) /\ Closed(X)
      BY <2>2, <2>4, <3>2 DEF Overlaps, Level
    <3>4. Covered(one \cup X, Low(one \cup X), High(one \cup X))
      BY <2>1, <2>3, <3>2, Grows
    <3>5. one \cup X = X  BY <3>3 DEF one
    <3> QED  BY <2>4, <3>1, <3>2, <3>3, <3>4, <3>5
  <2>5. CASE l # 0
    <3>1. A0 = one  BY <2>5 DEF Picked
    <3> HIDE DEF one, A0
    <3> QED  BY <2>1, <2>3, <2>5, <3>1 DEF Level, one
  <2> QED  BY <2>4, <2>5
<1>3. A0 # {}  BY <1>2
<1> HIDE DEF A0
<1>4. Overlaps(B0, l + 1, Low(A0), High(A0)) /\ B0 \in SUBSET version
  BY <1>2, <1>3, OverlappingInputsAre
<1> HIDE DEF B0
<1>5. B0 = {g \in Level(l + 1) : Reaches(g, Low(A0), High(A0))}
  <2>1. l + 1 # 0  BY <1>1
  <2> QED  BY <1>4, <2>1 DEF Overlaps
<1>6. Covered(A0 \cup B0, Low(A0 \cup B0), High(A0 \cup B0))
  BY <1>2, <1>3, <1>4, Grows
<1>7. ASSUME NEW D \in SUBSET version, D # {}, Covered(D, Low(D), High(D))
      PROVE  NoGap(D)
  <2>1. /\ Low(D) \in Int /\ High(D) \in Int
        /\ \A d \in Ents(D) : Low(D) <= Key(d) /\ Key(d) <= High(D)
    BY <1>7, LowHighAre
  <2>2. \A d \in Ents(D) : Key(d) \in Int  BY KeysAre DEF Types, FilesOK, Ents
  <2> QED  BY <1>7, <2>1, <2>2 DEF NoGap, Covered
<1>8. CASE inputs = A0 \cup B0
  <2>1. NoGap(A0 \cup B0)  BY <1>2, <1>3, <1>4, <1>6, <1>7
  <2>2. TwoLevels(A0, B0, l)  BY <1>2, <1>3, <1>5, <2>1 DEF TwoLevels
  <2> QED  BY <1>2, <1>4, <1>8, <2>2
<1>9. CASE inputs = A1 \cup B1 /\ Cardinality(B1) = Cardinality(B0)
  <2> DEFINE C == A0 \cup B0
  <2>1. C \in SUBSET version /\ C # {}  BY <1>2, <1>3, <1>4
  <2>2. Overlaps(A1, l, Low(C), High(C)) /\ A1 \in SUBSET version
    BY <2>1, OverlappingInputsAre
  <2> HIDE DEF A1
  <2>3. A0 \subseteq A1
    <3> SUFFICES ASSUME NEW g \in A0 PROVE g \in A1  OBVIOUS
    <3>1. Reaches(g, Low(C), High(C))  BY <2>1, OwnReaches
    <3> QED  BY <1>2, <2>2, <3>1 DEF Overlaps
  <2>4. A1 # {} /\ f \in A1 /\ A1 \subseteq Level(l) /\ (l = 0 => Closed(A1))
    BY <1>2, <2>2, <2>3 DEF Overlaps
  <2>5. Overlaps(B1, l + 1, Low(A1), High(A1)) /\ B1 \in SUBSET version
    BY <2>2, <2>4, OverlappingInputsAre
  <2> HIDE DEF B1
  <2>6. B1 = {g \in Level(l + 1) : Reaches(g, Low(A1), High(A1))}
    <3>1. l + 1 # 0  BY <1>1
    <3> QED  BY <2>5, <3>1 DEF Overlaps
  <2>7. B0 \subseteq B1
    <3> SUFFICES ASSUME NEW g \in B0 PROVE g \in B1  OBVIOUS
    <3>1. g \in Level(l + 1) /\ g \in version /\ Reaches(g, Low(A0), High(A0))
      BY <1>5 DEF Level
    <3>2. Reaches(g, Low(A1), High(A1))  BY <1>2, <1>3, <2>2, <2>3, <3>1, RangeGrows
    <3> QED  BY <2>6, <3>1, <3>2
  <2>8. B1 = B0
    <3>1. IsFiniteSet(B1)  BY <2>5, FS_Subset DEF Types, FilesOK
    <3> QED  BY <1>9, <2>7, <3>1, FS_Subset
  <2>9. C \cup A1 = A1 \cup B0  BY <2>3
  <2>10. Covered(C \cup A1, Low(C \cup A1), High(C \cup A1))
    <3>1. Covered(C, Low(C), High(C))  BY <1>6
    <3> HIDE DEF C
    <3> QED  BY <2>1, <2>2, <3>1, Grows
  <2>11. NoGap(A1 \cup B1)
    <3>1. A1 \cup B1 \in SUBSET version /\ A1 \cup B1 # {}  BY <2>2, <2>4, <2>5
    <3> HIDE DEF C
    <3> QED  BY <2>8, <2>9, <2>10, <3>1, <1>7
  <2>12. TwoLevels(A1, B1, l)  BY <2>4, <2>6, <2>11 DEF TwoLevels
  <2> QED  BY <1>9, <2>2, <2>4, <2>5, <2>12
<1> HIDE DEF A1, B1
<1>10. inputs = A0 \cup B0 \/ (inputs = A1 \cup B1 /\ Cardinality(B1) = Cardinality(B0))
  BY DEF Inputs, A0, B0, A1, B1
<1> QED  BY <1>8, <1>9, <1>10

------------------------------------------------------------------------------
(***************************************************************************)
(* What a step leaves as it is.                                            *)
(***************************************************************************)
\* What was written stays.
KeysStay ==
  /\ Len(history) <= Len(history') /\ Len(history') \in Nat
  /\ \A e \in 1..Len(history) : Key(e)' = Key(e) /\ IsDeletion(e)' = IsDeletion(e)

\* No step rewrites it.
LEMMA StepKeysStay ==
  ASSUME Types, [Next]_vars
  PROVE  KeysStay
<1>1. Len(history) \in Nat  BY KeysAre
<1>2. CASE history' = history  BY <1>1, <1>2 DEF KeysStay, Key, IsDeletion
<1>3. ASSUME NEW k \in Keys, NEW deletion \in BOOLEAN, Write(k, deletion)
      PROVE  KeysStay
  <2> DEFINE write == [key |-> k, deletion |-> deletion]
             writes == [key : Keys, deletion : BOOLEAN]
  <2>1. write \in writes /\ history \in Seq(writes) /\ history' = Append(history, write)
    BY <1>3 DEF Write, Types
  <2> HIDE DEF write, writes
  <2>2. /\ Len(history') = Len(history) + 1
        /\ \A e \in 1..Len(history) : history'[e] = history[e]
    BY <2>1
  <2> QED  BY <1>1, <2>2 DEF KeysStay, Key, IsDeletion
<1>4. history' = history \/ \E k \in Keys, deletion \in BOOLEAN : Write(k, deletion)
  BY DEF Next, vars, GetSnapshot, ReleaseSnapshot, SwitchMemTable, CompactMemTable, MoveFile,
         DoCompactionWork, InstallCompactionResults, Recover
<1> QED  BY <1>2, <1>3, <1>4

\* Files stay what they are.
LEMMA FilesStay ==
  ASSUME Types, KeysStay, NEW files, FilesOK(files)
  PROVE  FilesOK(files)'
<1>1. IsFiniteSet(files) /\ Len(history) \in Nat  BY KeysAre DEF FilesOK
<1> QED  BY <1>1 DEF FilesOK, KeysStay

\* Files that are apart stay so.
LEMMA ApartStays ==
  ASSUME Types, KeysStay, NEW files, FilesOK(files), LevelsApart(files)
  PROVE  LevelsApart(files)'
<1>1. \A f \in files : f.entries \subseteq 1..Len(history)  BY DEF FilesOK
<1>2. ASSUME NEW f \in files, NEW g \in files, Apart(f, g) PROVE Apart(f, g)'
  <2>1. \A d \in f.entries : d \in 1..Len(history) /\ Key(d)' = Key(d)  BY <1>1 DEF KeysStay
  <2>2. \A d \in g.entries : d \in 1..Len(history) /\ Key(d)' = Key(d)  BY <1>1 DEF KeysStay
  <2>3. \A d \in f.entries, e \in g.entries : Before(d, e)' <=> Before(d, e)
    BY <2>1, <2>2 DEF Before
  <2>4. \A d \in g.entries, e \in f.entries : Before(d, e)' <=> Before(d, e)
    BY <2>1, <2>2 DEF Before
  <2> QED  BY <1>2, <2>3, <2>4 DEF Apart, AllBefore
<1> QED  BY <1>2 DEF LevelsApart

\* Files without a gap stay so.
LEMMA NoGapStays ==
  ASSUME Types, KeysStay, NEW files, FilesOK(files), NoGap(files)
  PROVE  NoGap(files)'
<1>1. \A f \in files : \A d \in f.entries : d \in 1..Len(history) /\ Key(d)' = Key(d)
  BY DEF FilesOK, KeysStay
<1>2. \A d \in Ents(files) : Key(d)' = Key(d)  BY <1>1 DEF Ents
<1>3. \A f \in files, k \in Int : Reaches(f, k, k)' <=> Reaches(f, k, k)
  BY <1>1 DEF Reaches
<1> SUFFICES ASSUME NEW d \in Ents(files), NEW e \in Ents(files), NEW k \in Int,
                    Key(d)' <= k, k <= Key(e)'
             PROVE  \E f \in files : Reaches(f, k, k)'
  BY DEF NoGap, Ents
<1>4. Key(d) <= k /\ k <= Key(e)  BY <1>2
<1>5. \E f \in files : Reaches(f, k, k)  BY <1>4 DEF NoGap
<1> QED  BY <1>3, <1>5

\* Files of which some are left out are apart too.
LEMMA FewerApart ==
  ASSUME NEW files, NEW fewer \in SUBSET files, LevelsApart(files)
  PROVE  LevelsApart(fewer)
BY DEF LevelsApart

\* The compaction under way is what it was while its inputs are in the version.
LEMMA CompactionStays ==
  ASSUME Types, CompactionOK, KeysStay, version \subseteq version', compaction' = compaction
  PROVE  CompactionOK'
<1> SUFFICES ASSUME compaction # None PROVE CompactionOK'
  BY DEF CompactionOK
<1>1. /\ compaction \in [inputs : SUBSET version, outputs : SUBSET File]
      /\ FilesOK(compaction.outputs) /\ Ents(compaction.outputs) \subseteq Ents(compaction.inputs)
      /\ NoGap(compaction.inputs)
      /\ \E l \in 0..(NumLevels - 2) :
           /\ \A f \in compaction.inputs : f.level \in {l, l + 1}
           /\ \A f \in compaction.outputs : f.level = l + 1
  BY DEF CompactionOK
<1>2. PICK ins \in SUBSET version, outs \in SUBSET File :
        ins = compaction.inputs /\ outs = compaction.outputs
  BY <1>1
<1>3. FilesOK(ins) /\ FilesOK(outs)
  <2>1. IsFiniteSet(ins)  BY FS_Subset DEF Types, FilesOK
  <2> QED  BY <1>1, <1>2, <2>1 DEF Types, FilesOK
<1>4. FilesOK(outs)' /\ NoGap(ins)'
  <2>1. NoGap(ins)  BY <1>1, <1>2
  <2> QED  BY <1>3, <2>1, FilesStay, NoGapStays
<1>5. ins = compaction'.inputs /\ outs = compaction'.outputs  BY <1>2
<1>6. FilesOK(compaction.outputs)' /\ NoGap(compaction.inputs)'
  BY <1>4, <1>5 DEF FilesOK, NoGap, Ents, Reaches
<1>7. (Ents(compaction.outputs) \subseteq Ents(compaction.inputs))'  BY <1>1 DEF Ents
<1>8. compaction' \in [inputs : SUBSET version', outputs : SUBSET File]  BY <1>1
<1>9. \E l \in 0..(NumLevels - 2) :
           /\ \A f \in compaction'.inputs : f.level \in {l, l + 1}
           /\ \A f \in compaction'.outputs : f.level = l + 1
  BY <1>1
<1> QED  BY <1>6, <1>7, <1>8, <1>9 DEF CompactionOK

------------------------------------------------------------------------------
(***************************************************************************)
(* The files that a step adds.                                             *)
(***************************************************************************)
\* A new file has the level and the entries asked for, and at level 0 it is the newest.
LEMMA NewFileIs ==
  ASSUME Types, NEW l \in 0..(NumLevels - 1), NEW n \in 1..2,
         NEW es \in SUBSET (1..Len(history))
  PROVE  /\ NewFile(l, n, es) \in File
         /\ NewFile(l, n, es).level = l /\ NewFile(l, n, es).entries = es
         /\ l = 0 => \A f \in version : f.number < NewFile(l, n, es).number
         /\ l = 0 => NewFile(l, 1, es).number < NewFile(l, 2, es).number
<1> DEFINE numbers == {0} \cup {f.number : f \in version}
<1>1. numbers \in SUBSET Int /\ numbers # {} /\ numbers \subseteq Nat
  BY DEF Types, FilesOK, File
<1>2. IsFiniteSet(numbers)
  <2>1. IsFiniteSet(version)  BY DEF Types, FilesOK
  <2> DEFINE number == [f \in version |-> f.number]
             given  == {f.number : f \in version}
  <2>2. number \in Surjection(version, given)  BY DEF Surjection
  <2>3. IsFiniteSet(given)
    <3> HIDE DEF number, given
    <3> QED  BY <2>1, <2>2, FS_Surjection
  <2> QED  BY <2>3, FS_Singleton, FS_Union
<1>3. Max(numbers) \in numbers /\ \A m \in numbers : m <= Max(numbers)
  <2> HIDE DEF numbers
  <2> QED  BY <1>1, <1>2, MinMaxIs
<1>4. \A f \in version : f.number \in numbers  OBVIOUS
<1>5. NewFile(l, n, es) = [level |-> l, entries |-> es,
                           number |-> IF l = 0 THEN Max(numbers) + n ELSE 0]
  BY DEF NewFile
<1>6. \A m \in 1..2 : l = 0 => NewFile(l, m, es).number = Max(numbers) + m
  BY DEF NewFile
<1> HIDE DEF numbers
<1>7. es \in SUBSET Entries  BY LevelsAssumption, KeysAre DEF Types, Entries
<1>8. Max(numbers) \in Nat  BY <1>1, <1>3
<1>9. (IF l = 0 THEN Max(numbers) + n ELSE 0) \in Nat  BY <1>8
<1>10. NewFile(l, n, es) \in File  BY <1>5, <1>7, <1>9 DEF File
<1>11. NewFile(l, n, es).level = l /\ NewFile(l, n, es).entries = es  BY <1>5
<1>12. l = 0 => \A f \in version : f.number < NewFile(l, n, es).number
  <2>1. \A f \in version : f.number \in Nat /\ f.number <= Max(numbers)  BY <1>1, <1>3, <1>4
  <2> QED  BY <1>6, <1>8, <2>1
<1>13. l = 0 => NewFile(l, 1, es).number < NewFile(l, 2, es).number  BY <1>6, <1>8
<1> QED  BY <1>10, <1>11, <1>12, <1>13

\* A memtable's table goes to level 0, or no file of its level or above overlaps it.
LEMMA PickedLevelIs ==
  ASSUME NEW low, NEW high
  PROVE  /\ PickLevelForMemTableOutput(low, high) \in 0..(NumLevels - 1)
         /\ PickLevelForMemTableOutput(low, high) # 0 =>
              \A m \in 0..PickLevelForMemTableOutput(low, high) : Overlapping(m, low, high) = {}
<1> DEFINE free == {l \in 0..MaxMemCompactLevel :
                      \A m \in 0..l : Overlapping(m, low, high) = {}}
           levels == free \cup {0}
<1>1. 0..MaxMemCompactLevel \subseteq 0..(NumLevels - 1) /\ MaxMemCompactLevel \in Nat
      /\ 0 \in 0..(NumLevels - 1)
  BY LevelsAssumption
<1>2. levels \in SUBSET Int /\ levels # {} /\ levels \subseteq 0..(NumLevels - 1)  BY <1>1
<1>3. IsFiniteSet(levels)
  <2>1. IsFiniteSet(0..MaxMemCompactLevel)  BY <1>1, FS_Interval
  <2>2. IsFiniteSet(free)  BY <2>1, FS_Subset
  <2> QED  BY <2>2, FS_Singleton, FS_Union
<1>4. Max(levels) \in levels
  <2> HIDE DEF levels
  <2> QED  BY <1>2, <1>3, MinMaxIs
<1>5. PickLevelForMemTableOutput(low, high) = Max(levels)  BY DEF PickLevelForMemTableOutput
<1>6. Max(levels) # 0 => Max(levels) \in free  BY <1>4
<1> HIDE DEF levels
<1> QED  BY <1>2, <1>4, <1>5, <1>6

\* One of the memtables has keys.
LEMMA ImmRangeIs ==
  ASSUME Types, imm # {}
  PROVE  LET keys == {Key(e) : e \in imm}
         IN  /\ Min(keys) \in Int /\ Max(keys) \in Int /\ Min(keys) <= Max(keys)
             /\ \A e \in imm : Min(keys) <= Key(e) /\ Key(e) <= Max(keys)
<1> DEFINE keys == {Key(e) : e \in imm}
<1>1. keys \subseteq Keys /\ keys \in SUBSET Int /\ keys # {}
  BY KeysAre DEF Types
<1>2. IsFiniteSet(keys)  BY <1>1, LevelsAssumption, FS_Subset
<1>3. /\ Min(keys) \in keys /\ \A n \in keys : Min(keys) <= n
      /\ Max(keys) \in keys /\ \A n \in keys : n <= Max(keys)
  <2> HIDE DEF keys
  <2> QED  BY <1>1, <1>2, MinMaxIs
<1>4. \A e \in imm : Key(e) \in keys  OBVIOUS
<1> HIDE DEF keys
<1>5. /\ Min(keys) \in Int /\ Max(keys) \in Int /\ Min(keys) <= Max(keys)
      /\ \A e \in imm : Min(keys) <= Key(e) /\ Key(e) <= Max(keys)
  BY <1>1, <1>3, <1>4
<1> QED  BY <1>5 DEF keys

\* The table of the memtable, and what it overlaps.
LEMMA MemTableFileIs ==
  ASSUME Types, CompactMemTable
  PROVE  \E t \in File :
           /\ version' = version \cup {t} /\ t.entries = imm
           /\ t.level = 0 => \A f \in version : f.number < t.number
           /\ t.level # 0 =>
                \E low, high \in Int :
                  /\ \A e \in imm : low <= Key(e) /\ Key(e) <= high
                  /\ \A f \in version : f.level <= t.level => ~ Reaches(f, low, high)
<1> DEFINE keys == {Key(e) : e \in imm}
           low  == Min(keys)
           high == Max(keys)
           l    == PickLevelForMemTableOutput(low, high)
           t    == NewFile(l, 1, imm)
<1>1. imm # {} /\ version' = version \cup {t}  BY DEF CompactMemTable
<1>2. low \in Int /\ high \in Int /\ \A e \in imm : low <= Key(e) /\ Key(e) <= high
  BY <1>1, ImmRangeIs
<1> HIDE DEF low, high
<1>3. l \in 0..(NumLevels - 1) /\ (l # 0 => \A m \in 0..l : Overlapping(m, low, high) = {})
  BY PickedLevelIs
<1> HIDE DEF l
<1>4. /\ t \in File /\ t.level = l /\ t.entries = imm
      /\ l = 0 => \A f \in version : f.number < t.number
  <2>1. imm \in SUBSET (1..Len(history))  BY DEF Types
  <2> QED  BY <1>3, <2>1, NewFileIs
<1> HIDE DEF t
<1>5. ASSUME l # 0, NEW f \in version, f.level <= l PROVE ~ Reaches(f, low, high)
  <2>1. f.level \in 0..l  BY <1>3, <1>5 DEF Types, FilesOK, File
  <2>2. Overlapping(f.level, low, high) = {}  BY <1>3, <1>5, <2>1
  <2>3. Overlapping(f.level, low, high) = {g \in Level(f.level) : Reaches(g, low, high)}
    BY <1>2, OverlappingIs
  <2> QED  BY <2>2, <2>3 DEF Level
<1> QED  BY <1>1, <1>2, <1>4, <1>5

\* The tables of the memtables when the database is opened again.
LEMMA RecoveredFilesAre ==
  ASSUME Types, Recover
  PROVE  \E ti, tm \in File, new \in SUBSET File :
           /\ version' = version \cup new /\ new \subseteq {ti, tm}
           /\ ti \in new <=> imm # {}
           /\ tm \in new <=> mem # {}
           /\ ti.level = 0 /\ ti.entries = imm /\ tm.level = 0 /\ tm.entries = mem
           /\ imm # {} => ti.number < tm.number
           /\ \A f \in version : f.number < ti.number /\ f.number < tm.number
<1> DEFINE n    == IF imm = {} THEN 1 ELSE 2
           ti   == NewFile(0, 1, imm)
           tm   == NewFile(0, n, mem)
           logs == {log \in {<<1, imm>>, <<n, mem>>} : log[2] # {}}
           new  == {NewFile(0, log[1], log[2]) : log \in logs}
<1>1. version' = version \cup new  BY DEF Recover
<1>2. 0 \in 0..(NumLevels - 1)  BY LevelsAssumption
<1>3. imm \in SUBSET (1..Len(history)) /\ mem \in SUBSET (1..Len(history))  BY DEF Types
<1>4. /\ ti \in File /\ ti.level = 0 /\ ti.entries = imm
      /\ \A f \in version : f.number < ti.number
  BY <1>2, <1>3, NewFileIs
<1>5. /\ tm \in File /\ tm.level = 0 /\ tm.entries = mem
      /\ \A f \in version : f.number < tm.number
  <2>1. n \in 1..2  OBVIOUS
  <2> HIDE DEF n
  <2> QED  BY <1>2, <1>3, <2>1, NewFileIs
<1>6. imm # {} => ti.number < tm.number
  <2>1. NewFile(0, 1, imm).number < NewFile(0, 2, imm).number  BY <1>2, <1>3, NewFileIs
  <2>2. NewFile(0, 2, imm).number = NewFile(0, 2, mem).number  BY DEF NewFile
  <2> QED  BY <2>1, <2>2
<1>7. /\ imm # {} => ti \in new
      /\ mem # {} => tm \in new
      /\ \A f \in new : (f = ti /\ imm # {}) \/ (f = tm /\ mem # {})
  <2> HIDE DEF ti, tm
  <2>1. imm # {} => <<1, imm>> \in logs  OBVIOUS
  <2>2. mem # {} => <<n, mem>> \in logs  OBVIOUS
  <2> HIDE DEF n
  <2>3. \A log \in logs : \/ log[1] = 1 /\ log[2] = imm /\ imm # {}
                          \/ log[1] = n /\ log[2] = mem /\ mem # {}
    OBVIOUS
  <2> HIDE DEF logs
  <2> QED  BY <2>1, <2>2, <2>3 DEF ti, tm
<1>8. (imm = {} /\ mem = {}) \/ ti # tm
  <2>1. CASE imm # {}  BY <1>4, <1>5, <1>6, <2>1 DEF File
  <2>2. CASE imm = {}  BY <1>4, <1>5, <2>2
  <2> QED  BY <2>1, <2>2
<1> HIDE DEF ti, tm, new
<1>9. new \subseteq {ti, tm} /\ (ti \in new <=> imm # {}) /\ (tm \in new <=> mem # {})
  BY <1>7, <1>8
<1> QED  BY <1>1, <1>4, <1>5, <1>6, <1>9

\* Entries of the files of two levels are apart from the files of the lower one that
\* are left there.
LEMMA OutputsApart ==
  ASSUME Types, LevelsApart(version), NEW A \in SUBSET version, NEW B \in SUBSET version,
         NEW l \in Nat, TwoLevels(A, B, l), NEW g \in version \ (A \cup B), g.level = l + 1
  PROVE  AllBefore(Ents(A \cup B), g.entries) \/ AllBefore(g.entries, Ents(A \cup B))
<1>1. ~ Reaches(g, Low(A), High(A))  BY DEF TwoLevels, Level
<1>2. \A f \in version : \A d \in f.entries : d \in 1..Len(history) /\ Key(d) \in Int
  BY KeysAre DEF Types, FilesOK
<1>3. /\ Low(A) \in Int /\ High(A) \in Int /\ Low(A) <= High(A)
      /\ \A d \in Ents(A) : Low(A) <= Key(d) /\ Key(d) <= High(A)
  BY LowHighAre DEF TwoLevels
<1>4. \A b \in B : b.level = l + 1 /\ Reaches(b, Low(A), High(A)) /\ Apart(b, g)
  BY DEF TwoLevels, Level, LevelsApart
<1>5. CASE \A d \in g.entries : Key(d) > High(A)
  <2>1. ASSUME NEW b \in B PROVE AllBefore(b.entries, g.entries)
    <3>1. PICK d \in b.entries : Key(d) <= High(A)  BY <1>4 DEF Reaches
    <3>2. PICK e \in g.entries : TRUE  BY DEF Types, FilesOK
    <3>3. Key(d) < Key(e)  BY <1>2, <1>3, <1>5, <3>1, <3>2
    <3>4. ~ Before(e, d)  BY <1>2, <3>1, <3>2, <3>3 DEF Before
    <3> QED  BY <1>4, <3>1, <3>2, <3>4 DEF Apart, AllBefore
  <2>2. \A d \in Ents(A), e \in g.entries : Before(d, e)
    BY <1>2, <1>3, <1>5 DEF Before, Ents
  <2> QED  BY <2>1, <2>2 DEF AllBefore, Ents
<1>6. CASE \A d \in g.entries : Key(d) < Low(A)
  <2>1. ASSUME NEW b \in B PROVE AllBefore(g.entries, b.entries)
    <3>1. PICK d \in b.entries : Low(A) <= Key(d)  BY <1>4 DEF Reaches
    <3>2. PICK e \in g.entries : TRUE  BY DEF Types, FilesOK
    <3>3. Key(e) < Key(d)  BY <1>2, <1>3, <1>6, <3>1, <3>2
    <3>4. ~ Before(d, e)  BY <1>2, <3>1, <3>2, <3>3 DEF Before
    <3> QED  BY <1>4, <3>1, <3>2, <3>4 DEF Apart, AllBefore
  <2>2. \A d \in Ents(A), e \in g.entries : Before(e, d)
    BY <1>2, <1>3, <1>6 DEF Before, Ents
  <2> QED  BY <2>1, <2>2 DEF AllBefore, Ents
<1> QED  BY <1>1, <1>2, <1>3, <1>5, <1>6 DEF Reaches

\* The files of a level are apart when those of two levels are replaced.
LEMMA ReplacedApart ==
  ASSUME Types, LevelsApart(version), NEW A \in SUBSET version, NEW B \in SUBSET version,
         NEW l \in Nat, TwoLevels(A, B, l), NEW outs,
         \A o \in outs : o.level = l + 1 /\ o.entries \subseteq Ents(A \cup B),
         \A o, p \in outs : o # p => Apart(o, p)
  PROVE  LevelsApart((version \ (A \cup B)) \cup outs)
<1>1. ASSUME NEW o \in outs, NEW g \in version \ (A \cup B), g.level = o.level
      PROVE  Apart(o, g) /\ Apart(g, o)
  <2>1. AllBefore(Ents(A \cup B), g.entries) \/ AllBefore(g.entries, Ents(A \cup B))
    BY <1>1, OutputsApart
  <2>2. o.entries \subseteq Ents(A \cup B)  OBVIOUS
  <2> QED  BY <2>1, <2>2 DEF Apart, AllBefore
<1> QED  BY <1>1 DEF LevelsApart

------------------------------------------------------------------------------
(***************************************************************************)
(* The steps keep the shape.                                               *)
(***************************************************************************)
\* The types of all but the version.
OtherTypes ==
  /\ history \in Seq([key : Keys, deletion : BOOLEAN]) /\ Len(history) <= MaxWrites
  /\ mem \subseteq 1..Len(history) /\ imm \subseteq 1..Len(history)
  /\ snapshots \subseteq 0..Len(history)
  /\ keySplit \in BOOLEAN

\* What is shown of the new version in the old state is so in the new one.
LEMMA ShapeLifted ==
  ASSUME Types, KeysStay, OtherTypes', CompactionOK',
         NEW v, FilesOK(v), LevelsApart(v), version' = v,
         NEW w, FilesOK(w), LevelsApart(w), After' = w
  PROVE  Shape'
<1>1. FilesOK(v)' /\ LevelsApart(v)' /\ LevelsApart(w)'  BY FilesStay, ApartStays
<1>2. FilesOK(version)' /\ LevelsApart(version)' /\ LevelsApart(After)'
  BY <1>1 DEF FilesOK, LevelsApart
<1>3. Types'  BY <1>2 DEF Types, OtherTypes
<1> QED  BY <1>2, <1>3 DEF Shape

\* The files there will be are files too.
LEMMA AfterFilesOK ==
  ASSUME Types, CompactionOK
  PROVE  FilesOK(After)
<1>1. CASE compaction = None  BY <1>1 DEF After, Types
<1>2. CASE compaction # None
  <2> DEFINE rest == version \ compaction.inputs
  <2>1. FilesOK(compaction.outputs) /\ FilesOK(version)  BY <1>2 DEF CompactionOK, Types
  <2>2. IsFiniteSet(rest)  BY <2>1, FS_Subset DEF FilesOK
  <2>3. IsFiniteSet(rest \cup compaction.outputs)  BY <2>1, <2>2, FS_Union DEF FilesOK
  <2>4. After = rest \cup compaction.outputs  BY <1>2 DEF After
  <2> QED  BY <2>1, <2>3, <2>4 DEF FilesOK
<1> QED  BY <1>1, <1>2

\* A step that leaves the version and the compaction.
LEMMA QuietShape ==
  ASSUME Shape, KeysStay, OtherTypes', version' = version, compaction' = compaction
  PROVE  Shape'
<1>1. Types /\ CompactionOK /\ LevelsApart(version) /\ LevelsApart(After)  BY DEF Shape
<1>2. PICK v, w : v = version /\ w = After  OBVIOUS
<1>3. FilesOK(v) /\ FilesOK(w) /\ LevelsApart(v) /\ LevelsApart(w)
  <2>1. FilesOK(version) /\ FilesOK(After)  BY <1>1, AfterFilesOK DEF Types
  <2> QED  BY <1>1, <1>2, <2>1
<1>4. CompactionOK'
  <2>1. version \subseteq version'  OBVIOUS
  <2> QED  BY <1>1, <2>1, CompactionStays
<1>5. version' = v /\ After' = w  BY <1>2 DEF After
<1> QED  BY <1>1, <1>3, <1>4, <1>5, ShapeLifted

\* A write.
LEMMA WriteShape ==
  ASSUME Shape, KeysStay, NEW k \in Keys, NEW deletion \in BOOLEAN, Write(k, deletion)
  PROVE  Shape' /\ Len(history') = Len(history) + 1
<1>1. Types  BY DEF Shape
<1> DEFINE write == [key |-> k, deletion |-> deletion]
           writes == [key : Keys, deletion : BOOLEAN]
<1>2. /\ write \in writes /\ history \in Seq(writes) /\ history' = Append(history, write)
      /\ Len(history) < MaxWrites /\ mem' = mem \cup {LastSequence + 1}
      /\ UNCHANGED <<imm, version, snapshots, compaction, keySplit>>
  BY <1>1 DEF Write, Types
<1> HIDE DEF write
<1>3. history' \in Seq(writes) /\ Len(history') = Len(history) + 1 /\ Len(history) \in Nat
  <2> HIDE DEF writes
  <2> QED  BY <1>2
<1>4. LastSequence = Len(history)  BY <1>1, LastSequenceIs
<1>5. OtherTypes'
  <2>1. /\ mem \subseteq 1..Len(history) /\ imm \subseteq 1..Len(history)
        /\ snapshots \subseteq 0..Len(history) /\ keySplit \in BOOLEAN /\ MaxWrites \in Nat
    BY <1>1, LevelsAssumption DEF Types
  <2>2. /\ 1..Len(history) \subseteq 1..Len(history') /\ 0..Len(history) \subseteq 0..Len(history')
        /\ Len(history) + 1 \in 1..Len(history') /\ Len(history') <= MaxWrites
    BY <1>2, <1>3, <2>1
  <2>3. mem' \subseteq 1..Len(history')  BY <1>2, <1>4, <2>1, <2>2
  <2> HIDE DEF writes
  <2>4. history' \in Seq(writes)  BY <1>3
  <2> QED  BY <1>2, <2>1, <2>2, <2>3, <2>4 DEF OtherTypes, writes
<1> QED  BY <1>2, <1>3, <1>5, QuietShape

\* A snapshot is taken or released, or the memtable is switched.
LEMMA SmallShape ==
  ASSUME Shape, KeysStay,
         \/ GetSnapshot \/ (\E s \in snapshots : ReleaseSnapshot(s)) \/ SwitchMemTable
         \/ UNCHANGED vars
  PROVE  Shape'
<1>1. Types  BY DEF Shape
<1>2. history' = history /\ version' = version /\ compaction' = compaction /\ keySplit' = keySplit
  BY DEF GetSnapshot, ReleaseSnapshot, SwitchMemTable, vars
<1>3. mem' \subseteq 1..Len(history) /\ imm' \subseteq 1..Len(history)
  BY <1>1 DEF GetSnapshot, ReleaseSnapshot, SwitchMemTable, vars, Types
<1>4. snapshots' \subseteq 0..Len(history)
  <2>1. LastSequence \in 0..Len(history)  BY <1>1, LastSequenceIs, KeysAre
  <2> QED  BY <1>1, <2>1 DEF GetSnapshot, ReleaseSnapshot, SwitchMemTable, vars, Types
<1>5. OtherTypes'  BY <1>1, <1>2, <1>3, <1>4 DEF OtherTypes, Types
<1> QED  BY <1>2, <1>5, QuietShape

\* A file put in a level that nothing there overlaps.
LEMMA AddedFilesOK ==
  ASSUME NEW files, FilesOK(files), NEW t \in File, t.entries # {},
         t.entries \subseteq 1..Len(history)
  PROVE  FilesOK(files \cup {t})
<1>1. IsFiniteSet(files \cup {t})  BY FS_AddElement DEF FilesOK
<1> QED  BY <1>1 DEF FilesOK

\* The memtable's table overlaps no file of its level, and none that the compaction
\* under way will put there.
LEMMA MemTableApart ==
  ASSUME Shape, NEW t \in File, t.entries = imm, imm # {},
         NEW low \in Int, NEW high \in Int,
         \A e \in imm : low <= Key(e) /\ Key(e) <= high,
         \A f \in version : f.level <= t.level => ~ Reaches(f, low, high),
         NEW g \in version \cup After, g.level = t.level
  PROVE  Apart(t, g) /\ Apart(g, t)
<1>1. Types /\ CompactionOK /\ t.level \in Nat  BY DEF Shape, File
<1>2. \A d \in 1..Len(history) : Key(d) \in Int  BY <1>1, KeysAre
<1>3. g.entries \subseteq 1..Len(history) /\ imm \subseteq 1..Len(history)
  BY <1>1, AfterFilesOK DEF Types, FilesOK
<1>4. ASSUME \/ \A d \in g.entries : Key(d) < low
             \/ \A d \in g.entries : high < Key(d)
      PROVE  Apart(t, g) /\ Apart(g, t)
  <2>1. \A d \in g.entries, e \in imm : Key(d) \in Int /\ Key(e) \in Int /\ low <= Key(e) /\ Key(e) <= high
    BY <1>2, <1>3
  <2> QED  BY <1>4, <2>1 DEF Apart, AllBefore, Before
<1>5. CASE g \in version
  <2>1. ~ Reaches(g, low, high)  BY <1>1, <1>5
  <2> QED  BY <1>2, <1>3, <1>4, <2>1 DEF Reaches
<1>6. CASE g \notin version
  <2>1. compaction # None /\ g \in compaction.outputs  BY <1>6 DEF After
  <2>2. PICK l \in 0..(NumLevels - 2) :
          /\ \A f \in compaction.inputs : f.level \in {l, l + 1}
          /\ \A f \in compaction.outputs : f.level = l + 1
    BY <1>1, <2>1 DEF CompactionOK
  <2> DEFINE ins == compaction.inputs
  <2>3. /\ ins \subseteq version /\ NoGap(ins) /\ g.entries \subseteq Ents(ins)
    BY <1>1, <2>1 DEF CompactionOK, Ents
  <2>4. \A f \in ins : ~ Reaches(f, low, high)
    <3>1. \A f \in ins : f.level <= t.level  BY <1>1, <2>1, <2>2
    <3> QED  BY <2>3, <3>1
  <2> HIDE DEF ins
  <2>5. \A d \in Ents(ins) : Key(d) \in Int /\ (Key(d) < low \/ high < Key(d))
    <3> SUFFICES ASSUME NEW f \in ins, NEW d \in f.entries
                 PROVE  Key(d) \in Int /\ (Key(d) < low \/ high < Key(d))
      BY DEF Ents
    <3>1. Key(d) \in Int  BY <1>1, <1>2, <2>3 DEF Types, FilesOK
    <3> QED  BY <2>4, <3>1 DEF Reaches
  <2>6. ASSUME NEW d \in Ents(ins), Key(d) < low, NEW e \in Ents(ins), high < Key(e) PROVE FALSE
    <3>1. PICK a \in imm : TRUE  OBVIOUS
    <3>2. Key(a) \in Int /\ low <= Key(a) /\ Key(a) <= high  BY <1>2, <1>3, <3>1
    <3>3. Key(d) \in Int /\ Key(e) \in Int  BY <2>5
    <3>4. Key(d) <= Key(a) /\ Key(a) <= Key(e)  BY <2>6, <3>2, <3>3
    <3>5. PICK f \in ins : Reaches(f, Key(a), Key(a))  BY <2>3, <3>2, <3>4 DEF NoGap
    <3>6. \A b \in f.entries : Key(b) \in Int  BY <2>5 DEF Ents
    <3>7. Reaches(f, low, high)  BY <3>2, <3>5, <3>6 DEF Reaches
    <3> QED  BY <2>4, <3>7
  <2>7. (\A d \in g.entries : Key(d) < low) \/ (\A d \in g.entries : high < Key(d))
    BY <2>3, <2>5, <2>6
  <2> QED  BY <1>4, <2>7
<1> QED  BY <1>5, <1>6

\* CompactMemTable.
LEMMA CompactMemTableShape ==
  ASSUME Shape, KeysStay, CompactMemTable
  PROVE  Shape'
<1>1. Types /\ CompactionOK /\ LevelsApart(version) /\ LevelsApart(After)  BY DEF Shape
<1>2. /\ imm # {} /\ imm' = {}
      /\ UNCHANGED <<history, mem, snapshots, compaction, keySplit>>
  BY DEF CompactMemTable
<1>3. PICK t \in File :
        /\ version' = version \cup {t} /\ t.entries = imm
        /\ t.level = 0 => \A f \in version : f.number < t.number
        /\ t.level # 0 =>
             \E low, high \in Int :
               /\ \A e \in imm : low <= Key(e) /\ Key(e) <= high
               /\ \A f \in version : f.level <= t.level => ~ Reaches(f, low, high)
  BY <1>1, MemTableFileIs
<1>4. OtherTypes'  BY <1>1, <1>2 DEF Types, OtherTypes
<1>5. CompactionOK'
  <2>1. version \subseteq version'  BY <1>3
  <2> QED  BY <1>1, <1>2, <2>1, CompactionStays
<1>6. \A g \in version \cup After : g.level = t.level /\ t.level > 0 => Apart(t, g) /\ Apart(g, t)
  <2> SUFFICES ASSUME NEW g \in version \cup After, g.level = t.level, t.level > 0
               PROVE  Apart(t, g) /\ Apart(g, t)
    OBVIOUS
  <2>1. PICK low \in Int, high \in Int :
               /\ \A e \in imm : low <= Key(e) /\ Key(e) <= high
               /\ \A f \in version : f.level <= t.level => ~ Reaches(f, low, high)
    <3>1. t.level # 0  BY DEF File
    <3> QED  BY <1>3, <3>1
  <2> QED  BY <1>2, <1>3, <2>1, MemTableApart
<1>7. PICK v, w : v = version \cup {t} /\ w = After'  OBVIOUS
<1>8. w \subseteq After \cup {t}  BY <1>2, <1>3, <1>7 DEF After
<1>9. LevelsApart(version \cup {t}) /\ LevelsApart(After \cup {t})
  BY <1>1, <1>6 DEF LevelsApart
<1>10. LevelsApart(w)  BY <1>8, <1>9, FewerApart
<1>11. FilesOK(v) /\ FilesOK(w)
  <2>1. FilesOK(version) /\ FilesOK(After)  BY <1>1, AfterFilesOK DEF Types
  <2>2. imm \subseteq 1..Len(history)  BY <1>1 DEF Types
  <2>3. FilesOK(version \cup {t}) /\ FilesOK(After \cup {t})
    BY <1>2, <1>3, <2>1, <2>2, AddedFilesOK
  <2>4. IsFiniteSet(w)  BY <1>8, <2>3, FS_Subset DEF FilesOK
  <2> QED  BY <1>7, <1>8, <2>3, <2>4 DEF FilesOK
<1> QED  BY <1>1, <1>3, <1>4, <1>5, <1>7, <1>9, <1>10, <1>11, ShapeLifted

\* No entry of the one has the key of an entry of the other.
NoSharedKey(A, B) == \A d \in A, e \in B : Key(d) # Key(e)

\* What is written by a compaction of file f: the entries that are not dropped, in files
\* that are apart.
Compacts(f, A, B, outs) ==
  /\ f \in A /\ TwoLevels(A, B, f.level)
  /\ Ents(outs) = {e \in Ents(A \cup B) : ~ Drops(f.level, Ents(A \cup B), e)}
  /\ \A o \in outs : o \in File /\ o.level = f.level + 1 /\ o.entries # {}
  /\ \A o, p \in outs : o # p => Apart(o, p)

\* DoCompactionWork.
LEMMA CompactionIs ==
  ASSUME Types, NEW f \in version, f.level < NumLevels - 1, DoCompactionWork(f)
  PROVE  /\ compaction = None /\ imm = {}
         /\ UNCHANGED <<history, mem, imm, version, snapshots>>
         /\ \E A, B \in SUBSET version, outs \in SUBSET File :
              /\ compaction' = [inputs |-> A \cup B, outputs |-> outs]
              /\ Compacts(f, A, B, outs) /\ IsFiniteSet(outs)
              /\ keySplit' \in BOOLEAN
              /\ ~ keySplit' => /\ ~ keySplit
                                /\ \A o, p \in outs : o # p => NoSharedKey(o.entries, p.entries)
<1> DEFINE l == f.level
           kept(inputs) == {e \in Ents(inputs) : ~ Drops(l, Ents(inputs), e)}
           after(inputs, cut) == {e \in kept(inputs) : Before(cut, e)}
           output(es) == NewFile(l + 1, 1, es)
<1>1. compaction = None /\ imm = {} /\ UNCHANGED <<history, mem, imm, version, snapshots>>
  BY DEF DoCompactionWork
<1>2. PICK inputs \in Inputs(f) :
        \/ /\ kept(inputs) = {}
           /\ compaction' = [inputs |-> inputs, outputs |-> {}]
           /\ UNCHANGED keySplit
        \/ \E cut \in kept(inputs) :
             /\ compaction' = [inputs |-> inputs,
                               outputs |-> {output(kept(inputs) \ after(inputs, cut))} \cup
                                 (IF after(inputs, cut) = {} THEN {}
                                  ELSE {output(after(inputs, cut))})]
             /\ keySplit' = (keySplit \/ \E e \in after(inputs, cut) : Key(e) = Key(cut))
  BY DEF DoCompactionWork, Ents
<1>3. PICK A \in SUBSET version, B \in SUBSET version :
        inputs = A \cup B /\ f \in A /\ TwoLevels(A, B, f.level)
  BY InputsAre
<1> DEFINE K == kept(inputs)
<1>4. K = {e \in Ents(A \cup B) : ~ Drops(f.level, Ents(A \cup B), e)}  BY <1>3
<1>5. K \subseteq 1..Len(history)  BY <1>3, <1>4 DEF Ents, Types, FilesOK
<1>6. keySplit \in BOOLEAN  BY DEF Types
<1> HIDE DEF kept
<1>7. CASE K = {} /\ compaction' = [inputs |-> inputs, outputs |-> {}] /\ UNCHANGED keySplit
  <2> DEFINE outs == {}
  <2>1. Ents(outs) = K  BY <1>7 DEF Ents
  <2>2. Compacts(f, A, B, outs)  BY <1>3, <1>4, <2>1 DEF Compacts
  <2>3. IsFiniteSet(outs) /\ outs \in SUBSET File  BY FS_EmptySet
  <2> QED  BY <1>1, <1>3, <1>6, <1>7, <2>2, <2>3
<1>8. ASSUME NEW cut \in K,
             compaction' = [inputs |-> inputs,
                            outputs |-> {output(K \ after(inputs, cut))} \cup
                              (IF after(inputs, cut) = {} THEN {}
                               ELSE {output(after(inputs, cut))})],
             keySplit' = (keySplit \/ \E e \in after(inputs, cut) : Key(e) = Key(cut))
      PROVE  \E outs \in SUBSET File :
              /\ compaction' = [inputs |-> A \cup B, outputs |-> outs]
              /\ Compacts(f, A, B, outs) /\ IsFiniteSet(outs)
              /\ keySplit' \in BOOLEAN
              /\ ~ keySplit' => /\ ~ keySplit
                                /\ \A o, p \in outs : o # p => NoSharedKey(o.entries, p.entries)
  <2> DEFINE S1 == after(inputs, cut)
             S0 == K \ S1
             o0 == output(S0)
             o1 == output(S1)
             outs == {o0} \cup (IF S1 = {} THEN {} ELSE {o1})
  <2>1. S1 = {e \in K : Before(cut, e)}  OBVIOUS
  <2>2. S0 \in SUBSET (1..Len(history)) /\ S1 \in SUBSET (1..Len(history)) /\ cut \in 1..Len(history)
        /\ S0 \cup S1 = K
    BY <1>5, <2>1
  <2>3. cut \in S0 /\ \A d \in S0 : ~ Before(cut, d)
    <3>1. ~ Before(cut, cut)  BY <2>2, BeforeIsOrder
    <3> QED  BY <2>1, <3>1
  <2> HIDE DEF after
  <2> HIDE DEF S0, S1
  <2>4. l + 1 \in 0..(NumLevels - 1)  BY LevelsAssumption DEF Types, FilesOK, File
  <2>5. /\ o0 \in File /\ o0.level = l + 1 /\ o0.entries = S0
        /\ o1 \in File /\ o1.level = l + 1 /\ o1.entries = S1
    BY <2>2, <2>4, NewFileIs
  <2> HIDE DEF o0, o1
  <2>6. AllBefore(S0, S1)
    <3> SUFFICES ASSUME NEW d \in S0, NEW e \in S1 PROVE Before(d, e)  BY DEF AllBefore
    <3>1. d = cut \/ Before(d, cut)  BY <2>2, <2>3, BeforeIsOrder
    <3>2. Before(cut, e) /\ d \in 1..Len(history) /\ e \in 1..Len(history)  BY <2>1, <2>2
    <3> QED  BY <2>2, <3>1, <3>2, BeforeIsOrder
  <2>7. \A o \in outs : (o = o0) \/ (o = o1 /\ S1 # {})  OBVIOUS
  <2>8. Ents(outs) = K
    <3>1. CASE S1 = {}
      <4>1. outs = {o0}  BY <3>1
      <4>2. Ents({o0}) = o0.entries  BY DEF Ents
      <4> HIDE DEF outs
      <4> QED  BY <2>2, <2>5, <3>1, <4>1, <4>2
    <3>2. CASE S1 # {}
      <4>1. outs = {o0, o1}  BY <3>2
      <4>2. Ents({o0, o1}) = o0.entries \cup o1.entries  BY DEF Ents
      <4> HIDE DEF outs
      <4> QED  BY <2>2, <2>5, <4>1, <4>2
    <3> QED  BY <3>1, <3>2
  <2>9. outs \in SUBSET File /\ IsFiniteSet(outs)
    <3>1. IsFiniteSet({o0}) /\ IsFiniteSet({o1}) /\ IsFiniteSet({})  BY FS_Singleton, FS_EmptySet
    <3>2. IsFiniteSet(outs)  BY <3>1, FS_Union
    <3> QED  BY <2>5, <3>2
  <2>10. \A o \in outs : o \in File /\ o.level = l + 1 /\ o.entries # {}
    <3> HIDE DEF outs
    <3> QED  BY <2>3, <2>5, <2>7
  <2>11. \A o, p \in outs : o # p => Apart(o, p)
    <3>1. Apart(o0, o1) /\ Apart(o1, o0)  BY <2>5, <2>6 DEF Apart
    <3> HIDE DEF outs
    <3> QED  BY <2>7, <3>1
  <2>12. keySplit' \in BOOLEAN  BY <1>6, <1>8
  <2>13. ~ keySplit' => ~ keySplit /\ \A o, p \in outs : o # p => NoSharedKey(o.entries, p.entries)
    <3> SUFFICES ASSUME ~ keySplit'
                 PROVE  ~ keySplit /\ \A o, p \in outs : o # p => NoSharedKey(o.entries, p.entries)
      OBVIOUS
    <3>1. ~ keySplit /\ \A e \in S1 : Key(e) # Key(cut)  BY <1>8 DEF S1
    <3>2. NoSharedKey(S0, S1) /\ NoSharedKey(S1, S0)
      <4> SUFFICES ASSUME NEW d \in S0, NEW e \in S1 PROVE Key(d) # Key(e)  BY DEF NoSharedKey
      <4>1. d = cut \/ Before(d, cut)  BY <2>2, <2>3, BeforeIsOrder
      <4>2. Before(cut, e)  BY <2>1
      <4>3. Key(d) \in Int /\ Key(e) \in Int /\ Key(cut) \in Int  BY <2>2, KeysAre
      <4> QED  BY <3>1, <4>1, <4>2, <4>3 DEF Before
    <3> HIDE DEF outs
    <3> QED  BY <2>5, <2>7, <3>1, <3>2
  <2>14. compaction' = [inputs |-> A \cup B, outputs |-> outs]  BY <1>3, <1>8 DEF o0, o1, S0, S1
  <2> HIDE DEF outs, K
  <2>15. Compacts(f, A, B, outs)  BY <1>3, <1>4, <2>8, <2>10, <2>11 DEF Compacts
  <2> QED  BY <2>9, <2>12, <2>13, <2>14, <2>15
<1>9. \/ K = {} /\ compaction' = [inputs |-> inputs, outputs |-> {}] /\ UNCHANGED keySplit
      \/ \E outs \in SUBSET File :
              /\ compaction' = [inputs |-> A \cup B, outputs |-> outs]
              /\ Compacts(f, A, B, outs) /\ IsFiniteSet(outs)
              /\ keySplit' \in BOOLEAN
              /\ ~ keySplit' => /\ ~ keySplit
                                /\ \A o, p \in outs : o # p => NoSharedKey(o.entries, p.entries)
  BY <1>2, <1>8
<1> QED  BY <1>1, <1>7, <1>9

\* MoveFile writes the file it moves.
LEMMA MoveIs ==
  ASSUME Types, NEW f \in version, f.level < NumLevels - 1, MoveFile(f)
  PROVE  /\ compaction = None /\ imm = {}
         /\ UNCHANGED <<history, mem, imm, snapshots, compaction, keySplit>>
         /\ \E B \in SUBSET version, t \in File :
              /\ version' = (version \ ({f} \cup B)) \cup {t}
              /\ {f} \cup B = {f} /\ TwoLevels({f}, B, f.level)
              /\ t.level = f.level + 1 /\ t.entries = f.entries
<1>1. /\ compaction = None /\ imm = {}
      /\ UNCHANGED <<history, mem, imm, snapshots, compaction, keySplit>>
  BY DEF MoveFile
<1>2. PICK inputs \in Inputs(f) :
        /\ Cardinality(inputs) = 1
        /\ version' = (version \ inputs) \cup {NewFile(f.level + 1, 1, f.entries)}
  BY DEF MoveFile, IsTrivialMove
<1>3. PICK A \in SUBSET version, B \in SUBSET version :
        inputs = A \cup B /\ f \in A /\ TwoLevels(A, B, f.level)
  BY InputsAre
<1>4. inputs = {f}
  <2>1. IsFiniteSet(inputs)  BY <1>3, FS_Subset DEF Types, FilesOK
  <2>2. \E g : inputs = {g}  BY <1>2, <2>1, FS_Singleton
  <2> QED  BY <1>3, <2>2
<1>5. A = {f} /\ {f} \cup B = {f}  BY <1>3, <1>4
<1> DEFINE t == NewFile(f.level + 1, 1, f.entries)
<1>6. t \in File /\ t.level = f.level + 1 /\ t.entries = f.entries
  <2>1. f.level + 1 \in 0..(NumLevels - 1)  BY LevelsAssumption DEF Types, FilesOK, File
  <2>2. f.entries \in SUBSET (1..Len(history))  BY DEF Types, FilesOK
  <2> QED  BY <2>1, <2>2, NewFileIs
<1> HIDE DEF t
<1>7. version' = (version \ ({f} \cup B)) \cup {t}  BY <1>2, <1>4, <1>5 DEF t
<1> QED  BY <1>1, <1>3, <1>5, <1>6, <1>7

\* Files of which some are replaced are files.
LEMMA ReplacedFilesOK ==
  ASSUME FilesOK(version), NEW ins, NEW outs, IsFiniteSet(outs),
         \A o \in outs : o \in File /\ o.entries # {} /\ o.entries \subseteq 1..Len(history)
  PROVE  FilesOK((version \ ins) \cup outs)
<1>1. IsFiniteSet(version \ ins)  BY FS_Subset DEF FilesOK
<1>2. IsFiniteSet((version \ ins) \cup outs)  BY <1>1, FS_Union
<1> QED  BY <1>2 DEF FilesOK

\* A file is moved to the next level.
LEMMA MoveFileShape ==
  ASSUME Shape, KeysStay, NEW f \in version, f.level < NumLevels - 1, MoveFile(f)
  PROVE  Shape'
<1>1. Types /\ CompactionOK /\ LevelsApart(version)  BY DEF Shape
<1>2. /\ compaction = None /\ imm = {}
      /\ UNCHANGED <<history, mem, imm, snapshots, compaction, keySplit>>
  BY <1>1, MoveIs
<1>3. PICK B \in SUBSET version, t \in File :
        /\ version' = (version \ ({f} \cup B)) \cup {t}
        /\ {f} \cup B = {f} /\ TwoLevels({f}, B, f.level)
        /\ t.level = f.level + 1 /\ t.entries = f.entries
  BY <1>1, MoveIs
<1> DEFINE v == (version \ ({f} \cup B)) \cup {t}
<1>4. f.level \in Nat /\ f.entries # {} /\ f.entries \subseteq 1..Len(history)
  BY <1>1 DEF Types, FilesOK, File
<1>5. FilesOK(v)
  <2>1. IsFiniteSet({t})  BY FS_Singleton
  <2>2. FilesOK(version)  BY <1>1 DEF Types
  <2>3. \A o \in {t} : o \in File /\ o.entries # {} /\ o.entries \subseteq 1..Len(history)
    BY <1>3, <1>4
  <2> QED  BY <2>1, <2>2, <2>3, ReplacedFilesOK
<1>6. LevelsApart(v)
  <2> DEFINE A == {f}
             outs == {t}
  <2>1. A \in SUBSET version /\ TwoLevels(A, B, f.level)  BY <1>3
  <2>2. \A o \in outs : o.level = f.level + 1 /\ o.entries \subseteq Ents(A \cup B)
    BY <1>3 DEF Ents
  <2>3. \A o, p \in outs : o # p => Apart(o, p)  OBVIOUS
  <2> HIDE DEF A, outs
  <2>4. LevelsApart((version \ (A \cup B)) \cup outs)
    BY <1>1, <1>4, <2>1, <2>2, <2>3, ReplacedApart
  <2> QED  BY <2>4 DEF A, outs
<1>7. PICK w : w = v  OBVIOUS
<1>8. version' = w /\ After' = w  BY <1>2, <1>3, <1>7 DEF After
<1>9. FilesOK(w) /\ LevelsApart(w)  BY <1>5, <1>6, <1>7
<1>10. OtherTypes' /\ CompactionOK'  BY <1>1, <1>2 DEF OtherTypes, Types, CompactionOK
<1> QED  BY <1>1, <1>8, <1>9, <1>10, ShapeLifted

\* A compaction's files are written.
LEMMA DoCompactionWorkShape ==
  ASSUME Shape, KeysStay, NEW f \in version, f.level < NumLevels - 1, DoCompactionWork(f)
  PROVE  Shape'
<1>1. Types /\ CompactionOK /\ LevelsApart(version)  BY DEF Shape
<1>2. compaction = None /\ imm = {} /\ UNCHANGED <<history, mem, imm, version, snapshots>>
  BY <1>1, CompactionIs
<1>3. PICK A \in SUBSET version, B \in SUBSET version, outs \in SUBSET File :
        /\ compaction' = [inputs |-> A \cup B, outputs |-> outs]
        /\ Compacts(f, A, B, outs) /\ IsFiniteSet(outs)
        /\ keySplit' \in BOOLEAN
  BY <1>1, CompactionIs
<1>4. f.level \in 0..(NumLevels - 2) /\ f.level \in Nat
  BY <1>1, LevelsAssumption DEF Types, FilesOK, File
<1>5. /\ f \in A /\ TwoLevels(A, B, f.level) /\ Ents(outs) \subseteq Ents(A \cup B)
      /\ \A o \in outs : o \in File /\ o.level = f.level + 1 /\ o.entries # {}
      /\ \A o, p \in outs : o # p => Apart(o, p)
  BY <1>3 DEF Compacts
<1>6. \A o \in outs : o.entries \subseteq Ents(A \cup B)  BY <1>5 DEF Ents
<1>7. Ents(A \cup B) \subseteq 1..Len(history)  BY <1>1 DEF Types, FilesOK, Ents
<1>8. PICK v, ins : v = version /\ ins = A \cup B  OBVIOUS
<1> DEFINE w == (v \ ins) \cup outs
<1>9. FilesOK(v) /\ LevelsApart(v) /\ version' = v  BY <1>1, <1>2, <1>8 DEF Types
<1>10. FilesOK(w)
  <2>1. \A o \in outs : o \in File /\ o.entries # {} /\ o.entries \subseteq 1..Len(history)
    BY <1>5, <1>6, <1>7
  <2>2. FilesOK((version \ ins) \cup outs)  BY <1>3, <1>8, <1>9, <2>1, ReplacedFilesOK
  <2> QED  BY <1>8, <2>2
<1>11. LevelsApart(w)
  <2>1. LevelsApart((version \ (A \cup B)) \cup outs)
    BY <1>1, <1>4, <1>5, <1>6, ReplacedApart
  <2> QED  BY <1>8, <2>1
<1>12. compaction' # None
  <2>1. version \subseteq File  BY <1>1 DEF Types, FilesOK
  <2>2. compaction' \in [inputs : SUBSET File, outputs : SUBSET File]  BY <1>3, <2>1
  <2> QED  BY <2>2, LevelsAssumption
<1>13. After' = w  BY <1>2, <1>3, <1>8, <1>12 DEF After
<1>14. OtherTypes'  BY <1>1, <1>2, <1>3 DEF OtherTypes, Types
<1>15. CompactionOK'
  <2>1. compaction' \in [inputs : SUBSET version', outputs : SUBSET File]
    BY <1>2, <1>3
  <2>2. compaction'.inputs = ins /\ compaction'.outputs = outs  BY <1>3, <1>8
  <2>3. FilesOK(ins) /\ FilesOK(outs) /\ NoGap(ins)
    <3>1. FilesOK(version) /\ ins \subseteq version  BY <1>1, <1>8 DEF Types
    <3>2. IsFiniteSet(ins)  BY <3>1, FS_Subset DEF FilesOK
    <3>3. FilesOK(ins)  BY <3>1, <3>2 DEF FilesOK
    <3>4. FilesOK(outs)  BY <1>3, <1>5, <1>6, <1>7 DEF FilesOK
    <3> QED  BY <1>5, <1>8, <3>3, <3>4 DEF TwoLevels
  <2>4. FilesOK(outs)' /\ NoGap(ins)'  BY <1>1, <2>3, FilesStay, NoGapStays
  <2>5. FilesOK(compaction.outputs)' /\ NoGap(compaction.inputs)'
    BY <2>2, <2>4 DEF FilesOK, NoGap, Ents, Reaches
  <2>6. (Ents(compaction.outputs) \subseteq Ents(compaction.inputs))'
    BY <1>5, <1>8, <2>2 DEF Ents
  <2>7. \A g \in ins : g.level \in {f.level, f.level + 1}
    BY <1>5, <1>8 DEF TwoLevels, Level
  <2>8. \E l \in 0..(NumLevels - 2) :
          /\ \A g \in compaction'.inputs : g.level \in {l, l + 1}
          /\ \A g \in compaction'.outputs : g.level = l + 1
    BY <1>4, <1>5, <2>2, <2>7
  <2> QED  BY <2>1, <2>5, <2>6, <2>8 DEF CompactionOK
<1> HIDE DEF w
<1> QED  BY <1>1, <1>9, <1>10, <1>11, <1>13, <1>14, <1>15, ShapeLifted

\* The files of the compaction replace its inputs.
LEMMA InstallShape ==
  ASSUME Shape, KeysStay, InstallCompactionResults
  PROVE  Shape'
<1>1. Types /\ CompactionOK /\ LevelsApart(After)  BY DEF Shape
<1>2. /\ compaction # None /\ compaction' = None /\ version' = After
      /\ UNCHANGED <<history, mem, imm, snapshots, keySplit>>
  BY DEF InstallCompactionResults, After
<1>3. PICK w : w = After  OBVIOUS
<1>4. FilesOK(w) /\ LevelsApart(w)  BY <1>1, <1>3, AfterFilesOK
<1>5. version' = w /\ After' = w  BY <1>2, <1>3 DEF After
<1>6. OtherTypes' /\ CompactionOK'  BY <1>1, <1>2 DEF OtherTypes, Types, CompactionOK
<1> QED  BY <1>1, <1>4, <1>5, <1>6, ShapeLifted

\* The database is opened again: the memtables are put in level 0.
LEMMA RecoverShape ==
  ASSUME Shape, KeysStay, Recover
  PROVE  Shape'
<1>1. Types /\ CompactionOK /\ LevelsApart(version)  BY DEF Shape
<1>2. /\ mem' = {} /\ imm' = {} /\ snapshots' = {} /\ compaction' = None
      /\ UNCHANGED <<history, keySplit>>
  BY DEF Recover
<1>3. PICK ti \in File, tm \in File, new \in SUBSET File :
           /\ version' = version \cup new /\ new \subseteq {ti, tm}
           /\ ti \in new <=> imm # {}
           /\ tm \in new <=> mem # {}
           /\ ti.level = 0 /\ ti.entries = imm /\ tm.level = 0 /\ tm.entries = mem
  BY <1>1, RecoveredFilesAre
<1> DEFINE w == version \cup new
<1>4. FilesOK(w)
  <2>1. IsFiniteSet({ti}) /\ IsFiniteSet({tm})  BY FS_Singleton
  <2>2. IsFiniteSet({ti} \cup {tm})  BY <2>1, FS_Union
  <2>3. new \subseteq {ti} \cup {tm}  BY <1>3
  <2>4. IsFiniteSet(new)  BY <2>2, <2>3, FS_Subset
  <2>5. IsFiniteSet(w)  BY <1>1, <2>4, FS_Union DEF Types, FilesOK
  <2>6. \A t \in new : t \in File /\ t.entries # {} /\ t.entries \subseteq 1..Len(history)
    BY <1>1, <1>3 DEF Types
  <2> QED  BY <1>1, <2>5, <2>6 DEF Types, FilesOK
<1>5. LevelsApart(w)
  <2>1. \A t \in new : t.level = 0  BY <1>3
  <2> QED  BY <1>1, <2>1 DEF LevelsApart
<1>6. PICK v : v = w  OBVIOUS
<1>7. version' = v /\ After' = v  BY <1>2, <1>3, <1>6 DEF After
<1>8. OtherTypes' /\ CompactionOK'
  <2>1. {} \subseteq 1..Len(history) /\ {} \subseteq 0..Len(history)  OBVIOUS
  <2> QED  BY <1>1, <1>2 DEF OtherTypes, Types, CompactionOK
<1>9. FilesOK(v) /\ LevelsApart(v)  BY <1>4, <1>5, <1>6
<1> QED  BY <1>1, <1>7, <1>8, <1>9, ShapeLifted

\* The shape is there at the start.
LEMMA InitShape == Init => Shape
<1> SUFFICES ASSUME Init PROVE Shape  OBVIOUS
<1>1. IsFiniteSet({})  BY FS_EmptySet
<1>2. version = {} /\ compaction = None /\ After = {}  BY DEF Init, After
<1>3. Types
  <2>1. history = <<>> /\ MaxWrites \in Nat  BY LevelsAssumption DEF Init
  <2>2. Len(history) = 0 /\ history \in Seq([key : Keys, deletion : BOOLEAN])  BY <2>1
  <2>3. Len(history) <= MaxWrites  BY <2>1, <2>2
  <2>4. FilesOK(version)  BY <1>1, <1>2 DEF FilesOK
  <2>5. /\ mem \subseteq 1..Len(history) /\ imm \subseteq 1..Len(history)
        /\ snapshots \subseteq 0..Len(history) /\ keySplit \in BOOLEAN
    BY DEF Init
  <2> QED  BY <2>2, <2>3, <2>4, <2>5 DEF Types
<1> QED  BY <1>2, <1>3 DEF Shape, CompactionOK, LevelsApart

\* Every step keeps it.
LEMMA StepShape == Shape /\ [Next]_vars => Shape'
<1> SUFFICES ASSUME Shape, [Next]_vars PROVE Shape'  OBVIOUS
<1>1. KeysStay  BY StepKeysStay DEF Shape
<1>2. ASSUME NEW k \in Keys, NEW deletion \in BOOLEAN, Write(k, deletion) PROVE Shape'
  BY <1>1, <1>2, WriteShape
<1>3. CASE \/ GetSnapshot \/ (\E s \in snapshots : ReleaseSnapshot(s)) \/ SwitchMemTable
           \/ UNCHANGED vars
  BY <1>1, <1>3, SmallShape
<1>4. CASE CompactMemTable  BY <1>1, <1>4, CompactMemTableShape
<1>5. ASSUME NEW f \in version, f.level < NumLevels - 1, MoveFile(f) PROVE Shape'
  BY <1>1, <1>5, MoveFileShape
<1>6. ASSUME NEW f \in version, f.level < NumLevels - 1, DoCompactionWork(f) PROVE Shape'
  BY <1>1, <1>6, DoCompactionWorkShape
<1>7. CASE InstallCompactionResults  BY <1>1, <1>7, InstallShape
<1>8. CASE Recover  BY <1>1, <1>8, RecoverShape
<1> QED  BY <1>2, <1>3, <1>4, <1>5, <1>6, <1>7, <1>8 DEF Next

\* Files that are apart end before each other begins.
LEMMA ShapeIsDisjoint == Shape => LevelsAreDisjoint
<1> SUFFICES ASSUME Shape, NEW f \in version, NEW g \in version,
                    f # g, f.level = g.level, f.level > 0
             PROVE  Before(Largest(f), Smallest(g)) \/ Before(Largest(g), Smallest(f))
  BY DEF LevelsAreDisjoint
<1>1. Types /\ Apart(f, g)  BY DEF Shape, LevelsApart
<1>2. \A h \in {f, g} : Largest(h) \in h.entries /\ Smallest(h) \in h.entries
  <2> SUFFICES ASSUME NEW h \in {f, g}
               PROVE  Largest(h) \in h.entries /\ Smallest(h) \in h.entries
    OBVIOUS
  <2>1. h.entries \subseteq 1..Len(history) /\ h.entries # {}  BY <1>1 DEF Types, FilesOK
  <2> QED  BY <1>1, <2>1, EndsAre
<1> QED  BY <1>1, <1>2 DEF Apart, AllBefore

\* Whatever is compacted, and wherever a memtable's table is put meanwhile, no two files
\* of a level below 0 overlap.
THEOREM LevelsStayDisjoint == Spec => []LevelsAreDisjoint
<1>1. Spec => []Shape  BY InitShape, StepShape, PTL DEF Spec
<1> QED  BY <1>1, ShapeIsDisjoint, PTL

------------------------------------------------------------------------------
(***************************************************************************)
(* The order in which a read comes to the entries.                         *)
(***************************************************************************)
\* Files in their order stay so.
LEMMA OrderedStays ==
  ASSUME Types, KeysStay, NEW files, FilesOK(files), Ordered(files)
  PROVE  Ordered(files)'
<1> SUFFICES ASSUME NEW f \in files, NEW g \in files, f # g,
                    NEW d \in f.entries, NEW e \in g.entries, Key(d)' = Key(e)'
             PROVE  (Newer(f, g) /\ d > e) \/ (Newer(g, f) /\ e > d)
  BY DEF Ordered, InOrder, Newer
<1>1. d \in 1..Len(history) /\ e \in 1..Len(history)  BY DEF FilesOK
<1>2. Key(d) = Key(e)  BY <1>1 DEF KeysStay
<1> QED  BY <1>2 DEF Ordered, InOrder

\* What is shown of the new version in the old state.
LEMMA OrderLifted ==
  ASSUME Types, KeysStay,
         NEW v, FilesOK(v), Ordered(v), version' = v,
         NEW w, FilesOK(w), Ordered(w), After' = w
  PROVE  Ordered(version)' /\ Ordered(After)'
<1>1. Ordered(v)' /\ Ordered(w)'  BY OrderedStays
<1> QED  BY <1>1 DEF Ordered

\* Of the files that a compaction leaves, those that a read comes to after one it takes,
\* and that have a key of it, are below the two levels.
LEMMA LeftAreBelow ==
  ASSUME Types, NEW A \in SUBSET version, NEW B \in SUBSET version, NEW l \in Nat,
         TwoLevels(A, B, l), NEW h \in A \cup B, NEW g \in version \ (A \cup B),
         NEW d \in h.entries, NEW e \in g.entries, Key(d) = Key(e), Newer(h, g)
  PROVE  g.level > l + 1
<1>1. h.level \in Nat /\ g.level \in Nat  BY DEF Types, FilesOK, File
<1>2. h \in A => h.level = l  BY DEF TwoLevels, Level
<1>3. h \in B => h.level = l + 1  BY DEF TwoLevels, Level
<1>4. SUFFICES ASSUME g.level <= l + 1 PROVE FALSE  BY <1>1
<1>5. CASE h.level < g.level
  <2>1. h \in A /\ g.level = l + 1  BY <1>1, <1>2, <1>3, <1>4, <1>5
  <2>2. ~ Reaches(g, Low(A), High(A))  BY <2>1 DEF TwoLevels, Level
  <2>3. d \in Ents(A)  BY <2>1 DEF Ents
  <2>4. Low(A) <= Key(d) /\ Key(d) <= High(A)  BY <2>1, <2>3, LowHighAre
  <2> QED  BY <2>2, <2>4 DEF Reaches
<1>6. CASE h.level = 0 /\ g.level = 0
  <2>1. l = 0 /\ h \in A  BY <1>2, <1>3, <1>6
  <2>2. g \in Level(0) \ A  BY <1>6 DEF Level
  <2>3. ~ Reaches(g, SmallestKey(h), LargestKey(h))  BY <1>6, <2>1, <2>2 DEF TwoLevels, Closed
  <2>4. h \in version  BY <2>1
  <2>5. SmallestKey(h) <= Key(d) /\ Key(d) <= LargestKey(h)  BY <2>4, ZeroFileIs
  <2> QED  BY <2>3, <2>5 DEF Reaches
<1> QED  BY <1>5, <1>6 DEF Newer

\* The order is kept when files of two levels are replaced by files of the lower one.
LEMMA ReplacedOrdered ==
  ASSUME Types, Ordered(version), NEW A \in SUBSET version, NEW B \in SUBSET version,
         NEW l \in Nat, TwoLevels(A, B, l), NEW outs,
         \A o \in outs : o.level = l + 1 /\ o.entries \subseteq Ents(A \cup B),
         \A o, p \in outs : o # p => NoSharedKey(o.entries, p.entries)
  PROVE  Ordered((version \ (A \cup B)) \cup outs)
<1>1. ASSUME NEW o \in outs, NEW g \in version \ (A \cup B),
             NEW d \in o.entries, NEW e \in g.entries, Key(d) = Key(e)
      PROVE  (Newer(o, g) /\ d > e) \/ (Newer(g, o) /\ e > d)
  <2>1. PICK h \in A \cup B : d \in h.entries  BY DEF Ents
  <2>2. (Newer(h, g) /\ d > e) \/ (Newer(g, h) /\ e > d)
    <3>1. h \in version /\ g \in version /\ h # g  OBVIOUS
    <3> QED  BY <1>1, <2>1, <3>1 DEF Ordered, InOrder
  <2>3. h.level \in {l, l + 1} /\ o.level = l + 1 /\ h.level \in Nat /\ g.level \in Nat
    BY DEF TwoLevels, Level, Types, FilesOK, File
  <2>4. Newer(g, h) => Newer(g, o)  BY <2>3 DEF Newer
  <2>5. Newer(h, g) => Newer(o, g)
    <3>1. Newer(h, g) => g.level > l + 1  BY <1>1, <2>1, LeftAreBelow
    <3> QED  BY <2>3, <3>1 DEF Newer
  <2> QED  BY <2>2, <2>4, <2>5
<1>2. ASSUME NEW o \in outs, NEW g \in version \ (A \cup B)
      PROVE  InOrder(o, g) /\ InOrder(g, o)
  BY <1>1 DEF InOrder
<1>3. \A o, p \in outs : o # p => InOrder(o, p)  BY DEF InOrder, NoSharedKey
<1> QED  BY <1>2, <1>3 DEF Ordered

\* The entries of the files there will be are among those of the files there are.
LEMMA AfterEnts ==
  ASSUME Types, CompactionOK
  PROVE  Ents(After) \subseteq Ents(version)
<1>1. CASE compaction = None  BY <1>1 DEF After
<1>2. CASE compaction # None
  <2>1. /\ Ents(compaction.outputs) \subseteq Ents(compaction.inputs)
        /\ compaction.inputs \subseteq version
    BY <1>2 DEF CompactionOK
  <2> QED  BY <1>2, <2>1 DEF After, Ents
<1> QED  BY <1>1, <1>2

\* A read comes to the memtable's table before any other file that has one of its keys.
LEMMA MemTableOrdered ==
  ASSUME Types, CompactionOK, MemTablesAreNewer, NEW t \in File, t.entries = imm,
         t.level = 0 => \A f \in version : f.number < t.number,
         t.level # 0 =>
             \E low, high \in Int :
               /\ \A e \in imm : low <= Key(e) /\ Key(e) <= high
               /\ \A f \in version : f.level <= t.level => ~ Reaches(f, low, high),
         NEW g \in version \cup After
  PROVE  InOrder(t, g) /\ InOrder(g, t)
<1> SUFFICES ASSUME NEW d \in imm, NEW e \in g.entries, Key(d) = Key(e)
             PROVE  Newer(t, g) /\ d > e
  BY DEF InOrder
<1>1. e \in Ents(version)  BY AfterEnts DEF Ents
<1>2. d > e  BY <1>1 DEF MemTablesAreNewer
<1>3. t.level \in Nat /\ g.level \in Nat
  BY AfterFilesOK DEF File, Types, FilesOK
<1>4. PICK h \in version : e \in h.entries /\ h.level <= g.level /\ (g.level = 0 => h = g)
  <2>1. CASE g \in version  BY <1>3, <2>1
  <2>2. CASE g \notin version
    <3>1. compaction # None /\ g \in compaction.outputs  BY <2>2 DEF After
    <3>2. PICK l \in 0..(NumLevels - 2) :
            /\ \A f \in compaction.inputs : f.level \in {l, l + 1}
            /\ \A f \in compaction.outputs : f.level = l + 1
      BY <3>1 DEF CompactionOK
    <3>3. compaction.inputs \subseteq version /\ e \in Ents(compaction.inputs)
      BY <3>1 DEF CompactionOK, Ents
    <3>4. PICK h \in compaction.inputs : e \in h.entries  BY <3>3 DEF Ents
    <3>5. h.level <= g.level /\ g.level # 0  BY <3>1, <3>2, <3>4
    <3> QED  BY <3>3, <3>4, <3>5
  <2> QED  BY <2>1, <2>2
<1>5. CASE t.level = 0
  <2>1. g.level = 0 => g.number < t.number  BY <1>4, <1>5
  <2> QED  BY <1>2, <1>3, <1>5, <2>1 DEF Newer
<1>6. CASE t.level # 0
  <2>1. PICK low \in Int, high \in Int :
               /\ \A a \in imm : low <= Key(a) /\ Key(a) <= high
               /\ \A f \in version : f.level <= t.level => ~ Reaches(f, low, high)
    BY <1>6
  <2>2. Reaches(h, low, high)  BY <1>4, <2>1 DEF Reaches
  <2>3. ~ (h.level <= t.level) /\ h.level \in Nat  BY <1>4, <2>1, <2>2 DEF Types, FilesOK, File
  <2>4. t.level < g.level  BY <1>3, <1>4, <2>3
  <2> QED  BY <1>2, <2>4 DEF Newer
<1> QED  BY <1>5, <1>6

------------------------------------------------------------------------------
(***************************************************************************)
(* The entries that are dropped.                                           *)
(***************************************************************************)
\* The last number of a sequence of writes, and the smallest of it and some numbers
\* up to it.
LEMMA SmallestOf ==
  ASSUME NEW R, NEW h \in Seq(R), NEW S \in SUBSET (0..Len(h))
  PROVE  /\ Max({0} \cup DOMAIN h) = Len(h)
         /\ Min(S \cup {Len(h)}) \in S \cup {Len(h)}
         /\ \A s \in S \cup {Len(h)} : Min(S \cup {Len(h)}) <= s
<1>1. DOMAIN h = 1..Len(h) /\ Len(h) \in Nat  OBVIOUS
<1>2. {0} \cup DOMAIN h = 0..Len(h)  BY <1>1
<1>3. IsFiniteSet(0..Len(h)) /\ 0..Len(h) \in SUBSET Int /\ 0..Len(h) # {}
  <2> DEFINE n == Len(h)
  <2>1. n \in Nat  BY <1>1
  <2> HIDE DEF n
  <2>2. IsFiniteSet(0..n)  BY <2>1, FS_Interval
  <2>3. 0 \in 0..n /\ \A i \in 0..n : i \in Int  BY <2>1
  <2>4. 0..n \in SUBSET Int /\ 0..n # {}
    <3> DEFINE all == 0..n
    <3> HIDE DEF all
    <3>1. 0 \in all /\ \A i \in all : i \in Int  BY <2>3 DEF all
    <3>2. all \in SUBSET Int /\ all # {}  BY <3>1
    <3> QED  BY <3>2 DEF all
  <2> QED  BY <2>2, <2>4 DEF n
<1>4. Max(0..Len(h)) \in 0..Len(h) /\ \A n \in 0..Len(h) : n <= Max(0..Len(h))
  BY <1>3, MinMaxIs
<1>5. Len(h) \in 0..Len(h)  BY <1>1
<1>6. Max(0..Len(h)) = Len(h)  BY <1>1, <1>4, <1>5
<1>7. /\ S \cup {Len(h)} \in SUBSET Int /\ S \cup {Len(h)} # {}
      /\ S \cup {Len(h)} \subseteq 0..Len(h)
  <2>1. S \subseteq 0..Len(h)  OBVIOUS
  <2> DEFINE all == 0..Len(h)
  <2>2. Len(h) \in all /\ S \subseteq all /\ all \subseteq Int  BY <1>1, <1>5, <2>1
  <2> HIDE DEF all
  <2>3. S \cup {Len(h)} \subseteq all /\ S \cup {Len(h)} \subseteq Int  BY <2>2
  <2> QED  BY <2>3 DEF all
<1>8. IsFiniteSet(S \cup {Len(h)})  BY <1>3, <1>7, FS_Subset
<1>9. /\ Min(S \cup {Len(h)}) \in S \cup {Len(h)}
      /\ \A s \in S \cup {Len(h)} : Min(S \cup {Len(h)}) <= s
  BY <1>7, <1>8, MinMaxIs
<1>10. Max({0} \cup DOMAIN h) = Len(h)  BY <1>2, <1>6
<1> QED  BY <1>9, <1>10

\* The smallest snapshot is one of them, or the last write if there is none.
LEMMA SmallestSnapshotIs ==
  ASSUME Types
  PROVE  /\ SmallestSnapshot \in snapshots \cup {Len(history)}
         /\ \A s \in snapshots \cup {Len(history)} : SmallestSnapshot <= s
         /\ SmallestSnapshot \in 0..Len(history)
<1>1. /\ history \in Seq([key : Keys, deletion : BOOLEAN])
      /\ snapshots \in SUBSET (0..Len(history)) /\ Len(history) \in Nat
  BY KeysAre DEF Types
<1> DEFINE S == snapshots \cup {Len(history)}
<1>2. SmallestSnapshot = Min(S)  BY LastSequenceIs DEF SmallestSnapshot
<1>3. Min(S) \in S /\ \A s \in S : Min(S) <= s
  <2> DEFINE R == [key : Keys, deletion : BOOLEAN]
  <2> HIDE DEF R
  <2>1. history \in Seq(R)  BY <1>1 DEF R
  <2> QED  BY <1>1, <2>1, SmallestOf
<1>4. Len(history) \in 0..Len(history)  BY <1>1
<1> QED  BY <1>1, <1>2, <1>3, <1>4

\* A step that adds writes after the others and snapshots only at the end makes the
\* smallest snapshot no smaller.
LEMMA SmallestSnapshotGrows ==
  ASSUME Types, KeysStay, OtherTypes', snapshots' \subseteq snapshots \cup {Len(history)}
  PROVE  SmallestSnapshot <= SmallestSnapshot' /\ SmallestSnapshot' \in Int
<1> DEFINE R == [key : Keys, deletion : BOOLEAN]
<1>1. history' \in Seq(R) /\ snapshots' \in SUBSET (0..Len(history'))
  BY DEF OtherTypes
<1> HIDE DEF R
<1>2. /\ Max({0} \cup DOMAIN history') = Len(history')
      /\ Min(snapshots' \cup {Len(history')}) \in snapshots' \cup {Len(history')}
  BY <1>1, SmallestOf
<1>3. SmallestSnapshot' = Min(snapshots' \cup {Len(history')})
  BY <1>2 DEF SmallestSnapshot, LastSequence
<1>4. SmallestSnapshot' \in snapshots \cup {Len(history), Len(history')}
  BY <1>2, <1>3
<1>5. /\ \A s \in snapshots \cup {Len(history)} : SmallestSnapshot <= s /\ s \in Int
      /\ SmallestSnapshot \in Int
  BY SmallestSnapshotIs, KeysAre DEF Types
<1>6. Len(history) <= Len(history') /\ Len(history') \in Int /\ Len(history) \in Int
  BY KeysAre DEF KeysStay
<1>7. SmallestSnapshot <= Len(history)  BY <1>5
<1>8. SmallestSnapshot <= Len(history')  BY <1>5, <1>6, <1>7
<1> QED  BY <1>4, <1>5, <1>6, <1>8

\* What is complete stays so when later writes are added.
LEMMA CompleteStays ==
  ASSUME Types, KeysStay, SmallestSnapshot <= SmallestSnapshot', SmallestSnapshot' \in Int,
         NEW P \in SUBSET (1..Len(history)), Complete(P),
         NEW Q, Q = P \cup ((Len(history) + 1)..Len(history'))
  PROVE  Complete(Q)'
<1>1. Len(history) \in Nat /\ Len(history') \in Nat /\ Len(history) <= Len(history')
  BY KeysAre DEF KeysStay
<1>2. SmallestSnapshot \in Int  BY SmallestSnapshotIs
<1> SUFFICES ASSUME NEW e \in (1..Len(history')) \ Q
             PROVE  /\ e <= SmallestSnapshot'
                    /\ \/ \E d \in 1..Len(history') : Key(d)' = Key(e)' /\ d > e /\ d <= SmallestSnapshot'
                       \/ IsDeletion(e)' /\ \A d \in Q : Key(d)' = Key(e)' => d > e
  BY DEF Complete
<1>3. e \in (1..Len(history)) \ P  BY <1>1
<1>4. \A d \in 1..Len(history) : Key(d)' = Key(d) /\ IsDeletion(d)' = IsDeletion(d)
  BY DEF KeysStay
<1>5. e <= SmallestSnapshot  BY <1>3 DEF Complete
<1>6. e <= SmallestSnapshot'  BY <1>2, <1>3, <1>5
<1>7. CASE \E d \in 1..Len(history) : Key(d) = Key(e) /\ d > e /\ d <= SmallestSnapshot
  <2>1. PICK d \in 1..Len(history) : Key(d) = Key(e) /\ d > e /\ d <= SmallestSnapshot
    BY <1>7
  <2>2. d \in 1..Len(history') /\ d <= SmallestSnapshot'  BY <1>1, <1>2, <2>1
  <2> QED  BY <1>3, <1>4, <1>6, <2>1, <2>2
<1>8. CASE IsDeletion(e) /\ \A d \in P : Key(d) = Key(e) => d > e
  <2>1. ASSUME NEW d \in Q, Key(d)' = Key(e)' PROVE d > e
    <3>1. CASE d \in P  BY <1>3, <1>4, <1>8, <2>1, <3>1
    <3>2. CASE d \in (Len(history) + 1)..Len(history')  BY <1>1, <1>3, <3>2
    <3> QED  BY <3>1, <3>2
  <2> QED  BY <1>3, <1>4, <1>6, <1>8, <2>1
<1>9. \/ \E d \in 1..Len(history) : Key(d) = Key(e) /\ d > e /\ d <= SmallestSnapshot
      \/ IsDeletion(e) /\ \A d \in P : Key(d) = Key(e) => d > e
  BY <1>3 DEF Complete
<1> QED  BY <1>7, <1>8, <1>9

\* What a compaction drops is hidden, or hides nothing that is left.
LEMMA CompactionKeeps ==
  ASSUME Types, Ordered(version), MemTablesAreNewer,
         Complete(mem \cup imm \cup Ents(version)),
         NEW f \in version, NEW A \in SUBSET version, NEW B \in SUBSET version,
         NEW outs, Compacts(f, A, B, outs)
  PROVE  Complete(mem \cup imm \cup Ents((version \ (A \cup B)) \cup outs))
<1> DEFINE I == A \cup B
           E == Ents(I)
           P == mem \cup imm \cup Ents(version)
           rest == version \ I
           Q == mem \cup imm \cup Ents(rest \cup outs)
           l == f.level
<1>1. /\ f \in A /\ TwoLevels(A, B, l)
      /\ Ents(outs) = {e \in E : ~ Drops(l, E, e)}
  BY DEF Compacts
<1>2. /\ mem \subseteq 1..Len(history) /\ imm \subseteq 1..Len(history)
      /\ Ents(version) \subseteq 1..Len(history) /\ E \subseteq Ents(version)
      /\ Ents(rest) \subseteq Ents(version)
  BY DEF Types, FilesOK, Ents
<1>3. Ents(version) = Ents(rest) \cup E  BY DEF Ents
<1>4. Q = mem \cup imm \cup Ents(rest) \cup Ents(outs)  BY DEF Ents
<1> HIDE DEF E, Q
<1>5. Q \subseteq P  BY <1>1, <1>2, <1>4
<1>6. SUFFICES ASSUME NEW e \in (1..Len(history)) \ Q
               PROVE  /\ e <= SmallestSnapshot
                      /\ \/ \E d \in 1..Len(history) : Key(d) = Key(e) /\ d > e /\ d <= SmallestSnapshot
                         \/ IsDeletion(e) /\ \A d \in Q : Key(d) = Key(e) => d > e
  BY DEF Complete, Q
<1>7. SmallestSnapshot \in Int /\ e \in Nat  BY SmallestSnapshotIs
<1>8. CASE e \notin P
  <2>1. /\ e <= SmallestSnapshot
        /\ \/ \E d \in 1..Len(history) : Key(d) = Key(e) /\ d > e /\ d <= SmallestSnapshot
           \/ IsDeletion(e) /\ \A d \in P : Key(d) = Key(e) => d > e
    <3> HIDE DEF P
    <3>1. Complete(P)  BY DEF P
    <3> QED  BY <1>6, <1>8, <3>1 DEF Complete
  <2> QED  BY <1>5, <2>1
<1>9. CASE e \in P
  <2>1. e \in E /\ Drops(l, E, e)  BY <1>1, <1>3, <1>4, <1>6, <1>9
  <2>2. CASE \E d \in E : Key(d) = Key(e) /\ d > e /\ d <= SmallestSnapshot
    <3>1. PICK d \in E : Key(d) = Key(e) /\ d > e /\ d <= SmallestSnapshot  BY <2>2
    <3>2. d \in 1..Len(history)  BY <1>2
    <3>3. e <= SmallestSnapshot  BY <1>7, <3>1, <3>2
    <3> QED  BY <3>1, <3>2, <3>3
  <2>3. CASE IsDeletion(e) /\ e <= SmallestSnapshot /\ IsBaseLevelForKey(l, Key(e))
    <3>1. SUFFICES ASSUME NEW d \in Q, Key(d) = Key(e), ~ (d > e) PROVE FALSE
      BY <2>3
    <3>2. d \in Nat /\ d < e  BY <1>2, <1>5, <1>6, <1>7, <3>1
    <3>3. d \notin mem \cup imm  BY <1>2, <2>1, <3>1 DEF MemTablesAreNewer
    <3>4. CASE d \in Ents(rest)
      <4>1. PICK g \in rest : d \in g.entries  BY <3>4 DEF Ents
      <4>2. PICK h \in A \cup B : e \in h.entries  BY <2>1 DEF Ents, E
      <4>3. g \in version /\ h \in version /\ g # h  BY <4>1, <4>2
      <4>4. Newer(h, g)  BY <3>1, <4>1, <4>2, <4>3 DEF Ordered, InOrder
      <4>5. l \in Nat  BY DEF Types, FilesOK, File
      <4>6. g.level > l + 1 /\ g.level \in Nat
        <5>1. g \in version \ (A \cup B)  BY <4>1
        <5>2. g.level > l + 1  BY <1>1, <3>1, <4>1, <4>2, <4>4, <4>5, <5>1, LeftAreBelow
        <5> QED  BY <4>3, <5>2 DEF Types, FilesOK, File
      <4>7. SmallestKey(g) <= Key(d) /\ Key(d) <= LargestKey(g)  BY <4>1, <4>3, ZeroFileIs
      <4>8. g.level >= l + 2  BY <4>5, <4>6
      <4> QED  BY <2>3, <3>1, <4>3, <4>7, <4>8 DEF IsBaseLevelForKey
    <3>5. CASE d \in Ents(outs)
      <4>1. d \in E /\ ~ Drops(l, E, d)  BY <1>1, <3>5
      <4>2. Key(e) = Key(d) /\ e > d /\ e <= SmallestSnapshot  BY <1>7, <2>3, <3>1, <3>2
      <4> QED  BY <2>1, <4>1, <4>2 DEF Drops
    <3> QED  BY <1>4, <3>1, <3>3, <3>4, <3>5
  <2> QED  BY <2>1, <2>2, <2>3 DEF Drops
<1> QED  BY <1>8, <1>9

------------------------------------------------------------------------------
(***************************************************************************)
(* The steps keep what is read.                                            *)
(***************************************************************************)
\* The entries that are somewhere, and those that will be.
Present == mem \cup imm \cup Ents(version)
Kept    == mem \cup imm \cup Ents(After)

\* What is shown of the new files in the old state, when nothing is written.
LEMMA ReadingLifted ==
  ASSUME Types, KeysStay, Types', history' = history,
         snapshots' \subseteq snapshots \cup {Len(history)},
         NEW v, FilesOK(v), Ordered(v), version' = v,
         NEW w, FilesOK(w), Ordered(w), After' = w,
         NEW P \in SUBSET (1..Len(history)), Complete(P), Present' = P,
         NEW Q \in SUBSET (1..Len(history)), Complete(Q), Kept' = Q,
         MemTablesAreNewer'
  PROVE  Reading'
<1>1. Ordered(version)' /\ Ordered(After)'  BY OrderLifted
<1>2. OtherTypes'  BY DEF Types, OtherTypes
<1>3. SmallestSnapshot <= SmallestSnapshot' /\ SmallestSnapshot' \in Int
  BY <1>2, SmallestSnapshotGrows
<1>4. (Len(history) + 1)..Len(history') = {}  BY KeysAre
<1>5. Complete(P)' /\ Complete(Q)'
  <2>1. P = P \cup ((Len(history) + 1)..Len(history'))  BY <1>4
  <2>2. Q = Q \cup ((Len(history) + 1)..Len(history'))  BY <1>4
  <2> QED  BY <1>3, <2>1, <2>2, CompleteStays
<1>6. Complete(mem \cup imm \cup Ents(version))' /\ Complete(mem \cup imm \cup Ents(After))'
  BY <1>5 DEF Complete, Present, Kept
<1> QED  BY <1>1, <1>6 DEF Reading

\* All there is was written.
LEMMA PresentIs ==
  ASSUME Types, CompactionOK
  PROVE  /\ Present \in SUBSET (1..Len(history)) /\ Kept \in SUBSET (1..Len(history))
         /\ Ents(version) \subseteq 1..Len(history) /\ Ents(After) \subseteq Ents(version)
<1>1. Ents(version) \subseteq 1..Len(history)  BY DEF Types, FilesOK, Ents
<1> QED  BY <1>1, AfterEnts DEF Present, Kept, Types

\* The pieces of the invariant.
LEMMA ReadingHas ==
  ASSUME Shape, Reading
  PROVE  /\ Types /\ CompactionOK /\ FilesOK(version) /\ FilesOK(After)
         /\ Ordered(version) /\ Ordered(After) /\ MemTablesAreNewer
         /\ Complete(Present) /\ Complete(Kept)
         /\ Present \in SUBSET (1..Len(history)) /\ Kept \in SUBSET (1..Len(history))
         /\ Ents(version) \subseteq 1..Len(history) /\ Ents(After) \subseteq Ents(version)
<1>1. Types /\ CompactionOK  BY DEF Shape
<1>2. FilesOK(version) /\ FilesOK(After)  BY <1>1, AfterFilesOK DEF Types
<1>3. Complete(Present) /\ Complete(Kept)  BY DEF Reading, Present, Kept
<1> QED  BY <1>1, <1>2, <1>3, PresentIs DEF Reading

\* A write adds the newest entry.
LEMMA WriteReading ==
  ASSUME Shape, Shape', Reading, KeysStay, NEW k \in Keys, NEW deletion \in BOOLEAN,
         Write(k, deletion)
  PROVE  Reading'
<1>1. /\ Types /\ CompactionOK /\ FilesOK(version) /\ FilesOK(After)
      /\ Ordered(version) /\ Ordered(After) /\ MemTablesAreNewer
      /\ Complete(Present) /\ Complete(Kept)
      /\ Present \in SUBSET (1..Len(history)) /\ Kept \in SUBSET (1..Len(history))
      /\ Ents(version) \subseteq 1..Len(history)
  BY ReadingHas
<1>2. Len(history') = Len(history) + 1 /\ Len(history) \in Nat  BY <1>1, WriteShape, KeysAre
<1>3. mem' = mem \cup {Len(history) + 1} /\ UNCHANGED <<imm, version, snapshots, compaction>>
  BY <1>1, LastSequenceIs DEF Write
<1>4. PICK v, w : v = version /\ w = After  OBVIOUS
<1>5. version' = v /\ After' = w  BY <1>3, <1>4 DEF After
<1>6. Ordered(version)' /\ Ordered(After)'  BY <1>1, <1>4, <1>5, OrderLifted
<1>7. SmallestSnapshot <= SmallestSnapshot' /\ SmallestSnapshot' \in Int
  <2>1. OtherTypes'  BY DEF Shape, Types, OtherTypes
  <2> QED  BY <1>1, <1>3, <2>1, SmallestSnapshotGrows
<1>8. (Len(history) + 1)..Len(history') = {Len(history) + 1}  BY <1>2
<1> DEFINE new == (Len(history) + 1)..Len(history')
<1>9. Present' = Present \cup new
  BY <1>3, <1>8 DEF Present, Ents
<1>10. Kept' = Kept \cup new
  BY <1>3, <1>4, <1>5, <1>8 DEF Kept, Ents
<1>11. PICK P, Q, Pn, Qn : /\ P = Present /\ Q = Kept
                           /\ Pn = P \cup new /\ Qn = Q \cup new
  OBVIOUS
<1>12. Complete(Pn)' /\ Complete(Qn)'
  BY <1>1, <1>7, <1>11, CompleteStays
<1>13. Complete(mem \cup imm \cup Ents(version))' /\ Complete(mem \cup imm \cup Ents(After))'
  <2>1. Pn = Present' /\ Qn = Kept'  BY <1>9, <1>10, <1>11
  <2> QED  BY <1>12, <2>1 DEF Complete, Present, Kept
<1>14. MemTablesAreNewer'
  <2>1. mem \subseteq 1..Len(history) /\ imm \subseteq 1..Len(history)  BY <1>1 DEF Types
  <2>2. Ents(version)' = Ents(version)  BY <1>3 DEF Ents
  <2>3. \A e \in 1..Len(history) : Len(history) + 1 > e  BY <1>2
  <2> QED  BY <1>1, <1>3, <2>1, <2>2, <2>3 DEF MemTablesAreNewer
<1> QED  BY <1>6, <1>13, <1>14 DEF Reading

\* Nothing that is read is touched.
LEMMA SmallReading ==
  ASSUME Shape, Shape', Reading, KeysStay,
         \/ GetSnapshot \/ (\E s \in snapshots : ReleaseSnapshot(s)) \/ SwitchMemTable
         \/ UNCHANGED vars
  PROVE  Reading'
<1>1. /\ Types /\ CompactionOK /\ FilesOK(version) /\ FilesOK(After)
      /\ Ordered(version) /\ Ordered(After) /\ MemTablesAreNewer
      /\ Complete(Present) /\ Complete(Kept)
      /\ Present \in SUBSET (1..Len(history)) /\ Kept \in SUBSET (1..Len(history))
  BY ReadingHas
<1>2. history' = history /\ version' = version /\ compaction' = compaction
  BY DEF GetSnapshot, ReleaseSnapshot, SwitchMemTable, vars
<1>3. PICK v, w : v = version /\ w = After  OBVIOUS
<1>4. version' = v /\ After' = w  BY <1>2, <1>3 DEF After
<1>5. \/ mem' = mem /\ imm' = imm
      \/ mem' = {} /\ imm' = mem /\ imm = {}
  BY DEF GetSnapshot, ReleaseSnapshot, SwitchMemTable, vars
<1>6. PICK P, Q : P = Present /\ Q = Kept  OBVIOUS
<1>7. Present' = P  BY <1>2, <1>5, <1>6 DEF Present, Ents
<1>8. Kept' = Q  BY <1>3, <1>4, <1>5, <1>6 DEF Kept, Ents
<1>9. MemTablesAreNewer'
  <2>1. Ents(version)' = Ents(version)  BY <1>2 DEF Ents
  <2> QED  BY <1>1, <1>5, <2>1 DEF MemTablesAreNewer
<1>10. snapshots' \subseteq snapshots \cup {Len(history)}
  BY <1>1, LastSequenceIs DEF GetSnapshot, ReleaseSnapshot, SwitchMemTable, vars
<1>11. Types'  BY DEF Shape
<1> QED
  BY <1>1, <1>2, <1>3, <1>4, <1>6, <1>7, <1>8, <1>9, <1>10, <1>11, ReadingLifted

\* The memtable's file is read before the files that have a key of it, those of the
\* compaction under way too.
LEMMA CompactMemTableReading ==
  ASSUME Shape, Shape', Reading, KeysStay, CompactMemTable
  PROVE  Reading'
<1>1. /\ Types /\ CompactionOK /\ FilesOK(version) /\ FilesOK(After)
      /\ Ordered(version) /\ Ordered(After) /\ MemTablesAreNewer
      /\ Complete(Present) /\ Complete(Kept)
      /\ Present \in SUBSET (1..Len(history)) /\ Kept \in SUBSET (1..Len(history))
  BY ReadingHas
<1>2. imm # {} /\ imm' = {} /\ UNCHANGED <<history, mem, snapshots, compaction, keySplit>>
  BY DEF CompactMemTable
<1>3. PICK t \in File :
        /\ version' = version \cup {t} /\ t.entries = imm
        /\ t.level = 0 => \A f \in version : f.number < t.number
        /\ t.level # 0 =>
             \E low, high \in Int :
               /\ \A e \in imm : low <= Key(e) /\ Key(e) <= high
               /\ \A f \in version : f.level <= t.level => ~ Reaches(f, low, high)
  BY <1>1, MemTableFileIs
<1>4. \A g \in version \cup After : InOrder(t, g) /\ InOrder(g, t)
  BY <1>1, <1>3, MemTableOrdered
<1>5. PICK v, w : v = version \cup {t} /\ w = After \cup {t}  OBVIOUS
<1>6. Ordered(v) /\ Ordered(w)  BY <1>1, <1>4, <1>5 DEF Ordered
<1>7. FilesOK(v) /\ FilesOK(w)
  <2>1. imm \subseteq 1..Len(history)  BY <1>1 DEF Types
  <2>2. FilesOK(version \cup {t}) /\ FilesOK(After \cup {t})
    BY <1>1, <1>2, <1>3, <2>1, AddedFilesOK
  <2> QED  BY <1>5, <2>2
<1>8. version' = v  BY <1>3, <1>5
<1>9. After' = w
  <2>1. t \notin version
    <3>1. SUFFICES ASSUME t \in version PROVE FALSE  OBVIOUS
    <3>2. PICK d \in imm : TRUE  BY <1>2
    <3>3. d \in Ents(version)  BY <1>3, <3>1, <3>2 DEF Ents
    <3>4. d \in Nat /\ d > d  BY <1>1, <3>2, <3>3 DEF MemTablesAreNewer, Types
    <3> QED  BY <3>4
  <2>2. CASE compaction = None  BY <1>2, <1>3, <1>5, <2>2 DEF After
  <2>3. CASE compaction # None
    <3>1. compaction.inputs \subseteq version  BY <1>1, <2>3 DEF CompactionOK
    <3>2. (version \cup {t}) \ compaction.inputs = (version \ compaction.inputs) \cup {t}
      BY <2>1, <3>1
    <3>3. After' = ((version \cup {t}) \ compaction.inputs) \cup compaction.outputs
      BY <1>2, <1>3, <2>3 DEF After
    <3>4. After = (version \ compaction.inputs) \cup compaction.outputs  BY <2>3 DEF After
    <3> QED  BY <1>5, <3>2, <3>3, <3>4
  <2> QED  BY <2>2, <2>3
<1>10. PICK P, Q : P = Present /\ Q = Kept  OBVIOUS
<1>11. Ents(version)' = Ents(version) \cup imm /\ Ents(After)' = Ents(After) \cup imm
  <2>1. Ents(version \cup {t}) = Ents(version) \cup imm  BY <1>3 DEF Ents
  <2>2. Ents(After \cup {t}) = Ents(After) \cup imm  BY <1>3 DEF Ents
  <2> QED  BY <1>5, <1>8, <1>9, <2>1, <2>2 DEF Ents
<1>12. Present' = P /\ Kept' = Q  BY <1>2, <1>10, <1>11 DEF Present, Kept
<1>13. MemTablesAreNewer'  BY <1>1, <1>2, <1>11 DEF MemTablesAreNewer
<1>14. Types'  BY DEF Shape
<1> QED
  BY <1>1, <1>2, <1>6, <1>7, <1>8, <1>9, <1>10, <1>12, <1>13, <1>14, ReadingLifted

\* A file moved to the next level is still read after what is newer and before what is
\* older.
LEMMA MoveFileReading ==
  ASSUME Shape, Shape', Reading, KeysStay, NEW f \in version, f.level < NumLevels - 1,
         MoveFile(f)
  PROVE  Reading'
<1>1. /\ Types /\ CompactionOK /\ FilesOK(version)
      /\ Ordered(version) /\ MemTablesAreNewer
      /\ Complete(Present) /\ Present \in SUBSET (1..Len(history))
  BY ReadingHas
<1>2. /\ compaction = None
      /\ UNCHANGED <<history, mem, imm, snapshots, compaction, keySplit>>
  BY <1>1, MoveIs
<1>3. PICK B \in SUBSET version, t \in File :
        /\ version' = (version \ ({f} \cup B)) \cup {t}
        /\ {f} \cup B = {f} /\ TwoLevels({f}, B, f.level)
        /\ t.level = f.level + 1 /\ t.entries = f.entries
  BY <1>1, MoveIs
<1>4. f.level \in Nat  BY <1>1 DEF Types, FilesOK, File
<1> DEFINE v == (version \ ({f} \cup B)) \cup {t}
<1>5. Ordered(v)
  <2> DEFINE A == {f}
             outs == {t}
  <2>1. A \in SUBSET version /\ TwoLevels(A, B, f.level)  BY <1>3
  <2>2. \A o \in outs : o.level = f.level + 1 /\ o.entries \subseteq Ents(A \cup B)
    BY <1>3 DEF Ents
  <2>3. \A o, p \in outs : o # p => NoSharedKey(o.entries, p.entries)  OBVIOUS
  <2> HIDE DEF A, outs
  <2>4. Ordered((version \ (A \cup B)) \cup outs)
    BY <1>1, <1>4, <2>1, <2>2, <2>3, ReplacedOrdered
  <2> QED  BY <2>4 DEF A, outs
<1>6. Ents(v) = Ents(version)
  <2>1. v = (version \ {f}) \cup {t}  BY <1>3
  <2> HIDE DEF v
  <2> QED  BY <1>3, <2>1 DEF Ents
<1>7. PICK w : w = v  OBVIOUS
<1>8. version' = w /\ After' = w  BY <1>2, <1>3, <1>7 DEF After
<1>9. FilesOK(w)
  <2>1. f.entries # {} /\ f.entries \subseteq 1..Len(history)  BY <1>1 DEF FilesOK
  <2>2. IsFiniteSet({t})  BY FS_Singleton
  <2>3. \A o \in {t} : o \in File /\ o.entries # {} /\ o.entries \subseteq 1..Len(history)
    BY <1>3, <2>1
  <2>4. FilesOK(v)  BY <1>1, <2>2, <2>3, ReplacedFilesOK
  <2> QED  BY <1>7, <2>4
<1>10. Ordered(w)  BY <1>5, <1>7
<1>11. Ents(version)' = Ents(version) /\ Ents(After)' = Ents(version)
  BY <1>6, <1>7, <1>8 DEF Ents
<1>12. PICK P : P = Present  OBVIOUS
<1>13. Present' = P /\ Kept' = P  BY <1>2, <1>11, <1>12 DEF Present, Kept
<1>14. MemTablesAreNewer'  BY <1>1, <1>2, <1>11 DEF MemTablesAreNewer
<1>15. Types'  BY DEF Shape
<1> QED
  BY <1>1, <1>2, <1>8, <1>9, <1>10, <1>12, <1>13, <1>14, <1>15, ReadingLifted

\* What is dropped is hidden or hides nothing, and the files written stand where their
\* entries stood.
LEMMA DoCompactionWorkReading ==
  ASSUME Shape, Shape', Reading, KeysStay, NEW f \in version, f.level < NumLevels - 1,
         DoCompactionWork(f), ~ keySplit'
  PROVE  Reading'
<1>1. /\ Types /\ CompactionOK /\ FilesOK(version)
      /\ Ordered(version) /\ MemTablesAreNewer
      /\ Complete(Present) /\ Present \in SUBSET (1..Len(history))
      /\ Ents(version) \subseteq 1..Len(history)
  BY ReadingHas
<1>2. UNCHANGED <<history, mem, imm, version, snapshots>>  BY <1>1, CompactionIs
<1>3. PICK A \in SUBSET version, B \in SUBSET version, outs \in SUBSET File :
        /\ compaction' = [inputs |-> A \cup B, outputs |-> outs]
        /\ Compacts(f, A, B, outs) /\ IsFiniteSet(outs)
        /\ \A o, p \in outs : o # p => NoSharedKey(o.entries, p.entries)
  BY <1>1, CompactionIs
<1>4. f.level \in Nat  BY <1>1 DEF FilesOK, File
<1>5. /\ f \in A /\ TwoLevels(A, B, f.level) /\ Ents(outs) \subseteq Ents(A \cup B)
      /\ \A o \in outs : o \in File /\ o.level = f.level + 1 /\ o.entries # {}
  BY <1>3 DEF Compacts
<1>6. \A o \in outs : o.entries \subseteq Ents(A \cup B)  BY <1>5 DEF Ents
<1>7. Ents(A \cup B) \subseteq Ents(version)  BY DEF Ents
<1> DEFINE w == (version \ (A \cup B)) \cup outs
<1>8. Ordered(w)  BY <1>1, <1>3, <1>4, <1>5, <1>6, ReplacedOrdered
<1>9. FilesOK(w)
  <2>1. \A o \in outs : o \in File /\ o.entries # {} /\ o.entries \subseteq 1..Len(history)
    BY <1>1, <1>5, <1>6, <1>7
  <2> QED  BY <1>1, <1>3, <2>1, ReplacedFilesOK
<1>10. Complete(mem \cup imm \cup Ents(w))
  <2>1. Complete(mem \cup imm \cup Ents(version))  BY <1>1 DEF Present
  <2> QED  BY <1>1, <1>3, <2>1, CompactionKeeps
<1>11. compaction' # None
  <2>1. version \subseteq File  BY <1>1 DEF FilesOK
  <2>2. compaction' \in [inputs : SUBSET File, outputs : SUBSET File]  BY <1>3, <2>1
  <2> QED  BY <2>2, LevelsAssumption
<1>12. PICK v, x : v = version /\ x = w  OBVIOUS
<1>13. version' = v  BY <1>2, <1>12
<1>14. After' = x  BY <1>2, <1>3, <1>11, <1>12 DEF After
<1>15. PICK P, Q : P = Present /\ Q = mem \cup imm \cup Ents(w)  OBVIOUS
<1>16. Present' = P  BY <1>2, <1>15 DEF Present, Ents
<1>17. Kept' = Q  BY <1>2, <1>12, <1>14, <1>15 DEF Kept, Ents
<1>18. Q \in SUBSET (1..Len(history))
  <2>1. Ents(w) \subseteq Ents(version)  BY <1>5, <1>7 DEF Ents
  <2> HIDE DEF w
  <2> QED  BY <1>1, <1>15, <2>1 DEF Types
<1>19. MemTablesAreNewer'
  <2>1. Ents(version)' = Ents(version)  BY <1>2 DEF Ents
  <2> QED  BY <1>1, <1>2, <2>1 DEF MemTablesAreNewer
<1>20. Types'  BY DEF Shape
<1> HIDE DEF w
<1>21. Ordered(x) /\ FilesOK(x) /\ Ordered(v) /\ FilesOK(v) /\ Complete(P) /\ Complete(Q)
  BY <1>1, <1>8, <1>9, <1>10, <1>12, <1>15
<1>22. P \in SUBSET (1..Len(history))  BY <1>1, <1>15
<1>23. snapshots' \subseteq snapshots \cup {Len(history)}  BY <1>2
<1> QED
  BY <1>1, <1>2, <1>13, <1>14, <1>16, <1>17, <1>18, <1>19, <1>20, <1>21, <1>22, <1>23, ReadingLifted

\* The files that there were to be are there.
LEMMA InstallReading ==
  ASSUME Shape, Shape', Reading, KeysStay, InstallCompactionResults
  PROVE  Reading'
<1>1. /\ Types /\ CompactionOK /\ FilesOK(After) /\ Ordered(After) /\ MemTablesAreNewer
      /\ Complete(Kept) /\ Kept \in SUBSET (1..Len(history))
      /\ Ents(After) \subseteq Ents(version)
  BY ReadingHas
<1>2. /\ compaction # None /\ compaction' = None /\ version' = After
      /\ UNCHANGED <<history, mem, imm, snapshots, keySplit>>
  BY DEF InstallCompactionResults, After
<1>3. PICK w, Q : w = After /\ Q = Kept  OBVIOUS
<1>4. version' = w /\ After' = w  BY <1>2, <1>3 DEF After
<1>5. Ents(version)' = Ents(After) /\ Ents(After)' = Ents(After)  BY <1>3, <1>4 DEF Ents
<1>6. Present' = Q /\ Kept' = Q  BY <1>2, <1>3, <1>5 DEF Present, Kept
<1>7. MemTablesAreNewer'  BY <1>1, <1>2, <1>5 DEF MemTablesAreNewer
<1>8. Types'  BY DEF Shape
<1> QED  BY <1>1, <1>2, <1>3, <1>4, <1>6, <1>7, <1>8, ReadingLifted

\* The log of mem becomes a newer file than that of imm, and both are newer than the rest.
LEMMA RecoverReading ==
  ASSUME Shape, Shape', Reading, KeysStay, Recover
  PROVE  Reading'
<1>1. /\ Types /\ CompactionOK /\ FilesOK(version)
      /\ Ordered(version) /\ MemTablesAreNewer
      /\ Complete(Present) /\ Present \in SUBSET (1..Len(history))
  BY ReadingHas
<1>2. /\ mem' = {} /\ imm' = {} /\ snapshots' = {} /\ compaction' = None
      /\ UNCHANGED <<history, keySplit>>
  BY DEF Recover
<1>3. PICK ti \in File, tm \in File, new \in SUBSET File :
           /\ version' = version \cup new /\ new \subseteq {ti, tm}
           /\ ti \in new <=> imm # {}
           /\ tm \in new <=> mem # {}
           /\ ti.level = 0 /\ ti.entries = imm /\ tm.level = 0 /\ tm.entries = mem
           /\ imm # {} => ti.number < tm.number
           /\ \A g \in version : g.number < ti.number /\ g.number < tm.number
  BY <1>1, RecoveredFilesAre
<1>4. \A g \in version : g.level \in Nat /\ g.number \in Nat  BY <1>1 DEF FilesOK, File
<1>5. ti.number \in Nat /\ tm.number \in Nat  BY DEF File
<1>6. ASSUME NEW g \in version
      PROVE  InOrder(ti, g) /\ InOrder(g, ti) /\ InOrder(tm, g) /\ InOrder(g, tm)
  <2>1. Newer(ti, g) /\ Newer(tm, g)
    <3>1. g.number < ti.number /\ g.number < tm.number  BY <1>3
    <3> QED  BY <1>3, <1>4, <3>1 DEF Newer
  <2>2. \A d \in mem \cup imm, e \in g.entries : d > e  BY <1>1 DEF MemTablesAreNewer, Ents
  <2> QED  BY <1>3, <2>1, <2>2 DEF InOrder
<1>7. InOrder(ti, tm) /\ InOrder(tm, ti)
  <2>1. imm # {} => Newer(tm, ti)  BY <1>3 DEF Newer
  <2>2. \A d \in mem, e \in imm : d > e  BY <1>1 DEF MemTablesAreNewer
  <2> QED  BY <1>3, <2>1, <2>2 DEF InOrder
<1> DEFINE w == version \cup new
<1>8. Ordered(w)  BY <1>1, <1>3, <1>6, <1>7 DEF Ordered
<1>9. PICK v : v = w  OBVIOUS
<1>10. version' = v /\ After' = v  BY <1>2, <1>3, <1>9 DEF After
<1>11. FilesOK(v)
  <2>1. FilesOK(version)' /\ history' = history  BY <1>2 DEF Shape, Types
  <2> QED  BY <1>10, <2>1 DEF FilesOK
<1>12. Ents(w) = Present
  <2>1. Ents(new) = mem \cup imm
    <3>1. \A g \in new : g = ti \/ g = tm  BY <1>3
    <3> QED  BY <1>3, <3>1 DEF Ents
  <2> QED  BY <2>1 DEF Present, Ents
<1>13. PICK P : P = Present  OBVIOUS
<1>14. Present' = P /\ Kept' = P
  <2>1. Ents(version)' = Ents(w) /\ Ents(After)' = Ents(w)  BY <1>9, <1>10 DEF Ents
  <2> HIDE DEF w
  <2> QED  BY <1>2, <1>12, <1>13, <2>1 DEF Present, Kept
<1>15. MemTablesAreNewer'  BY <1>2 DEF MemTablesAreNewer
<1>16. Types'  BY DEF Shape
<1>17. Ordered(v) /\ Complete(P) /\ P \in SUBSET (1..Len(history))  BY <1>1, <1>8, <1>9, <1>13
<1>18. snapshots' \subseteq snapshots \cup {Len(history)}  BY <1>2
<1> QED
  BY <1>1, <1>2, <1>10, <1>11, <1>14, <1>15, <1>16, <1>17, <1>18, ReadingLifted

------------------------------------------------------------------------------
(***************************************************************************)
(* Reads.                                                                  *)
(***************************************************************************)
\* The entries of a key that a snapshot sees.
Seen(S, k, s) == {e \in S : Key(e) = k /\ e <= s}

\* The newest of them, 0 if there is none.
LEMMA NewestIs ==
  ASSUME Types, NEW S \in SUBSET (1..Len(history)), NEW k, NEW s
  PROVE  /\ Newest(S, k, s) \in Seen(S, k, s) \cup {0}
         /\ \A e \in Seen(S, k, s) : e \in Nat /\ e # 0 /\ e <= Newest(S, k, s)
         /\ Newest(S, k, s) \in 0..Len(history)
<1> DEFINE N == Seen(S, k, s) \cup {0}
<1>1. Len(history) \in Nat  BY KeysAre
<1>2. Newest(S, k, s) = Max(N)  BY DEF Newest, Seen
<1>3. Seen(S, k, s) \subseteq 1..Len(history)  BY DEF Seen
<1>4. N \subseteq 0..Len(history) /\ N # {} /\ N \in SUBSET Int  BY <1>1, <1>3
<1>5. IsFiniteSet(N)
  <2>1. IsFiniteSet(0..Len(history))  BY <1>1, FS_Interval
  <2> QED  BY <1>4, <2>1, FS_Subset
<1>6. Max(N) \in N /\ \A n \in N : n <= Max(N)
  <2> HIDE DEF N
  <2> QED  BY <1>4, <1>5, MinMaxIs
<1>7. \A e \in Seen(S, k, s) : e \in N /\ e \in Nat /\ e # 0  BY <1>1, <1>3
<1> HIDE DEF N
<1> QED  BY <1>2, <1>4, <1>6, <1>7 DEF N

\* Which one it is.
LEMMA NewestIsUnique ==
  ASSUME Types, NEW S \in SUBSET (1..Len(history)), NEW k, NEW s, NEW n,
         \/ n \in Seen(S, k, s) /\ \A e \in Seen(S, k, s) : e <= n
         \/ n = 0 /\ Seen(S, k, s) = {}
  PROVE  Newest(S, k, s) = n
<1>1. /\ Newest(S, k, s) \in Seen(S, k, s) \cup {0}
      /\ \A e \in Seen(S, k, s) : e \in Nat /\ e # 0 /\ e <= Newest(S, k, s)
      /\ Newest(S, k, s) \in 0..Len(history)
  BY NewestIs
<1>2. CASE n = 0 /\ Seen(S, k, s) = {}  BY <1>1, <1>2
<1>3. CASE n \in Seen(S, k, s) /\ \A e \in Seen(S, k, s) : e <= n
  <2>1. n \in Nat /\ n # 0 /\ n <= Newest(S, k, s)  BY <1>1, <1>3
  <2>2. Newest(S, k, s) \in Nat  BY <1>1, KeysAre
  <2>3. Newest(S, k, s) # 0  BY <2>1, <2>2
  <2>4. Newest(S, k, s) <= n  BY <1>1, <1>3, <2>3
  <2> QED  BY <2>1, <2>2, <2>4
<1> QED  BY <1>2, <1>3

\* The entries of a file and of a level were written.
LEMMA LevelEnts ==
  ASSUME Types
  PROVE  /\ \A f \in version : f.entries \in SUBSET (1..Len(history))
         /\ \A l : Ents(Level(l)) \in SUBSET (1..Len(history))
         /\ \A l : \A e : e \in Ents(Level(l)) <=> \E f \in version : f.level = l /\ e \in f.entries
BY DEF Types, FilesOK, Ents, Level

\* A read of level 0 finds the newest entry of the key there.
LEMMA InLevel0Is ==
  ASSUME Types, Ordered(version), NEW k \in Keys, NEW s
  PROVE  InLevel0(k, s) = Newest(Ents(Level(0)), k, s)
<1> DEFINE hits == {f \in Overlapping(0, k, k) : Newest(f.entries, k, s) # 0}
           T    == Ents(Level(0))
           best == CHOOSE f \in hits : \A g \in hits : g.number <= f.number
<1>1. InLevel0(k, s) = IF hits = {} THEN 0 ELSE Newest(best.entries, k, s)
  BY DEF InLevel0
<1>2. T \in SUBSET (1..Len(history))  BY LevelEnts
<1>3. \A f \in version : /\ f.entries \in SUBSET (1..Len(history))
                         /\ Newest(f.entries, k, s) # 0 => Seen(f.entries, k, s) # {}
                         /\ Seen(f.entries, k, s) # {} => Newest(f.entries, k, s) # 0
  <2> SUFFICES ASSUME NEW f \in version
               PROVE  /\ f.entries \in SUBSET (1..Len(history))
                      /\ Newest(f.entries, k, s) # 0 => Seen(f.entries, k, s) # {}
                      /\ Seen(f.entries, k, s) # {} => Newest(f.entries, k, s) # 0
    OBVIOUS
  <2>1. f.entries \in SUBSET (1..Len(history))  BY LevelEnts
  <2>2. /\ Newest(f.entries, k, s) \in Seen(f.entries, k, s) \cup {0}
        /\ \A e \in Seen(f.entries, k, s) : e \in Nat /\ e # 0 /\ e <= Newest(f.entries, k, s)
    BY <2>1, NewestIs
  <2>3. Seen(f.entries, k, s) # {} => Newest(f.entries, k, s) # 0
    <3>1. SUFFICES ASSUME NEW e \in Seen(f.entries, k, s), Newest(f.entries, k, s) = 0
                   PROVE  FALSE
      OBVIOUS
    <3>2. e \in Nat /\ e # 0 /\ e <= 0  BY <2>2, <3>1
    <3> QED  BY <3>2
  <2> QED  BY <2>1, <2>2, <2>3
<1>4. k \in Int  BY LevelsAssumption
<1>5. \A f \in Level(0) : f \in hits <=> Seen(f.entries, k, s) # {}
  <2> SUFFICES ASSUME NEW f \in Level(0)
               PROVE  f \in hits <=> Seen(f.entries, k, s) # {}
    OBVIOUS
  <2>1. f \in version  BY DEF Level
  <2>2. Seen(f.entries, k, s) # {} => f \in Overlapping(0, k, k)
    <3> SUFFICES ASSUME NEW e \in Seen(f.entries, k, s) PROVE f \in Overlapping(0, k, k)
      OBVIOUS
    <3>1. SmallestKey(f) <= Key(e) /\ Key(e) <= LargestKey(f)  BY <2>1, ZeroFileIs DEF Seen
    <3> QED  BY <3>1 DEF Overlapping, Seen
  <2> QED  BY <1>3, <2>1, <2>2
<1>6. hits \subseteq Level(0) /\ hits \subseteq version  BY DEF Overlapping, Level
<1>7. CASE hits = {}
  <2>1. Seen(T, k, s) = {}
    <3>1. SUFFICES ASSUME NEW e \in Seen(T, k, s) PROVE FALSE  OBVIOUS
    <3>2. PICK f \in Level(0) : e \in f.entries  BY <3>1 DEF Seen, Ents
    <3>3. e \in Seen(f.entries, k, s)  BY <3>1, <3>2 DEF Seen
    <3> QED  BY <1>5, <1>7, <3>2, <3>3
  <2> HIDE DEF T
  <2>2. Newest(T, k, s) = 0  BY <1>2, <2>1, NewestIsUnique
  <2> QED  BY <1>1, <1>7, <2>2 DEF T
<1>8. CASE hits # {}
  <2>1. best \in hits /\ \A g \in hits : g.number <= best.number
    <3> DEFINE numbers == {f.number : f \in hits}
               number  == [f \in hits |-> f.number]
    <3>1. IsFiniteSet(hits)  BY <1>6, FS_Subset DEF Types, FilesOK
    <3>2. number \in Surjection(hits, numbers)  BY DEF Surjection
    <3>3. IsFiniteSet(numbers)
      <4> HIDE DEF numbers, number, hits
      <4> QED  BY <3>1, <3>2, FS_Surjection
    <3>4. \A f \in hits : f.number \in Nat  BY <1>6 DEF Types, FilesOK, File
    <3>5. numbers \in SUBSET Int /\ numbers # {}  BY <1>8, <3>4
    <3>6. Max(numbers) \in numbers /\ \A n \in numbers : n <= Max(numbers)
      <4> HIDE DEF numbers
      <4> QED  BY <3>3, <3>5, MinMaxIs
    <3>7. \E f \in hits : \A g \in hits : g.number <= f.number
      <4>1. PICK f \in hits : f.number = Max(numbers)  BY <3>6
      <4>2. \A g \in hits : g.number \in numbers  OBVIOUS
      <4> HIDE DEF numbers
      <4> QED  BY <3>6, <4>1, <4>2
    <3> HIDE DEF hits
    <3> QED  BY <3>7
  <2> HIDE DEF best
  <2> DEFINE n == Newest(best.entries, k, s)
  <2>2. best \in version /\ best.level = 0 /\ n # 0  BY <1>6, <2>1 DEF Level
  <2>3. /\ n \in Seen(best.entries, k, s)
        /\ \A e \in Seen(best.entries, k, s) : e \in Nat /\ e # 0 /\ e <= n
    <3>1. best.entries \in SUBSET (1..Len(history))  BY <1>3, <2>2
    <3> QED  BY <2>2, <3>1, NewestIs
  <2> HIDE DEF n
  <2>4. n \in Seen(T, k, s)  BY <1>6, <2>1, <2>3 DEF Seen, Ents
  <2>5. ASSUME NEW e \in Seen(T, k, s) PROVE e <= n
    <3>1. PICK f \in Level(0) : e \in f.entries  BY <2>5 DEF Seen, Ents
    <3>2. e \in Seen(f.entries, k, s) /\ Key(e) = k /\ Key(n) = k  BY <2>3, <2>5, <3>1 DEF Seen
    <3>3. f \in hits /\ f \in version /\ f.level = 0  BY <1>5, <3>1, <3>2 DEF Level
    <3>4. f.number <= best.number /\ f.number \in Nat /\ best.number \in Nat
      BY <2>1, <2>2, <3>3 DEF Types, FilesOK, File
    <3>5. CASE f = best  BY <2>3, <3>2, <3>5
    <3>6. CASE f # best
      <4>1. n \in best.entries /\ e \in f.entries /\ n \in Nat /\ e \in Nat
        BY <1>2, <2>3, <2>5, <3>1 DEF Seen
      <4>2. (Newer(best, f) /\ n > e) \/ (Newer(f, best) /\ e > n)
        BY <2>2, <3>2, <3>3, <3>6, <4>1 DEF Ordered, InOrder
      <4>3. ~ Newer(f, best)  BY <2>2, <3>3, <3>4 DEF Newer
      <4> QED  BY <4>1, <4>2, <4>3
    <3> QED  BY <3>5, <3>6
  <2> HIDE DEF T
  <2>6. Newest(T, k, s) = n  BY <1>2, <2>4, <2>5, NewestIsUnique
  <2> QED  BY <1>1, <1>8, <2>6 DEF T, n
<1> QED  BY <1>7, <1>8

\* A read of another level finds the newest entry of the key there.
LEMMA InLevelIs ==
  ASSUME Types, Ordered(version), LevelsApart(version), NEW k \in Keys, NEW s \in Nat,
         NEW l \in 1..(NumLevels - 1)
  PROVE  InLevel(l, k, s) = Newest(Ents(Level(l)), k, s)
<1> DEFINE ends  == {f \in Level(l) : LargestKey(f) > k \/ (LargestKey(f) = k /\ Largest(f) <= s)}
           first == CHOOSE f \in ends : \A g \in ends : g = f \/ Before(Smallest(f), Smallest(g))
           T     == Ents(Level(l))
<1>1. InLevel(l, k, s) = IF ends = {} \/ k < SmallestKey(first) THEN 0
                         ELSE Newest(first.entries, k, s)
  BY DEF InLevel
<1>2. T \in SUBSET (1..Len(history)) /\ k \in Int /\ l \in Nat /\ l > 0
  BY LevelEnts, LevelsAssumption
<1>3. \A f \in version :
        /\ f.entries \in SUBSET (1..Len(history))
        /\ Smallest(f) \in f.entries /\ Largest(f) \in f.entries
        /\ \A d \in f.entries : d = Largest(f) \/ Before(d, Largest(f))
        /\ \A d \in f.entries : Key(d) \in Int /\ SmallestKey(f) <= Key(d) /\ Key(d) <= LargestKey(f)
        /\ SmallestKey(f) \in Int /\ LargestKey(f) \in Int
  <2> SUFFICES ASSUME NEW f \in version
               PROVE  /\ f.entries \in SUBSET (1..Len(history))
                      /\ Smallest(f) \in f.entries /\ Largest(f) \in f.entries
                      /\ \A d \in f.entries : d = Largest(f) \/ Before(d, Largest(f))
                      /\ \A d \in f.entries : /\ Key(d) \in Int /\ SmallestKey(f) <= Key(d)
                                              /\ Key(d) <= LargestKey(f)
                      /\ SmallestKey(f) \in Int /\ LargestKey(f) \in Int
    OBVIOUS
  <2>1. f.entries \subseteq 1..Len(history) /\ f.entries # {}  BY DEF Types, FilesOK
  <2> QED  BY <2>1, EndsAre, ZeroFileIs
<1>4. \A f, g \in Level(l) : f # g => Apart(f, g) /\ NoSharedKey(f.entries, g.entries)
  <2> SUFFICES ASSUME NEW f \in Level(l), NEW g \in Level(l), f # g
               PROVE  Apart(f, g) /\ NoSharedKey(f.entries, g.entries)
    OBVIOUS
  <2>1. f \in version /\ g \in version /\ f.level = l /\ g.level = l  BY DEF Level
  <2>2. ~ Newer(f, g) /\ ~ Newer(g, f)  BY <1>2, <2>1 DEF Newer
  <2>3. InOrder(f, g)  BY <2>1 DEF Ordered
  <2> QED  BY <1>2, <2>1, <2>2, <2>3 DEF LevelsApart, InOrder, NoSharedKey
<1>5. ends \subseteq Level(l) /\ Level(l) \subseteq version  BY DEF Level
\* A file with the key is the first of those that end there or later.
<1>6. ASSUME NEW f \in Level(l), NEW e \in Seen(f.entries, k, s)
      PROVE  f \in ends /\ \A g \in ends : g = f \/ Before(Smallest(f), Smallest(g))
  <2>1. f \in version /\ e \in f.entries /\ Key(e) = k /\ e <= s  BY <1>5 DEF Seen
  <2>2. Largest(f) \in Nat /\ e \in Nat /\ k <= LargestKey(f) /\ SmallestKey(f) <= k
    BY <1>3, <2>1, KeysAre
  <2>3. e = Largest(f) \/ Before(e, Largest(f))  BY <1>3, <2>1
  <2>4. ASSUME LargestKey(f) = k PROVE Largest(f) <= s
    <3>1. Key(Largest(f)) = k /\ Key(e) = k /\ k \in Int  BY <1>2, <2>1, <2>4 DEF LargestKey
    <3>2. e = Largest(f) \/ e > Largest(f)  BY <2>3, <3>1 DEF Before
    <3> QED  BY <2>1, <2>2, <3>2
  <2>5. f \in ends  BY <1>2, <1>3, <2>1, <2>2, <2>4
  <2>6. ASSUME NEW g \in ends, g # f PROVE Before(Smallest(f), Smallest(g))
    <3>1. g \in Level(l) /\ g \in version /\ LargestKey(g) >= k  BY <1>2, <1>3, <1>5
    <3>2. Apart(f, g) /\ NoSharedKey(f.entries, g.entries)  BY <1>4, <2>6, <3>1
    <3>3. ~ Before(Largest(g), e)
      <4>1. Key(Largest(g)) # k  BY <1>3, <2>1, <3>1, <3>2 DEF NoSharedKey
      <4>2. Key(Largest(g)) > k  BY <1>2, <1>3, <3>1, <4>1 DEF LargestKey
      <4> QED  BY <1>2, <1>3, <2>1, <3>1, <4>2 DEF Before
    <3>4. AllBefore(f.entries, g.entries)  BY <1>3, <2>1, <3>1, <3>2, <3>3 DEF Apart, AllBefore
    <3> QED  BY <1>3, <2>1, <3>1, <3>4 DEF AllBefore
  <2> QED  BY <2>5, <2>6
\* Two files are not both first.
<1>7. \A f, g \in version : ~ (Before(Smallest(f), Smallest(g)) /\ Before(Smallest(g), Smallest(f)))
  <2> SUFFICES ASSUME NEW f \in version, NEW g \in version,
                      Before(Smallest(f), Smallest(g)), Before(Smallest(g), Smallest(f))
               PROVE  FALSE
    OBVIOUS
  <2>1. Smallest(f) \in 1..Len(history) /\ Smallest(g) \in 1..Len(history)  BY <1>3
  <2> QED  BY <2>1, BeforeIsOrder
<1>8. CASE \E f \in Level(l) : Seen(f.entries, k, s) # {}
  <2>1. PICK f \in Level(l) : Seen(f.entries, k, s) # {}  BY <1>8
  <2>2. f \in ends /\ \A g \in ends : g = f \/ Before(Smallest(f), Smallest(g))  BY <1>6, <2>1
  <2>3. first = f
    <3> HIDE DEF ends
    <3>1. first \in ends /\ \A g \in ends : g = first \/ Before(Smallest(first), Smallest(g))
      BY <2>2
    <3> HIDE DEF first
    <3>2. first \in version /\ f \in version  BY <1>5, <2>2, <3>1
    <3> QED  BY <1>7, <2>2, <3>1, <3>2
  <2> HIDE DEF ends, first
  <2>4. f \in version  BY <1>5, <2>1
  <2> DEFINE n == Newest(f.entries, k, s)
  <2>5. /\ n \in Seen(f.entries, k, s) \cup {0} /\ n \in 0..Len(history)
        /\ \A e \in Seen(f.entries, k, s) : e \in Nat /\ e # 0 /\ e <= n
    <3>1. f.entries \in SUBSET (1..Len(history))  BY <1>3, <2>4
    <3> QED  BY <3>1, NewestIs
  <2> HIDE DEF n
  <2>6. n \in Seen(f.entries, k, s)
    <3>1. PICK e \in Seen(f.entries, k, s) : TRUE  BY <2>1
    <3>2. e \in Nat /\ e # 0 /\ e <= n  BY <2>5, <3>1
    <3>3. n # 0  BY <3>2
    <3> QED  BY <2>5, <3>3
  <2>7. SmallestKey(f) <= k  BY <1>3, <2>4, <2>6 DEF Seen
  <2>8. InLevel(l, k, s) = n
    <3>1. ~ (ends = {} \/ k < SmallestKey(first))  BY <1>2, <1>3, <2>2, <2>3, <2>4, <2>7
    <3> QED  BY <1>1, <2>3, <3>1 DEF n
  <2>9. n \in Seen(T, k, s)  BY <2>1, <2>6 DEF Seen, Ents
  <2>10. ASSUME NEW e \in Seen(T, k, s) PROVE e <= n
    <3>1. PICK g \in Level(l) : e \in g.entries  BY <2>10 DEF Seen, Ents
    <3>2. Key(e) = k /\ Key(n) = k /\ n \in f.entries  BY <2>6, <2>10 DEF Seen
    <3>3. g = f  BY <1>4, <2>1, <3>1, <3>2 DEF NoSharedKey
    <3>4. e \in Seen(f.entries, k, s)  BY <2>10, <3>1, <3>3 DEF Seen
    <3> QED  BY <2>5, <3>4
  <2> HIDE DEF T
  <2>11. Newest(T, k, s) = n  BY <1>2, <2>9, <2>10, NewestIsUnique
  <2> QED  BY <2>8, <2>11 DEF T
<1>9. CASE \A f \in Level(l) : Seen(f.entries, k, s) = {}
  <2>1. Seen(T, k, s) = {}  BY <1>9 DEF Seen, Ents
  <2>2. Newest(T, k, s) = 0
    <3> HIDE DEF T
    <3> QED  BY <1>2, <2>1, NewestIsUnique
  <2>3. InLevel(l, k, s) = 0
    <3>1. CASE ends = {}  BY <1>1, <3>1
    <3>2. CASE ends # {}
      <4>1. first \in ends
        <5> DEFINE R == {p \in ends \X ends : Before(Smallest(p[1]), Smallest(p[2]))}
        <5>1. \A f, g \in ends : <<f, g>> \in R <=> Before(Smallest(f), Smallest(g))
          OBVIOUS
        <5>2. IsFiniteSet(ends)  BY <1>5, FS_Subset DEF Types, FilesOK
        <5> HIDE DEF R, ends
        <5>3. \A f \in ends : f \in version /\ Smallest(f) \in 1..Len(history)  BY <1>3, <1>5
        <5>4. \A f, g \in ends : f = g \/ Before(Smallest(f), Smallest(g)) \/ Before(Smallest(g), Smallest(f))
          <6> SUFFICES ASSUME NEW f \in ends, NEW g \in ends, f # g
                       PROVE  Before(Smallest(f), Smallest(g)) \/ Before(Smallest(g), Smallest(f))
            OBVIOUS
          <6>1. Apart(f, g)  BY <1>4, <1>5
          <6>2. Smallest(f) \in f.entries /\ Smallest(g) \in g.entries  BY <1>3, <5>3
          <6> QED  BY <6>1, <6>2 DEF Apart, AllBefore
        <5>5. TotalOrder(R, ends)  BY <5>1, <5>3, <5>4, BeforeIsOrder DEF TotalOrder
        <5>6. \E f \in ends : \A g \in ends : g = f \/ <<f, g>> \in R
          BY <3>2, <5>2, <5>5, FirstExists
        <5>7. \E f \in ends : \A g \in ends : g = f \/ Before(Smallest(f), Smallest(g))
          BY <5>1, <5>6
        <5> QED  BY <5>7
      <4> HIDE DEF first
      <4>2. first \in Level(l) /\ first \in version  BY <1>5, <4>1
      <4>3. Newest(first.entries, k, s) = 0
        <5>1. first.entries \in SUBSET (1..Len(history))  BY <1>3, <4>2
        <5>2. Seen(first.entries, k, s) = {}  BY <1>9, <4>2
        <5> QED  BY <5>1, <5>2, NewestIsUnique
      <4> HIDE DEF ends
      <4> QED  BY <1>1, <4>3 DEF first
    <3> QED  BY <3>1, <3>2
  <2> QED  BY <2>2, <2>3
<1> QED  BY <1>8, <1>9

\* The newest entry is there, or there is none.
LEMMA NewestCases ==
  ASSUME Types, NEW S \in SUBSET (1..Len(history)), NEW k, NEW s, NEW n, n = Newest(S, k, s)
  PROVE  \/ n = 0 /\ Seen(S, k, s) = {}
         \/ /\ n # 0 /\ n \in Seen(S, k, s) /\ n \in Nat
            /\ \A e \in Seen(S, k, s) : e \in Nat /\ e <= n
<1>1. /\ n \in Seen(S, k, s) \cup {0}
      /\ \A e \in Seen(S, k, s) : e \in Nat /\ e # 0 /\ e <= n
  BY NewestIs
<1>2. CASE n = 0
  <2>1. \A e \in Seen(S, k, s) : FALSE
    <3> SUFFICES ASSUME NEW e \in Seen(S, k, s) PROVE FALSE  OBVIOUS
    <3>1. e \in Nat /\ e # 0 /\ e <= 0  BY <1>1, <1>2
    <3> QED  BY <3>1
  <2> QED  BY <1>2, <2>1
<1>3. CASE n # 0  BY <1>1, <1>3
<1> QED  BY <1>2, <1>3

\* The newest of two sets' entries, those of the one being newer.
LEMMA NewestOfBoth ==
  ASSUME Types, NEW S \in SUBSET (1..Len(history)), NEW T \in SUBSET (1..Len(history)),
         NEW k, NEW s, \A d \in Seen(S, k, s), e \in Seen(T, k, s) : d > e,
         NEW U, U = S \cup T, NEW m, m = Newest(S, k, s), NEW n, n = Newest(T, k, s)
  PROVE  Newest(U, k, s) = IF m # 0 THEN m ELSE n
<1>2. Seen(U, k, s) = Seen(S, k, s) \cup Seen(T, k, s)  BY DEF Seen
<1>1. U \in SUBSET (1..Len(history))  OBVIOUS
<1>3. \A e \in Seen(T, k, s) : e \in Nat  BY KeysAre DEF Seen
<1>4. CASE m # 0
  <2>1. m \in Seen(S, k, s) /\ m \in Nat /\ \A e \in Seen(S, k, s) : e <= m
    BY <1>4, NewestCases
  <2>2. \A e \in Seen(U, k, s) : e <= m  BY <1>2, <1>3, <2>1
  <2>3. m \in Seen(U, k, s)  BY <1>2, <2>1
  <2>4. Newest(U, k, s) = m  BY <2>2, <2>3, <1>1, NewestIsUnique
  <2> QED  BY <1>4, <2>4
<1>5. CASE m = 0
  <2>1. Seen(S, k, s) = {}  BY <1>5, NewestCases
  <2>2. \/ n = 0 /\ Seen(T, k, s) = {}
        \/ n \in Seen(T, k, s) /\ \A e \in Seen(T, k, s) : e <= n
    BY NewestCases
  <2>3. Newest(U, k, s) = n  BY <1>2, <2>1, <2>2, <1>1, NewestIsUnique
  <2> QED  BY <1>5, <2>3
<1> QED  BY <1>4, <1>5

\* The first level that has an entry of the key has the newest one.
LEMMA FilesRead ==
  ASSUME Types, Ordered(version), LevelsApart(version), NEW k \in Keys, NEW s \in Nat,
         NEW found, \A l \in 0..(NumLevels - 1) :
                      found[l] = IF l = 0 THEN InLevel0(k, s) ELSE InLevel(l, k, s),
         NEW hits \in SUBSET (0..(NumLevels - 1)),
         \A l \in 0..(NumLevels - 1) : l \in hits <=> found[l] # 0
  PROVE  Newest(Ents(version), k, s) = IF hits = {} THEN 0 ELSE found[Min(hits)]
<1>1. NumLevels \in Nat /\ NumLevels > 0  BY LevelsAssumption
<1>2. \A l \in 0..(NumLevels - 1) : l \in Nat /\ (l # 0 => l \in 1..(NumLevels - 1))
  BY <1>1
<1>3. \A l \in 0..(NumLevels - 1) : found[l] = Newest(Ents(Level(l)), k, s)
  BY <1>2, InLevel0Is, InLevelIs
<1>4. Ents(version) \in SUBSET (1..Len(history))  BY DEF Types, FilesOK, Ents
<1>5. \A f \in version : f.level \in 0..(NumLevels - 1)  BY DEF Types, FilesOK, File
<1>6. \A l \in 0..(NumLevels - 1) :
        \/ l \notin hits /\ Seen(Ents(Level(l)), k, s) = {}
        \/ /\ l \in hits /\ found[l] \in Seen(Ents(Level(l)), k, s) /\ found[l] \in Nat
           /\ \A e \in Seen(Ents(Level(l)), k, s) : e <= found[l]
  <2> SUFFICES ASSUME NEW l \in 0..(NumLevels - 1)
               PROVE  \/ l \notin hits /\ Seen(Ents(Level(l)), k, s) = {}
                      \/ /\ l \in hits /\ found[l] \in Seen(Ents(Level(l)), k, s)
                         /\ found[l] \in Nat
                         /\ \A e \in Seen(Ents(Level(l)), k, s) : e <= found[l]
    OBVIOUS
  <2>1. PICK n, T : T = Ents(Level(l)) /\ n = found[l]  OBVIOUS
  <2>2. T \in SUBSET (1..Len(history)) /\ n = Newest(T, k, s)  BY <1>3, <2>1, LevelEnts
  <2>3. \/ n = 0 /\ Seen(T, k, s) = {}
        \/ /\ n # 0 /\ n \in Seen(T, k, s) /\ n \in Nat
           /\ \A e \in Seen(T, k, s) : e \in Nat /\ e <= n
    BY <2>2, NewestCases
  <2>4. l \in hits <=> n # 0  BY <2>1
  <2> QED  BY <2>1, <2>3, <2>4
<1>7. CASE hits = {}
  <2>1. Seen(Ents(version), k, s) = {}
    <3>1. SUFFICES ASSUME NEW e \in Seen(Ents(version), k, s) PROVE FALSE  OBVIOUS
    <3>2. PICK f \in version : e \in f.entries  BY <3>1 DEF Seen, Ents
    <3>3. e \in Ents(Level(f.level))  BY <3>2, LevelEnts
    <3>4. e \in Seen(Ents(Level(f.level)), k, s)  BY <3>1, <3>3 DEF Seen
    <3> QED  BY <1>5, <1>6, <1>7, <3>2, <3>4
  <2>2. Newest(Ents(version), k, s) = 0  BY <1>4, <2>1, NewestIsUnique
  <2> QED  BY <1>7, <2>2
<1>8. CASE hits # {}
  <2>1. PICK l : l = Min(hits)  OBVIOUS
  <2>2. l \in hits /\ \A m \in hits : l <= m
    <3> DEFINE levels == 0..(NumLevels - 1)
    <3>1. IsFiniteSet(levels) /\ levels \in SUBSET Int  BY <1>1, FS_Interval
    <3>2. hits \subseteq levels  OBVIOUS
    <3> HIDE DEF levels
    <3>3. IsFiniteSet(hits) /\ hits \in SUBSET Int  BY <3>1, <3>2, FS_Subset
    <3> QED  BY <1>8, <2>1, <3>3, MinMaxIs
  <2>3. l \in 0..(NumLevels - 1) /\ l \in Nat  BY <1>2, <2>2
  <2>4. PICK n : n = found[l]  OBVIOUS
  <2>5. /\ n \in Seen(Ents(Level(l)), k, s) /\ n \in Nat
        /\ \A e \in Seen(Ents(Level(l)), k, s) : e <= n
    BY <1>6, <2>2, <2>3, <2>4
  <2>6. PICK f \in version : f.level = l /\ n \in f.entries  BY <2>5, LevelEnts DEF Seen
  <2>7. n \in Seen(Ents(version), k, s)  BY <2>5, <2>6 DEF Seen, Ents
  <2>8. ASSUME NEW e \in Seen(Ents(version), k, s) PROVE e <= n
    <3>1. PICK g \in version : e \in g.entries  BY <2>8 DEF Seen, Ents
    <3>2. e \in Ents(Level(g.level))  BY <3>1, LevelEnts
    <3>3. e \in Seen(Ents(Level(g.level)), k, s)  BY <2>8, <3>2 DEF Seen
    <3>4. g.level \in 0..(NumLevels - 1) /\ g.level \in Nat  BY <1>2, <1>5
    <3>5. g.level \in hits  BY <1>6, <3>3, <3>4
    <3>6. CASE g.level = l  BY <2>5, <3>3, <3>6
    <3>7. CASE g.level # l
      <4>1. l < g.level  BY <2>2, <2>3, <3>4, <3>5, <3>7
      <4>2. Newer(f, g) /\ ~ Newer(g, f) /\ f # g
        BY <2>3, <2>6, <3>4, <4>1 DEF Newer
      <4>3. Key(e) = k /\ Key(n) = k /\ e \in Nat  BY <1>4, <2>5, <2>8, KeysAre DEF Seen
      <4>4. InOrder(f, g)  BY <4>2 DEF Ordered
      <4>5. n > e  BY <2>6, <3>1, <4>2, <4>3, <4>4 DEF InOrder
      <4> QED  BY <2>5, <4>3, <4>5
    <3> QED  BY <3>6, <3>7
  <2>9. Newest(Ents(version), k, s) = n  BY <1>4, <2>7, <2>8, NewestIsUnique
  <2> QED  BY <1>8, <2>1, <2>4, <2>9
<1> QED  BY <1>7, <1>8

\* A read, which ends at the first place that has the key, finds what an iterator
\* over all of them stops at.
LEMMA GetIs ==
  ASSUME Types, Ordered(version), LevelsApart(version), MemTablesAreNewer,
         NEW k \in Keys, NEW s \in Nat
  PROVE  Get(k, s) = Newest(Present, k, s)
<1> DEFINE found == [l \in 0..(NumLevels - 1) |->
                       IF l = 0 THEN InLevel0(k, s) ELSE InLevel(l, k, s)]
           hits  == {l \in 0..(NumLevels - 1) : found[l] # 0}
           m     == Newest(mem, k, s)
           i     == Newest(imm, k, s)
           v     == Newest(Ents(version), k, s)
<1>1. /\ mem \in SUBSET (1..Len(history)) /\ imm \in SUBSET (1..Len(history))
      /\ Ents(version) \in SUBSET (1..Len(history))
  BY DEF Types, FilesOK, Ents
<1>2. Get(k, s) = IF m # 0 THEN m ELSE IF i # 0 THEN i ELSE v
  <2>1. v = IF hits = {} THEN 0 ELSE found[Min(hits)]
    <3>1. PICK F, H : F = found /\ H = hits  OBVIOUS
    <3>2. \A l \in 0..(NumLevels - 1) :
            F[l] = IF l = 0 THEN InLevel0(k, s) ELSE InLevel(l, k, s)
      BY <3>1
    <3>3. /\ H \in SUBSET (0..(NumLevels - 1))
          /\ \A l \in 0..(NumLevels - 1) : l \in H <=> F[l] # 0
      BY <3>1
    <3>4. Newest(Ents(version), k, s) = IF H = {} THEN 0 ELSE F[Min(H)]
      BY <3>2, <3>3, FilesRead
    <3> HIDE DEF found, hits
    <3> QED  BY <3>1, <3>4
  <2>2. hits # {} => Min(hits) \in 0..(NumLevels - 1)
    <3> SUFFICES ASSUME hits # {} PROVE Min(hits) \in 0..(NumLevels - 1)  OBVIOUS
    <3> DEFINE levels == 0..(NumLevels - 1)
    <3>1. IsFiniteSet(levels) /\ levels \in SUBSET Int  BY LevelsAssumption, FS_Interval
    <3>2. hits \subseteq levels  OBVIOUS
    <3> HIDE DEF levels, hits
    <3>3. IsFiniteSet(hits) /\ hits \in SUBSET Int  BY <3>1, <3>2, FS_Subset
    <3>4. Min(hits) \in hits  BY <3>3, MinMaxIs
    <3> QED  BY <3>2, <3>4 DEF levels
  <2> DEFINE look(l) == IF l = 0 THEN InLevel0(k, s) ELSE InLevel(l, k, s)
             places  == {l \in 0..(NumLevels - 1) : look(l) # 0}
  <2>3. places = hits  OBVIOUS
  <2>4. Get(k, s) = IF m # 0 THEN m ELSE IF i # 0 THEN i
                    ELSE IF places = {} THEN 0 ELSE look(Min(places))
    BY DEF Get
  <2>5. hits # {} => look(Min(hits)) = found[Min(hits)]  BY <2>2
  <2> HIDE DEF found, hits, m, i, v, look, places
  <2> QED  BY <2>1, <2>3, <2>4, <2>5
<1>3. PICK M, I, V, W : M = mem /\ I = imm /\ V = Ents(version) /\ W = I \cup V  OBVIOUS
<1>4. /\ M \in SUBSET (1..Len(history)) /\ I \in SUBSET (1..Len(history))
      /\ V \in SUBSET (1..Len(history)) /\ W \in SUBSET (1..Len(history))
  BY <1>1, <1>3
<1>5. \A d \in Seen(I, k, s), e \in Seen(V, k, s) : d > e
  BY <1>3 DEF MemTablesAreNewer, Seen
<1>10. \A d \in Seen(M, k, s), e \in Seen(W, k, s) : d > e
  BY <1>3 DEF MemTablesAreNewer, Seen
<1>6. m = Newest(M, k, s) /\ i = Newest(I, k, s) /\ v = Newest(V, k, s)  BY <1>3
<1> HIDE DEF m, i, v
<1>7. PICK w : w = Newest(W, k, s)  OBVIOUS
<1>8. w = IF i # 0 THEN i ELSE v
  <2>1. W = I \cup V  BY <1>3
  <2>2. Newest(W, k, s) = IF i # 0 THEN i ELSE v
    BY <1>4, <1>5, <1>6, <2>1, NewestOfBoth
  <2> QED  BY <1>7, <2>2
<1>9. Newest(Present, k, s) = IF m # 0 THEN m ELSE w
  <2>1. Present = M \cup W  BY <1>3 DEF Present
  <2>2. PICK P : P = Present  OBVIOUS
  <2>3. P = M \cup W  BY <2>1, <2>2
  <2>4. Newest(P, k, s) = IF m # 0 THEN m ELSE w
    BY <1>4, <1>6, <1>7, <1>10, <2>3, NewestOfBoth
  <2> QED  BY <2>2, <2>4
<1> QED  BY <1>2, <1>8, <1>9

\* Nothing that is not there would have been read.
LEMMA PresentRead ==
  ASSUME Types, Present \in SUBSET (1..Len(history)), Complete(Present),
         NEW k, NEW s \in snapshots \cup {Len(history)}
  PROVE  Value(Newest(Present, k, s)) = Value(Newest(1..Len(history), k, s))
<1>1. PICK All : All = 1..Len(history)  OBVIOUS
<1>2. PICK n, p : n = Newest(All, k, s) /\ p = Newest(Present, k, s)  OBVIOUS
<1>3. Seen(Present, k, s) \subseteq Seen(All, k, s)  BY <1>1 DEF Seen
<1>4. SmallestSnapshot <= s /\ SmallestSnapshot \in Int  BY SmallestSnapshotIs
<1>5. s \in Nat /\ Len(history) \in Nat  BY KeysAre DEF Types
<1>6. \/ n = 0 /\ Seen(All, k, s) = {}
      \/ /\ n # 0 /\ n \in Seen(All, k, s) /\ n \in Nat
         /\ \A e \in Seen(All, k, s) : e \in Nat /\ e <= n
  <2>1. All \in SUBSET (1..Len(history))  BY <1>1
  <2> QED  BY <1>2, <2>1, NewestCases
<1>7. CASE Seen(All, k, s) = {} /\ n = 0
  <2>1. Seen(Present, k, s) = {}  BY <1>3, <1>7
  <2>2. p = 0  BY <1>2, <2>1, NewestIsUnique
  <2> QED  BY <1>1, <1>2, <1>7, <2>2
<1>8. CASE n \in Present /\ n \in Seen(All, k, s) /\ \A e \in Seen(All, k, s) : e <= n
  <2>1. n \in Seen(Present, k, s) /\ \A e \in Seen(Present, k, s) : e <= n
    BY <1>3, <1>8 DEF Seen
  <2>2. p = n  BY <1>2, <2>1, NewestIsUnique
  <2> QED  BY <1>1, <1>2, <2>2
<1>9. CASE /\ n \notin Present /\ n \in Seen(All, k, s) /\ n \in Nat /\ n # 0
           /\ \A e \in Seen(All, k, s) : e \in Nat /\ e <= n
  <2>1. n \in (1..Len(history)) \ Present /\ Key(n) = k /\ n <= s  BY <1>1, <1>9 DEF Seen
  <2>2. ~ \E d \in 1..Len(history) : Key(d) = Key(n) /\ d > n /\ d <= SmallestSnapshot
    <3> SUFFICES ASSUME NEW d \in 1..Len(history), Key(d) = Key(n), d > n, d <= SmallestSnapshot
                 PROVE  FALSE
      OBVIOUS
    <3>1. d <= s /\ d \in Nat  BY <1>4, <1>5
    <3>2. d \in Seen(All, k, s)  BY <1>1, <2>1, <3>1 DEF Seen
    <3> QED  BY <1>9, <3>1, <3>2
  <2>3. IsDeletion(n) /\ \A d \in Present : Key(d) = Key(n) => d > n
    BY <2>1, <2>2 DEF Complete
  <2>4. Seen(Present, k, s) = {}
    <3>1. SUFFICES ASSUME NEW e \in Seen(Present, k, s) PROVE FALSE  OBVIOUS
    <3>2. e \in Present /\ Key(e) = Key(n)  BY <2>1, <3>1 DEF Seen
    <3>3. e > n /\ e <= n /\ e \in Nat  BY <1>3, <1>9, <2>3, <3>1, <3>2
    <3> QED  BY <1>9, <3>3
  <2>5. p = 0  BY <1>2, <2>4, NewestIsUnique
  <2>6. Value(n) = 0 /\ Value(0) = 0  BY <1>9, <2>3 DEF Value
  <2> QED  BY <1>1, <1>2, <2>5, <2>6
<1> QED  BY <1>6, <1>7, <1>8, <1>9

\* The invariant makes reads and iterators right.
LEMMA IInvReads == IInv => ReadsAreRight
<1> SUFFICES ASSUME Shape, Reading, NEW k \in Keys, NEW s \in Readable
             PROVE  /\ Value(Get(k, s)) = Value(Newest(1..LastSequence, k, s))
                    /\ Value(Merged(k, s)) = Value(Newest(1..LastSequence, k, s))
  BY DEF IInv, ReadsAreRight, GetsAreRight, ScansAreRight
<1>1. /\ Types /\ Ordered(version) /\ MemTablesAreNewer /\ LevelsApart(version)
      /\ Complete(Present) /\ Present \in SUBSET (1..Len(history))
  BY ReadingHas DEF Shape
<1>2. LastSequence = Len(history)  BY <1>1, LastSequenceIs
<1>3. s \in snapshots \cup {Len(history)}  BY <1>2 DEF Readable
<1>4. s \in Nat  BY <1>1, <1>3, KeysAre DEF Types
<1>5. Get(k, s) = Newest(Present, k, s)  BY <1>1, <1>4, GetIs
<1>6. Merged(k, s) = Newest(Present, k, s)  BY DEF Merged, Present, Ents
<1>7. Value(Newest(Present, k, s)) = Value(Newest(1..Len(history), k, s))
  BY <1>1, <1>3, PresentRead
<1> QED  BY <1>2, <1>5, <1>6, <1>7

------------------------------------------------------------------------------
(***************************************************************************)
(* The reads stay right.                                                   *)
(***************************************************************************)
\* A key that was split stays so.
LEMMA SplitStays ==
  ASSUME keySplit, [Next]_vars
  PROVE  keySplit'
<1>1. CASE UNCHANGED vars  BY <1>1 DEF vars
<1>2. ASSUME NEW k \in Keys, NEW deletion \in BOOLEAN, Write(k, deletion) PROVE keySplit'
  BY <1>2 DEF Write
<1>3. CASE GetSnapshot  BY <1>3 DEF GetSnapshot
<1>4. ASSUME NEW s \in snapshots, ReleaseSnapshot(s) PROVE keySplit'
  BY <1>4 DEF ReleaseSnapshot
<1>5. CASE SwitchMemTable  BY <1>5 DEF SwitchMemTable
<1>6. CASE CompactMemTable  BY <1>6 DEF CompactMemTable
<1>7. ASSUME NEW f \in version, MoveFile(f) PROVE keySplit'  BY <1>7 DEF MoveFile
<1>8. ASSUME NEW f \in version, DoCompactionWork(f) PROVE keySplit'
  BY <1>8, Zenon DEF DoCompactionWork
<1>9. CASE InstallCompactionResults  BY <1>9 DEF InstallCompactionResults
<1>10. CASE Recover  BY <1>10 DEF Recover
<1> QED
  BY <1>1, <1>2, <1>3, <1>4, <1>5, <1>6, <1>7, <1>8, <1>9, <1>10 DEF Next

\* There is nothing to read at the start.
LEMMA InitIInv == Init => IInv
<1> SUFFICES ASSUME Init PROVE Reading  BY InitShape DEF IInv
<1>1. /\ version = {} /\ compaction = None /\ After = {} /\ mem = {} /\ imm = {}
      /\ history = <<>>
  BY DEF Init, After
<1>2. Ents(version) = {} /\ Ents(After) = {}  BY <1>1 DEF Ents
<1>3. Ordered(version) /\ Ordered(After)  BY <1>1 DEF Ordered
<1>4. MemTablesAreNewer  BY <1>1, <1>2 DEF MemTablesAreNewer
<1>5. 1..Len(history) = {}
  <2>1. Len(history) = 0  BY <1>1
  <2> QED  BY <2>1
<1>6. Complete({})  BY <1>5 DEF Complete
<1>7. mem \cup imm \cup Ents(version) = {} /\ mem \cup imm \cup Ents(After) = {}
  BY <1>1, <1>2
<1> QED  BY <1>3, <1>4, <1>6, <1>7 DEF Reading

\* Every step keeps the invariant.
LEMMA StepIInv == IInv /\ [Next]_vars => IInv'
<1> SUFFICES ASSUME Shape, keySplit \/ Reading, [Next]_vars PROVE IInv'  BY DEF IInv
<1>1. Shape'  BY StepShape
<1>2. CASE keySplit
  <2>1. keySplit'  BY <1>2, SplitStays
  <2> QED  BY <1>1, <2>1 DEF IInv
<1>3. CASE keySplit'  BY <1>1, <1>3 DEF IInv
<1>4. CASE ~ keySplit /\ ~ keySplit'
  <2> SUFFICES Reading'  BY <1>1 DEF IInv
  <2>1. Reading /\ KeysStay  BY <1>4, StepKeysStay DEF Shape
  <2>2. ASSUME NEW k \in Keys, NEW deletion \in BOOLEAN, Write(k, deletion) PROVE Reading'
    BY <1>1, <2>1, <2>2, WriteReading
  <2>3. CASE \/ GetSnapshot \/ (\E s \in snapshots : ReleaseSnapshot(s)) \/ SwitchMemTable
             \/ UNCHANGED vars
    BY <1>1, <2>1, <2>3, SmallReading
  <2>4. CASE CompactMemTable  BY <1>1, <2>1, <2>4, CompactMemTableReading
  <2>5. ASSUME NEW f \in version, f.level < NumLevels - 1, MoveFile(f) PROVE Reading'
    BY <1>1, <2>1, <2>5, MoveFileReading
  <2>6. ASSUME NEW f \in version, f.level < NumLevels - 1, DoCompactionWork(f)
        PROVE  Reading'
    BY <1>1, <1>4, <2>1, <2>6, DoCompactionWorkReading
  <2>7. CASE InstallCompactionResults  BY <1>1, <2>1, <2>7, InstallReading
  <2>8. CASE Recover  BY <1>1, <2>1, <2>8, RecoverReading
  <2> QED  BY <2>2, <2>3, <2>4, <2>5, <2>6, <2>7, <2>8 DEF Next
<1> QED  BY <1>2, <1>3, <1>4

\* The invariant, from which both results follow.
THEOREM Invariance == Spec => []IInv
BY InitIInv, StepIInv, PTL DEF Spec

\* Whatever is compacted, moved and dropped, and with a process that ends at any moment,
\* a read and an iterator of the present or of a snapshot held find the last write of
\* every key, as long as no output file ended between two entries of a user key.
THEOREM ReadsStayRight == Spec => []ReadsAreRight
BY Invariance, IInvReads, PTL

==============================================================================
