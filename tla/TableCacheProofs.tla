-------------------------- MODULE TableCacheProofs --------------------------
(***************************************************************************)
(* Theorems about TableCache, for any tables, any number of threads, any   *)
(* capacity and any number of entries.                                     *)
(*                                                                         *)
(* The inductive invariant is Good, what a cache and the threads that use  *)
(* it are between two holds of the mutex, and Bounded.  Each operator of   *)
(* LRUCache has a lemma that it leads from one Good cache to another.      *)
(***************************************************************************)
EXTENDS TableCache, FiniteSetTheorems, SequenceTheorems, TLAPS

Entry   == [key : Tables \cup {NoTable}, refs : Nat, inCache : BOOLEAN]
Thread  == [at : {"idle", "opening", "using"}, table : Tables \cup {NoTable},
            handle : Handles \cup {0}]
Holders(th, h) == {t \in Threads : th[t].handle = h}
Cached(e)      == {h \in Handles : e[h].inCache}

\* A cache the program can have, with entries e, the lists l and u, and usage n, while the
\* threads are at th.
Typed(e, l, u, n, th) ==
  /\ e \in [Handles -> Entry] /\ th \in [Threads -> Thread]
  /\ l \in Seq(Handles) /\ IsInjective(l) /\ u \subseteq Handles /\ n \in Nat

\* Threads that use a table have its handle.
StagesInv(e, th) ==
  \A t \in Threads :
    /\ th[t].handle # 0 <=> th[t].at = "using"
    /\ th[t].at # "idle" => th[t].table \in Tables
    /\ th[t].handle # 0 => e[th[t].handle].key = th[t].table

\* References are counted, and nothing is allocated without one.
CountInv(e, th) ==
  \A h \in Handles : e[h] # Free =>
    /\ e[h].key \in Tables /\ e[h].refs # 0
    /\ e[h].refs = Cardinality(Holders(th, h)) + (IF e[h].inCache THEN 1 ELSE 0)

\* The hash table holds a table once.
TableInv(e) ==
  \A g, h \in Cached(e) : e[g].key = e[h].key => g = h

ListInv(e, l, u, th) ==
  /\ ToSet(l) = {h \in Cached(e) : Holders(th, h) = {}}
  /\ u = {h \in Cached(e) : Holders(th, h) # {}}

Good(e, l, u, n, th) ==
  /\ Typed(e, l, u, n, th) /\ StagesInv(e, th) /\ CountInv(e, th) /\ TableInv(e)
  /\ ListInv(e, l, u, th) /\ n = Cardinality(Cached(e))

Bounded(n) == n <= Capacity \/ n <= Cardinality(Threads)

Inv == Good(entries, lru, inUse, usage, threads) /\ Bounded(usage)

------------------------------------------------------------------------------
(***************************************************************************)
(* Sequences and sets.                                                     *)
(***************************************************************************)
\* The elements of a sequence from the one behind i on.
LEMMA SuffixIs ==
  ASSUME NEW S, NEW s \in Seq(S), NEW i \in 0..Len(s)
  PROVE  /\ SubSeq(s, i + 1, Len(s)) \in Seq(S)
         /\ Len(SubSeq(s, i + 1, Len(s))) = Len(s) - i
         /\ \A j \in 1..(Len(s) - i) : SubSeq(s, i + 1, Len(s))[j] = s[i + j]
<1>1. Len(s) \in Nat /\ i \in Nat /\ i <= Len(s) /\ \A j \in 1..Len(s) : s[j] \in S  OBVIOUS
<1> DEFINE n == Len(s)
           m == i + 1
<1>2. m \in Int /\ n \in Int /\ \A j \in m..n : s[j] \in S  BY <1>1
<1>n. n - m + 1 = n - i /\ (m > n => n - i = 0) /\ \A j \in 1..(n - i) : m + j - 1 = i + j  BY <1>1
<1> HIDE DEF m, n
<1>3. /\ SubSeq(s, m, n) \in Seq(S)
      /\ Len(SubSeq(s, m, n)) = IF m <= n THEN n - m + 1 ELSE 0
      /\ \A j \in 1..(n - m + 1) : SubSeq(s, m, n)[j] = s[m + j - 1]
  BY <1>2, SubSeqProperties
<1> DEFINE r == SubSeq(s, m, n)
<1>4. r = SubSeq(s, i + 1, Len(s))  BY DEF m, n
<1> HIDE DEF r
<1>5. r \in Seq(S)  BY <1>3 DEF r
<1>6. Len(r) = n - i
  <2>1. Len(r) = IF m <= n THEN n - m + 1 ELSE 0  BY <1>3 DEF r
  <2> QED  BY <1>2, <1>n, <2>1
<1>7. \A j \in 1..(n - i) : r[j] = s[i + j]
  <2>1. \A j \in 1..(n - i) : r[j] = s[m + j - 1]  BY <1>3, <1>n DEF r
  <2> QED  BY <1>n, <2>1
<1> QED  BY <1>4, <1>5, <1>6, <1>7 DEF n

\* Taking an element out of a sequence without repetition leaves the others.
LEMMA RemoveFirstIs ==
  ASSUME NEW S, NEW s \in Seq(S), IsInjective(s), NEW x
  PROVE  /\ RemoveFirst(s, x) \in Seq(S) /\ IsInjective(RemoveFirst(s, x))
         /\ ToSet(RemoveFirst(s, x)) = ToSet(s) \ {x}
<1>0. Len(s) \in Nat /\ DOMAIN s = 1..Len(s) /\ \A i \in 1..Len(s) : s[i] \in S  OBVIOUS
<1>1. CASE ~ \E i \in 1..Len(s) : s[i] = x
  <2>1. RemoveFirst(s, x) = s  BY <1>1 DEF RemoveFirst
  <2>2. x \notin ToSet(s)  BY <1>0, <1>1 DEF ToSet
  <2> QED  BY <2>1, <2>2
<1>2. CASE \E i \in 1..Len(s) : s[i] = x
  <2>1. PICK i \in 1..Len(s) : s[i] = x  BY <1>2
  <2> DEFINE I == {j \in 1..Len(s) : s[j] = x}
  <2>2. I = {i}  BY <1>0, <2>1 DEF IsInjective
  <2>3. Min({i}) = i  BY DEF Min
  <2>4. SelectInSeq(s, LAMBDA v : v = x) = i  BY <2>2, <2>3 DEF SelectInSeq
  <2>5. RemoveFirst(s, x) = SubSeq(s, 1, i - 1) \o SubSeq(s, i + 1, Len(s))
    BY <1>2, <2>4 DEF RemoveFirst, RemoveAt
  <2> DEFINE a == SubSeq(s, 1, i - 1)
             b == SubSeq(s, i + 1, Len(s))
             r == a \o b
             n == Len(s)
  <2>6. /\ a \in Seq(S) /\ Len(a) = i - 1 /\ \A j \in 1..(i - 1) : a[j] = s[j]
    BY <1>0, <2>1
  <2>7. /\ b \in Seq(S) /\ Len(b) = n - i /\ \A j \in 1..(n - i) : b[j] = s[i + j]
    <3>1. i \in 0..Len(s)  BY <1>0, <2>1
    <3> HIDE DEF a, b, n
    <3>2. /\ SubSeq(s, i + 1, Len(s)) \in Seq(S)
          /\ Len(SubSeq(s, i + 1, Len(s))) = Len(s) - i
          /\ \A j \in 1..(Len(s) - i) : SubSeq(s, i + 1, Len(s))[j] = s[i + j]
      BY <3>1, SuffixIs, Zenon
    <3> QED  BY <3>2, Zenon DEF b, n
  <2>8. i \in Nat /\ n \in Nat /\ 1 <= i /\ i <= n  BY <1>0, <2>1
  <2> HIDE DEF a, b, n
  <2>9. /\ r \in Seq(S) /\ Len(r) = n - 1 /\ DOMAIN r = 1..(n - 1)
        /\ \A j \in 1..(n - 1) : r[j] = IF j < i THEN s[j] ELSE s[j + 1]
    <3>1. r \in Seq(S) /\ Len(r) = Len(a) + Len(b)
      BY <2>6, <2>7, ConcatProperties
    <3>2. Len(r) = n - 1  BY <2>6, <2>7, <2>8, <3>1
    <3>3. ASSUME NEW j \in 1..(n - 1)
          PROVE  r[j] = IF j < i THEN s[j] ELSE s[j + 1]
      <4>1. CASE j < i
        <5>1. j \in 1..Len(a)  BY <2>6, <2>8, <4>1
        <5>2. r[j] = a[j]  BY <2>6, <2>7, <2>8, <5>1
        <5> QED  BY <2>6, <4>1, <5>1, <5>2
      <4>2. CASE ~ (j < i)
        <5>1. j - (i - 1) \in 1..(n - i) /\ j > Len(a)  BY <2>6, <2>8, <4>2
        <5>2. r[j] = b[j - Len(a)]  BY <2>6, <2>7, <2>8, <5>1
        <5>3. b[j - (i - 1)] = s[i + (j - (i - 1))]  BY <2>7, <5>1
        <5>4. i + (j - (i - 1)) = j + 1  BY <2>8
        <5> QED  BY <2>6, <4>2, <5>2, <5>3, <5>4
      <4> QED  BY <4>1, <4>2
    <3> QED  BY <3>1, <3>2, <3>3, LenProperties
  <2> HIDE DEF r
  <2>n. n = Len(s)  BY DEF n
  <2>10. ASSUME NEW j \in DOMAIN r, NEW k \in DOMAIN r, r[j] = r[k]
         PROVE  j = k
    <3> DEFINE f(m) == IF m < i THEN m ELSE m + 1
    <3>1. f(j) \in 1..n /\ f(k) \in 1..n  BY <2>8, <2>9
    <3>2. s[f(j)] = s[f(k)]  BY <2>9, <2>10
    <3> HIDE DEF f
    <3>3. f(j) = f(k)  BY <1>0, <2>n, <3>1, <3>2 DEF IsInjective
    <3> QED  BY <2>8, <2>9, <3>3 DEF f
  <2>11. ASSUME NEW y
         PROVE  y \in ToSet(r) <=> y \in ToSet(s) \ {x}
    <3>1. ASSUME y \in ToSet(r) PROVE y \in ToSet(s) \ {x}
      <4>1. PICK j \in 1..(n - 1) : y = r[j]  BY <2>9, <3>1 DEF ToSet
      <4>2. \E m \in 1..n : m # i /\ y = s[m]
        <5>1. CASE j < i  BY <2>8, <2>9, <4>1, <5>1
        <5>2. CASE ~ (j < i)
          <6>1. j + 1 \in 1..n /\ j + 1 # i /\ y = s[j + 1]  BY <2>8, <2>9, <4>1, <5>2
          <6> QED  BY <6>1
        <5> QED  BY <5>1, <5>2
      <4>3. PICK m \in 1..n : m # i /\ y = s[m]  BY <4>2
      <4>4. y # x  BY <1>0, <2>1, <2>n, <4>3 DEF IsInjective
      <4> QED  BY <1>0, <2>n, <4>3, <4>4 DEF ToSet
    <3>2. ASSUME y \in ToSet(s) \ {x} PROVE y \in ToSet(r)
      <4>1. PICK m \in 1..n : y = s[m] /\ m # i  BY <1>0, <2>1, <2>n, <3>2 DEF ToSet
      <4>2. CASE m < i
        <5>1. m \in 1..(n - 1) /\ r[m] = y  BY <2>8, <2>9, <4>1, <4>2
        <5> QED  BY <2>9, <5>1 DEF ToSet
      <4>3. CASE ~ (m < i)
        <5>1. m - 1 \in 1..(n - 1) /\ ~ (m - 1 < i) /\ (m - 1) + 1 = m  BY <2>8, <4>1, <4>3
        <5>2. r[m - 1] = y  BY <2>9, <4>1, <5>1
        <5> QED  BY <2>9, <5>1, <5>2 DEF ToSet
      <4> QED  BY <4>2, <4>3
    <3> QED  BY <3>1, <3>2
  <2>12. r = RemoveFirst(s, x)  BY <2>5 DEF r, a, b
  <2> QED  BY <2>9, <2>10, <2>11, <2>12 DEF IsInjective
<1> QED  BY <1>1, <1>2

\* Appending an element that is not there yet.
LEMMA AppendIs ==
  ASSUME NEW S, NEW s \in Seq(S), IsInjective(s), NEW x \in S, x \notin ToSet(s)
  PROVE  /\ Append(s, x) \in Seq(S) /\ IsInjective(Append(s, x))
         /\ ToSet(Append(s, x)) = ToSet(s) \cup {x}
<1> DEFINE r == Append(s, x)
<1>1. /\ Len(s) \in Nat /\ DOMAIN s = 1..Len(s)
      /\ r \in Seq(S) /\ Len(r) = Len(s) + 1 /\ DOMAIN r = 1..(Len(s) + 1)
      /\ \A i \in 1..Len(s) : r[i] = s[i]
      /\ r[Len(s) + 1] = x
  OBVIOUS
<1> HIDE DEF r
<1>2. \A i \in 1..Len(s) : s[i] # x  BY <1>1 DEF ToSet
<1>3. IsInjective(r)
  <2> SUFFICES ASSUME NEW i \in DOMAIN r, NEW j \in DOMAIN r, r[i] = r[j] PROVE i = j
    BY DEF IsInjective
  <2>1. \A k \in DOMAIN r : k \in 1..Len(s) \/ k = Len(s) + 1  BY <1>1
  <2> QED  BY <1>1, <1>2, <2>1 DEF IsInjective
<1>4. ToSet(r) = ToSet(s) \cup {x}
  <2>1. \A k \in DOMAIN r : k \in 1..Len(s) \/ k = Len(s) + 1  BY <1>1
  <2>2. \A k \in 1..Len(s) : k \in DOMAIN r  BY <1>1
  <2>3. Len(s) + 1 \in DOMAIN r  BY <1>1
  <2> QED  BY <1>1, <2>1, <2>2, <2>3 DEF ToSet
<1> QED  BY <1>1, <1>3, <1>4 DEF r

\* What a sequence is without its first i elements.
IsRest(S, s, i, first, r) ==
  /\ r \in Seq(S) /\ IsInjective(r) /\ ToSet(r) = ToSet(s) \ first
  /\ first \subseteq ToSet(s) /\ IsFiniteSet(first) /\ Cardinality(first) = i
  /\ i = Len(s) => ToSet(r) = {}

\* Without its first i elements, a sequence without repetition holds the others.
LEMMA RestIs ==
  ASSUME NEW S, NEW s, NEW i, s \in Seq(S), IsInjective(s), i \in 0..Len(s)
  PROVE  IsRest(S, s, i, {s[j] : j \in 1..i}, SubSeq(s, i + 1, Len(s)))
<1> DEFINE r == SubSeq(s, i + 1, Len(s))
           first == {s[j] : j \in 1..i}
<1>0. Len(s) \in Nat /\ DOMAIN s = 1..Len(s) /\ i \in Nat /\ i <= Len(s)  OBVIOUS
<1>1. /\ r \in Seq(S) /\ Len(r) = Len(s) - i
      /\ \A j \in 1..(Len(s) - i) : r[j] = s[i + j]
  BY SuffixIs
<1> HIDE DEF r
<1>2. DOMAIN r = 1..(Len(s) - i)  BY <1>1, LenProperties
<1>3. first \subseteq ToSet(s)  BY <1>0 DEF ToSet
<1>4. IsInjective(r)
  <2> SUFFICES ASSUME NEW j \in DOMAIN r, NEW k \in DOMAIN r, r[j] = r[k] PROVE j = k
    BY DEF IsInjective
  <2>1. i + j \in 1..Len(s) /\ i + k \in 1..Len(s)  BY <1>0, <1>2
  <2>2. s[i + j] = s[i + k]  BY <1>1, <1>2
  <2>3. i + j = i + k  BY <1>0, <2>1, <2>2 DEF IsInjective
  <2>4. j \in Nat /\ k \in Nat  BY <1>0, <1>2
  <2> QED  BY <1>0, <2>3, <2>4
<1>5. ASSUME NEW y
      PROVE  y \in ToSet(r) <=> y \in ToSet(s) \ first
  <2>1. ASSUME y \in ToSet(r) PROVE y \in ToSet(s) \ first
    <3>1. PICK j \in 1..(Len(s) - i) : y = r[j]  BY <1>2, <2>1 DEF ToSet
    <3>2. y = s[i + j] /\ i + j \in 1..Len(s) /\ i + j \notin 1..i  BY <1>0, <1>1, <3>1
    <3>3. \A k \in 1..i : k \in DOMAIN s /\ s[k] # y  BY <1>0, <3>2 DEF IsInjective
    <3> QED  BY <1>0, <3>2, <3>3 DEF ToSet
  <2>2. ASSUME y \in ToSet(s) \ first PROVE y \in ToSet(r)
    <3>1. PICK k \in 1..Len(s) : y = s[k]  BY <1>0, <2>2 DEF ToSet
    <3>2. k \notin 1..i  BY <2>2, <3>1
    <3>3. k - i \in 1..(Len(s) - i) /\ i + (k - i) = k  BY <1>0, <3>1, <3>2
    <3>4. r[k - i] = y  BY <1>1, <3>1, <3>3
    <3> QED  BY <1>2, <3>3, <3>4 DEF ToSet
  <2> QED  BY <2>1, <2>2
<1>6. IsFiniteSet(first) /\ Cardinality(first) = i
  <2> DEFINE at == [j \in 1..i |-> s[j]]
  <2>1. at \in Surjection(1..i, first)  BY DEF Surjection
  <2>2. \A j, k \in 1..i : s[j] = s[k] => j = k  BY <1>0 DEF IsInjective
  <2>3. at \in Injection(1..i, first)  BY <2>1, <2>2 DEF Injection, IsInjective, Surjection
  <2>4. IsFiniteSet(1..i) /\ Cardinality(1..i) = i  BY <1>0, FS_Interval
  <2> HIDE DEF at
  <2> QED  BY <2>1, <2>3, <2>4, FS_Surjection
<1>7. i = Len(s) => ToSet(r) = {}
  <2>1. i = Len(s) => DOMAIN r = {}  BY <1>0, <1>2
  <2> QED  BY <2>1 DEF ToSet
<1>8. ToSet(r) = ToSet(s) \ first  BY <1>5
<1> HIDE DEF first
<1>9. IsRest(S, s, i, first, r)  BY <1>1, <1>3, <1>4, <1>6, <1>7, <1>8 DEF IsRest
<1> QED  BY <1>9 DEF r, first

------------------------------------------------------------------------------
(***************************************************************************)
(* Holders.                                                                *)
(***************************************************************************)
\* Thread t goes on to x.
Moves(th, t, x, ts) ==
  th \in [Threads -> Thread] /\ t \in Threads /\ x \in Thread /\ ts = [th EXCEPT ![t] = x]

\* A thread that takes a handle, or gives it back, changes the holders of no other.
LEMMA HoldersAre ==
  ASSUME NEW th, NEW t, NEW x, NEW ts, Moves(th, t, x, ts)
  PROVE  /\ ts \in [Threads -> Thread] /\ ts[t] = x /\ \A s \in Threads \ {t} : ts[s] = th[s]
         /\ \A h : /\ IsFiniteSet(Holders(th, h)) /\ Cardinality(Holders(th, h)) \in Nat
                   /\ Holders(th, h) = {} <=> Cardinality(Holders(th, h)) = 0
                   /\ h # th[t].handle /\ h # x.handle => Holders(ts, h) = Holders(th, h)
         /\ th[t].handle = 0 /\ x.handle # 0 =>
              /\ Holders(ts, x.handle) # {}
              /\ Cardinality(Holders(ts, x.handle)) = Cardinality(Holders(th, x.handle)) + 1
         /\ th[t].handle # 0 /\ x.handle = 0 =>
              /\ Holders(th, th[t].handle) # {}
              /\ Cardinality(Holders(th, th[t].handle))
                   = Cardinality(Holders(ts, th[t].handle)) + 1
<1> USE DEF Moves
<1>1. ts \in [Threads -> Thread] /\ ts[t] = x /\ \A s \in Threads \ {t} : ts[s] = th[s]
  OBVIOUS
<1>2. ASSUME NEW h, NEW f
      PROVE  /\ IsFiniteSet(Holders(f, h)) /\ Cardinality(Holders(f, h)) \in Nat
             /\ Holders(f, h) = {} <=> Cardinality(Holders(f, h)) = 0
  <2>1. Holders(f, h) \in SUBSET Threads /\ IsFiniteSet(Threads)  BY CacheAssumption DEF Holders
  <2>2. IsFiniteSet(Holders(f, h))  BY <2>1, FS_Subset
  <2> QED  BY <2>2, FS_CardinalityType, FS_EmptySet
<1>3. ASSUME NEW h, h # th[t].handle, h # x.handle
      PROVE  Holders(ts, h) = Holders(th, h)
  BY <1>1, <1>3 DEF Holders
<1>4. ASSUME th[t].handle = 0, x.handle # 0
      PROVE  /\ Holders(ts, x.handle) # {}
             /\ Cardinality(Holders(ts, x.handle)) = Cardinality(Holders(th, x.handle)) + 1
  <2>1. Holders(ts, x.handle) = Holders(th, x.handle) \cup {t} /\ t \notin Holders(th, x.handle)
    BY <1>1, <1>4 DEF Holders
  <2> QED  BY <1>2, <2>1, FS_AddElement
<1>5. ASSUME th[t].handle # 0, x.handle = 0
      PROVE  /\ Holders(th, th[t].handle) # {}
             /\ Cardinality(Holders(th, th[t].handle))
                  = Cardinality(Holders(ts, th[t].handle)) + 1
  <2>1. /\ Holders(th, th[t].handle) = Holders(ts, th[t].handle) \cup {t}
        /\ t \notin Holders(ts, th[t].handle)
    BY <1>1, <1>5 DEF Holders
  <2> QED  BY <1>2, <2>1, FS_AddElement
<1> QED  BY <1>1, <1>2, <1>3, <1>4, <1>5, ZenonT(60)

------------------------------------------------------------------------------
(***************************************************************************)
(* LRUCache.                                                               *)
(***************************************************************************)
\* What is in the hash table is allocated, and has a thread if it has two references.
LEMMA CachedIs ==
  ASSUME NEW e, NEW l, NEW u, NEW n, NEW th, Good(e, l, u, n, th)
  PROVE  /\ IsFiniteSet(Cached(e)) /\ Cached(e) \subseteq Handles
         /\ \A h \in Cached(e) :
              /\ e[h] # Free /\ e[h].key \in Tables /\ e[h].refs \in Nat
              /\ e[h].refs = Cardinality(Holders(th, h)) + 1
              /\ e[h].refs = 1 <=> Holders(th, h) = {}
              /\ e[h].refs = 1 <=> h \in ToSet(l)
              /\ e[h].refs # 1 <=> h \in u
<1>1. IsFiniteSet(Cached(e)) /\ Cached(e) \subseteq Handles
  <2>1. Cached(e) \in SUBSET Handles  BY DEF Cached
  <2> QED  BY <2>1, FS_Subset, CacheAssumption
<1>2. ASSUME NEW h \in Cached(e)
      PROVE  /\ e[h] # Free /\ e[h].key \in Tables /\ e[h].refs \in Nat
             /\ e[h].refs = Cardinality(Holders(th, h)) + 1
             /\ e[h].refs = 1 <=> Holders(th, h) = {}
  <2>1. h \in Handles /\ e[h].inCache  BY DEF Cached
  <2>2. e[h] # Free  BY <2>1 DEF Free
  <2>3. Cardinality(Holders(th, h)) \in Nat
        /\ (Holders(th, h) = {} <=> Cardinality(Holders(th, h)) = 0)
    <3>1. Holders(th, h) \in SUBSET Threads  BY DEF Holders
    <3>2. IsFiniteSet(Holders(th, h))  BY <3>1, FS_Subset, CacheAssumption
    <3> QED  BY <3>2, FS_CardinalityType, FS_EmptySet
  <2>4. e[h].key \in Tables /\ e[h].refs = Cardinality(Holders(th, h)) + 1
    BY <2>1, <2>2 DEF Good, CountInv
  <2> QED  BY <2>2, <2>3, <2>4
<1>3. \A h \in Cached(e) : /\ Holders(th, h) = {} <=> h \in ToSet(l)
                           /\ Holders(th, h) # {} <=> h \in u
  BY DEF Good, ListInv
<1> QED  BY <1>1, <1>2, <1>3

\* Entry h becomes x while the threads go to ts: what is to be shown of this one entry, on its
\* list and in the usage, when it is taken for a table, used, given back or erased.
Changes(e, l, u, n, th, h, x, f, l1, u1, n1, ts) ==
  /\ h \in Handles /\ x \in Entry /\ f = [e EXCEPT ![h] = x]
  /\ ts \in [Threads -> Thread] /\ StagesInv(f, ts)
  /\ \A g \in Handles : g # h => Holders(ts, g) = Holders(th, g)
  /\ x # Free => /\ x.key \in Tables /\ x.refs # 0
                 /\ x.refs = Cardinality(Holders(ts, h)) + (IF x.inCache THEN 1 ELSE 0)
  /\ x.inCache => \A g \in Cached(e) : e[g].key = x.key => g = h
  /\ l1 \in Seq(Handles) /\ IsInjective(l1)
  /\ ToSet(l1) = (ToSet(l) \ {h}) \cup {g \in {h} : x.inCache /\ Holders(ts, h) = {}}
  /\ u1 = (u \ {h}) \cup {g \in {h} : x.inCache /\ Holders(ts, h) # {}}
  /\ n1 = n + (IF x.inCache THEN 1 ELSE 0) - (IF e[h].inCache THEN 1 ELSE 0)

\* A cache of which one entry changes, as it should, is one the program can have.
LEMMA EntryChanges ==
  ASSUME NEW e, NEW l, NEW u, NEW n, NEW th, Good(e, l, u, n, th),
         NEW h, NEW x, NEW f, NEW ts, NEW l1, NEW u1, NEW n1,
         Changes(e, l, u, n, th, h, x, f, l1, u1, n1, ts)
  PROVE  Good(f, l1, u1, n1, ts)
<1> USE DEF Changes
<1>1. /\ e \in [Handles -> Entry] /\ th \in [Threads -> Thread] /\ u \subseteq Handles
      /\ CountInv(e, th) /\ TableInv(e) /\ ListInv(e, l, u, th)
      /\ n = Cardinality(Cached(e)) /\ n \in Nat
  BY DEF Good, Typed
<1>2. f \in [Handles -> Entry] /\ f[h] = x /\ \A g \in Handles : g # h => f[g] = e[g]
  BY <1>1
<1>3. \A g : /\ g # h => (g \in Cached(f) <=> g \in Cached(e))
             /\ h \in Cached(f) <=> x.inCache
             /\ h \in Cached(e) <=> e[h].inCache
  BY <1>2 DEF Cached
<1>4. u1 \subseteq Handles  BY <1>1
<1>5. n1 \in Nat /\ n1 = Cardinality(Cached(f))
  <2>1. IsFiniteSet(Cached(e))  BY CachedIs
  <2>2. x.inCache \in BOOLEAN /\ e[h].inCache \in BOOLEAN  BY <1>1 DEF Entry
  <2>3. CASE x.inCache <=> e[h].inCache
    <3>1. Cached(f) = Cached(e)
      <4>1. \A g : g \in Cached(f) <=> g \in Cached(e)  BY <1>3, <2>3
      <4> QED  BY <4>1, Zenon
    <3>2. n1 = n  BY <1>1, <2>2, <2>3
    <3> QED  BY <1>1, <3>1, <3>2
  <2>4. CASE x.inCache /\ ~e[h].inCache
    <3>1. Cached(f) = Cached(e) \cup {h} /\ h \notin Cached(e)
      <4>1. \A g : g \in Cached(f) <=> g \in Cached(e) \cup {h}  BY <1>3, <2>4
      <4> QED  BY <1>3, <2>4, <4>1, Zenon
    <3>2. n1 = n + 1  BY <1>1, <2>4
    <3>3. Cardinality(Cached(e) \cup {h}) = Cardinality(Cached(e)) + 1
      BY <2>1, <3>1, FS_AddElement
    <3>4. n1 \in Nat  BY <1>1, <3>2
    <3> QED  BY <1>1, <3>1, <3>2, <3>3, <3>4, Zenon
  <2>5. CASE ~x.inCache /\ e[h].inCache
    <3>1. Cached(e) = Cached(f) \cup {h} /\ h \notin Cached(f)
      <4>1. \A g : g \in Cached(e) <=> g \in Cached(f) \cup {h}  BY <1>3, <2>5
      <4> QED  BY <1>3, <2>5, <4>1, Zenon
    <3>2. n1 = n - 1  BY <1>1, <2>5
    <3>3. Cached(f) \in SUBSET Cached(e)  BY <3>1
    <3>4. IsFiniteSet(Cached(f))  BY <2>1, <3>3, FS_Subset
    <3>5. Cardinality(Cached(f) \cup {h}) = Cardinality(Cached(f)) + 1
      BY <3>1, <3>4, FS_AddElement
    <3>6. Cardinality(Cached(f)) \in Nat  BY <3>4, FS_CardinalityType
    <3> QED  BY <1>1, <3>1, <3>2, <3>5, <3>6
  <2> QED  BY <2>2, <2>3, <2>4, <2>5
<1>6. Typed(f, l1, u1, n1, ts)  BY <1>2, <1>4, <1>5 DEF Typed
<1>7. CountInv(f, ts)
  <2> SUFFICES ASSUME NEW g \in Handles, f[g] # Free
               PROVE  /\ f[g].key \in Tables /\ f[g].refs # 0
                      /\ f[g].refs = Cardinality(Holders(ts, g)) + (IF f[g].inCache THEN 1 ELSE 0)
    BY DEF CountInv
  <2>1. CASE g = h  BY <1>2, <2>1
  <2>2. CASE g # h
    <3>1. f[g] = e[g] /\ Holders(ts, g) = Holders(th, g)  BY <1>2, <2>2
    <3> QED  BY <1>1, <3>1 DEF CountInv
  <2> QED  BY <2>1, <2>2
<1>8. TableInv(f)
  <2> SUFFICES ASSUME NEW g \in Cached(f), NEW k \in Cached(f), f[g].key = f[k].key
               PROVE  g = k
    BY DEF TableInv
  <2>1. g \in Handles /\ k \in Handles  BY DEF Cached
  <2>2. CASE g # h /\ k # h  BY <1>1, <1>2, <1>3, <2>1, <2>2 DEF TableInv
  <2>3. CASE g = h /\ k # h  BY <1>2, <1>3, <2>1, <2>3
  <2>4. CASE g # h /\ k = h  BY <1>2, <1>3, <2>1, <2>4
  <2> QED  BY <2>2, <2>3, <2>4
<1>9. ListInv(f, l1, u1, ts)
  <2>1. ASSUME NEW g
        PROVE  /\ g \in ToSet(l1) <=> g \in Cached(f) /\ Holders(ts, g) = {}
               /\ g \in u1 <=> g \in Cached(f) /\ Holders(ts, g) # {}
    <3>1. CASE g = h  BY <1>3, <3>1
    <3>2. CASE g # h
      <4>1. g \in ToSet(l) <=> g \in Cached(e) /\ Holders(th, g) = {}  BY <1>1 DEF ListInv
      <4>2. g \in u <=> g \in Cached(e) /\ Holders(th, g) # {}  BY <1>1 DEF ListInv
      <4>3. g \in Cached(e) => Holders(ts, g) = Holders(th, g)  BY <3>2 DEF Cached
      <4>4. /\ g \in ToSet(l1) <=> g \in ToSet(l)
            /\ g \in u1 <=> g \in u
            /\ g \in Cached(f) <=> g \in Cached(e)
        BY <1>3, <3>2
      <4> QED  BY <4>1, <4>2, <4>3, <4>4
    <3> QED  BY <3>1, <3>2
  <2> QED  BY <2>1 DEF ListInv
<1> QED  BY <1>5, <1>6, <1>7, <1>8, <1>9 DEF Good

\* The handle a thread has, or the one in the hash table it takes, is allocated for its table;
\* an entry nobody allocated has no thread.
LEMMA HandleIs ==
  ASSUME NEW e, NEW l, NEW u, NEW n, NEW th, Good(e, l, u, n, th)
  PROVE  /\ \A h \in Handles : e[h] = Free => Holders(th, h) = {}
         /\ \A t \in Threads : th[t].handle # 0 =>
              /\ th[t].handle \in Handles /\ e[th[t].handle] # Free
              /\ Holders(th, th[t].handle) # {}
<1>1. /\ e \in [Handles -> Entry] /\ th \in [Threads -> Thread] /\ StagesInv(e, th)
      /\ NoTable \notin Tables
  BY CacheAssumption DEF Good, Typed
<1>2. ASSUME NEW t \in Threads, th[t].handle # 0
      PROVE  /\ th[t].handle \in Handles /\ e[th[t].handle] # Free
             /\ Holders(th, th[t].handle) # {}
  <2>1. th[t].handle \in Handles  BY <1>1, <1>2 DEF Thread
  <2>2. th[t].at = "using" /\ e[th[t].handle].key = th[t].table  BY <1>1, <1>2 DEF StagesInv
  <2>3. th[t].table \in Tables  BY <1>1, <2>2 DEF StagesInv
  <2>4. e[th[t].handle] # Free  BY <1>1, <2>2, <2>3 DEF Free
  <2>5. t \in Holders(th, th[t].handle)  BY DEF Holders
  <2> QED  BY <2>1, <2>4, <2>5
<1>3. ASSUME NEW h \in Handles, e[h] = Free PROVE Holders(th, h) = {}
  <2>1. h # 0  BY CacheAssumption
  <2> QED  BY <1>2, <1>3, <2>1 DEF Holders
<1> QED  BY <1>2, <1>3

\* Ref: a thread takes an entry of the hash table.
LEMMA RefKeeps ==
  ASSUME NEW e, NEW l, NEW u, NEW n, NEW th, Good(e, l, u, n, th),
         NEW c, NEW h \in Cached(e), NEW t \in Threads, NEW ts, NEW d
  PROVE  /\ c = [entries |-> e, lru |-> l, inUse |-> u, usage |-> n]
         /\ th[t].handle = 0
         /\ ts = [th EXCEPT ![t] = [at |-> "using", table |-> e[h].key, handle |-> h]]
         /\ d = Ref(c, h)
         => Good(d.entries, d.lru, d.inUse, d.usage, ts) /\ d.usage <= n
<1>c. SUFFICES ASSUME c = [entries |-> e, lru |-> l, inUse |-> u, usage |-> n],
                      d = Ref(c, h), th[t].handle = 0,
                      ts = [th EXCEPT ![t] = [at |-> "using", table |-> e[h].key, handle |-> h]]
               PROVE  Good(d.entries, d.lru, d.inUse, d.usage, ts) /\ d.usage <= n
  OBVIOUS
<1> DEFINE x == [e[h] EXCEPT !.refs = @ + 1]
           w == [at |-> "using", table |-> e[h].key, handle |-> h]
           f == [e EXCEPT ![h] = x]
           moves == e[h].refs = 1
<1>1. /\ e[h] # Free /\ e[h].key \in Tables /\ e[h].refs \in Nat
      /\ e[h].refs = Cardinality(Holders(th, h)) + 1
      /\ moves <=> h \in ToSet(l)
      /\ ~moves <=> h \in u
  BY CachedIs
<1>2. h \in Handles /\ e[h].inCache /\ h # 0  BY CacheAssumption DEF Cached
<1>3. /\ e \in [Handles -> Entry] /\ th \in [Threads -> Thread] /\ n \in Nat
      /\ l \in Seq(Handles) /\ IsInjective(l) /\ u \subseteq Handles
      /\ StagesInv(e, th) /\ TableInv(e) /\ CountInv(e, th)
  BY DEF Good, Typed
<1>4. /\ x \in Entry /\ x.key = e[h].key /\ x.refs = e[h].refs + 1 /\ x.inCache = e[h].inCache
  <2>1. e[h] \in Entry  BY <1>2, <1>3
  <2> QED  BY <2>1 DEF Entry
<1>5. d = [entries |-> f, lru |-> IF moves THEN RemoveFirst(l, h) ELSE l,
           inUse |-> IF moves THEN u \cup {h} ELSE u, usage |-> n]
  BY <1>c, <1>2, <1>3 DEF Ref
<1>6. w \in Thread /\ w.handle = h  BY <1>1, <1>2 DEF Thread
<1>7. /\ ts \in [Threads -> Thread] /\ ts[t] = w /\ \A s \in Threads \ {t} : ts[s] = th[s]
      /\ \A g \in Handles : g # h => Holders(ts, g) = Holders(th, g)
      /\ Holders(ts, h) # {}
      /\ Cardinality(Holders(ts, h)) = Cardinality(Holders(th, h)) + 1
      /\ Cardinality(Holders(th, h)) \in Nat
  <2>1. Moves(th, t, w, ts) /\ th[t].handle = 0  BY <1>c, <1>3, <1>6 DEF Moves
  <2>2. \A g \in Handles : g # 0  BY CacheAssumption
  <2> HIDE DEF w
  <2>3. /\ ts \in [Threads -> Thread] /\ ts[t] = w /\ \A s \in Threads \ {t} : ts[s] = th[s]
        /\ \A g : /\ Cardinality(Holders(th, g)) \in Nat
                  /\ g # th[t].handle /\ g # w.handle => Holders(ts, g) = Holders(th, g)
        /\ th[t].handle = 0 /\ w.handle # 0 =>
             /\ Holders(ts, w.handle) # {}
             /\ Cardinality(Holders(ts, w.handle)) = Cardinality(Holders(th, w.handle)) + 1
    BY <2>1, HoldersAre
  <2> QED  BY <1>2, <1>6, <2>1, <2>2, <2>3
<1>8. f \in [Handles -> Entry] /\ f[h] = x /\ \A g \in Handles : f[g].key = e[g].key
  BY <1>2, <1>3, <1>4
<1>9. StagesInv(f, ts)
  <2> SUFFICES ASSUME NEW s \in Threads
               PROVE  /\ ts[s].handle # 0 <=> ts[s].at = "using"
                      /\ ts[s].at # "idle" => ts[s].table \in Tables
                      /\ ts[s].handle # 0 => f[ts[s].handle].key = ts[s].table
    BY DEF StagesInv
  <2>1. CASE s = t
    <3>1. ts[s].handle = h /\ ts[s].at = "using" /\ ts[s].table = e[h].key
      BY <1>7, <2>1
    <3> HIDE DEF f
    <3> QED  BY <1>1, <1>2, <1>8, <3>1
  <2>2. CASE s # t
    <3>1. ts[s] = th[s] /\ th[s] \in Thread  BY <1>3, <1>7, <2>2
    <3>2. th[s].handle # 0 => th[s].handle \in Handles  BY <3>1 DEF Thread
    <3> HIDE DEF f
    <3> QED  BY <1>3, <1>8, <3>1, <3>2 DEF StagesInv
  <2> QED  BY <2>1, <2>2
<1>10. /\ d.lru \in Seq(Handles) /\ IsInjective(d.lru)
       /\ ToSet(d.lru) = ToSet(l) \ {h}
  <2>1. /\ RemoveFirst(l, h) \in Seq(Handles) /\ IsInjective(RemoveFirst(l, h))
        /\ ToSet(RemoveFirst(l, h)) = ToSet(l) \ {h}
    BY <1>3, RemoveFirstIs
  <2>2. CASE moves  BY <1>5, <2>1, <2>2
  <2>3. CASE ~moves  BY <1>1, <1>3, <1>5, <2>3
  <2> QED  BY <2>2, <2>3
<1>11. d.inUse = (u \ {h}) \cup {h}  BY <1>1, <1>5
<1>12. x.key \in Tables /\ x.refs # 0
       /\ x.refs = Cardinality(Holders(ts, h)) + (IF x.inCache THEN 1 ELSE 0)
  <2> HIDE DEF x
  <2> QED  BY <1>1, <1>2, <1>4, <1>7
<1>13. \A g \in Cached(e) : e[g].key = x.key => g = h  BY <1>3, <1>4 DEF TableInv
<1>14. d.usage = n /\ d.entries = f
  <2> DEFINE l2 == IF moves THEN RemoveFirst(l, h) ELSE l
             u2 == IF moves THEN u \cup {h} ELSE u
  <2>1. d = [entries |-> f, lru |-> l2, inUse |-> u2, usage |-> n]  BY <1>5
  <2> HIDE DEF x, f, l2, u2
  <2> QED  BY <2>1, Zenon
<1> HIDE DEF x, f
<1>15. d.usage = n + (IF x.inCache THEN 1 ELSE 0) - (IF e[h].inCache THEN 1 ELSE 0)
  BY <1>2, <1>3, <1>4, <1>14
<1>16. ToSet(d.lru) = (ToSet(l) \ {h}) \cup {g \in {h} : x.inCache /\ Holders(ts, h) = {}}
  BY <1>7, <1>10
<1>17. d.inUse = (u \ {h}) \cup {g \in {h} : x.inCache /\ Holders(ts, h) # {}}
  BY <1>2, <1>4, <1>7, <1>11
<1>18. f = [e EXCEPT ![h] = x]  BY DEF f
<1>19. Changes(e, l, u, n, th, h, x, f, d.lru, d.inUse, d.usage, ts)
  BY <1>2, <1>4, <1>7, <1>9, <1>10, <1>12, <1>13, <1>15, <1>16, <1>17, <1>18 DEF Changes
<1>20. Good(f, d.lru, d.inUse, d.usage, ts)  BY <1>19, EntryChanges
<1> QED  BY <1>3, <1>14, <1>20

\* Unref: a thread gives its handle back.
LEMMA UnrefKeeps ==
  ASSUME NEW e, NEW l, NEW u, NEW n, NEW th, Good(e, l, u, n, th),
         NEW c, NEW t \in Threads, th[t].at = "using", NEW ts, NEW d
  PROVE  /\ c = [entries |-> e, lru |-> l, inUse |-> u, usage |-> n]
         /\ ts = [th EXCEPT ![t] = Resting]
         /\ d = Unref(c, th[t].handle)
         => Good(d.entries, d.lru, d.inUse, d.usage, ts) /\ d.usage <= n
<1>c. SUFFICES ASSUME c = [entries |-> e, lru |-> l, inUse |-> u, usage |-> n],
                      d = Unref(c, th[t].handle), ts = [th EXCEPT ![t] = Resting]
               PROVE  Good(d.entries, d.lru, d.inUse, d.usage, ts) /\ d.usage <= n
  OBVIOUS
<1> DEFINE h == th[t].handle
           x == IF e[h].refs = 1 THEN Free ELSE [e[h] EXCEPT !.refs = @ - 1]
           f == [e EXCEPT ![h] = x]
           moves == e[h].refs = 2 /\ e[h].inCache
           one == IF e[h].inCache THEN 1 ELSE 0
<1>1. /\ e \in [Handles -> Entry] /\ th \in [Threads -> Thread] /\ n \in Nat
      /\ l \in Seq(Handles) /\ IsInjective(l) /\ u \subseteq Handles
      /\ StagesInv(e, th) /\ TableInv(e) /\ CountInv(e, th) /\ ListInv(e, l, u, th)
  BY DEF Good, Typed
<1>2. th[t].handle # 0  BY <1>1 DEF StagesInv
<1>3. h \in Handles /\ e[h] # Free /\ Holders(th, h) # {} /\ h # 0  BY <1>2, HandleIs
<1>4. /\ e[h].key \in Tables /\ e[h].refs \in Nat /\ e[h].refs # 0 /\ e[h].inCache \in BOOLEAN
      /\ e[h].refs = Cardinality(Holders(th, h)) + one
  BY <1>1, <1>3 DEF CountInv, Entry
<1>5. h \notin ToSet(l) /\ (h \in u <=> e[h].inCache)
  BY <1>1, <1>3 DEF ListInv, Cached
<1>6. Resting \in Thread /\ Resting.handle = 0 /\ Resting.at = "idle"
  BY DEF Resting, Thread
<1>7. /\ ts \in [Threads -> Thread] /\ ts[t] = Resting /\ \A s \in Threads \ {t} : ts[s] = th[s]
      /\ \A g \in Handles : g # h => Holders(ts, g) = Holders(th, g)
      /\ Cardinality(Holders(th, h)) = Cardinality(Holders(ts, h)) + 1
  <2>1. Moves(th, t, Resting, ts)  BY <1>c, <1>1, <1>6 DEF Moves
  <2>2. /\ ts \in [Threads -> Thread] /\ ts[t] = Resting
        /\ \A s \in Threads \ {t} : ts[s] = th[s]
        /\ \A g : g # th[t].handle /\ g # Resting.handle => Holders(ts, g) = Holders(th, g)
        /\ th[t].handle # 0 /\ Resting.handle = 0 =>
             Cardinality(Holders(th, th[t].handle)) = Cardinality(Holders(ts, th[t].handle)) + 1
    BY <2>1, HoldersAre
  <2>3. \A g \in Handles : g # 0  BY CacheAssumption
  <2> QED  BY <1>2, <1>6, <2>2, <2>3
<1>8. /\ Cardinality(Holders(ts, h)) \in Nat
      /\ Holders(ts, h) = {} <=> Cardinality(Holders(ts, h)) = 0
  <2>1. Holders(ts, h) \in SUBSET Threads  BY DEF Holders
  <2>2. IsFiniteSet(Holders(ts, h))  BY <2>1, FS_Subset, CacheAssumption
  <2> QED  BY <2>2, FS_CardinalityType, FS_EmptySet
<1> HIDE DEF h
<1>9. e[h].refs = Cardinality(Holders(ts, h)) + 1 + one  BY <1>4, <1>7, <1>8
<1>10. /\ x \in Entry /\ x.key \in Tables \cup {NoTable} /\ x.inCache = e[h].inCache
       /\ e[h].refs = 1 => x = Free /\ ~e[h].inCache /\ Holders(ts, h) = {}
       /\ e[h].refs # 1 => x.key = e[h].key /\ x.refs = e[h].refs - 1
  <2>1. e[h] \in Entry  BY <1>1, <1>3
  <2>2. CASE e[h].refs = 1
    <3>1. one = 0 /\ Holders(ts, h) = {}  BY <1>4, <1>8, <1>9, <2>2
    <3>2. ~e[h].inCache  BY <1>4, <3>1
    <3>3. x = Free  BY <2>2
    <3>4. Free \in Entry /\ ~Free.inCache /\ Free.inCache \in BOOLEAN
      BY DEF Free, Entry
    <3> HIDE DEF x
    <3> QED  BY <1>4, <2>2, <3>1, <3>2, <3>3, <3>4 DEF Entry
  <2>3. CASE e[h].refs # 1
    <3>1. x = [e[h] EXCEPT !.refs = @ - 1] /\ e[h].refs - 1 \in Nat  BY <1>4, <2>3
    <3> HIDE DEF x
    <3> QED  BY <2>1, <2>3, <3>1 DEF Entry
  <2> QED  BY <2>2, <2>3
<1>11. /\ d.entries = f /\ d.usage = n
       /\ d.lru = IF moves THEN Append(l, h) ELSE l
       /\ d.inUse = IF moves THEN u \ {h} ELSE u
  BY <1>c, <1>3, <1>1 DEF Unref, h
<1>12. e[h].inCache => (moves <=> Holders(ts, h) = {})
  BY <1>4, <1>8, <1>9
<1> HIDE DEF x
<1>13. f \in [Handles -> Entry] /\ f[h] = x /\ \A g \in Handles : g # h => f[g] = e[g]
  BY <1>1, <1>3, <1>10
<1>14. StagesInv(f, ts)
  <2> SUFFICES ASSUME NEW s \in Threads
               PROVE  /\ ts[s].handle # 0 <=> ts[s].at = "using"
                      /\ ts[s].at # "idle" => ts[s].table \in Tables
                      /\ ts[s].handle # 0 => f[ts[s].handle].key = ts[s].table
    BY DEF StagesInv
  <2>1. CASE s = t  BY <1>6, <1>7, <2>1
  <2>2. CASE s # t
    <3>1. ts[s] = th[s] /\ th[s] \in Thread  BY <1>1, <1>7, <2>2
    <3>2. th[s].handle # 0 => th[s].handle \in Handles  BY <3>1 DEF Thread
    <3>3. th[s].handle = h => Holders(ts, h) # {}  BY <3>1 DEF Holders
    <3>4. th[s].handle # 0 => f[th[s].handle].key = e[th[s].handle].key
      <4> HIDE DEF f
      <4>1. CASE th[s].handle = h  BY <1>10, <1>13, <3>3, <4>1
      <4>2. CASE th[s].handle # h  BY <1>13, <3>2, <4>2
      <4> QED  BY <4>1, <4>2
    <3> HIDE DEF f
    <3> QED  BY <1>1, <3>1, <3>4 DEF StagesInv
  <2> QED  BY <2>1, <2>2
<1> HIDE DEF f
<1>15. /\ d.lru \in Seq(Handles) /\ IsInjective(d.lru)
       /\ ToSet(d.lru) = ToSet(l) \cup {g \in {h} : moves}
  <2>1. CASE moves
    <3>1. /\ Append(l, h) \in Seq(Handles) /\ IsInjective(Append(l, h))
          /\ ToSet(Append(l, h)) = ToSet(l) \cup {h}
      BY <1>1, <1>3, <1>5, AppendIs
    <3> QED  BY <1>11, <2>1, <3>1
  <2>2. CASE ~moves  BY <1>1, <1>11, <2>2
  <2> QED  BY <2>1, <2>2
<1>16. ToSet(d.lru) = (ToSet(l) \ {h}) \cup {g \in {h} : x.inCache /\ Holders(ts, h) = {}}
  BY <1>5, <1>10, <1>12, <1>15
<1>17. d.inUse = (u \ {h}) \cup {g \in {h} : x.inCache /\ Holders(ts, h) # {}}
  BY <1>5, <1>10, <1>11, <1>12
<1>18. d.usage = n + (IF x.inCache THEN 1 ELSE 0) - (IF e[h].inCache THEN 1 ELSE 0)
  BY <1>1, <1>10, <1>11
<1>19. x # Free => /\ x.key \in Tables /\ x.refs # 0
                   /\ x.refs = Cardinality(Holders(ts, h)) + (IF x.inCache THEN 1 ELSE 0)
  BY <1>4, <1>8, <1>9, <1>10
<1>20. x.inCache => \A g \in Cached(e) : e[g].key = x.key => g = h
  BY <1>1, <1>3, <1>10 DEF TableInv, Cached
<1>21. f = [e EXCEPT ![h] = x]  BY DEF f
<1>22. Changes(e, l, u, n, th, h, x, f, d.lru, d.inUse, d.usage, ts)
  BY <1>3, <1>7, <1>10, <1>14, <1>15, <1>16, <1>17, <1>18, <1>19, <1>20, <1>21 DEF Changes
<1>23. Good(f, d.lru, d.inUse, d.usage, ts)  BY <1>22, EntryChanges
<1> QED  BY <1>1, <1>11, <1>23

\* What FinishErase leaves of a cache with the entries e and the usage n: entry h is out of the
\* hash table, free unless a thread holds it, and the others are as they were.
Erased(e, n, th, h, d) ==
  /\ Good(d.entries, d.lru, d.inUse, d.usage, th) /\ d.usage = n - 1
  /\ Cached(d.entries) = Cached(e) \ {h}
  /\ \A g \in Handles : g # h => d.entries[g] = e[g]
  /\ Holders(th, h) = {} => d.entries[h] = Free
  /\ d = [entries |-> d.entries, lru |-> d.lru, inUse |-> d.inUse, usage |-> d.usage]

\* FinishErase: an entry leaves the hash table, and stays for the threads that hold it.
LEMMA EraseKeeps ==
  ASSUME NEW e, NEW l, NEW u, NEW n, NEW th, Good(e, l, u, n, th),
         NEW c, NEW h, h \in Cached(e), NEW d
  PROVE  /\ c = [entries |-> e, lru |-> l, inUse |-> u, usage |-> n]
         /\ d = FinishErase(c, h)
         => Erased(e, n, th, h, d)
<1>c. SUFFICES ASSUME c = [entries |-> e, lru |-> l, inUse |-> u, usage |-> n],
                      d = FinishErase(c, h)
      PROVE  /\ Good(d.entries, d.lru, d.inUse, d.usage, th) /\ d.usage = n - 1
             /\ Cached(d.entries) = Cached(e) \ {h}
             /\ \A g \in Handles : g # h => d.entries[g] = e[g]
             /\ Holders(th, h) = {} => d.entries[h] = Free
             /\ d = [entries |-> d.entries, lru |-> d.lru, inUse |-> d.inUse, usage |-> d.usage]
  BY DEF Erased
<1> DEFINE x == IF e[h].refs = 1 THEN Free ELSE [e[h] EXCEPT !.inCache = FALSE, !.refs = @ - 1]
           f == [e EXCEPT ![h] = x]
<1>1. /\ e \in [Handles -> Entry] /\ th \in [Threads -> Thread] /\ n \in Nat
      /\ l \in Seq(Handles) /\ IsInjective(l) /\ u \subseteq Handles
      /\ StagesInv(e, th) /\ TableInv(e) /\ CountInv(e, th) /\ ListInv(e, l, u, th)
  BY DEF Good, Typed
<1>2. h \in Handles /\ e[h].inCache  BY DEF Cached
<1>3. /\ e[h] # Free /\ e[h].key \in Tables /\ e[h].refs \in Nat
      /\ e[h].refs = Cardinality(Holders(th, h)) + 1
      /\ e[h].refs = 1 <=> Holders(th, h) = {}
  BY CachedIs
<1>4. Cardinality(Holders(th, h)) \in Nat
  <2>1. Holders(th, h) \in SUBSET Threads  BY DEF Holders
  <2>2. IsFiniteSet(Holders(th, h))  BY <2>1, FS_Subset, CacheAssumption
  <2> QED  BY <2>2, FS_CardinalityType
<1>5. /\ x \in Entry /\ ~x.inCache
      /\ e[h].refs = 1 => x = Free
      /\ e[h].refs # 1 => x.key = e[h].key /\ x.refs = e[h].refs - 1
  <2>1. e[h] \in Entry  BY <1>1, <1>2
  <2>2. CASE e[h].refs = 1
    <3>1. x = Free  BY <2>2
    <3>2. Free \in Entry /\ ~Free.inCache  BY DEF Free, Entry
    <3> HIDE DEF x
    <3> QED  BY <2>2, <3>1, <3>2
  <2>3. CASE e[h].refs # 1
    <3>1. x = [e[h] EXCEPT !.inCache = FALSE, !.refs = @ - 1] /\ e[h].refs - 1 \in Nat
      BY <1>3, <1>4, <2>3
    <3> HIDE DEF x
    <3> QED  BY <2>1, <2>3, <3>1 DEF Entry
  <2> QED  BY <2>2, <2>3
<1>6. /\ d.entries = f /\ d.usage = n - 1 /\ d.lru = RemoveFirst(l, h) /\ d.inUse = u \ {h}
      /\ d = [entries |-> d.entries, lru |-> d.lru, inUse |-> d.inUse, usage |-> d.usage]
  <2> DEFINE y == [e[h] EXCEPT !.inCache = FALSE]
             e1 == [e EXCEPT ![h].inCache = FALSE]
             b == [c EXCEPT !.entries[h].inCache = FALSE, !.lru = RemoveFirst(@, h),
                            !.inUse = @ \ {h}, !.usage = @ - 1]
  <2>1. b = [entries |-> e1, lru |-> RemoveFirst(l, h), inUse |-> u \ {h}, usage |-> n - 1]
    <3> DEFINE r == RemoveFirst(l, h)  v == u \ {h}  m == n - 1
    <3>1. c.entries = e /\ c.lru = l /\ c.inUse = u /\ c.usage = n  BY <1>c
    <3>2. b = [c EXCEPT !.entries = e1, !.lru = r, !.inUse = v, !.usage = m]  BY <3>1
    <3> HIDE DEF e1, b, r, v, m
    <3>3. b = [entries |-> e1, lru |-> r, inUse |-> v, usage |-> m]  BY <1>c, <3>2
    <3> QED  BY <3>3 DEF r, v, m
  <2>2. d = Unref(b, h)  BY <1>c DEF FinishErase
  <2>3. e1[h] = y /\ ~e1[h].inCache /\ e1[h].refs = e[h].refs  BY <1>1, <1>2 DEF Entry
  <2>4. /\ d.entries = [e1 EXCEPT ![h] = IF e1[h].refs = 1 THEN Free
                                         ELSE [e1[h] EXCEPT !.refs = @ - 1]]
        /\ d.lru = RemoveFirst(l, h) /\ d.inUse = u \ {h} /\ d.usage = n - 1
        /\ d = [entries |-> d.entries, lru |-> d.lru, inUse |-> d.inUse, usage |-> d.usage]
    <3> HIDE DEF e1, b
    <3> QED  BY <2>1, <2>2, <2>3 DEF Unref
  <2>5. (IF e1[h].refs = 1 THEN Free ELSE [e1[h] EXCEPT !.refs = @ - 1]) = x
    BY <1>1, <1>2, <2>3 DEF Entry
  <2>6. [e1 EXCEPT ![h] = x] = f
    <3> HIDE DEF x
    <3> QED  BY <1>1, <1>2
  <2> HIDE DEF e1, x, f
  <2> QED  BY <2>4, <2>5, <2>6
<1> HIDE DEF x
<1>7. f \in [Handles -> Entry] /\ f[h] = x /\ \A g \in Handles : g # h => f[g] = e[g]
  BY <1>1, <1>2, <1>5
<1>8. StagesInv(f, th)
  <2> SUFFICES ASSUME NEW s \in Threads, th[s].handle # 0
               PROVE  f[th[s].handle].key = e[th[s].handle].key
    <3> HIDE DEF f
    <3> QED  BY <1>1 DEF StagesInv
  <2>1. th[s].handle \in Handles /\ Holders(th, th[s].handle) # {}  BY HandleIs
  <2> HIDE DEF f
  <2>2. CASE th[s].handle = h  BY <1>3, <1>5, <1>7, <2>1, <2>2
  <2>3. CASE th[s].handle # h  BY <1>7, <2>1, <2>3
  <2> QED  BY <2>2, <2>3
<1>9. f = [e EXCEPT ![h] = x]  OBVIOUS
<1> HIDE DEF f
<1>10. /\ d.lru \in Seq(Handles) /\ IsInjective(d.lru) /\ ToSet(d.lru) = ToSet(l) \ {h}
  <2>1. /\ RemoveFirst(l, h) \in Seq(Handles) /\ IsInjective(RemoveFirst(l, h))
        /\ ToSet(RemoveFirst(l, h)) = ToSet(l) \ {h}
    BY <1>1, RemoveFirstIs
  <2> QED  BY <1>6, <2>1
<1>11. ToSet(d.lru) = (ToSet(l) \ {h}) \cup {g \in {h} : x.inCache /\ Holders(th, h) = {}}
  BY <1>5, <1>10
<1>12. d.inUse = (u \ {h}) \cup {g \in {h} : x.inCache /\ Holders(th, h) # {}}
  BY <1>5, <1>6
<1>13. d.usage = n + (IF x.inCache THEN 1 ELSE 0) - (IF e[h].inCache THEN 1 ELSE 0)
  BY <1>1, <1>2, <1>5, <1>6
<1>14. x # Free => /\ x.key \in Tables /\ x.refs # 0
                   /\ x.refs = Cardinality(Holders(th, h)) + (IF x.inCache THEN 1 ELSE 0)
  BY <1>3, <1>4, <1>5
<1>15. Changes(e, l, u, n, th, h, x, f, d.lru, d.inUse, d.usage, th)
  BY <1>1, <1>2, <1>5, <1>8, <1>9, <1>10, <1>11, <1>12, <1>13, <1>14 DEF Changes
<1>16. Good(f, d.lru, d.inUse, d.usage, th)  BY <1>15, EntryChanges
<1>17. Cached(f) = Cached(e) \ {h}
  <2>1. \A g : g \in Cached(f) <=> g \in Cached(e) \ {h}  BY <1>2, <1>5, <1>7 DEF Cached
  <2> QED  BY <2>1, Zenon
<1>18. Holders(th, h) = {} => f[h] = Free  BY <1>3, <1>5, <1>7
<1> QED  BY <1>6, <1>7, <1>16, <1>17, <1>18

\* Insert, of a free entry for a table that has none in the hash table.
LEMMA AddKeeps ==
  ASSUME NEW e, NEW l, NEW u, NEW n, NEW th, Good(e, l, u, n, th),
         NEW h \in Handles, e[h] = Free, NEW t \in Threads, th[t].at = "opening",
         \A g \in Cached(e) : e[g].key # th[t].table, NEW f, NEW ts
  PROVE  /\ f = [e EXCEPT ![h] = [key |-> th[t].table, refs |-> 2, inCache |-> TRUE]]
         /\ ts = [th EXCEPT ![t].at = "using", ![t].handle = h]
         => Good(f, l, u \cup {h}, n + 1, ts)
<1>c. SUFFICES ASSUME f = [e EXCEPT ![h] = [key |-> th[t].table, refs |-> 2, inCache |-> TRUE]],
                      ts = [th EXCEPT ![t].at = "using", ![t].handle = h]
               PROVE  Good(f, l, u \cup {h}, n + 1, ts)
  OBVIOUS
<1> DEFINE x == [key |-> th[t].table, refs |-> 2, inCache |-> TRUE]
           w == [th[t] EXCEPT !.at = "using", !.handle = h]
<1>1. /\ e \in [Handles -> Entry] /\ th \in [Threads -> Thread] /\ n \in Nat
      /\ l \in Seq(Handles) /\ IsInjective(l) /\ u \subseteq Handles
      /\ StagesInv(e, th) /\ ListInv(e, l, u, th)
  BY DEF Good, Typed
<1>2. ~e[h].inCache /\ h \notin Cached(e)  BY DEF Free, Cached
<1>3. /\ Holders(th, h) = {} /\ h # 0 /\ \A s \in Threads : th[s].handle # h
  <2>1. h # 0 /\ Holders(th, h) = {}  BY HandleIs, CacheAssumption
  <2> QED  BY <2>1 DEF Holders
<1>4. h \notin ToSet(l) /\ h \notin u  BY <1>1, <1>2 DEF ListInv
<1>5. th[t] \in Thread /\ th[t].handle = 0 /\ th[t].table \in Tables
  BY <1>1 DEF StagesInv
<1>6. /\ w \in Thread /\ w.handle = h /\ w.at = "using" /\ w.table = th[t].table
  BY <1>5 DEF Thread
<1>7. /\ x \in Entry /\ x.key = th[t].table /\ x.key \in Tables /\ x.refs = 2 /\ x.inCache
      /\ x.inCache = TRUE
  BY <1>5 DEF Entry
<1>8. f = [e EXCEPT ![h] = x] /\ ts = [th EXCEPT ![t] = w]  BY <1>c, <1>1
<1> HIDE DEF x, w
<1>9. /\ ts \in [Threads -> Thread] /\ ts[t] = w /\ \A s \in Threads \ {t} : ts[s] = th[s]
      /\ \A g \in Handles : g # h => Holders(ts, g) = Holders(th, g)
      /\ Holders(ts, h) # {} /\ Cardinality(Holders(ts, h)) = 1
  <2>1. Moves(th, t, w, ts)  BY <1>1, <1>6, <1>8 DEF Moves
  <2>2. /\ ts \in [Threads -> Thread] /\ ts[t] = w /\ \A s \in Threads \ {t} : ts[s] = th[s]
        /\ \A g : /\ Holders(th, g) = {} <=> Cardinality(Holders(th, g)) = 0
                  /\ g # th[t].handle /\ g # w.handle => Holders(ts, g) = Holders(th, g)
        /\ th[t].handle = 0 /\ w.handle # 0 =>
             /\ Holders(ts, w.handle) # {}
             /\ Cardinality(Holders(ts, w.handle)) = Cardinality(Holders(th, w.handle)) + 1
    BY <2>1, HoldersAre
  <2>3. \A g \in Handles : g # 0  BY CacheAssumption
  <2> QED  BY <1>3, <1>5, <1>6, <2>2, <2>3
<1>10. f \in [Handles -> Entry] /\ f[h] = x /\ \A g \in Handles : g # h => f[g] = e[g]
  BY <1>1, <1>7, <1>8
<1>11. StagesInv(f, ts)
  <2> SUFFICES ASSUME NEW s \in Threads
               PROVE  /\ ts[s].handle # 0 <=> ts[s].at = "using"
                      /\ ts[s].at # "idle" => ts[s].table \in Tables
                      /\ ts[s].handle # 0 => f[ts[s].handle].key = ts[s].table
    BY DEF StagesInv
  <2>1. CASE s = t  BY <1>3, <1>5, <1>6, <1>7, <1>9, <1>10, <2>1
  <2>2. CASE s # t
    <3>1. ts[s] = th[s] /\ th[s] \in Thread  BY <1>1, <1>9, <2>2
    <3>2. th[s].handle # 0 => th[s].handle \in Handles  BY <3>1 DEF Thread
    <3>3. th[s].handle # 0 => f[th[s].handle] = e[th[s].handle]  BY <1>3, <1>10, <3>2
    <3> QED  BY <1>1, <3>1, <3>3 DEF StagesInv
  <2> QED  BY <2>1, <2>2
<1> DEFINE v == u \cup {h}
           m == n + 1
<1>12. ToSet(l) = (ToSet(l) \ {h}) \cup {g \in {h} : x.inCache /\ Holders(ts, h) = {}}
  BY <1>4, <1>9
<1>13. v = (u \ {h}) \cup {g \in {h} : x.inCache /\ Holders(ts, h) # {}}
  BY <1>7, <1>9
<1>14. m = n + (IF x.inCache THEN 1 ELSE 0) - (IF e[h].inCache THEN 1 ELSE 0)
  BY <1>1, <1>2, <1>7
<1>15. x.refs = Cardinality(Holders(ts, h)) + (IF x.inCache THEN 1 ELSE 0) /\ x.refs # 0
  BY <1>7, <1>9
<1> HIDE DEF v, m
<1>16. Changes(e, l, u, n, th, h, x, f, l, v, m, ts)
  BY <1>1, <1>7, <1>8, <1>9, <1>11, <1>12, <1>13, <1>14, <1>15 DEF Changes
<1>17. Good(f, l, v, m, ts)  BY <1>16, EntryChanges
<1> QED  BY <1>17 DEF v, m

\* Replace: no entry of table k is left in the hash table, and what is free stays so.
LEMMA ReplaceKeeps ==
  ASSUME NEW e, NEW l, NEW u, NEW n, NEW th, Good(e, l, u, n, th),
         NEW c, NEW k, NEW d
  PROVE  /\ c = [entries |-> e, lru |-> l, inUse |-> u, usage |-> n]
         /\ d = Replace(c, k)
         => /\ Good(d.entries, d.lru, d.inUse, d.usage, th) /\ d.usage <= n
            /\ \A g \in Cached(d.entries) : d.entries[g].key # k
            /\ \A g \in Handles : e[g] = Free => d.entries[g] = Free
            /\ d = [entries |-> d.entries, lru |-> d.lru, inUse |-> d.inUse, usage |-> d.usage]
<1>c. SUFFICES ASSUME c = [entries |-> e, lru |-> l, inUse |-> u, usage |-> n],
                      d = Replace(c, k)
      PROVE  /\ Good(d.entries, d.lru, d.inUse, d.usage, th) /\ d.usage <= n
             /\ \A g \in Cached(d.entries) : d.entries[g].key # k
             /\ \A g \in Handles : e[g] = Free => d.entries[g] = Free
             /\ d = [entries |-> d.entries, lru |-> d.lru, inUse |-> d.inUse, usage |-> d.usage]
  OBVIOUS
<1>1. n \in Nat /\ TableInv(e)  BY DEF Good, Typed
<1>2. \A g : g \in InTable(c, k) <=> g \in Cached(e) /\ e[g].key = k
  BY <1>c DEF InTable, Cached
<1>3. CASE InTable(c, k) = {}
  <2>1. d = c  BY <1>c, <1>3 DEF Replace
  <2>2. d.entries = e /\ d.lru = l /\ d.inUse = u /\ d.usage = n  BY <1>c, <2>1
  <2>3. d = [entries |-> d.entries, lru |-> d.lru, inUse |-> d.inUse, usage |-> d.usage]
    BY <1>c, <2>1, <2>2
  <2> QED  BY <1>1, <1>2, <1>3, <2>2, <2>3
<1>4. CASE InTable(c, k) # {}
  <2> DEFINE h == CHOOSE h \in InTable(c, k) : TRUE
  <2>1. h \in InTable(c, k)  BY <1>4
  <2>2. d = FinishErase(c, h)  BY <1>c, <1>4 DEF Replace
  <2> HIDE DEF h
  <2>3. h \in Cached(e) /\ e[h].key = k  BY <1>2, <2>1
  <2>4. /\ Good(d.entries, d.lru, d.inUse, d.usage, th) /\ d.usage = n - 1
        /\ Cached(d.entries) = Cached(e) \ {h}
        /\ \A g \in Handles : g # h => d.entries[g] = e[g]
        /\ d = [entries |-> d.entries, lru |-> d.lru, inUse |-> d.inUse, usage |-> d.usage]
    <3>1. Erased(e, n, th, h, d)  BY <1>c, <2>2, <2>3, EraseKeeps
    <3> QED  BY <3>1 DEF Erased
  <2>5. \A g \in Cached(d.entries) : d.entries[g].key # k
    <3>1. \A g \in Cached(d.entries) : g \in Cached(e) /\ g # h /\ g \in Handles
      BY <2>4 DEF Cached
    <3> QED  BY <1>1, <2>3, <2>4, <3>1 DEF TableInv
  <2>6. e[h] # Free  BY <2>3 DEF Cached, Free
  <2> QED  BY <1>1, <2>4, <2>5, <2>6
<1> QED  BY <1>3, <1>4

\* With no entry for nobody, the hash table has no more than the threads hold.
LEMMA HeldAreFew ==
  ASSUME NEW e, NEW th, th \in [Threads -> Thread],
         \A h \in Cached(e) : Holders(th, h) # {}
  PROVE  Cardinality(Cached(e)) <= Cardinality(Threads)
<1> DEFINE T == {t \in Threads : th[t].handle \in Cached(e)}
           held == [t \in T |-> th[t].handle]
<1>1. \A h \in Cached(e) : \E t \in T : held[t] = h  BY DEF Holders
<1>2. held \in Surjection(T, Cached(e))
  <2>1. held \in [T -> Cached(e)]  OBVIOUS
  <2> HIDE DEF T, held
  <2> QED  BY <1>1, <2>1 DEF Surjection
<1>3. IsFiniteSet(Threads) /\ T \in SUBSET Threads  BY CacheAssumption
<1> HIDE DEF T, held
<1>4. IsFiniteSet(T) /\ Cardinality(T) <= Cardinality(Threads)  BY <1>3, FS_Subset
<1>5. IsFiniteSet(Cached(e)) /\ Cardinality(Cached(e)) <= Cardinality(T)
  BY <1>2, <1>4, FS_Surjection
<1>6. /\ Cardinality(T) \in Nat /\ Cardinality(Threads) \in Nat
      /\ Cardinality(Cached(e)) \in Nat
  BY <1>3, <1>4, <1>5, FS_CardinalityType
<1> QED  BY <1>4, <1>5, <1>6

\* The end of Insert: the oldest entries that no thread holds are freed, down to the capacity.
LEMMA OldestKeeps ==
  ASSUME NEW e, NEW l, NEW u, NEW n, NEW th, Good(e, l, u, n, th), NEW c, NEW d
  PROVE  /\ c = [entries |-> e, lru |-> l, inUse |-> u, usage |-> n]
         /\ d = EvictOldest(c)
         => Good(d.entries, d.lru, d.inUse, d.usage, th) /\ Bounded(d.usage)
<1>c. SUFFICES ASSUME c = [entries |-> e, lru |-> l, inUse |-> u, usage |-> n],
                      d = EvictOldest(c)
               PROVE  Good(d.entries, d.lru, d.inUse, d.usage, th) /\ Bounded(d.usage)
  OBVIOUS
<1> DEFINE excess == n - Capacity
           k == IF excess <= 0 THEN 0 ELSE IF excess < Len(l) THEN excess ELSE Len(l)
           oldest == {l[i] : i \in 1..k}
           f == [h \in Handles |-> IF h \in oldest THEN Free ELSE e[h]]
           r == SubSeq(l, k + 1, Len(l))
<1>1. /\ e \in [Handles -> Entry] /\ th \in [Threads -> Thread] /\ n \in Nat
      /\ l \in Seq(Handles) /\ IsInjective(l) /\ u \subseteq Handles
      /\ StagesInv(e, th) /\ CountInv(e, th) /\ TableInv(e) /\ ListInv(e, l, u, th)
      /\ n = Cardinality(Cached(e)) /\ Capacity \in Nat /\ Len(l) \in Nat
  BY CacheAssumption DEF Good, Typed
<1>2. k \in 0..Len(l)  BY <1>1
<1>3. /\ r \in Seq(Handles) /\ IsInjective(r) /\ ToSet(r) = ToSet(l) \ oldest
      /\ oldest \subseteq ToSet(l) /\ IsFiniteSet(oldest) /\ Cardinality(oldest) = k
      /\ k = Len(l) => ToSet(r) = {}
  <2> HIDE DEF k
  <2>1. IsRest(Handles, l, k, oldest, r)  BY <1>1, <1>2, RestIs
  <2> HIDE DEF oldest, r
  <2> QED  BY <2>1 DEF IsRest
<1>4. \A h \in oldest : h \in Cached(e) /\ Holders(th, h) = {}
  <2> HIDE DEF oldest
  <2> QED  BY <1>1, <1>3 DEF ListInv
<1>5. \A h \in oldest : FinishErase(c, h).entries[h] = Free
  <2> HIDE DEF oldest
  <2> SUFFICES ASSUME NEW h, h \in oldest PROVE FinishErase(c, h).entries[h] = Free
    OBVIOUS
  <2>1. h \in Cached(e) /\ Holders(th, h) = {}  BY <1>4
  <2> DEFINE b == FinishErase(c, h)
  <2>2. b = FinishErase(c, h)  OBVIOUS
  <2> HIDE DEF b
  <2>3. Erased(e, n, th, h, b)  BY <1>c, <2>1, <2>2, EraseKeeps
  <2>4. b.entries[h] = Free  BY <2>1, <2>3 DEF Erased
  <2> QED  BY <2>2, <2>4
<1>6. d.entries = f /\ d.lru = r /\ d.inUse = u /\ d.usage = n - k
  <2> DEFINE p == [h \in Handles |-> IF h \in oldest THEN FinishErase(c, h).entries[h] ELSE e[h]]
             m == n - k
  <2>1. d = [c EXCEPT !.entries = p, !.lru = r, !.usage = m]
    <3>1. c.entries = e /\ c.lru = l /\ c.usage = n  BY <1>c
    <3> QED  BY <1>c, <3>1 DEF EvictOldest
  <2>2. p = f
    <3> HIDE DEF oldest
    <3> QED  BY <1>5
  <2> HIDE DEF p, f, r, m
  <2>3. d.entries = p /\ d.lru = r /\ d.inUse = u /\ d.usage = m  BY <1>c, <2>1
  <2> QED  BY <2>2, <2>3 DEF m
<1>7. \A h \in Handles : f[h] = IF h \in oldest THEN Free ELSE e[h]
  <2> HIDE DEF oldest
  <2> QED  OBVIOUS
<1>8. Free \in Entry /\ ~Free.inCache  BY DEF Free, Entry
<1>9. f \in [Handles -> Entry]
  <2> HIDE DEF oldest
  <2> QED  BY <1>1, <1>8
<1> HIDE DEF f, oldest, r, k
<1>10. \A h \in Cached(f) : h \in Cached(e) /\ h \notin oldest /\ f[h] = e[h] /\ h \in Handles
  BY <1>7, <1>8 DEF Cached
<1>11. Cached(f) = Cached(e) \ oldest
  <2>1. \A h \in Cached(e) \ oldest : h \in Cached(f)  BY <1>7 DEF Cached
  <2> QED  BY <1>10, <2>1
<1>12. d.usage = Cardinality(Cached(f)) /\ d.usage \in Nat
  <2>1. IsFiniteSet(Cached(e))  BY CachedIs
  <2>2. IsFiniteSet(Cached(f))
        /\ Cardinality(Cached(f)) = Cardinality(Cached(e)) - Cardinality(Cached(e) \cap oldest)
    BY <1>11, <2>1, FS_Difference
  <2>3. Cached(e) \cap oldest = oldest  BY <1>4
  <2>4. Cardinality(Cached(f)) \in Nat  BY <2>2, FS_CardinalityType
  <2> QED  BY <1>1, <1>3, <1>6, <2>2, <2>3, <2>4
<1>13. Typed(f, d.lru, d.inUse, d.usage, th)
  BY <1>1, <1>3, <1>6, <1>9, <1>12 DEF Typed
<1>14. StagesInv(f, th)
  <2> SUFFICES ASSUME NEW s \in Threads, th[s].handle # 0
               PROVE  f[th[s].handle].key = e[th[s].handle].key
    BY <1>1 DEF StagesInv
  <2>1. th[s].handle \in Handles /\ Holders(th, th[s].handle) # {}  BY HandleIs
  <2>2. th[s].handle \notin oldest  BY <1>4, <2>1
  <2> QED  BY <1>7, <2>1, <2>2
<1>15. CountInv(f, th)
  <2>1. \A h \in Handles : f[h] # Free => f[h] = e[h]  BY <1>7
  <2> QED  BY <1>1, <2>1 DEF CountInv
<1>16. TableInv(f)  BY <1>1, <1>10 DEF TableInv
<1>17. ListInv(f, d.lru, d.inUse, th)
  <2>1. ASSUME NEW g
        PROVE  /\ g \in ToSet(d.lru) <=> g \in Cached(f) /\ Holders(th, g) = {}
               /\ g \in d.inUse <=> g \in Cached(f) /\ Holders(th, g) # {}
    <3>1. g \in ToSet(l) <=> g \in Cached(e) /\ Holders(th, g) = {}  BY <1>1 DEF ListInv
    <3>2. g \in u <=> g \in Cached(e) /\ Holders(th, g) # {}  BY <1>1 DEF ListInv
    <3>3. g \in ToSet(d.lru) <=> g \in ToSet(l) /\ g \notin oldest  BY <1>3, <1>6
    <3>4. g \in Cached(f) <=> g \in Cached(e) /\ g \notin oldest  BY <1>11
    <3>5. g \in oldest => Holders(th, g) = {}  BY <1>4
    <3> QED  BY <1>6, <3>1, <3>2, <3>3, <3>4, <3>5
  <2> QED  BY <2>1 DEF ListInv
<1>18. Good(f, d.lru, d.inUse, d.usage, th)
  BY <1>12, <1>13, <1>14, <1>15, <1>16, <1>17 DEF Good
<1>19. Bounded(d.usage)
  <2>1. CASE excess <= 0
    <3>1. k = 0  BY <2>1 DEF k
    <3> QED  BY <1>1, <1>6, <2>1, <3>1 DEF Bounded
  <2>2. CASE ~(excess <= 0) /\ excess < Len(l)
    <3>1. k = excess  BY <2>2 DEF k
    <3> QED  BY <1>1, <1>6, <2>2, <3>1 DEF Bounded
  <2>3. CASE ~(excess <= 0) /\ ~(excess < Len(l))
    <3>1. k = Len(l)  BY <2>3 DEF k
    <3>2. ToSet(d.lru) = {}  BY <1>3, <1>6, <3>1
    <3>3. \A h \in Cached(f) : Holders(th, h) # {}  BY <1>17, <3>2 DEF ListInv
    <3>4. Cardinality(Cached(f)) <= Cardinality(Threads)  BY <1>1, <3>3, HeldAreFew
    <3> QED  BY <1>12, <3>4 DEF Bounded
  <2> QED  BY <2>1, <2>2, <2>3
<1> QED  BY <1>6, <1>18, <1>19

\* InsertAs, by a thread that opened its table.
LEMMA InsertKeeps ==
  ASSUME NEW e, NEW l, NEW u, NEW n, NEW th, Good(e, l, u, n, th),
         NEW c, NEW h \in Handles, e[h] = Free, NEW t \in Threads, th[t].at = "opening",
         NEW ts, NEW d
  PROVE  /\ c = [entries |-> e, lru |-> l, inUse |-> u, usage |-> n]
         /\ d = InsertAs(c, h, th[t].table)
         /\ ts = [th EXCEPT ![t].at = "using", ![t].handle = h]
         => Good(d.entries, d.lru, d.inUse, d.usage, ts) /\ Bounded(d.usage)
<1>c. SUFFICES ASSUME c = [entries |-> e, lru |-> l, inUse |-> u, usage |-> n],
                      d = InsertAs(c, h, th[t].table),
                      ts = [th EXCEPT ![t].at = "using", ![t].handle = h]
               PROVE  Good(d.entries, d.lru, d.inUse, d.usage, ts) /\ Bounded(d.usage)
  OBVIOUS
<1> DEFINE k == th[t].table
           b == Replace(c, k)
           x == [key |-> k, refs |-> 2, inCache |-> TRUE]
           f == [b.entries EXCEPT ![h] = x]
           v == b.inUse \cup {h}
           m == b.usage + 1
           a == [entries |-> f, lru |-> b.lru, inUse |-> v, usage |-> m]
<1>1. /\ Good(b.entries, b.lru, b.inUse, b.usage, th)
      /\ \A g \in Cached(b.entries) : b.entries[g].key # k
      /\ b.entries[h] = Free
      /\ b = [entries |-> b.entries, lru |-> b.lru, inUse |-> b.inUse, usage |-> b.usage]
  <2>1. b = Replace(c, k)  OBVIOUS
  <2> HIDE DEF b, k
  <2> QED  BY <1>c, <2>1, ReplaceKeeps
<1>2. d = EvictOldest(a)
  <2> DEFINE added == [b EXCEPT !.entries[h] = x, !.inUse = @ \cup {h}, !.usage = @ + 1]
  <2>1. d = EvictOldest(added)  BY <1>c DEF InsertAs
  <2>2. added = a
    <3>1. added = [b EXCEPT !.entries = f, !.inUse = v, !.usage = m]  OBVIOUS
    <3> HIDE DEF b, f, v, m, added
    <3> QED  BY <1>1, <3>1
  <2> HIDE DEF added, a
  <2> QED  BY <2>1, <2>2
<1>3. Good(f, b.lru, v, m, ts)
  <2>1. f = [b.entries EXCEPT ![h] = [key |-> th[t].table, refs |-> 2, inCache |-> TRUE]]
    OBVIOUS
  <2>2. \A g \in Cached(b.entries) : b.entries[g].key # th[t].table  BY <1>1
  <2> HIDE DEF b, f, x, k
  <2> QED  BY <1>c, <1>1, <2>1, <2>2, AddKeeps
<1>4. a = [entries |-> f, lru |-> b.lru, inUse |-> v, usage |-> m]  OBVIOUS
<1> HIDE DEF a, f, v, m, b
<1> QED  BY <1>2, <1>3, <1>4, OldestKeeps

\* A thread without a handle looks a table up that it does not find, or gives up.
LEMMA StageKeeps ==
  ASSUME NEW e, NEW l, NEW u, NEW n, NEW th, Good(e, l, u, n, th),
         NEW t \in Threads, th[t].handle = 0, NEW x, NEW ts,
         x \in Thread, x.handle = 0, x.at # "using", x.at # "idle" => x.table \in Tables
  PROVE  ts = [th EXCEPT ![t] = x] => Good(e, l, u, n, ts)
<1>c. SUFFICES ASSUME ts = [th EXCEPT ![t] = x] PROVE Good(e, l, u, n, ts)  OBVIOUS
<1>1. /\ Typed(e, l, u, n, th) /\ th \in [Threads -> Thread] /\ n = Cardinality(Cached(e))
      /\ StagesInv(e, th) /\ CountInv(e, th) /\ TableInv(e) /\ ListInv(e, l, u, th)
  BY DEF Good, Typed
<1>2. ts \in [Threads -> Thread] /\ ts[t] = x /\ \A s \in Threads \ {t} : ts[s] = th[s]
  BY <1>c, <1>1
<1>3. \A h \in Handles : Holders(ts, h) = Holders(th, h)
  <2> SUFFICES ASSUME NEW h \in Handles PROVE Holders(ts, h) = Holders(th, h)  OBVIOUS
  <2>1. h # 0  BY CacheAssumption
  <2>2. \A s \in Threads : ts[s].handle = h <=> th[s].handle = h  BY <1>2, <2>1
  <2> QED  BY <2>2 DEF Holders
<1>4. Typed(e, l, u, n, ts)  BY <1>1, <1>2 DEF Typed
<1>5. StagesInv(e, ts)
  <2> SUFFICES ASSUME NEW s \in Threads
               PROVE  /\ ts[s].handle # 0 <=> ts[s].at = "using"
                      /\ ts[s].at # "idle" => ts[s].table \in Tables
                      /\ ts[s].handle # 0 => e[ts[s].handle].key = ts[s].table
    BY DEF StagesInv
  <2>1. CASE s = t  BY <1>2, <2>1
  <2>2. CASE s # t
    <3>1. ts[s] = th[s]  BY <1>2, <2>2
    <3> QED  BY <1>1, <3>1 DEF StagesInv
  <2> QED  BY <2>1, <2>2
<1>6. CountInv(e, ts)  BY <1>1, <1>3 DEF CountInv
<1>7. ListInv(e, l, u, ts)
  <2>1. \A h \in Cached(e) : Holders(ts, h) = Holders(th, h)  BY <1>3 DEF Cached
  <2> QED  BY <1>1, <2>1 DEF ListInv
<1> QED  BY <1>1, <1>4, <1>5, <1>6, <1>7 DEF Good

------------------------------------------------------------------------------
(***************************************************************************)
(* The cache.                                                              *)
(***************************************************************************)
\* The cache starts empty.
LEMMA InitInv ==
  ASSUME Init
  PROVE  Inv
<1>1. Free \in Entry /\ ~Free.inCache  BY DEF Free, Entry
<1>2. /\ Resting \in Thread /\ Resting.handle = 0 /\ Resting.at = "idle"
  BY DEF Resting, Thread
<1>3. /\ entries \in [Handles -> Entry] /\ \A h \in Handles : entries[h] = Free
      /\ threads \in [Threads -> Thread] /\ \A t \in Threads : threads[t] = Resting
      /\ lru = <<>> /\ inUse = {} /\ usage = 0
  BY <1>1, <1>2 DEF Init
<1>4. Cached(entries) = {}  BY <1>1, <1>3 DEF Cached
<1>5. lru \in Seq(Handles) /\ IsInjective(lru) /\ ToSet(lru) = {}
  BY <1>3 DEF IsInjective, ToSet
<1>6. Typed(entries, lru, inUse, usage, threads)  BY <1>3, <1>5 DEF Typed
<1>7. StagesInv(entries, threads)  BY <1>2, <1>3 DEF StagesInv
<1>8. CountInv(entries, threads)  BY <1>3 DEF CountInv
<1>9. TableInv(entries)  BY <1>4 DEF TableInv
<1>10. ListInv(entries, lru, inUse, threads)  BY <1>3, <1>4, <1>5 DEF ListInv
<1>11. usage = Cardinality(Cached(entries))  BY <1>3, <1>4, FS_EmptySet
<1>12. Bounded(usage)  BY <1>3, CacheAssumption DEF Bounded
<1> QED  BY <1>6, <1>7, <1>8, <1>9, <1>10, <1>11, <1>12 DEF Inv, Good

\* Each step keeps the cache good, and its usage bounded.
LEMMA NextInv ==
  ASSUME Inv, [Next]_vars
  PROVE  Inv'
<1> DEFINE e == entries  l == lru  u == inUse  n == usage  th == threads
           c == [entries |-> e, lru |-> l, inUse |-> u, usage |-> n]
<1>1. Good(e, l, u, n, th) /\ Bounded(n)  BY DEF Inv
<1>2. n \in Nat /\ th \in [Threads -> Thread] /\ StagesInv(e, th)  BY <1>1 DEF Good, Typed
<1>3. SUFFICES Good(entries', lru', inUse', usage', threads') /\ Bounded(usage')
  BY DEF Inv
<1>4. Cache = c  BY DEF Cache
<1>5. ASSUME NEW m \in Nat, m <= n PROVE Bounded(m)
  BY <1>1, <1>2, <1>5, FS_CardinalityType, CacheAssumption DEF Bounded
<1>6. ASSUME UNCHANGED <<entries, lru, inUse, usage>>,
             Good(entries, lru, inUse, usage, threads')
      PROVE  Good(entries', lru', inUse', usage', threads') /\ Bounded(usage')
  BY <1>1, <1>6
<1>7. ASSUME NEW t \in Threads, NEW k \in Tables, Lookup(t, k)
      PROVE  Good(entries', lru', inUse', usage', threads') /\ Bounded(usage')
  <2>1. th[t].at = "idle" /\ th[t].handle = 0  BY <1>2, <1>7 DEF Lookup, StagesInv
  <2>2. CASE \E h \in InTable(Cache, k) :
               /\ Becomes(Ref(Cache, h))
               /\ threads' = [threads EXCEPT ![t] = [at |-> "using", table |-> k, handle |-> h]]
    <3>1. PICK h \in InTable(Cache, k) :
               /\ Becomes(Ref(Cache, h))
               /\ threads' = [threads EXCEPT ![t] = [at |-> "using", table |-> k, handle |-> h]]
      BY <2>2
    <3>2. h \in Cached(e) /\ e[h].key = k  BY <1>4, <3>1 DEF InTable, Cached
    <3> DEFINE d == Ref(c, h)
    <3>3. d.entries = entries' /\ d.lru = lru' /\ d.inUse = inUse' /\ d.usage = usage'
      BY <1>4, <3>1 DEF Becomes
    <3>4. c = [entries |-> e, lru |-> l, inUse |-> u, usage |-> n] /\ d = Ref(c, h)
      OBVIOUS
    <3>5. threads' = [th EXCEPT ![t] = [at |-> "using", table |-> e[h].key, handle |-> h]]
      BY <3>1, <3>2
    <3> HIDE DEF c, d
    <3>6. Good(d.entries, d.lru, d.inUse, d.usage, threads') /\ d.usage <= n
      BY <1>1, <2>1, <3>2, <3>4, <3>5, RefKeeps
    <3>7. Bounded(d.usage)
      <4>1. d.usage \in Nat  BY <3>6 DEF Good, Typed
      <4> QED  BY <1>5, <3>6, <4>1
    <3> QED  BY <3>3, <3>6, <3>7
  <2>3. CASE /\ InTable(Cache, k) = {}
             /\ threads' = [threads EXCEPT ![t] = [at |-> "opening", table |-> k, handle |-> 0]]
             /\ UNCHANGED <<entries, lru, inUse, usage>>
    <3> DEFINE w == [at |-> "opening", table |-> k, handle |-> 0]
    <3>1. w \in Thread /\ w.handle = 0 /\ w.at = "opening" /\ w.table \in Tables
      BY DEF Thread
    <3>2. threads' = [th EXCEPT ![t] = w]  BY <2>3
    <3> HIDE DEF w
    <3>3. Good(e, l, u, n, threads')
      BY <1>1, <2>1, <3>1, <3>2, StageKeeps
    <3> QED  BY <1>6, <2>3, <3>3
  <2> QED  BY <1>7, <2>2, <2>3 DEF Lookup
<1>8. ASSUME NEW t \in Threads, OpenFails(t)
      PROVE  Good(entries', lru', inUse', usage', threads') /\ Bounded(usage')
  <2>1. th[t].handle = 0  BY <1>2, <1>8 DEF OpenFails, StagesInv
  <2>2. Resting \in Thread /\ Resting.handle = 0 /\ Resting.at = "idle"
    BY DEF Resting, Thread
  <2>3. threads' = [th EXCEPT ![t] = Resting] /\ UNCHANGED <<entries, lru, inUse, usage>>
    BY <1>8 DEF OpenFails
  <2>4. Good(e, l, u, n, threads')  BY <1>1, <2>1, <2>2, <2>3, StageKeeps
  <2> QED  BY <1>6, <2>3, <2>4
<1>9. ASSUME NEW t \in Threads, InsertTable(t)
      PROVE  Good(entries', lru', inUse', usage', threads') /\ Bounded(usage')
  <2> DEFINE h == CHOOSE g \in Handles : entries[g] = Free
             d == InsertAs(c, h, th[t].table)
  <2>1. h \in Handles /\ e[h] = Free  BY <1>9 DEF InsertTable
  <2>2. /\ th[t].at = "opening" /\ Becomes(InsertAs(Cache, h, th[t].table))
        /\ threads' = [th EXCEPT ![t].at = "using", ![t].handle = h]
    BY <1>9 DEF InsertTable
  <2>3. d.entries = entries' /\ d.lru = lru' /\ d.inUse = inUse' /\ d.usage = usage'
    BY <1>4, <2>2 DEF Becomes
  <2>4. /\ c = [entries |-> e, lru |-> l, inUse |-> u, usage |-> n]
        /\ d = InsertAs(c, h, th[t].table)
    OBVIOUS
  <2> HIDE DEF c, d, h
  <2>5. Good(d.entries, d.lru, d.inUse, d.usage, threads') /\ Bounded(d.usage)
    BY <1>1, <2>1, <2>2, <2>4, InsertKeeps
  <2> QED  BY <2>3, <2>5
<1>10. ASSUME NEW t \in Threads, Release(t)
       PROVE  Good(entries', lru', inUse', usage', threads') /\ Bounded(usage')
  <2> DEFINE d == Unref(c, th[t].handle)
  <2>1. d.entries = entries' /\ d.lru = lru' /\ d.inUse = inUse' /\ d.usage = usage'
    BY <1>4, <1>10 DEF Release, Becomes
  <2>2. th[t].at = "using" /\ threads' = [th EXCEPT ![t] = Resting]  BY <1>10 DEF Release
  <2>3. /\ c = [entries |-> e, lru |-> l, inUse |-> u, usage |-> n]
        /\ d = Unref(c, th[t].handle)
    OBVIOUS
  <2> HIDE DEF c, d
  <2>4. Good(d.entries, d.lru, d.inUse, d.usage, threads') /\ d.usage <= n
    BY <1>1, <2>2, <2>3, UnrefKeeps
  <2>5. d.usage \in Nat  BY <2>4 DEF Good, Typed
  <2>6. Bounded(d.usage)  BY <1>5, <2>4, <2>5
  <2> QED  BY <2>1, <2>4, <2>6
<1>11. ASSUME NEW k \in Tables, Evict(k)
       PROVE  Good(entries', lru', inUse', usage', threads') /\ Bounded(usage')
  <2> DEFINE d == Replace(c, k)
  <2>1. d.entries = entries' /\ d.lru = lru' /\ d.inUse = inUse' /\ d.usage = usage'
    BY <1>4, <1>11 DEF Evict, Becomes
  <2>2. threads' = th  BY <1>11 DEF Evict
  <2>3. c = [entries |-> e, lru |-> l, inUse |-> u, usage |-> n] /\ d = Replace(c, k)
    OBVIOUS
  <2> HIDE DEF c, d
  <2>4. Good(d.entries, d.lru, d.inUse, d.usage, th) /\ d.usage <= n
    BY <1>1, <2>3, ReplaceKeeps
  <2>5. d.usage \in Nat  BY <2>4 DEF Good, Typed
  <2>6. Bounded(d.usage)  BY <1>5, <2>4, <2>5
  <2> QED  BY <2>1, <2>2, <2>4, <2>6
<1>12. CASE UNCHANGED vars  BY <1>1, <1>12 DEF vars
<1> QED  BY <1>7, <1>8, <1>9, <1>10, <1>11, <1>12 DEF Next

\* The inductive invariant holds of every state the cache can be in.
THEOREM Invariance == Spec => []Inv
<1>1. Init => Inv  BY InitInv
<1>2. Inv /\ [Next]_vars => Inv'  BY NextInv
<1> QED  BY <1>1, <1>2, PTL DEF Spec

\* A thread's table is open as long as the thread uses it, whatever is evicted or inserted twice
\* meanwhile, nothing is open for nobody, and every cached entry is on the one of the two lists
\* it belongs to (cache.cc:30).
THEOREM EntriesAlwaysAccounted == Spec => []EntriesAreAccounted
<1>1. ASSUME Inv PROVE EntriesAreAccounted
  <2>1. /\ StagesInv(entries, threads) /\ CountInv(entries, threads)
        /\ ListInv(entries, lru, inUse, threads) /\ entries \in [Handles -> Entry]
    BY <1>1 DEF Inv, Good, Typed
  <2>2. \A h : HoldersOf(h) = Holders(threads, h)  BY DEF HoldersOf, Holders
  <2>3. \A h : h \in Allocated <=> h \in Handles /\ entries[h] # Free  BY DEF Allocated
  <2>4. RefsAreCounted
    BY <2>1, <2>2, <2>3 DEF RefsAreCounted, StagesInv, CountInv
  <2>5. \A h : h \in Cached(entries) <=> h \in Allocated /\ entries[h].inCache
    BY <2>3 DEF Cached, Free
  <2>6. ListsAreRight  BY <2>1, <2>2, <2>5 DEF ListsAreRight, ListInv, ToSet
  <2> QED  BY <2>4, <2>6 DEF EntriesAreAccounted
<1> QED  BY <1>1, Invariance, PTL

\* However many tables are looked up at once, the cache keeps no more of them open than its
\* capacity, or than there are threads if those are more.
THEOREM OpenTablesAlwaysBounded == Spec => []OpenTablesAreBounded
<1>1. ASSUME Inv PROVE OpenTablesAreBounded
  <2>1. usage = Cardinality(Cached(entries)) /\ Bounded(usage)  BY <1>1 DEF Inv, Good
  <2>2. Cached(entries) = {h \in Allocated : entries[h].inCache}  BY DEF Cached, Allocated, Free
  <2> QED  BY <2>1, <2>2 DEF OpenTablesAreBounded, Bounded
<1> QED  BY <1>1, Invariance, PTL

\* The variables of the cache have their types, and its list has no entry twice.
THEOREM TypeCorrect == Spec => []TypeOK
<1>1. ASSUME Inv PROVE TypeOK
  BY <1>1 DEF Inv, Good, Typed, TypeOK, Entry, Thread
<1> QED  BY <1>1, Invariance, PTL
==============================================================================
