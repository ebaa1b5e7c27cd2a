------------------------------ MODULE LevelsState ------------------------------
(***************************************************************************)
(* What the levels of leveldb-library hold, how a read looks for a key in  *)
(* them (db/version_set.cc, db/db_impl.cc), and what is right of both.     *)
(* Levels has the operations.                                              *)
(*                                                                         *)
(* An entry is its sequence number; history says what was written under    *)
(* it.  A file is its level and its entries, and in level 0, where the     *)
(* order of the files matters, a number that keeps it.                     *)
(***************************************************************************)
EXTENDS Integers, FiniteSets, FiniteSetsExt

CONSTANTS
  Keys,                 \* user keys: a set of integers
  NumLevels,            \* kNumLevels
  MaxMemCompactLevel,   \* kMaxMemCompactLevel
  MaxWrites,            \* bound on the writes
  MaxDeletions,         \* bound on the deletions among them
  MaxSnapshots,         \* bound on the snapshots held at a time
  None                  \* no compaction

Entries == 1..MaxWrites
File    == [level : 0..(NumLevels - 1), number : Nat, entries : SUBSET Entries]

ASSUME LevelsAssumption ==
  /\ Keys \subseteq Int /\ IsFiniteSet(Keys)
  /\ NumLevels \in Nat /\ MaxMemCompactLevel \in 0..(NumLevels - 1)
  /\ MaxWrites \in Nat
  /\ None \notin [inputs : SUBSET File, outputs : SUBSET File]

VARIABLES
  history,      \* the writes: key, and whether it is a deletion
  mem, imm,     \* the entries of the memtables
  version,      \* the files of the current version
  snapshots,    \* the sequence numbers held
  compaction,   \* the DoCompactionWork under way, or None
  keySplit      \* an output file once ended between two entries of a user key

LastSequence == Max({0} \cup DOMAIN history)

------------------------------------------------------------------------------
(***************************************************************************)
(* Entries and files.                                                      *)
(***************************************************************************)
Key(e)        == history[e].key
IsDeletion(e) == history[e].deletion

\* InternalKeyComparator: by user key, the newest first.
Before(d, e) == Key(d) < Key(e) \/ (Key(d) = Key(e) /\ d > e)

Level(l)       == {f \in version : f.level = l}
KeysOf(files)  == {Key(e) : e \in UNION {f.entries : f \in files}}
Smallest(f)    == CHOOSE e \in f.entries : \A d \in f.entries : d = e \/ Before(e, d)
Largest(f)     == CHOOSE e \in f.entries : \A d \in f.entries : d = e \/ Before(d, e)
SmallestKey(f) == Key(Smallest(f))
LargestKey(f)  == Key(Largest(f))

Overlapping(l, low, high) ==
  {f \in Level(l) : SmallestKey(f) <= high /\ low <= LargestKey(f)}

------------------------------------------------------------------------------
(***************************************************************************)
(* Reads.  The result is the entry found, 0 if there is none.              *)
(***************************************************************************)
Newest(entries, k, s) == Max({e \in entries : Key(e) = k /\ e <= s} \cup {0})

\* Among the level-0 files with the key in their range, the newest first.
InLevel0(k, s) ==
  LET hits == {f \in Overlapping(0, k, k) : Newest(f.entries, k, s) # 0}
  IN  IF hits = {} THEN 0
      ELSE Newest((CHOOSE f \in hits : \A g \in hits : g.number <= f.number).entries, k, s)

\* FindFile: the first file that ends at the key looked for or later, and no other.
InLevel(l, k, s) ==
  LET ends  == {f \in Level(l) : LargestKey(f) > k \/ (LargestKey(f) = k /\ Largest(f) <= s)}
      first == CHOOSE f \in ends : \A g \in ends : g = f \/ Before(Smallest(f), Smallest(g))
  IN  IF ends = {} \/ k < SmallestKey(first) THEN 0 ELSE Newest(first.entries, k, s)

\* DBImpl::Get: the memtables, then Version::Get, which ends at the first level
\* that has an entry of the key.
Get(k, s) ==
  LET found(l) == IF l = 0 THEN InLevel0(k, s) ELSE InLevel(l, k, s)
      hits     == {l \in 0..(NumLevels - 1) : found(l) # 0}
      inMem    == Newest(mem, k, s)
      inImm    == Newest(imm, k, s)
  IN  IF inMem # 0 THEN inMem ELSE IF inImm # 0 THEN inImm
      ELSE IF hits = {} THEN 0 ELSE found(Min(hits))

\* What an iterator over all the files and memtables stops at.
Merged(k, s) == Newest(mem \cup imm \cup UNION {f.entries : f \in version}, k, s)

Value(e) == IF e = 0 \/ (e # 0 /\ IsDeletion(e)) THEN 0 ELSE e

------------------------------------------------------------------------------
(***************************************************************************)
(* Properties.                                                             *)
(***************************************************************************)
Readable == snapshots \cup {LastSequence}

\* A read finds the last write of a key before its snapshot: "if we find data in
\* an smaller level, later levels are irrelevant" (version_set.cc:347).
GetsAreRight ==
  \A k \in Keys, s \in Readable : Value(Get(k, s)) = Value(Newest(1..LastSequence, k, s))

ScansAreRight ==
  \A k \in Keys, s \in Readable : Value(Merged(k, s)) = Value(Newest(1..LastSequence, k, s))

\* Reads and iterators are right, whatever is compacted meanwhile, as long as no
\* output file ended between two entries of a user key.
ReadsAreRight == keySplit \/ (GetsAreRight /\ ScansAreRight)

\* Below level 0 no two files overlap, as Builder asserts of every version it
\* saves, with a memtable's table put in during a compaction too.
LevelsAreDisjoint ==
  \A f, g \in version :
    f # g /\ f.level = g.level /\ f.level > 0 =>
      Before(Largest(f), Smallest(g)) \/ Before(Largest(g), Smallest(f))
==============================================================================
