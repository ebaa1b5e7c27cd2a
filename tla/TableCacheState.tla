---------------------------- MODULE TableCacheState ----------------------------
(***************************************************************************)
(* What the cache of open tables of leveldb-library holds, one shard of    *)
(* its LRU cache (util/cache.cc) and the threads that use it, and what is  *)
(* right of it.  TableCache has the operations.                            *)
(*                                                                         *)
(* A handle is a number that malloc may use again after free.  An entry's  *)
(* charge is 1, as TableCache's is.                                        *)
(***************************************************************************)
EXTENDS Integers, FiniteSets

CONSTANTS
  Tables,     \* file numbers
  Threads,    \* holders of one handle each; an iterator over several files is several
  Capacity,   \* capacity_, positive
  Handles,    \* bound on the entries allocated at a time: a set of positive integers
  NoTable     \* the key of a handle that is free

ASSUME CacheAssumption ==
  /\ IsFiniteSet(Handles) /\ Handles \subseteq Nat \ {0} /\ IsFiniteSet(Threads)
  /\ NoTable \notin Tables /\ Capacity \in Nat \ {0}

VARIABLES
  entries,    \* LRUHandle: key, refs, in_cache
  lru,        \* lru_, the oldest first
  inUse,      \* in_use_
  usage,      \* usage_
  threads     \* where each thread is, the table it wants, its handle (0: none)

Free == [key |-> NoTable, refs |-> 0, inCache |-> FALSE]

------------------------------------------------------------------------------
(***************************************************************************)
(* Properties.                                                             *)
(***************************************************************************)
Allocated    == {h \in Handles : entries[h] # Free}
HoldersOf(h) == {t \in Threads : threads[t].handle = h}

\* A thread's table is open as long as the thread uses it, whatever is evicted
\* or inserted twice meanwhile, and nothing is open for nobody: the references
\* are those of the threads and of the cache.
RefsAreCounted ==
  /\ \A t \in Threads :
       threads[t].handle # 0 => entries[threads[t].handle].key = threads[t].table
  /\ \A h \in Allocated : entries[h].refs =
       Cardinality(HoldersOf(h)) + (IF entries[h].inCache THEN 1 ELSE 0)

\* "All items in the cache are in one list or the other, and never both"
\* (cache.cc:30); those erased but in use are in neither.
ListsAreRight ==
  /\ {lru[i] : i \in DOMAIN lru} = {h \in Allocated : entries[h].inCache /\ HoldersOf(h) = {}}
  /\ inUse = {h \in Allocated : entries[h].inCache /\ HoldersOf(h) # {}}

\* Open tables are those that threads use or the cache keeps, each on its list.
EntriesAreAccounted == RefsAreCounted /\ ListsAreRight

\* The cache keeps at most as many tables open as its capacity, or as many as
\* the threads used at once if that is more.
OpenTablesAreBounded ==
  /\ usage = Cardinality({h \in Allocated : entries[h].inCache})
  /\ usage <= Capacity \/ usage <= Cardinality(Threads)
==============================================================================
