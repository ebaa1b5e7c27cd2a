------------------------------ MODULE TableCache ------------------------------
(***************************************************************************)
(* The cache of open tables of leveldb-library (db/table_cache.cc) on one  *)
(* shard of its LRU cache (util/cache.cc).  Threads look a table up, open  *)
(* it if it is not there, use it and release it; the background thread     *)
(* evicts tables whose files it deletes.                                   *)
(*                                                                         *)
(* Each action is one hold of the shard's mutex_.                          *)
(***************************************************************************)
EXTENDS TableCacheState, Sequences, SequencesExt

vars == <<entries, lru, inUse, usage, threads>>

Cache == [entries |-> entries, lru |-> lru, inUse |-> inUse, usage |-> usage]

TypeOK ==
  /\ entries \in [Handles -> [key : Tables \cup {NoTable}, refs : Nat, inCache : BOOLEAN]]
  /\ lru \in Seq(Handles) /\ IsInjective(lru)
  /\ inUse \subseteq Handles /\ usage \in Nat
  /\ threads \in [Threads -> [at : {"idle", "opening", "using"}, table : Tables \cup {NoTable},
                              handle : Handles \cup {0}]]

Resting == [at |-> "idle", table |-> NoTable, handle |-> 0]

Init ==
  /\ entries = [h \in Handles |-> Free]
  /\ lru = <<>> /\ inUse = {} /\ usage = 0
  /\ threads = [t \in Threads |-> Resting]

------------------------------------------------------------------------------
(***************************************************************************)
(* LRUCache.  Each operator takes the cache and returns it changed.        *)
(***************************************************************************)
\* HandleTable: at most one entry of a key is in it.
InTable(c, k) == {h \in Handles : c.entries[h].key = k /\ c.entries[h].inCache}

\* Mutant: an entry that is taken stays on the list of those nobody uses.
RefInPlace(c, h) == [c EXCEPT !.entries[h].refs = @ + 1, !.inUse = @ \cup {h}]

Ref(c, h) ==
  LET e == c.entries[h]
      moves == e.refs = 1 /\ e.inCache
  IN  [c EXCEPT !.entries[h].refs = @ + 1,
                !.lru   = IF moves THEN RemoveFirst(@, h) ELSE @,
                !.inUse = IF moves THEN @ \cup {h} ELSE @]

\* Frees the entry with its last reference, or finds it no longer in use.
Unref(c, h) ==
  LET e == c.entries[h]
      moves == e.refs = 2 /\ e.inCache
  IN  [c EXCEPT !.entries[h] = IF e.refs = 1 THEN Free ELSE [e EXCEPT !.refs = @ - 1],
                !.lru   = IF moves THEN Append(@, h) ELSE @,
                !.inUse = IF moves THEN @ \ {h} ELSE @]

\* The entry has been taken out of the hash table.
FinishErase(c, h) ==
  Unref([c EXCEPT !.entries[h].inCache = FALSE,
                  !.lru   = RemoveFirst(@, h),
                  !.inUse = @ \ {h},
                  !.usage = @ - 1],
        h)

\* Mutant: the entry that Insert takes the place of is freed at once.
ReplaceAndFree(c, k) ==
  IF InTable(c, k) = {} THEN c
  ELSE LET h == CHOOSE h \in InTable(c, k) : TRUE
       IN  [FinishErase(c, h) EXCEPT !.entries[h] = Free]

\* An entry of the same key leaves the table.
Replace(c, k) ==
  IF InTable(c, k) = {} THEN c
  ELSE FinishErase(c, CHOOSE h \in InTable(c, k) : TRUE)

\* Mutant: the capacity is not looked at.
EvictNothing(c) == c

\* The oldest entries that nobody uses leave until usage_ is down to capacity_:
\* what FinishErase does to each.
EvictOldest(c) ==
  LET excess == c.usage - Capacity
      n      == IF excess <= 0 THEN 0 ELSE IF excess < Len(c.lru) THEN excess ELSE Len(c.lru)
      oldest == {c.lru[i] : i \in 1..n}
  IN  [c EXCEPT !.entries = [h \in Handles |-> IF h \in oldest THEN FinishErase(c, h).entries[h]
                                               ELSE @[h]],
                !.lru     = SubSeq(@, n + 1, Len(@)),
                !.usage   = @ - n]

\* With a reference for the returned handle and one for the cache.
InsertAs(c, h, k) ==
  LET others == Replace(c, k)
      added  == [others EXCEPT !.entries[h] = [key |-> k, refs |-> 2, inCache |-> TRUE],
                               !.inUse = @ \cup {h},
                               !.usage = @ + 1]
  IN  EvictOldest(added)

Becomes(c) ==
  entries' = c.entries /\ lru' = c.lru /\ inUse' = c.inUse /\ usage' = c.usage

------------------------------------------------------------------------------
(***************************************************************************)
(* TableCache.                                                             *)
(***************************************************************************)
\* FindTable.
Lookup(t, k) ==
  /\ threads[t].at = "idle"
  /\ \/ \E h \in InTable(Cache, k) :
          /\ Becomes(Ref(Cache, h))
          /\ threads' = [threads EXCEPT ![t] = [at |-> "using", table |-> k, handle |-> h]]
     \/ /\ InTable(Cache, k) = {}
        /\ threads' = [threads EXCEPT ![t] = [at |-> "opening", table |-> k, handle |-> 0]]
        /\ UNCHANGED <<entries, lru, inUse, usage>>

\* The file cannot be opened, or it was.  Another thread may have inserted the
\* same table meanwhile.
OpenFails(t) ==
  /\ threads[t].at = "opening"
  /\ threads' = [threads EXCEPT ![t] = Resting]
  /\ UNCHANGED <<entries, lru, inUse, usage>>

InsertTable(t) ==
  LET h == CHOOSE g \in Handles : entries[g] = Free
  IN  /\ threads[t].at = "opening"
      /\ \E g \in Handles : entries[g] = Free
      /\ Becomes(InsertAs(Cache, h, threads[t].table))
      /\ threads' = [threads EXCEPT ![t].at = "using", ![t].handle = h]

Release(t) ==
  /\ threads[t].at = "using"
  /\ Becomes(Unref(Cache, threads[t].handle))
  /\ threads' = [threads EXCEPT ![t] = Resting]

\* Erase, for a file about to be deleted.
Evict(k) ==
  /\ InTable(Cache, k) # {}
  /\ Becomes(Replace(Cache, k))
  /\ UNCHANGED threads

Next ==
  \/ \E t \in Threads :
       \/ \E k \in Tables : Lookup(t, k)
       \/ OpenFails(t) \/ InsertTable(t) \/ Release(t)
  \/ \E k \in Tables : Evict(k)

Spec == Init /\ [][Next]_vars
==============================================================================
