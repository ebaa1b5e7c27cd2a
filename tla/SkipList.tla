------------------------------- MODULE SkipList -------------------------------
(***************************************************************************)
(* The skip list of leveldb-library's memtable (db/skiplist.h): one thread *)
(* inserts while any number of them read without a lock.                   *)
(*                                                                         *)
(* A node is its key, HeadNode is before every key and Nil after every one.    *)
(* Each link is read and written atomically, with acquire and release, so  *)
(* the stores of Insert are seen in their order.  max_height_ is read      *)
(* without a barrier: a reader may get an old value.                       *)
(***************************************************************************)
EXTENDS Integers

CONSTANTS
  ListKeys,    \* the keys that may be inserted, positive
  Nil,         \* NULL, a number beyond every key
  MaxHeight,   \* kMaxHeight
  Readers      \* the iterators

ASSUME ListAssumption ==
  /\ ListKeys \subseteq Nat \ {0}
  /\ Nil \in Nat \ {0} /\ \A k \in ListKeys : k < Nil
  /\ MaxHeight \in Nat \ {0}

HeadNode == 0
Nodes    == ListKeys \cup {HeadNode}
Lists    == 0..(MaxHeight - 1)

VARIABLES
  next,        \* next_: on each level, the node after each node
  maxHeight,   \* max_height_
  inserting,   \* the Insert under way; key is HeadNode if there is none
  readers      \* what each iterator does, or what it did last

vars == <<next, maxHeight, inserting, readers>>

\* The nodes linked on a level.
Linked(l) == {n \in ListKeys : \E m \in Nodes : next[l][m] = n}

\* The keys whose insertion has ended.
Inserted == Linked(0) \ {inserting.key}

Searches == {"seek", "less"}

TypeOK ==
  /\ next \in [Lists -> [Nodes -> ListKeys \cup {Nil}]]
  /\ maxHeight \in 1..MaxHeight
  /\ inserting \in [key : Nodes, height : 1..MaxHeight, level : Lists, prev : [Lists -> Nodes]]
  /\ readers \in [Readers -> [searching : BOOLEAN, call : Searches,
                              target : 1..Nil, present : SUBSET ListKeys,
                              node : Nodes, level : Lists, result : Nodes \cup {Nil}]]

NotInserting == [key |-> HeadNode, height |-> 1, level |-> 0, prev |-> [l \in Lists |-> HeadNode]]

\* An iterator is not valid before its first call.
NotValid == [searching |-> FALSE, call |-> "seek", target |-> Nil, present |-> {},
             node |-> HeadNode, level |-> 0, result |-> Nil]

Init ==
  /\ next = [l \in Lists |-> [n \in Nodes |-> Nil]]
  /\ maxHeight = 1
  /\ inserting = NotInserting
  /\ readers = [r \in Readers |-> NotValid]

------------------------------------------------------------------------------
(***************************************************************************)
(* Insert.                                                                 *)
(***************************************************************************)
\* What FindGreaterOrEqual leaves in prev[l]: the last node before the key.
Previous(l, key) ==
  CHOOSE n \in Linked(l) \cup {HeadNode} :
    n < key /\ \A m \in Linked(l) : m < key => m <= n

Insert(key, height) ==
  /\ inserting.key = HeadNode /\ key \notin Linked(0)
  /\ inserting' = [key |-> key, height |-> height, level |-> 0,
                   prev |-> [l \in Lists |-> Previous(l, key)]]
  /\ maxHeight' = IF height > maxHeight THEN height ELSE maxHeight
  /\ UNCHANGED <<next, readers>>

\* Mutant: the node is linked from the top down.
LevelFromTheTop == inserting.height - 1 - inserting.level

\* The level that one turn of Insert's loop links.
LevelToLink == inserting.level

\* x's own link, which nobody can follow yet, and then the link to x.
Link ==
  LET x == inserting.key
      l == LevelToLink
      p == inserting.prev[l]
  IN  /\ x # HeadNode
      /\ next' = [next EXCEPT ![l] = [@ EXCEPT ![x] = next[l][p], ![p] = x]]
      /\ inserting' = IF inserting.level = inserting.height - 1 THEN NotInserting
                      ELSE [inserting EXCEPT !.level = @ + 1]
      /\ UNCHANGED <<maxHeight, readers>>

------------------------------------------------------------------------------
(***************************************************************************)
(* Readers.                                                                *)
(***************************************************************************)
\* FindGreaterOrEqual, FindLessThan and FindLast are one loop: it goes on while
\* the next key is less than the target, NULL for FindLast.
Start(r, call, target) ==
  /\ ~readers[r].searching
  /\ \E height \in 1..maxHeight :
       readers' = [readers EXCEPT ![r] =
                     [searching |-> TRUE, call |-> call, target |-> target,
                      present |-> Inserted, node |-> HeadNode, level |-> height - 1,
                      result |-> Nil]]
  /\ UNCHANGED <<next, maxHeight, inserting>>

Seek(r, target) == Start(r, "seek", target)
SeekToLast(r)   == Start(r, "less", Nil)
Prev(r)         == readers[r].result \in ListKeys /\ Start(r, "less", readers[r].result)

\* SeekToFirst and Next follow one link.
Follow(r, node) ==
  /\ ~readers[r].searching
  /\ readers' = [readers EXCEPT ![r] =
                   [searching |-> FALSE, call |-> "seek", target |-> node + 1,
                    present |-> Inserted, node |-> node, level |-> 0,
                    result |-> next[0][node]]]
  /\ UNCHANGED <<next, maxHeight, inserting>>

SeekToFirst(r) == Follow(r, HeadNode)
NextNode(r)    == readers[r].result \in ListKeys /\ Follow(r, readers[r].result)

\* One turn of the loop.
Search(r) ==
  LET reader == readers[r]
      after  == next[reader.level][reader.node]
  IN  /\ reader.searching
      /\ readers' = [readers EXCEPT ![r] =
           IF after < reader.target THEN [@ EXCEPT !.node = after]
           ELSE IF reader.level > 0 THEN [@ EXCEPT !.level = reader.level - 1]
           ELSE [@ EXCEPT !.searching = FALSE,
                          !.result = IF reader.call = "seek" THEN after ELSE reader.node]]
      /\ UNCHANGED <<next, maxHeight, inserting>>

Next ==
  \/ \E key \in ListKeys, height \in 1..MaxHeight : Insert(key, height)
  \/ Link
  \/ \E r \in Readers :
       \/ \E target \in ListKeys : Seek(r, target)
       \/ SeekToLast(r) \/ Prev(r) \/ SeekToFirst(r) \/ NextNode(r)
       \/ Search(r)

Spec == Init /\ [][Next]_vars

------------------------------------------------------------------------------
(***************************************************************************)
(* Properties.                                                             *)
(***************************************************************************)

\* A call that has returned did not miss a key that was inserted before it
\* began: the result is the nearest key on its side of the target, or one that
\* was inserted meanwhile and is nearer.
SearchesAreRight ==
  \A r \in Readers :
    LET reader == readers[r]
    IN  ~reader.searching =>
          /\ reader.call = "seek" =>
               /\ reader.target <= reader.result
               /\ \A k \in reader.present : reader.target <= k => reader.result <= k
          /\ reader.call = "less" =>
               /\ reader.result < reader.target
               /\ \A k \in reader.present : k < reader.target => k <= reader.result
==============================================================================
