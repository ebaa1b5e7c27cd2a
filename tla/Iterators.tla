------------------------------ MODULE Iterators ------------------------------
(***************************************************************************)
(* The iterator over a database of leveldb-library: DBIter (db/db_iter.cc) *)
(* on a MergingIterator (table/merger.cc) on one iterator per memtable and *)
(* file, while the memtable is written to.                                 *)
(*                                                                         *)
(* An action is what DBIter does between two calls of the merging          *)
(* iterator; an insertion may also fall between two calls that the merging *)
(* iterator makes of the memtable's.                                       *)
(***************************************************************************)
EXTENDS Integers, FiniteSets, Sequences, FiniteSetsExt

CONSTANTS
  UserKeys,       \* a set of positive integers
  NumChildren,    \* the merged iterators, the first one over the memtable
  MaxEntries,     \* bound on the entries when the iterator is made
  MaxInserts,     \* bound on the entries inserted afterwards
  NoEntry         \* where an iterator that is not valid is

VARIABLES
  content,      \* the entries of each child
  sequence,     \* sequence_, the snapshot of the iterator
  inserts,      \* the insertions so far
  merging,      \* MergingIterator: the children's positions , its direction
  at,           \* where DBIter is: "idle", "next", "turn" or "prev"
  forward,      \* direction_ = kForward
  valid,        \* valid_
  savedKey, savedValue,
  flag,         \* FindNextUserEntry's skipping, FindPrevUserEntry's value_type = kTypeValue
  expected      \* the key the caller should see, 0 for none

vars == <<content, sequence, inserts, merging, at, forward, valid, savedKey,
          savedValue, flag, expected>>
database == <<content, sequence, inserts>>

Children == 1..NumChildren
Entry    == [key : UserKeys, sequence : 1..(MaxEntries + MaxInserts), deletion : BOOLEAN]

TypeOK ==
  /\ content \in [Children -> SUBSET Entry]
  /\ sequence \in 0..MaxEntries /\ inserts \in 0..MaxInserts
  /\ merging \in [positions : [Children -> Entry \cup {NoEntry}], forward : BOOLEAN]
  /\ at \in {"idle", "next", "turn", "prev"}
  /\ {forward, valid, flag} \subseteq BOOLEAN
  /\ {savedKey, expected} \subseteq UserKeys \cup {0}
  /\ savedValue \in Entry \cup {NoEntry}

------------------------------------------------------------------------------
(***************************************************************************)
(* The children.                                                           *)
(***************************************************************************)
\* Internal keys are ordered by user key, then the newest first.
Precedes(d, e) == d.key < e.key \/ (d.key = e.key /\ d.sequence > e.sequence)

Earliest(es) == IF es = {} THEN NoEntry ELSE CHOOSE e \in es : \A d \in es : d = e \/ Precedes(e, d)
Latest(es)   == IF es = {} THEN NoEntry ELSE CHOOSE e \in es : \A d \in es : d = e \/ Precedes(d, e)
After(es, e)  == Earliest({d \in es : Precedes(e, d)})
Behind(es, e) == Latest({d \in es : Precedes(d, e)})
From(es, e)   == Earliest({d \in es : d = e \/ Precedes(e, d)})

------------------------------------------------------------------------------
(***************************************************************************)
(* MergingIterator.                                                        *)
(***************************************************************************)
Positions(m) == {m.positions[c] : c \in Children} \ {NoEntry}
Valid(m)     == Positions(m) # {}
\* FindSmallest, FindLargest.
Current(m)   == IF m.forward THEN Earliest(Positions(m)) ELSE Latest(Positions(m))

ToFirst == [positions |-> [c \in Children |-> Earliest(content[c])], forward |-> TRUE]
ToLast  == [positions |-> [c \in Children |-> Latest(content[c])], forward |-> FALSE]

\* Seek to the first entry of user key k with a sequence number up to s, or after it.
ToKey(k, s) ==
  [positions |-> [c \in Children |->
                    Earliest({e \in content[c] : e.key > k \/ (e.key = k /\ e.sequence <= s)})],
   forward   |-> TRUE]

\* Mutant: the other children are left where the other direction put them.
StepWithoutTurning(m) ==
  [positions |-> [c \in Children |-> IF m.positions[c] = Current(m)
                                     THEN After(content[c], Current(m))
                                     ELSE m.positions[c]],
   forward   |-> TRUE]

\* Next: after a change of direction the other children are put after the key.
Step(m) ==
  [positions |-> [c \in Children |-> IF m.positions[c] = Current(m) \/ ~m.forward
                                     THEN After(content[c], Current(m))
                                     ELSE m.positions[c]],
   forward   |-> TRUE]

\* Prev: after a change of direction each of the other children is sought and
\* steps back, or goes to its end; by then it may hold more, grown.
StepBack(m, grown) ==
  LET turned(c) == LET e == From(content[c], Current(m))
                   IN  IF e # NoEntry THEN Behind(grown[c], e) ELSE Latest(grown[c])
  IN  [positions |-> [c \in Children |-> IF m.positions[c] = Current(m)
                                         THEN Behind(grown[c], Current(m))
                                         ELSE IF m.forward THEN turned(c) ELSE m.positions[c]],
       forward   |-> FALSE]

------------------------------------------------------------------------------
(***************************************************************************)
(* The memtable.                                                           *)
(***************************************************************************)
Contained == UNION {content[c] : c \in Children}

Insert(key, deletion) ==
  LET entry == [key |-> key, sequence |-> Cardinality(Contained) + 1, deletion |-> deletion]
  IN  /\ inserts < MaxInserts
      /\ inserts' = inserts + 1
      /\ content' = [content EXCEPT ![1] = @ \cup {entry}]
      /\ UNCHANGED sequence

\* An insertion between two actions of the iterator.
InsertBetween(key, deletion) ==
  /\ Insert(key, deletion)
  /\ UNCHANGED <<merging, at, forward, valid, savedKey, savedValue, flag, expected>>

\* The tables, in the order of their first entries as any other is the same, and
\* the memtable, which holds the newest ones.
Init ==
  /\ \E n \in 0..MaxEntries : \E entries \in [1..n -> UserKeys \X BOOLEAN], child \in [1..n -> Children] :
       /\ \A d, e \in 1..n : d < e /\ child[d] = 1 => child[e] = 1
       /\ \A e \in 1..n : child[e] > 2 => \E d \in 1..(e - 1) : child[d] = child[e] - 1
       /\ content = [c \in Children |->
                       {[key |-> entries[e][1], sequence |-> e, deletion |-> entries[e][2]] :
                          e \in {d \in 1..n : child[d] = c}}]
       /\ sequence \in 0..n
  /\ inserts = 0
  /\ merging = [positions |-> [c \in Children |-> NoEntry], forward |-> TRUE]
  /\ at = "idle" /\ forward = TRUE /\ valid = FALSE
  /\ savedKey = 0 /\ savedValue = NoEntry /\ flag = FALSE
  /\ expected = 0

------------------------------------------------------------------------------
(***************************************************************************)
(* What the caller should see: the keys whose last write up to the         *)
(* snapshot is not a deletion.                                             *)
(***************************************************************************)
LastWrite(k) == Earliest({e \in Contained : e.key = k /\ e.sequence <= sequence})

Shown == {k \in UserKeys : LastWrite(k) # NoEntry /\ ~LastWrite(k).deletion}

Lowest(ks)  == IF ks = {} THEN 0 ELSE Min(ks)
Highest(ks) == IF ks = {} THEN 0 ELSE Max(ks)

------------------------------------------------------------------------------
(***************************************************************************)
(* DBIter.                                                                 *)
(***************************************************************************)
\* Where the loops of FindNextUserEntry and FindPrevUserEntry begin.
StartNext(skipping) == at' = "next" /\ flag' = skipping
StartPrev           == at' = "prev" /\ flag' = FALSE

Return(isValid) == at' = "idle" /\ valid' = isValid /\ flag' = FALSE

StartSeek(m) ==
  /\ merging' = m
  /\ forward' = TRUE
  /\ IF Valid(m) THEN StartNext(FALSE) /\ UNCHANGED valid ELSE Return(FALSE)
  /\ savedValue' = NoEntry
  /\ UNCHANGED database

SeekToFirst ==
  /\ at = "idle"
  /\ StartSeek(ToFirst) /\ UNCHANGED savedKey
  /\ expected' = Lowest(Shown)

Seek(k) ==
  /\ at = "idle"
  /\ StartSeek(ToKey(k, sequence)) /\ savedKey' = k
  /\ expected' = Lowest({j \in Shown : j >= k})

SeekToLast ==
  /\ at = "idle"
  /\ merging' = ToLast
  /\ forward' = FALSE
  /\ StartPrev
  /\ savedValue' = NoEntry
  /\ expected' = Highest(Shown)
  /\ UNCHANGED <<database, valid, savedKey>>

Next ==
  /\ at = "idle" /\ valid
  /\ expected' = Lowest({j \in Shown : j > expected})
  /\ \/ /\ forward
        /\ savedKey' = Current(merging).key
        /\ StartNext(TRUE)
        /\ UNCHANGED <<merging, forward, valid>>
     \/ /\ ~forward
        /\ forward' = TRUE
        /\ merging' = IF Valid(merging) THEN Step(merging) ELSE ToFirst
        /\ IF Valid(merging')
           THEN StartNext(TRUE) /\ UNCHANGED <<savedKey, valid>>
           ELSE Return(FALSE) /\ savedKey' = 0
  /\ UNCHANGED <<database, savedValue>>

\* One turn of FindNextUserEntry's loop.
FindNextUserEntry ==
  /\ at = "next"
  /\ LET e       == Current(merging)
         seen    == e.sequence <= sequence
         deletes == seen /\ e.deletion
         hidden  == flag /\ e.key <= savedKey
     IN  \/ /\ seen /\ ~deletes /\ ~hidden
            /\ Return(TRUE)
            /\ savedKey' = 0
            /\ UNCHANGED merging
         \/ /\ ~seen \/ deletes \/ hidden
            /\ merging' = Step(merging)
            /\ IF Valid(merging')
               THEN /\ savedKey' = IF deletes THEN e.key ELSE savedKey
                    /\ flag' = (flag \/ deletes)
                    /\ UNCHANGED <<at, valid>>
               ELSE Return(FALSE) /\ savedKey' = 0
  /\ UNCHANGED <<database, forward, savedValue, expected>>

Prev ==
  /\ at = "idle" /\ valid
  /\ expected' = Highest({j \in Shown : j < expected})
  /\ \/ /\ forward
        /\ savedKey' = Current(merging).key
        /\ at' = "turn"
        /\ UNCHANGED flag
     \/ /\ ~forward
        /\ StartPrev
        /\ UNCHANGED savedKey
  /\ UNCHANGED <<database, merging, forward, valid, savedValue>>

\* The merging iterator's Prev, with or without an insertion meanwhile.
Back ==
  /\ UNCHANGED database \/ \E key \in UserKeys, deletion \in BOOLEAN : Insert(key, deletion)
  /\ merging' = StepBack(merging, content')

\* One turn of the loop that leaves the current user key behind.
Turn ==
  /\ at = "turn"
  /\ Back
  /\ IF ~Valid(merging')
     THEN Return(FALSE) /\ savedKey' = 0 /\ savedValue' = NoEntry /\ UNCHANGED forward
     ELSE /\ UNCHANGED <<valid, savedKey, savedValue>>
          /\ IF Current(merging').key < savedKey
             THEN forward' = FALSE /\ StartPrev
             ELSE UNCHANGED <<forward, at, flag>>
  /\ UNCHANGED expected

\* One turn of FindPrevUserEntry's loop.
FindPrevUserEntry ==
  /\ at = "prev" /\ Valid(merging)
  /\ LET e    == Current(merging)
         seen == e.sequence <= sequence
     IN  \/ /\ seen /\ flag /\ e.key < savedKey
            /\ Return(TRUE)
            /\ UNCHANGED <<database, merging, savedKey, savedValue>>
         \/ /\ seen /\ ~(flag /\ e.key < savedKey)
            /\ flag' = ~e.deletion
            /\ savedKey' = IF e.deletion THEN 0 ELSE e.key
            /\ savedValue' = IF e.deletion THEN NoEntry ELSE e
            /\ Back
            /\ UNCHANGED <<at, valid>>
         \/ /\ ~seen
            /\ Back
            /\ UNCHANGED <<at, valid, flag, savedKey, savedValue>>
  /\ UNCHANGED <<forward, expected>>

\* The loop, or SeekToLast, has come to the end.
FindPrevUserEntryEnds ==
  /\ at = "prev" /\ ~Valid(merging)
  /\ Return(flag)
  /\ IF flag THEN UNCHANGED <<forward, savedKey, savedValue>>
     ELSE forward' = TRUE /\ savedKey' = 0 /\ savedValue' = NoEntry
  /\ UNCHANGED <<database, merging, expected>>

Call == SeekToFirst \/ SeekToLast \/ (\E k \in UserKeys : Seek(k)) \/ Next \/ Prev

Loop == FindNextUserEntry \/ Turn \/ FindPrevUserEntry \/ FindPrevUserEntryEnds

Steps == Call \/ Loop \/ \E key \in UserKeys, deletion \in BOOLEAN : InsertBetween(key, deletion)

Spec == Init /\ [][Steps]_vars

------------------------------------------------------------------------------
(***************************************************************************)
(* Properties.                                                             *)
(***************************************************************************)
Key   == IF forward THEN Current(merging).key ELSE savedKey
Value == IF forward THEN Current(merging) ELSE savedValue

\* After every call the iterator is at the key the caller should see, with the
\* last value written up to the snapshot, however often the direction changed
\* and whatever was inserted meanwhile.
IteratorIsRight ==
  at = "idle" =>
    /\ valid <=> expected # 0
    /\ valid => Key = expected /\ Value = LastWrite(expected)
==============================================================================
