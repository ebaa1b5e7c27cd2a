------------------------------ MODULE TableFile ------------------------------
(***************************************************************************)
(* A table file of leveldb-library: TableBuilder (table/table_builder.cc)  *)
(* cuts sorted entries into data blocks and writes an index with a key     *)
(* between two blocks, shortened if that is possible; BlockBuilder         *)
(* (table/block_builder.cc) stores of a key only what differs from the one *)
(* before, but for a restart point every few entries.  The finished file   *)
(* is read through Block::Iter (table/block.cc), on the index and on data  *)
(* blocks, by the two-level iterator (table/two_level_iterator.cc) and by  *)
(* Table::InternalGet (table/table.cc).                                    *)
(*                                                                         *)
(* An internal key is the bytes of the user key and one number for its     *)
(* sequence number and type.  An offset in a block is the number of an     *)
(* entry, a handle the number of a data block; values matter only in the   *)
(* index, where they are handles.  Where a block is full depends on its    *)
(* bytes and is left open.  A reader has the file for itself: a call is a  *)
(* step.  There are no filter blocks: by default no filter policy is set.  *)
(***************************************************************************)
EXTENDS Integers, FiniteSets, Sequences, SequencesExt, FiniteSetsExt

CONSTANTS
  Strings,      \* user keys: sequences of bytes, none of them empty
  LastByte,     \* 0xff
  Tags,         \* sequence numbers, with the type: positive integers
  MaxTag,       \* kMaxSequenceNumber with kValueTypeForSeek
  Interval,     \* block_restart_interval of the data blocks
  MaxAdds,      \* bound on the entries
  NoBlock       \* NULL, for data_iter_

VARIABLES
  builder,      \* TableBuilder: data_block, last_key, pending_index_entry, closed
  blocks,       \* the data blocks written
  index,        \* index_block
  added,        \* history: the keys added
  iterator,     \* the TwoLevelIterator: index_iter_, data_iter_, its handle, status_;
                \* met is a history: a block could not be read
  expected      \* history: which of the keys it should be at, 0 if at none

vars == <<builder, blocks, index, added, iterator, expected>>

InternalKeys == {Append(s, t) : s \in Strings, t \in Tags}
Targets      == {Append(s, t) : s \in Strings, t \in Tags \cup {MaxTag}}

------------------------------------------------------------------------------
(***************************************************************************)
(* Keys.                                                                   *)
(***************************************************************************)
User(k) == Front(k)

\* Slice::compare.
StringLess(s, t) ==
  \E i \in DOMAIN t : /\ \A j \in 1..(i - 1) : j <= Len(s) /\ s[j] = t[j]
                      /\ i <= Len(s) => s[i] < t[i]

\* InternalKeyComparator: by user key, the newest first.
Before(k, l) ==
  StringLess(User(k), User(l)) \/ (User(k) = User(l) /\ Last(k) > Last(l))

Shared(s, t) == Len(LongestCommonPrefix({s, t}))

\* BytewiseComparator's.  A string that is a prefix of the other one, or whose
\* first different byte has no other between, is left alone.
FindShortestSeparator(start, limit) ==
  LET d == Shared(start, limit) + 1
  IN  IF /\ d \in DOMAIN start /\ d \in DOMAIN limit
         /\ start[d] < LastByte /\ start[d] + 1 < limit[d]
      THEN Append(SubSeq(start, 1, d - 1), start[d] + 1)
      ELSE start

FindShortSuccessor(key) ==
  LET smaller == {i \in DOMAIN key : key[i] # LastByte}
      i       == Min(smaller)
  IN  IF smaller = {} THEN key ELSE Append(SubSeq(key, 1, i - 1), key[i] + 1)

\* InternalKeyComparator's: the earliest of all the keys with the shorter string.
Shortened(k, string) ==
  IF Len(string) < Len(User(k)) /\ StringLess(User(k), string)
  THEN Append(string, MaxTag)
  ELSE k

Separator(k, limit) == Shortened(k, FindShortestSeparator(User(k), User(limit)))
Successor(k)        == Shortened(k, FindShortSuccessor(User(k)))

------------------------------------------------------------------------------
(***************************************************************************)
(* BlockBuilder and TableBuilder.                                          *)
(***************************************************************************)
EmptyBlock == [entries |-> <<>>, restarts |-> <<1>>, counter |-> 0, lastKey |-> <<>>]

\* BlockBuilder::Add.
AddEntry(block, interval, k, handle) ==
  LET restart == block.counter = interval
      shared  == IF restart THEN 0 ELSE Shared(block.lastKey, k)
  IN  [entries  |-> Append(block.entries, [shared |-> shared, handle |-> handle,
                                           delta |-> SubSeq(k, shared + 1, Len(k))]),
       restarts |-> IF restart THEN Append(block.restarts, Len(block.entries) + 1)
                    ELSE block.restarts,
       counter  |-> IF restart THEN 1 ELSE block.counter + 1,
       lastKey  |-> k]

NotOpen == [index |-> <<>>, data |-> NoBlock, handle |-> 0, failed |-> FALSE, met |-> FALSE]

Init ==
  /\ builder = [data |-> EmptyBlock, lastKey |-> <<>>, pending |-> FALSE, closed |-> FALSE]
  /\ blocks = <<>> /\ index = EmptyBlock
  /\ added = <<>>
  /\ iterator = NotOpen /\ expected = 0

AddIndexEntry(k) == AddEntry(index, 1, k, Len(blocks))

\* The key comes after all before it.  Flush if it fills the block.
Add(k, full) ==
  LET data == AddEntry(builder.data, Interval, k, 0)
  IN  /\ ~builder.closed /\ Len(added) < MaxAdds
      /\ added # <<>> => Before(builder.lastKey, k)
      /\ added' = Append(added, k)
      /\ index' = IF builder.pending THEN AddIndexEntry(Separator(builder.lastKey, k))
                  ELSE index
      /\ blocks' = IF full THEN Append(blocks, data) ELSE blocks
      /\ builder' = [builder EXCEPT !.data = IF full THEN EmptyBlock ELSE data,
                                    !.lastKey = k, !.pending = full]
      /\ UNCHANGED <<iterator, expected>>

\* Flush, the last index entry, and nothing more to add.
Finish ==
  LET written == IF builder.data = EmptyBlock THEN blocks ELSE Append(blocks, builder.data)
  IN  /\ ~builder.closed /\ added # <<>>
      /\ blocks' = written
      /\ index' = AddEntry(index, 1, Successor(builder.lastKey), Len(written))
      /\ builder' = [builder EXCEPT !.data = EmptyBlock, !.pending = FALSE, !.closed = TRUE]
      /\ UNCHANGED <<added, iterator, expected>>

------------------------------------------------------------------------------
(***************************************************************************)
(* Block::Iter: the number of the current entry, restart_index_, key_, and *)
(* NextEntryOffset.                                                        *)
(***************************************************************************)
Valid(block, at) == at.current <= Len(block.entries)

NotValid(block, at) ==
  [at EXCEPT !.current = Len(block.entries) + 1, !.restart = Len(block.restarts) + 1]

\* As NewIterator makes it.
NewIterator(block) ==
  NotValid(block, [current |-> 0, restart |-> 0, key |-> <<>>, next |-> 1])

ParseNextKey(block, at) ==
  LET entry  == block.entries[at.next]
      passed == {r \in DOMAIN block.restarts : block.restarts[r] < at.next}
  IN  IF at.next > Len(block.entries) THEN NotValid(block, at)
      ELSE [current |-> at.next,
            restart |-> Max(passed \cup {at.restart}),
            key     |-> SubSeq(at.key, 1, entry.shared) \o entry.delta,
            next    |-> at.next + 1]

\* SeekToRestartPoint, and ParseNextKey until it is at entry n.
ParseUpTo(block, restart, n) ==
  LET first == block.restarts[restart]
  IN  FoldLeft(LAMBDA at, i : ParseNextKey(block, at),
               [current |-> first, restart |-> restart, key |-> <<>>, next |-> first],
               [i \in 1..(n - first + 1) |-> i])

ToFirst(block) == ParseUpTo(block, 1, 1)
ToLast(block)  == ParseUpTo(block, Len(block.restarts), Len(block.entries))

\* Prev: from the last restart point before the entry.
Previous(block, at) ==
  LET points == {r \in 1..at.restart : block.restarts[r] < at.current}
  IN  IF points = {} THEN NotValid(block, at)
      ELSE ParseUpTo(block, Max(points), at.current - 1)

\* Seek's binary search for the last restart point with a key before the target.
RestartBefore(block, target) ==
  LET search[left \in DOMAIN block.restarts, right \in DOMAIN block.restarts] ==
        LET mid == (left + right + 1) \div 2
        IN  IF left >= right THEN left
            ELSE IF Before(block.entries[block.restarts[mid]].delta, target)
                 THEN search[mid, right]
                 ELSE search[left, mid - 1]
  IN  search[1, Len(block.restarts)]

\* And from there entry by entry.
SeekIn(block, target) ==
  LET restart == RestartBefore(block, target)
      reached == {n \in block.restarts[restart]..Len(block.entries) :
                    ~Before(ParseUpTo(block, restart, n).key, target)}
  IN  ParseUpTo(block, restart, Min(reached \cup {Len(block.entries) + 1}))

------------------------------------------------------------------------------
(***************************************************************************)
(* TwoLevelIterator.  Each operator takes the iterator and returns it      *)
(* changed; broken are the blocks that cannot be read during the call.     *)
(***************************************************************************)
IndexValid(it) == Valid(index, it.index)
Handle(it)     == index.entries[it.index.current].handle
Readable(it)   == it.data # NoBlock /\ ~it.data.error
DataValid(it)  == Readable(it) /\ Valid(blocks[it.handle], it.data.at)

\* Mutant: the error of the block that is left is not saved.
SetDataIteratorOnly(it, data) == [it EXCEPT !.data = data]

\* The status of the one that goes is saved.
SetDataIterator(it, data) ==
  [it EXCEPT !.failed = @ \/ (it.data # NoBlock /\ it.data.error), !.data = data]

\* BlockReader's iterator, or NewErrorIterator.
BlockReader(h, broken) == [error |-> h \in broken, at |-> NewIterator(blocks[h])]

\* A block that is there already is not read again, even if it was an error.
InitDataBlock(it, broken) ==
  IF ~IndexValid(it) THEN SetDataIterator(it, NoBlock)
  ELSE IF it.data # NoBlock /\ it.handle = Handle(it) THEN it
  ELSE [SetDataIterator(it, BlockReader(Handle(it), broken))
          EXCEPT !.handle = Handle(it), !.met = @ \/ Handle(it) \in broken]

\* An iterator on an unreadable block ignores every movement.
DataTo(it, at) == IF Readable(it) THEN [it EXCEPT !.data.at = at] ELSE it

DataToFirst(it) == DataTo(it, ToFirst(blocks[it.handle]))
DataToLast(it)  == DataTo(it, ToLast(blocks[it.handle]))

\* Blocks that are used up, and those that cannot be read, are passed over.
RECURSIVE SkipEmptyDataBlocksForward(_, _)
SkipEmptyDataBlocksForward(it, broken) ==
  LET moved == InitDataBlock([it EXCEPT !.index = ParseNextKey(index, @)], broken)
  IN  IF DataValid(it) THEN it
      ELSE IF ~IndexValid(it) THEN SetDataIterator(it, NoBlock)
      ELSE SkipEmptyDataBlocksForward(DataToFirst(moved), broken)

RECURSIVE SkipEmptyDataBlocksBackward(_, _)
SkipEmptyDataBlocksBackward(it, broken) ==
  LET moved == InitDataBlock([it EXCEPT !.index = Previous(index, @)], broken)
  IN  IF DataValid(it) THEN it
      ELSE IF ~IndexValid(it) THEN SetDataIterator(it, NoBlock)
      ELSE SkipEmptyDataBlocksBackward(DataToLast(moved), broken)

\* The index iterator has moved: the block it is at now.
AtBlock(it, i, broken) == InitDataBlock([it EXCEPT !.index = i], broken)

------------------------------------------------------------------------------
(***************************************************************************)
(* Calls of a reader.                                                      *)
(***************************************************************************)
Opened    == iterator # NotOpen
Broken    == {{}} \cup {{b} : b \in DOMAIN blocks}
Unchanged == UNCHANGED <<builder, blocks, index, added>>

\* Table::NewIterator.
Open ==
  /\ builder.closed /\ ~Opened
  /\ iterator' = [NotOpen EXCEPT !.index = NewIterator(index)]
  /\ UNCHANGED expected /\ Unchanged

Seek(target, broken) ==
  LET it    == AtBlock(iterator, SeekIn(index, target), broken)
      after == {n \in DOMAIN added : ~Before(added[n], target)}
  IN  /\ Opened
      /\ iterator' = SkipEmptyDataBlocksForward(
                       DataTo(it, SeekIn(blocks[it.handle], target)), broken)
      /\ expected' = IF after = {} THEN 0 ELSE Min(after)
      /\ Unchanged

SeekToFirst(broken) ==
  /\ Opened
  /\ iterator' = SkipEmptyDataBlocksForward(
                   DataToFirst(AtBlock(iterator, ToFirst(index), broken)), broken)
  /\ expected' = 1
  /\ Unchanged

SeekToLast(broken) ==
  /\ Opened
  /\ iterator' = SkipEmptyDataBlocksBackward(
                   DataToLast(AtBlock(iterator, ToLast(index), broken)), broken)
  /\ expected' = Len(added)
  /\ Unchanged

NextEntry(broken) ==
  /\ Opened /\ DataValid(iterator)
  /\ iterator' = SkipEmptyDataBlocksForward(
                   DataTo(iterator, ParseNextKey(blocks[iterator.handle], iterator.data.at)),
                   broken)
  /\ expected' = (expected + 1) % (Len(added) + 1)
  /\ Unchanged

PrevEntry(broken) ==
  /\ Opened /\ DataValid(iterator)
  /\ iterator' = SkipEmptyDataBlocksBackward(
                   DataTo(iterator, Previous(blocks[iterator.handle], iterator.data.at)),
                   broken)
  /\ expected' = IF expected = 0 THEN 0 ELSE expected - 1
  /\ Unchanged

Next ==
  \/ \E k \in InternalKeys, full \in BOOLEAN : Add(k, full)
  \/ Finish
  \/ Open
  \/ \E broken \in Broken :
       \/ \E target \in Targets : Seek(target, broken)
       \/ SeekToFirst(broken) \/ SeekToLast(broken)
       \/ NextEntry(broken) \/ PrevEntry(broken)

Spec == Init /\ [][Next]_vars

------------------------------------------------------------------------------
(***************************************************************************)
(* Properties.                                                             *)
(***************************************************************************)
Bytes    == Seq(Nat)
Block    == [entries  : Seq([shared : Nat, handle : Nat, delta : Bytes]),
             restarts : Seq(Nat \ {0}), counter : Nat, lastKey : Bytes]
Position == [current : Nat, restart : Nat, key : Bytes, next : Nat]

TypeOK ==
  /\ builder \in [data : Block, lastKey : Bytes, pending : BOOLEAN, closed : BOOLEAN]
  /\ blocks \in Seq(Block) /\ index \in Block
  /\ added \in Seq(InternalKeys) /\ Len(added) <= MaxAdds
  /\ \/ iterator = NotOpen
     \/ iterator \in [index : Position, handle : 0..Len(blocks), failed : BOOLEAN,
                      met : BOOLEAN,
                      data : {NoBlock} \cup [error : BOOLEAN, at : Position]]
  /\ expected \in 0..Len(added)

\* TwoLevelIterator::status.
Failed == iterator.failed \/ (iterator.data # NoBlock /\ iterator.data.error)

\* Through every sequence of calls the iterator is at the key it should be, across
\* blocks, restart points and shortened index keys.  If a block could not be read
\* the iterator goes on behind it, and says so by its status ever after: a scan
\* that left entries out never ends with success.
IteratorIsRight ==
  Opened =>
    IF iterator.met THEN Failed
    ELSE /\ ~Failed
         /\ DataValid(iterator) <=> expected # 0
         /\ DataValid(iterator) => iterator.data.at.key = added[expected]

\* InternalGet looks into a single block, the one the index leads to, and
\* SaveValue takes what it finds only for the user key.
InternalGet(target) ==
  LET i     == SeekIn(index, target)
      block == blocks[index.entries[i.current].handle]
      at    == SeekIn(block, target)
  IN  IF Valid(index, i) /\ Valid(block, at) /\ User(at.key) = User(target)
      THEN at.key ELSE <<>>

\* It finds the newest entry of a user key up to a sequence number, if there is one.
GetsAreRight ==
  builder.closed /\ ~Opened =>
    \A target \in Targets :
      LET found == {k \in ToSet(added) : User(k) = User(target) /\ ~Before(k, target)}
      IN  IF found = {} THEN InternalGet(target) = <<>>
          ELSE InternalGet(target) \in found /\ \A k \in found : ~Before(k, InternalGet(target))
==============================================================================
