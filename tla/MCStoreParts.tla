----------------------------- MODULE MCStoreParts -----------------------------
(***************************************************************************)
(* Small instances of the parts of leveldb-library that LevelDB takes as   *)
(* one step or leaves out: the levels and reads, the iterators, the        *)
(* memtable's skip list, the cache of open tables, the log file and a      *)
(* table file.  A behaviour is a behaviour of one part, chosen at the      *)
(* start; the others stay in an initial state.  The state and properties   *)
(* of the skip list, the cache, the levels and the log file are those of   *)
(* their modules.                                                          *)
(***************************************************************************)
EXTENDS SkipList, TableCacheState, LevelsState, LogFile

CONSTANTS
  UserKeys, NumChildren, MaxEntries, MaxInserts, NoEntry,
  Strings, LastByte, Tags, MaxTag, Interval, MaxAdds, NoBlock

VARIABLES
  part,
  content, sequence, inserts, merging, at, forward, valid, savedKey, savedValue, flag, expected,
  builder, blocks, index, added, iterator, shouldBeAt

LevelsPart    == INSTANCE Levels
IteratorsPart == INSTANCE Iterators
CachePart     == INSTANCE TableCache
TablePart     == INSTANCE TableFile WITH expected <- shouldBeAt

listVars      == vars
levelsVars    == <<history, mem, imm, version, snapshots, compaction, keySplit>>
iteratorsVars == <<content, sequence, inserts, merging, at, forward, valid, savedKey,
                   savedValue, flag, expected>>
cacheVars     == <<entries, lru, inUse, usage, threads>>
tableVars     == <<builder, blocks, index, added, iterator, shouldBeAt>>
partsVars     == <<part, listVars, levelsVars, iteratorsVars, cacheVars, logVars, tableVars>>

\* User keys of which some can be shortened, before another or at the end, and
\* some cannot: 3 is the last byte.
MCStrings == {<<1>>, <<1, 0>>, <<3>>}

\* Iterators has many initial states: the other parts start from an empty one.
PartsInit ==
  /\ part \in {"list", "levels", "iterators", "cache", "log", "table"}
  /\ Init /\ LevelsPart!Init /\ IteratorsPart!Init /\ CachePart!Init /\ LogInit
  /\ TablePart!Init
  /\ part # "iterators" => UNION {content[c] : c \in DOMAIN content} = {}

PartsNext ==
  /\ UNCHANGED part
  /\ \/ /\ part = "list" /\ Next
        /\ UNCHANGED <<levelsVars, iteratorsVars, cacheVars, logVars, tableVars>>
     \/ /\ part = "levels" /\ LevelsPart!Next
        /\ UNCHANGED <<listVars, iteratorsVars, cacheVars, logVars, tableVars>>
     \/ /\ part = "iterators" /\ IteratorsPart!Steps
        /\ UNCHANGED <<listVars, levelsVars, cacheVars, logVars, tableVars>>
     \/ /\ part = "cache" /\ CachePart!Next
        /\ UNCHANGED <<listVars, levelsVars, iteratorsVars, logVars, tableVars>>
     \/ /\ part = "log" /\ LogNext
        /\ UNCHANGED <<listVars, levelsVars, iteratorsVars, cacheVars, tableVars>>
     \/ /\ part = "table" /\ TablePart!Next
        /\ UNCHANGED <<listVars, levelsVars, iteratorsVars, cacheVars, logVars>>

PartsSpec == PartsInit /\ [][PartsNext]_partsVars

------------------------------------------------------------------------------
\* The type invariants of the six parts.
TypesOK ==
  CASE part = "list"      -> TypeOK
    [] part = "levels"    -> LevelsPart!TypeOK
    [] part = "iterators" -> IteratorsPart!TypeOK
    [] part = "cache"     -> CachePart!TypeOK
    [] part = "log"       -> LogTypeOK
    [] part = "table"     -> TablePart!TypeOK

\* After every call the iterator is at the key the caller should see (Iterators).
IteratorIsRight == part = "iterators" => IteratorsPart!IteratorIsRight

\* An iterator over a table file is at the key it should be, or says that it may
\* have left some out, and a get finds the newest entry (TableFile).
TablesAreRead == part = "table" => TablePart!IteratorIsRight /\ TablePart!GetsAreRight
==============================================================================
