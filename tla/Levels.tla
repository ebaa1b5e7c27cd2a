-------------------------------- MODULE Levels --------------------------------
(***************************************************************************)
(* The levels of leveldb-library (db/version_set.cc, db/db_impl.cc): where *)
(* a memtable's table goes, which files a compaction takes and which       *)
(* entries it drops.  LevelsState has their state, the reads and the       *)
(* properties.                                                             *)
(*                                                                         *)
(* Which file a compaction starts from (the sizes, the compaction pointers *)
(* and the reads charged to the files decide) and where it ends an output  *)
(* file (the size decides) are left open.  The limits on the bytes of the  *)
(* overlapped grandparents are never reached.                              *)
(***************************************************************************)
EXTENDS LevelsState, Sequences

vars == <<history, mem, imm, version, snapshots, compaction, keySplit>>

TypeOK ==
  /\ history \in Seq([key : Keys, deletion : BOOLEAN]) /\ Len(history) <= MaxWrites
  /\ mem \subseteq Entries /\ imm \subseteq Entries
  /\ version \subseteq File /\ \A f \in version : f.entries # {}
  /\ snapshots \subseteq 0..Len(history) /\ Cardinality(snapshots) <= MaxSnapshots
  /\ \/ compaction = None
     \/ compaction \in [inputs : SUBSET version, outputs : SUBSET File]
  /\ keySplit \in BOOLEAN

Init ==
  /\ history = <<>>
  /\ mem = {} /\ imm = {}
  /\ version = {}
  /\ snapshots = {}
  /\ compaction = None
  /\ keySplit = FALSE

\* The n-th file made by an action, newer than the ones there are.
NewFile(l, n, entries) ==
  [level |-> l, entries |-> entries,
   number |-> IF l = 0 THEN Max({0} \cup {f.number : f \in version}) + n ELSE 0]

------------------------------------------------------------------------------
\* At level 0 the range grows until no file reaches across its ends.
GetOverlappingInputs(l, low, high) ==
  LET closed == {r \in Keys \X Keys :
                   /\ r[1] <= low /\ high <= r[2]
                   /\ \A f \in Overlapping(0, r[1], r[2]) :
                        r[1] <= SmallestKey(f) /\ LargestKey(f) <= r[2]}
      whole  == <<Min(Keys), Max(Keys)>>
      range  == CHOOSE r \in closed \cup {whole} :
                  \A s \in closed : s[1] <= r[1] /\ r[2] <= s[2]
  IN  IF l = 0 THEN Overlapping(0, range[1], range[2]) ELSE Overlapping(l, low, high)

OverlappingInputs(l, files) ==
  GetOverlappingInputs(l, Min(KeysOf(files)), Max(KeysOf(files)))

------------------------------------------------------------------------------
(***************************************************************************)
(* Writes, snapshots and memtables.                                        *)
(***************************************************************************)
Write(k, deletion) ==
  /\ Len(history) < MaxWrites
  /\ deletion => Cardinality({e \in DOMAIN history : IsDeletion(e)}) < MaxDeletions
  /\ history' = Append(history, [key |-> k, deletion |-> deletion])
  /\ mem' = mem \cup {LastSequence + 1}
  /\ UNCHANGED <<imm, version, snapshots, compaction, keySplit>>

GetSnapshot ==
  /\ Cardinality(snapshots) < MaxSnapshots
  /\ snapshots' = snapshots \cup {LastSequence}
  /\ UNCHANGED <<history, mem, imm, version, compaction, keySplit>>

ReleaseSnapshot(s) ==
  /\ s \in snapshots
  /\ snapshots' = snapshots \ {s}
  /\ UNCHANGED <<history, mem, imm, version, compaction, keySplit>>

\* MakeRoomForWrite.
SwitchMemTable ==
  /\ mem # {} /\ imm = {}
  /\ imm' = mem /\ mem' = {}
  /\ UNCHANGED <<history, version, snapshots, compaction, keySplit>>

\* Mutant: the level the table ends in is not looked at.
PickLevelUnchecked(low, high) ==
  LET free == {l \in 0..MaxMemCompactLevel :
                 \A m \in 0..(l - 1) : Overlapping(m, low, high) = {}}
  IN  Max(free \cup {0})

\* As far down as no file of the levels passed overlaps.
PickLevelForMemTableOutput(low, high) ==
  LET free == {l \in 0..MaxMemCompactLevel :
                 \A m \in 0..l : Overlapping(m, low, high) = {}}
  IN  Max(free \cup {0})

CompactMemTable ==
  /\ imm # {}
  /\ LET keys == {Key(e) : e \in imm}
         l    == PickLevelForMemTableOutput(Min(keys), Max(keys))
     IN  version' = version \cup {NewFile(l, 1, imm)}
  /\ imm' = {}
  /\ UNCHANGED <<history, mem, snapshots, compaction, keySplit>>

------------------------------------------------------------------------------
(***************************************************************************)
(* Compactions.                                                            *)
(***************************************************************************)
\* PickCompaction's files of the level, before they may grow.
Picked(f) == IF f.level = 0 THEN OverlappingInputs(0, {f}) ELSE {f}

\* SetupOtherInputs.  The level's files grow if the next level's stay the same
\* and the bytes are few.
Inputs(f) ==
  LET inputs0   == Picked(f)
      inputs1   == OverlappingInputs(f.level + 1, inputs0)
      expanded0 == OverlappingInputs(f.level, inputs0 \cup inputs1)
      expanded1 == OverlappingInputs(f.level + 1, expanded0)
      grows     == /\ inputs1 # {} /\ Cardinality(expanded0) > Cardinality(inputs0)
                   /\ Cardinality(expanded1) = Cardinality(inputs1)
  IN  {inputs0 \cup inputs1} \cup (IF grows THEN {expanded0 \cup expanded1} ELSE {})

IsTrivialMove(inputs) == Cardinality(inputs) = 1

SmallestSnapshot == Min(snapshots \cup {LastSequence})

IsBaseLevelForKey(level, k) ==
  \A f \in version : f.level >= level + 2 => ~(SmallestKey(f) <= k /\ k <= LargestKey(f))

\* Mutant: a deletion is dropped while a snapshot may still need it.
DropsEarly(level, entries, e) ==
  \/ \E d \in entries : Key(d) = Key(e) /\ d > e /\ d <= SmallestSnapshot
  \/ IsDeletion(e) /\ IsBaseLevelForKey(level, Key(e))

\* DoCompactionWork: hidden by a newer entry that every snapshot sees, or a
\* deletion with nothing left to hide.
Drops(level, entries, e) ==
  \/ \E d \in entries : Key(d) = Key(e) /\ d > e /\ d <= SmallestSnapshot
  \/ IsDeletion(e) /\ e <= SmallestSnapshot /\ IsBaseLevelForKey(level, Key(e))

\* PickCompaction chose file f: one file is moved to the next level as it is.
MoveFile(f) ==
  /\ compaction = None /\ imm = {}
  /\ \E inputs \in Inputs(f) :
       /\ IsTrivialMove(inputs)
       /\ version' = (version \ inputs) \cup {NewFile(f.level + 1, 1, f.entries)}
  /\ UNCHANGED <<history, mem, imm, snapshots, compaction, keySplit>>

\* Otherwise what is kept is written to one file or two, the second one after
\* an entry called cut.
DoCompactionWork(f) ==
  /\ compaction = None /\ imm = {}
  /\ \E inputs \in Inputs(f) :
       LET entries  == UNION {g.entries : g \in inputs}
           kept     == {e \in entries : ~Drops(f.level, entries, e)}
           output(es) == NewFile(f.level + 1, 1, es)
       IN  /\ ~IsTrivialMove(inputs)
           /\ \/ /\ kept = {}
                 /\ compaction' = [inputs |-> inputs, outputs |-> {}]
                 /\ UNCHANGED keySplit
              \/ \E cut \in kept :
                   LET after == {e \in kept : Before(cut, e)}
                   IN  /\ compaction' =
                            [inputs  |-> inputs,
                             outputs |-> {output(kept \ after)} \cup
                                         (IF after = {} THEN {} ELSE {output(after)})]
                       /\ keySplit' = (keySplit \/ \E e \in after : Key(e) = Key(cut))
  /\ UNCHANGED <<history, mem, imm, version, snapshots>>

InstallCompactionResults ==
  /\ compaction # None
  /\ version' = (version \ compaction.inputs) \cup compaction.outputs
  /\ compaction' = None
  /\ UNCHANGED <<history, mem, imm, snapshots, keySplit>>

\* The process ends and the database is opened again: the log of each memtable
\* becomes a level-0 table.
Recover ==
  /\ mem # {} \/ imm # {}
  /\ LET logs == {log \in {<<1, imm>>, <<IF imm = {} THEN 1 ELSE 2, mem>>} : log[2] # {}}
     IN  version' = version \cup {NewFile(0, log[1], log[2]) : log \in logs}
  /\ mem' = {} /\ imm' = {}
  /\ snapshots' = {} /\ compaction' = None
  /\ UNCHANGED <<history, keySplit>>

Next ==
  \/ \E k \in Keys, deletion \in BOOLEAN : Write(k, deletion)
  \/ GetSnapshot
  \/ \E s \in snapshots : ReleaseSnapshot(s)
  \/ SwitchMemTable
  \/ CompactMemTable
  \/ \E f \in version : f.level < NumLevels - 1 /\ (MoveFile(f) \/ DoCompactionWork(f))
  \/ InstallCompactionResults
  \/ Recover

Spec == Init /\ [][Next]_vars
==============================================================================
