------------------------------- MODULE LevelDB -------------------------------
(***************************************************************************)
(* DBImpl of leveldb-library, the store beneath Firebase's local           *)
(* persistence: the queue of writers and its group commit, the log files,  *)
(* the switch of memtables, the background thread's compactions, the       *)
(* MANIFEST and CURRENT files, the deletion of obsolete files, and         *)
(* recovery after the process or the machine ends.                         *)
(*                                                                         *)
(* A batch is one name, and an entry <<sequence number, batch>>; what      *)
(* batches do to keys is Levels' subject.  Here every table overlaps every *)
(* other one.  mutex_ is taken between two steps: an action is what a      *)
(* thread does in one hold of it, or with it released.  Files that were    *)
(* synced, and creations, renames and deletions of files, survive the end  *)
(* of the machine.                                                         *)
(*                                                                         *)
(* A write to a log that fails may leave a torn record, and nothing sets   *)
(* the log's offset right: which records a later start can read from there *)
(* on is open until then.  A write to the MANIFEST that fails leaves the   *)
(* file as it was, or with the whole record.                               *)
(***************************************************************************)
EXTENDS Integers, FiniteSets, Sequences, SequencesExt, Functions

CONSTANTS
  Batches,        \* the writes, each made at most once
  Synced,         \* those with WriteOptions.sync
  Flushes,        \* writes of a NULL batch, by TEST_CompactMemTable
  MaxGroup,       \* bound on the writes of a group
  WriteBuffer,    \* write_buffer_size, in entries
  Trigger,        \* kL0_CompactionTrigger
  Slowdown,       \* kL0_SlowdownWritesTrigger
  Stop,           \* kL0_StopWritesTrigger
  MaxFaults       \* bound on the crashes and the failures of the file system

Writes == Batches \cup Flushes

ASSUME WritesAssumption == Synced \subseteq Batches /\ Batches \cap Flushes = {}
ASSUME TriggersAssumption ==
  /\ {MaxGroup, WriteBuffer, Trigger, Slowdown, Stop} \subseteq Nat \ {0}
  /\ Trigger <= Slowdown /\ Slowdown <= Stop
  /\ MaxFaults \in Nat

VARIABLES
  \* the directory
  logs,          \* log files by number: records, how many of the first ones are sure to
                 \* be read again (sound), and how many even after the end of the machine
  tables,        \* table files by number: their entries
  manifests,     \* descriptors by number: what each unsynced record leads to
  current,       \* the number in CURRENT
  \* DBImpl and VersionSet
  phase,         \* "down", a stage of Open, or "open"
  lastSequence, nextFile, logNumber, manifestFile,
  version,       \* files_ of the current version: pairs <<level, number>>
  mem, imm,      \* the memtable's entries; imm_ is {} (NULL) or one set of entries
  logfile,       \* logfile_number_
  pending,       \* pending_outputs_
  bgError,       \* bg_error_ is set
  \* threads
  writers,       \* writers_
  state,         \* where each writer is, in the end its answer
  room,          \* MakeRoomForWrite's force and allow_delay
  group,         \* the group being written: how many writers, which entries
  scheduled,     \* bg_compaction_scheduled_
  bg,            \* the background thread
  edit,          \* the VersionEdit being logged
  reader,        \* the table files of the versions a Get or an iterator holds
  \* of the past
  torn,          \* a write to the log in use was answered with an error
  doubtful,      \* what was acknowledged in such a log and is in no table yet
  faults         \* crashes and failures of the file system so far

directory == <<logs, tables, manifests, current>>
numbers   == <<lastSequence, nextFile, logNumber, manifestFile>>
memtables == <<mem, imm, logfile, torn, doubtful>>
queue     == <<writers, state, room, group>>
vars == <<directory, phase, numbers, version, memtables, pending, bgError, queue, scheduled,
          bg, edit, reader, faults>>

Entries   == Nat \X Batches
Edit      == [add : SUBSET (Nat \X Nat), del : SUBSET (Nat \X Nat), log : Nat,
              next : Nat, last : Nat]
Described == [files : SUBSET (Nat \X Nat), log : Nat, next : Nat, last : Nat]

Answers == {"ok", "error", "lost"}

\* Waiting for cv, in MakeRoomForWrite or waiting there for bg_cv_, writing.
WriterStates ==
  {"idle", "queued", "room", "waiting", "append", "sync", "insert", "failed",
   "syncFailed"} \cup Answers

\* flush is the table a CompactMemTable writes; inputs and output belong to a
\* DoCompactionWork, which may have a CompactMemTable in between.  0 is none.
Background == [at     : {"idle", "build", "work", "append", "sync", "clean"},
               flush  : Nat,
               inputs : SUBSET (Nat \X Nat),
               output : Nat]

NoEdit == [add |-> {}, del |-> {}, log |-> 0, next |-> 0, last |-> 0]
Idle   == [at |-> "idle", flush |-> 0, inputs |-> {}, output |-> 0]
NoGroup == [size |-> 0, entries |-> {}]

IsFileMap(f, S) == IsFiniteSet(DOMAIN f) /\ DOMAIN f \subseteq Nat /\ Range(f) \subseteq S

TypeOK ==
  /\ \A l \in DOMAIN logs :
       l \in Nat /\ logs[l].sound \in 0..Len(logs[l].records) /\ logs[l].synced \in 0..logs[l].sound
  /\ IsFileMap(tables, SUBSET Entries)
  /\ IsFileMap(manifests, Seq(Described)) /\ current \in DOMAIN manifests
  /\ phase \in {"down", "replay", "describe", "rename", "clean", "open"}
  /\ {lastSequence, nextFile, logNumber, manifestFile, logfile} \subseteq Nat
  /\ version \subseteq Nat \X Nat
  /\ mem \subseteq Entries /\ imm \subseteq SUBSET Entries /\ \A m, n \in imm : m = n
  /\ pending \subseteq Nat /\ bgError \in BOOLEAN
  /\ writers \in Seq(Writes) /\ IsInjective(writers)
  /\ state \in [Writes -> WriterStates]
  /\ room \in [force : BOOLEAN, delay : BOOLEAN]
  /\ group.size \in Nat /\ group.entries \subseteq Entries
  /\ scheduled \in BOOLEAN /\ bg \in Background /\ edit \in Edit
  /\ reader \subseteq SUBSET Nat
  /\ torn \in BOOLEAN /\ doubtful \subseteq Batches
  /\ faults \in 0..MaxFaults

------------------------------------------------------------------------------
(***************************************************************************)
(* Files.                                                                  *)
(***************************************************************************)
Put(f, n, x)  == [k \in DOMAIN f \cup {n} |-> IF k = n THEN x ELSE f[k]]
Drop(f, S)    == Restrict(f, DOMAIN f \ S)
Numbers(v)    == {file[2] : file \in v}
Level0(v)     == Cardinality({file \in v : file[1] = 0})
Contents(ns)  == UNION {tables[n] : n \in ns \cap DOMAIN tables}
LogContents(l) == UNION ToSet(logs[l].records)
NewLog        == [records |-> <<>>, sound |-> 0, synced |-> 0]

\* A record of the MANIFEST, applied to what the ones before it describe.
Apply(described, e) ==
  [files |-> (described.files \ e.del) \cup e.add,
   log |-> e.log, next |-> e.next, last |-> e.last]

\* What CURRENT's descriptor describes, and the logs to be read on top of it.
Descriptor    == Last(manifests[current])
LogsToReplay  == {l \in DOMAIN logs : l >= Descriptor.log}
Recoverable   == Contents(Numbers(Descriptor.files)) \cup UNION {LogContents(l) : l \in LogsToReplay}

\* NewDB has run: the first descriptor.
Init ==
  /\ logs = <<>> /\ tables = <<>> /\ current = 1
  /\ manifests = [n \in {1} |-> <<[files |-> {}, log |-> 0, next |-> 2, last |-> 0]>>]
  /\ phase = "down"
  /\ lastSequence = 0 /\ nextFile = 2 /\ logNumber = 0 /\ manifestFile = 0
  /\ version = {} /\ mem = {} /\ imm = {} /\ logfile = 0
  /\ pending = {} /\ bgError = FALSE
  /\ writers = <<>> /\ state = [w \in Writes |-> "idle"]
  /\ room = [force |-> FALSE, delay |-> FALSE] /\ group = NoGroup
  /\ scheduled = FALSE /\ bg = Idle /\ edit = NoEdit
  /\ reader = {}
  /\ torn = FALSE /\ doubtful = {}
  /\ faults = 0

Fault == faults < MaxFaults /\ faults' = faults + 1

NeedsCompaction(v) == Level0(v) >= Trigger

MaybeScheduleCompaction ==
  scheduled' = (scheduled \/ (~bgError' /\ (imm' # {} \/ NeedsCompaction(version'))))

\* bg_cv_.SignalAll(): MakeRoomForWrite looks again.
SignalAll(st) == [w \in Writes |-> IF st[w] = "waiting" THEN "room" ELSE st[w]]

------------------------------------------------------------------------------
(***************************************************************************)
(* Write.                                                                  *)
(***************************************************************************)
RoomOf(w) == [force |-> w \in Flushes, delay |-> w \notin Flushes]

Write(w) ==
  /\ phase = "open" /\ state[w] = "idle"
  /\ writers' = Append(writers, w)
  /\ state' = [state EXCEPT ![w] = IF writers = <<>> THEN "room" ELSE "queued"]
  /\ room' = IF writers = <<>> THEN RoomOf(w) ELSE room
  /\ UNCHANGED <<directory, phase, numbers, version, memtables, pending, bgError, group,
                 scheduled, bg, edit, reader, faults>>

\* Mutant: the new front of the queue is not signalled.
AnswerWithoutSignal(n, answer) ==
  LET rest == SubSeq(writers, n + 1, Len(writers))
  IN  /\ writers' = rest
      /\ state' = [w \in Writes |-> IF w \in ToSet(SubSeq(writers, 1, n)) THEN answer
                                    ELSE state[w]]
      /\ UNCHANGED room

\* The first n writers have their answer; the next one is signalled.
Answer(n, answer) ==
  LET rest == SubSeq(writers, n + 1, Len(writers))
  IN  /\ writers' = rest
      /\ state' = [w \in Writes |-> IF w \in ToSet(SubSeq(writers, 1, n)) THEN answer
                                    ELSE IF rest # <<>> /\ w = rest[1] THEN "room"
                                    ELSE state[w]]
      /\ room' = IF rest # <<>> THEN RoomOf(rest[1]) ELSE room

\* Mutant: a write with sync may join the group of one without.
MayGroupAnySync(n) == Cardinality(ToSet(SubSeq(writers, 1, n)) \ Flushes) <= MaxGroup

\* BuildBatchGroup may take the first n writers.
MayGroup(n) ==
  /\ Cardinality(ToSet(SubSeq(writers, 1, n)) \ Flushes) <= MaxGroup
  /\ writers[1] \in Synced \/ ToSet(SubSeq(writers, 1, n)) \cap Synced = {}

GroupSize == CHOOSE n \in DOMAIN writers :
               /\ \A k \in 1..n : MayGroup(k)
               /\ n < Len(writers) => ~MayGroup(n + 1)

\* Their entries, numbered from the last sequence number on.
BatchesUpTo(n) == {i \in 1..n : writers[i] \in Batches}
GroupEntries ==
  {<<lastSequence + Cardinality(BatchesUpTo(i)), writers[i]>> : i \in BatchesUpTo(GroupSize)}

\* One turn of MakeRoomForWrite's loop, by the writer at the front.
InRoom(w)  == phase = "open" /\ writers # <<>> /\ w = writers[1] /\ state[w] = "room"
MustDelay  == room.delay /\ Level0(version) >= Slowdown
HasRoom    == ~room.force /\ Cardinality(mem) < WriteBuffer
MustWait   == imm # {} \/ Level0(version) >= Stop

RoomError(w) ==
  /\ InRoom(w) /\ bgError
  /\ Answer(1, "error")
  /\ UNCHANGED <<directory, phase, numbers, version, memtables, pending, bgError, group,
                 scheduled, bg, edit, reader, faults>>

RoomDelay(w) ==
  /\ InRoom(w) /\ ~bgError /\ MustDelay
  /\ room' = [room EXCEPT !.delay = FALSE]
  /\ UNCHANGED <<directory, phase, numbers, version, memtables, pending, bgError, writers,
                 state, group, scheduled, bg, edit, reader, faults>>

RoomFound(w) ==
  /\ InRoom(w) /\ ~bgError /\ ~MustDelay /\ HasRoom
  /\ \/ /\ w \in Flushes
        /\ Answer(1, "ok")
        /\ UNCHANGED group
     \/ /\ w \in Batches
        /\ group' = [size |-> GroupSize, entries |-> GroupEntries]
        /\ state' = [state EXCEPT ![w] = "append"]
        /\ UNCHANGED <<writers, room>>
  /\ UNCHANGED <<directory, phase, numbers, version, memtables, pending, bgError,
                 scheduled, bg, edit, reader, faults>>

RoomWait(w) ==
  /\ InRoom(w) /\ ~bgError /\ ~MustDelay /\ ~HasRoom /\ MustWait
  /\ state' = [state EXCEPT ![w] = "waiting"]
  /\ UNCHANGED <<directory, phase, numbers, version, memtables, pending, bgError, writers,
                 room, group, scheduled, bg, edit, reader, faults>>

\* A new log and a new memtable.
RoomSwitch(w) ==
  /\ InRoom(w) /\ ~bgError /\ ~MustDelay /\ ~HasRoom /\ ~MustWait
  /\ logs' = Put(logs, nextFile, NewLog)
  /\ logfile' = nextFile
  /\ nextFile' = nextFile + 1
  /\ imm' = {mem} /\ mem' = {} /\ torn' = FALSE
  /\ room' = [room EXCEPT !.force = FALSE]
  /\ UNCHANGED <<version, bgError>> /\ MaybeScheduleCompaction
  /\ UNCHANGED <<tables, manifests, current, phase, lastSequence, logNumber, manifestFile,
                 pending, writers, state, group, bg, edit, reader, doubtful, faults>>

\* The log cannot be created; ReuseFileNumber takes the number back.
RoomFails(w) ==
  /\ InRoom(w) /\ ~bgError /\ ~MustDelay /\ ~HasRoom /\ ~MustWait
  /\ Fault
  /\ Answer(1, "error")
  /\ UNCHANGED <<directory, phase, numbers, version, memtables, pending, bgError, group,
                 scheduled, bg, edit, reader>>

\* With mutex_ released: AddRecord, Sync.  A record is sure to be read again if
\* it is written whole and no write before it failed.
AppendRecord ==
  LET log == logs[logfile]
  IN  [logs EXCEPT ![logfile] =
         [records |-> Append(log.records, group.entries), synced |-> log.synced,
          sound   |-> IF log.sound = Len(log.records) THEN log.sound + 1 ELSE log.sound]]

AppendTorn == [logs EXCEPT ![logfile].records = Append(@, group.entries)]

AddRecord(w) ==
  /\ state[w] = "append"
  /\ \/ /\ logs' = AppendRecord
        /\ state' = [state EXCEPT ![w] = IF w \in Synced THEN "sync" ELSE "insert"]
        /\ UNCHANGED faults
     \/ /\ Fault
        /\ logs' = AppendTorn
        /\ state' = [state EXCEPT ![w] = "failed"]
  /\ UNCHANGED <<tables, manifests, current, phase, numbers, version, memtables, pending,
                 bgError, writers, room, group, scheduled, bg, edit, reader>>

\* A sync saves what could be read before it.
SyncLog(w) ==
  /\ state[w] = "sync"
  /\ \/ /\ logs' = [logs EXCEPT ![logfile].synced = logs[logfile].sound]
        /\ state' = [state EXCEPT ![w] = "insert"]
        /\ UNCHANGED faults
     \/ /\ Fault
        /\ state' = [state EXCEPT ![w] = "syncFailed"]
        /\ UNCHANGED logs
  /\ UNCHANGED <<tables, manifests, current, phase, numbers, version, memtables, pending,
                 bgError, writers, room, group, scheduled, bg, edit, reader>>

\* The insertion, which nobody can see before the sequence number, and mutex_
\* again: the sequence number and the answers.
FinishGroup(w) ==
  /\ state[w] \in {"insert", "failed", "syncFailed"}
  /\ mem' = IF state[w] = "insert" THEN mem \cup group.entries ELSE mem
  /\ bgError' = (bgError \/ state[w] = "syncFailed")
  /\ lastSequence' = lastSequence + Cardinality(group.entries)
  /\ Answer(group.size, IF state[w] = "insert" THEN "ok" ELSE "error")
  /\ group' = NoGroup
  /\ torn' = (torn \/ state[w] = "failed")
  /\ doubtful' = doubtful \cup (IF torn /\ state[w] = "insert" THEN {e[2] : e \in group.entries}
                                ELSE {})
  /\ UNCHANGED <<directory, phase, nextFile, logNumber, manifestFile, version, imm, logfile,
                 pending, scheduled, bg, edit, reader, faults>>

------------------------------------------------------------------------------
(***************************************************************************)
(* The background thread.                                                  *)
(***************************************************************************)
\* The files no version and no output in progress needs.  After an error
\* nothing is known to be obsolete.
Live ==
  pending \cup Numbers(version) \cup Numbers(bg.inputs)
    \cup UNION reader

ObsoleteTables    == IF bgError THEN {} ELSE DOMAIN tables \ Live
ObsoleteLogs      == IF bgError THEN {} ELSE {l \in DOMAIN logs : l < logNumber}

\* Mutant: the descriptor in use is taken for an old one.
ObsoleteManifestsUpTo == IF bgError THEN {} ELSE {m \in DOMAIN manifests : m <= manifestFile}

ObsoleteManifests == IF bgError THEN {} ELSE {m \in DOMAIN manifests : m < manifestFile}

DeleteObsoleteFiles ==
  /\ tables' = Drop(tables, ObsoleteTables)
  /\ logs' = Drop(logs, ObsoleteLogs)
  /\ manifests' = Drop(manifests, ObsoleteManifests)
  /\ UNCHANGED current

\* The end of BackgroundCall.
EndBackgroundCall ==
  /\ bg' = Idle
  /\ scheduled' = (~bgError' /\ (imm' # {} \/ NeedsCompaction(version')))
  /\ state' = SignalAll(state)

\* A CompactMemTable or a DoCompactionWork ends.  One that ran within the
\* other goes on with it.
EndOfWork ==
  IF bg.flush # 0 /\ bg.inputs # {}
  THEN /\ bg' = [bg EXCEPT !.at = "work", !.flush = 0]
       /\ state' = SignalAll(state)
       /\ UNCHANGED scheduled
  ELSE EndBackgroundCall

OwnOutput == IF bg.flush # 0 THEN bg.flush ELSE bg.output

\* RecordBackgroundError, and what is left of the work.
BackgroundFails ==
  /\ Fault
  /\ bgError' = TRUE
  /\ pending' = pending \ {OwnOutput}
  /\ UNCHANGED <<version, imm>>
  /\ EndOfWork

\* Where every table overlaps every other one: PickLevelForMemTableOutput.
PickLevel ==
  LET levels == {file[1] : file \in version}
  IN  IF {0, 1} \cap levels # {} THEN 0 ELSE IF 2 \in levels THEN 1 ELSE 2

\* BackgroundCall finds an error.
BackgroundGivesUp ==
  /\ scheduled /\ bg.at = "idle" /\ bgError
  /\ UNCHANGED <<imm, version, bgError>> /\ EndBackgroundCall
  /\ UNCHANGED <<directory, phase, numbers, mem, logfile, torn, doubtful, pending, writers, room,
                 group, edit, reader, faults>>

\* Mutant: a table being written is not among the pending outputs.
NewOutputUnprotected ==
  /\ nextFile' = nextFile + 1
  /\ UNCHANGED <<lastSequence, logNumber, manifestFile, pending>>

NewOutput ==
  /\ nextFile' = nextFile + 1
  /\ pending' = pending \cup {nextFile}
  /\ UNCHANGED <<lastSequence, logNumber, manifestFile>>

\* CompactMemTable, from BackgroundCompaction or within DoCompactionWork.
CompactMemTable ==
  /\ imm # {}
  /\ bg.at = "work" \/ (scheduled /\ bg.at = "idle" /\ ~bgError)
  /\ NewOutput
  /\ bg' = [bg EXCEPT !.at = "build", !.flush = nextFile]
  /\ UNCHANGED <<directory, phase, version, memtables, bgError, queue, scheduled, edit, reader,
                 faults>>

\* BuildTable, with mutex_ released; a memtable without entries leaves no file.
BuildTable ==
  /\ bg.at = "build"
  /\ \/ /\ tables' = IF UNION imm = {} THEN tables ELSE Put(tables, bg.flush, UNION imm)
        /\ edit' = [add |-> IF UNION imm = {} THEN {} ELSE {<<PickLevel, bg.flush>>}, del |-> {},
                    log |-> logfile, next |-> nextFile, last |-> lastSequence]
        /\ pending' = pending \ {bg.flush}
        /\ bg' = [bg EXCEPT !.at = "append"]
        /\ UNCHANGED <<version, imm, bgError, state, scheduled, faults>>
     \/ BackgroundFails /\ UNCHANGED <<tables, edit>>
  /\ UNCHANGED <<logs, manifests, current, phase, numbers, mem, logfile, torn, doubtful, writers,
                 room, group, reader>>

\* PickCompaction and the start of DoCompactionWork: level 0 and level 1.
StartCompaction ==
  /\ scheduled /\ bg.at = "idle" /\ ~bgError /\ imm = {} /\ NeedsCompaction(version)
  /\ bg' = [bg EXCEPT !.at = "work", !.inputs = {file \in version : file[1] \in {0, 1}}]
  /\ UNCHANGED <<directory, phase, numbers, version, memtables, pending, bgError, queue,
                 scheduled, edit, reader, faults>>

OpenCompactionOutputFile ==
  /\ bg.at = "work" /\ bg.output = 0
  /\ NewOutput
  /\ tables' = Put(tables, nextFile, {})
  /\ bg' = [bg EXCEPT !.output = nextFile]
  /\ UNCHANGED <<logs, manifests, current, phase, version, memtables, bgError, queue,
                 scheduled, edit, reader, faults>>

FinishCompactionOutputFile ==
  /\ bg.at = "work" /\ bg.output \in DOMAIN tables /\ tables[bg.output] = {}
  /\ \/ /\ tables' = Put(tables, bg.output, Contents(Numbers(bg.inputs)))
        /\ UNCHANGED <<version, imm, pending, bgError, bg, scheduled, state, faults>>
     \/ BackgroundFails /\ UNCHANGED tables
  /\ UNCHANGED <<logs, manifests, current, phase, numbers, mem, logfile, torn, doubtful, writers,
                 room, group, edit, reader>>

InstallCompactionResults ==
  /\ bg.at = "work" /\ bg.output # 0
  /\ bg.output \in DOMAIN tables => tables[bg.output] # {}
  /\ edit' = [add |-> {<<1, bg.output>>}, del |-> bg.inputs,
              log |-> logNumber, next |-> nextFile, last |-> lastSequence]
  /\ bg' = [bg EXCEPT !.at = "append"]
  /\ UNCHANGED <<directory, phase, numbers, version, memtables, pending, bgError, queue,
                 scheduled, reader, faults>>

\* LogAndApply, with mutex_ released: the record, its sync, and the new version.
Record == [manifests EXCEPT ![manifestFile] = Append(@, Apply(Last(@), edit))]

AppendToDescriptor ==
  /\ bg.at = "append"
  /\ \/ /\ manifests' = Record
        /\ bg' = [bg EXCEPT !.at = "sync"]
        /\ UNCHANGED <<version, imm, pending, bgError, scheduled, state, faults>>
     \/ BackgroundFails /\ manifests' \in {manifests, Record}
  /\ UNCHANGED <<logs, tables, current, phase, numbers, mem, logfile, torn, doubtful, writers,
                 room, group, edit, reader>>

SyncDescriptor ==
  /\ bg.at = "sync"
  /\ \/ /\ manifests' = [manifests EXCEPT ![manifestFile] = <<Last(@)>>]
        /\ version' = (version \ edit.del) \cup edit.add
        /\ logNumber' = edit.log
        /\ imm' = IF bg.flush # 0 THEN {} ELSE imm
        /\ doubtful' = IF bg.flush # 0 THEN doubtful \cap {e[2] : e \in mem} ELSE doubtful
        /\ pending' = pending \ {OwnOutput}
        /\ bg' = [bg EXCEPT !.at = "clean", !.inputs = IF bg.flush # 0 THEN @ ELSE {}]
        /\ UNCHANGED <<bgError, scheduled, state, faults>>
     \/ BackgroundFails /\ UNCHANGED <<manifests, logNumber, doubtful>>
  /\ UNCHANGED <<logs, tables, current, phase, lastSequence, nextFile, manifestFile, mem,
                 logfile, torn, writers, room, group, edit, reader>>

CleanUp ==
  /\ bg.at = "clean"
  /\ DeleteObsoleteFiles
  /\ UNCHANGED <<version, imm, bgError>> /\ EndOfWork
  /\ UNCHANGED <<phase, numbers, mem, logfile, torn, doubtful, pending, writers, room, group,
                 edit, reader, faults>>

------------------------------------------------------------------------------
(***************************************************************************)
(* Readers.                                                                *)
(***************************************************************************)
\* Get and NewIterator take a reference to the current version.
RefVersion ==
  /\ phase = "open" /\ reader = {} /\ version # {}
  /\ reader' = {Numbers(version)}
  /\ UNCHANGED <<directory, phase, numbers, version, memtables, pending, bgError, queue,
                 scheduled, bg, edit, faults>>

UnrefVersion ==
  /\ reader # {}
  /\ reader' = {}
  /\ UNCHANGED <<directory, phase, numbers, version, memtables, pending, bgError, queue,
                 scheduled, bg, edit, faults>>

------------------------------------------------------------------------------
(***************************************************************************)
(* The end of the process or of the machine, and Open.                     *)
(***************************************************************************)
\* What the directory may hold afterwards: with the machine unsynced records are
\* lost from the end on, behind a write that failed any record may be unreadable;
\* a deletion of obsolete files may have been under way.
Cleaning == bg.at = "clean" \/ phase = "clean"

LogLeft(log, cut, unread) ==
  [k \in 1..cut |-> IF k \in unread THEN {} ELSE log.records[k]]

LeftOf(log, machine) ==
  {[records |-> LogLeft(log, cut, unread), sound |-> cut,
    synced |-> IF machine THEN cut ELSE log.synced] :
     cut \in (IF machine THEN log.synced ELSE Len(log.records))..Len(log.records),
     unread \in SUBSET ((log.sound + 1)..Len(log.records))}

LogsLeft(machine) ==
  {left \in [DOMAIN logs -> UNION {LeftOf(logs[l], machine) : l \in DOMAIN logs}] :
     \A l \in DOMAIN logs : left[l] \in LeftOf(logs[l], machine)}

ManifestsLeft(machine) ==
  {[manifests EXCEPT ![current] = IF machine THEN <<@[i]>> ELSE @] :
     i \in IF machine THEN DOMAIN manifests[current] ELSE {1}}

PartOf(obsolete) == IF Cleaning THEN SUBSET obsolete ELSE {{}}

Crash(machine) ==
  /\ phase # "down" \/ machine
  /\ Fault
  /\ \E left \in LogsLeft(machine), gone \in PartOf(ObsoleteLogs) : logs' = Drop(left, gone)
  /\ \E left \in ManifestsLeft(machine), gone \in PartOf(ObsoleteManifests) :
       manifests' = Drop(left, gone)
  /\ \E gone \in PartOf(ObsoleteTables) : tables' = Drop(tables, gone)
  /\ phase' = "down"
  /\ lastSequence' = 0 /\ nextFile' = 2 /\ logNumber' = 0 /\ manifestFile' = 0
  /\ version' = {} /\ mem' = {} /\ imm' = {} /\ logfile' = 0
  /\ pending' = {} /\ bgError' = FALSE
  /\ writers' = <<>> /\ group' = NoGroup /\ room' = [force |-> FALSE, delay |-> FALSE]
  /\ state' = [w \in Writes |-> IF state[w] \in {"idle", "ok"} THEN state[w] ELSE "lost"]
  /\ scheduled' = FALSE /\ bg' = Idle /\ edit' = NoEdit /\ reader' = {}
  /\ torn' = FALSE
  /\ UNCHANGED <<current, doubtful>>

\* VersionSet::Recover, and the check that every table file is there.
Recover ==
  /\ phase = "down"
  /\ Numbers(Descriptor.files) \subseteq DOMAIN tables
  /\ lastSequence' = Descriptor.last /\ nextFile' = Descriptor.next + 1
  /\ logNumber' = Descriptor.log /\ manifestFile' = Descriptor.next
  /\ version' = Descriptor.files
  /\ phase' = "replay"
  /\ UNCHANGED <<directory, memtables, pending, bgError, queue, scheduled, bg, edit, reader,
                 faults>>

\* The oldest log not replayed yet; logfile is the last one that was.
MayReplay(l) == l \in LogsToReplay /\ l > logfile

\* RecoverLogFile: the log's entries go to a level-0 table; MarkFileNumberUsed.
RecoverLogFile(l) ==
  /\ phase = "replay" /\ MayReplay(l) /\ \A k \in DOMAIN logs : MayReplay(k) => l <= k
  /\ LET entries == LogContents(l)
         next    == IF entries = {} THEN nextFile ELSE nextFile + 1
     IN  /\ tables' = IF entries = {} THEN tables ELSE Put(tables, nextFile, entries)
         /\ edit' = IF entries = {} THEN edit
                    ELSE [edit EXCEPT !.add = @ \cup {<<0, nextFile>>}]
         /\ nextFile' = IF next <= l THEN l + 1 ELSE next
         /\ lastSequence' = Max({e[1] : e \in entries} \cup {lastSequence})
  /\ logfile' = l
  /\ UNCHANGED <<logs, manifests, current, phase, logNumber, manifestFile, version, mem, imm,
                 torn, doubtful, pending, bgError, queue, scheduled, bg, reader, faults>>

\* Open's new log, which nothing refers to yet.
OpenLog ==
  /\ phase = "replay" /\ ~ \E l \in DOMAIN logs : MayReplay(l)
  /\ logs' = Put(logs, nextFile, NewLog)
  /\ logfile' = nextFile
  /\ nextFile' = nextFile + 1
  /\ edit' = [edit EXCEPT !.log = nextFile, !.next = nextFile + 1, !.last = lastSequence]
  /\ phase' = "describe"
  /\ UNCHANGED <<tables, manifests, current, lastSequence, logNumber, manifestFile, version,
                 mem, imm, torn, doubtful, pending, bgError, queue, scheduled, bg, reader, faults>>

\* LogAndApply's new descriptor: WriteSnapshot, the edit, Sync.
NewDescriptor ==
  /\ phase = "describe"
  /\ LET snapshot == [files |-> version, log |-> 0, next |-> 0, last |-> 0]
     IN  manifests' = Put(manifests, manifestFile, <<Apply(snapshot, edit)>>)
  /\ phase' = "rename"
  /\ UNCHANGED <<logs, tables, current, numbers, version, memtables, pending, bgError, queue,
                 scheduled, bg, edit, reader, faults>>

SetCurrentFile ==
  /\ phase = "rename"
  /\ current' = manifestFile
  /\ version' = (version \ edit.del) \cup edit.add
  /\ logNumber' = edit.log
  /\ phase' = "clean"
  /\ UNCHANGED <<logs, tables, manifests, lastSequence, nextFile, manifestFile, memtables,
                 pending, bgError, queue, scheduled, bg, edit, reader, faults>>

FinishOpen ==
  /\ phase = "clean"
  /\ DeleteObsoleteFiles
  /\ phase' = "open"
  /\ doubtful' = {}
  /\ UNCHANGED <<imm, version, bgError>> /\ MaybeScheduleCompaction
  /\ UNCHANGED <<numbers, mem, logfile, torn, pending, queue, bg, edit, reader, faults>>

------------------------------------------------------------------------------
Room(w) ==
  \/ RoomError(w) \/ RoomDelay(w) \/ RoomFound(w) \/ RoomWait(w) \/ RoomSwitch(w)
  \/ RoomFails(w)

WriterStep(w) == Room(w) \/ AddRecord(w) \/ SyncLog(w) \/ FinishGroup(w)

BackgroundStep ==
  \/ BackgroundGivesUp \/ CompactMemTable \/ BuildTable \/ StartCompaction
  \/ OpenCompactionOutputFile \/ FinishCompactionOutputFile \/ InstallCompactionResults
  \/ AppendToDescriptor \/ SyncDescriptor \/ CleanUp

OpenStep ==
  \/ Recover \/ (\E l \in DOMAIN logs : RecoverLogFile(l)) \/ OpenLog \/ NewDescriptor
  \/ SetCurrentFile \/ FinishOpen

Next ==
  \/ \E w \in Writes : Write(w) \/ WriterStep(w)
  \/ BackgroundStep
  \/ RefVersion \/ UnrefVersion
  \/ \E machine \in BOOLEAN : Crash(machine)
  \/ OpenStep

Spec == Init /\ [][Next]_vars

\* The threads run, and a database that is down is opened again.
Fairness ==
  /\ \A w \in Writes : WF_vars(WriterStep(w))
  /\ WF_vars(BackgroundStep)
  /\ WF_vars(OpenStep)

FairSpec == Spec /\ Fairness

------------------------------------------------------------------------------
(***************************************************************************)
(* Properties.                                                             *)
(***************************************************************************)

\* Whatever the moment, the database can be opened again, and no reader and no
\* compaction finds a table file of its version missing.
FilesAreThere ==
  /\ Numbers(Descriptor.files) \subseteq DOMAIN tables
  /\ Numbers(version) \cup Numbers(bg.inputs) \subseteq DOMAIN tables
  /\ UNION reader \subseteq DOMAIN tables

\* What a Get that starts now looks through: nothing beyond the last sequence
\* number.
Visible ==
  {e \in mem \cup (UNION imm) \cup Contents(Numbers(version)) :
     e[1] <= lastSequence}

InOrder(entries) ==
  [i \in 1..Cardinality(entries) |->
     (CHOOSE e \in entries : Cardinality({d \in entries : d[1] <= e[1]}) = i)[2]]

Known(w) == IF state[w] \in {"idle"} \cup Answers THEN state[w] ELSE "pending"

KV == INSTANCE KVStore WITH
  up     <- phase = "open",
  status <- [b \in Batches |-> Known(b)],
  store  <- InOrder(IF phase = "open" THEN Visible ELSE Recoverable)

\* Acknowledged writes survive the end of the process, those with sync the end
\* of the machine too, unless they were acknowledged behind a write to the same
\* log that failed and are in no table yet; batches stay whole and in order; the
\* log, the memtables, the tables and the descriptor never disagree about what is
\* in the database.
ImplementsKVStore == KV!Spec

\* Every write is answered, if only by an error, unless the process ends: again
\* and again nobody is waiting.
WritersReturn == []<>(\A w \in Writes : Known(w) # "pending")
==============================================================================
