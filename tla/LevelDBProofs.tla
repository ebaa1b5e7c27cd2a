---------------------------- MODULE LevelDBProofs ----------------------------
(***************************************************************************)
(* Proofs about LevelDB, for any writes, triggers and bounds.              *)
(*                                                                         *)
(* The files a database needs are there because each record of the         *)
(* descriptor in use could be opened from, whichever of them a crash of    *)
(* the machine leaves; because a file that is being made is pending, or    *)
(* has a number no record knows; and because what is deleted is deleted by *)
(* a thread whose version is the descriptor's last one.                    *)
(***************************************************************************)
EXTENDS LevelDB, FiniteSetTheorems, SequenceTheorems, WellFoundedInduction, TLAPS

(***************************************************************************)
(* Numbers.                                                                *)
(***************************************************************************)
\* A nonempty set of natural numbers has a smallest member.
LEMMA Smallest ==
  ASSUME NEW T \in SUBSET Nat, T # {}
  PROVE  \E m \in T : \A k \in T : m <= k
<1> DEFINE R == {ss \in Nat \X Nat : ss[1] < ss[2]}
<1>1. IsWellFoundedOn(R, Nat)
  BY NatLessThanWellFounded DEF OpToRel
<1>2. PICK x \in T : \A y \in T : ~ (<<y, x>> \in R)
  <2> HIDE DEF R
  <2> QED BY <1>1, WFMin
<1>3. ASSUME NEW y \in T
      PROVE  x <= y
  <2>1. ~ (<<y, x>> \in R)
    BY <1>2
  <2>2. x \in Nat /\ y \in Nat
    OBVIOUS
  <2>3. ~ (y < x)
    BY <2>1, <2>2
  <2> QED BY <2>2, <2>3
<1> QED BY <1>3

\* A nonempty finite set of natural numbers has a largest member.
LEMMA Largest ==
  ASSUME NEW S \in SUBSET Nat, IsFiniteSet(S), S # {}
  PROVE  \E m \in S : \A k \in S : k <= m
<1> DEFINE Top(T) == \E m \in T : \A k \in T : k <= m
           Topless == {T \in SUBSET S : T # {} /\ ~ Top(T)}
<1> SUFFICES ASSUME ~ Top(S) PROVE FALSE
  OBVIOUS
<1>1. \A T \in SUBSET S : IsFiniteSet(T) /\ Cardinality(T) \in Nat
  BY FS_Subset, FS_CardinalityType
<1> DEFINE sizes == {Cardinality(T) : T \in Topless}
<1>2. sizes \in SUBSET Nat /\ sizes # {}
  BY <1>1
<1>3. PICK n \in sizes : \A k \in sizes : n <= k
  <2> HIDE DEF sizes
  <2> QED  BY <1>2, Smallest
<1>4. PICK T \in Topless : n = Cardinality(T)
  BY <1>3
<1>5. PICK x \in T : TRUE
  BY <1>4
<1> DEFINE U == T \ {x}
<1>6. Cardinality(U) = Cardinality(T) - 1 /\ U \in SUBSET S
  BY <1>1, <1>4, <1>5, FS_RemoveElement
<1>7. U \notin Topless
  <2> SUFFICES ASSUME U \in Topless PROVE FALSE  OBVIOUS
  <2>1. n <= Cardinality(U)  BY <1>3
  <2>2. Cardinality(T) \in Nat  BY <1>1, <1>4
  <2> QED  BY <1>4, <1>6, <2>1, <2>2
<1>8. CASE U = {}
  <2>1. \A k \in T : k = x  BY <1>8
  <2> QED  BY <1>4, <1>5, <2>1
<1>9. CASE U # {}
  <2>1. PICK m \in U : \A k \in U : k <= m
    BY <1>6, <1>7, <1>9
  <2>2. m \in Nat /\ x \in Nat /\ \A k \in T : k \in Nat
    BY <1>4, <1>5, <1>6, <2>1
  <2>3. CASE x <= m
    BY <1>4, <1>5, <2>1, <2>2, <2>3
  <2>4. CASE m <= x
    BY <1>4, <1>5, <2>1, <2>2, <2>4
  <2> QED  BY <2>2, <2>3, <2>4
<1> QED  BY <1>8, <1>9

\* Max is the largest member.
LEMMA MaxIsLargest ==
  ASSUME NEW S \in SUBSET Nat, IsFiniteSet(S), S # {}
  PROVE  Max(S) \in S /\ \A k \in S : k <= Max(S)
<1>1. PICK m \in S : \A k \in S : m >= k
  BY Largest
<1>2. \E x \in S : \A y \in S : x >= y
  BY <1>1
<1>3. Max(S) \in S /\ \A k \in S : Max(S) >= k
  BY <1>2 DEF Max
<1> QED  BY <1>3

------------------------------------------------------------------------------
(***************************************************************************)
(* Types.                                                                  *)
(***************************************************************************)
EntrySets == {s \in SUBSET Entries : IsFiniteSet(s)}
LogShape == [records : Seq(EntrySets), sound : Nat, synced : Nat]
Log == {x \in LogShape : x.synced <= x.sound /\ x.sound <= Len(x.records)}

\* Types beyond TypeOK: what is stored is finite, no log has the number 0, and no
\* descriptor is empty.
MoreTypes ==
  /\ IsFileMap(logs, Log) /\ 0 \notin DOMAIN logs
  /\ IsFileMap(tables, EntrySets)
  /\ IsFileMap(manifests, Seq(Described) \ {<<>>})
  /\ mem \in EntrySets /\ imm \subseteq EntrySets
  /\ group \in [size : Nat, entries : EntrySets]

Types == TypeOK /\ MoreTypes

\* What the file maps hold.
LEMMA FileMapHolds ==
  ASSUME NEW f, NEW S, IsFileMap(f, S), NEW n \in DOMAIN f
  PROVE  n \in Nat /\ f[n] \in S
BY DEF IsFileMap, Range

\* A finite map from numbers to members of S is a file map of S.
LEMMA FileMapBy ==
  ASSUME NEW f, NEW S, IsFiniteSet(DOMAIN f), \A n \in DOMAIN f : n \in Nat /\ f[n] \in S
  PROVE  IsFileMap(f, S)
BY DEF IsFileMap, Range

\* What is left after the files of S are deleted.
LEMMA DropIs ==
  ASSUME NEW f, NEW S
  PROVE  /\ DOMAIN Drop(f, S) = DOMAIN f \ S
         /\ \A k \in DOMAIN f \ S : Drop(f, S)[k] = f[k]
BY DEF Drop, Restrict

\* Creating a file keeps a file map typed.
LEMMA PutTyped ==
  ASSUME NEW f, NEW S, IsFileMap(f, S), NEW n \in Nat, NEW x \in S
  PROVE  IsFileMap(Put(f, n, x), S)
<1> DEFINE g == Put(f, n, x)
<1>0. /\ DOMAIN g = DOMAIN f \cup {n} /\ g[n] = x
      /\ \A k \in DOMAIN f : k # n => g[k] = f[k]
  BY DEF Put
<1>a. IsFiniteSet(DOMAIN f)  BY DEF IsFileMap
<1>1. IsFiniteSet(DOMAIN g)  BY <1>0, <1>a, FS_AddElement
<1>2. \A k \in DOMAIN g : k \in Nat /\ g[k] \in S
  BY <1>0, FileMapHolds
<1> HIDE DEF g
<1>3. IsFileMap(g, S)  BY <1>1, <1>2, FileMapBy
<1> QED  BY <1>3 DEF g

\* Deleting files keeps a file map typed.
LEMMA DropTyped ==
  ASSUME NEW f, NEW S, IsFileMap(f, S), NEW T
  PROVE  IsFileMap(Drop(f, T), S)
<1> DEFINE g == Drop(f, T)
<1>0. DOMAIN g = DOMAIN f \ T /\ \A k \in DOMAIN f \ T : g[k] = f[k]
  BY DropIs
<1>a. IsFiniteSet(DOMAIN f) /\ DOMAIN g \in SUBSET DOMAIN f  BY <1>0 DEF IsFileMap
<1>1. IsFiniteSet(DOMAIN g)  BY <1>a, FS_Subset
<1>2. \A k \in DOMAIN g : k \in Nat /\ g[k] \in S
  BY <1>0, FileMapHolds
<1> HIDE DEF g
<1>3. IsFileMap(g, S)  BY <1>1, <1>2, FileMapBy
<1> QED  BY <1>3 DEF g

\* Rewriting a file keeps a file map typed.
LEMMA ExceptTyped ==
  ASSUME NEW f, NEW S, IsFileMap(f, S), NEW n, NEW x \in S
  PROVE  IsFileMap([f EXCEPT ![n] = x], S)
<1> DEFINE g == [f EXCEPT ![n] = x]
<1>0. DOMAIN g = DOMAIN f  OBVIOUS
<1>1. IsFiniteSet(DOMAIN g)
  BY <1>0 DEF IsFileMap
<1>2. \A k \in DOMAIN g : k \in Nat /\ g[k] \in S
  BY FileMapHolds
<1> HIDE DEF g
<1>3. IsFileMap(g, S)  BY <1>1, <1>2, FileMapBy
<1> QED  BY <1>3 DEF g

\* A file map of S is one of any set S is part of.
LEMMA FileMapWider ==
  ASSUME NEW f, NEW S, IsFileMap(f, S), NEW T, S \subseteq T
  PROVE  IsFileMap(f, T)
BY DEF IsFileMap

\* Finite sets of entries.
LEMMA NoEntries == {} \in EntrySets
BY FS_EmptySet DEF EntrySets

\* Two finite sets of entries together are one.
LEMMA MoreEntries ==
  ASSUME NEW s \in EntrySets, NEW t \in EntrySets
  PROVE  s \cup t \in EntrySets
BY FS_Union DEF EntrySets

\* Finitely many finite sets of entries together are one.
LEMMA AllEntries ==
  ASSUME NEW S, IsFiniteSet(S), S \subseteq EntrySets
  PROVE  UNION S \in EntrySets
BY FS_UNION DEF EntrySets

\* The memtable being flushed, or none, is a finite set of entries.
LEMMA ImmIsTyped ==
  ASSUME Types
  PROVE  UNION imm \in EntrySets
<1>1. CASE imm = {}  BY <1>1, NoEntries
<1>2. CASE imm # {}
  <2>1. PICK m \in imm : TRUE  BY <1>2
  <2>2. imm = {m}  BY <2>1 DEF Types, TypeOK
  <2>3. UNION imm = m  BY <2>2
  <2> QED  BY <2>1, <2>3 DEF Types, MoreTypes
<1> QED  BY <1>1, <1>2

\* The tables of any numbers hold a finite set of entries.
LEMMA ContentsTyped ==
  ASSUME Types, NEW ns
  PROVE  Contents(ns) \in EntrySets
<1> DEFINE present == ns \cap DOMAIN tables
           parts == {tables[n] : n \in present}
           part == [n \in present |-> tables[n]]
<1>1. IsFiniteSet(present)
  BY FS_Intersection DEF Types, MoreTypes, IsFileMap
<1>2. part \in Surjection(present, parts)
  BY DEF Surjection
<1>3. IsFiniteSet(parts)
  BY <1>1, <1>2, FS_Surjection
<1>4. parts \subseteq EntrySets
  BY FileMapHolds DEF Types, MoreTypes
<1> QED  BY <1>3, <1>4, AllEntries DEF Contents

\* The records of a log hold a finite set of entries.
LEMMA RecordsAreTyped ==
  ASSUME NEW records \in Seq(EntrySets)
  PROVE  UNION ToSet(records) \in EntrySets
<1>1. IsFiniteSet(1..Len(records)) /\ DOMAIN records = 1..Len(records)
  BY FS_Interval
<1>2. records \in Surjection(1..Len(records), ToSet(records))
  BY <1>1 DEF Surjection, ToSet
<1>3. IsFiniteSet(ToSet(records))
  BY <1>1, <1>2, FS_Surjection
<1>4. ToSet(records) \subseteq EntrySets
  BY DEF ToSet
<1> QED  BY <1>3, <1>4, AllEntries

\* A log file that exists holds a finite set of entries.
LEMMA LogContentsTyped ==
  ASSUME Types, NEW l \in DOMAIN logs
  PROVE  LogContents(l) \in EntrySets
<1>1. logs[l].records \in Seq(EntrySets)
  BY FileMapHolds DEF Types, MoreTypes, Log, LogShape
<1> QED  BY <1>1, RecordsAreTyped DEF LogContents

------------------------------------------------------------------------------
(***************************************************************************)
(* The inductive invariant of the files and of the queue.                  *)
(***************************************************************************)
Records == manifests[current]
Waiting == {"queued", "room", "waiting", "append", "sync", "insert", "failed", "syncFailed"}
Grouped == {"append", "sync", "insert", "failed", "syncFailed"}
Running == phase \in {"clean", "open"}
Opening == phase \in {"replay", "describe", "rename"}

\* Only the writer at the front is past the queue, and it is never left asleep there.
QueueInv ==
  /\ \A w \in Writes : w \in ToSet(writers) <=> state[w] \in Waiting
  /\ \A i \in DOMAIN writers : i > 1 <=> state[writers[i]] = "queued"
  /\ \A w \in Writes : state[w] \in Grouped => group.size \in 1..Len(writers)

\* What a process that is not open has.
Quiet ==
  phase # "open" =>
    /\ mem = {} /\ imm = {} /\ pending = {} /\ ~bgError
    /\ writers = <<>> /\ group = NoGroup /\ bg = Idle /\ reader = {}
    /\ ~scheduled
    /\ phase = "down" => version = {} /\ logfile = 0 /\ edit = NoEdit

\* Each record of the descriptor in use can be opened from.
DescriptorsInv ==
  \A i \in DOMAIN Records :
    /\ Numbers(Records[i].files) \subseteq DOMAIN tables
    /\ \A n \in Numbers(Records[i].files) : n < Records[i].next
    /\ current < Records[i].next
    /\ \A j \in DOMAIN Records : i <= j => Records[i].next <= Records[j].next

OpeningInv ==
  Opening =>
    /\ version = Descriptor.files /\ logNumber = Descriptor.log
    /\ manifestFile = Descriptor.next /\ manifestFile < nextFile
    /\ edit.del = {}
    /\ \A n \in Numbers(edit.add) : manifestFile < n /\ n < nextFile /\ n \in DOMAIN tables
    /\ phase # "replay" =>
         /\ edit.log = logfile /\ edit.next = nextFile /\ edit.last = lastSequence
         /\ logfile < nextFile
    /\ phase = "rename" =>
         /\ manifestFile \in DOMAIN manifests
         /\ manifests[manifestFile] =
              <<[files |-> version \cup edit.add, log |-> edit.log, next |-> edit.next,
                 last |-> edit.last]>>

RunningInv ==
  Running =>
    /\ manifestFile = current /\ current < nextFile
    /\ logNumber <= logfile /\ logfile < nextFile
    /\ \A n \in Numbers(version) : n \in DOMAIN tables /\ n < nextFile
    /\ \A n \in Numbers(bg.inputs) : n \in DOMAIN tables /\ n < nextFile
    /\ \A n \in UNION reader : n \in DOMAIN tables /\ n < nextFile
    /\ \A n \in pending : n < nextFile
    /\ bg.flush < nextFile /\ bg.output < nextFile
    /\ \A i \in DOMAIN Records : Records[i].next <= nextFile

\* Until an error, the version is what the descriptor describes.
AgreeInv ==
  Running /\ ~bgError =>
    /\ Records[1].files = version /\ Records[1].log = logNumber
    /\ Len(Records) = IF bg.at = "sync" THEN 2 ELSE 1

\* What the background thread has in hand at each stage.
StagesInv ==
  /\ bg.at = "idle" => bg = Idle
  /\ bg.at = "work" => bg.flush = 0 /\ bg.inputs # {}
  /\ bg.at = "build" => bg.flush # 0 /\ imm # {}
  /\ bg.at \in {"append", "sync"} =>
       IF bg.flush # 0 THEN imm # {} ELSE bg.output # 0 /\ bg.inputs # {}
  /\ bg.at = "clean" => bg.flush # 0 \/ (bg.output # 0 /\ bg.inputs = {})
  /\ bg.flush # 0 => bg.flush # bg.output
  /\ bg.inputs = {} /\ bg.at # "clean" => bg.output = 0
  /\ bg.output # 0 /\ bg.inputs # {} => bg.output \in DOMAIN tables /\ bg.output \in pending

\* The edit being logged leads to a record that can be opened from.
EditInv ==
  phase = "open" /\ bg.at \in {"append", "sync"} =>
    /\ \A n \in Numbers(edit.add) : n \in DOMAIN tables /\ n < edit.next
    /\ edit.next <= nextFile /\ edit.log <= logfile
    /\ \A i \in DOMAIN Records : Records[i].next <= edit.next
    /\ bg.at = "sync" =>
        /\ Len(Records) > 1
        /\ Descriptor = Apply(Records[Len(Records) - 1], edit)

FilesInv == DescriptorsInv /\ OpeningInv /\ RunningInv /\ AgreeInv /\ StagesInv /\ EditInv

IInv == Types /\ QueueInv /\ Quiet /\ FilesInv

------------------------------------------------------------------------------
(***************************************************************************)
(* What the types say of each part of the state.                           *)
(***************************************************************************)
\* The numbers of the state are natural numbers.
LEMMA NumbersTyped ==
  ASSUME Types
  PROVE  /\ lastSequence \in Nat /\ nextFile \in Nat /\ logNumber \in Nat
         /\ manifestFile \in Nat /\ logfile \in Nat /\ current \in Nat
         /\ \A n \in Numbers(version) : n \in Nat
         /\ \A n \in UNION reader : n \in Nat
         /\ \A n \in pending : n \in Nat
<1>1. current \in Nat  BY FileMapHolds DEF Types, TypeOK
<1>2. \A n \in Numbers(version) : n \in Nat
  <2>1. version \subseteq Nat \X Nat  BY DEF Types, TypeOK
  <2> QED  BY <2>1 DEF Numbers
<1> QED  BY <1>1, <1>2 DEF Types, TypeOK

\* The fields of the background thread's work and of its edit have their types.
LEMMA WorkTyped ==
  ASSUME Types
  PROVE  /\ bg \in Background /\ bg.flush \in Nat /\ bg.output \in Nat
         /\ bg.inputs \subseteq Nat \X Nat
         /\ \A n \in Numbers(bg.inputs) : n \in Nat
         /\ edit \in Edit /\ edit.log \in Nat /\ edit.next \in Nat /\ edit.last \in Nat
         /\ \A n \in Numbers(edit.add) : n \in Nat
<1>1. bg \in Background /\ edit \in Edit  BY DEF Types, TypeOK
<1>2. bg.inputs \subseteq Nat \X Nat /\ edit.add \subseteq Nat \X Nat
  BY <1>1 DEF Background, Edit
<1>3. \A n \in Numbers(bg.inputs) : n \in Nat  BY <1>2 DEF Numbers
<1>4. \A n \in Numbers(edit.add) : n \in Nat  BY <1>2 DEF Numbers
<1> QED  BY <1>1, <1>2, <1>3, <1>4 DEF Background, Edit

\* The descriptor in use is a nonempty sequence of records with numbers.
LEMMA RecordsTyped ==
  ASSUME Types
  PROVE  /\ Records \in Seq(Described) /\ Len(Records) \in Nat /\ Len(Records) >= 1
         /\ DOMAIN Records = 1..Len(Records)
         /\ Descriptor = Records[Len(Records)] /\ Len(Records) \in DOMAIN Records
         /\ \A i \in DOMAIN Records :
              /\ Records[i] \in Described /\ Records[i].log \in Nat
              /\ Records[i].next \in Nat /\ Records[i].last \in Nat
              /\ \A n \in Numbers(Records[i].files) : n \in Nat
<1>1. current \in DOMAIN manifests /\ IsFileMap(manifests, Seq(Described) \ {<<>>})
  BY DEF Types, TypeOK, MoreTypes
<1>2. Records \in Seq(Described) \ {<<>>}
  BY <1>1, FileMapHolds DEF Records
<1>3. Len(Records) \in Nat /\ Len(Records) >= 1 /\ DOMAIN Records = 1..Len(Records)
  BY <1>2, EmptySeq, LenProperties
<1>4. ASSUME NEW i \in DOMAIN Records
      PROVE  /\ Records[i] \in Described /\ Records[i].log \in Nat
             /\ Records[i].next \in Nat /\ Records[i].last \in Nat
             /\ \A n \in Numbers(Records[i].files) : n \in Nat
  <2>1. Records[i] \in Described  BY <1>2, <1>3
  <2>2. Records[i].files \subseteq Nat \X Nat  BY <2>1 DEF Described
  <2>3. \A n \in Numbers(Records[i].files) : n \in Nat  BY <2>2 DEF Numbers
  <2> QED  BY <2>1, <2>3 DEF Described
<1> QED  BY <1>2, <1>3, <1>4 DEF Descriptor, Records, Last

------------------------------------------------------------------------------
(***************************************************************************)
(* The queue.                                                              *)
(***************************************************************************)
\* The members of a sequence, by position.
LEMMA ToSetIs ==
  ASSUME NEW S, NEW s \in Seq(S)
  PROVE  ToSet(s) = {s[i] : i \in 1..Len(s)}
BY DEF ToSet

\* The writer in a room or writing is the one at the front, of an open database.
LEMMA FrontIsWriting ==
  ASSUME IInv, NEW w \in Writes, state[w] \in Waiting \ {"queued"}
  PROVE  /\ writers # <<>> /\ w = writers[1] /\ phase = "open"
         /\ Len(writers) \in Nat /\ 1 \in 1..Len(writers)
<1>1. writers \in Seq(Writes)
  BY DEF IInv, Types, TypeOK
<1>2. w \in ToSet(writers)
  BY DEF IInv, QueueInv
<1>3. PICK i \in 1..Len(writers) : w = writers[i]
  BY <1>1, <1>2 DEF ToSet
<1>4. ~ (i > 1)
  BY <1>1, <1>3 DEF IInv, QueueInv, Waiting
<1>5. phase = "open"
  BY <1>1, <1>3 DEF IInv, Quiet
<1> QED  BY <1>1, <1>3, <1>4, <1>5

\* After n answers the rest of the queue moves up.
LEMMA RestIs ==
  ASSUME IInv, NEW n \in 1..Len(writers)
  PROVE  LET rest == SubSeq(writers, n + 1, Len(writers))
         IN  /\ rest \in Seq(Writes) /\ Len(rest) = Len(writers) - n
             /\ \A i \in 1..Len(rest) : rest[i] = writers[n + i]
             /\ ToSet(SubSeq(writers, 1, n)) = {writers[i] : i \in 1..n}
             /\ ToSet(rest) = ToSet(writers) \ {writers[i] : i \in 1..n}
<1> DEFINE rest == SubSeq(writers, n + 1, Len(writers))
<1>0. writers \in Seq(Writes) /\ IsInjective(writers)
  BY DEF IInv, Types, TypeOK
<1>1. rest \in Seq(Writes) /\ Len(rest) = Len(writers) - n
  BY <1>0
<1>2. \A i \in 1..Len(rest) : rest[i] = writers[n + i]
  BY <1>0
<1>3. ToSet(SubSeq(writers, 1, n)) = {writers[i] : i \in 1..n}
  <2>1. /\ Len(SubSeq(writers, 1, n)) = n /\ SubSeq(writers, 1, n) \in Seq(Writes)
        /\ \A i \in 1..n : SubSeq(writers, 1, n)[i] = writers[i]
    BY <1>0
  <2>2. DOMAIN SubSeq(writers, 1, n) = 1..n
    BY <2>1
  <2> QED  BY <2>1, <2>2 DEF ToSet
<1>4. ToSet(rest) = ToSet(writers) \ {writers[i] : i \in 1..n}
  <2>1. ToSet(rest) = {rest[i] : i \in 1..Len(rest)} /\ ToSet(writers) = {writers[i] : i \in 1..Len(writers)}
    BY <1>0, <1>1, ToSetIs
  <2>2. ASSUME NEW w \in ToSet(rest)
        PROVE  w \in ToSet(writers) \ {writers[i] : i \in 1..n}
    <3>1. PICK i \in 1..Len(rest) : w = rest[i]
      BY <2>1
    <3>2. w = writers[n + i] /\ n + i \in 1..Len(writers)
      BY <1>0, <1>1, <1>2, <3>1
    <3>3. \A j \in 1..n : writers[j] # w
      BY <1>0, <3>2 DEF IsInjective
    <3> QED  BY <2>1, <3>2, <3>3
  <2>3. ASSUME NEW w \in ToSet(writers) \ {writers[i] : i \in 1..n}
        PROVE  w \in ToSet(rest)
    <3>1. PICK i \in 1..Len(writers) : w = writers[i]
      BY <2>1
    <3>2. ~ (i <= n)
      BY <3>1
    <3>3. i - n \in 1..Len(rest) /\ n + (i - n) = i
      BY <1>0, <1>1, <3>2
    <3>4. rest[i - n] = w
      BY <1>2, <3>1, <3>3
    <3> QED  BY <2>1, <3>3, <3>4
  <2> QED  BY <2>2, <2>3
<1> QED  BY <1>1, <1>2, <1>3, <1>4

\* What the answers leave of the queue.
LEMMA AnswerTyped ==
  ASSUME IInv, NEW n \in 1..Len(writers), NEW answer \in Answers, Answer(n, answer)
  PROVE  /\ writers' \in Seq(Writes) /\ IsInjective(writers')
         /\ state' \in [Writes -> WriterStates]
         /\ room' \in [force : BOOLEAN, delay : BOOLEAN]
<1> DEFINE rest == SubSeq(writers, n + 1, Len(writers))
<1>0. writers \in Seq(Writes) /\ IsInjective(writers)
  BY DEF IInv, Types, TypeOK
<1>1. /\ rest \in Seq(Writes) /\ Len(rest) = Len(writers) - n
      /\ \A i \in 1..Len(rest) : rest[i] = writers[n + i]
  BY RestIs
<1>2. IsInjective(rest)
  BY <1>0, <1>1 DEF IsInjective
<1>3. state' \in [Writes -> WriterStates]
  BY DEF Answer, IInv, Types, TypeOK, WriterStates
<1>4. room' \in [force : BOOLEAN, delay : BOOLEAN]
  BY DEF Answer, RoomOf, IInv, Types, TypeOK
<1> QED  BY <1>1, <1>2, <1>3, <1>4 DEF Answer

\* Answering the writers at the front keeps the queue's invariant.
LEMMA AnswerKeepsQueue ==
  ASSUME IInv, NEW n \in 1..Len(writers), NEW answer \in Answers, Answer(n, answer)
  PROVE  /\ \A w \in Writes : w \in ToSet(writers') <=> state'[w] \in Waiting
         /\ \A i \in DOMAIN writers' : i > 1 <=> state'[writers'[i]] = "queued"
         /\ \A w \in Writes : state'[w] \notin Grouped
<1> DEFINE first == {writers[i] : i \in 1..n}
<1>0. /\ writers \in Seq(Writes) /\ IsInjective(writers)
      /\ state \in [Writes -> WriterStates]
  BY DEF IInv, Types, TypeOK
<1>1. /\ writers' \in Seq(Writes) /\ Len(writers') = Len(writers) - n
      /\ \A i \in 1..Len(writers') : writers'[i] = writers[n + i]
      /\ ToSet(SubSeq(writers, 1, n)) = first
      /\ ToSet(writers') = ToSet(writers) \ first
  BY RestIs DEF Answer
<1>2. \A w \in Writes : state'[w] = IF w \in first THEN answer
                                    ELSE IF writers' # <<>> /\ w = writers'[1] THEN "room"
                                    ELSE state[w]
  BY <1>1 DEF Answer
<1>3. ASSUME NEW w \in Writes
      PROVE  w \in ToSet(writers') <=> state'[w] \in Waiting
  <2>1. writers' # <<>> => writers'[1] \in ToSet(writers')
    BY <1>1 DEF ToSet
  <2>2. w \in ToSet(writers) <=> state[w] \in Waiting
    BY DEF IInv, QueueInv
  <2>3. answer \notin Waiting /\ "room" \in Waiting
    BY DEF Answers, Waiting
  <2> QED  BY <1>1, <1>2, <2>1, <2>2, <2>3
<1>4. ASSUME NEW i \in DOMAIN writers'
      PROVE  i > 1 <=> state'[writers'[i]] = "queued"
  <2>1. i \in 1..Len(writers') /\ writers'[i] \in Writes
    BY <1>1
  <2>2. writers'[i] \notin first
    BY <1>1, <2>1 DEF ToSet
  <2>3. writers'[i] = writers[n + i] /\ n + i > 1 /\ n + i \in DOMAIN writers
    BY <1>0, <1>1, <2>1, SMTT(60)
  <2>4. state[writers'[i]] = "queued"
    BY <2>3 DEF IInv, QueueInv
  <2>5. i > 1 => writers'[i] # writers'[1]
    <3>1. IsInjective(writers')  BY AnswerTyped
    <3> QED  BY <1>1, <2>1, <3>1 DEF IsInjective
  <2> QED  BY <1>1, <1>2, <2>1, <2>2, <2>4, <2>5
<1>5. ASSUME NEW w \in Writes
      PROVE  state'[w] \notin Grouped
  <2>1. CASE w \in first
    BY <1>2, <2>1 DEF Answers, Grouped
  <2>2. CASE w \notin first
    <3>1. w # writers[1]
      BY <1>0, <2>2
    <3>2. state[w] \notin Grouped
      BY <3>1, FrontIsWriting DEF Waiting, Grouped
    <3> QED  BY <1>2, <2>2, <3>2 DEF Grouped
  <2> QED  BY <2>1, <2>2
<1> QED  BY <1>3, <1>4, <1>5

------------------------------------------------------------------------------
(***************************************************************************)
(* Writers keep the invariant.                                             *)
(***************************************************************************)
fileState == <<tables, manifests, current, phase, lastSequence, nextFile, logNumber,
               manifestFile, version, imm, logfile, pending, bgError, bg, edit, reader>>

\* What the files' invariant says does not depend on the rest of the state.
LEMMA FilesKept ==
  ASSUME FilesInv, UNCHANGED fileState
  PROVE  FilesInv'
<1>1. DescriptorsInv'  BY DEF FilesInv, fileState, DescriptorsInv, Records
<1>2. OpeningInv'
  BY DEF FilesInv, fileState, OpeningInv, Opening, Descriptor, Records
<1>3. RunningInv'
  BY DEF FilesInv, fileState, RunningInv, Running, Records
<1>4. AgreeInv'
  BY DEF FilesInv, fileState, AgreeInv, Running, Records
<1>5. StagesInv'
  BY DEF FilesInv, fileState, StagesInv
<1>6. EditInv'
  BY DEF FilesInv, fileState, EditInv, Descriptor, Records
<1> QED  BY <1>1, <1>2, <1>3, <1>4, <1>5, <1>6 DEF FilesInv

\* Nothing is claimed of a process that is open.
LEMMA OpenIsNotQuiet == ASSUME phase' = "open" PROVE Quiet'
BY DEF Quiet

\* DBImpl::Write joining the queue keeps the invariant.
LEMMA WriteKeeps ==
  ASSUME IInv, NEW w \in Writes, Write(w)
  PROVE  IInv'
<1>0. /\ writers \in Seq(Writes) /\ IsInjective(writers)
      /\ state \in [Writes -> WriterStates]
  BY DEF IInv, Types, TypeOK
<1>1. /\ writers' \in Seq(Writes) /\ Len(writers') = Len(writers) + 1
      /\ \A i \in 1..Len(writers) : writers'[i] = writers[i]
      /\ writers'[Len(writers) + 1] = w
  BY <1>0 DEF Write
<1>2. w \notin ToSet(writers)
  BY DEF IInv, QueueInv, Write, Waiting
<1>3. ToSet(writers') = ToSet(writers) \cup {w}
  BY <1>0, <1>1, ToSetIs
<1>4. IsInjective(writers')
  BY <1>0, <1>1, <1>2, ToSetIs DEF IsInjective
<1>5. state' \in [Writes -> WriterStates]
  BY <1>0 DEF Write, WriterStates
<1>6. room' \in [force : BOOLEAN, delay : BOOLEAN]
  BY DEF Write, RoomOf, IInv, Types, TypeOK
<1>7. Types'
  BY <1>1, <1>4, <1>5, <1>6
     DEF IInv, Types, TypeOK, MoreTypes, Write, directory, numbers, memtables
<1>8. QueueInv'
  <2>1. \A v \in Writes : v \in ToSet(writers') <=> state'[v] \in Waiting
    BY <1>0, <1>3 DEF IInv, QueueInv, Write, Waiting
  <2>2. ASSUME NEW i \in DOMAIN writers'
        PROVE  i > 1 <=> state'[writers'[i]] = "queued"
    <3>1. CASE i = Len(writers) + 1
      BY <1>0, <1>1, <3>1 DEF Write
    <3>2. CASE i # Len(writers) + 1
      <4>1. i \in 1..Len(writers)  BY <1>0, <1>1, <3>2
      <4>2. writers'[i] = writers[i] /\ writers[i] # w /\ writers[i] \in Writes
        BY <1>0, <1>1, <1>2, <4>1, ToSetIs
      <4> QED  BY <1>0, <4>1, <4>2 DEF IInv, QueueInv, Write
    <3> QED  BY <3>1, <3>2
  <2>3. ASSUME NEW v \in Writes, state'[v] \in Grouped
        PROVE  group'.size \in 1..Len(writers')
    <3>1. state[v] \in Grouped  BY <1>0, <2>3 DEF Write, Grouped
    <3> QED  BY <1>0, <1>1, <3>1 DEF IInv, QueueInv, Write
  <2> QED  BY <2>1, <2>2, <2>3 DEF QueueInv
<1>9. FilesInv'
  BY FilesKept DEF IInv, fileState, Write, directory, numbers, memtables
<1> QED  BY <1>7, <1>8, <1>9, OpenIsNotQuiet DEF IInv, Write

\* A step of the writer at the front that leaves the queue as it is.
LEMMA FrontSteps ==
  ASSUME IInv, NEW w \in Writes, state[w] \in Waiting \ {"queued"},
         NEW s \in Waiting \ {"queued"}, state' = [state EXCEPT ![w] = s],
         UNCHANGED writers,
         s \in Grouped => group'.size \in 1..Len(writers)
  PROVE  QueueInv' /\ state' \in [Writes -> WriterStates]
<1>0. /\ writers \in Seq(Writes) /\ IsInjective(writers)
      /\ state \in [Writes -> WriterStates]
  BY DEF IInv, Types, TypeOK
<1>1. writers # <<>> /\ w = writers[1] /\ 1 \in 1..Len(writers)
  BY FrontIsWriting
<1>2. \A v \in Writes : v \in ToSet(writers') <=> state'[v] \in Waiting
  BY <1>0 DEF IInv, QueueInv
<1>3. \A i \in DOMAIN writers' : i > 1 <=> state'[writers'[i]] = "queued"
  BY <1>0, <1>1 DEF IInv, QueueInv, IsInjective
<1>4. ASSUME NEW v \in Writes, state'[v] \in Grouped
      PROVE  group'.size \in 1..Len(writers')
  <2>1. v = w  
    <3>1. CASE v # w
      <4>1. state[v] \in Grouped  BY <1>0, <1>4, <3>1
      <4> QED  BY <1>1, <4>1, FrontIsWriting DEF Grouped, Waiting
    <3> QED  BY <3>1
  <2> QED  BY <1>0, <1>4, <2>1
<1>5. state' \in [Writes -> WriterStates]
  BY <1>0 DEF Waiting, WriterStates
<1> QED  BY <1>2, <1>3, <1>4, <1>5 DEF QueueInv

\* The answers to the first n writers, with a group that is over.
LEMMA AnswerKeeps ==
  ASSUME IInv, NEW n \in 1..Len(writers), NEW answer \in Answers, Answer(n, answer)
  PROVE  QueueInv'
BY AnswerKeepsQueue, Zenon DEF QueueInv

\* MakeRoomForWrite returning the background error keeps the invariant,
LEMMA RoomErrorKeeps ==
  ASSUME IInv, NEW w \in Writes, RoomError(w)
  PROVE  IInv'
<1>1. 1 \in 1..Len(writers) /\ phase = "open"
  BY FrontIsWriting DEF RoomError, InRoom, Waiting
<1>2. Answer(1, "error") /\ "error" \in Answers  BY DEF RoomError, Answers
<1>3. Types'
  BY <1>1, <1>2, AnswerTyped
     DEF IInv, Types, TypeOK, MoreTypes, RoomError, directory, numbers, memtables
<1>4. QueueInv'  BY <1>1, <1>2, AnswerKeeps
<1>5. FilesInv'
  BY FilesKept DEF IInv, fileState, RoomError, directory, numbers, memtables
<1> QED  BY <1>1, <1>3, <1>4, <1>5, OpenIsNotQuiet DEF IInv, RoomError

\* the log file that cannot be created,
LEMMA RoomFailsKeeps ==
  ASSUME IInv, NEW w \in Writes, RoomFails(w)
  PROVE  IInv'
<1>1. 1 \in 1..Len(writers) /\ phase = "open"
  BY FrontIsWriting DEF RoomFails, InRoom, Waiting
<1>2. Answer(1, "error") /\ "error" \in Answers  BY DEF RoomFails, Answers
<1>f. faults' \in 0..MaxFaults
  BY TriggersAssumption DEF IInv, Types, TypeOK, RoomFails, Fault
<1>3. Types'
  BY <1>1, <1>2, <1>f, AnswerTyped
     DEF IInv, Types, TypeOK, MoreTypes, RoomFails, directory, numbers, memtables
<1>4. QueueInv'  BY <1>1, <1>2, AnswerKeeps
<1>5. FilesInv'
  BY FilesKept DEF IInv, fileState, RoomFails, directory, numbers, memtables
<1> QED  BY <1>1, <1>3, <1>4, <1>5, OpenIsNotQuiet DEF IInv, RoomFails

\* the delay at the slowdown trigger,
LEMMA RoomDelayKeeps ==
  ASSUME IInv, NEW w \in Writes, RoomDelay(w)
  PROVE  IInv'
<1>1. Types'
  BY DEF IInv, Types, TypeOK, MoreTypes, RoomDelay, directory, numbers, memtables
<1>2. QueueInv'  BY DEF IInv, QueueInv, RoomDelay
<1>3. FilesInv'
  BY FilesKept DEF IInv, fileState, RoomDelay, directory, numbers, memtables
<1> QED  BY <1>1, <1>2, <1>3, OpenIsNotQuiet DEF IInv, RoomDelay, InRoom

\* the wait for the background thread,
LEMMA RoomWaitKeeps ==
  ASSUME IInv, NEW w \in Writes, RoomWait(w)
  PROVE  IInv'
<1>1. QueueInv' /\ state' \in [Writes -> WriterStates]
  BY FrontSteps DEF RoomWait, InRoom, Waiting, Grouped
<1>2. Types'
  BY <1>1 DEF IInv, Types, TypeOK, MoreTypes, RoomWait, directory, numbers, memtables
<1>3. FilesInv'
  BY FilesKept DEF IInv, fileState, RoomWait, directory, numbers, memtables
<1> QED  BY <1>1, <1>2, <1>3, OpenIsNotQuiet DEF IInv, RoomWait, InRoom

\* The batches of a prefix of the queue are counted by a number.
LEMMA BatchesUpToAreFinite ==
  ASSUME NEW n \in Nat
  PROVE  IsFiniteSet(BatchesUpTo(n)) /\ Cardinality(BatchesUpTo(n)) \in Nat
<1>1. BatchesUpTo(n) \in SUBSET (1..n) /\ IsFiniteSet(1..n)
  BY FS_Interval DEF BatchesUpTo
<1> QED  BY <1>1, FS_Subset, FS_CardinalityType

\* BuildBatchGroup takes at least the writer at the front.
LEMMA GroupSizeExists ==
  ASSUME writers \in Seq(Writes), writers # <<>>
  PROVE  /\ GroupSize \in 1..Len(writers)
         /\ \A k \in 1..GroupSize : MayGroup(k)
<1>0. Len(writers) \in Nat /\ 1 \in 1..Len(writers)
  OBVIOUS
<1>1. MayGroup(1)
  <2> DEFINE first == SubSeq(writers, 1, 1)
  <2>1. ToSet(first) = {writers[1]}
    <3>1. first \in Seq(Writes) /\ Len(first) = 1 /\ first[1] = writers[1]
      BY <1>0
    <3>2. ToSet(first) = {first[i] : i \in 1..Len(first)}  BY <3>1, ToSetIs
    <3> QED  BY <3>1, <3>2
  <2>2. IsFiniteSet({writers[1]}) /\ Cardinality({writers[1]}) = 1
    BY FS_Singleton
  <2>3. {writers[1]} \ Flushes \in SUBSET {writers[1]}
    OBVIOUS
  <2>4. /\ Cardinality({writers[1]} \ Flushes) \in Nat
        /\ Cardinality({writers[1]} \ Flushes) <= Cardinality({writers[1]})
    BY <2>2, <2>3, FS_Subset, FS_CardinalityType
  <2>5. Cardinality({writers[1]} \ Flushes) <= MaxGroup
    BY <2>2, <2>4, TriggersAssumption
  <2> QED  BY <2>1, <2>5 DEF MayGroup
<1> DEFINE ends == {n \in 1..Len(writers) : n < Len(writers) => ~MayGroup(n + 1)}
<1>2. ends \in SUBSET Nat /\ ends # {}
  <2>1. Len(writers) \in ends  BY <1>0
  <2> QED  BY <2>1
<1>3. PICK m \in ends : \A k \in ends : m <= k
  <2> HIDE DEF ends
  <2> QED  BY <1>2, Smallest
<1>4. \A k \in 1..m : MayGroup(k)
  <2> SUFFICES ASSUME NEW k \in 1..m PROVE MayGroup(k)  OBVIOUS
  <2>1. CASE k = 1  BY <1>1, <2>1
  <2>2. CASE k # 1
    <3>1. m \in 1..Len(writers)  OBVIOUS
    <3>2. k - 1 \in 1..Len(writers) /\ k - 1 < m /\ k - 1 < Len(writers) /\ k - 1 + 1 = k
      BY <1>0, <2>2, <3>1
    <3>3. k - 1 \notin ends
      BY <1>3, <3>1, <3>2
    <3>4. MayGroup(k - 1 + 1)
      BY <3>2, <3>3
    <3> QED  BY <3>2, <3>4
  <2> QED  BY <2>1, <2>2
<1>5. m \in DOMAIN writers /\ (m < Len(writers) => ~MayGroup(m + 1))
  BY <1>0
<1>6. \E n \in DOMAIN writers :
        (\A k \in 1..n : MayGroup(k)) /\ (n < Len(writers) => ~MayGroup(n + 1))
  BY <1>4, <1>5
<1>7. /\ GroupSize \in DOMAIN writers
      /\ \A k \in 1..GroupSize : MayGroup(k)
  BY <1>6 DEF GroupSize
<1> QED  BY <1>0, <1>7

\* The batches a group takes are finitely many entries.
LEMMA GroupIsTyped ==
  ASSUME IInv, writers # <<>>
  PROVE  GroupSize \in 1..Len(writers) /\ GroupEntries \in EntrySets
<1>0. writers \in Seq(Writes) /\ lastSequence \in Nat
  BY DEF IInv, Types, TypeOK
<1>1. GroupSize \in 1..Len(writers)
  BY <1>0, GroupSizeExists
<1> DEFINE taken == BatchesUpTo(GroupSize)
           entry(i) == <<lastSequence + Cardinality(BatchesUpTo(i)), writers[i]>>
           numbered == [i \in taken |-> entry(i)]
<1>2. \A i \in taken : i \in 1..GroupSize /\ writers[i] \in Batches
  BY DEF BatchesUpTo
<1>3. \A i \in taken : Cardinality(BatchesUpTo(i)) \in Nat
  BY <1>2, BatchesUpToAreFinite
<1>4. \A i \in taken : entry(i) \in Entries
  BY <1>0, <1>2, <1>3 DEF Entries
<1>5. GroupEntries = {entry(i) : i \in taken}
  BY DEF GroupEntries
<1>6. IsFiniteSet(taken)
  BY <1>1, BatchesUpToAreFinite
<1> HIDE DEF taken, entry
<1>7. numbered \in Surjection(taken, GroupEntries)
  BY <1>5 DEF Surjection
<1>8. IsFiniteSet(GroupEntries)
  BY <1>6, <1>7, FS_Surjection
<1> QED  BY <1>1, <1>4, <1>5, <1>8 DEF EntrySets

\* the group built when there is room,
LEMMA RoomFoundKeeps ==
  ASSUME IInv, NEW w \in Writes, RoomFound(w)
  PROVE  IInv'
<1>1. 1 \in 1..Len(writers) /\ phase = "open" /\ writers # <<>> /\ w = writers[1]
  BY FrontIsWriting DEF RoomFound, InRoom, Waiting
<1>2. QueueInv' /\ Types'
  <2>1. CASE w \in Flushes /\ Answer(1, "ok") /\ UNCHANGED group
    <3>1. Answer(1, "ok") /\ "ok" \in Answers  BY <2>1 DEF Answers
    <3>2. Types'
      BY <1>1, <2>1, <3>1, AnswerTyped
         DEF IInv, Types, TypeOK, MoreTypes, RoomFound, directory, numbers, memtables
    <3> QED  BY <1>1, <3>1, <3>2, AnswerKeeps
  <2>2. CASE /\ group' = [size |-> GroupSize, entries |-> GroupEntries]
             /\ state' = [state EXCEPT ![w] = "append"]
             /\ UNCHANGED <<writers, room>>
    <3>1. GroupSize \in 1..Len(writers) /\ GroupEntries \in EntrySets
      BY <1>1, GroupIsTyped
    <3>2. QueueInv' /\ state' \in [Writes -> WriterStates]
      <4>1. state[w] \in Waiting \ {"queued"} /\ "append" \in Waiting \ {"queued"}
        BY DEF RoomFound, InRoom, Waiting
      <4>2. UNCHANGED writers /\ group'.size \in 1..Len(writers)  BY <2>2, <3>1
      <4> QED  BY <2>2, <4>1, <4>2, FrontSteps
    <3>3. group' \in [size : Nat, entries : EntrySets] /\ group'.entries \subseteq Entries
      BY <2>2, <3>1 DEF EntrySets
    <3>4. Types'
      BY <2>2, <3>2, <3>3
         DEF IInv, Types, TypeOK, MoreTypes, RoomFound, directory, numbers, memtables
    <3> QED  BY <3>2, <3>4
  <2> QED  BY <2>1, <2>2 DEF RoomFound
<1>3. FilesInv'
  BY FilesKept DEF IInv, fileState, RoomFound, directory, numbers, memtables
<1> QED  BY <1>1, <1>2, <1>3, OpenIsNotQuiet DEF IInv, RoomFound

\* A new log file.
LEMMA NewLogTyped == NewLog \in Log
BY EmptySeq DEF NewLog, Log, LogShape

\* What is synced of each log is part of what is sound, and that of the whole.
LEMMA LogsTyped ==
  ASSUME IsFileMap(logs', Log), 0 \notin DOMAIN logs'
  PROVE  \A l \in DOMAIN logs' : /\ l \in Nat /\ logs'[l].sound \in 0..Len(logs'[l].records)
                                 /\ logs'[l].synced \in 0..logs'[l].sound
<1> SUFFICES ASSUME NEW l \in DOMAIN logs'
             PROVE  /\ l \in Nat /\ logs'[l].sound \in 0..Len(logs'[l].records)
                    /\ logs'[l].synced \in 0..logs'[l].sound
  OBVIOUS
<1>1. l \in Nat /\ logs'[l] \in Log  BY FileMapHolds
<1>2. /\ logs'[l].records \in Seq(EntrySets) /\ logs'[l].synced \in Nat
      /\ logs'[l].sound \in Nat /\ logs'[l].synced <= logs'[l].sound
      /\ logs'[l].sound <= Len(logs'[l].records)
  BY <1>1 DEF Log, LogShape
<1> QED  BY <1>1, <1>2

\* A process that takes numbers, makes tables and switches logs is still sound.
LEMMA RunningKept ==
  ASSUME Types, RunningInv, Running,
         UNCHANGED <<manifests, current, manifestFile, logNumber, version, reader>>,
         nextFile' \in Nat, nextFile <= nextFile',
         logNumber <= logfile', logfile' < nextFile',
         DOMAIN tables \subseteq DOMAIN tables', bg'.inputs \subseteq bg.inputs,
         \A n \in pending' : n < nextFile', bg'.flush < nextFile', bg'.output < nextFile'
  PROVE  RunningInv'
<1>0. nextFile \in Nat /\ current \in Nat  BY NumbersTyped
<1>1. manifestFile' = current' /\ current' < nextFile'
  BY <1>0 DEF RunningInv
<1>2. \A n \in Numbers(version') : n \in DOMAIN tables' /\ n < nextFile'
  BY <1>0, NumbersTyped DEF RunningInv
<1>3. \A n \in Numbers(bg'.inputs) : n \in DOMAIN tables' /\ n < nextFile'
  <2>1. Numbers(bg'.inputs) \subseteq Numbers(bg.inputs)  BY DEF Numbers
  <2> QED  BY <1>0, <2>1, WorkTyped DEF RunningInv
<1>4. \A n \in UNION reader' : n \in DOMAIN tables' /\ n < nextFile'
  BY <1>0, NumbersTyped DEF RunningInv
<1>5. \A i \in DOMAIN Records' : Records'[i].next <= nextFile'
  <2>1. Records' = Records  BY DEF Records
  <2> QED  BY <1>0, <2>1, RecordsTyped DEF RunningInv
<1> QED  BY <1>1, <1>2, <1>3, <1>4, <1>5 DEF RunningInv, Records

\* and the switch to a new memtable and log.
LEMMA RoomSwitchKeeps ==
  ASSUME IInv, NEW w \in Writes, RoomSwitch(w)
  PROVE  IInv'
<1>0. phase = "open"  BY DEF RoomSwitch, InRoom
<1>1. nextFile \in Nat /\ current \in Nat /\ current < nextFile /\ logfile \in Nat
  BY <1>0, NumbersTyped DEF IInv, FilesInv, RunningInv, Running
<1>2. IsFileMap(logs', Log) /\ 0 \notin DOMAIN logs'
  <2>1. IsFileMap(logs, Log) /\ 0 \notin DOMAIN logs  BY DEF IInv, Types, MoreTypes
  <2>2. logs' = Put(logs, nextFile, NewLog)  BY DEF RoomSwitch
  <2>3. IsFileMap(Put(logs, nextFile, NewLog), Log)
    BY <1>1, <2>1, NewLogTyped, PutTyped
  <2>4. DOMAIN Put(logs, nextFile, NewLog) = DOMAIN logs \cup {nextFile}
    BY DEF Put
  <2> QED  BY <1>1, <2>1, <2>2, <2>3, <2>4
<1>3. \A l \in DOMAIN logs' : /\ l \in Nat /\ logs'[l].sound \in 0..Len(logs'[l].records)
                              /\ logs'[l].synced \in 0..logs'[l].sound
  BY <1>2, LogsTyped
<1>4. scheduled' \in BOOLEAN
  BY DEF IInv, Types, TypeOK, RoomSwitch, MaybeScheduleCompaction
<1>5. room' \in [force : BOOLEAN, delay : BOOLEAN]
  BY DEF IInv, Types, TypeOK, RoomSwitch
<1>6. mem' \in EntrySets /\ mem' \subseteq Entries
  BY NoEntries DEF RoomSwitch
<1>7. imm' \subseteq EntrySets /\ imm' \subseteq SUBSET Entries /\ \A m, n \in imm' : m = n
  BY DEF IInv, Types, TypeOK, MoreTypes, RoomSwitch
<1>8. nextFile' \in Nat /\ logfile' \in Nat
  BY <1>1 DEF RoomSwitch
<1>a. torn' \in BOOLEAN /\ doubtful' \subseteq Batches
  BY DEF IInv, Types, TypeOK, RoomSwitch
<1>9. Types'
  BY <1>a, <1>2, <1>3, <1>4, <1>5, <1>6, <1>7, <1>8
     DEF IInv, Types, TypeOK, MoreTypes, RoomSwitch
<1>10. QueueInv'  BY DEF IInv, QueueInv, RoomSwitch
<1>11. FilesInv'
  <2>1. DescriptorsInv'  BY DEF IInv, FilesInv, RoomSwitch, DescriptorsInv, Records
  <2>2. OpeningInv'  BY <1>0 DEF RoomSwitch, OpeningInv, Opening
  <2>3. RunningInv'
    <3>1. /\ UNCHANGED <<tables, manifests, current, manifestFile, logNumber, version, pending,
                         bg, reader>>
          /\ nextFile' = nextFile + 1 /\ logfile' = nextFile
      BY DEF RoomSwitch
    <3>2. Types /\ RunningInv  BY DEF IInv, FilesInv
    <3>3. logNumber <= logfile' /\ logfile' < nextFile' /\ nextFile <= nextFile' /\ nextFile' \in Nat
      BY <1>0, <1>1, <3>1, <3>2, NumbersTyped DEF RunningInv, Running
    <3>4. \A n \in pending : n < nextFile'
      BY <1>0, <1>1, <3>1, <3>2, NumbersTyped DEF RunningInv, Running
    <3>5. bg.flush < nextFile' /\ bg.output < nextFile'
      BY <1>0, <1>1, <3>1, <3>2, WorkTyped DEF RunningInv, Running
    <3> QED  BY <1>0, <3>1, <3>2, <3>3, <3>4, <3>5, RunningKept DEF Running
  <2>4. AgreeInv'  BY DEF IInv, FilesInv, RoomSwitch, AgreeInv, Running, Records
  <2>5. StagesInv'  BY DEF IInv, FilesInv, RoomSwitch, StagesInv
  <2>6. EditInv'
    BY <1>0, <1>1, NumbersTyped, WorkTyped, RecordsTyped, SMTT(60)
       DEF IInv, FilesInv, RoomSwitch, RunningInv, Running, EditInv, Descriptor, Records
  <2> QED  BY <2>1, <2>2, <2>3, <2>4, <2>5, <2>6 DEF FilesInv
<1> QED  BY <1>0, <1>9, <1>10, <1>11, OpenIsNotQuiet DEF IInv, RoomSwitch

\* A log that is rewritten keeps the log files typed.
LEMMA LogRewritten ==
  ASSUME Types, NEW g, DOMAIN g = DOMAIN logs,
         \A l \in DOMAIN logs : g[l] = logs[l] \/ g[l] \in Log
  PROVE  IsFileMap(g, Log) /\ 0 \notin DOMAIN g
<1>0. IsFileMap(logs, Log) /\ 0 \notin DOMAIN logs  BY DEF Types, MoreTypes
<1>1. \A l \in DOMAIN g : l \in Nat /\ g[l] \in Log  BY <1>0, FileMapHolds
<1>2. IsFiniteSet(DOMAIN g)  BY <1>0 DEF IsFileMap
<1> QED  BY <1>0, <1>1, <1>2, FileMapBy

\* The logs when the group's record is appended, whole or perhaps torn: only the log
\* in use changes, and what is sound of it grows with a whole record behind others.
LEMMA AppendedLogIs ==
  ASSUME Types, NEW g, g \in {AppendRecord, AppendTorn}
  PROVE  /\ DOMAIN g = DOMAIN logs /\ \A l \in DOMAIN logs \ {logfile} : g[l] = logs[l]
         /\ logfile \in DOMAIN logs =>
              /\ g[logfile] \in Log
              /\ g[logfile].records = Append(logs[logfile].records, group.entries)
              /\ g[logfile].synced = logs[logfile].synced
              /\ g[logfile].sound =
                   IF g = AppendRecord /\ logs[logfile].sound = Len(logs[logfile].records)
                   THEN Len(logs[logfile].records) + 1 ELSE logs[logfile].sound
<1>1. DOMAIN g = DOMAIN logs /\ \A l \in DOMAIN logs \ {logfile} : g[l] = logs[l]
  BY DEF AppendRecord, AppendTorn
<1>2. ASSUME logfile \in DOMAIN logs
      PROVE  /\ g[logfile] \in Log
             /\ g[logfile].records = Append(logs[logfile].records, group.entries)
             /\ g[logfile].synced = logs[logfile].synced
             /\ g[logfile].sound =
                  IF g = AppendRecord /\ logs[logfile].sound = Len(logs[logfile].records)
                  THEN Len(logs[logfile].records) + 1 ELSE logs[logfile].sound
  <2> DEFINE log == logs[logfile]
             more == Append(log.records, group.entries)
  <2>1. log \in LogShape /\ log.synced <= log.sound /\ log.sound <= Len(log.records)
    BY <1>2, FileMapHolds DEF Types, MoreTypes, Log
  <2>2. /\ log.records \in Seq(EntrySets) /\ log.synced \in Nat /\ log.sound \in Nat
        /\ log = [records |-> log.records, sound |-> log.sound, synced |-> log.synced]
    BY <2>1 DEF LogShape
  <2>3. group.entries \in EntrySets  BY DEF Types, MoreTypes
  <2>4. /\ more \in Seq(EntrySets) /\ Len(more) = Len(log.records) + 1
        /\ Len(log.records) \in Nat
    BY <2>2, <2>3
  <2>5. CASE g = AppendRecord
    <3> DEFINE sound == IF log.sound = Len(log.records) THEN log.sound + 1 ELSE log.sound
    <3>1. g[logfile] = [records |-> more, synced |-> log.synced, sound |-> sound]
      BY <1>2, <2>5 DEF AppendRecord
    <3> HIDE DEF log, more
    <3>2. sound \in Nat /\ log.synced <= sound /\ sound <= Len(more)
      BY <2>1, <2>2, <2>4
    <3>3. sound = IF log.sound = Len(log.records) THEN Len(log.records) + 1 ELSE log.sound
      OBVIOUS
    <3> HIDE DEF sound
    <3>4. g[logfile] \in LogShape  BY <2>2, <2>4, <3>1, <3>2 DEF LogShape
    <3>5. /\ g[logfile].records = more /\ g[logfile].synced = log.synced
          /\ g[logfile].sound = sound
      BY <3>1
    <3> QED  BY <2>5, <3>2, <3>3, <3>4, <3>5 DEF Log, log, more
  <2>6. CASE g # AppendRecord
    <3>1. g = AppendTorn  BY <2>6
    <3>2. g[logfile] = [log EXCEPT !.records = more]  BY <1>2, <3>1 DEF AppendTorn
    <3> HIDE DEF log, more
    <3>3. g[logfile] = [records |-> more, sound |-> log.sound, synced |-> log.synced]
      BY <2>2, <3>2
    <3>4. log.sound <= Len(more)  BY <2>1, <2>2, <2>4
    <3>5. g[logfile] \in LogShape  BY <2>2, <2>4, <3>3 DEF LogShape
    <3>6. /\ g[logfile].records = more /\ g[logfile].synced = log.synced
          /\ g[logfile].sound = log.sound
      BY <3>3
    <3> QED  BY <2>1, <2>6, <3>4, <3>5, <3>6 DEF Log, log, more
  <2> QED  BY <2>5, <2>6
<1> QED  BY <1>1, <1>2

\* The logs when the one in use is synced.
SyncedLogs == [logs EXCEPT ![logfile].synced = logs[logfile].sound]

LEMMA SyncedLogIs ==
  ASSUME Types, NEW g, g = SyncedLogs
  PROVE  /\ DOMAIN g = DOMAIN logs /\ \A l \in DOMAIN logs \ {logfile} : g[l] = logs[l]
         /\ logfile \in DOMAIN logs =>
              /\ g[logfile] \in Log
              /\ g[logfile].records = logs[logfile].records
              /\ g[logfile].sound = logs[logfile].sound
              /\ g[logfile].synced = logs[logfile].sound
<1>1. DOMAIN g = DOMAIN logs /\ \A l \in DOMAIN logs \ {logfile} : g[l] = logs[l]
  BY DEF SyncedLogs
<1>2. ASSUME logfile \in DOMAIN logs
      PROVE  /\ g[logfile] \in Log
             /\ g[logfile].records = logs[logfile].records
             /\ g[logfile].sound = logs[logfile].sound
             /\ g[logfile].synced = logs[logfile].sound
  <2> DEFINE log == logs[logfile]
  <2>1. log \in LogShape /\ log.sound <= Len(log.records)
    BY <1>2, FileMapHolds DEF Types, MoreTypes, Log
  <2>2. /\ log.records \in Seq(EntrySets) /\ log.sound \in Nat
        /\ log = [records |-> log.records, sound |-> log.sound, synced |-> log.synced]
    BY <2>1 DEF LogShape
  <2>3. g[logfile] = [log EXCEPT !.synced = log.sound]  BY <1>2 DEF SyncedLogs
  <2> HIDE DEF log
  <2>4. g[logfile] = [records |-> log.records, sound |-> log.sound, synced |-> log.sound]
    BY <2>2, <2>3
  <2>5. g[logfile] \in LogShape  BY <2>2, <2>4 DEF LogShape
  <2>6. /\ g[logfile].records = log.records /\ g[logfile].synced = log.sound
        /\ g[logfile].sound = log.sound
    BY <2>4
  <2> QED  BY <2>1, <2>2, <2>5, <2>6 DEF Log, log
<1> QED  BY <1>1, <1>2

\* A write to the log with mutex_ released.
LEMMA LogStepKeeps ==
  ASSUME IInv, NEW w \in Writes, state[w] \in Grouped,
         NEW s \in Grouped, state' = [state EXCEPT ![w] = s],
         IsFileMap(logs', Log), 0 \notin DOMAIN logs',
         faults' \in 0..MaxFaults,
         UNCHANGED <<tables, manifests, current, phase, numbers, version, memtables, pending,
                     bgError, writers, room, group, scheduled, bg, edit, reader>>
  PROVE  IInv'
<1>1. phase' = "open"  BY FrontIsWriting DEF Waiting, Grouped
<1>2. QueueInv' /\ state' \in [Writes -> WriterStates]
  <2>1. group'.size \in 1..Len(writers)  BY DEF IInv, QueueInv
  <2>2. {s, state[w]} \subseteq Waiting \ {"queued"}  BY DEF Waiting, Grouped
  <2> QED  BY <2>1, <2>2, FrontSteps
<1>3. \A l \in DOMAIN logs' : /\ l \in Nat /\ logs'[l].sound \in 0..Len(logs'[l].records)
                              /\ logs'[l].synced \in 0..logs'[l].sound
  BY LogsTyped
<1>4. Types'
  BY <1>2, <1>3 DEF IInv, Types, TypeOK, MoreTypes, numbers, memtables
<1>5. FilesInv'  BY FilesKept DEF IInv, fileState, numbers, memtables
<1> QED  BY <1>1, <1>2, <1>4, <1>5, OpenIsNotQuiet DEF IInv

\* A fault is counted within its bound.
LEMMA FaultTyped == Types /\ Fault => faults' \in 0..MaxFaults
BY TriggersAssumption DEF Types, TypeOK, Fault

\* Appending the group to the log keeps the invariant,
LEMMA AddRecordKeeps ==
  ASSUME IInv, NEW w \in Writes, AddRecord(w)
  PROVE  IInv'
<1>1. /\ state[w] \in Grouped
      /\ \E s \in Grouped : state' = [state EXCEPT ![w] = s]
  BY DEF AddRecord, Grouped
<1>2. IsFileMap(logs', Log) /\ 0 \notin DOMAIN logs'
  <2>1. logs' \in {AppendRecord, AppendTorn}  BY DEF AddRecord
  <2>2. /\ DOMAIN logs' = DOMAIN logs
        /\ \A l \in DOMAIN logs : logs'[l] = logs[l] \/ logs'[l] \in Log
    BY <2>1, AppendedLogIs DEF IInv
  <2> QED  BY <2>2, LogRewritten DEF IInv
<1>3. faults' \in 0..MaxFaults
  BY FaultTyped DEF IInv, Types, TypeOK, AddRecord
<1> QED  BY <1>1, <1>2, <1>3, LogStepKeeps DEF AddRecord

\* so does syncing the log,
LEMMA SyncLogKeeps ==
  ASSUME IInv, NEW w \in Writes, SyncLog(w)
  PROVE  IInv'
<1>1. /\ state[w] \in Grouped
      /\ \E s \in Grouped : state' = [state EXCEPT ![w] = s]
  BY DEF SyncLog, Grouped
<1>2. IsFileMap(logs', Log) /\ 0 \notin DOMAIN logs'
  <2>1. CASE logs' = SyncedLogs
    <3>1. /\ DOMAIN logs' = DOMAIN logs
          /\ \A l \in DOMAIN logs : logs'[l] = logs[l] \/ logs'[l] \in Log
      BY <2>1, SyncedLogIs DEF IInv
    <3> QED  BY <3>1, LogRewritten DEF IInv
  <2>2. CASE UNCHANGED logs  BY <2>2 DEF IInv, Types, MoreTypes
  <2> QED  BY <2>1, <2>2 DEF SyncLog, SyncedLogs
<1>3. faults' \in 0..MaxFaults
  BY FaultTyped DEF IInv, Types, TypeOK, SyncLog
<1> QED  BY <1>1, <1>2, <1>3, LogStepKeeps DEF SyncLog

\* and answering the group.
LEMMA FinishGroupKeeps ==
  ASSUME IInv, NEW w \in Writes, FinishGroup(w)
  PROVE  IInv'
<1> DEFINE answer == IF state[w] = "insert" THEN "ok" ELSE "error"
<1>1. state[w] \in Grouped  BY DEF FinishGroup, Grouped
<1>2. phase = "open"  BY <1>1, FrontIsWriting DEF Waiting, Grouped
<1>3. group.size \in 1..Len(writers)  BY <1>1 DEF IInv, QueueInv
<1>4. Answer(group.size, answer) /\ answer \in Answers  BY DEF FinishGroup, Answers
<1> HIDE DEF answer
<1>5. /\ group.entries \in EntrySets /\ mem \in EntrySets /\ lastSequence \in Nat
      /\ IsFiniteSet(group.entries)
  BY NumbersTyped DEF IInv, Types, MoreTypes, EntrySets
<1>6. mem' \in EntrySets
  BY <1>5, MoreEntries DEF FinishGroup
<1>7. lastSequence' \in Nat
  BY <1>5, FS_CardinalityType DEF FinishGroup
<1>8. group' \in [size : Nat, entries : EntrySets] /\ group'.entries \subseteq Entries
  BY NoEntries DEF FinishGroup, NoGroup
<1>9. bgError' \in BOOLEAN  BY DEF FinishGroup, IInv, Types, TypeOK
<1>10. mem' \subseteq Entries  BY <1>6 DEF EntrySets
<1>a. torn' \in BOOLEAN /\ doubtful' \subseteq Batches
  <2>1. {e[2] : e \in group.entries} \subseteq Batches  BY DEF IInv, Types, TypeOK, Entries
  <2> QED  BY <2>1 DEF FinishGroup, IInv, Types, TypeOK
<1>11. Types'
  <2>1. UNCHANGED <<logs, tables, manifests, current, phase, nextFile, logNumber, manifestFile,
                    version, imm, logfile, pending, scheduled, bg, edit, reader, faults>>
    BY DEF FinishGroup, directory
  <2>2. /\ writers' \in Seq(Writes) /\ IsInjective(writers')
        /\ state' \in [Writes -> WriterStates]
        /\ room' \in [force : BOOLEAN, delay : BOOLEAN]
    BY <1>3, <1>4, AnswerTyped
  <2> QED  BY <1>6, <1>7, <1>8, <1>9, <1>10, <1>a, <2>1, <2>2, SMTT(60) DEF IInv, Types, TypeOK, MoreTypes
<1>12. QueueInv'  BY <1>3, <1>4, AnswerKeeps
<1>13. FilesInv'
  <2>1. UNCHANGED <<tables, manifests, current, phase, nextFile, logNumber, manifestFile,
                    version, imm, logfile, pending, bg, edit, reader>>
    BY DEF FinishGroup, directory
  <2>2. phase' = "open" /\ (bgError => bgError')  BY <1>2, <2>1 DEF FinishGroup
  <2>3. DescriptorsInv'  BY <2>1 DEF IInv, FilesInv, DescriptorsInv, Records
  <2>4. OpeningInv'  BY <2>2 DEF OpeningInv, Opening
  <2>5. RunningInv'  BY <2>1 DEF IInv, FilesInv, RunningInv, Running, Records
  <2>6. AgreeInv'  BY <2>1, <2>2 DEF IInv, FilesInv, AgreeInv, Running, Records
  <2>7. StagesInv'  BY <2>1 DEF IInv, FilesInv, StagesInv
  <2>8. EditInv'  BY <2>1 DEF IInv, FilesInv, EditInv, Descriptor, Records
  <2> QED  BY <2>3, <2>4, <2>5, <2>6, <2>7, <2>8 DEF FilesInv
<1>14. Quiet'  BY <1>2, OpenIsNotQuiet DEF FinishGroup
<1> QED  BY <1>11, <1>12, <1>13, <1>14 DEF IInv

------------------------------------------------------------------------------
(***************************************************************************)
(* The background thread keeps the invariant.                              *)
(***************************************************************************)
\* Waking the writers that wait for it keeps the queue.
LEMMA SignalKeeps ==
  ASSUME IInv, state' \in {state, SignalAll(state)}, UNCHANGED <<writers, group>>
  PROVE  QueueInv' /\ state' \in [Writes -> WriterStates]
<1>0. state \in [Writes -> WriterStates] /\ writers \in Seq(Writes)
  BY DEF IInv, Types, TypeOK
<1>1. \A w \in Writes : state'[w] = state[w] \/ (state[w] = "waiting" /\ state'[w] = "room")
  BY <1>0 DEF SignalAll
<1>2. state' \in [Writes -> WriterStates]
  BY <1>0 DEF SignalAll, WriterStates
<1>3. \A w \in Writes : w \in ToSet(writers') <=> state'[w] \in Waiting
  BY <1>1 DEF IInv, QueueInv, Waiting
<1>4. \A i \in DOMAIN writers' : i > 1 <=> state'[writers'[i]] = "queued"
  BY <1>0, <1>1 DEF IInv, QueueInv
<1>5. \A w \in Writes : state'[w] \in Grouped => group'.size \in 1..Len(writers')
  BY <1>1 DEF IInv, QueueInv, Grouped
<1> QED  BY <1>2, <1>3, <1>4, <1>5 DEF QueueInv

\* A background thread that is somewhere is in an open database.
LEMMA AtWorkIsOpen ==
  ASSUME IInv, bg.at # "idle" \/ scheduled
  PROVE  /\ phase = "open" /\ Running /\ ~Opening
         /\ current < nextFile /\ nextFile # 0
<1>1. phase = "open"  BY DEF IInv, Quiet, Idle
<1>2. Running /\ ~Opening  BY <1>1 DEF Running, Opening
<1> QED  BY <1>1, <1>2, NumbersTyped DEF IInv, FilesInv, RunningInv

\* What becomes of the thread when a CompactMemTable or a DoCompactionWork ends.
LEMMA EndOfWorkIs ==
  ASSUME IInv, EndOfWork
  PROVE  /\ state' \in {state, SignalAll(state)}
         /\ scheduled' \in BOOLEAN
         /\ \/ bg' = Idle
            \/ /\ bg.flush # 0 /\ bg.inputs # {}
               /\ bg' = [at |-> "work", flush |-> 0, inputs |-> bg.inputs, output |-> bg.output]
<1>1. bg \in Background /\ scheduled \in BOOLEAN
  BY WorkTyped DEF IInv, Types, TypeOK
<1>2. CASE bg.flush # 0 /\ bg.inputs # {}
  <2>1. /\ bg' = [bg EXCEPT !.at = "work", !.flush = 0]
        /\ state' = SignalAll(state) /\ scheduled' = scheduled
    BY <1>2 DEF EndOfWork
  <2> QED  BY <1>1, <1>2, <2>1 DEF Background
<1>3. CASE ~ (bg.flush # 0 /\ bg.inputs # {})
  BY <1>3 DEF EndOfWork, EndBackgroundCall
<1> QED  BY <1>2, <1>3

\* The background thread at rest has a typed state.
LEMMA EndOfWorkTyped ==
  ASSUME IInv, EndOfWork
  PROVE  bg' \in Background
<1>1. bg \in Background  BY WorkTyped DEF IInv
<1>2. CASE bg' = Idle  BY <1>2 DEF Idle, Background
<1>3. CASE bg' = [at |-> "work", flush |-> 0, inputs |-> bg.inputs, output |-> bg.output]
  BY <1>1, <1>3 DEF Background
<1> QED  BY <1>2, <1>3, EndOfWorkIs

\* The background thread that finds nothing to do, or an error, keeps the invariant,
LEMMA BackgroundGivesUpKeeps ==
  ASSUME IInv, BackgroundGivesUp
  PROVE  IInv'
<1>1. phase = "open"  BY AtWorkIsOpen DEF BackgroundGivesUp
<1>2. bg = Idle /\ bg' = Idle
  BY DEF BackgroundGivesUp, EndBackgroundCall, IInv, FilesInv, StagesInv
<1>3. state' \in {state, SignalAll(state)} /\ scheduled' \in BOOLEAN
  BY DEF BackgroundGivesUp, EndBackgroundCall
<1>4. QueueInv' /\ state' \in [Writes -> WriterStates]
  BY <1>3, SignalKeeps DEF BackgroundGivesUp
<1>5. Types'
  BY <1>2, <1>3, <1>4
     DEF BackgroundGivesUp, IInv, Types, TypeOK, MoreTypes, directory, numbers
<1>6. FilesInv'
  BY <1>2, FilesKept DEF IInv, BackgroundGivesUp, fileState, directory, numbers
<1> QED  BY <1>1, <1>4, <1>5, <1>6, OpenIsNotQuiet DEF IInv, BackgroundGivesUp

\* so does starting to flush the memtable,
LEMMA CompactMemTableKeeps ==
  ASSUME IInv, CompactMemTable
  PROVE  IInv'
<1> DEFINE new == [at |-> "build", flush |-> nextFile, inputs |-> bg.inputs, output |-> bg.output]
<1>0. phase = "open" /\ Running /\ ~Opening /\ nextFile # 0
  BY AtWorkIsOpen DEF CompactMemTable
<1>t. Types /\ FilesInv  BY DEF IInv
<1>1. bg' = new
  BY <1>t, WorkTyped DEF CompactMemTable, Background
<1>2. bg' \in Background
  BY <1>t, <1>1, NumbersTyped, WorkTyped DEF Background
<1>3. /\ UNCHANGED <<logs, tables, manifests, current, phase, version, mem, imm, logfile, torn,
                     doubtful, bgError, writers, state, room, group, scheduled, edit, reader,
                     faults, lastSequence, logNumber, manifestFile>>
      /\ nextFile' = nextFile + 1 /\ pending' = pending \cup {nextFile}
  BY DEF CompactMemTable, NewOutput, directory, memtables, queue
<1>4. Types'
  <2>1. nextFile' \in Nat /\ pending' \subseteq Nat
    BY <1>3, <1>t, NumbersTyped
  <2> QED  BY <1>2, <1>3, <1>t, <2>1 DEF Types, TypeOK, MoreTypes
<1>5. QueueInv'  BY <1>3 DEF IInv, QueueInv
<1>6. DescriptorsInv'  BY <1>3, <1>t DEF FilesInv, DescriptorsInv, Records
<1>7. OpeningInv'  BY <1>0, <1>3 DEF OpeningInv, Opening
<1>8. RunningInv'
  <2>1. RunningInv  BY <1>t DEF FilesInv
  <2>2. /\ nextFile' \in Nat /\ nextFile <= nextFile' /\ nextFile < nextFile'
        /\ \A n \in pending' : n < nextFile'
    BY <1>0, <1>3, <1>t, <2>1, NumbersTyped DEF RunningInv
  <2>3. logNumber <= logfile' /\ logfile' < nextFile'
    BY <1>0, <1>3, <1>t, <2>1, NumbersTyped DEF RunningInv
  <2>4. bg'.flush < nextFile' /\ bg'.output < nextFile' /\ bg'.inputs = bg.inputs
    BY <1>0, <1>1, <1>3, <1>t, <2>1, NumbersTyped, WorkTyped DEF RunningInv
  <2> QED  BY <1>0, <1>3, <1>t, <2>1, <2>2, <2>3, <2>4, RunningKept
<1>9. AgreeInv'
  <2>1. bg.at # "sync" /\ bg'.at # "sync"  BY <1>1 DEF CompactMemTable
  <2> QED  BY <1>3, <1>t, <2>1 DEF FilesInv, AgreeInv, Running, Records
<1>10. StagesInv'
  <2>1. imm # {} /\ (bg.at = "work" \/ bg.at = "idle")  BY DEF CompactMemTable
  <2>2. StagesInv /\ RunningInv  BY <1>t DEF FilesInv
  <2>3. bg.output < nextFile  BY <1>0, <2>2 DEF RunningInv
  <2>4. nextFile # bg.output  BY <1>t, <2>3, NumbersTyped, WorkTyped
  <2> QED  BY <1>0, <1>1, <1>3, <2>1, <2>2, <2>4 DEF StagesInv, Idle
<1>11. EditInv'  BY <1>1 DEF EditInv
<1>12. Quiet'  BY <1>0, <1>3, OpenIsNotQuiet
<1> QED  BY <1>4, <1>5, <1>6, <1>7, <1>8, <1>9, <1>10, <1>11, <1>12 DEF IInv, FilesInv

\* A record more in the descriptor in use.
LEMMA RecordTyped ==
  ASSUME IInv, bg.at = "append", manifests' = Record, UNCHANGED current
  PROVE  /\ IsFileMap(manifests', Seq(Described) \ {<<>>}) /\ current' \in DOMAIN manifests'
         /\ Records' = Append(Records, Apply(Descriptor, edit))
         /\ Len(Records') = Len(Records) + 1
         /\ \A i \in 1..Len(Records) : Records'[i] = Records[i]
         /\ Records'[Len(Records) + 1] = Apply(Descriptor, edit)
         /\ Apply(Descriptor, edit) \in Described
<1>0. /\ IsFileMap(manifests, Seq(Described) \ {<<>>}) /\ current \in DOMAIN manifests
      /\ Types /\ RunningInv /\ Running
  BY AtWorkIsOpen DEF IInv, FilesInv, Types, TypeOK, MoreTypes
<1>1. manifestFile = current  BY <1>0 DEF RunningInv
<1>2. Records \in Seq(Described) /\ Len(Records) \in Nat /\ Descriptor \in Described /\ edit \in Edit
  BY <1>0, RecordsTyped, WorkTyped
<1>3. Apply(Descriptor, edit) \in Described
  <2>1. /\ Descriptor.files \subseteq Nat \X Nat /\ edit.add \subseteq Nat \X Nat
        /\ edit.log \in Nat /\ edit.next \in Nat /\ edit.last \in Nat
    BY <1>2 DEF Described, Edit
  <2>2. (Descriptor.files \ edit.del) \cup edit.add \in SUBSET (Nat \X Nat)
    BY <2>1
  <2> QED  BY <2>1, <2>2 DEF Apply, Described
<1>4. manifests' = [manifests EXCEPT ![current] = Append(Records, Apply(Descriptor, edit))]
  BY <1>1 DEF Record, Records, Descriptor
<1> DEFINE more == Append(Records, Apply(Descriptor, edit))
<1>5. more \in Seq(Described) \ {<<>>} /\ Len(more) = Len(Records) + 1
      /\ (\A i \in 1..Len(Records) : more[i] = Records[i])
      /\ more[Len(Records) + 1] = Apply(Descriptor, edit)
  BY <1>2, <1>3
<1> HIDE DEF more
<1>6. IsFileMap(manifests', Seq(Described) \ {<<>>})
  <2>1. manifests' = [manifests EXCEPT ![current] = more]  BY <1>4 DEF more
  <2>2. IsFileMap(manifests, Seq(Described) \ {<<>>}) /\ more \in Seq(Described) \ {<<>>}
    BY <1>0, <1>5
  <2>3. IsFileMap([manifests EXCEPT ![current] = more], Seq(Described) \ {<<>>})
    BY <2>2, ExceptTyped
  <2> QED  BY <2>1, <2>3
<1>7. current' \in DOMAIN manifests' /\ manifests'[current'] = more
  BY <1>0, <1>4 DEF more
<1> QED  BY <1>3, <1>5, <1>6, <1>7 DEF Records, more

\* It can be opened from.
LEMMA RecordKeepsDescriptors ==
  ASSUME IInv, bg.at = "append", manifests' = Record, UNCHANGED <<current, tables>>
  PROVE  DescriptorsInv' /\ \A i \in DOMAIN Records' : Records'[i].next <= edit.next
<1>0. Types /\ Records \in Seq(Described) /\ Len(Records) \in Nat /\ Len(Records) >= 1
      /\ edit.next \in Nat /\ current \in Nat
  BY RecordsTyped, NumbersTyped, WorkTyped DEF IInv
<1>1. /\ Records' \in Seq(Described) /\ Len(Records') = Len(Records) + 1
      /\ \A i \in 1..Len(Records) : Records'[i] = Records[i]
      /\ Records'[Len(Records) + 1] = Apply(Descriptor, edit)
  BY <1>0, RecordTyped
<1>2. /\ DescriptorsInv
      /\ \A n \in Numbers(edit.add) : n \in DOMAIN tables /\ n < edit.next
      /\ \A i \in DOMAIN Records : Records[i].next <= edit.next
  BY AtWorkIsOpen DEF IInv, FilesInv, EditInv
<1> DEFINE last == Len(Records)
<1>3. Descriptor = Records[last] /\ last \in DOMAIN Records /\ last \in Nat
  BY <1>0, RecordsTyped
<1>4. Apply(Descriptor, edit).next = edit.next
  BY DEF Apply
<1>5. \A n \in Numbers(Apply(Descriptor, edit).files) :
         n \in Numbers(Records[last].files) \/ n \in Numbers(edit.add)
  BY <1>3 DEF Apply, Numbers
<1>6. \A i \in DOMAIN Records : Records[i].next \in Nat /\ \A n \in Numbers(Records[i].files) : n \in Nat
  BY <1>0, RecordsTyped
<1>7. \A n \in Numbers(Apply(Descriptor, edit).files) : n \in DOMAIN tables /\ n < edit.next
  <2> SUFFICES ASSUME NEW n \in Numbers(Apply(Descriptor, edit).files)
               PROVE  n \in DOMAIN tables /\ n < edit.next
    OBVIOUS
  <2>1. CASE n \in Numbers(edit.add)  BY <1>2, <2>1
  <2>2. CASE n \in Numbers(Records[last].files)
    <3>1. n \in DOMAIN tables /\ n < Records[last].next
      BY <1>2, <1>3, <2>2 DEF DescriptorsInv
    <3>2. Records[last].next <= edit.next  BY <1>2, <1>3
    <3>3. n \in Nat /\ Records[last].next \in Nat  BY <1>3, <1>6, <2>2
    <3> QED  BY <1>0, <3>1, <3>2, <3>3
  <2> QED  BY <1>5, <2>1, <2>2
<1>8. current < edit.next
  BY <1>0, <1>2, <1>3, <1>6 DEF DescriptorsInv
<1>9. ASSUME NEW i \in DOMAIN Records'
      PROVE  /\ Numbers(Records'[i].files) \subseteq DOMAIN tables'
             /\ \A n \in Numbers(Records'[i].files) : n < Records'[i].next
             /\ current' < Records'[i].next
             /\ Records'[i].next <= edit.next
             /\ \A j \in DOMAIN Records' : i <= j => Records'[i].next <= Records'[j].next
  <2>1. i \in 1..(last + 1)  BY <1>1
  <2>2. CASE i = last + 1
    <3>1. \A j \in DOMAIN Records' : i <= j => j = i  BY <1>0, <1>1, <2>2
    <3> QED  BY <1>0, <1>1, <1>4, <1>7, <1>8, <2>2, <3>1
  <2>3. CASE i # last + 1
    <3>1. i \in DOMAIN Records /\ Records'[i] = Records[i]
      BY <1>0, <1>1, <2>1, <2>3
    <3>2. ASSUME NEW j \in DOMAIN Records', i <= j
          PROVE  Records'[i].next <= Records'[j].next
      <4>1. CASE j = last + 1  BY <1>1, <1>2, <1>4, <3>1, <4>1
      <4>2. CASE j # last + 1
        <5>1. j \in DOMAIN Records /\ Records'[j] = Records[j]
          BY <1>0, <1>1, <4>2
        <5> QED  BY <1>2, <3>1, <3>2, <5>1 DEF DescriptorsInv
      <4> QED  BY <4>1, <4>2
    <3> QED  BY <1>2, <3>1, <3>2 DEF DescriptorsInv
  <2> QED  BY <2>2, <2>3
<1> QED  BY <1>9 DEF DescriptorsInv

\* RecordBackgroundError, wherever the work has got to.
LEMMA FailureKeeps ==
  ASSUME IInv, bg.at # "idle", BackgroundFails,
         UNCHANGED <<logs, tables, current, phase, lastSequence, nextFile, logNumber,
                     manifestFile, mem, logfile, torn, doubtful, writers, room, group, edit,
                     reader>>,
         manifests' = manifests \/ (bg.at = "append" /\ manifests' = Record)
  PROVE  IInv'
<1>0. Types /\ FilesInv /\ phase = "open" /\ Running  BY AtWorkIsOpen DEF IInv
<1>1. /\ faults' \in 0..MaxFaults /\ bgError' = TRUE /\ pending' = pending \ {OwnOutput}
      /\ version' = version /\ imm' = imm /\ EndOfWork
  BY <1>0, FaultTyped DEF BackgroundFails
<1>2. /\ state' \in {state, SignalAll(state)} /\ scheduled' \in BOOLEAN /\ bg' \in Background
      /\ \/ bg' = Idle
         \/ /\ bg.flush # 0 /\ bg.inputs # {}
            /\ bg' = [at |-> "work", flush |-> 0, inputs |-> bg.inputs, output |-> bg.output]
  BY <1>1, EndOfWorkIs, EndOfWorkTyped
<1>3. QueueInv' /\ state' \in [Writes -> WriterStates]
  BY <1>2, SignalKeeps
<1>4. /\ IsFileMap(manifests', Seq(Described) \ {<<>>}) /\ current' \in DOMAIN manifests'
      /\ DescriptorsInv'
      /\ \A i \in DOMAIN Records' : Records'[i].next <= nextFile'
  <2>1. CASE manifests' = manifests
    BY <1>0, <2>1 DEF Types, TypeOK, MoreTypes, FilesInv, DescriptorsInv, RunningInv, Records
  <2>2. CASE bg.at = "append" /\ manifests' = Record
    <3>1. /\ IsFileMap(manifests', Seq(Described) \ {<<>>}) /\ current' \in DOMAIN manifests'
          /\ DescriptorsInv' /\ \A i \in DOMAIN Records' : Records'[i].next <= edit.next
      BY <2>2, RecordTyped, RecordKeepsDescriptors
    <3>2. edit.next <= nextFile  BY <1>0, <2>2 DEF FilesInv, EditInv
    <3>3. Records' \in Seq(Described) /\ \A i \in DOMAIN Records' : Records'[i].next \in Nat
      <4>1. Records' \in Seq(Described)
        BY <3>1, FileMapHolds DEF Records
      <4>2. \A i \in DOMAIN Records' : Records'[i] \in Described  BY <4>1
      <4> QED  BY <4>1, <4>2 DEF Described
    <3> QED  BY <1>0, <3>1, <3>2, <3>3, NumbersTyped, WorkTyped
  <2> QED  BY <2>1, <2>2
<1>5. Types'
  <2>1. pending' \subseteq Nat  BY <1>0, <1>1 DEF Types, TypeOK
  <2>2. IsFileMap(manifests', Seq(Described))  BY <1>4, FileMapWider
  <2> QED  BY <1>0, <1>1, <1>2, <1>3, <1>4, <2>1, <2>2 DEF Types, TypeOK, MoreTypes
<1>6. OpeningInv'  BY <1>0 DEF OpeningInv, Opening
<1>7. RunningInv'
  <2>1. RunningInv  BY <1>0 DEF FilesInv
  <2>2. Numbers(bg'.inputs) \subseteq Numbers(bg.inputs)
    BY <1>2 DEF Idle, Numbers
  <2>3. bg'.flush < nextFile' /\ bg'.output < nextFile'
    BY <1>0, <1>2, <2>1, NumbersTyped DEF RunningInv, Idle
  <2> QED  BY <1>0, <1>1, <1>4, <2>1, <2>2, <2>3 DEF RunningInv, Running
<1>8. AgreeInv'  BY <1>1 DEF AgreeInv
<1>9. StagesInv'
  <2>1. StagesInv  BY <1>0 DEF FilesInv
  <2>2. CASE bg' = Idle  BY <2>2 DEF StagesInv, Idle
  <2>3. CASE /\ bg.flush # 0 /\ bg.inputs # {}
             /\ bg' = [at |-> "work", flush |-> 0, inputs |-> bg.inputs, output |-> bg.output]
    <3>1. OwnOutput # bg.output  BY <2>1, <2>3 DEF StagesInv, OwnOutput
    <3> QED  BY <1>1, <2>1, <2>3, <3>1 DEF StagesInv
  <2> QED  BY <1>2, <2>2, <2>3
<1>10. EditInv'  BY <1>2 DEF EditInv, Idle
<1>11. Quiet'  BY <1>0, OpenIsNotQuiet
<1> QED  BY <1>3, <1>4, <1>5, <1>6, <1>7, <1>8, <1>9, <1>10, <1>11 DEF IInv, FilesInv

\* writing its table,
LEMMA BuildTableKeeps ==
  ASSUME IInv, BuildTable
  PROVE  IInv'
<1>0. Types /\ FilesInv /\ phase = "open" /\ Running /\ ~Opening /\ bg.at = "build"
  BY AtWorkIsOpen DEF IInv, BuildTable
<1>u. UNCHANGED <<logs, manifests, current, phase, lastSequence, nextFile, logNumber,
                  manifestFile, mem, logfile, torn, doubtful, writers, room, group, reader>>
  BY DEF BuildTable, numbers
<1>1. CASE BackgroundFails /\ UNCHANGED <<tables, edit>>
  BY <1>0, <1>1, <1>u, FailureKeeps
<1>2. CASE ~ (BackgroundFails /\ UNCHANGED <<tables, edit>>)
  <2>1. /\ tables' = (IF UNION imm = {} THEN tables ELSE Put(tables, bg.flush, UNION imm))
        /\ edit' = [add |-> IF UNION imm = {} THEN {} ELSE {<<PickLevel, bg.flush>>}, del |-> {},
                    log |-> logfile, next |-> nextFile, last |-> lastSequence]
        /\ pending' = pending \ {bg.flush}
        /\ bg' = [bg EXCEPT !.at = "append"]
        /\ UNCHANGED <<version, imm, bgError, state, scheduled, faults>>
    BY <1>2 DEF BuildTable
  <2>2. /\ UNION imm \in EntrySets /\ bg.flush \in Nat /\ PickLevel \in Nat
        /\ nextFile \in Nat /\ logfile \in Nat /\ lastSequence \in Nat
    BY <1>0, ImmIsTyped, WorkTyped, NumbersTyped DEF PickLevel
  <2>3. IsFileMap(tables', EntrySets) /\ DOMAIN tables \subseteq DOMAIN tables'
    <3>1. IsFileMap(tables, EntrySets)  BY <1>0 DEF Types, MoreTypes
    <3>2. IsFileMap(Put(tables, bg.flush, UNION imm), EntrySets)
      BY <2>2, <3>1, PutTyped
    <3>3. DOMAIN Put(tables, bg.flush, UNION imm) = DOMAIN tables \cup {bg.flush}
      BY DEF Put
    <3> QED  BY <2>1, <3>1, <3>2, <3>3
  <2>4. edit' \in Edit  BY <2>1, <2>2 DEF Edit
  <2>5. /\ bg' \in Background /\ bg'.at = "append"
        /\ bg'.flush = bg.flush /\ bg'.output = bg.output /\ bg'.inputs = bg.inputs
    BY <1>0, <2>1, WorkTyped DEF Background
  <2>6. pending' \subseteq Nat  BY <1>0, <2>1 DEF Types, TypeOK
  <2>7. IsFileMap(tables', SUBSET Entries)
    BY <2>3, FileMapWider DEF EntrySets
  <2>8. Types'
    BY <1>0, <1>u, <2>1, <2>3, <2>4, <2>5, <2>6, <2>7 DEF Types, TypeOK, MoreTypes
  <2>9. QueueInv'  BY <1>u, <2>1 DEF IInv, QueueInv
  <2>10. DescriptorsInv'  BY <1>0, <1>u, <2>3 DEF FilesInv, DescriptorsInv, Records
  <2>11. OpeningInv'  BY <1>0, <1>u DEF OpeningInv, Opening
  <2>12. RunningInv'
    <3>1. RunningInv  BY <1>0 DEF FilesInv
    <3>2. /\ logNumber <= logfile' /\ logfile' < nextFile' /\ nextFile <= nextFile'
          /\ \A n \in pending' : n < nextFile'
      BY <1>0, <1>u, <2>1, <2>2, <3>1 DEF RunningInv
    <3>3. bg'.flush < nextFile' /\ bg'.output < nextFile'
      BY <1>0, <1>u, <2>5, <3>1 DEF RunningInv
    <3> QED  BY <1>0, <1>u, <2>1, <2>2, <2>3, <2>5, <3>1, <3>2, <3>3, RunningKept
  <2>13. AgreeInv'
    BY <1>0, <1>u, <2>1, <2>5 DEF FilesInv, AgreeInv, Running, Records
  <2>14. StagesInv'
    <3>1. StagesInv  BY <1>0 DEF FilesInv
    <3>2. imm' = imm /\ pending' = pending \ {bg.flush}  BY <2>1
    <3> QED  BY <1>0, <2>3, <2>5, <3>1, <3>2 DEF StagesInv
  <2>15. EditInv'
    <3>1. \A n \in Numbers(edit'.add) : n = bg.flush /\ n \in DOMAIN tables'
      <4>1. CASE UNION imm = {}  BY <2>1, <4>1 DEF Numbers
      <4>2. CASE UNION imm # {}
        <5>1. DOMAIN tables' = DOMAIN tables \cup {bg.flush}  BY <2>1, <4>2 DEF Put
        <5>2. edit'.add = {<<PickLevel, bg.flush>>}  BY <2>1, <4>2
        <5> QED  BY <5>1, <5>2 DEF Numbers
      <4> QED  BY <4>1, <4>2
    <3>2. bg.flush < nextFile /\ \A i \in DOMAIN Records : Records[i].next <= nextFile
      BY <1>0 DEF FilesInv, RunningInv
    <3>3. edit'.next = nextFile' /\ edit'.log = logfile' /\ Records' = Records
      BY <1>u, <2>1 DEF Records
    <3> QED  BY <1>u, <2>2, <2>5, <3>1, <3>2, <3>3 DEF EditInv
  <2>16. Quiet'  BY <1>0, <1>u, OpenIsNotQuiet
  <2> QED
    BY <2>8, <2>9, <2>10, <2>11, <2>12, <2>13, <2>14, <2>15, <2>16 DEF IInv, FilesInv
<1> QED  BY <1>1, <1>2

\* picking the inputs of a compaction,
LEMMA StartCompactionKeeps ==
  ASSUME IInv, StartCompaction
  PROVE  IInv'
<1>0. Types /\ FilesInv /\ phase = "open" /\ Running /\ ~Opening /\ bg = Idle
  BY AtWorkIsOpen DEF IInv, StartCompaction, FilesInv, StagesInv
<1>1. bg' = [at |-> "work", flush |-> 0, output |-> 0,
             inputs |-> {file \in version : file[1] \in {0, 1}}]
  BY <1>0 DEF StartCompaction, Idle
<1>2. UNCHANGED <<logs, tables, manifests, current, phase, lastSequence, nextFile, logNumber,
                  manifestFile, version, mem, imm, logfile, torn, doubtful, pending, bgError,
                  writers, state, room, group, scheduled, edit, reader, faults>>
  BY DEF StartCompaction, directory, numbers, memtables, queue
<1>3. bg'.inputs # {}
  <2>1. Level0(version) >= Trigger /\ Trigger \in Nat \ {0}
    BY TriggersAssumption DEF StartCompaction, NeedsCompaction
  <2>2. {file \in version : file[1] = 0} # {}
    BY <2>1, FS_EmptySet DEF Level0
  <2> QED  BY <1>1, <2>2
<1>4. bg' \in Background
  <2>1. bg'.inputs \in SUBSET (Nat \X Nat)  BY <1>0, <1>1 DEF Types, TypeOK
  <2> QED  BY <1>1, <2>1 DEF Background
<1>5. Types'  BY <1>0, <1>2, <1>4 DEF Types, TypeOK, MoreTypes
<1>6. QueueInv'  BY <1>2 DEF IInv, QueueInv
<1>7. DescriptorsInv'  BY <1>0, <1>2 DEF FilesInv, DescriptorsInv, Records
<1>8. OpeningInv'  BY <1>0, <1>2 DEF OpeningInv, Opening
<1>9. RunningInv'
  <2>1. RunningInv /\ nextFile \in Nat  BY <1>0, NumbersTyped DEF FilesInv
  <2>2. Numbers(bg'.inputs) \subseteq Numbers(version)  BY <1>1 DEF Numbers
  <2>3. bg'.flush < nextFile' /\ bg'.output < nextFile'
    BY <1>0, <1>1, <1>2, <2>1 DEF RunningInv, Idle
  <2> QED  BY <1>0, <1>2, <2>1, <2>2, <2>3 DEF RunningInv, Running, Records
<1>10. AgreeInv'
  BY <1>0, <1>1, <1>2 DEF FilesInv, AgreeInv, Running, Records, Idle
<1>11. StagesInv'  BY <1>1, <1>3 DEF StagesInv
<1>12. EditInv'  BY <1>1 DEF EditInv
<1>13. Quiet'  BY <1>0, <1>2, OpenIsNotQuiet
<1> QED  BY <1>5, <1>6, <1>7, <1>8, <1>9, <1>10, <1>11, <1>12, <1>13 DEF IInv, FilesInv

\* numbering its output,
LEMMA OpenCompactionOutputFileKeeps ==
  ASSUME IInv, OpenCompactionOutputFile
  PROVE  IInv'
<1>0. Types /\ FilesInv /\ phase = "open" /\ Running /\ ~Opening /\ bg.at = "work"
      /\ nextFile \in Nat /\ nextFile # 0
  BY AtWorkIsOpen, NumbersTyped DEF IInv, OpenCompactionOutputFile
<1>1. bg' = [at |-> "work", flush |-> bg.flush, inputs |-> bg.inputs, output |-> nextFile]
  BY <1>0, WorkTyped DEF OpenCompactionOutputFile, Background
<1>2. /\ UNCHANGED <<logs, manifests, current, phase, lastSequence, logNumber, manifestFile,
                     version, mem, imm, logfile, torn, doubtful, bgError, writers, state, room,
                     group, scheduled, edit, reader, faults>>
      /\ nextFile' = nextFile + 1 /\ pending' = pending \cup {nextFile}
      /\ tables' = Put(tables, nextFile, {})
  BY DEF OpenCompactionOutputFile, NewOutput, memtables, queue
<1>3. IsFileMap(tables', EntrySets) /\ DOMAIN tables' = DOMAIN tables \cup {nextFile}
  <2>1. IsFileMap(tables, EntrySets)  BY <1>0 DEF Types, MoreTypes
  <2>2. IsFileMap(Put(tables, nextFile, {}), EntrySets)
    BY <1>0, <2>1, PutTyped, NoEntries
  <2> QED  BY <1>2, <2>2 DEF Put
<1>4. Types'
  <2>1. bg' \in Background  BY <1>0, <1>1, WorkTyped DEF Background
  <2>2. IsFileMap(tables', SUBSET Entries)  BY <1>3, FileMapWider DEF EntrySets
  <2>3. nextFile' \in Nat /\ pending' \subseteq Nat  BY <1>0, <1>2 DEF Types, TypeOK
  <2> QED  BY <1>0, <1>2, <1>3, <2>1, <2>2, <2>3 DEF Types, TypeOK, MoreTypes
<1>5. QueueInv'  BY <1>2 DEF IInv, QueueInv
<1>6. DescriptorsInv'  BY <1>0, <1>2, <1>3 DEF FilesInv, DescriptorsInv, Records
<1>7. OpeningInv'  BY <1>0, <1>2 DEF OpeningInv, Opening
<1>8. RunningInv'
  <2>1. RunningInv  BY <1>0 DEF FilesInv
  <2>2. /\ logNumber <= logfile' /\ logfile' < nextFile' /\ nextFile <= nextFile'
        /\ nextFile' \in Nat /\ \A n \in pending' : n < nextFile'
    BY <1>0, <1>2, <2>1, NumbersTyped DEF RunningInv
  <2>3. bg'.flush < nextFile' /\ bg'.output < nextFile'
    BY <1>0, <1>1, <1>2, <2>1, WorkTyped DEF RunningInv
  <2>4. bg'.inputs \subseteq bg.inputs  BY <1>1
  <2> QED  BY <1>0, <1>2, <1>3, <2>1, <2>2, <2>3, <2>4, RunningKept
<1>9. AgreeInv'
  BY <1>0, <1>1, <1>2 DEF FilesInv, AgreeInv, Running, Records
<1>10. StagesInv'
  BY <1>0, <1>1, <1>2, <1>3 DEF FilesInv, StagesInv
<1>11. EditInv'  BY <1>1 DEF EditInv
<1>12. Quiet'  BY <1>0, <1>2, OpenIsNotQuiet
<1> QED  BY <1>4, <1>5, <1>6, <1>7, <1>8, <1>9, <1>10, <1>11, <1>12 DEF IInv, FilesInv

\* finishing its output,
LEMMA FinishCompactionOutputFileKeeps ==
  ASSUME IInv, FinishCompactionOutputFile
  PROVE  IInv'
<1>0. Types /\ FilesInv /\ phase = "open" /\ Running /\ ~Opening /\ bg.at = "work"
      /\ bg.output \in DOMAIN tables
  BY AtWorkIsOpen DEF IInv, FinishCompactionOutputFile
<1>u. UNCHANGED <<logs, manifests, current, phase, lastSequence, nextFile, logNumber,
                  manifestFile, mem, logfile, torn, doubtful, writers, room, group, edit, reader>>
  BY DEF FinishCompactionOutputFile, numbers
<1>1. CASE BackgroundFails /\ UNCHANGED tables
  BY <1>0, <1>1, <1>u, FailureKeeps
<1>2. CASE ~ (BackgroundFails /\ UNCHANGED tables)
  <2>1. /\ tables' = Put(tables, bg.output, Contents(Numbers(bg.inputs)))
        /\ UNCHANGED <<version, imm, pending, bgError, bg, scheduled, state, faults>>
    BY <1>2 DEF FinishCompactionOutputFile
  <2>2. IsFileMap(tables', EntrySets) /\ DOMAIN tables' = DOMAIN tables
    <3>1. IsFileMap(tables, EntrySets)  BY <1>0 DEF Types, MoreTypes
    <3>2. Contents(Numbers(bg.inputs)) \in EntrySets /\ bg.output \in Nat
      BY <1>0, ContentsTyped, WorkTyped
    <3>3. IsFileMap(Put(tables, bg.output, Contents(Numbers(bg.inputs))), EntrySets)
      BY <3>1, <3>2, PutTyped
    <3>4. DOMAIN Put(tables, bg.output, Contents(Numbers(bg.inputs))) = DOMAIN tables
      BY <1>0 DEF Put
    <3> QED  BY <2>1, <3>3, <3>4
  <2>3. IsFileMap(tables', SUBSET Entries)
    BY <2>2, FileMapWider DEF EntrySets
  <2>4. Types'  BY <1>0, <1>u, <2>1, <2>2, <2>3 DEF Types, TypeOK, MoreTypes
  <2>5. QueueInv'  BY <1>u, <2>1 DEF IInv, QueueInv
  <2>6. DescriptorsInv'  BY <1>0, <1>u, <2>2 DEF FilesInv, DescriptorsInv, Records
  <2>7. OpeningInv'  BY <1>0, <1>u DEF OpeningInv, Opening
  <2>8. RunningInv'
    BY <1>0, <1>u, <2>1, <2>2 DEF FilesInv, RunningInv, Running, Records
  <2>9. AgreeInv'  BY <1>0, <1>u, <2>1 DEF FilesInv, AgreeInv, Running, Records
  <2>10. StagesInv'  BY <1>0, <2>1, <2>2 DEF FilesInv, StagesInv
  <2>11. EditInv'  BY <1>0, <2>1 DEF EditInv
  <2>12. Quiet'  BY <1>0, <1>u, OpenIsNotQuiet
  <2> QED
    BY <2>4, <2>5, <2>6, <2>7, <2>8, <2>9, <2>10, <2>11, <2>12 DEF IInv, FilesInv
<1> QED  BY <1>1, <1>2

\* and making the edit that installs it.
LEMMA InstallCompactionResultsKeeps ==
  ASSUME IInv, InstallCompactionResults
  PROVE  IInv'
<1>0. Types /\ FilesInv /\ phase = "open" /\ Running /\ ~Opening /\ bg.at = "work"
      /\ bg.output # 0
  BY AtWorkIsOpen DEF IInv, InstallCompactionResults
<1>1. /\ edit' = [add |-> {<<1, bg.output>>}, del |-> bg.inputs,
                  log |-> logNumber, next |-> nextFile, last |-> lastSequence]
      /\ bg' = [bg EXCEPT !.at = "append"]
      /\ UNCHANGED <<logs, tables, manifests, current, phase, lastSequence, nextFile, logNumber,
                     manifestFile, version, mem, imm, logfile, torn, doubtful, pending, bgError,
                     writers, state, room, group, scheduled, reader, faults>>
  BY DEF InstallCompactionResults, directory, numbers, memtables, queue
<1>2. /\ bg' \in Background /\ bg'.at = "append"
      /\ bg'.flush = bg.flush /\ bg'.output = bg.output /\ bg'.inputs = bg.inputs
  BY <1>0, <1>1, WorkTyped DEF Background
<1>3. Types'
  <2>1. edit' \in Edit
    BY <1>0, <1>1, NumbersTyped, WorkTyped DEF Edit
  <2> QED  BY <1>0, <1>1, <1>2, <2>1 DEF Types, TypeOK, MoreTypes
<1>4. QueueInv'  BY <1>1 DEF IInv, QueueInv
<1>5. DescriptorsInv'  BY <1>0, <1>1 DEF FilesInv, DescriptorsInv, Records
<1>6. OpeningInv'  BY <1>0, <1>1 DEF OpeningInv, Opening
<1>7. RunningInv'
  BY <1>0, <1>1, <1>2 DEF FilesInv, RunningInv, Running, Records
<1>8. AgreeInv'
  BY <1>0, <1>1, <1>2 DEF FilesInv, AgreeInv, Running, Records
<1>9. StagesInv'
  <2>1. StagesInv /\ imm' = imm /\ pending' = pending /\ tables' = tables
    BY <1>0, <1>1 DEF FilesInv
  <2> QED  BY <1>0, <1>2, <2>1 DEF StagesInv
<1>10. EditInv'
  <2>1. StagesInv /\ RunningInv  BY <1>0 DEF FilesInv
  <2>2. bg.output \in DOMAIN tables /\ bg.output < nextFile
    BY <1>0, <2>1 DEF StagesInv, RunningInv
  <2>3. edit'.add = {<<1, bg.output>>} /\ edit'.log = logNumber /\ edit'.next = nextFile
    BY <1>1
  <2>4. \A n \in Numbers(edit'.add) : n = bg.output
    BY <2>3 DEF Numbers
  <2>5. /\ nextFile \in Nat /\ nextFile' = nextFile /\ logfile' = logfile /\ tables' = tables
        /\ Records' = Records
    BY <1>0, <1>1, NumbersTyped DEF Records
  <2>6. logNumber <= logfile /\ \A i \in DOMAIN Records : Records[i].next <= nextFile
    BY <1>0, <2>1 DEF RunningInv
  <2>7. \A n \in Numbers(edit'.add) : n \in DOMAIN tables' /\ n < edit'.next
    BY <2>2, <2>3, <2>4, <2>5
  <2>8. /\ edit'.next <= nextFile' /\ edit'.log <= logfile'
        /\ \A i \in DOMAIN Records' : Records'[i].next <= edit'.next
    BY <2>3, <2>5, <2>6
  <2> QED  BY <1>2, <2>7, <2>8 DEF EditInv
<1>11. Quiet'  BY <1>0, <1>1, OpenIsNotQuiet
<1> QED  BY <1>3, <1>4, <1>5, <1>6, <1>7, <1>8, <1>9, <1>10, <1>11 DEF IInv, FilesInv

\* Appending an edit to the descriptor keeps the invariant,
LEMMA AppendToDescriptorKeeps ==
  ASSUME IInv, AppendToDescriptor
  PROVE  IInv'
<1>0. Types /\ FilesInv /\ phase = "open" /\ Running /\ ~Opening /\ bg.at = "append"
  BY AtWorkIsOpen DEF IInv, AppendToDescriptor
<1>u. UNCHANGED <<logs, tables, current, phase, lastSequence, nextFile, logNumber, manifestFile,
                  mem, logfile, torn, doubtful, writers, room, group, edit, reader>>
  BY DEF AppendToDescriptor, numbers
<1>1. CASE BackgroundFails /\ manifests' \in {manifests, Record}
  BY <1>0, <1>1, <1>u, FailureKeeps
<1>2. CASE ~ (BackgroundFails /\ manifests' \in {manifests, Record})
  <2>1. /\ manifests' = Record
        /\ bg' = [bg EXCEPT !.at = "sync"]
        /\ UNCHANGED <<version, imm, pending, bgError, scheduled, state, faults>>
    BY <1>2 DEF AppendToDescriptor
  <2>2. /\ bg' \in Background /\ bg'.at = "sync"
        /\ bg'.flush = bg.flush /\ bg'.output = bg.output /\ bg'.inputs = bg.inputs
    BY <1>0, <2>1, WorkTyped DEF Background
  <2>3. /\ IsFileMap(manifests', Seq(Described) \ {<<>>}) /\ current' \in DOMAIN manifests'
        /\ Len(Records') = Len(Records) + 1
        /\ \A i \in 1..Len(Records) : Records'[i] = Records[i]
        /\ Records'[Len(Records) + 1] = Apply(Descriptor, edit)
    BY <1>0, <1>u, <2>1, RecordTyped
  <2>4. IsFileMap(manifests', Seq(Described))  BY <2>3, FileMapWider
  <2>5. Types'  BY <1>0, <1>u, <2>1, <2>2, <2>3, <2>4 DEF Types, TypeOK, MoreTypes
  <2>6. QueueInv'  BY <1>u, <2>1 DEF IInv, QueueInv
  <2>7. DescriptorsInv' /\ \A i \in DOMAIN Records' : Records'[i].next <= edit.next
    BY <1>0, <1>u, <2>1, RecordKeepsDescriptors
  <2>8. OpeningInv'  BY <1>0, <1>u DEF OpeningInv, Opening
  <2>n. /\ edit.next <= nextFile /\ edit.next \in Nat /\ nextFile \in Nat
        /\ \A i \in DOMAIN Records' : Records'[i].next \in Nat
    <3>1. Types' => \A i \in DOMAIN Records' : Records'[i].next \in Nat
      <4>1. ASSUME Types' PROVE \A i \in DOMAIN Records' : Records'[i].next \in Nat
        <5>1. Records' \in Seq(Described)  BY <2>4, <2>3, FileMapHolds DEF Records
        <5>2. \A i \in DOMAIN Records' : Records'[i] \in Described  BY <5>1
        <5> QED  BY <5>2 DEF Described
      <4> QED  BY <4>1
    <3> QED  BY <1>0, <2>5, <3>1, WorkTyped, NumbersTyped DEF FilesInv, EditInv
  <2>9. RunningInv'
    <3>1. RunningInv  BY <1>0 DEF FilesInv
    <3>2. \A i \in DOMAIN Records' : Records'[i].next <= nextFile'
      BY <1>u, <2>7, <2>n
    <3>3. bg'.flush < nextFile' /\ bg'.output < nextFile' /\ bg'.inputs = bg.inputs
      BY <1>0, <1>u, <2>2, <3>1 DEF RunningInv
    <3> QED  BY <1>0, <1>u, <2>1, <3>1, <3>2, <3>3 DEF RunningInv, Running
  <2>10. AgreeInv'
    <3>1. Len(Records) \in Nat /\ Len(Records) >= 1  BY <1>0, RecordsTyped
    <3>2. Records'[1] = Records[1]  BY <2>3, <3>1
    <3>3. UNCHANGED <<version, bgError, logNumber, phase>>  BY <1>u, <2>1
    <3> QED  BY <1>0, <2>2, <2>3, <3>1, <3>2, <3>3, SMTT(60) DEF FilesInv, AgreeInv, Running
  <2>11. StagesInv'
    <3>1. StagesInv /\ imm' = imm /\ pending' = pending /\ tables' = tables
      BY <1>0, <1>u, <2>1 DEF FilesInv
    <3> QED  BY <1>0, <2>2, <3>1 DEF StagesInv
  <2>12. EditInv'
    <3>1. EditInv  BY <1>0 DEF FilesInv
    <3>2. Len(Records) \in Nat /\ Len(Records) >= 1  BY <1>0, RecordsTyped
    <3>3. Descriptor = Records[Len(Records)]  BY <1>0, RecordsTyped
    <3>4. /\ Len(Records') > 1 /\ Records'[Len(Records') - 1] = Descriptor
          /\ Records'[Len(Records')] = Apply(Descriptor, edit)
      BY <2>3, <3>2, <3>3
    <3>5. Descriptor' = Records'[Len(Records')]
      BY DEF Descriptor, Records, Last
    <3>6. Descriptor' = Apply(Records'[Len(Records') - 1], edit')
      BY <1>u, <3>4, <3>5
    <3> QED  BY <1>0, <1>u, <2>7, <3>1, <3>4, <3>6 DEF EditInv
  <2>13. Quiet'  BY <1>0, <1>u, OpenIsNotQuiet
  <2> QED
    BY <2>5, <2>6, <2>7, <2>8, <2>9, <2>10, <2>11, <2>12, <2>13 DEF IInv, FilesInv
<1> QED  BY <1>1, <1>2

\* and so does syncing it, with the version installed or the error kept.
LEMMA SyncDescriptorKeeps ==
  ASSUME IInv, SyncDescriptor
  PROVE  IInv'
<1>0. Types /\ FilesInv /\ phase = "open" /\ Running /\ ~Opening /\ bg.at = "sync"
  BY AtWorkIsOpen DEF IInv, SyncDescriptor
<1>u. UNCHANGED <<logs, tables, current, phase, lastSequence, nextFile, manifestFile, mem,
                  logfile, torn, writers, room, group, edit, reader>>
  BY DEF SyncDescriptor
<1>1. CASE BackgroundFails /\ UNCHANGED <<manifests, logNumber, doubtful>>
  BY <1>0, <1>1, <1>u, FailureKeeps
<1>2. CASE ~ (BackgroundFails /\ UNCHANGED <<manifests, logNumber, doubtful>>)
  <2>1. /\ manifests' = [manifests EXCEPT ![manifestFile] = <<Last(@)>>]
        /\ version' = (version \ edit.del) \cup edit.add
        /\ logNumber' = edit.log
        /\ imm' = (IF bg.flush # 0 THEN {} ELSE imm)
        /\ doubtful' \subseteq doubtful
        /\ pending' = pending \ {OwnOutput}
        /\ bg' = [bg EXCEPT !.at = "clean", !.inputs = IF bg.flush # 0 THEN @ ELSE {}]
        /\ UNCHANGED <<bgError, scheduled, state, faults>>
    BY <1>2 DEF SyncDescriptor
  <2>2. /\ bg' \in Background /\ bg'.at = "clean"
        /\ bg'.flush = bg.flush /\ bg'.output = bg.output
        /\ bg'.inputs = (IF bg.flush # 0 THEN bg.inputs ELSE {})
    BY <1>0, <2>1, WorkTyped DEF Background
  <2>3. manifestFile = current  BY <1>0 DEF FilesInv, RunningInv
  <2>4. /\ Descriptor \in Described /\ Descriptor.next \in Nat
        /\ Descriptor = Records[Len(Records)] /\ Len(Records) \in DOMAIN Records
        /\ Len(Records) \in Nat
    BY <1>0, RecordsTyped
  <2>5. /\ IsFileMap(manifests', Seq(Described) \ {<<>>}) /\ current' \in DOMAIN manifests'
        /\ Records' = <<Descriptor>>
    <3>1. manifests' = [manifests EXCEPT ![current] = <<Descriptor>>]
      BY <2>1, <2>3 DEF Descriptor
    <3>2. IsFileMap(manifests, Seq(Described) \ {<<>>}) /\ current \in DOMAIN manifests
      BY <1>0 DEF Types, TypeOK, MoreTypes
    <3>3. <<Descriptor>> \in Seq(Described) \ {<<>>}  BY <2>4
    <3>4. IsFileMap([manifests EXCEPT ![current] = <<Descriptor>>], Seq(Described) \ {<<>>})
      BY <3>2, <3>3, ExceptTyped
    <3> QED  BY <1>u, <3>1, <3>2, <3>4 DEF Records
  <2>6. Len(Records') = 1 /\ Records'[1] = Descriptor /\ DOMAIN Records' = {1}
    BY <2>5
  <2>7. Types'
    <3>1. IsFileMap(manifests', Seq(Described))  BY <2>5, FileMapWider
    <3>2. version' \subseteq Nat \X Nat
      <4>1. edit.add \subseteq Nat \X Nat  BY <1>0, WorkTyped DEF Edit
      <4> QED  BY <1>0, <2>1, <4>1 DEF Types, TypeOK
    <3>3. logNumber' \in Nat  BY <1>0, <2>1, WorkTyped
    <3>4. imm' \subseteq imm /\ pending' \subseteq pending /\ doubtful' \subseteq doubtful  BY <2>1
    <3>5. pending' \subseteq Nat /\ imm' \subseteq EntrySets /\ imm' \subseteq SUBSET Entries
          /\ doubtful' \subseteq Batches /\ \A m, n \in imm' : m = n
      BY <1>0, <3>4 DEF Types, TypeOK, MoreTypes
    <3>6. UNCHANGED <<bgError, scheduled, state, faults>>  BY <2>1
    <3>7. TypeOK'
      BY <1>0, <1>u, <2>2, <2>5, <3>1, <3>2, <3>3, <3>5, <3>6, SMTT(60) DEF Types, TypeOK
    <3>8. MoreTypes'  BY <1>0, <1>u, <2>5, <3>5 DEF Types, MoreTypes
    <3> QED  BY <3>7, <3>8 DEF Types
  <2>8. QueueInv'  BY <1>u, <2>1 DEF IInv, QueueInv
  <2>9. DescriptorsInv'
    <3>1. DescriptorsInv  BY <1>0 DEF FilesInv
    <3> QED  BY <1>u, <2>4, <2>6, <3>1 DEF DescriptorsInv
  <2>10. OpeningInv'  BY <1>0, <1>u DEF OpeningInv, Opening
  <2>e. /\ \A n \in Numbers(edit.add) : n \in DOMAIN tables /\ n < edit.next
        /\ edit.next <= nextFile /\ edit.log <= logfile
        /\ Len(Records) > 1 /\ Descriptor = Apply(Records[Len(Records) - 1], edit)
    BY <1>0 DEF FilesInv, EditInv
  <2>11. RunningInv'
    <3>1. RunningInv  BY <1>0 DEF FilesInv
    <3>2. \A n \in Numbers(version') : n \in DOMAIN tables' /\ n < nextFile'
      <4>1. Numbers(version') \subseteq Numbers(version) \cup Numbers(edit.add)
        BY <2>1 DEF Numbers
      <4>2. edit.next \in Nat /\ nextFile \in Nat /\ \A n \in Numbers(edit.add) : n \in Nat
        BY <1>0, WorkTyped, NumbersTyped
      <4>3. \A n \in Numbers(edit.add) : n \in DOMAIN tables /\ n < nextFile
        BY <2>e, <4>2
      <4> QED  BY <1>0, <1>u, <3>1, <4>1, <4>3 DEF RunningInv
    <3>3. Numbers(bg'.inputs) \subseteq Numbers(bg.inputs)  BY <2>2 DEF Numbers
    <3>4. bg'.flush < nextFile' /\ bg'.output < nextFile'
      BY <1>0, <1>u, <2>2, <3>1 DEF RunningInv
    <3>5. logNumber' <= logfile'  BY <1>u, <2>1, <2>e
    <3>6. \A i \in DOMAIN Records' : Records'[i].next <= nextFile'
      BY <1>0, <1>u, <2>4, <2>6, <3>1 DEF RunningInv
    <3>7. pending' \subseteq pending  BY <2>1
    <3> QED  BY <1>0, <1>u, <3>1, <3>2, <3>3, <3>4, <3>5, <3>6, <3>7 DEF RunningInv, Running
  <2>12. AgreeInv'
    <3>1. SUFFICES ASSUME ~bgError PROVE Descriptor.files = version' /\ Descriptor.log = logNumber'
      BY <2>1, <2>2, <2>6 DEF AgreeInv
    <3>2. /\ Len(Records) = 2 /\ Records[1].files = version
      BY <1>0, <3>1 DEF FilesInv, AgreeInv
    <3>3. Descriptor = Apply(Records[1], edit)  BY <2>e, <3>2
    <3> QED  BY <2>1, <3>2, <3>3 DEF Apply
  <2>13. StagesInv'
    <3>1. StagesInv  BY <1>0 DEF FilesInv
    <3>2. bg.flush # 0 => OwnOutput # bg.output  BY <3>1 DEF StagesInv, OwnOutput
    <3>3. bg.flush = 0 => bg.output # 0  BY <1>0, <3>1 DEF StagesInv
    <3>4. pending' = pending \ {OwnOutput} /\ tables' = tables  BY <1>u, <2>1
    <3> QED  BY <1>0, <2>2, <3>1, <3>2, <3>3, <3>4 DEF StagesInv
  <2>14. EditInv'  BY <2>2 DEF EditInv
  <2>15. Quiet'  BY <1>0, <1>u, OpenIsNotQuiet
  <2> QED
    BY <2>7, <2>8, <2>9, <2>10, <2>11, <2>12, <2>13, <2>14, <2>15 DEF IInv, FilesInv
<1> QED  BY <1>1, <1>2

\* Deleting the obsolete files leaves everything the descriptor, the version and the
\* readers need.
LEMMA DeletionsTyped ==
  ASSUME Types, DeleteObsoleteFiles
  PROVE  /\ IsFileMap(logs', Log) /\ 0 \notin DOMAIN logs'
         /\ \A l \in DOMAIN logs' : /\ l \in Nat /\ logs'[l].sound \in 0..Len(logs'[l].records)
                                    /\ logs'[l].synced \in 0..logs'[l].sound
         /\ IsFileMap(tables', EntrySets) /\ IsFileMap(tables', SUBSET Entries)
         /\ IsFileMap(manifests', Seq(Described) \ {<<>>}) /\ IsFileMap(manifests', Seq(Described))
         /\ DOMAIN tables' = DOMAIN tables \ ObsoleteTables
<1>1. logs' = Drop(logs, ObsoleteLogs) /\ tables' = Drop(tables, ObsoleteTables)
      /\ manifests' = Drop(manifests, ObsoleteManifests)
  BY DEF DeleteObsoleteFiles
<1>2. /\ IsFileMap(logs, Log) /\ 0 \notin DOMAIN logs /\ IsFileMap(tables, EntrySets)
      /\ IsFileMap(manifests, Seq(Described) \ {<<>>})
  BY DEF Types, MoreTypes
<1>3. IsFileMap(logs', Log) /\ 0 \notin DOMAIN logs'
  <2>1. IsFileMap(Drop(logs, ObsoleteLogs), Log)  BY <1>2, DropTyped
  <2>2. DOMAIN Drop(logs, ObsoleteLogs) = DOMAIN logs \ ObsoleteLogs  BY DropIs
  <2>3. 0 \notin DOMAIN Drop(logs, ObsoleteLogs)
    <3>1. 0 \notin DOMAIN logs  BY <1>2
    <3> QED  BY <2>2, <3>1
  <2> QED  BY <1>1, <2>1, <2>3
<1>4. IsFileMap(tables', EntrySets) /\ DOMAIN tables' = DOMAIN tables \ ObsoleteTables
  <2>1. IsFileMap(Drop(tables, ObsoleteTables), EntrySets)  BY <1>2, DropTyped
  <2>2. DOMAIN Drop(tables, ObsoleteTables) = DOMAIN tables \ ObsoleteTables  BY DropIs
  <2> QED  BY <1>1, <2>1, <2>2
<1>5. IsFileMap(manifests', Seq(Described) \ {<<>>})
  BY <1>1, <1>2, DropTyped
<1>6. IsFileMap(tables', SUBSET Entries)  BY <1>4, FileMapWider DEF EntrySets
<1>7. IsFileMap(manifests', Seq(Described))  BY <1>5, FileMapWider
<1> QED  BY <1>3, <1>4, <1>5, <1>6, <1>7, LogsTyped

\* DeleteObsoleteFiles keeps every file a record of the descriptor names.
LEMMA DeletionsKeep ==
  ASSUME Types, FilesInv, Running, bg.at # "sync", DeleteObsoleteFiles
  PROVE  /\ current \in DOMAIN manifests' /\ manifests'[current] = Records
         /\ \A i \in DOMAIN Records : Numbers(Records[i].files) \subseteq DOMAIN tables'
         /\ Numbers(version) \cup Numbers(bg.inputs) \cup UNION reader \subseteq DOMAIN tables'
         /\ pending \cap DOMAIN tables \subseteq DOMAIN tables'
<1>0. /\ manifestFile = current /\ current \in Nat /\ current \in DOMAIN manifests
      /\ DescriptorsInv /\ RunningInv /\ AgreeInv
  BY NumbersTyped DEF Types, TypeOK, FilesInv, RunningInv
<1>1. DOMAIN tables' = DOMAIN tables \ ObsoleteTables  BY DeletionsTyped
<1>2. current \in DOMAIN manifests' /\ manifests'[current] = Records
  <2>1. current \notin ObsoleteManifests  BY <1>0 DEF ObsoleteManifests
  <2>2. manifests' = Drop(manifests, ObsoleteManifests)  BY DEF DeleteObsoleteFiles
  <2> QED  BY <1>0, <2>1, <2>2 DEF Drop, Restrict, Records
<1>3. Numbers(version) \cup Numbers(bg.inputs) \cup UNION reader \subseteq DOMAIN tables'
  BY <1>0, <1>1 DEF RunningInv, ObsoleteTables, Live
<1>4. pending \cap DOMAIN tables \subseteq DOMAIN tables'
  BY <1>1 DEF ObsoleteTables, Live
<1>5. \A i \in DOMAIN Records : Numbers(Records[i].files) \subseteq DOMAIN tables'
  <2>1. CASE bgError
    BY <1>0, <1>1, <2>1 DEF DescriptorsInv, ObsoleteTables
  <2>2. CASE ~bgError
    <3>1. Len(Records) = 1 /\ Records[1].files = version  BY <1>0, <2>2 DEF AgreeInv
    <3>2. DOMAIN Records = 1..Len(Records)  BY RecordsTyped
    <3> QED  BY <1>3, <3>1, <3>2
  <2> QED  BY <2>1, <2>2
<1> QED  BY <1>2, <1>3, <1>4, <1>5

\* Deleting what is obsolete keeps the invariant.
LEMMA CleanUpKeeps ==
  ASSUME IInv, CleanUp
  PROVE  IInv'
<1>0. Types /\ FilesInv /\ phase = "open" /\ Running /\ ~Opening /\ bg.at = "clean"
  BY AtWorkIsOpen DEF IInv, CleanUp
<1>u. /\ UNCHANGED <<phase, lastSequence, nextFile, logNumber, manifestFile, version, mem, imm,
                     logfile, torn, doubtful, pending, bgError, writers, room, group, edit,
                     reader, faults, current>>
      /\ DeleteObsoleteFiles /\ EndOfWork
  BY DEF CleanUp, DeleteObsoleteFiles, numbers
<1>1. /\ state' \in {state, SignalAll(state)} /\ scheduled' \in BOOLEAN /\ bg' \in Background
      /\ \/ bg' = Idle
         \/ /\ bg.flush # 0 /\ bg.inputs # {}
            /\ bg' = [at |-> "work", flush |-> 0, inputs |-> bg.inputs, output |-> bg.output]
  BY <1>u, EndOfWorkIs, EndOfWorkTyped
<1>2. QueueInv' /\ state' \in [Writes -> WriterStates]
  BY <1>1, <1>u, SignalKeeps
<1>3. /\ current \in DOMAIN manifests' /\ manifests'[current] = Records
      /\ \A i \in DOMAIN Records : Numbers(Records[i].files) \subseteq DOMAIN tables'
      /\ Numbers(version) \cup Numbers(bg.inputs) \cup UNION reader \subseteq DOMAIN tables'
      /\ pending \cap DOMAIN tables \subseteq DOMAIN tables'
  BY <1>0, <1>u, DeletionsKeep
<1>4. Types'
  <2>1. /\ IsFileMap(logs', Log) /\ 0 \notin DOMAIN logs'
        /\ \A l \in DOMAIN logs' : /\ l \in Nat /\ logs'[l].sound \in 0..Len(logs'[l].records)
                                   /\ logs'[l].synced \in 0..logs'[l].sound
        /\ IsFileMap(tables', EntrySets) /\ IsFileMap(tables', SUBSET Entries)
        /\ IsFileMap(manifests', Seq(Described) \ {<<>>}) /\ IsFileMap(manifests', Seq(Described))
    BY <1>0, <1>u, DeletionsTyped
  <2> QED  BY <1>0, <1>u, <1>1, <1>2, <1>3, <2>1 DEF Types, TypeOK, MoreTypes
<1>5. Records' = Records  BY <1>u, <1>3 DEF Records
<1>6. DescriptorsInv'
  <2>1. DescriptorsInv  BY <1>0 DEF FilesInv
  <2> QED  BY <1>u, <1>3, <1>5, <2>1 DEF DescriptorsInv
<1>7. OpeningInv'  BY <1>0, <1>u DEF OpeningInv, Opening
<1>8. RunningInv'
  <2>1. RunningInv  BY <1>0 DEF FilesInv
  <2>2. Numbers(bg'.inputs) \subseteq Numbers(bg.inputs)
    BY <1>1 DEF Idle, Numbers
  <2>3. bg'.flush < nextFile' /\ bg'.output < nextFile'
    BY <1>0, <1>1, <1>u, <2>1, NumbersTyped DEF RunningInv, Idle
  <2> QED  BY <1>0, <1>u, <1>3, <1>5, <2>1, <2>2, <2>3 DEF RunningInv, Running
<1>9. AgreeInv'
  <2>1. bg'.at # "sync"  BY <1>1 DEF Idle
  <2>2. UNCHANGED <<phase, bgError, version, logNumber>>  BY <1>u
  <2> QED  BY <1>0, <1>5, <2>1, <2>2 DEF FilesInv, AgreeInv, Running
<1>10. StagesInv'
  <2>1. StagesInv  BY <1>0 DEF FilesInv
  <2>2. CASE bg' = Idle  BY <2>2 DEF StagesInv, Idle
  <2>3. CASE /\ bg.flush # 0 /\ bg.inputs # {}
             /\ bg' = [at |-> "work", flush |-> 0, inputs |-> bg.inputs, output |-> bg.output]
    BY <1>3, <1>u, <2>1, <2>3 DEF StagesInv
  <2> QED  BY <1>1, <2>2, <2>3
<1>11. EditInv'  BY <1>1 DEF EditInv, Idle
<1>12. Quiet'  BY <1>0, <1>u, OpenIsNotQuiet
<1> QED  BY <1>2, <1>4, <1>6, <1>7, <1>8, <1>9, <1>10, <1>11, <1>12 DEF IInv, FilesInv

------------------------------------------------------------------------------
(***************************************************************************)
(* Readers, the end of the process, and Open keep the invariant.           *)
(***************************************************************************)
\* Taking or leaving a version keeps the invariant.
LEMMA ReaderKeeps ==
  ASSUME IInv, RefVersion \/ UnrefVersion
  PROVE  IInv'
<1>0. Types /\ FilesInv /\ QueueInv  BY DEF IInv
<1>1. UNCHANGED <<logs, tables, manifests, current, phase, lastSequence, nextFile, logNumber,
                  manifestFile, version, mem, imm, logfile, torn, doubtful, pending, bgError,
                  writers, state, room, group, scheduled, bg, edit, faults>>
  BY DEF RefVersion, UnrefVersion, directory, numbers, memtables, queue
<1>2. (phase = "open" /\ reader' = {Numbers(version)}) \/ reader' = {}
  BY DEF RefVersion, UnrefVersion
<1>3. Types'
  <2>1. Numbers(version) \in SUBSET Nat  BY <1>0, NumbersTyped
  <2>2. reader' \subseteq SUBSET Nat  BY <1>2, <2>1
  <2> QED  BY <1>0, <1>1, <2>2 DEF Types, TypeOK, MoreTypes
<1>4. QueueInv'  BY <1>0, <1>1 DEF QueueInv
<1>5. DescriptorsInv'  BY <1>0, <1>1 DEF FilesInv, DescriptorsInv, Records
<1>6. OpeningInv'
  BY <1>0, <1>1 DEF FilesInv, OpeningInv, Opening, Descriptor, Records
<1>7. RunningInv'
  <2>1. RunningInv  BY <1>0 DEF FilesInv
  <2>2. UNION reader' \subseteq Numbers(version)  BY <1>2
  <2> QED  BY <1>1, <2>1, <2>2 DEF RunningInv, Running, Records
<1>8. AgreeInv'  BY <1>0, <1>1 DEF FilesInv, AgreeInv, Running, Records
<1>9. StagesInv'  BY <1>0, <1>1 DEF FilesInv, StagesInv
<1>10. EditInv'  BY <1>0, <1>1 DEF FilesInv, EditInv, Descriptor, Records
<1>11. Quiet'  BY <1>1, <1>2 DEF IInv, Quiet
<1> QED  BY <1>3, <1>4, <1>5, <1>6, <1>7, <1>8, <1>9, <1>10, <1>11 DEF IInv, FilesInv

\* Reading the descriptor at the start keeps the invariant,
LEMMA RecoverKeeps ==
  ASSUME IInv, Recover
  PROVE  IInv'
<1>0. Types /\ FilesInv /\ QueueInv /\ Quiet /\ phase = "down" /\ phase' = "replay"
  BY DEF IInv, Recover
<1>1. /\ lastSequence' = Descriptor.last /\ nextFile' = Descriptor.next + 1
      /\ logNumber' = Descriptor.log /\ manifestFile' = Descriptor.next
      /\ version' = Descriptor.files
  BY DEF Recover
<1>2. UNCHANGED <<logs, tables, manifests, current, mem, imm, logfile, torn, doubtful, pending,
                  bgError, writers, state, room, group, scheduled, bg, edit, reader, faults>>
  BY DEF Recover, directory, memtables, queue
<1>3. /\ Descriptor \in Described /\ Descriptor.next \in Nat /\ Descriptor.log \in Nat
      /\ Descriptor.last \in Nat
  BY <1>0, RecordsTyped
<1>4. Types'
  <2>1. version' \subseteq Nat \X Nat  BY <1>1, <1>3 DEF Described
  <2>2. /\ lastSequence' \in Nat /\ nextFile' \in Nat /\ logNumber' \in Nat
        /\ manifestFile' \in Nat
    BY <1>1, <1>3
  <2> QED  BY <1>0, <1>2, <2>1, <2>2 DEF Types, TypeOK, MoreTypes
<1>5. QueueInv'  BY <1>0, <1>2 DEF QueueInv
<1>6. DescriptorsInv'  BY <1>0, <1>2 DEF FilesInv, DescriptorsInv, Records
<1>7. OpeningInv'
  <2>1. Descriptor' = Descriptor  BY <1>2 DEF Descriptor
  <2>2. edit' = NoEdit /\ edit'.del = {} /\ edit'.add = {}
    BY <1>0, <1>2 DEF Quiet, NoEdit
  <2>3. Numbers(edit'.add) = {}  BY <2>2 DEF Numbers
  <2> QED  BY <1>0, <1>1, <1>3, <2>1, <2>2, <2>3 DEF OpeningInv
<1>8. RunningInv' /\ AgreeInv'  BY <1>0 DEF RunningInv, AgreeInv, Running
<1>9. StagesInv'  BY <1>0, <1>2 DEF FilesInv, StagesInv
<1>10. EditInv'  BY <1>0 DEF EditInv
<1>11. Quiet'  BY <1>0, <1>2 DEF Quiet
<1> QED  BY <1>4, <1>5, <1>6, <1>7, <1>8, <1>9, <1>10, <1>11 DEF IInv, FilesInv

\* The largest sequence number of a log's entries or before.
LEMMA NewestIsTyped ==
  ASSUME Types, NEW s \in EntrySets
  PROVE  LET numbersOf == {e[1] : e \in s} \cup {lastSequence}
         IN  /\ Max(numbersOf) \in Nat /\ lastSequence <= Max(numbersOf)
             /\ \A e \in s : e[1] <= Max(numbersOf)
<1> DEFINE numbersOf == {e[1] : e \in s} \cup {lastSequence}
           first == [e \in s |-> e[1]]
<1>1. s \subseteq Nat \X Batches /\ IsFiniteSet(s) /\ lastSequence \in Nat
  BY NumbersTyped DEF EntrySets, Entries
<1>2. first \in Surjection(s, {e[1] : e \in s})
  BY DEF Surjection
<1>3. IsFiniteSet({e[1] : e \in s})
  BY <1>1, <1>2, FS_Surjection
<1>4. IsFiniteSet(numbersOf)
  BY <1>3, FS_AddElement
<1>5. numbersOf \in SUBSET Nat /\ numbersOf # {}
  BY <1>1
<1>6. lastSequence \in numbersOf /\ \A e \in s : e[1] \in numbersOf
  OBVIOUS
<1> HIDE DEF numbersOf
<1>7. Max(numbersOf) \in numbersOf /\ \A k \in numbersOf : k <= Max(numbersOf)
  BY <1>4, <1>5, MaxIsLargest
<1>8. Max(numbersOf) \in Nat /\ lastSequence <= Max(numbersOf)
      /\ \A e \in s : e[1] <= Max(numbersOf)
  BY <1>5, <1>6, <1>7
<1> QED  BY <1>8 DEF numbersOf

\* so does reading a log file into tables,
LEMMA RecoverLogFileKeeps ==
  ASSUME IInv, NEW l \in DOMAIN logs, RecoverLogFile(l)
  PROVE  IInv'
<1> DEFINE entries == LogContents(l)
           next    == IF entries = {} THEN nextFile ELSE nextFile + 1
<1>0. Types /\ FilesInv /\ QueueInv /\ Quiet /\ phase = "replay" /\ Opening /\ OpeningInv
  BY DEF IInv, FilesInv, RecoverLogFile, Opening
<1>1. /\ tables' = IF entries = {} THEN tables ELSE Put(tables, nextFile, entries)
      /\ edit' = IF entries = {} THEN edit
                 ELSE [edit EXCEPT !.add = @ \cup {<<0, nextFile>>}]
      /\ nextFile' = IF next <= l THEN l + 1 ELSE next
      /\ lastSequence' = Max({e[1] : e \in entries} \cup {lastSequence})
      /\ logfile' = l
  BY DEF RecoverLogFile
<1>2. UNCHANGED <<logs, manifests, current, phase, logNumber, manifestFile, version, mem, imm,
                  torn, doubtful, pending, bgError, writers, state, room, group, scheduled, bg, reader,
                  faults>>
  BY DEF RecoverLogFile, queue
<1>3. /\ l \in Nat /\ entries \in EntrySets /\ nextFile \in Nat /\ manifestFile \in Nat
      /\ edit \in Edit
  BY <1>0, FileMapHolds, LogContentsTyped, NumbersTyped, WorkTyped DEF Types, TypeOK
<1> HIDE DEF entries
<1>4. nextFile' \in Nat /\ nextFile <= nextFile' /\ (entries # {} => nextFile < nextFile')
      /\ l < nextFile'
  BY <1>1, <1>3
<1>5. lastSequence' \in Nat  BY <1>0, <1>1, <1>3, NewestIsTyped
<1>6. /\ IsFileMap(tables', EntrySets) /\ DOMAIN tables \subseteq DOMAIN tables'
      /\ (entries # {} => nextFile \in DOMAIN tables')
  <2>1. IsFileMap(tables, EntrySets)  BY <1>0 DEF Types, MoreTypes
  <2>2. IsFileMap(Put(tables, nextFile, entries), EntrySets)
    BY <1>3, <2>1, PutTyped
  <2>3. DOMAIN Put(tables, nextFile, entries) = DOMAIN tables \cup {nextFile}
    BY DEF Put
  <2> QED  BY <1>1, <2>1, <2>2, <2>3
<1>7. /\ edit' \in Edit /\ edit'.del = edit.del
      /\ edit'.add = IF entries = {} THEN edit.add ELSE edit.add \cup {<<0, nextFile>>}
  <2>1. CASE entries = {}  BY <1>1, <1>3, <2>1
  <2>2. CASE entries # {}
    <3>1. edit' = [edit EXCEPT !.add = @ \cup {<<0, nextFile>>}]  BY <1>1, <2>2
    <3>2. edit.add \cup {<<0, nextFile>>} \in SUBSET (Nat \X Nat)  BY <1>3 DEF Edit
    <3> QED  BY <1>3, <2>2, <3>1, <3>2 DEF Edit
  <2> QED  BY <2>1, <2>2
<1>8. Types'
  <2>1. IsFileMap(tables', SUBSET Entries)  BY <1>6, FileMapWider DEF EntrySets
  <2>2. logfile' \in Nat  BY <1>1, <1>3
  <2> QED  BY <1>0, <1>2, <1>4, <1>5, <1>6, <1>7, <2>1, <2>2, SMTT(60) DEF Types, TypeOK, MoreTypes
<1>9. QueueInv'  BY <1>0, <1>2 DEF QueueInv
<1>10. DescriptorsInv'  BY <1>0, <1>2, <1>6 DEF FilesInv, DescriptorsInv, Records
<1>11. OpeningInv'
  <2>1. Descriptor' = Descriptor  BY <1>2 DEF Descriptor
  <2>2. manifestFile < nextFile  BY <1>0 DEF OpeningInv
  <2>3. ASSUME NEW n \in Numbers(edit'.add)
        PROVE  manifestFile < n /\ n < nextFile' /\ n \in DOMAIN tables'
    <3>1. n \in Numbers(edit.add) \/ (entries # {} /\ n = nextFile)
      BY <1>7 DEF Numbers
    <3>2. CASE n \in Numbers(edit.add)
      <4>1. manifestFile < n /\ n < nextFile /\ n \in DOMAIN tables /\ n \in Nat
        BY <1>0, <3>2, WorkTyped DEF OpeningInv
      <4> QED  BY <1>3, <1>4, <1>6, <4>1
    <3>3. CASE entries # {} /\ n = nextFile
      BY <1>4, <1>6, <2>2, <3>3
    <3> QED  BY <3>1, <3>2, <3>3
  <2>4. manifestFile' < nextFile'  BY <1>2, <1>3, <1>4, <2>2
  <2> QED  BY <1>0, <1>2, <1>7, <2>1, <2>3, <2>4 DEF OpeningInv
<1>12. RunningInv' /\ AgreeInv'  BY <1>0, <1>2 DEF RunningInv, AgreeInv, Running
<1>13. StagesInv'
  <2>1. bg' = Idle  BY <1>0, <1>2 DEF Quiet
  <2> QED  BY <2>1 DEF StagesInv, Idle
<1>14. EditInv'  BY <1>0, <1>2 DEF EditInv
<1>15. Quiet'  BY <1>0, <1>2 DEF Quiet
<1> QED  BY <1>8, <1>9, <1>10, <1>11, <1>12, <1>13, <1>14, <1>15 DEF IInv, FilesInv

\* creating the new log,
LEMMA OpenLogKeeps ==
  ASSUME IInv, OpenLog
  PROVE  IInv'
<1>0. Types /\ FilesInv /\ QueueInv /\ Quiet /\ phase = "replay" /\ phase' = "describe"
      /\ Opening /\ OpeningInv
  BY DEF IInv, FilesInv, OpenLog, Opening
<1>1. /\ logs' = Put(logs, nextFile, NewLog) /\ logfile' = nextFile /\ nextFile' = nextFile + 1
      /\ edit' = [edit EXCEPT !.log = nextFile, !.next = nextFile + 1, !.last = lastSequence]
  BY DEF OpenLog
<1>2. UNCHANGED <<tables, manifests, current, lastSequence, logNumber, manifestFile, version,
                  mem, imm, torn, doubtful, pending, bgError, writers, state, room, group,
                  scheduled, bg, reader, faults>>
  BY DEF OpenLog, queue
<1>3. /\ nextFile \in Nat /\ manifestFile \in Nat /\ lastSequence \in Nat /\ edit \in Edit
      /\ manifestFile < nextFile
  BY <1>0, NumbersTyped, WorkTyped DEF OpeningInv
<1>4. /\ edit' = [add |-> edit.add, del |-> edit.del, log |-> nextFile, next |-> nextFile + 1,
                  last |-> lastSequence]
      /\ edit' \in Edit
  <2> DEFINE after == nextFile + 1
  <2>0. edit' = [edit EXCEPT !.log = nextFile, !.next = after, !.last = lastSequence]
    BY <1>1
  <2>1. after \in Nat  BY <1>3
  <2> HIDE DEF after
  <2>2. edit' = [add |-> edit.add, del |-> edit.del, log |-> nextFile, next |-> after,
                 last |-> lastSequence]
    BY <1>3, <2>0 DEF Edit
  <2>3. edit' \in Edit  BY <1>3, <2>1, <2>2 DEF Edit
  <2> QED  BY <2>2, <2>3 DEF after
<1>5. IsFileMap(logs', Log) /\ 0 \notin DOMAIN logs'
  <2>1. IsFileMap(logs, Log) /\ 0 \notin DOMAIN logs  BY <1>0 DEF Types, MoreTypes
  <2>2. IsFileMap(Put(logs, nextFile, NewLog), Log)
    BY <1>3, <2>1, NewLogTyped, PutTyped
  <2>3. DOMAIN Put(logs, nextFile, NewLog) = DOMAIN logs \cup {nextFile}  BY DEF Put
  <2> QED  BY <1>1, <1>3, <2>1, <2>2, <2>3
<1>6. Types'
  <2>1. \A l \in DOMAIN logs' : /\ l \in Nat /\ logs'[l].sound \in 0..Len(logs'[l].records)
                                /\ logs'[l].synced \in 0..logs'[l].sound
    BY <1>5, LogsTyped
  <2>2. nextFile' \in Nat /\ logfile' \in Nat  BY <1>1, <1>3
  <2> QED  BY <1>0, <1>2, <1>4, <1>5, <2>1, <2>2, SMTT(60) DEF Types, TypeOK, MoreTypes
<1>7. QueueInv'  BY <1>0, <1>2 DEF QueueInv
<1>8. DescriptorsInv'  BY <1>0, <1>2 DEF FilesInv, DescriptorsInv, Records
<1>9. OpeningInv'
  <2>1. Descriptor' = Descriptor  BY <1>2 DEF Descriptor
  <2>2. ASSUME NEW n \in Numbers(edit'.add)
        PROVE  manifestFile < n /\ n < nextFile' /\ n \in DOMAIN tables
    <3>1. n \in Numbers(edit.add)  BY <1>4
    <3>2. manifestFile < n /\ n < nextFile /\ n \in DOMAIN tables /\ n \in Nat
      BY <1>0, <3>1, WorkTyped DEF OpeningInv
    <3> QED  BY <1>1, <1>3, <3>2
  <2>3. /\ edit'.del = edit.del /\ edit'.log = logfile' /\ edit'.next = nextFile'
        /\ edit'.last = lastSequence' /\ logfile' < nextFile'
    BY <1>1, <1>2, <1>3, <1>4
  <2>4. manifestFile' < nextFile'  BY <1>1, <1>2, <1>3
  <2> QED  BY <1>0, <1>2, <2>1, <2>2, <2>3, <2>4 DEF OpeningInv
<1>10. RunningInv' /\ AgreeInv'  BY <1>0 DEF RunningInv, AgreeInv, Running
<1>11. StagesInv'
  <2>1. bg' = Idle  BY <1>0, <1>2 DEF Quiet
  <2> QED  BY <2>1 DEF StagesInv, Idle
<1>12. EditInv'  BY <1>0 DEF EditInv
<1>13. Quiet'  BY <1>0, <1>2 DEF Quiet
<1> QED  BY <1>6, <1>7, <1>8, <1>9, <1>10, <1>11, <1>12, <1>13 DEF IInv, FilesInv

\* writing the new descriptor,
LEMMA NewDescriptorKeeps ==
  ASSUME IInv, NewDescriptor
  PROVE  IInv'
<1> DEFINE described == [files |-> version \cup edit.add, log |-> edit.log, next |-> edit.next,
                         last |-> edit.last]
<1>0. Types /\ FilesInv /\ QueueInv /\ Quiet /\ phase = "describe" /\ phase' = "rename"
      /\ Opening /\ OpeningInv
  BY DEF IInv, FilesInv, NewDescriptor, Opening
<1>1. UNCHANGED <<logs, tables, current, lastSequence, nextFile, logNumber, manifestFile, version,
                  mem, imm, logfile, torn, doubtful, pending, bgError, writers, state, room,
                  group, scheduled, bg, edit, reader, faults>>
  BY DEF NewDescriptor, numbers, memtables, queue
<1>2. manifests' = Put(manifests, manifestFile, <<described>>)
  <2>1. edit.del = {}  BY <1>0 DEF OpeningInv
  <2>2. Apply([files |-> version, log |-> 0, next |-> 0, last |-> 0], edit) = described
    BY <2>1 DEF Apply
  <2> QED  BY <2>2 DEF NewDescriptor
<1>3. described \in Described
  <2>1. /\ edit.add \subseteq Nat \X Nat /\ version \subseteq Nat \X Nat
        /\ edit.log \in Nat /\ edit.next \in Nat /\ edit.last \in Nat
    BY <1>0, WorkTyped DEF Types, TypeOK, Edit
  <2>2. version \cup edit.add \in SUBSET (Nat \X Nat)  BY <2>1
  <2> QED  BY <2>1, <2>2 DEF Described
<1> HIDE DEF described
<1>4. manifestFile \in Nat /\ manifestFile # current
  <2>1. manifestFile = Descriptor.next /\ Len(Records) \in DOMAIN Records
        /\ Descriptor = Records[Len(Records)] /\ Descriptor.next \in Nat
    BY <1>0, RecordsTyped DEF OpeningInv
  <2>2. current < Descriptor.next  BY <1>0, <2>1 DEF FilesInv, DescriptorsInv
  <2> QED  BY <1>0, <2>1, <2>2, NumbersTyped
<1>5. /\ IsFileMap(manifests', Seq(Described) \ {<<>>}) /\ current' \in DOMAIN manifests'
      /\ Records' = Records
      /\ manifestFile \in DOMAIN manifests' /\ manifests'[manifestFile] = <<described>>
  <2>1. IsFileMap(manifests, Seq(Described) \ {<<>>}) /\ current \in DOMAIN manifests
    BY <1>0 DEF Types, TypeOK, MoreTypes
  <2>2. <<described>> \in Seq(Described) \ {<<>>}  BY <1>3
  <2>3. IsFileMap(Put(manifests, manifestFile, <<described>>), Seq(Described) \ {<<>>})
    BY <1>4, <2>1, <2>2, PutTyped
  <2> QED  BY <1>1, <1>2, <1>4, <2>1, <2>3 DEF Put, Records
<1>6. Types'
  <2>1. IsFileMap(manifests', Seq(Described))  BY <1>5, FileMapWider
  <2> QED  BY <1>0, <1>1, <1>5, <2>1 DEF Types, TypeOK, MoreTypes
<1>7. QueueInv'  BY <1>0, <1>1 DEF QueueInv
<1>8. DescriptorsInv'  BY <1>0, <1>1, <1>5 DEF FilesInv, DescriptorsInv
<1>9. OpeningInv'
  <2>1. Descriptor' = Descriptor  BY <1>5 DEF Descriptor, Records
  <2> QED  BY <1>0, <1>1, <1>5, <2>1 DEF OpeningInv, described
<1>10. RunningInv' /\ AgreeInv'  BY <1>0 DEF RunningInv, AgreeInv, Running
<1>11. StagesInv'
  <2>1. bg' = Idle  BY <1>0, <1>1 DEF Quiet
  <2> QED  BY <2>1 DEF StagesInv, Idle
<1>12. EditInv'  BY <1>0 DEF EditInv
<1>13. Quiet'  BY <1>0, <1>1 DEF Quiet
<1> QED  BY <1>6, <1>7, <1>8, <1>9, <1>10, <1>11, <1>12, <1>13 DEF IInv, FilesInv

\* naming it in CURRENT,
LEMMA SetCurrentFileKeeps ==
  ASSUME IInv, SetCurrentFile
  PROVE  IInv'
<1> DEFINE described == [files |-> version \cup edit.add, log |-> edit.log, next |-> edit.next,
                         last |-> edit.last]
<1>0. Types /\ FilesInv /\ QueueInv /\ Quiet /\ phase = "rename" /\ phase' = "clean"
      /\ Opening /\ OpeningInv
  BY DEF IInv, FilesInv, SetCurrentFile, Opening
<1>1. /\ current' = manifestFile /\ logNumber' = edit.log
      /\ version' = version \cup edit.add
  BY <1>0 DEF SetCurrentFile, OpeningInv
<1>2. UNCHANGED <<logs, tables, manifests, lastSequence, nextFile, manifestFile, mem, imm,
                  logfile, torn, doubtful, pending, bgError, writers, state, room, group,
                  scheduled, bg, edit, reader, faults>>
  BY DEF SetCurrentFile, memtables, queue
<1>3. /\ manifestFile \in DOMAIN manifests
      /\ Records' = <<described>>
      /\ edit.log = logfile /\ edit.next = nextFile /\ logfile < nextFile
  BY <1>0, <1>1, <1>2 DEF OpeningInv, Records
<1>4. /\ nextFile \in Nat /\ manifestFile \in Nat /\ logfile \in Nat /\ manifestFile < nextFile
      /\ version \subseteq Nat \X Nat /\ edit.add \subseteq Nat \X Nat
  BY <1>0, NumbersTyped, WorkTyped DEF OpeningInv, Types, TypeOK, Edit
<1>5. \A n \in Numbers(version') : n \in DOMAIN tables /\ n < nextFile
  <2>1. /\ Descriptor = Records[Len(Records)] /\ Len(Records) \in DOMAIN Records
        /\ Descriptor.next \in Nat /\ \A n \in Numbers(Descriptor.files) : n \in Nat
    BY <1>0, RecordsTyped
  <2>2. /\ version = Descriptor.files /\ manifestFile = Descriptor.next
    BY <1>0 DEF OpeningInv
  <2>3. \A n \in Numbers(version) : n \in DOMAIN tables /\ n < manifestFile /\ n \in Nat
    BY <1>0, <2>1, <2>2 DEF FilesInv, DescriptorsInv
  <2>4. \A n \in Numbers(version) : n \in DOMAIN tables /\ n < nextFile
    BY <1>4, <2>3
  <2>5. \A n \in Numbers(edit.add) : n \in DOMAIN tables /\ n < nextFile
    BY <1>0 DEF OpeningInv
  <2>6. Numbers(version') = Numbers(version) \cup Numbers(edit.add)
    BY <1>1 DEF Numbers
  <2> QED  BY <2>4, <2>5, <2>6
<1>6. Types'
  <2>1. version' \subseteq Nat \X Nat /\ logNumber' \in Nat  BY <1>1, <1>3, <1>4
  <2> QED  BY <1>0, <1>1, <1>2, <1>3, <2>1 DEF Types, TypeOK, MoreTypes
<1>7. QueueInv'  BY <1>0, <1>2 DEF QueueInv
<1>r. /\ DOMAIN Records' = {1} /\ Len(Records') = 1
      /\ Records'[1].files = version' /\ Records'[1].next = nextFile
      /\ Records'[1].log = logNumber'
  BY <1>1, <1>3
<1>8. DescriptorsInv'
  <2>1. /\ Numbers(Records'[1].files) \subseteq DOMAIN tables'
        /\ \A n \in Numbers(Records'[1].files) : n < Records'[1].next
        /\ current' < Records'[1].next /\ Records'[1].next <= Records'[1].next
    <3>1. Numbers(Records'[1].files) = Numbers(version')  BY <1>r
    <3>2. Numbers(version') \subseteq DOMAIN tables' /\ \A n \in Numbers(version') : n < nextFile
      BY <1>2, <1>5
    <3>3. Records'[1].next = nextFile  BY <1>r
    <3>4. current' < nextFile /\ nextFile <= nextFile  BY <1>1, <1>4
    <3> HIDE DEF Numbers, Records
    <3> QED  BY <3>1, <3>2, <3>3, <3>4
  <2> QED  BY <1>r, <2>1 DEF DescriptorsInv
<1>9. OpeningInv'  BY <1>0 DEF OpeningInv, Opening
<1>b. bg' = Idle /\ reader' = {} /\ pending' = {}  BY <1>0, <1>2 DEF Quiet
<1>10. RunningInv'
  <2>1. Numbers(bg'.inputs) = {} /\ UNION reader' = {} /\ bg'.flush = 0 /\ bg'.output = 0
    BY <1>b DEF Idle, Numbers
  <2> QED  BY <1>1, <1>2, <1>3, <1>4, <1>5, <1>b, <1>r, <2>1, SMTT(60) DEF RunningInv
<1>11. AgreeInv'  BY <1>b, <1>r DEF AgreeInv, Idle
<1>12. StagesInv'  BY <1>b DEF StagesInv, Idle
<1>13. EditInv'  BY <1>0 DEF EditInv
<1>14. Quiet'  BY <1>0, <1>2 DEF Quiet
<1> QED  BY <1>6, <1>7, <1>8, <1>9, <1>10, <1>11, <1>12, <1>13, <1>14 DEF IInv, FilesInv

\* and handing the database to its user.
LEMMA FinishOpenKeeps ==
  ASSUME IInv, FinishOpen
  PROVE  IInv'
<1>0. Types /\ FilesInv /\ QueueInv /\ Quiet /\ phase = "clean" /\ phase' = "open" /\ Running
      /\ bg = Idle /\ pending = {}
  BY DEF IInv, FinishOpen, Running, Quiet
<1>1. /\ UNCHANGED <<current, lastSequence, nextFile, logNumber, manifestFile, version, mem, imm,
                     logfile, torn, pending, bgError, writers, state, room, group, bg, edit,
                     reader, faults>>
      /\ DeleteObsoleteFiles /\ doubtful' = {}
  BY DEF FinishOpen, DeleteObsoleteFiles, numbers, queue
<1>2. scheduled' \in BOOLEAN
  BY <1>0 DEF FinishOpen, MaybeScheduleCompaction, Types, TypeOK
<1>3. /\ current \in DOMAIN manifests' /\ manifests'[current] = Records
      /\ \A i \in DOMAIN Records : Numbers(Records[i].files) \subseteq DOMAIN tables'
      /\ Numbers(version) \cup Numbers(bg.inputs) \cup UNION reader \subseteq DOMAIN tables'
  BY <1>0, <1>1, DeletionsKeep DEF Idle
<1>4. Types'
  <2>1. /\ IsFileMap(logs', Log) /\ 0 \notin DOMAIN logs'
        /\ \A l \in DOMAIN logs' : /\ l \in Nat /\ logs'[l].sound \in 0..Len(logs'[l].records)
                                   /\ logs'[l].synced \in 0..logs'[l].sound
        /\ IsFileMap(tables', EntrySets) /\ IsFileMap(tables', SUBSET Entries)
        /\ IsFileMap(manifests', Seq(Described) \ {<<>>}) /\ IsFileMap(manifests', Seq(Described))
    BY <1>0, <1>1, DeletionsTyped
  <2> QED  BY <1>0, <1>1, <1>2, <1>3, <2>1 DEF Types, TypeOK, MoreTypes
<1>5. Records' = Records  BY <1>1, <1>3 DEF Records
<1>6. QueueInv'  BY <1>0, <1>1 DEF QueueInv
<1>7. DescriptorsInv'
  <2>1. DescriptorsInv  BY <1>0 DEF FilesInv
  <2> QED  BY <1>1, <1>3, <1>5, <2>1 DEF DescriptorsInv
<1>8. OpeningInv'  BY <1>0 DEF OpeningInv, Opening
<1>9. RunningInv'
  <2>1. RunningInv  BY <1>0 DEF FilesInv
  <2> QED  BY <1>0, <1>1, <1>3, <1>5, <2>1 DEF RunningInv, Running
<1>10. AgreeInv'
  <2>1. AgreeInv  BY <1>0 DEF FilesInv
  <2> QED  BY <1>0, <1>1, <1>5, <2>1 DEF AgreeInv, Running
<1>11. StagesInv'  BY <1>0, <1>1 DEF StagesInv, Idle
<1>12. EditInv'  BY <1>0, <1>1 DEF EditInv, Idle
<1>13. Quiet'  BY <1>0, OpenIsNotQuiet
<1> QED  BY <1>4, <1>6, <1>7, <1>8, <1>9, <1>10, <1>11, <1>12, <1>13 DEF IInv, FilesInv

\* What the end of the process or of the machine leaves of one log: its first records,
\* the sound ones as they were, and nothing that a later start could not read.
LEMMA LeftIs ==
  ASSUME NEW log \in Log, NEW machine \in BOOLEAN, NEW left \in LeftOf(log, machine)
  PROVE  /\ left \in Log /\ left.sound = Len(left.records)
         /\ left.synced = IF machine THEN Len(left.records) ELSE log.synced
         /\ Len(left.records) <= Len(log.records) /\ log.synced <= Len(left.records)
         /\ ~machine => Len(left.records) = Len(log.records)
         /\ \A k \in 1..Len(left.records) :
              /\ left.records[k] \in {{}, log.records[k]}
              /\ k <= log.sound => left.records[k] = log.records[k]
<1>1. PICK cut \in (IF machine THEN log.synced ELSE Len(log.records))..Len(log.records),
           unread \in SUBSET ((log.sound + 1)..Len(log.records)) :
        left = [records |-> LogLeft(log, cut, unread), sound |-> cut,
                synced |-> IF machine THEN cut ELSE log.synced]
  BY DEF LeftOf
<1>2. /\ log.records \in Seq(EntrySets) /\ log.sound \in Nat /\ log.synced \in Nat
      /\ log.synced <= log.sound /\ log.sound <= Len(log.records)
  BY DEF Log, LogShape
<1>3. Len(log.records) \in Nat  BY <1>2
<1>4. /\ cut \in Nat /\ log.synced <= cut /\ cut <= Len(log.records)
      /\ ~machine => cut = Len(log.records)
  BY <1>1, <1>2, <1>3
<1> DEFINE r == LogLeft(log, cut, unread)
           synced == IF machine THEN cut ELSE log.synced
<1>5. /\ DOMAIN r = 1..cut
      /\ \A k \in 1..cut : r[k] = IF k \in unread THEN {} ELSE log.records[k]
  BY DEF LogLeft
<1>6. \A k \in 1..cut : log.records[k] \in EntrySets
  BY <1>2, <1>3, <1>4, ElementOfSeq
<1>7. r \in Seq(EntrySets) /\ Len(r) = cut
  <2>1. \A k \in 1..cut : r[k] \in EntrySets  BY <1>5, <1>6, NoEntries
  <2>2. r = [k \in 1..cut |-> r[k]]  BY <1>5 DEF LogLeft
  <2> HIDE DEF r
  <2>3. [k \in 1..cut |-> r[k]] \in [1..cut -> EntrySets]  BY <2>1
  <2>4. r \in [1..cut -> EntrySets]  BY <2>2, <2>3
  <2> QED  BY <1>4, <2>4
<1>8. left = [records |-> r, sound |-> cut, synced |-> synced]  BY <1>1
<1>9. synced \in Nat /\ synced <= cut  BY <1>2, <1>4
<1>10. \A k \in 1..cut : /\ r[k] \in {{}, log.records[k]}
                         /\ k <= log.sound => r[k] = log.records[k]
  <2> SUFFICES ASSUME NEW k \in 1..cut
               PROVE  /\ r[k] \in {{}, log.records[k]}
                      /\ k <= log.sound => r[k] = log.records[k]
    OBVIOUS
  <2>1. r[k] = IF k \in unread THEN {} ELSE log.records[k]  BY <1>5
  <2>2. k <= log.sound => k \notin unread  BY <1>1, <1>2, <1>3, <1>4
  <2> QED  BY <2>1, <2>2
<1> HIDE DEF r
<1>11. left.records = r /\ left.sound = cut /\ left.synced = synced  BY <1>8
<1> HIDE DEF synced
<1>12. left \in Log  BY <1>4, <1>7, <1>8, <1>9, <1>11 DEF Log, LogShape
<1>13. synced = IF machine THEN Len(r) ELSE log.synced  BY <1>7 DEF synced
<1> QED  BY <1>4, <1>7, <1>10, <1>11, <1>12, <1>13

\* What the end of the process or of the machine leaves of the files.
LEMMA LeftTyped ==
  ASSUME Types, NEW machine \in BOOLEAN, NEW left \in LogsLeft(machine)
  PROVE  IsFileMap(left, Log) /\ DOMAIN left = DOMAIN logs
<1>0. IsFileMap(logs, Log)  BY DEF Types, MoreTypes
<1>1. DOMAIN left = DOMAIN logs /\ \A l \in DOMAIN logs : left[l] \in LeftOf(logs[l], machine)
  BY DEF LogsLeft
<1>2. ASSUME NEW l \in DOMAIN left
      PROVE  l \in Nat /\ left[l] \in Log
  <2>1. logs[l] \in Log /\ l \in Nat /\ left[l] \in LeftOf(logs[l], machine)
    BY <1>0, <1>1, FileMapHolds
  <2> QED  BY <2>1, LeftIs
<1>3. IsFiniteSet(DOMAIN left)  BY <1>0, <1>1 DEF IsFileMap
<1> QED  BY <1>1, <1>2, <1>3, FileMapBy

\* The end of the process or of the machine keeps the invariant.
LEMMA CrashKeeps ==
  ASSUME IInv, NEW machine \in BOOLEAN, Crash(machine)
  PROVE  IInv'
<1>0. Types /\ FilesInv /\ QueueInv /\ Quiet /\ StagesInv  BY DEF IInv, FilesInv
<1>1. /\ current' = current /\ phase' = "down"
      /\ lastSequence' = 0 /\ nextFile' = 2 /\ logNumber' = 0 /\ manifestFile' = 0
      /\ version' = {} /\ mem' = {} /\ imm' = {} /\ logfile' = 0
      /\ pending' = {} /\ bgError' = FALSE
      /\ writers' = <<>> /\ group' = NoGroup /\ room' = [force |-> FALSE, delay |-> FALSE]
      /\ state' = [w \in Writes |-> IF state[w] \in {"idle", "ok"} THEN state[w] ELSE "lost"]
      /\ scheduled' = FALSE /\ bg' = Idle /\ edit' = NoEdit /\ reader' = {}
      /\ torn' = FALSE /\ doubtful' = doubtful
  BY DEF Crash
<1>2. faults' \in 0..MaxFaults  BY <1>0, FaultTyped DEF Crash
<1>3. IsFileMap(logs', Log) /\ 0 \notin DOMAIN logs'
  <2>1. PICK left \in LogsLeft(machine), gone \in PartOf(ObsoleteLogs) : logs' = Drop(left, gone)
    BY DEF Crash
  <2>2. IsFileMap(left, Log) /\ 0 \notin DOMAIN left
    BY <1>0, LeftTyped DEF Types, MoreTypes
  <2>3. IsFileMap(Drop(left, gone), Log)  BY <2>2, DropTyped
  <2>4. DOMAIN Drop(left, gone) = DOMAIN left \ gone  BY DropIs
  <2>5. 0 \notin DOMAIN Drop(left, gone)  BY <2>2, <2>4
  <2> QED  BY <2>1, <2>3, <2>5
<1>4. PICK i \in DOMAIN Records, gone \in PartOf(ObsoleteManifests) :
        manifests' = Drop([manifests EXCEPT ![current] = IF machine THEN <<Records[i]>> ELSE Records],
                          gone)
  <2>1. PICK left \in ManifestsLeft(machine), gone \in PartOf(ObsoleteManifests) :
          manifests' = Drop(left, gone)
    BY DEF Crash
  <2>2. 1 \in DOMAIN Records  BY <1>0, RecordsTyped
  <2>3. \E i \in DOMAIN Records :
          left = [manifests EXCEPT ![current] = IF machine THEN <<Records[i]>> ELSE Records]
    BY <2>2 DEF ManifestsLeft, Records
  <2> QED  BY <2>1, <2>3
<1> DEFINE kept == IF machine THEN <<Records[i]>> ELSE Records
<1>5. kept \in Seq(Described) \ {<<>>}
  <2>1. Records \in Seq(Described) /\ Records[i] \in Described /\ Records # <<>>
    BY <1>0, RecordsTyped
  <2> QED  BY <2>1
<1> HIDE DEF kept
<1>6. manifests' = Drop([manifests EXCEPT ![current] = kept], gone)
  BY <1>4 DEF kept
<1>7. IsFileMap(manifests', Seq(Described) \ {<<>>}) /\ IsFileMap(manifests', Seq(Described))
  <2>1. IsFileMap(manifests, Seq(Described) \ {<<>>})  BY <1>0 DEF Types, MoreTypes
  <2>2. IsFileMap([manifests EXCEPT ![current] = kept], Seq(Described) \ {<<>>})
    BY <1>5, <2>1, ExceptTyped
  <2>3. IsFileMap(manifests', Seq(Described) \ {<<>>})  BY <1>6, <2>2, DropTyped
  <2> QED  BY <2>3, FileMapWider
<1>8. current' \in DOMAIN manifests' /\ Records' = kept
  <2>1. current \in DOMAIN manifests /\ current \in Nat
    BY <1>0, NumbersTyped DEF Types, TypeOK
  <2>2. current \notin gone
    <3>1. CASE Cleaning
      <4>1. Running  BY <1>0, <3>1 DEF Cleaning, Running, Quiet, Idle
      <4>2. manifestFile = current  BY <1>0, <4>1 DEF FilesInv, RunningInv
      <4> QED  BY <2>1, <3>1, <4>2 DEF PartOf, ObsoleteManifests
    <3>2. CASE ~Cleaning  BY <3>2 DEF PartOf
    <3> QED  BY <3>1, <3>2
  <2> QED  BY <1>1, <1>6, <2>1, <2>2 DEF Drop, Restrict, Records
<1>9. PICK lost \in PartOf(ObsoleteTables) : tables' = Drop(tables, lost)
  BY DEF Crash
<1>10. /\ IsFileMap(tables', EntrySets) /\ IsFileMap(tables', SUBSET Entries)
       /\ DOMAIN tables' = DOMAIN tables \ lost
  <2>1. IsFileMap(tables, EntrySets)  BY <1>0 DEF Types, MoreTypes
  <2>2. IsFileMap(tables', EntrySets)  BY <1>9, <2>1, DropTyped
  <2>3. DOMAIN tables' = DOMAIN tables \ lost  BY <1>9, DropIs
  <2>4. IsFileMap(tables', SUBSET Entries)  BY <2>2, FileMapWider DEF EntrySets
  <2> QED  BY <2>2, <2>3, <2>4
<1>11. \A k \in DOMAIN Records : Numbers(Records[k].files) \subseteq DOMAIN tables'
  <2>1. CASE Cleaning /\ ~bgError
    <3>1. Running /\ bg.at # "sync"
      BY <1>0, <2>1 DEF Cleaning, Running, Quiet, Idle
    <3>2. Len(Records) = 1 /\ Records[1].files = version
      BY <1>0, <2>1, <3>1 DEF FilesInv, AgreeInv
    <3>3. Numbers(version) \subseteq DOMAIN tables
      BY <1>0, <3>1 DEF FilesInv, RunningInv
    <3>4. lost \cap Numbers(version) = {}
      BY <2>1 DEF PartOf, ObsoleteTables, Live
    <3>5. DOMAIN Records = 1..Len(Records)  BY <1>0, RecordsTyped
    <3> QED  BY <1>10, <3>2, <3>3, <3>4, <3>5
  <2>2. CASE ~ (Cleaning /\ ~bgError)
    <3>1. lost = {}  BY <2>2 DEF PartOf, ObsoleteTables
    <3> QED  BY <1>0, <1>10, <3>1 DEF FilesInv, DescriptorsInv
  <2> QED  BY <2>1, <2>2
<1>12. state' \in [Writes -> WriterStates]
  BY <1>1 DEF WriterStates, Answers
<1>13. Types'
  <2>1. \A l \in DOMAIN logs' : /\ l \in Nat /\ logs'[l].sound \in 0..Len(logs'[l].records)
                                /\ logs'[l].synced \in 0..logs'[l].sound
    BY <1>3, LogsTyped
  <2>2. /\ group' \in [size : Nat, entries : EntrySets] /\ group'.entries \subseteq Entries
        /\ mem' \in EntrySets
    BY <1>1, NoEntries DEF NoGroup
  <2>3. bg' \in Background /\ edit' \in Edit  BY <1>1 DEF Background, Edit, Idle, NoEdit
  <2>4. writers' \in Seq(Writes) /\ IsInjective(writers')  BY <1>1 DEF IsInjective
  <2>5. /\ phase' \in {"down", "replay", "describe", "rename", "clean", "open"}
        /\ {lastSequence, nextFile, logNumber, manifestFile, logfile}' \subseteq Nat
        /\ version' \subseteq Nat \X Nat
        /\ mem' \subseteq Entries /\ imm' \subseteq SUBSET Entries /\ \A m, n \in imm' : m = n
        /\ imm' \subseteq EntrySets
        /\ pending' \subseteq Nat /\ bgError' \in BOOLEAN
        /\ room' \in [force : BOOLEAN, delay : BOOLEAN]
        /\ scheduled' \in BOOLEAN /\ reader' \subseteq SUBSET Nat
    <3>1. phase' = "down" /\ bgError' = FALSE /\ scheduled' = FALSE
          /\ room' = [force |-> FALSE, delay |-> FALSE]
      BY <1>1
    <3>2. version' = {} /\ mem' = {} /\ imm' = {} /\ pending' = {} /\ reader' = {}
      BY <1>1
    <3>3. {lastSequence', nextFile', logNumber', manifestFile', logfile'} \subseteq Nat
      BY <1>1
    <3> QED  BY <3>1, <3>2, <3>3
  <2>6. group'.size \in Nat  BY <2>2
  <2>t. torn' \in BOOLEAN /\ doubtful' \subseteq Batches  BY <1>0, <1>1 DEF Types, TypeOK
  <2>7. TypeOK'
    BY <1>2, <1>7, <1>8, <1>10, <1>12, <2>1, <2>2, <2>3, <2>4, <2>5, <2>6, <2>t DEF TypeOK
  <2>8. MoreTypes'  BY <1>3, <1>7, <1>10, <2>2, <2>5 DEF MoreTypes
  <2> QED  BY <2>7, <2>8 DEF Types
<1>14. QueueInv'
  <2>1. ToSet(writers') = {} /\ DOMAIN writers' = {}  BY <1>1 DEF ToSet
  <2>2. \A w \in Writes : state'[w] \notin Waiting /\ state'[w] \notin Grouped
    BY <1>1 DEF Waiting, Grouped
  <2> QED  BY <2>1, <2>2 DEF QueueInv
<1>15. DescriptorsInv'
  <2>1. DescriptorsInv  BY <1>0 DEF FilesInv
  <2>2. CASE ~machine
    <3>1. Records' = Records  BY <1>8, <2>2 DEF kept
    <3> QED  BY <1>1, <1>11, <2>1, <3>1 DEF DescriptorsInv
  <2>3. CASE machine
    <3>1. DOMAIN Records' = {1} /\ Records'[1] = Records[i]  BY <1>8, <2>3 DEF kept
    <3>2. Records[i].next \in Nat  BY <1>0, RecordsTyped
    <3>3. /\ Numbers(Records[i].files) \subseteq DOMAIN tables'
          /\ \A n \in Numbers(Records[i].files) : n < Records[i].next
          /\ current < Records[i].next
      BY <1>11, <2>1 DEF DescriptorsInv
    <3> QED  BY <1>1, <3>1, <3>2, <3>3 DEF DescriptorsInv
  <2> QED  BY <2>2, <2>3
<1>16. OpeningInv' /\ RunningInv' /\ AgreeInv'
  BY <1>1 DEF OpeningInv, Opening, RunningInv, AgreeInv, Running
<1>17. StagesInv' /\ EditInv'  BY <1>1 DEF StagesInv, EditInv, Idle
<1>18. Quiet'  BY <1>1 DEF Quiet
<1> QED  BY <1>13, <1>14, <1>15, <1>16, <1>17, <1>18 DEF IInv, FilesInv

------------------------------------------------------------------------------
(***************************************************************************)
(* Theorems.                                                               *)
(***************************************************************************)
\* The first state has the invariant.
LEMMA InitKeeps == Init => IInv
<1> SUFFICES ASSUME Init PROVE IInv  OBVIOUS
<1> DEFINE first == [files |-> {}, log |-> 0, next |-> 2, last |-> 0]
<1>1. /\ logs = <<>> /\ tables = <<>> /\ current = 1
      /\ manifests = [n \in {1} |-> <<first>>]
      /\ phase = "down"
      /\ lastSequence = 0 /\ nextFile = 2 /\ logNumber = 0 /\ manifestFile = 0
      /\ version = {} /\ mem = {} /\ imm = {} /\ logfile = 0
      /\ pending = {} /\ bgError = FALSE
      /\ writers = <<>> /\ state = [w \in Writes |-> "idle"]
      /\ room = [force |-> FALSE, delay |-> FALSE] /\ group = NoGroup
      /\ scheduled = FALSE /\ bg = Idle /\ edit = NoEdit
      /\ reader = {} /\ torn = FALSE /\ doubtful = {} /\ faults = 0
  BY DEF Init
<1>2. DOMAIN logs = {} /\ DOMAIN tables = {} /\ DOMAIN manifests = {1}
      /\ Records = <<first>>
  <2>1. DOMAIN manifests = {1} /\ manifests[1] = <<first>>
    <3> HIDE DEF first
    <3> QED  BY <1>1
  <2>2. DOMAIN logs = {} /\ DOMAIN tables = {}
    <3>1. logs = <<>> /\ tables = <<>>  BY <1>1
    <3> QED  BY <3>1
  <2>3. current = 1  BY <1>1
  <2> HIDE DEF first
  <2> QED  BY <2>1, <2>2, <2>3 DEF Records
<1>3. first \in Described  BY DEF Described
<1> HIDE DEF first
<1>4. IsFileMap(logs, Log) /\ IsFileMap(tables, EntrySets) /\ IsFileMap(tables, SUBSET Entries)
  BY <1>2, FileMapBy, FS_EmptySet
<1>5. IsFileMap(manifests, Seq(Described) \ {<<>>}) /\ IsFileMap(manifests, Seq(Described))
  <2>1. IsFiniteSet(DOMAIN manifests)  BY <1>2, FS_Singleton
  <2>2. <<first>> \in Seq(Described) \ {<<>>}  BY <1>3
  <2>3. \A n \in DOMAIN manifests : n \in Nat /\ manifests[n] \in Seq(Described) \ {<<>>}
    BY <1>1, <1>2, <2>2
  <2>4. IsFileMap(manifests, Seq(Described) \ {<<>>})  BY <2>1, <2>3, FileMapBy
  <2> QED  BY <2>4, FileMapWider
<1>6. Types
  <2>1. /\ group \in [size : Nat, entries : EntrySets] /\ group.entries \subseteq Entries
        /\ group.size \in Nat /\ mem \in EntrySets
    BY <1>1, NoEntries DEF NoGroup
  <2>2. bg \in Background /\ edit \in Edit  BY <1>1 DEF Background, Edit, Idle, NoEdit
  <2>3. writers \in Seq(Writes) /\ IsInjective(writers)  BY <1>1 DEF IsInjective
  <2>4. state \in [Writes -> WriterStates] /\ faults \in 0..MaxFaults
    BY <1>1, TriggersAssumption DEF WriterStates
  <2>5. /\ phase \in {"down", "replay", "describe", "rename", "clean", "open"}
        /\ {lastSequence, nextFile, logNumber, manifestFile, logfile} \subseteq Nat
        /\ version \subseteq Nat \X Nat
        /\ mem \subseteq Entries /\ imm \subseteq SUBSET Entries /\ \A m, n \in imm : m = n
        /\ imm \subseteq EntrySets
        /\ pending \subseteq Nat /\ bgError \in BOOLEAN
        /\ room \in [force : BOOLEAN, delay : BOOLEAN]
        /\ scheduled \in BOOLEAN /\ reader \subseteq SUBSET Nat
    <3>1. phase = "down" /\ bgError = FALSE /\ scheduled = FALSE
          /\ room = [force |-> FALSE, delay |-> FALSE]
      BY <1>1
    <3>2. version = {} /\ mem = {} /\ imm = {} /\ pending = {} /\ reader = {}
      BY <1>1
    <3>3. {lastSequence, nextFile, logNumber, manifestFile, logfile} \subseteq Nat
      BY <1>1
    <3> QED  BY <3>1, <3>2, <3>3
  <2>6. current \in DOMAIN manifests  BY <1>1, <1>2
  <2>7. \A l \in DOMAIN logs : /\ l \in Nat /\ logs[l].sound \in 0..Len(logs[l].records)
                               /\ logs[l].synced \in 0..logs[l].sound
    BY <1>2
  <2>t. torn \in BOOLEAN /\ doubtful \subseteq Batches  BY <1>1
  <2>8. TypeOK  BY <2>t, <1>4, <1>5, <2>1, <2>2, <2>3, <2>4, <2>5, <2>6, <2>7 DEF TypeOK
  <2>9. MoreTypes  BY <1>2, <1>4, <1>5, <2>1, <2>5 DEF MoreTypes
  <2> QED  BY <2>8, <2>9 DEF Types
<1>7. QueueInv
  <2>1. ToSet(writers) = {} /\ DOMAIN writers = {}  BY <1>1 DEF ToSet
  <2>2. \A w \in Writes : state[w] \notin Waiting /\ state[w] \notin Grouped
    BY <1>1 DEF Waiting, Grouped
  <2> QED  BY <2>1, <2>2 DEF QueueInv
<1>8. DescriptorsInv
  <2>1. DOMAIN Records = {1} /\ Records[1].files = {} /\ Records[1].next = 2
    BY <1>2 DEF first
  <2>2. Numbers(Records[1].files) = {}  BY <2>1 DEF Numbers
  <2>3. current < Records[1].next /\ Records[1].next <= Records[1].next
    <3>1. current = 1  BY <1>1
    <3> QED  BY <2>1, <3>1
  <2> HIDE DEF Records, Numbers
  <2> QED  BY <2>1, <2>2, <2>3 DEF DescriptorsInv
<1>9. OpeningInv /\ RunningInv /\ AgreeInv
  BY <1>1 DEF OpeningInv, Opening, RunningInv, AgreeInv, Running
<1>10. StagesInv /\ EditInv  BY <1>1 DEF StagesInv, EditInv, Idle
<1>11. Quiet  BY <1>1 DEF Quiet
<1> QED  BY <1>6, <1>7, <1>8, <1>9, <1>10, <1>11 DEF IInv, FilesInv

\* A step that changes nothing keeps the invariant.
LEMMA StutterKeeps == IInv /\ UNCHANGED vars => IInv'
<1> SUFFICES ASSUME IInv, UNCHANGED vars PROVE IInv'  OBVIOUS
<1>1. UNCHANGED <<logs, tables, manifests, current, phase, lastSequence, nextFile, logNumber,
                  manifestFile, version, mem, imm, logfile, torn, doubtful, pending, bgError,
                  writers, state, room, group, scheduled, bg, edit, reader, faults>>
  BY DEF vars, directory, numbers, memtables, queue
<1>2. Types'  BY <1>1 DEF IInv, Types, TypeOK, MoreTypes
<1>3. QueueInv'  BY <1>1 DEF IInv, QueueInv
<1>4. Quiet'  BY <1>1 DEF IInv, Quiet
<1>5. FilesInv'  BY <1>1, FilesKept DEF IInv, fileState
<1> QED  BY <1>2, <1>3, <1>4, <1>5 DEF IInv

\* Every step keeps the invariant.
LEMMA StepKeeps == IInv /\ [Next]_vars => IInv'
<1> SUFFICES ASSUME IInv, Next PROVE IInv'  BY StutterKeeps
<1>1. ASSUME NEW w \in Writes, Write(w) \/ WriterStep(w) PROVE IInv'
  BY <1>1, WriteKeeps, RoomErrorKeeps, RoomDelayKeeps, RoomFoundKeeps, RoomWaitKeeps,
     RoomSwitchKeeps, RoomFailsKeeps, AddRecordKeeps, SyncLogKeeps, FinishGroupKeeps
     DEF WriterStep, Room
<1>2. ASSUME BackgroundStep PROVE IInv'
  BY <1>2, BackgroundGivesUpKeeps, CompactMemTableKeeps, BuildTableKeeps, StartCompactionKeeps,
     OpenCompactionOutputFileKeeps, FinishCompactionOutputFileKeeps,
     InstallCompactionResultsKeeps, AppendToDescriptorKeeps, SyncDescriptorKeeps, CleanUpKeeps
     DEF BackgroundStep
<1>3. ASSUME RefVersion \/ UnrefVersion PROVE IInv'
  BY <1>3, ReaderKeeps
<1>4. ASSUME NEW machine \in BOOLEAN, Crash(machine) PROVE IInv'
  BY <1>4, CrashKeeps
<1>5. ASSUME OpenStep PROVE IInv'
  BY <1>5, RecoverKeeps, RecoverLogFileKeeps, OpenLogKeeps, NewDescriptorKeeps,
     SetCurrentFileKeeps, FinishOpenKeeps
     DEF OpenStep
<1> QED  BY <1>1, <1>2, <1>3, <1>4, <1>5 DEF Next

\* The invariant holds in every state of every behaviour.
THEOREM Invariance == Spec => []IInv
BY InitKeeps, StepKeeps, PTL DEF Spec

\* The types hold: in particular BuildBatchGroup always finds a group, and the
\* queue of writers never holds a write twice.
THEOREM TypeCorrect == Spec => []TypeOK
BY Invariance, PTL DEF IInv, Types

\* The invariant implies that the files the database needs are there.
LEMMA FilesInvImplies == IInv => FilesAreThere
<1> SUFFICES ASSUME IInv PROVE FilesAreThere  OBVIOUS
<1>0. Types /\ FilesInv  BY DEF IInv
<1>1. Numbers(Descriptor.files) \subseteq DOMAIN tables
  BY <1>0, RecordsTyped DEF FilesInv, DescriptorsInv
<1>2. Numbers(version) \cup Numbers(bg.inputs) \subseteq DOMAIN tables /\ UNION reader \subseteq DOMAIN tables
  <2>1. CASE Running  BY <1>0, <2>1 DEF FilesInv, RunningInv
  <2>2. CASE Opening
    <3>1. bg = Idle /\ reader = {}  BY <2>2 DEF IInv, Quiet, Opening
    <3>2. Numbers(bg.inputs) = {}  BY <3>1 DEF Idle, Numbers
    <3>3. version = Descriptor.files  BY <1>0, <2>2 DEF FilesInv, OpeningInv
    <3> QED  BY <1>1, <3>1, <3>2, <3>3
  <2>3. CASE phase = "down"
    <3>1. bg = Idle /\ reader = {} /\ version = {}  BY <2>3 DEF IInv, Quiet
    <3>2. Numbers(bg.inputs) = {} /\ Numbers(version) = {}  BY <3>1 DEF Idle, Numbers
    <3> QED  BY <3>1, <3>2
  <2> QED  BY <1>0, <2>1, <2>2, <2>3 DEF Types, TypeOK, Running, Opening
<1> QED  BY <1>1, <1>2 DEF FilesAreThere

\* Whatever the moment the database can be opened again, and no reader and no
\* compaction finds a table file of its version missing.
THEOREM FilesAlwaysThere == Spec => []FilesAreThere
BY Invariance, FilesInvImplies, PTL

------------------------------------------------------------------------------
(***************************************************************************)
(* LevelDB implements KVStore: its initial states map to initial states,   *)
(* and each of its steps to a step or to a stutter.  First, entries in     *)
(* the order of their sequence numbers.                                    *)
(***************************************************************************)
UpTo(S, e) == {d \in S : d[1] <= e[1]}
Rank(S, e) == Cardinality(UpTo(S, e))
Distinct(S) == \A e, f \in S : e[1] = f[1] => e = f

\* An entry has a number and a batch.
LEMMA EntryIs ==
  ASSUME NEW S \in EntrySets, NEW e \in S
  PROVE  e[1] \in Nat /\ e[2] \in Batches /\ e = <<e[1], e[2]>>
BY DEF EntrySets, Entries

\* Ranks are numbers from one, and grow with the sequence numbers.
LEMMA RankIs ==
  ASSUME NEW S \in EntrySets
  PROVE  /\ \A e \in S : Rank(S, e) \in 1..Cardinality(S)
         /\ \A e, f \in S : e[1] < f[1] => Rank(S, e) < Rank(S, f)
<1>0. IsFiniteSet(S) /\ Cardinality(S) \in Nat  BY FS_CardinalityType DEF EntrySets
<1>1. ASSUME NEW e \in S
      PROVE  /\ IsFiniteSet(UpTo(S, e)) /\ Rank(S, e) \in 1..Cardinality(S)
  <2>1. UpTo(S, e) \in SUBSET S /\ e \in UpTo(S, e)
    <3>1. e[1] \in Nat  BY EntryIs
    <3> QED  BY <3>1 DEF UpTo
  <2>2. IsFiniteSet(UpTo(S, e)) /\ Cardinality(UpTo(S, e)) <= Cardinality(S)
    BY <1>0, <2>1, FS_Subset
  <2>3. Cardinality(UpTo(S, e)) \in Nat /\ Cardinality(UpTo(S, e)) # 0
    BY <2>1, <2>2, FS_CardinalityType, FS_EmptySet
  <2> QED  BY <1>0, <2>2, <2>3 DEF Rank
<1>2. ASSUME NEW e \in S, NEW f \in S, e[1] < f[1]
      PROVE  Rank(S, e) < Rank(S, f)
  <2>1. e[1] \in Nat /\ f[1] \in Nat /\ \A d \in S : d[1] \in Nat  BY EntryIs
  <2>2. UpTo(S, e) \in SUBSET UpTo(S, f)  BY <1>2, <2>1 DEF UpTo
  <2>3. f \in UpTo(S, f) /\ f \notin UpTo(S, e)  BY <1>2, <2>1 DEF UpTo
  <2>4. /\ Cardinality(UpTo(S, e)) <= Cardinality(UpTo(S, f))
        /\ Cardinality(UpTo(S, f)) # Cardinality(UpTo(S, e))
    BY <1>1, <2>2, <2>3, FS_Subset
  <2>5. Rank(S, e) \in Nat /\ Rank(S, f) \in Nat  BY <1>0, <1>1
  <2> QED  BY <2>4, <2>5 DEF Rank
<1> QED  BY <1>1, <1>2

\* Each rank is that of one entry.
LEMMA RankIsBijective ==
  ASSUME NEW S \in EntrySets, Distinct(S)
  PROVE  /\ \A e, f \in S : Rank(S, e) = Rank(S, f) => e = f
         /\ \A i \in 1..Cardinality(S) : \E e \in S : Rank(S, e) = i
<1> DEFINE rank == [e \in S |-> Rank(S, e)]
           n == Cardinality(S)
<1>0. IsFiniteSet(S) /\ n \in Nat  BY FS_CardinalityType DEF EntrySets
<1>1. ASSUME NEW e \in S, NEW f \in S, Rank(S, e) = Rank(S, f)
      PROVE  e = f
  <2>1. e[1] \in Nat /\ f[1] \in Nat  BY EntryIs
  <2>2. Rank(S, e) \in 1..n /\ Rank(S, f) \in 1..n  BY RankIs
  <2>3. ~ (e[1] < f[1]) /\ ~ (f[1] < e[1])  BY <1>0, <1>1, <2>2, RankIs
  <2>4. e[1] = f[1]  BY <2>1, <2>3
  <2> QED  BY <2>4 DEF Distinct
<1>2. rank \in [S -> 1..n]
  <2>1. \A e \in S : Rank(S, e) \in 1..n  BY RankIs
  <2> QED  BY <2>1
<1>3. \A e, f \in S : rank[e] = rank[f] => e = f  BY <1>1
<1>4. rank \in Injection(S, 1..n)  BY <1>2, <1>3 DEF Injection, IsInjective
<1>5. IsFiniteSet(1..n) /\ Cardinality(1..n) = n  BY <1>0, FS_Interval
<1>6. rank \in Surjection(S, 1..n)  BY <1>4, <1>5, FS_Injection
<1>7. \A i \in 1..n : \E e \in S : rank[e] = i  BY <1>6 DEF Surjection
<1> QED  BY <1>1, <1>7

\* InOrder lists the batches by rank.
LEMMA InOrderIs ==
  ASSUME NEW S \in EntrySets, Distinct(S)
  PROVE  /\ InOrder(S) \in Seq(Batches) /\ Len(InOrder(S)) = Cardinality(S)
         /\ DOMAIN InOrder(S) = 1..Cardinality(S) /\ Cardinality(S) \in Nat
         /\ \A e \in S : InOrder(S)[Rank(S, e)] = e[2]
<1>0. Cardinality(S) \in Nat  BY FS_CardinalityType DEF EntrySets
<1> DEFINE Ranked(i) == CHOOSE e \in S : Rank(S, e) = i
<1>1. ASSUME NEW i \in 1..Cardinality(S)
      PROVE  Ranked(i) \in S /\ Rank(S, Ranked(i)) = i
  BY RankIsBijective
<1>2. InOrder(S) = [i \in 1..Cardinality(S) |-> Ranked(i)[2]]
  BY DEF InOrder, Rank, UpTo
<1>3. \A i \in 1..Cardinality(S) : Ranked(i)[2] \in Batches
  BY <1>1, EntryIs
<1>4. ASSUME NEW e \in S
      PROVE  Rank(S, e) \in 1..Cardinality(S) /\ Ranked(Rank(S, e)) = e
  <2>1. Rank(S, e) \in 1..Cardinality(S)  BY RankIs
  <2>2. Rank(S, Ranked(Rank(S, e))) = Rank(S, e) /\ Ranked(Rank(S, e)) \in S  BY <1>1, <2>1
  <2> HIDE DEF Ranked
  <2> QED  BY <2>1, <2>2, RankIsBijective
<1> HIDE DEF Ranked
<1>5. InOrder(S) \in [1..Cardinality(S) -> Batches]  BY <1>2, <1>3
<1>6. InOrder(S) \in Seq(Batches)  BY <1>0, <1>5
<1>7. DOMAIN InOrder(S) = 1..Cardinality(S)  BY <1>2
<1>8. Len(InOrder(S)) = Cardinality(S)  BY <1>0, <1>6, <1>7, LenProperties
<1>9. \A e \in S : InOrder(S)[Rank(S, e)] = e[2]  BY <1>2, <1>4
<1> QED  BY <1>0, <1>6, <1>7, <1>8, <1>9

\* It lists the batches of S.
LEMMA InOrderHolds ==
  ASSUME NEW S \in EntrySets, Distinct(S)
  PROVE  /\ ToSet(InOrder(S)) = {e[2] : e \in S}
         /\ \A i \in DOMAIN InOrder(S) : \E e \in S : Rank(S, e) = i /\ InOrder(S)[i] = e[2]
<1>1. ASSUME NEW i \in DOMAIN InOrder(S)
      PROVE  \E e \in S : Rank(S, e) = i /\ InOrder(S)[i] = e[2]
  <2>1. i \in 1..Cardinality(S)  BY InOrderIs
  <2>2. PICK e \in S : Rank(S, e) = i  BY <2>1, RankIsBijective
  <2> QED  BY <2>2, InOrderIs
<1>2. ASSUME NEW e \in S
      PROVE  Rank(S, e) \in DOMAIN InOrder(S) /\ InOrder(S)[Rank(S, e)] = e[2]
  BY InOrderIs, RankIs
<1> QED  BY <1>1, <1>2 DEF ToSet

\* What is added behind every other entry extends the list.
LEMMA InOrderExtends ==
  ASSUME NEW S \in EntrySets, NEW T \in EntrySets, Distinct(T), S \subseteq T,
         \A e \in S, f \in T \ S : e[1] < f[1]
  PROVE  IsPrefix(InOrder(S), InOrder(T))
<1>0. Distinct(S)  BY DEF Distinct
<1> DEFINE s == InOrder(S)  t == InOrder(T)  n == Cardinality(S)  m == Cardinality(T)
<1>1. /\ s \in Seq(Batches) /\ Len(s) = n /\ DOMAIN s = 1..n /\ n \in Nat
      /\ t \in Seq(Batches) /\ Len(t) = m /\ DOMAIN t = 1..m /\ m \in Nat
  BY <1>0, InOrderIs
<1>2. n <= m
  <2>1. IsFiniteSet(T) /\ S \in SUBSET T  BY DEF EntrySets
  <2> QED  BY <2>1, FS_Subset
<1>3. ASSUME NEW e \in S
      PROVE  Rank(S, e) = Rank(T, e)
  <2>1. \A d \in T : d[1] \in Nat  BY EntryIs
  <2>2. UpTo(S, e) = UpTo(T, e)
    <3>1. \A d \in T \ S : ~ (d[1] <= e[1])  BY <2>1
    <3> QED  BY <3>1 DEF UpTo
  <2> QED  BY <2>2 DEF Rank
<1>4. ASSUME NEW i \in 1..n
      PROVE  s[i] = t[i]
  <2>1. PICK e \in S : Rank(S, e) = i  BY <1>0, RankIsBijective
  <2>2. s[i] = e[2]  BY <1>0, <2>1, InOrderIs
  <2>3. t[i] = e[2]  BY <1>3, <2>1, InOrderIs
  <2> QED  BY <2>2, <2>3
<1> HIDE DEF s, t, n, m
<1>5. SubSeq(s, 1, Len(s)) = SubSeq(t, 1, Len(s))  BY <1>1, <1>2, <1>4
<1>6. IsPrefix(s, t)  BY <1>1, <1>2, <1>5 DEF IsPrefix
<1> QED  BY <1>6 DEF s, t

\* Two selections of the same entries list them in the same order.
LEMMA InOrderAgrees ==
  ASSUME NEW S \in EntrySets, NEW T \in EntrySets,
         \A e, f \in S \cup T : e[1] = f[1] <=> e[2] = f[2],
         NEW i \in DOMAIN InOrder(T), NEW j \in DOMAIN InOrder(T), i < j,
         NEW k \in DOMAIN InOrder(S), NEW l \in DOMAIN InOrder(S), k < l,
         InOrder(S)[k] = InOrder(T)[j], InOrder(S)[l] = InOrder(T)[i]
  PROVE  FALSE
<1>0. \A e \in S \cup T : e[1] \in Nat /\ e = <<e[1], e[2]>>  BY EntryIs
<1>1. Distinct(S) /\ Distinct(T)  BY <1>0 DEF Distinct
<1>2. PICK ti \in T : Rank(T, ti) = i /\ InOrder(T)[i] = ti[2]  BY <1>1, InOrderHolds
<1>3. PICK tj \in T : Rank(T, tj) = j /\ InOrder(T)[j] = tj[2]  BY <1>1, InOrderHolds
<1>4. PICK sk \in S : Rank(S, sk) = k /\ InOrder(S)[k] = sk[2]  BY <1>1, InOrderHolds
<1>5. PICK sl \in S : Rank(S, sl) = l /\ InOrder(S)[l] = sl[2]  BY <1>1, InOrderHolds
<1>6. sk[1] = tj[1] /\ sl[1] = ti[1]
  <2>1. sk[2] = tj[2] /\ sl[2] = ti[2]  BY <1>2, <1>3, <1>4, <1>5
  <2> QED  BY <2>1
<1>7. i \in Nat /\ j \in Nat /\ k \in Nat /\ l \in Nat
  <2>1. DOMAIN InOrder(S) \subseteq Nat /\ DOMAIN InOrder(T) \subseteq Nat
    <3>1. DOMAIN InOrder(S) = 1..Cardinality(S) /\ DOMAIN InOrder(T) = 1..Cardinality(T)
      BY <1>1, InOrderIs
    <3> QED  BY <3>1
  <2> QED  BY <2>1
<1>8. ~ (tj[1] < ti[1])
  <2>1. tj[1] < ti[1] => j < i  BY <1>2, <1>3, RankIs
  <2> QED  BY <1>7, <2>1
<1>9. ~ (sl[1] < sk[1])
  <2>1. sl[1] < sk[1] => l < k  BY <1>4, <1>5, RankIs
  <2> QED  BY <1>7, <2>1
<1>10. ti[1] = tj[1]  BY <1>0, <1>6, <1>8, <1>9
<1>11. ti = tj  BY <1>1, <1>10 DEF Distinct
<1> QED  BY <1>2, <1>3, <1>7, <1>11

------------------------------------------------------------------------------

(***************************************************************************)
(* What is where.                                                          *)
(***************************************************************************)
\* What may end, and how many of a log's records are sure to outlast it.
Ends == {"process", "machine"}
Lasting(log, u) == IF u = "machine" THEN log.synced ELSE log.sound

\* What table files hold, what log files hold, and what of it is sure to outlast an end.
In(f, ns)      == UNION {f[n] : n \in ns \cap DOMAIN f}
Whole(f, ls)   == UNION {UNION ToSet(f[l].records) : l \in ls}
Firm(f, ls, u) == UNION {UNION {f[l].records[k] : k \in 1..Lasting(f[l], u)} : l \in ls}
Since(f, n)    == {l \in DOMAIN f : n <= l}
Before(f, m, n) == {l \in DOMAIN f : m <= l /\ l < n}

Tabled   == In(tables, Numbers(version))
Seen     == mem \cup (UNION imm) \cup Tabled
Files(i) == In(tables, Numbers(Records[i].files))
Found(i) == Files(i) \cup Whole(logs, Since(logs, Records[i].log))
Sure(i, u)  == Files(i) \cup Firm(logs, Since(logs, Records[i].log), u)
Stored   == IF phase = "open" THEN Seen ELSE Found(Len(Records))
All      == mem \cup (UNION imm) \cup group.entries
              \cup In(tables, DOMAIN tables) \cup Whole(logs, DOMAIN logs)

\* What an end may not take: nothing doubtful, and of the machine only what was
\* acknowledged with sync.
Safe(e, u) == e[2] \notin doubtful /\ (u = "machine" => state[e[2]] = "ok" /\ e[2] \in Synced)

\* Sequence numbers and batches belong together, and new ones come after all others.
EntriesInv ==
  /\ \A e, f \in All : e[1] = f[1] <=> e[2] = f[2]
  /\ \A e \in All \ group.entries : state[e[2]] \in Answers
  /\ phase = "open" => \A e \in All \ group.entries : e[1] <= lastSequence

\* The group being written: the batches of the writers it takes.
GroupInv ==
  /\ (\A w \in Writes : state[w] \notin Grouped) => group = NoGroup
  /\ \A w \in Writes : state[w] \in Grouped =>
       /\ w \in Batches
       /\ \A e \in group.entries : \E i \in 1..group.size : writers[i] = e[2]
       /\ \A i \in 1..group.size : writers[i] \in Batches =>
            \E e \in group.entries : e[2] = writers[i]
       /\ \A e \in group.entries :
            lastSequence < e[1] /\ e[1] <= lastSequence + Cardinality(group.entries)
       /\ w \notin Synced => \A e \in group.entries : e[2] \notin Synced

\* How far the group's record is.
WritingInv ==
  \A w \in Writes :
    /\ state[w] \in {"sync", "insert"} =>
         /\ group.entries \subseteq Whole(logs, {logfile})
         /\ ~torn => group.entries \subseteq Firm(logs, {logfile}, "process")
    /\ state[w] = "insert" /\ w \in Synced /\ ~torn =>
         group.entries \subseteq Firm(logs, {logfile}, "machine")

\* The log in use is sound as long as no write to it failed.
TornInv ==
  phase = "open" /\ ~torn /\ (\A w \in Writes : state[w] # "failed") =>
    logs[logfile].sound = Len(logs[logfile].records)

\* The numbers each record of the descriptor restarts from.
SequenceInv ==
  \A i \in DOMAIN Records :
    /\ Records[i].log < Records[i].next
    /\ \A e \in Files(i) : e[1] <= Records[i].last

\* The memtable is in its log; the one being flushed is in its log or in the tables
\* of the record; the logs hold nothing else that was acknowledged.
MemtablesInv ==
  phase = "open" =>
    /\ logfile \in DOMAIN logs /\ \A l \in DOMAIN logs : l <= logfile
    /\ mem \subseteq Whole(logs, {logfile})
    /\ \A u \in Ends, e \in mem : Safe(e, u) => e \in Firm(logs, {logfile}, u)
    /\ \A e \in Seen : e[1] <= lastSequence
    /\ \A e \in Whole(logs, Since(logs, logNumber)) : state[e[2]] = "ok" => e \in Seen

BackedUpInv ==
  phase = "open" =>
    \A i \in DOMAIN Records :
      LET old == Before(logs, Records[i].log, logfile)
      IN  /\ logNumber <= Records[i].log /\ Records[i].log <= logfile
          /\ Tabled \subseteq Files(i) /\ Files(i) \subseteq Tabled \cup (UNION imm)
          /\ UNION imm \subseteq Files(i) \cup Whole(logs, old)
          /\ \A u \in Ends, e \in UNION imm : Safe(e, u) => e \in Files(i) \cup Firm(logs, old, u)

\* What the background thread writes is no file of the version or of a record, and
\* holds what it replaces.
OutputInv ==
  phase = "open" =>
    /\ bg.inputs \subseteq version
    /\ bg.at = "build" =>
         /\ bg.flush \notin Numbers(version)
         /\ \A i \in DOMAIN Records : bg.flush \notin Numbers(Records[i].files)
    /\ bg.inputs # {} /\ bg.output # 0 =>
         /\ bg.output \notin Numbers(version)
         /\ \A i \in DOMAIN Records : bg.output \in Numbers(Records[i].files) =>
              bg.at = "sync" /\ bg.flush = 0 /\ i = Len(Records)
         /\ tables[bg.output] \in {{}, In(tables, Numbers(bg.inputs))}

EditHolds ==
  phase = "open" /\ bg.at \in {"append", "sync"} =>
    /\ edit.log < edit.next
    /\ \A e \in Files(Len(Records)) \cup In(tables, Numbers(edit.add)) : e[1] <= edit.last
    /\ IF bg.flush # 0
       THEN /\ edit.del = {} /\ edit.log = logfile /\ Numbers(edit.add) \subseteq {bg.flush}
            /\ In(tables, Numbers(edit.add)) = UNION imm
       ELSE /\ edit.del = bg.inputs /\ edit.log = logNumber
            /\ edit.add = {<<1, bg.output>>}
            /\ tables[bg.output] = In(tables, Numbers(bg.inputs))

\* What is left of the logs is sound.  Whichever record a crash of the machine leaves,
\* nothing comes back that was acknowledged and lost, and nothing acknowledged with sync
\* is lost, except for what is doubtful.
ClosedInv ==
  phase # "open" =>
    /\ \A l \in DOMAIN logs : logs[l].sound = Len(logs[l].records)
    /\ \A i \in DOMAIN Records :
         /\ \A e \in Found(i) :
              state[e[2]] = "ok" /\ e[2] \notin doubtful => e \in Found(Len(Records))
         /\ \A e \in Found(Len(Records)) : Safe(e, "machine") => e \in Sure(i, "machine")

\* What Open has read so far.
ReplayInv ==
  Opening =>
    /\ In(tables, Numbers(edit.add)) =
         Whole(logs, {l \in Since(logs, logNumber) : l <= logfile})
    /\ \A e \in Tabled \cup In(tables, Numbers(edit.add)) : e[1] <= lastSequence
    /\ logfile < nextFile

\* The log of a database that opens is its newest and is empty.
NewLogInv ==
  phase \in {"describe", "rename", "clean"} =>
    /\ logfile \in DOMAIN logs /\ \A l \in DOMAIN logs : l <= logfile
    /\ Whole(logs, {logfile}) = {}
    /\ phase = "clean" => logNumber = logfile /\ \A e \in Tabled : e[1] <= lastSequence

Contained ==
  /\ EntriesInv /\ GroupInv /\ WritingInv /\ TornInv /\ SequenceInv /\ MemtablesInv
  /\ BackedUpInv /\ OutputInv /\ EditHolds /\ ClosedInv /\ ReplayInv /\ NewLogInv

------------------------------------------------------------------------------

(***************************************************************************)
(* Tables and logs.                                                        *)
(***************************************************************************)
\* An entry in tables is in one of them,
LEMMA InIs ==
  ASSUME NEW f, NEW ns, NEW e
  PROVE  e \in In(f, ns) <=> \E n \in ns : n \in DOMAIN f /\ e \in f[n]
BY DEF In

\* and an entry in logs in a record of one of them.
LEMMA WholeIs ==
  ASSUME NEW f, NEW ls, NEW e
  PROVE  e \in Whole(f, ls) <=> \E l \in ls : e \in UNION ToSet(f[l].records)
BY DEF Whole

\* So is one that outlasts an end.
LEMMA FirmIs ==
  ASSUME NEW f, NEW ls, NEW u, NEW e
  PROVE  e \in Firm(f, ls, u)
           <=> \E l \in ls : \E k \in 1..Lasting(f[l], u) : e \in f[l].records[k]
BY DEF Firm

\* What outlasts it of one log.
LEMMA FirmOne ==
  ASSUME NEW f, NEW n, NEW u, NEW e
  PROVE  e \in Firm(f, {n}, u) <=> \E k \in 1..Lasting(f[n], u) : e \in f[n].records[k]
BY DEF Firm

\* As many of a log's records outlast an end as it has, or fewer.
LEMMA LastingTyped ==
  ASSUME NEW log \in Log, NEW u
  PROVE  /\ log.records \in Seq(EntrySets) /\ Len(log.records) \in Nat
         /\ DOMAIN log.records = 1..Len(log.records)
         /\ Lasting(log, u) \in Nat /\ Lasting(log, u) <= Len(log.records)
<1>1. /\ log.records \in Seq(EntrySets) /\ log.sound \in Nat /\ log.synced \in Nat
      /\ log.synced <= log.sound /\ log.sound <= Len(log.records)
  BY DEF Log, LogShape
<1>2. Len(log.records) \in Nat /\ DOMAIN log.records = 1..Len(log.records)
  BY <1>1, LenProperties
<1> QED  BY <1>1, <1>2 DEF Lasting

\* Tables taken together hold what each holds.
LEMMA InUnion ==
  ASSUME NEW f, NEW ls, NEW ms, NEW ns, ns = ls \cup ms
  PROVE  In(f, ns) = In(f, ls) \cup In(f, ms)
BY InIs

\* Fewer tables hold less,
LEMMA InFewer ==
  ASSUME NEW f, NEW ns, NEW ms \in SUBSET ns
  PROVE  In(f, ms) \subseteq In(f, ns)
BY InIs

\* none hold nothing,
LEMMA InNone ==
  ASSUME NEW f
  PROVE  In(f, {}) = {}
BY InIs

\* and one holds its own.
LEMMA InOne ==
  ASSUME NEW f, NEW n \in DOMAIN f
  PROVE  In(f, {n}) = f[n]
BY InIs

\* Only the tables themselves matter.
LEMMA InSame ==
  ASSUME NEW f, NEW g, NEW ns,
         \A n \in ns : /\ n \in DOMAIN f <=> n \in DOMAIN g
                       /\ n \in DOMAIN f => f[n] = g[n]
  PROVE  In(f, ns) = In(g, ns)
<1>1. \A e : e \in In(f, ns) <=> e \in In(g, ns)  BY InIs
<1> QED  BY <1>1

\* A table that is written changes no other one.
LEMMA InPut ==
  ASSUME NEW f, NEW n, NEW x, NEW g, g = Put(f, n, x), NEW ns, n \notin ns
  PROVE  In(g, ns) = In(f, ns)
<1>1. /\ DOMAIN g = DOMAIN f \cup {n} /\ g[n] = x
      /\ \A k \in DOMAIN f : k # n => g[k] = f[k]
  BY DEF Put
<1>2. \A k \in ns : /\ k \in DOMAIN g <=> k \in DOMAIN f
                    /\ k \in DOMAIN g => g[k] = f[k]
  BY <1>1
<1> QED  BY <1>2, InSame

\* All tables hold what was written beside what they held.
LEMMA InPutAll ==
  ASSUME NEW f, NEW n, NEW x, NEW g, g = Put(f, n, x)
  PROVE  /\ DOMAIN g = DOMAIN f \cup {n} /\ In(g, {n}) = x /\ g[n] = x
         /\ In(g, DOMAIN g) \subseteq In(f, DOMAIN f) \cup x
<1>1. /\ DOMAIN g = DOMAIN f \cup {n} /\ g[n] = x
      /\ \A k \in DOMAIN f : k # n => g[k] = f[k]
  BY DEF Put
<1>3. In(g, {n}) = x  BY <1>1, InOne
<1>4. ASSUME NEW e \in In(g, DOMAIN g)
      PROVE  e \in In(f, DOMAIN f) \cup x
  <2>1. PICK k \in DOMAIN g : e \in g[k]  BY InIs
  <2>2. CASE k = n  BY <1>1, <2>1, <2>2
  <2>3. CASE k # n
    <3>1. k \in DOMAIN f /\ e \in f[k]  BY <1>1, <2>1, <2>3
    <3> QED  BY <3>1, InIs
  <2> QED  BY <2>2, <2>3
<1> QED  BY <1>1, <1>3, <1>4

\* Neither does one that is deleted.
LEMMA InDrop ==
  ASSUME NEW f, NEW S, NEW g, g = Drop(f, S), NEW ns, ns \cap S \cap DOMAIN f = {}
  PROVE  In(g, ns) = In(f, ns)
<1>1. DOMAIN g = DOMAIN f \ S /\ \A k \in DOMAIN f \ S : g[k] = f[k]  BY DropIs
<1>2. \A k \in ns : /\ k \in DOMAIN g <=> k \in DOMAIN f
                    /\ k \in DOMAIN g => g[k] = f[k]
  BY <1>1
<1> QED  BY <1>2, InSame

\* What is left of all tables are those not deleted.
LEMMA InDropAll ==
  ASSUME NEW f, NEW S, NEW g, g = Drop(f, S), NEW ns, ns = DOMAIN f \ S
  PROVE  In(g, DOMAIN g) = In(f, ns) /\ In(g, DOMAIN g) \subseteq In(f, DOMAIN f)
<1>1. DOMAIN g = ns  BY DropIs
<1>2. In(g, ns) = In(f, ns)  BY InDrop
<1>3. In(f, ns) \subseteq In(f, DOMAIN f)  BY InIs
<1> QED  BY <1>1, <1>2, <1>3

\* Logs taken together hold what each holds.
LEMMA WholeUnion ==
  ASSUME NEW f, NEW ls, NEW ms, NEW ns, ns = ls \cup ms
  PROVE  /\ Whole(f, ns) = Whole(f, ls) \cup Whole(f, ms)
         /\ \A u : Firm(f, ns, u) = Firm(f, ls, u) \cup Firm(f, ms, u)
<1>1. Whole(f, ns) = Whole(f, ls) \cup Whole(f, ms)  BY WholeIs
<1>2. \A u, e : e \in Firm(f, ns, u) <=> e \in Firm(f, ls, u) \/ e \in Firm(f, ms, u)
  BY FirmIs
<1> QED  BY <1>1, <1>2

\* Fewer logs hold less.
LEMMA WholeFewer ==
  ASSUME NEW f, NEW ms, NEW ls \in SUBSET ms
  PROVE  Whole(f, ls) \subseteq Whole(f, ms) /\ (\A u : Firm(f, ls, u) \subseteq Firm(f, ms, u))
<1>1. ASSUME NEW e \in Whole(f, ls) PROVE e \in Whole(f, ms)
  <2>1. PICK l \in ls : e \in UNION ToSet(f[l].records)  BY WholeIs
  <2>2. l \in ms  OBVIOUS
  <2> QED  BY <2>1, <2>2, WholeIs
<1>2. ASSUME NEW u, NEW e \in Firm(f, ls, u) PROVE e \in Firm(f, ms, u)
  <2>1. PICK l \in ls : \E k \in 1..Lasting(f[l], u) : e \in f[l].records[k]  BY FirmIs
  <2>2. l \in ms  OBVIOUS
  <2> QED  BY <2>1, <2>2, FirmIs
<1> QED  BY <1>1, <1>2

\* Without logs there is nothing.
LEMMA WholeNone ==
  ASSUME NEW f
  PROVE  Whole(f, {}) = {} /\ \A u : Firm(f, {}, u) = {}
BY DEF Whole, Firm

\* Only the logs themselves matter,
LEMMA FirmSame ==
  ASSUME NEW f, NEW g, NEW ls, \A l \in ls : f[l] = g[l], NEW u
  PROVE  Firm(f, ls, u) = Firm(g, ls, u)
<1> SUFFICES ASSUME NEW e PROVE e \in Firm(f, ls, u) <=> e \in Firm(g, ls, u)  OBVIOUS
<1>1. \A l \in ls : (\E k \in 1..Lasting(f[l], u) : e \in f[l].records[k])
                    <=> (\E k \in 1..Lasting(g[l], u) : e \in g[l].records[k])
  OBVIOUS
<1> QED  BY <1>1, FirmIs

\* for whatever outlasts the end.
LEMMA WholeSame ==
  ASSUME NEW f, NEW g, NEW ls, \A l \in ls : f[l] = g[l]
  PROVE  Whole(f, ls) = Whole(g, ls) /\ (\A u : Firm(f, ls, u) = Firm(g, ls, u))
<1>1. \A e : e \in Whole(f, ls) <=> e \in Whole(g, ls)  BY WholeIs
<1>2. \A u : Firm(f, ls, u) = Firm(g, ls, u)
  <2>1. ASSUME NEW u PROVE Firm(f, ls, u) = Firm(g, ls, u)  BY FirmSame
  <2> QED  BY <2>1
<1>3. Whole(f, ls) = Whole(g, ls)  BY <1>1
<1> QED  BY <1>2, <1>3

\* What outlasts an end has been written,
LEMMA FirmIsWhole ==
  ASSUME NEW f, IsFileMap(f, Log), NEW ls \in SUBSET DOMAIN f, NEW u
  PROVE  Firm(f, ls, u) \subseteq Whole(f, ls)
<1> SUFFICES ASSUME NEW e \in Firm(f, ls, u) PROVE e \in Whole(f, ls)  OBVIOUS
<1>0. PICK l \in ls : \E k \in 1..Lasting(f[l], u) : e \in f[l].records[k]  BY FirmIs
<1>1. PICK k \in 1..Lasting(f[l], u) : e \in f[l].records[k]  BY <1>0
<1>2. f[l] \in Log  BY FileMapHolds
<1>3. k \in DOMAIN f[l].records  BY <1>2, LastingTyped
<1>4. f[l].records[k] \in ToSet(f[l].records)  BY <1>3 DEF ToSet
<1> QED  BY <1>1, <1>4, WholeIs

\* and all of a log does that is sound, or synced, to its end.
LEMMA WholeIsFirm ==
  ASSUME NEW f, IsFileMap(f, Log), NEW ls \in SUBSET DOMAIN f, NEW u,
         \A l \in ls : Lasting(f[l], u) = Len(f[l].records)
  PROVE  Whole(f, ls) \subseteq Firm(f, ls, u)
<1> SUFFICES ASSUME NEW e \in Whole(f, ls) PROVE e \in Firm(f, ls, u)  OBVIOUS
<1>1. PICK l \in ls : e \in UNION ToSet(f[l].records)  BY WholeIs
<1>2. f[l] \in Log  BY FileMapHolds
<1>3. DOMAIN f[l].records = 1..Lasting(f[l], u)  BY <1>2, LastingTyped
<1>4. \E k \in 1..Lasting(f[l], u) : e \in f[l].records[k]  BY <1>1, <1>3 DEF ToSet
<1> QED  BY <1>4, FirmIs

\* Tables hold finitely many entries.
LEMMA InTyped ==
  ASSUME NEW f, IsFileMap(f, EntrySets), NEW ns
  PROVE  In(f, ns) \in EntrySets
<1> DEFINE present == ns \cap DOMAIN f
           parts == {f[n] : n \in present}
           part == [n \in present |-> f[n]]
<1>1. IsFiniteSet(present)
  BY FS_Intersection DEF IsFileMap
<1>2. part \in Surjection(present, parts)
  BY DEF Surjection
<1>3. IsFiniteSet(parts)
  BY <1>1, <1>2, FS_Surjection
<1>4. parts \subseteq EntrySets
  BY FileMapHolds
<1> QED  BY <1>3, <1>4, AllEntries DEF In

\* So do logs.
LEMMA WholeTyped ==
  ASSUME NEW f, IsFileMap(f, Log), NEW ls \in SUBSET DOMAIN f
  PROVE  Whole(f, ls) \in EntrySets
<1> DEFINE parts == {UNION ToSet(f[l].records) : l \in ls}
           part == [l \in ls |-> UNION ToSet(f[l].records)]
<1>1. IsFiniteSet(ls)
  BY FS_Subset DEF IsFileMap
<1>2. part \in Surjection(ls, parts)
  BY DEF Surjection
<1>3. IsFiniteSet(parts)
  BY <1>1, <1>2, FS_Surjection
<1>4. ASSUME NEW l \in ls
      PROVE  UNION ToSet(f[l].records) \in EntrySets
  <2>1. f[l] \in Log  BY FileMapHolds
  <2>2. f[l].records \in Seq(EntrySets)  BY <2>1, LastingTyped
  <2> QED  BY <2>2, RecordsAreTyped
<1>5. parts \subseteq EntrySets  BY <1>4
<1> QED  BY <1>3, <1>5, AllEntries DEF Whole

\* A new log is empty.
LEMMA NewLogIsEmpty ==
  ASSUME NEW g, NEW n, g[n] = NewLog
  PROVE  Whole(g, {n}) = {} /\ \A u : Firm(g, {n}, u) = {}
<1>1. g[n].records = <<>> /\ \A u : Lasting(g[n], u) = 0  BY DEF NewLog, Lasting
<1>2. UNION ToSet(g[n].records) = {}  BY <1>1 DEF ToSet
<1>3. \A e : e \notin Whole(g, {n})  BY <1>2, WholeIs
<1>4. \A u : 1..Lasting(g[n], u) = {}  BY <1>1
<1>5. \A u, e : e \notin Firm(g, {n}, u)  BY <1>4, FirmOne
<1> QED  BY <1>3, <1>5

\* What the logs hold is the same with a new one.
LEMMA WholeWithNew ==
  ASSUME NEW f, NEW n, n \notin DOMAIN f, NEW g, g = Put(f, n, NewLog),
         NEW ls \in SUBSET DOMAIN f, NEW ms, ms = ls \cup {n}
  PROVE  /\ Whole(g, ls) = Whole(f, ls) /\ (\A u : Firm(g, ls, u) = Firm(f, ls, u))
         /\ Whole(g, ms) = Whole(f, ls) /\ (\A u : Firm(g, ms, u) = Firm(f, ls, u))
<1>1. g[n] = NewLog /\ \A k \in DOMAIN f : g[k] = f[k]
  BY DEF Put
<1>2. Whole(g, ls) = Whole(f, ls) /\ (\A u : Firm(g, ls, u) = Firm(f, ls, u))
  <2>1. \A l \in ls : g[l] = f[l]  BY <1>1
  <2>2. \A u : Firm(g, ls, u) = Firm(f, ls, u)  BY <2>1, WholeSame
  <2> QED  BY <2>1, <2>2, WholeSame
<1>3. /\ \A e : e \in Whole(g, ms) <=> e \in Whole(g, ls)
      /\ \A u, e : e \in Firm(g, ms, u) <=> e \in Firm(g, ls, u)
  <2>1. Whole(g, {n}) = {} /\ \A u : Firm(g, {n}, u) = {}  BY <1>1, NewLogIsEmpty
  <2>2. /\ Whole(g, ms) = Whole(g, ls) \cup Whole(g, {n})
        /\ \A u : Firm(g, ms, u) = Firm(g, ls, u) \cup Firm(g, {n}, u)
    <3>1. Whole(g, ms) = Whole(g, ls) \cup Whole(g, {n})  BY WholeUnion
    <3>2. ASSUME NEW u PROVE Firm(g, ms, u) = Firm(g, ls, u) \cup Firm(g, {n}, u)
      <4>1. \A e : e \in Firm(g, ms, u) <=> e \in Firm(g, ls, u) \/ e \in Firm(g, {n}, u)
        BY FirmIs
      <4> QED  BY <4>1
    <3> QED  BY <3>1, <3>2
  <2>3. ASSUME NEW u PROVE Firm(g, ms, u) = Firm(g, ls, u)
    <3>1. Firm(g, {n}, u) = {}  BY <2>1
    <3> QED  BY <2>2, <3>1
  <2> QED  BY <2>1, <2>2, <2>3
<1> QED  BY <1>2, <1>3

\* Deleting logs leaves the others.
LEMMA WholeDrop ==
  ASSUME NEW f, NEW S, NEW g, g = Drop(f, S),
         NEW ls, ls \cap S = {}, ls \subseteq DOMAIN f
  PROVE  Whole(g, ls) = Whole(f, ls) /\ (\A u : Firm(g, ls, u) = Firm(f, ls, u))
<1>1. \A k \in DOMAIN f \ S : g[k] = f[k]  BY DropIs
<1>2. \A l \in ls : g[l] = f[l]  BY <1>1
<1> QED  BY <1>2, WholeSame

\* A log whose sound records are synced.
LEMMA WholeSynced ==
  ASSUME NEW f, NEW n, NEW g, g[n].records = f[n].records, g[n].sound = f[n].sound,
         g[n].synced = f[n].sound
  PROVE  /\ Whole(g, {n}) = Whole(f, {n})
         /\ \A u : Firm(g, {n}, u) = Firm(f, {n}, "process")
<1>1. Whole(g, {n}) = Whole(f, {n})  BY DEF Whole
<1>2. \A u : Lasting(g[n], u) = Lasting(f[n], "process")  BY DEF Lasting
<1>3. ASSUME NEW u
      PROVE  Firm(g, {n}, u) = Firm(f, {n}, "process")
  <2>1. Lasting(g[n], u) = Lasting(f[n], "process")  BY <1>2
  <2>2. \A e : e \in Firm(g, {n}, u) <=> e \in Firm(f, {n}, "process")  BY <2>1, FirmOne
  <2> QED  BY <2>2
<1> QED  BY <1>1, <1>3

------------------------------------------------------------------------------

(***************************************************************************)
(* What an action leaves alone.                                            *)
(***************************************************************************)
\* Every part of the database holds finitely many of the entries there are.
LEMMA PartsTyped ==
  ASSUME Types
  PROVE  /\ All \in EntrySets /\ Seen \in EntrySets /\ Seen \subseteq All
         /\ mem \subseteq All /\ UNION imm \subseteq All /\ group.entries \subseteq All
         /\ Tabled \subseteq Seen
         /\ \A ns : In(tables, ns) \in EntrySets /\ In(tables, ns) \subseteq All
         /\ \A ls \in SUBSET DOMAIN logs :
              /\ Whole(logs, ls) \in EntrySets /\ Whole(logs, ls) \subseteq All
              /\ \A u : Firm(logs, ls, u) \subseteq Whole(logs, ls)
<1>1. /\ IsFileMap(logs, Log) /\ IsFileMap(tables, EntrySets)
      /\ mem \in EntrySets /\ group.entries \in EntrySets
  BY DEF Types, MoreTypes
<1>2. UNION imm \in EntrySets  BY ImmIsTyped
<1>3. \A ns : In(tables, ns) \in EntrySets  BY <1>1, InTyped
<1>4. ASSUME NEW ns
      PROVE  In(tables, ns) \subseteq All
  <2>1. In(tables, ns) \subseteq In(tables, DOMAIN tables)  BY InIs
  <2> QED  BY <2>1 DEF All
<1>5. \A ls \in SUBSET DOMAIN logs : Whole(logs, ls) \in EntrySets  BY <1>1, WholeTyped
<1>6. ASSUME NEW ls \in SUBSET DOMAIN logs
      PROVE  Whole(logs, ls) \subseteq All /\ \A u : Firm(logs, ls, u) \subseteq Whole(logs, ls)
  <2>1. Whole(logs, ls) \subseteq Whole(logs, DOMAIN logs)  BY WholeFewer
  <2>2. \A u : Firm(logs, ls, u) \subseteq Whole(logs, ls)  BY <1>1, FirmIsWhole
  <2> QED  BY <2>1, <2>2 DEF All
<1>7. Tabled \subseteq All /\ Tabled \in EntrySets  BY <1>3, <1>4 DEF Tabled
<1>8. Seen \in EntrySets
  <2>1. mem \cup (UNION imm) \in EntrySets  BY <1>1, <1>2, MoreEntries
  <2> QED  BY <1>7, <2>1, MoreEntries DEF Seen
<1>9. All \in EntrySets
  <2>1. mem \cup (UNION imm) \in EntrySets  BY <1>1, <1>2, MoreEntries
  <2>2. mem \cup (UNION imm) \cup group.entries \in EntrySets  BY <1>1, <2>1, MoreEntries
  <2>3. mem \cup (UNION imm) \cup group.entries \cup In(tables, DOMAIN tables) \in EntrySets
    BY <1>3, <2>2, MoreEntries
  <2>4. Whole(logs, DOMAIN logs) \in EntrySets  BY <1>5
  <2> QED  BY <2>3, <2>4, MoreEntries DEF All
<1>10. /\ mem \subseteq All /\ UNION imm \subseteq All /\ group.entries \subseteq All
  BY DEF All
<1>11. Seen \subseteq All /\ Tabled \subseteq Seen  BY <1>7, <1>10 DEF Seen
<1> QED  BY <1>3, <1>4, <1>5, <1>6, <1>8, <1>9, <1>10, <1>11

\* So does what each record of the descriptor leads to.
LEMMA FoundTyped ==
  ASSUME Types, NEW i \in DOMAIN Records
  PROVE  /\ Files(i) \subseteq Found(i) /\ Found(i) \in EntrySets /\ Found(i) \subseteq All
         /\ \A u : Sure(i, u) \subseteq Found(i)
<1> DEFINE ls == Since(logs, Records[i].log)
<1>1. ls \in SUBSET DOMAIN logs  BY DEF Since
<1>2. /\ Files(i) \in EntrySets /\ Files(i) \subseteq All
  BY PartsTyped DEF Files
<1> HIDE DEF ls
<1>3. /\ Whole(logs, ls) \in EntrySets /\ Whole(logs, ls) \subseteq All
      /\ \A u : Firm(logs, ls, u) \subseteq Whole(logs, ls)
  BY <1>1, PartsTyped
<1>4. Found(i) = Files(i) \cup Whole(logs, ls) /\ (\A u : Sure(i, u) = Files(i) \cup Firm(logs, ls, u))
  BY DEF Found, Sure, ls
<1>5. Found(i) \in EntrySets  BY <1>2, <1>3, <1>4, MoreEntries
<1> QED  BY <1>2, <1>3, <1>4, <1>5

\* No answer is taken back, and no batch is acknowledged; and no group begins, moves
\* on or ends.
NoAnswer ==
  \A w \in Writes : /\ state[w] \in Answers => state'[w] = state[w]
                    /\ state'[w] = "ok" /\ w \in Batches => state[w] = "ok"
StateStep ==
  /\ NoAnswer
  /\ \A w \in Writes : state[w] \in Grouped \/ state'[w] \in Grouped => state'[w] = state[w]

\* What such a step acknowledges was acknowledged before.
LEMMA Acknowledged ==
  ASSUME NoAnswer, NEW S, S \subseteq All, Types, doubtful \subseteq doubtful'
  PROVE  \A e \in S : /\ e[2] \in Batches
                      /\ state'[e[2]] = "ok" => state[e[2]] = "ok"
                      /\ \A u : Safe(e, u)' => Safe(e, u)
<1>1. \A e \in S : e[2] \in Batches  BY PartsTyped, EntryIs
<1> QED  BY <1>1 DEF NoAnswer, Safe, Writes

\* The group stays as it is, if its record and its writers do.
LEMMA GroupKept ==
  ASSUME IInv, Contained, StateStep, group' = group, phase' = phase,
         lastSequence' = lastSequence, torn' = torn, All' \subseteq All,
         (\E w \in Writes : state[w] \in Grouped) =>
            /\ \A i \in 1..group.size : writers'[i] = writers[i]
            /\ Whole(logs, {logfile}) \subseteq Whole(logs', {logfile'})
            /\ (\A u : Firm(logs, {logfile}, u) \subseteq Firm(logs', {logfile'}, u))
  PROVE  EntriesInv' /\ GroupInv' /\ WritingInv'
<1>0. Types  BY DEF IInv
<1>1. EntriesInv'
  <2>1. \A e, f \in All' : e[1] = f[1] <=> e[2] = f[2]
    BY DEF Contained, EntriesInv
  <2>2. ASSUME NEW e \in All' \ group'.entries
        PROVE  state'[e[2]] \in Answers /\ (phase' = "open" => e[1] <= lastSequence')
    <3>1. e \in All \ group.entries  OBVIOUS
    <3>2. state[e[2]] \in Answers /\ (phase = "open" => e[1] <= lastSequence)
      BY <3>1 DEF Contained, EntriesInv
    <3>3. e[2] \in Batches  BY <1>0, <3>1, PartsTyped, EntryIs
    <3> QED  BY <3>2, <3>3 DEF StateStep, NoAnswer, Writes
  <2> QED  BY <2>1, <2>2 DEF EntriesInv
<1>2. ASSUME NEW w \in Writes, state'[w] \in Grouped
      PROVE  /\ state[w] = state'[w]
             /\ \A i \in 1..group.size : writers'[i] = writers[i]
             /\ Whole(logs, {logfile}) \subseteq Whole(logs', {logfile'})
             /\ (\A u : Firm(logs, {logfile}, u) \subseteq Firm(logs', {logfile'}, u))
  BY <1>2 DEF StateStep
<1>3. GroupInv'
  <2>1. (\A w \in Writes : state'[w] \notin Grouped) => group' = NoGroup
    <3> SUFFICES ASSUME \A w \in Writes : state'[w] \notin Grouped PROVE group' = NoGroup
      OBVIOUS
    <3>1. \A w \in Writes : state[w] \notin Grouped  BY DEF StateStep
    <3> QED  BY <3>1 DEF Contained, GroupInv
  <2>2. ASSUME NEW w \in Writes, state'[w] \in Grouped
        PROVE  /\ w \in Batches
               /\ \A e \in group'.entries : \E i \in 1..group'.size : writers'[i] = e[2]
               /\ \A i \in 1..group'.size : writers'[i] \in Batches =>
                    \E e \in group'.entries : e[2] = writers'[i]
               /\ \A e \in group'.entries :
                    /\ lastSequence' < e[1]
                    /\ e[1] <= lastSequence' + Cardinality(group'.entries)
               /\ w \notin Synced => \A e \in group'.entries : e[2] \notin Synced
    <3>1. state[w] \in Grouped /\ \A i \in 1..group.size : writers'[i] = writers[i]
      BY <1>2, <2>2
    <3> QED  BY <3>1 DEF Contained, GroupInv
  <2> QED  BY <2>1, <2>2 DEF GroupInv
<1>4. WritingInv'
  <2> SUFFICES ASSUME NEW w \in Writes, state'[w] \in {"sync", "insert"}
               PROVE  /\ group'.entries \subseteq Whole(logs', {logfile'})
                      /\ ~torn' => group'.entries \subseteq Firm(logs', {logfile'}, "process")
                      /\ state'[w] = "insert" /\ w \in Synced /\ ~torn' =>
                           group'.entries \subseteq Firm(logs', {logfile'}, "machine")
    BY DEF WritingInv
  <2>1. /\ state[w] = state'[w]
        /\ Whole(logs, {logfile}) \subseteq Whole(logs', {logfile'})
        /\ (\A u : Firm(logs, {logfile}, u) \subseteq Firm(logs', {logfile'}, u))
    BY <1>2 DEF Grouped
  <2>2. /\ group.entries \subseteq Whole(logs, {logfile})
        /\ ~torn => group.entries \subseteq Firm(logs, {logfile}, "process")
        /\ state[w] = "insert" /\ w \in Synced /\ ~torn =>
             group.entries \subseteq Firm(logs, {logfile}, "machine")
    BY <2>1 DEF Contained, WritingInv
  <2> QED  BY <2>1, <2>2
<1> QED  BY <1>1, <1>3, <1>4

\* The log in use is as sound as it was, if it is the same and nothing failed.
LEMMA TornKept ==
  ASSUME Contained, torn' = torn, phase' = phase, logs'[logfile'] = logs[logfile],
         \A w \in Writes : state[w] = "failed" => state'[w] = "failed"
  PROVE  TornInv'
<1> SUFFICES ASSUME phase = "open", ~torn, \A w \in Writes : state'[w] # "failed"
             PROVE  logs[logfile].sound = Len(logs[logfile].records)
  BY DEF TornInv
<1>1. \A w \in Writes : state[w] # "failed"  OBVIOUS
<1> QED  BY <1>1 DEF Contained, TornInv

\* The memtables are where they were, if the logs and the tables of the version are.
LEMMA MemtablesKept ==
  ASSUME IInv, Contained, NoAnswer, Tabled' = Tabled,
         UNCHANGED <<logs, logfile, mem, imm, doubtful, lastSequence, logNumber, phase>>
  PROVE  MemtablesInv'
<1> SUFFICES ASSUME phase' = "open" PROVE MemtablesInv'  BY DEF MemtablesInv
<1>0. Types  BY DEF IInv
<1>1. Seen' = Seen  BY DEF Seen
<1>2. mem \subseteq All  BY <1>0, PartsTyped
<1>3. Since(logs, logNumber) \in SUBSET DOMAIN logs  BY DEF Since
<1>4. Whole(logs, Since(logs, logNumber)) \subseteq All  BY <1>0, <1>3, PartsTyped
<1>5. ASSUME NEW u \in Ends, NEW e \in mem, Safe(e, u)'
      PROVE  e \in Firm(logs, {logfile}, u)
  <2>1. Safe(e, u)  BY <1>0, <1>2, <1>5, Acknowledged
  <2> QED  BY <2>1 DEF Contained, MemtablesInv
<1>6. ASSUME NEW e \in Whole(logs, Since(logs, logNumber)), state'[e[2]] = "ok"
      PROVE  e \in Seen
  <2>1. state[e[2]] = "ok"  BY <1>0, <1>4, <1>6, Acknowledged
  <2> QED  BY <2>1 DEF Contained, MemtablesInv
<1> QED  BY <1>1, <1>5, <1>6 DEF Contained, MemtablesInv

\* Everything is where it was, if the logs, the numbers and what the tables hold are.
LEMMA PlacesKept ==
  ASSUME IInv, Contained, NoAnswer, Records' = Records, Tabled' = Tabled,
         \A i \in DOMAIN Records : Files(i)' = Files(i),
         UNCHANGED <<logs, logfile, mem, imm, doubtful, lastSequence, logNumber, phase>>
  PROVE  SequenceInv' /\ MemtablesInv' /\ BackedUpInv'
<1>1. SequenceInv'  BY DEF Contained, SequenceInv
<1>2. MemtablesInv'  BY MemtablesKept
<1>3. BackedUpInv'
  <2> SUFFICES ASSUME phase' = "open", NEW i \in DOMAIN Records
               PROVE  LET old == Before(logs, Records[i].log, logfile)
                      IN  /\ logNumber <= Records[i].log /\ Records[i].log <= logfile
                          /\ Tabled \subseteq Files(i) /\ Files(i) \subseteq Tabled \cup UNION imm
                          /\ UNION imm \subseteq Files(i) \cup Whole(logs, old)
                          /\ \A u \in Ends, e \in UNION imm :
                               Safe(e, u)' => e \in Files(i) \cup Firm(logs, old, u)
    BY DEF BackedUpInv
  <2>1. Types /\ UNION imm \subseteq All  BY PartsTyped DEF IInv
  <2>2. \A u \in Ends, e \in UNION imm : Safe(e, u)' => Safe(e, u)  BY <2>1, Acknowledged
  <2> QED  BY <2>2 DEF Contained, BackedUpInv
<1> QED  BY <1>1, <1>2, <1>3

\* Nothing is said of a database that opens, or of one that is down, while it is open,
LEMMA OpenHasNoMore ==
  ASSUME phase' = "open"
  PROVE  ClosedInv' /\ ReplayInv' /\ NewLogInv'
BY DEF ClosedInv, ReplayInv, Opening, NewLogInv

\* and nothing of one that is open while it is not.
LEMMA ClosedHasNoMore ==
  ASSUME IInv', phase' # "open"
  PROVE  /\ MemtablesInv' /\ BackedUpInv' /\ OutputInv' /\ EditHolds'
         /\ GroupInv' /\ WritingInv' /\ TornInv' /\ group' = NoGroup
<1>1. writers' = <<>> /\ group' = NoGroup  BY DEF IInv, Quiet
<1>2. ToSet(writers') = {}  BY <1>1 DEF ToSet
<1>3. \A w \in Writes : state'[w] \notin Waiting  BY <1>2 DEF IInv, QueueInv
<1>4. \A w \in Writes : state'[w] \notin Grouped  BY <1>3 DEF Waiting, Grouped
<1>5. GroupInv' /\ WritingInv'  BY <1>1, <1>4 DEF GroupInv, WritingInv, Grouped
<1> QED  BY <1>1, <1>5 DEF TornInv, MemtablesInv, BackedUpInv, OutputInv, EditHolds

\* The database stays as it is, if what is where does.
LEMMA StoreKept ==
  ASSUME IInv, Contained, StateStep, phase = "open",
         Records' = Records, Tabled' = Tabled, All' \subseteq All,
         \A i \in DOMAIN Records : Files(i)' = Files(i),
         UNCHANGED <<logs, phase, lastSequence, logNumber, mem, imm, logfile, torn, doubtful,
                     group>>,
         (\E w \in Writes : state[w] \in Grouped) =>
           \A i \in 1..group.size : writers'[i] = writers[i]
  PROVE  /\ EntriesInv' /\ GroupInv' /\ WritingInv' /\ TornInv' /\ SequenceInv'
         /\ MemtablesInv' /\ BackedUpInv' /\ ClosedInv' /\ ReplayInv' /\ NewLogInv'
         /\ Stored' = Stored
<1>1. EntriesInv' /\ GroupInv' /\ WritingInv'  BY GroupKept
<1>2. SequenceInv' /\ MemtablesInv' /\ BackedUpInv'  BY PlacesKept DEF StateStep
<1>3. Stored' = Stored  BY DEF Stored, Seen
<1>4. ClosedInv' /\ ReplayInv' /\ NewLogInv'  BY OpenHasNoMore
<1>5. TornInv'
  <2>1. \A w \in Writes : state[w] = "failed" => state'[w] = "failed"  BY DEF StateStep, Grouped
  <2> QED  BY <2>1, TornKept
<1> QED  BY <1>1, <1>2, <1>3, <1>4, <1>5

\* So it is if no file is written,
LEMMA FilesUntouched ==
  ASSUME UNCHANGED <<directory, version, mem, imm, group>>
  PROVE  /\ Records' = Records /\ Tabled' = Tabled /\ All' \subseteq All
         /\ \A i \in DOMAIN Records : Files(i)' = Files(i)
<1>1. Records' = Records /\ Tabled' = Tabled /\ All' = All
  BY DEF directory, Records, Tabled, All
<1>2. \A i \in DOMAIN Records : Files(i)' = Files(i)  BY <1>1 DEF Files, directory
<1> QED  BY <1>1, <1>2

\* and the background thread's outputs stay as they are, too.
LEMMA OutputsKept ==
  ASSUME Contained, Records' = Records,
         \A i \in DOMAIN Records : Files(i)' = Files(i),
         UNCHANGED <<tables, phase, version, imm, bg, logfile, logNumber, edit>>
  PROVE  OutputInv' /\ EditHolds'
<1>1. OutputInv'  BY DEF Contained, OutputInv
<1>2. EditHolds'
  <2>1. ASSUME phase = "open", bg.at \in {"append", "sync"}
        PROVE  Files(Len(Records))' = Files(Len(Records))
    BY DEF Files
  <2> QED  BY <2>1 DEF Contained, EditHolds
<1> QED  BY <1>1, <1>2

\* A step of the queue alone.
LEMMA QueueStepKeeps ==
  ASSUME IInv, Contained, StateStep, phase = "open",
         UNCHANGED <<directory, phase, lastSequence, logNumber, version, memtables, group, bg,
                     edit>>,
         (\E w \in Writes : state[w] \in Grouped) =>
           \A i \in 1..group.size : writers'[i] = writers[i]
  PROVE  Contained' /\ Stored' = Stored
<1>0. UNCHANGED <<logs, tables, mem, imm, logfile, torn, doubtful>>
  BY DEF directory, memtables
<1>1. /\ Records' = Records /\ Tabled' = Tabled /\ All' \subseteq All
      /\ \A i \in DOMAIN Records : Files(i)' = Files(i)
  BY <1>0, FilesUntouched
<1>2. /\ EntriesInv' /\ GroupInv' /\ WritingInv' /\ TornInv' /\ SequenceInv' /\ MemtablesInv'
      /\ BackedUpInv' /\ ClosedInv' /\ ReplayInv' /\ NewLogInv' /\ Stored' = Stored
  BY <1>0, <1>1, StoreKept
<1>3. OutputInv' /\ EditHolds'  BY <1>0, <1>1, OutputsKept
<1> QED  BY <1>2, <1>3 DEF Contained

\* The writer in the room is at the front, and nobody writes.
LEMMA NobodyWrites ==
  ASSUME IInv, NEW w \in Writes, state[w] = "room"
  PROVE  /\ phase = "open" /\ writers # <<>> /\ w = writers[1] /\ 1 \in 1..Len(writers)
         /\ \A v \in Writes : state[v] \notin Grouped
<1>1. phase = "open" /\ writers # <<>> /\ w = writers[1] /\ 1 \in 1..Len(writers)
  BY FrontIsWriting DEF Waiting
<1>2. ASSUME NEW v \in Writes, state[v] \in Grouped PROVE FALSE
  <2>1. v = writers[1]  BY <1>2, FrontIsWriting DEF Waiting, Grouped
  <2> QED  BY <1>1, <1>2, <2>1 DEF Grouped
<1> QED  BY <1>1, <1>2

\* A writer that joins the queue, is delayed, waits or looks again answers nobody.
LEMMA MoveIsStateStep ==
  ASSUME \A w \in Writes : \/ state'[w] = state[w]
                           \/ state[w] \notin Grouped \cup Answers
                              /\ state'[w] \notin Grouped \cup {"ok"}
  PROVE  StateStep
BY DEF StateStep, NoAnswer, Answers, Grouped

\* The answer to the writer in the room acknowledges no batch.
LEMMA AnswerIsStateStep ==
  ASSUME IInv, NEW w \in Writes, state[w] = "room", NEW answer \in Answers, Answer(1, answer),
         answer = "ok" => w \notin Batches
  PROVE  /\ StateStep /\ state'[w] = answer
         /\ \A v \in Writes : v # w => \/ state'[v] = state[v]
                                       \/ state[v] = "queued" /\ state'[v] = "room"
<1>1. /\ w = writers[1] /\ 1 \in 1..Len(writers)
      /\ \A v \in Writes : state[v] \notin Grouped
  BY NobodyWrites
<1>2. /\ writers' \in Seq(Writes) /\ Len(writers') = Len(writers) - 1
      /\ \A i \in 1..Len(writers') : writers'[i] = writers[1 + i]
      /\ ToSet(SubSeq(writers, 1, 1)) = {writers[i] : i \in 1..1}
  BY <1>1, RestIs DEF Answer
<1>3. \A v \in Writes : state'[v] = IF v = w THEN answer
                                    ELSE IF writers' # <<>> /\ v = writers'[1] THEN "room"
                                    ELSE state[v]
  BY <1>1, <1>2 DEF Answer
<1>4. ASSUME writers' # <<>>
      PROVE  state[writers'[1]] = "queued"
  <2>1. writers \in Seq(Writes)  BY DEF IInv, Types, TypeOK
  <2>2. 1 \in 1..Len(writers')  BY <1>2, <1>4
  <2>3. writers'[1] = writers[2] /\ 2 \in DOMAIN writers  BY <1>2, <2>1, <2>2
  <2> QED  BY <2>3 DEF IInv, QueueInv
<1>5. \A v \in Writes : v # w => \/ state'[v] = state[v]
                                 \/ state[v] = "queued" /\ state'[v] = "room"
  BY <1>3, <1>4
<1>6. StateStep
  BY <1>1, <1>3, <1>5 DEF StateStep, NoAnswer, Answers, Grouped
<1> QED  BY <1>3, <1>5, <1>6

------------------------------------------------------------------------------
(***************************************************************************)
(* Writers.                                                                *)
(***************************************************************************)
\* Joining the queue,
LEMMA WriteContained ==
  ASSUME IInv, Contained, NEW w \in Writes, Write(w)
  PROVE  Contained' /\ Stored' = Stored
<1>0. writers \in Seq(Writes) /\ state \in [Writes -> WriterStates]
  BY DEF IInv, Types, TypeOK
<1>1. StateStep
  BY <1>0, MoveIsStateStep DEF Write, Grouped, Answers
<1>2. (\E v \in Writes : state[v] \in Grouped) =>
        \A i \in 1..group.size : writers'[i] = writers[i]
  <2>1. (\E v \in Writes : state[v] \in Grouped) => group.size \in 1..Len(writers)
    BY DEF IInv, QueueInv
  <2>2. \A i \in 1..Len(writers) : writers'[i] = writers[i]  BY <1>0 DEF Write
  <2> QED  BY <1>0, <2>1, <2>2
<1>3. /\ phase = "open"
      /\ UNCHANGED <<directory, phase, lastSequence, logNumber, version, memtables, group, bg,
                     edit>>
  BY DEF Write, numbers
<1> QED  BY <1>1, <1>2, <1>3, QueueStepKeeps

\* the error of the background thread, the wait at the slowdown trigger, the wait for
\* the background thread, and a log that cannot be created leave the store as it is.
LEMMA RoomContained ==
  ASSUME IInv, Contained, NEW w \in Writes,
         RoomError(w) \/ RoomDelay(w) \/ RoomWait(w) \/ RoomFails(w)
  PROVE  Contained' /\ Stored' = Stored
<1>0. state[w] = "room" /\ state \in [Writes -> WriterStates]
  BY DEF RoomError, RoomDelay, RoomWait, RoomFails, InRoom, IInv, Types, TypeOK
<1>1. phase = "open" /\ \A v \in Writes : state[v] \notin Grouped  BY <1>0, NobodyWrites
<1>2. StateStep
  <2>1. CASE RoomError(w) \/ RoomFails(w)
    <3>1. Answer(1, "error") /\ "error" \in Answers
      BY <2>1 DEF RoomError, RoomFails, Answers
    <3> QED  BY <1>0, <3>1, AnswerIsStateStep
  <2>2. CASE RoomDelay(w)
    BY <2>2, MoveIsStateStep DEF RoomDelay
  <2>3. CASE RoomWait(w)
    BY <1>0, <2>3, MoveIsStateStep DEF RoomWait, Grouped, Answers
  <2> QED  BY <2>1, <2>2, <2>3
<1>3. UNCHANGED <<directory, phase, lastSequence, logNumber, version, memtables, group, bg,
                  edit>>
  BY DEF RoomError, RoomDelay, RoomWait, RoomFails, numbers
<1> QED  BY <1>1, <1>2, <1>3, QueueStepKeeps

\* The entries of a new group come after all others, one for each of its batches.
LEMMA GroupEntriesAre ==
  ASSUME IInv, writers # <<>>
  PROVE  /\ \A e \in GroupEntries : \E i \in BatchesUpTo(GroupSize) :
              e = <<lastSequence + Cardinality(BatchesUpTo(i)), writers[i]>>
         /\ \A i \in BatchesUpTo(GroupSize) : \E e \in GroupEntries : e[2] = writers[i]
         /\ \A e, f \in GroupEntries : e[1] = f[1] <=> e[2] = f[2]
         /\ \A e \in GroupEntries : /\ lastSequence < e[1]
                                    /\ e[1] <= lastSequence + Cardinality(GroupEntries)
<1>0. /\ writers \in Seq(Writes) /\ IsInjective(writers) /\ lastSequence \in Nat
      /\ GroupSize \in 1..Len(writers) /\ GroupEntries \in EntrySets
  BY GroupIsTyped DEF IInv, Types, TypeOK
<1> DEFINE taken == BatchesUpTo(GroupSize)
           count(i) == Cardinality(BatchesUpTo(i))
           numbered == [i \in taken |-> <<lastSequence + count(i), writers[i]>>]
<1>1. \A i \in taken : i \in 1..GroupSize /\ i \in DOMAIN writers /\ writers[i] \in Batches
  BY <1>0 DEF BatchesUpTo
<1>2. \A i \in taken : i \in BatchesUpTo(i) /\ BatchesUpTo(i) \in SUBSET taken
  BY <1>0, <1>1 DEF BatchesUpTo
<1>3. ASSUME NEW i \in taken
      PROVE  count(i) \in Nat /\ count(i) > 0 /\ count(i) <= Cardinality(taken)
  <2>1. i \in Nat /\ GroupSize \in Nat  BY <1>0, <1>1
  <2>2. IsFiniteSet(BatchesUpTo(i)) /\ count(i) \in Nat /\ IsFiniteSet(taken)
    BY <2>1, BatchesUpToAreFinite
  <2>3. count(i) # 0  BY <1>2, <2>2, FS_EmptySet
  <2>4. count(i) <= Cardinality(taken)  BY <1>2, <2>2, FS_Subset
  <2> QED  BY <2>2, <2>3, <2>4
<1>4. ASSUME NEW i \in taken, NEW j \in taken, i < j
      PROVE  count(i) < count(j)
  <2>1. IsFiniteSet(BatchesUpTo(j))  BY <1>1, BatchesUpToAreFinite
  <2>2. BatchesUpTo(i) \in SUBSET BatchesUpTo(j)  BY <1>1, <1>4 DEF BatchesUpTo
  <2>3. j \notin BatchesUpTo(i) /\ j \in BatchesUpTo(j)  BY <1>1, <1>2, <1>4 DEF BatchesUpTo
  <2>4. count(i) <= count(j) /\ count(i) # count(j)  BY <2>1, <2>2, <2>3, FS_Subset
  <2> QED  BY <1>3, <2>4
<1>5. GroupEntries = {<<lastSequence + count(i), writers[i]>> : i \in taken}
  BY DEF GroupEntries
<1>6. ASSUME NEW i \in taken, NEW j \in taken
      PROVE  /\ lastSequence + count(i) = lastSequence + count(j) => i = j
             /\ writers[i] = writers[j] => i = j
  <2>1. writers[i] = writers[j] => i = j  BY <1>0, <1>1 DEF IsInjective
  <2>2. count(i) = count(j) => i = j
    <3>1. ~ (count(i) < count(j)) /\ ~ (count(j) < count(i)) => ~ (i < j) /\ ~ (j < i)  BY <1>4
    <3>2. i \in Nat /\ j \in Nat  BY <1>1
    <3> QED  BY <1>3, <3>1, <3>2
  <2> QED  BY <1>0, <1>3, <2>1, <2>2
<1> HIDE DEF taken, count
<1>7. Cardinality(GroupEntries) = Cardinality(taken)
  <2>1. numbered \in Bijection(taken, GroupEntries)
    <3>1. numbered \in Surjection(taken, GroupEntries)  BY <1>5 DEF Surjection
    <3>2. \A i, j \in taken : numbered[i] = numbered[j] => i = j  BY <1>6
    <3>3. numbered \in Injection(taken, GroupEntries)
      BY <3>1, <3>2 DEF Injection, Surjection, IsInjective
    <3> QED  BY <3>1, <3>3 DEF Bijection
  <2>2. IsFiniteSet(taken)  BY <1>0, BatchesUpToAreFinite DEF taken
  <2> QED  BY <2>1, <2>2, FS_Bijection DEF ExistsBijection
<1>8. ASSUME NEW e \in GroupEntries
      PROVE  \E i \in taken : e = <<lastSequence + count(i), writers[i]>>
  BY <1>5
<1>9. ASSUME NEW i \in taken
      PROVE  \E e \in GroupEntries : e[2] = writers[i]
  <2> DEFINE e == <<lastSequence + count(i), writers[i]>>
  <2>1. e \in GroupEntries /\ e[2] = writers[i]  BY <1>5
  <2> QED  BY <2>1
<1>10. ASSUME NEW e \in GroupEntries, NEW f \in GroupEntries
       PROVE  e[1] = f[1] <=> e[2] = f[2]
  <2>1. PICK i \in taken : e = <<lastSequence + count(i), writers[i]>>  BY <1>8
  <2>2. PICK j \in taken : f = <<lastSequence + count(j), writers[j]>>  BY <1>8
  <2> QED  BY <1>6, <2>1, <2>2
<1>11. ASSUME NEW e \in GroupEntries
       PROVE  lastSequence < e[1] /\ e[1] <= lastSequence + Cardinality(GroupEntries)
  <2>1. PICK i \in taken : e = <<lastSequence + count(i), writers[i]>>  BY <1>8
  <2>2. Cardinality(taken) \in Nat  BY <1>0, BatchesUpToAreFinite DEF taken
  <2> QED  BY <1>0, <1>3, <1>7, <2>1, <2>2
<1> QED  BY <1>8, <1>9, <1>10, <1>11 DEF taken, count

\* The room found: a flush has its answer, a batch its group.
LEMMA RoomFoundContained ==
  ASSUME IInv, Contained, NEW w \in Writes, RoomFound(w)
  PROVE  Contained' /\ Stored' = Stored
<1>0. /\ state[w] = "room" /\ state \in [Writes -> WriterStates] /\ Types
      /\ writers \in Seq(Writes) /\ lastSequence \in Nat
  BY DEF RoomFound, InRoom, IInv, Types, TypeOK
<1>1. /\ phase = "open" /\ \A v \in Writes : state[v] \notin Grouped
      /\ writers # <<>> /\ w = writers[1]
  BY <1>0, NobodyWrites
<1>2. UNCHANGED <<directory, phase, lastSequence, logNumber, version, memtables, bg, edit>>
  BY DEF RoomFound, numbers
<1>3. CASE w \in Flushes /\ Answer(1, "ok") /\ UNCHANGED group
  <2>1. StateStep
    <3>1. "ok" \in Answers /\ w \notin Batches  BY <1>3, WritesAssumption DEF Answers
    <3> QED  BY <1>0, <1>3, <3>1, AnswerIsStateStep
  <2> QED  BY <1>1, <1>2, <1>3, <2>1, QueueStepKeeps
<1>4. CASE /\ w \in Batches
           /\ group' = [size |-> GroupSize, entries |-> GroupEntries]
           /\ state' = [state EXCEPT ![w] = "append"]
           /\ UNCHANGED writers
  <2>1. /\ group'.size = GroupSize /\ group'.entries = GroupEntries
        /\ UNCHANGED <<logs, tables, manifests, current, phase, lastSequence, logNumber,
                       version, mem, imm, logfile, torn, doubtful, bg, edit, writers>>
        /\ phase' = "open"
    BY <1>1, <1>2, <1>4 DEF directory, memtables
  <2>2. GroupSize \in 1..Len(writers) /\ \A k \in 1..GroupSize : MayGroup(k)
    BY <1>0, <1>1, GroupSizeExists
  <2>3. group.entries = {}  BY <1>1 DEF Contained, GroupInv, NoGroup
  <2> DEFINE batches == BatchesUpTo(GroupSize)
  <2>4. /\ \A e \in GroupEntries : \E i \in batches : e[2] = writers[i]
        /\ \A i \in batches : \E e \in GroupEntries : e[2] = writers[i]
        /\ \A e, f \in GroupEntries : e[1] = f[1] <=> e[2] = f[2]
        /\ \A e \in GroupEntries : /\ lastSequence < e[1]
                                   /\ e[1] <= lastSequence + Cardinality(GroupEntries)
    BY <1>1, GroupEntriesAre
  <2>5. \A i \in batches : i \in 1..GroupSize /\ i \in 1..Len(writers) /\ writers[i] \in Batches
    BY <1>0, <2>2 DEF BatchesUpTo
  <2>6. \A i \in 1..GroupSize : writers[i] \in Batches => i \in batches
    BY DEF BatchesUpTo
  <2> HIDE DEF batches
  <2>7. \A e \in GroupEntries : e[2] \in ToSet(writers) /\ state[e[2]] \notin Answers
    <3>1. \A i \in batches : writers[i] \in ToSet(writers)  BY <1>0, <2>5, ToSetIs
    <3>2. \A v \in ToSet(writers) : state[v] \notin Answers
      <4>1. \A v \in ToSet(writers) : v \in Writes  BY <1>0, ToSetIs
      <4> QED  BY <4>1 DEF IInv, QueueInv, Waiting, Answers
    <3> QED  BY <2>4, <3>1, <3>2
  <2>8. NoAnswer  BY <1>0, <1>4 DEF NoAnswer, Answers
  <2>9. All' = All \cup GroupEntries  BY <2>1, <2>3 DEF All
  <2>10. EntriesInv'
    <3>1. \A e \in All : /\ e[1] \in Nat /\ e[2] \in Batches
                         /\ state[e[2]] \in Answers /\ e[1] <= lastSequence
      BY <1>0, <1>1, <2>3, PartsTyped, EntryIs DEF Contained, EntriesInv
    <3>2. \A e \in GroupEntries : e[1] \in Nat
      BY <1>1, GroupIsTyped, EntryIs
    <3>3. \A e \in All, f \in GroupEntries : e[1] # f[1] /\ e[2] # f[2]
      BY <1>0, <2>4, <2>7, <3>1, <3>2
    <3>4. \A e, f \in All : e[1] = f[1] <=> e[2] = f[2]
      BY DEF Contained, EntriesInv
    <3>5. \A e, f \in All' : e[1] = f[1] <=> e[2] = f[2]
      BY <2>4, <2>9, <3>3, <3>4
    <3>6. \A e \in All : state'[e[2]] \in Answers
      BY <2>8, <3>1 DEF NoAnswer, Writes
    <3> QED  BY <2>1, <2>9, <3>1, <3>5, <3>6 DEF EntriesInv
  <2>11. \A v \in Writes : state'[v] \in Grouped => v = w
    BY <1>0, <1>1, <1>4
  <2>12. state'[w] = "append"  BY <1>0, <1>4
  <2>13. GroupInv'
    <3>1. w \notin Synced => \A e \in GroupEntries : e[2] \notin Synced
      <4>1. MayGroup(GroupSize)  BY <1>0, <2>2
      <4>2. w \notin Synced => ToSet(SubSeq(writers, 1, GroupSize)) \cap Synced = {}
        BY <1>1, <4>1 DEF MayGroup
      <4>3. \A i \in 1..GroupSize : writers[i] \in ToSet(SubSeq(writers, 1, GroupSize))
        BY <2>2, RestIs
      <4> QED  BY <2>4, <2>5, <4>2, <4>3
    <3>2. \A e \in GroupEntries : \E i \in 1..GroupSize : writers[i] = e[2]
      BY <2>4, <2>5
    <3>3. \A i \in 1..GroupSize : writers[i] \in Batches =>
            \E e \in GroupEntries : e[2] = writers[i]
      BY <2>4, <2>6
    <3>4. ~ \A v \in Writes : state'[v] \notin Grouped  BY <2>12 DEF Grouped
    <3> QED  BY <1>4, <2>1, <2>4, <2>11, <3>1, <3>2, <3>3, <3>4 DEF GroupInv
  <2>14. WritingInv'  BY <2>11, <2>12 DEF WritingInv, Grouped
  <2>t. TornInv'
    <3>1. \A v \in Writes : state[v] # "failed"  BY <1>1 DEF Grouped
    <3> QED  BY <2>1, <3>1, TornKept
  <2>15. Records' = Records /\ Tabled' = Tabled  BY <2>1 DEF Records, Tabled
  <2>16. \A i \in DOMAIN Records : Files(i)' = Files(i)  BY <2>1, <2>15 DEF Files
  <2>17. SequenceInv' /\ MemtablesInv' /\ BackedUpInv'
    BY <2>1, <2>8, <2>15, <2>16, PlacesKept
  <2>18. OutputInv' /\ EditHolds'  BY <2>1, <2>15, <2>16, OutputsKept
  <2>19. ClosedInv' /\ ReplayInv' /\ NewLogInv'  BY <2>1, OpenHasNoMore
  <2>20. Stored' = Stored  BY <2>1, <2>15 DEF Stored, Seen
  <2> QED  BY <2>10, <2>13, <2>14, <2>t, <2>17, <2>18, <2>19, <2>20 DEF Contained
<1> QED  BY <1>3, <1>4 DEF RoomFound

\* The switch to a new log and memtable: what was in the memtable waits to be flushed,
\* and stays in the log it is in.
LEMMA RoomSwitchContained ==
  ASSUME IInv, Contained, NEW w \in Writes, RoomSwitch(w)
  PROVE  Contained' /\ Stored' = Stored
<1>0. /\ state[w] = "room" /\ Types /\ imm = {}
      /\ nextFile \in Nat /\ logfile \in Nat /\ logNumber \in Nat
  BY NumbersTyped DEF RoomSwitch, InRoom, MustWait, IInv
<1>1. phase = "open" /\ \A v \in Writes : state[v] \notin Grouped
  BY <1>0, NobodyWrites
<1>2. /\ logs' = Put(logs, nextFile, NewLog) /\ logfile' = nextFile
      /\ imm' = {mem} /\ mem' = {} /\ phase' = "open" /\ torn' = FALSE
      /\ UNCHANGED <<tables, manifests, current, phase, lastSequence, logNumber, version,
                     writers, state, group, bg, edit, doubtful>>
  BY <1>1 DEF RoomSwitch
<1>3. /\ logfile < nextFile /\ logNumber <= logfile
      /\ logfile \in DOMAIN logs /\ \A l \in DOMAIN logs : l \in Nat /\ l <= logfile
  BY <1>0, <1>1
     DEF IInv, FilesInv, RunningInv, Running, Contained, MemtablesInv, Types, TypeOK
<1>4. nextFile \notin DOMAIN logs  BY <1>0, <1>3
<1>5. DOMAIN logs' = DOMAIN logs \cup {nextFile}
  BY <1>2 DEF Put
<1>6. ASSUME NEW ls \in SUBSET DOMAIN logs, NEW ms, ms = ls \cup {nextFile}
      PROVE  /\ Whole(logs', ls) = Whole(logs, ls)
             /\ \A u : Firm(logs', ls, u) = Firm(logs, ls, u)
             /\ Whole(logs', ms) = Whole(logs, ls)
  BY <1>2, <1>4, <1>6, WholeWithNew
<1>7. UNION imm = {} /\ UNION imm' = mem  BY <1>0, <1>2
<1>8. Tabled' = Tabled /\ Records' = Records  BY <1>2 DEF Tabled, Records
<1>9. \A i \in DOMAIN Records : Files(i)' = Files(i)  BY <1>2, <1>8 DEF Files
<1>10. Seen' = Seen  BY <1>2, <1>7, <1>8 DEF Seen
<1>11. All' = All
  <2>1. Whole(logs', DOMAIN logs') = Whole(logs, DOMAIN logs)  BY <1>5, <1>6
  <2> QED  BY <1>2, <1>7, <2>1 DEF All
<1>12. NoAnswer /\ StateStep  BY <1>2 DEF StateStep, NoAnswer
<1>13. EntriesInv' /\ GroupInv' /\ WritingInv'
  <2>1. EntriesInv'
    <3>1. \A e, f \in All' : e[1] = f[1] <=> e[2] = f[2]  BY <1>11 DEF Contained, EntriesInv
    <3>2. \A e \in All' \ group'.entries : state'[e[2]] \in Answers /\ e[1] <= lastSequence'
      BY <1>1, <1>2, <1>11 DEF Contained, EntriesInv
    <3> QED  BY <3>1, <3>2 DEF EntriesInv
  <2>2. GroupInv' /\ WritingInv'
    BY <1>1, <1>2 DEF Contained, GroupInv, WritingInv, Grouped
  <2> QED  BY <2>1, <2>2
<1>t. TornInv'
  <2>1. logs'[logfile'] = NewLog  BY <1>2 DEF Put
  <2>2. Len(<<>>) = 0  OBVIOUS
  <2> QED  BY <2>1, <2>2 DEF TornInv, NewLog
<1>14. SequenceInv'  BY <1>8, <1>9 DEF Contained, SequenceInv
<1>15. MemtablesInv'
  <2>1. Since(logs', logNumber) = Since(logs, logNumber) \cup {nextFile}
    BY <1>0, <1>3, <1>5 DEF Since
  <2>2. Whole(logs', Since(logs', logNumber)) = Whole(logs, Since(logs, logNumber))
    BY <1>6, <2>1 DEF Since
  <2>3. \A l \in DOMAIN logs' : l <= nextFile  BY <1>0, <1>3, <1>5
  <2>4. mem' \subseteq Whole(logs', {logfile'})  BY <1>2
  <2>5. \A e \in Seen' : e[1] <= lastSequence'
    BY <1>1, <1>2, <1>10 DEF Contained, MemtablesInv
  <2>6. \A e \in Whole(logs', Since(logs', logNumber')) : state'[e[2]] = "ok" => e \in Seen'
    BY <1>1, <1>2, <1>10, <2>2 DEF Contained, MemtablesInv
  <2>7. logfile' \in DOMAIN logs' /\ \A l \in DOMAIN logs' : l <= logfile'
    BY <1>2, <1>5, <2>3
  <2>8. mem' = {}  BY <1>2
  <2> QED  BY <2>4, <2>5, <2>6, <2>7, <2>8 DEF MemtablesInv
<1>16. BackedUpInv'
  <2> SUFFICES ASSUME NEW i \in DOMAIN Records
               PROVE  LET old == Before(logs', Records[i].log, nextFile)
                      IN  /\ logNumber <= Records[i].log /\ Records[i].log <= nextFile
                          /\ Tabled \subseteq Files(i) /\ Files(i) \subseteq Tabled \cup mem
                          /\ mem \subseteq Files(i) \cup Whole(logs', old)
                          /\ \A u \in Ends, e \in mem :
                               Safe(e, u)' => e \in Files(i) \cup Firm(logs', old, u)
    BY <1>2, <1>7, <1>8, <1>9 DEF BackedUpInv
  <2> DEFINE old == Before(logs', Records[i].log, nextFile)
  <2>1. /\ logNumber <= Records[i].log /\ Records[i].log <= logfile
        /\ Tabled \subseteq Files(i) /\ Files(i) \subseteq Tabled
    BY <1>1, <1>7 DEF Contained, BackedUpInv
  <2>2. Records[i].log \in Nat  BY <1>0, RecordsTyped
  <2>3. old \in SUBSET DOMAIN logs /\ {logfile} \in SUBSET old
    BY <1>0, <1>3, <1>5, <2>1, <2>2 DEF Before
  <2> HIDE DEF old
  <2>4. Whole(logs', old) = Whole(logs, old) /\ (\A u : Firm(logs', old, u) = Firm(logs, old, u))
    BY <1>6, <2>3
  <2>5. /\ Whole(logs, {logfile}) \subseteq Whole(logs, old)
        /\ (\A u : Firm(logs, {logfile}, u) \subseteq Firm(logs, old, u))
    BY <2>3, WholeFewer
  <2>6. \A u \in Ends, e \in mem : Safe(e, u)' => Safe(e, u)  BY <1>2 DEF Safe
  <2>7. /\ mem \subseteq Whole(logs, {logfile})
        /\ \A u \in Ends, e \in mem : Safe(e, u) => e \in Firm(logs, {logfile}, u)
    BY <1>1 DEF Contained, MemtablesInv
  <2>8. Records[i].log <= nextFile  BY <1>0, <1>3, <2>1, <2>2
  <2> QED  BY <2>1, <2>4, <2>5, <2>6, <2>7, <2>8 DEF old
<1>17. OutputInv'  BY <1>2, <1>8 DEF Contained, OutputInv
<1>18. EditHolds'
  <2> SUFFICES ASSUME bg.at \in {"append", "sync"} PROVE EditHolds'  BY <1>2 DEF EditHolds
  <2>1. bg.flush = 0  BY <1>0 DEF IInv, FilesInv, StagesInv
  <2>2. Files(Len(Records))' = Files(Len(Records))  BY <1>2, <1>8 DEF Files
  <2> QED  BY <1>1, <1>2, <1>8, <2>1, <2>2 DEF Contained, EditHolds
<1>19. ClosedInv' /\ ReplayInv' /\ NewLogInv'  BY <1>2, OpenHasNoMore
<1>20. Stored' = Stored  BY <1>2, <1>10 DEF Stored
<1> QED
  BY <1>13, <1>t, <1>14, <1>15, <1>16, <1>17, <1>18, <1>19, <1>20 DEF Contained

\* Where the group that is being written is in the queue.
LEMMA GroupIsQueued ==
  ASSUME IInv, Contained, NEW w \in Writes, state[w] \in Grouped
  PROVE  /\ phase = "open" /\ writers # <<>> /\ w = writers[1] /\ w \in Batches
         /\ group.size \in 1..Len(writers)
         /\ \A v \in Writes : state[v] \in Grouped => v = w
         /\ \A e \in group.entries : \E i \in 1..group.size : writers[i] = e[2]
         /\ \A e \in group.entries : e[2] \in ToSet(writers) /\ state[e[2]] \in Waiting
         /\ logfile \in DOMAIN logs
<1>0. writers \in Seq(Writes)  BY DEF IInv, Types, TypeOK
<1>1. phase = "open" /\ writers # <<>> /\ w = writers[1]
  BY FrontIsWriting DEF Waiting, Grouped
<1>2. \A v \in Writes : state[v] \in Grouped => v = w
  BY <1>1, FrontIsWriting DEF Waiting, Grouped
<1>3. group.size \in 1..Len(writers)  BY DEF IInv, QueueInv
<1>4. /\ \A e \in group.entries : \E i \in 1..group.size : writers[i] = e[2]
      /\ w \in Batches
  BY DEF Contained, GroupInv
<1>5. \A e \in group.entries : e[2] \in ToSet(writers) /\ e[2] \in Writes
  BY <1>0, <1>3, <1>4, ToSetIs
<1>6. \A e \in group.entries : state[e[2]] \in Waiting  BY <1>5 DEF IInv, QueueInv
<1>7. logfile \in DOMAIN logs  BY <1>1 DEF Contained, MemtablesInv
<1> QED  BY <1>1, <1>2, <1>3, <1>4, <1>5, <1>6, <1>7

\* A step that writes to the log in use leaves the others as they are.
LEMMA OthersSame ==
  ASSUME NEW ls \in SUBSET (DOMAIN logs \ {logfile}),
         \A l \in DOMAIN logs \ {logfile} : logs'[l] = logs[l], NEW u
  PROVE  Whole(logs', ls) = Whole(logs, ls) /\ Firm(logs', ls, u) = Firm(logs, ls, u)
<1>1. PICK f, g : f = logs' /\ g = logs  OBVIOUS
<1>2. \A l \in ls : f[l] = g[l]  BY <1>1
<1>3. Whole(f, ls) = Whole(g, ls)  BY <1>2, WholeSame
<1>4. Firm(f, ls, u) = Firm(g, ls, u)  BY <1>2, FirmSame
<1> QED  BY <1>1, <1>3, <1>4

\* A write to the log with mutex_ released adds nothing but the group to it.
LEMMA LogStepContained ==
  ASSUME IInv, Contained, NEW w \in Writes, state[w] \in Grouped,
         NEW s \in Grouped, state' = [state EXCEPT ![w] = s],
         DOMAIN logs' = DOMAIN logs, \A l \in DOMAIN logs \ {logfile} : logs'[l] = logs[l],
         Whole(logs, {logfile}) \subseteq Whole(logs', {logfile}),
         Whole(logs', {logfile}) \subseteq Whole(logs, {logfile}) \cup group.entries,
         (\A u : Firm(logs, {logfile}, u) \subseteq Firm(logs', {logfile}, u)),
         s \in {"sync", "insert"} => group.entries \subseteq Whole(logs', {logfile}),
         s \in {"sync", "insert"} /\ ~torn =>
           group.entries \subseteq Firm(logs', {logfile}, "process"),
         s = "insert" /\ w \in Synced /\ ~torn =>
           group.entries \subseteq Firm(logs', {logfile}, "machine"),
         s # "failed" /\ ~torn => logs'[logfile].sound = Len(logs'[logfile].records),
         UNCHANGED <<tables, manifests, current, phase, lastSequence, logNumber, version, mem,
                     imm, logfile, torn, doubtful, writers, group, bg, edit>>
  PROVE  Contained' /\ Stored' = Stored
<1>0. /\ phase = "open" /\ phase' = "open" /\ w = writers[1] /\ w \in Batches
      /\ group.size \in 1..Len(writers)
      /\ \A v \in Writes : state[v] \in Grouped => v = w
      /\ \A e \in group.entries : state[e[2]] \in Waiting
      /\ logfile \in DOMAIN logs
  BY GroupIsQueued
<1>1. Types /\ state \in [Writes -> WriterStates]  BY DEF IInv, Types, TypeOK
<1>2. NoAnswer  BY <1>1 DEF NoAnswer, Answers, Grouped
<1>3. Records' = Records /\ Tabled' = Tabled /\ Seen' = Seen  BY DEF Records, Tabled, Seen
<1>4. \A i \in DOMAIN Records : Files(i)' = Files(i)  BY <1>3 DEF Files
<1>5. ASSUME NEW ls \in SUBSET (DOMAIN logs \ {logfile})
      PROVE  Whole(logs', ls) = Whole(logs, ls) /\ (\A u : Firm(logs', ls, u) = Firm(logs, ls, u))
  <2>1. Whole(logs', ls) = Whole(logs, ls)  BY OthersSame
  <2>2. ASSUME NEW u PROVE Firm(logs', ls, u) = Firm(logs, ls, u)  BY OthersSame
  <2> QED  BY <2>1, <2>2
<1>6. ASSUME NEW ls \in SUBSET DOMAIN logs
      PROVE  Whole(logs', ls) \subseteq Whole(logs, ls) \cup group.entries
  <2> SUFFICES ASSUME NEW e \in Whole(logs', ls) PROVE e \in Whole(logs, ls) \cup group.entries
    OBVIOUS
  <2>1. PICK l \in ls : e \in UNION ToSet(logs'[l].records)  BY WholeIs
  <2>2. CASE l = logfile
    <3>1. e \in Whole(logs', {logfile})  BY <2>1, <2>2 DEF Whole
    <3>2. Whole(logs, {logfile}) \subseteq Whole(logs, ls)
      <4>1. {logfile} \in SUBSET ls  BY <2>2
      <4> QED  BY <4>1, WholeFewer
    <3> QED  BY <3>1, <3>2
  <2>3. CASE l # logfile
    <3>1. e \in UNION ToSet(logs[l].records)  BY <2>1, <2>3
    <3> QED  BY <3>1, WholeIs
  <2> QED  BY <2>2, <2>3
<1>7. All' \subseteq All
  <2>1. Whole(logs', DOMAIN logs) \subseteq Whole(logs, DOMAIN logs) \cup group.entries  BY <1>6
  <2> QED  BY <2>1 DEF All
<1>8. EntriesInv'
  <2>1. \A e, f \in All' : e[1] = f[1] <=> e[2] = f[2]  BY <1>7 DEF Contained, EntriesInv
  <2>2. ASSUME NEW e \in All' \ group.entries
        PROVE  state'[e[2]] \in Answers /\ e[1] <= lastSequence
    <3>1. e \in All \ group.entries  BY <1>7
    <3>2. state[e[2]] \in Answers /\ e[1] <= lastSequence
      BY <1>0, <3>1 DEF Contained, EntriesInv
    <3>3. e[2] \in Batches  BY <1>1, <3>1, PartsTyped, EntryIs
    <3> QED  BY <1>2, <3>2, <3>3 DEF NoAnswer, Writes
  <2> QED  BY <2>1, <2>2 DEF EntriesInv
<1>9. state'[w] = s /\ \A v \in Writes : state'[v] \in Grouped => v = w
  BY <1>0, <1>1
<1>10. GroupInv'
  <2>1. ~ \A v \in Writes : state'[v] \notin Grouped  BY <1>9
  <2>2. /\ \A e \in group.entries : \E i \in 1..group.size : writers[i] = e[2]
        /\ \A i \in 1..group.size : writers[i] \in Batches =>
             \E e \in group.entries : e[2] = writers[i]
        /\ \A e \in group.entries :
             lastSequence < e[1] /\ e[1] <= lastSequence + Cardinality(group.entries)
        /\ w \notin Synced => \A e \in group.entries : e[2] \notin Synced
    BY DEF Contained, GroupInv
  <2> QED  BY <1>0, <1>9, <2>1, <2>2 DEF GroupInv
<1>11. WritingInv'  BY <1>9 DEF WritingInv, Grouped
<1>t. TornInv'
  <2>1. ASSUME ~torn', \A v \in Writes : state'[v] # "failed"
        PROVE  logs'[logfile].sound = Len(logs'[logfile].records)
    <3>1. ~torn /\ s # "failed"  BY <1>9, <2>1
    <3> QED  BY <3>1
  <2>2. logfile' = logfile  OBVIOUS
  <2> QED  BY <2>1, <2>2 DEF TornInv
<1>12. SequenceInv'  BY <1>3, <1>4 DEF Contained, SequenceInv
<1>13. MemtablesInv'
  <2> DEFINE ls == Since(logs, logNumber)
  <2>0. Since(logs', logNumber) = ls /\ ls \in SUBSET DOMAIN logs  BY DEF Since
  <2> HIDE DEF ls
  <2>1. mem \subseteq All /\ Whole(logs, ls) \subseteq All  BY <1>1, <2>0, PartsTyped
  <2>2. \A u \in Ends, e \in mem : Safe(e, u)' => e \in Firm(logs', {logfile}, u)
    <3>1. \A u \in Ends, e \in mem : Safe(e, u)' => Safe(e, u)  BY <1>1, <1>2, <2>1, Acknowledged
    <3>2. \A u \in Ends, e \in mem : Safe(e, u) => e \in Firm(logs, {logfile}, u)
      BY <1>0 DEF Contained, MemtablesInv
    <3> QED  BY <3>1, <3>2
  <2>3. ASSUME NEW e \in Whole(logs', ls), state'[e[2]] = "ok"
        PROVE  e \in Seen
    <3>1. e \notin group.entries
      <4>1. \A f \in group.entries : state'[f[2]] # "ok"
        <5>1. \A f \in group.entries : f[2] \in Writes /\ state[f[2]] \in Waiting
          <6>1. group.entries \subseteq All  BY <1>1, PartsTyped
          <6> QED  BY <1>0, <1>1, <6>1, PartsTyped, EntryIs DEF Writes
        <5> QED  BY <1>1, <5>1 DEF Waiting, Grouped
      <4> QED  BY <2>3, <4>1
    <3>2. e \in Whole(logs, ls)  BY <1>6, <2>0, <3>1
    <3>3. state[e[2]] = "ok"  BY <1>1, <1>2, <2>1, <2>3, <3>2, Acknowledged
    <3> QED  BY <1>0, <3>2, <3>3 DEF Contained, MemtablesInv, ls
  <2>4. /\ \A l \in DOMAIN logs : l <= logfile
        /\ mem \subseteq Whole(logs', {logfile})
        /\ \A e \in Seen : e[1] <= lastSequence
    BY <1>0 DEF Contained, MemtablesInv
  <2> QED  BY <1>0, <1>3, <2>0, <2>2, <2>3, <2>4 DEF MemtablesInv
<1>14. BackedUpInv'
  <2> SUFFICES ASSUME NEW i \in DOMAIN Records
               PROVE  LET old == Before(logs', Records[i].log, logfile)
                      IN  /\ logNumber <= Records[i].log /\ Records[i].log <= logfile
                          /\ Tabled \subseteq Files(i) /\ Files(i) \subseteq Tabled \cup (UNION imm)
                          /\ UNION imm \subseteq Files(i) \cup Whole(logs', old)
                          /\ \A u \in Ends, e \in UNION imm :
                               Safe(e, u)' => e \in Files(i) \cup Firm(logs', old, u)
    BY <1>3, <1>4 DEF BackedUpInv
  <2> DEFINE old == Before(logs, Records[i].log, logfile)
  <2>1. logfile \in Nat /\ Records[i].log \in Nat /\ \A l \in DOMAIN logs : l \in Nat
    BY <1>1, NumbersTyped, RecordsTyped DEF Types, TypeOK
  <2>2. Before(logs', Records[i].log, logfile) = old /\ old \in SUBSET (DOMAIN logs \ {logfile})
    BY <2>1 DEF Before
  <2>3. Whole(logs', old) = Whole(logs, old) /\ (\A u : Firm(logs', old, u) = Firm(logs, old, u))
    <3> HIDE DEF old
    <3> QED  BY <1>5, <2>2
  <2>4. UNION imm \subseteq All  BY <1>1, PartsTyped
  <2>5. \A u \in Ends, e \in UNION imm : Safe(e, u)' => Safe(e, u)  BY <1>1, <1>2, <2>4, Acknowledged
  <2>6. /\ logNumber <= Records[i].log /\ Records[i].log <= logfile
        /\ Tabled \subseteq Files(i) /\ Files(i) \subseteq Tabled \cup (UNION imm)
        /\ UNION imm \subseteq Files(i) \cup Whole(logs, old)
        /\ \A u \in Ends, e \in UNION imm : Safe(e, u) => e \in Files(i) \cup Firm(logs, old, u)
    BY <1>0 DEF Contained, BackedUpInv
  <2> HIDE DEF old
  <2> QED  BY <2>2, <2>3, <2>5, <2>6
<1>15. OutputInv' /\ EditHolds'  BY <1>3, <1>4, OutputsKept
<1>16. ClosedInv' /\ ReplayInv' /\ NewLogInv'  BY <1>0, OpenHasNoMore
<1>17. Stored' = Stored  BY <1>0, <1>3 DEF Stored
<1> QED
  BY <1>0, <1>8, <1>10, <1>11, <1>t, <1>12, <1>13, <1>14, <1>15, <1>16, <1>17 DEF Contained

\* The group's record appended to the log.
LEMMA WholeAppended ==
  ASSUME IsFileMap(logs, Log), logfile \in DOMAIN logs, NEW sound, NEW ls, ls = {logfile},
         logs'[logfile].records = Append(logs[logfile].records, group.entries),
         logs'[logfile].synced = logs[logfile].synced,
         logs'[logfile].sound = sound,
         sound = logs[logfile].sound
           \/ (sound = Len(logs[logfile].records) + 1
                 /\ logs[logfile].sound = Len(logs[logfile].records))
  PROVE  /\ Whole(logs', ls) = Whole(logs, ls) \cup group.entries
         /\ \A u : Firm(logs, ls, u) \subseteq Firm(logs', ls, u)
         /\ Len(logs'[logfile].records) = Len(logs[logfile].records) + 1
         /\ sound = Len(logs[logfile].records) + 1 =>
              group.entries \subseteq Firm(logs', ls, "process")
<1> DEFINE r == logs[logfile].records
           x == group.entries
<1>2. /\ r \in Seq(EntrySets) /\ Len(r) \in Nat /\ logs[logfile] \in Log
      /\ \A u : Lasting(logs[logfile], u) \in Nat /\ Lasting(logs[logfile], u) <= Len(r)
  BY FileMapHolds, LastingTyped
<1>3. /\ DOMAIN r = 1..Len(r) /\ DOMAIN Append(r, x) = 1..(Len(r) + 1)
      /\ Len(Append(r, x)) = Len(r) + 1
      /\ \A i \in 1..Len(r) : Append(r, x)[i] = r[i]
      /\ Append(r, x)[Len(r) + 1] = x
  <2> HIDE DEF r, x
  <2>1. x \in {x} \cup EntrySets /\ r \in Seq({x} \cup EntrySets)  BY <1>2
  <2>2. Append(r, x) \in Seq({x} \cup EntrySets)  BY <2>1, AppendProperties
  <2>3. Len(Append(r, x)) = Len(r) + 1 /\ DOMAIN r = 1..Len(r)
    BY <2>1, AppendProperties, LenProperties
  <2> QED  BY <1>2, <2>1, <2>2, <2>3, AppendProperties, LenProperties
<1>5. logs'[logfile].records = Append(r, x)  BY DEF r, x
<1>r. \A e : e \in Whole(logs, ls) <=> e \in UNION ToSet(r)  BY WholeIs DEF r
<1>w. \A e : e \in Whole(logs', ls) <=> e \in UNION ToSet(logs'[logfile].records)  BY WholeIs
<1>f. \A u, e : /\ e \in Firm(logs, ls, u) <=> \E k \in 1..Lasting(logs[logfile], u) : e \in r[k]
                /\ e \in Firm(logs', ls, u)
                     <=> \E k \in 1..Lasting(logs'[logfile], u) : e \in logs'[logfile].records[k]
  BY FirmOne DEF r
<1>l. /\ \A u : Lasting(logs[logfile], u) <= Lasting(logs'[logfile], u)
      /\ Lasting(logs'[logfile], "process") = sound
  <2>1. logs[logfile].sound \in Nat /\ logs[logfile].synced \in Nat
    BY <1>2 DEF Log, LogShape
  <2>2. logs[logfile].sound <= sound
    <3>1. CASE sound = logs[logfile].sound  BY <2>1, <3>1
    <3>2. CASE sound = Len(r) + 1 /\ logs[logfile].sound = Len(r)
      BY <1>2, <3>2
    <3> QED  BY <3>1, <3>2 DEF r
  <2> QED  BY <2>1, <2>2 DEF Lasting
<1> HIDE DEF r, x
<1>4. ToSet(Append(r, x)) = ToSet(r) \cup {x}
  <2>1. 1..(Len(r) + 1) = 1..Len(r) \cup {Len(r) + 1}  BY <1>2
  <2> QED  BY <1>3, <2>1 DEF ToSet
<1>6. Whole(logs', ls) = Whole(logs, ls) \cup x
  <2>1. UNION ToSet(logs'[logfile].records) = (UNION ToSet(r)) \cup x  BY <1>4, <1>5
  <2>2. \A e : e \in Whole(logs', ls) <=> e \in Whole(logs, ls) \cup x  BY <1>r, <1>w, <2>1
  <2> QED  BY <2>2
<1>7. ASSUME NEW u, NEW e \in Firm(logs, ls, u)
      PROVE  e \in Firm(logs', ls, u)
  <2>1. PICK k \in 1..Lasting(logs[logfile], u) : e \in r[k]  BY <1>f
  <2>2. Lasting(logs[logfile], u) \in Nat /\ Lasting(logs[logfile], u) <= Len(r)  BY <1>2
  <2>3. k \in 1..Len(r)  BY <1>2, <2>1, <2>2
  <2>4. e \in logs'[logfile].records[k]  BY <1>3, <1>5, <2>1, <2>3
  <2>5. Lasting(logs[logfile], u) <= Lasting(logs'[logfile], u)  BY <1>l
  <2>6. \E j \in 1..Lasting(logs'[logfile], u) : e \in logs'[logfile].records[j]
    <3>1. Lasting(logs'[logfile], u) \in Nat
      <4>1. logs[logfile].synced \in Nat  BY <1>2 DEF Log, LogShape
      <4>2. logs[logfile].sound \in Nat  BY <1>2 DEF Log, LogShape
      <4>3. sound \in Nat  BY <1>2, <4>2 DEF r
      <4> QED  BY <4>1, <4>3 DEF Lasting
    <3>2. k \in 1..Lasting(logs'[logfile], u)  BY <2>1, <2>2, <2>5, <3>1
    <3> QED  BY <2>4, <3>2
  <2> QED  BY <1>f, <2>6
<1>8. ASSUME sound = Len(r) + 1, NEW e \in x
      PROVE  e \in Firm(logs', ls, "process")
  <2>1. Lasting(logs'[logfile], "process") = Len(r) + 1  BY <1>l, <1>8
  <2>2. Len(r) + 1 \in 1..Lasting(logs'[logfile], "process")  BY <1>2, <2>1
  <2>3. e \in logs'[logfile].records[Len(r) + 1]  BY <1>3, <1>5, <1>8
  <2>4. \E j \in 1..Lasting(logs'[logfile], "process") : e \in logs'[logfile].records[j]
    BY <2>2, <2>3
  <2> QED  BY <1>f, <2>4
<1> QED  BY <1>3, <1>5, <1>6, <1>7, <1>8 DEF r, x

\* Appending the record, whether or not it fails,
LEMMA AddRecordContained ==
  ASSUME IInv, Contained, NEW w \in Writes, AddRecord(w)
  PROVE  Contained' /\ Stored' = Stored
<1>0. state[w] \in Grouped /\ state[w] = "append"  BY DEF AddRecord, Grouped
<1>1. /\ Types /\ IsFileMap(logs, Log) /\ logfile \in DOMAIN logs /\ phase = "open"
      /\ \A v \in Writes : state[v] # "failed"
  BY <1>0, GroupIsQueued DEF IInv, Types, MoreTypes, Grouped
<1>2. UNCHANGED <<tables, manifests, current, phase, lastSequence, logNumber, version, mem,
                  imm, logfile, torn, doubtful, writers, group, bg, edit>>
  BY DEF AddRecord, numbers, memtables
<1>3. PICK s \in Grouped :
        /\ state' = [state EXCEPT ![w] = s]
        /\ s \in {"sync", "insert", "failed"} /\ (s = "insert" => w \notin Synced)
        /\ logs' = IF s = "failed" THEN AppendTorn ELSE AppendRecord
  <2>1. CASE /\ logs' = AppendRecord
             /\ state' = [state EXCEPT ![w] = IF w \in Synced THEN "sync" ELSE "insert"]
    <3> DEFINE s == IF w \in Synced THEN "sync" ELSE "insert"
    <3>1. s \in Grouped /\ s \in {"sync", "insert", "failed"} /\ (s = "insert" => w \notin Synced)
          /\ s # "failed"
      BY DEF Grouped
    <3> QED  BY <2>1, <3>1
  <2>2. CASE logs' = AppendTorn /\ state' = [state EXCEPT ![w] = "failed"]
    BY <2>2 DEF Grouped
  <2> QED  BY <2>1, <2>2 DEF AddRecord
<1>4. /\ DOMAIN logs' = DOMAIN logs /\ \A l \in DOMAIN logs \ {logfile} : logs'[l] = logs[l]
      /\ logs'[logfile].records = Append(logs[logfile].records, group.entries)
      /\ logs'[logfile].synced = logs[logfile].synced
      /\ logs'[logfile].sound =
           IF logs' = AppendRecord /\ logs[logfile].sound = Len(logs[logfile].records)
           THEN Len(logs[logfile].records) + 1 ELSE logs[logfile].sound
  <2>1. logs' \in {AppendRecord, AppendTorn}  BY <1>3
  <2> QED  BY <1>1, <2>1, AppendedLogIs
<1>5. /\ Whole(logs', {logfile}) = Whole(logs, {logfile}) \cup group.entries
      /\ \A u : Firm(logs, {logfile}, u) \subseteq Firm(logs', {logfile}, u)
      /\ Len(logs'[logfile].records) = Len(logs[logfile].records) + 1
      /\ logs'[logfile].sound = Len(logs[logfile].records) + 1 =>
           group.entries \subseteq Firm(logs', {logfile}, "process")
  <2>1. logs'[logfile].sound = logs[logfile].sound
          \/ (logs'[logfile].sound = Len(logs[logfile].records) + 1
                /\ logs[logfile].sound = Len(logs[logfile].records))
    BY <1>4
  <2> QED  BY <1>1, <1>4, <2>1, WholeAppended
<1>6. ASSUME s # "failed", ~torn
      PROVE  logs'[logfile].sound = Len(logs[logfile].records) + 1
  <2>1. logs[logfile].sound = Len(logs[logfile].records)
    BY <1>1, <1>6 DEF Contained, TornInv
  <2> QED  BY <1>3, <1>4, <1>6, <2>1
<1>7. s \in {"sync", "insert"} /\ ~torn => group.entries \subseteq Firm(logs', {logfile}, "process")
  BY <1>5, <1>6
<1>8. s # "failed" /\ ~torn => logs'[logfile].sound = Len(logs'[logfile].records)
  BY <1>5, <1>6
<1> QED  BY <1>0, <1>2, <1>3, <1>4, <1>5, <1>7, <1>8, LogStepContained

\* and syncing it.
LEMMA SyncLogContained ==
  ASSUME IInv, Contained, NEW w \in Writes, SyncLog(w)
  PROVE  Contained' /\ Stored' = Stored
<1>0. state[w] \in Grouped /\ state[w] = "sync"  BY DEF SyncLog, Grouped
<1>1. /\ Types /\ IsFileMap(logs, Log) /\ logfile \in DOMAIN logs /\ phase = "open"
      /\ \A v \in Writes : state[v] # "failed"
  BY <1>0, GroupIsQueued DEF IInv, Types, MoreTypes, Grouped
<1>2. /\ UNCHANGED <<tables, manifests, current, phase, lastSequence, logNumber, version, mem,
                     imm, logfile, torn, doubtful, writers, group, bg, edit>>
      /\ group.entries \subseteq Whole(logs, {logfile})
      /\ ~torn => group.entries \subseteq Firm(logs, {logfile}, "process")
      /\ ~torn => logs[logfile].sound = Len(logs[logfile].records)
  BY <1>0, <1>1 DEF SyncLog, numbers, memtables, Contained, WritingInv, TornInv
<1>3. CASE logs' = SyncedLogs /\ state' = [state EXCEPT ![w] = "insert"]
  <2>1. /\ DOMAIN logs' = DOMAIN logs /\ \A l \in DOMAIN logs \ {logfile} : logs'[l] = logs[l]
        /\ logs'[logfile].records = logs[logfile].records
        /\ logs'[logfile].sound = logs[logfile].sound
        /\ logs'[logfile].synced = logs[logfile].sound
    BY <1>1, <1>3, SyncedLogIs
  <2>2. /\ Whole(logs', {logfile}) = Whole(logs, {logfile})
        /\ \A u : Firm(logs', {logfile}, u) = Firm(logs, {logfile}, "process")
    BY <2>1, WholeSynced
  <2>3. ASSUME NEW u
        PROVE  Firm(logs, {logfile}, u) \subseteq Firm(logs, {logfile}, "process")
    <3>1. logs[logfile] \in Log  BY <1>1, FileMapHolds
    <3>2. 1..Lasting(logs[logfile], u) \subseteq 1..Lasting(logs[logfile], "process")
      BY <3>1 DEF Lasting, Log, LogShape
    <3> QED  BY <3>2, FirmOne
  <2>4. "insert" \in Grouped  BY DEF Grouped
  <2>5. \A u : Firm(logs, {logfile}, u) \subseteq Firm(logs', {logfile}, u)  BY <2>2, <2>3
  <2>6. /\ ~torn => group.entries \subseteq Firm(logs', {logfile}, "process")
        /\ ~torn => group.entries \subseteq Firm(logs', {logfile}, "machine")
        /\ ~torn => logs'[logfile].sound = Len(logs'[logfile].records)
    BY <1>2, <2>1, <2>2
  <2> QED  BY <1>0, <1>2, <1>3, <2>1, <2>2, <2>4, <2>5, <2>6, LogStepContained
<1>4. CASE logs' = logs /\ state' = [state EXCEPT ![w] = "syncFailed"]
  <2>1. "syncFailed" \in Grouped  BY DEF Grouped
  <2> QED  BY <1>0, <1>2, <1>4, <2>1, LogStepContained
<1> QED  BY <1>3, <1>4 DEF SyncLog, SyncedLogs

\* The answers to a group.
LEMMA GroupAnswers ==
  ASSUME IInv, Contained, NEW w \in Writes, FinishGroup(w)
  PROVE  /\ state[w] \in Grouped
         /\ \A v \in Writes :
              IF v \in {writers[i] : i \in 1..group.size}
              THEN /\ state'[v] = IF state[w] = "insert" THEN "ok" ELSE "error"
                   /\ state[v] \in Waiting
              ELSE state'[v] = state[v] \/ (state[v] \in Waiting /\ state'[v] = "room")
         /\ \A v \in Writes : state'[v] \notin Grouped
<1> DEFINE answer == IF state[w] = "insert" THEN "ok" ELSE "error"
           first == {writers[i] : i \in 1..group.size}
<1>0. state[w] \in Grouped  BY DEF FinishGroup, Grouped
<1>1. group.size \in 1..Len(writers) /\ writers \in Seq(Writes)
  BY <1>0, GroupIsQueued DEF IInv, Types, TypeOK
<1>2. Answer(group.size, answer) /\ answer \in Answers  BY DEF FinishGroup, Answers
<1> HIDE DEF answer
<1>3. \A v \in Writes : state'[v] \notin Grouped  BY <1>1, <1>2, AnswerKeepsQueue
<1>4. /\ ToSet(SubSeq(writers, 1, group.size)) = first
      /\ writers' \in Seq(Writes) /\ ToSet(writers') = ToSet(writers) \ first
  BY <1>1, <1>2, RestIs DEF Answer
<1>5. \A v \in Writes : state'[v] = IF v \in first THEN answer
                                    ELSE IF writers' # <<>> /\ v = writers'[1] THEN "room"
                                    ELSE state[v]
  BY <1>2, <1>4 DEF Answer
<1>6. first \subseteq ToSet(writers)  BY <1>1, ToSetIs
<1>7. \A v \in ToSet(writers) \cap Writes : state[v] \in Waiting  BY DEF IInv, QueueInv
<1>8. writers' # <<>> => writers'[1] \in ToSet(writers)
  BY <1>4 DEF ToSet
<1> QED  BY <1>0, <1>3, <1>5, <1>6, <1>7, <1>8 DEF answer

\* The answers are in the memtable, or in no memtable.
LEMMA FinishGroupContained ==
  ASSUME IInv, Contained, NEW w \in Writes, FinishGroup(w)
  PROVE  /\ Contained' /\ phase = "open" /\ phase' = "open"
         /\ Stored' = IF state[w] = "insert" THEN Stored \cup group.entries ELSE Stored
<1> DEFINE first == {writers[i] : i \in 1..group.size}
           new == IF state[w] = "insert" THEN group.entries ELSE {}
<1>0. /\ state[w] \in Grouped
      /\ \A v \in Writes :
           IF v \in first
           THEN state'[v] = (IF state[w] = "insert" THEN "ok" ELSE "error") /\ state[v] \in Waiting
           ELSE state'[v] = state[v] \/ (state[v] \in Waiting /\ state'[v] = "room")
      /\ \A v \in Writes : state'[v] \notin Grouped
  BY GroupAnswers
<1>1. /\ phase = "open" /\ w = writers[1] /\ w \in Batches
      /\ \A e \in group.entries : e[2] \in first
      /\ logfile \in DOMAIN logs /\ group.size \in 1..Len(writers)
  BY <1>0, GroupIsQueued
<1>2. /\ mem' = mem \cup new /\ group' = NoGroup /\ phase' = "open"
      /\ lastSequence' = lastSequence + Cardinality(group.entries)
      /\ torn' = (torn \/ state[w] = "failed")
      /\ doubtful' = doubtful \cup IF torn THEN {e[2] : e \in new} ELSE {}
      /\ UNCHANGED <<logs, tables, manifests, current, phase, logNumber, version, imm, logfile,
                     bg, edit>>
  BY <1>1 DEF FinishGroup, directory
<1>3. /\ Types /\ lastSequence \in Nat /\ Cardinality(group.entries) \in Nat
      /\ All \in EntrySets /\ group.entries \subseteq All
  <2>1. Types  BY DEF IInv
  <2>2. group.entries \in EntrySets  BY <2>1 DEF Types, MoreTypes
  <2> QED  BY <2>1, <2>2, NumbersTyped, PartsTyped, FS_CardinalityType DEF EntrySets
<1>4. \A e \in All : e[1] \in Nat /\ e[2] \in Batches /\ e[2] \in Writes
  BY <1>3, EntryIs DEF Writes
<1>5. /\ \A e \in group.entries :
           lastSequence < e[1] /\ e[1] <= lastSequence + Cardinality(group.entries)
      /\ \A v \in first : v \in Batches => \E e \in group.entries : e[2] = v
      /\ w \notin Synced => \A e \in group.entries : e[2] \notin Synced
  BY <1>0 DEF Contained, GroupInv
<1> HIDE DEF first
<1>6. new \subseteq group.entries /\ (state[w] # "insert" => new = {})  OBVIOUS
<1>7. /\ new \subseteq Whole(logs, {logfile})
      /\ ~torn => new \subseteq Firm(logs, {logfile}, "process")
      /\ w \in Synced /\ ~torn => new \subseteq Firm(logs, {logfile}, "machine")
  <2>1. CASE new = {}  BY <2>1
  <2>2. CASE state[w] = "insert"  BY <1>6, <2>2 DEF Contained, WritingInv
  <2> QED  BY <1>6, <2>1, <2>2
<1>s. doubtful \subseteq doubtful' /\ (torn => \A e \in new : e[2] \in doubtful')
  BY <1>2
<1> HIDE DEF new
<1>8. group'.entries = {}  BY <1>2 DEF NoGroup
<1>9. All' \subseteq All  BY <1>2, <1>6, <1>8 DEF All
<1>10. ASSUME NEW e \in All
       PROVE  /\ state[e[2]] \in Answers => state'[e[2]] = state[e[2]]
              /\ state'[e[2]] = "ok" => state[e[2]] = "ok" \/ e \in new
  <2>1. state[e[2]] \in Answers => state[e[2]] \notin Waiting  BY DEF Answers, Waiting
  <2>2. CASE e[2] \in first
    <3>1. /\ state[e[2]] \in Waiting
          /\ state'[e[2]] = IF state[w] = "insert" THEN "ok" ELSE "error"
      BY <1>0, <1>4, <2>2
    <3>2. PICK d \in group.entries : d[2] = e[2]  BY <1>4, <1>5, <2>2
    <3>3. d[1] = e[1] /\ d \in All  BY <1>3, <3>2 DEF Contained, EntriesInv
    <3>4. d = e  BY <1>3, <3>2, <3>3, EntryIs
    <3> QED  BY <2>1, <3>1, <3>2, <3>4 DEF new
  <2>3. CASE e[2] \notin first
    BY <1>0, <1>4, <2>1, <2>3
  <2> QED  BY <2>2, <2>3
<1>11. EntriesInv'
  <2>1. \A e, f \in All' : e[1] = f[1] <=> e[2] = f[2]  BY <1>9 DEF Contained, EntriesInv
  <2>2. ASSUME NEW e \in All
        PROVE  state'[e[2]] \in Answers /\ e[1] <= lastSequence'
    <3>1. CASE e \in group.entries
      <4>1. state'[e[2]] = IF state[w] = "insert" THEN "ok" ELSE "error"
        BY <1>0, <1>1, <1>4, <3>1
      <4> QED  BY <1>2, <1>5, <3>1, <4>1 DEF Answers
    <3>2. CASE e \notin group.entries
      <4>1. state[e[2]] \in Answers /\ e[1] <= lastSequence
        BY <1>1, <3>2 DEF Contained, EntriesInv
      <4> QED  BY <1>2, <1>3, <1>4, <1>10, <4>1
    <3> QED  BY <3>1, <3>2
  <2> QED  BY <1>9, <2>1, <2>2 DEF EntriesInv
<1>12. GroupInv' /\ WritingInv'  BY <1>0, <1>2 DEF GroupInv, WritingInv, Grouped
<1>t. TornInv'
  <2> SUFFICES ASSUME ~torn' PROVE logs[logfile].sound = Len(logs[logfile].records)
    BY <1>2 DEF TornInv
  <2>1. \A v \in Writes : state[v] \in Grouped => v = w  BY <1>0, GroupIsQueued
  <2>2. ~torn /\ \A v \in Writes : state[v] # "failed"  BY <1>2, <2>1 DEF Grouped
  <2> QED  BY <1>1, <2>2 DEF Contained, TornInv
<1>13. Records' = Records /\ Tabled' = Tabled  BY <1>2 DEF Records, Tabled
<1>14. \A i \in DOMAIN Records : Files(i)' = Files(i)  BY <1>2, <1>13 DEF Files
<1>15. SequenceInv'  BY <1>13, <1>14 DEF Contained, SequenceInv
<1>16. Seen' = Seen \cup new  BY <1>2, <1>13 DEF Seen
<1>17. MemtablesInv'
  <2> DEFINE ls == Since(logs, logNumber)
  <2>0. ls \in SUBSET DOMAIN logs  BY DEF Since
  <2>1. mem \subseteq All /\ Seen \subseteq All  BY <1>3, PartsTyped
  <2>2. Whole(logs, ls) \subseteq All
    <3> HIDE DEF ls
    <3> QED  BY <1>3, <2>0, PartsTyped
  <2>3. \A u \in Ends, e \in mem' : Safe(e, u)' => e \in Firm(logs, {logfile}, u)
    <3>1. ASSUME NEW u \in Ends, NEW e \in mem, Safe(e, u)', e \notin new
          PROVE  e \in Firm(logs, {logfile}, u)
      <4>1. Safe(e, u)  BY <1>s, <1>10, <2>1, <3>1 DEF Safe
      <4> QED  BY <1>1, <4>1 DEF Contained, MemtablesInv
    <3>2. ASSUME NEW u \in Ends, NEW e \in new, Safe(e, u)'
          PROVE  e \in Firm(logs, {logfile}, u)
      <4>1. ~torn  BY <1>s, <3>2 DEF Safe
      <4>2. CASE u = "process"  BY <1>7, <4>1, <4>2
      <4>3. CASE u = "machine"
        <5>1. e[2] \in Synced  BY <3>2, <4>3 DEF Safe
        <5>2. w \in Synced  BY <1>5, <1>6, <5>1
        <5> QED  BY <1>7, <4>1, <4>3, <5>2
      <4> QED  BY <4>2, <4>3 DEF Ends
    <3> QED  BY <1>2, <3>1, <3>2
  <2>4. \A e \in Whole(logs, ls) : state'[e[2]] = "ok" => e \in Seen'
    <3>1. \A e \in Whole(logs, ls) : state[e[2]] = "ok" => e \in Seen
      BY <1>1 DEF Contained, MemtablesInv
    <3> QED  BY <1>10, <1>16, <2>2, <3>1
  <2>5. \A e \in Seen' : e[1] <= lastSequence'
    <3>1. \A e \in Seen : e[1] <= lastSequence  BY <1>1 DEF Contained, MemtablesInv
    <3> QED  BY <1>2, <1>3, <1>4, <1>5, <1>6, <1>16, <2>1, <3>1
  <2>6. mem' \subseteq Whole(logs, {logfile})
    BY <1>1, <1>2, <1>7 DEF Contained, MemtablesInv
  <2>7. \A l \in DOMAIN logs : l <= logfile  BY <1>1 DEF Contained, MemtablesInv
  <2> QED  BY <1>1, <1>2, <2>3, <2>4, <2>5, <2>6, <2>7 DEF MemtablesInv
<1>18. BackedUpInv'
  <2> SUFFICES ASSUME NEW i \in DOMAIN Records
               PROVE  LET old == Before(logs, Records[i].log, logfile)
                      IN  /\ logNumber <= Records[i].log /\ Records[i].log <= logfile
                          /\ Tabled \subseteq Files(i) /\ Files(i) \subseteq Tabled \cup (UNION imm)
                          /\ UNION imm \subseteq Files(i) \cup Whole(logs, old)
                          /\ \A u \in Ends, e \in UNION imm :
                               Safe(e, u)' => e \in Files(i) \cup Firm(logs, old, u)
    BY <1>2, <1>13, <1>14 DEF BackedUpInv
  <2>1. UNION imm \subseteq All /\ UNION imm \subseteq Seen  BY <1>3, PartsTyped DEF Seen
  <2>2. ASSUME NEW u \in Ends, NEW e \in UNION imm, Safe(e, u)'
        PROVE  Safe(e, u)
    <3>1. e \notin new
      <4>1. e[1] <= lastSequence  BY <1>1, <2>1 DEF Contained, MemtablesInv
      <4> QED  BY <1>3, <1>4, <1>5, <1>6, <2>1, <4>1
    <3> QED  BY <1>s, <1>10, <2>1, <2>2, <3>1 DEF Safe
  <2> QED  BY <1>1, <2>2 DEF Contained, BackedUpInv
<1>19. OutputInv' /\ EditHolds'  BY <1>2, <1>13, <1>14, OutputsKept
<1>20. ClosedInv' /\ ReplayInv' /\ NewLogInv'  BY <1>2, OpenHasNoMore
<1>21. Stored' = IF state[w] = "insert" THEN Stored \cup group.entries ELSE Stored
  BY <1>1, <1>2, <1>16 DEF Stored, new
<1> QED
  BY <1>1, <1>2, <1>11, <1>12, <1>t, <1>15, <1>17, <1>18, <1>19, <1>20, <1>21 DEF Contained

------------------------------------------------------------------------------
(***************************************************************************)
(* The background thread and the readers.                                  *)
(***************************************************************************)
\* Waking the writers answers nobody.
LEMMA SignalIsStateStep ==
  ASSUME IInv, state' \in {state, SignalAll(state)}
  PROVE  StateStep
<1>1. state \in [Writes -> WriterStates]  BY DEF IInv, Types, TypeOK
<1>2. \A w \in Writes : state'[w] = state[w] \/ (state[w] = "waiting" /\ state'[w] = "room")
  BY <1>1 DEF SignalAll
<1> QED  BY <1>2, MoveIsStateStep DEF Grouped, Answers

\* The thread has a number for its output that is in no version and in no record.
LEMMA NextFileIsNew ==
  ASSUME IInv, phase = "open"
  PROVE  /\ nextFile \notin Numbers(version) /\ nextFile # 0 /\ nextFile \in Nat
         /\ \A i \in DOMAIN Records : nextFile \notin Numbers(Records[i].files)
<1>0. /\ Types /\ nextFile \in Nat /\ current \in Nat /\ current < nextFile
      /\ \A n \in Numbers(version) : n \in Nat
  BY NumbersTyped DEF IInv, FilesInv, RunningInv, Running
<1>1. nextFile \notin Numbers(version)
  BY <1>0 DEF IInv, FilesInv, RunningInv, Running
<1>2. ASSUME NEW i \in DOMAIN Records
      PROVE  nextFile \notin Numbers(Records[i].files)
  <2>1. Records[i].next \in Nat /\ \A n \in Numbers(Records[i].files) : n \in Nat
    BY <1>0, RecordsTyped
  <2>2. /\ \A n \in Numbers(Records[i].files) : n < Records[i].next
        /\ Records[i].next <= nextFile
    BY DEF IInv, FilesInv, DescriptorsInv, RunningInv, Running
  <2> QED  BY <1>0, <2>1, <2>2
<1> QED  BY <1>0, <1>1, <1>2

\* What a CompactMemTable or a DoCompactionWork that ends leaves of the outputs.
LEMMA WorkEnds ==
  ASSUME IInv, Contained, EndOfWork, phase = "open", version' = version,
         bg.flush # 0 /\ bg.inputs # {} /\ bg.output # 0 =>
           /\ tables'[bg.output] = tables[bg.output]
           /\ In(tables', Numbers(bg.inputs)) = In(tables, Numbers(bg.inputs))
           /\ \A i \in DOMAIN Records' : bg.output \notin Numbers(Records'[i].files)
  PROVE  OutputInv' /\ EditHolds' /\ StateStep
<1>0. StateStep  BY EndOfWorkIs, SignalIsStateStep
<1>1. CASE bg' = Idle
  <2>1. bg'.at = "idle" /\ bg'.inputs = {}  BY <1>1 DEF Idle
  <2>2. OutputInv'  BY <2>1 DEF OutputInv
  <2>3. EditHolds'  BY <2>1 DEF EditHolds
  <2> QED  BY <1>0, <2>2, <2>3
<1>2. CASE /\ bg.flush # 0 /\ bg.inputs # {}
           /\ bg' = [at |-> "work", flush |-> 0, inputs |-> bg.inputs, output |-> bg.output]
  <2>1. /\ bg'.at = "work" /\ bg'.flush = 0 /\ bg'.inputs = bg.inputs /\ bg'.output = bg.output
    BY <1>2
  <2>2. EditHolds'  BY <2>1 DEF EditHolds
  <2>3. bg.inputs \subseteq version  BY DEF Contained, OutputInv
  <2>4. ASSUME bg.output # 0
        PROVE  /\ bg.output \notin Numbers(version)
               /\ tables[bg.output] \in {{}, In(tables, Numbers(bg.inputs))}
    BY <1>2, <2>4 DEF Contained, OutputInv
  <2>5. OutputInv'  BY <1>2, <2>1, <2>3, <2>4 DEF OutputInv
  <2> QED  BY <1>0, <2>2, <2>5
<1> QED  BY <1>0, <1>1, <1>2, EndOfWorkIs

\* The output of a compaction that waits for a memtable is in no record yet.
LEMMA OutputIsNew ==
  ASSUME IInv, Contained, phase = "open", bg.flush # 0, bg.inputs # {}, bg.output # 0
  PROVE  \A i \in DOMAIN Records : bg.output \notin Numbers(Records[i].files)
BY DEF Contained, OutputInv

\* A thread that finds an error, takes up a memtable or a compaction, or has an edit to
\* log leaves everything where it is; so does a reader.
LEMMA ThreadContained ==
  ASSUME IInv, Contained,
         BackgroundGivesUp \/ CompactMemTable \/ StartCompaction \/ InstallCompactionResults
           \/ RefVersion \/ UnrefVersion
  PROVE  Contained' /\ Stored' = Stored /\ phase' = "open" /\ StateStep
<1>0. phase = "open" /\ Types
  <2>1. CASE bg.at # "idle" \/ scheduled  BY <2>1, AtWorkIsOpen DEF IInv
  <2>2. CASE RefVersion \/ reader # {}  BY <2>2 DEF RefVersion, IInv, Quiet
  <2> QED
    BY <2>1, <2>2 DEF IInv, BackgroundGivesUp, CompactMemTable, StartCompaction,
                      InstallCompactionResults, UnrefVersion
<1>1. UNCHANGED <<directory, logs, tables, phase, lastSequence, logNumber, version, mem, imm,
                  logfile, torn, doubtful, writers, group>>
  BY DEF BackgroundGivesUp, CompactMemTable, StartCompaction, InstallCompactionResults,
         RefVersion, UnrefVersion, NewOutput, directory, numbers, memtables, queue
<1>2. /\ Records' = Records /\ Tabled' = Tabled /\ All' \subseteq All
      /\ \A i \in DOMAIN Records : Files(i)' = Files(i)
  BY <1>1, FilesUntouched
<1>3. StateStep
  <2>1. state' \in {state, SignalAll(state)}
    BY DEF BackgroundGivesUp, EndBackgroundCall, CompactMemTable, StartCompaction,
           InstallCompactionResults, RefVersion, UnrefVersion, queue
  <2> QED  BY <2>1, SignalIsStateStep
<1>4. /\ EntriesInv' /\ GroupInv' /\ WritingInv' /\ TornInv' /\ SequenceInv'
      /\ MemtablesInv' /\ BackedUpInv' /\ ClosedInv' /\ ReplayInv' /\ NewLogInv'
      /\ Stored' = Stored
  BY <1>0, <1>1, <1>2, <1>3, StoreKept
<1>5. OutputInv' /\ EditHolds'
  <2>1. CASE BackgroundGivesUp
    <3>1. bg' = Idle  BY <2>1 DEF BackgroundGivesUp, EndBackgroundCall
    <3> QED  BY <3>1 DEF Idle, OutputInv, EditHolds
  <2>2. CASE CompactMemTable
    <3>1. bg' = [bg EXCEPT !.at = "build", !.flush = nextFile]  BY <2>2 DEF CompactMemTable
    <3>2. bg \in Background  BY <1>0, WorkTyped
    <3>3. /\ bg'.at = "build" /\ bg'.flush = nextFile /\ bg'.inputs = bg.inputs
          /\ bg'.output = bg.output
      BY <3>1, <3>2 DEF Background
    <3>4. EditHolds'  BY <3>3 DEF EditHolds
    <3>5. bg.at \in {"work", "idle"}  BY <2>2 DEF CompactMemTable
    <3>6. OutputInv'
      BY <1>0, <1>1, <1>2, <3>3, <3>5, NextFileIsNew DEF Contained, OutputInv
    <3> QED  BY <3>4, <3>6
  <2>3. CASE StartCompaction
    <3>1. /\ bg' = [bg EXCEPT !.at = "work", !.inputs = {file \in version : file[1] \in {0, 1}}]
          /\ bg = Idle
      BY <2>3 DEF StartCompaction, IInv, FilesInv, StagesInv
    <3>2. bg'.at = "work" /\ bg'.output = 0 /\ bg'.inputs \subseteq version
      BY <3>1 DEF Idle
    <3> QED  BY <1>1, <3>2 DEF OutputInv, EditHolds
  <2>4. CASE InstallCompactionResults
    <3>1. /\ edit' = [add |-> {<<1, bg.output>>}, del |-> bg.inputs, log |-> logNumber,
                      next |-> nextFile, last |-> lastSequence]
          /\ bg' = [bg EXCEPT !.at = "append"]
          /\ bg.at = "work" /\ bg.output # 0
          /\ bg.output \in DOMAIN tables => tables[bg.output] # {}
      BY <2>4 DEF InstallCompactionResults
    <3>2. /\ bg.flush = 0 /\ bg.inputs # {} /\ bg.output \in DOMAIN tables
      BY <3>1 DEF IInv, FilesInv, StagesInv
    <3>3. bg \in Background  BY <1>0, WorkTyped
    <3>4. /\ bg'.at = "append" /\ bg'.flush = 0 /\ bg'.inputs = bg.inputs
          /\ bg'.output = bg.output
      BY <3>1, <3>2, <3>3 DEF Background
    <3>5. /\ bg.inputs \subseteq version /\ bg.output \notin Numbers(version)
          /\ \A i \in DOMAIN Records : bg.output \notin Numbers(Records[i].files)
          /\ tables[bg.output] = In(tables, Numbers(bg.inputs))
      BY <1>0, <3>1, <3>2 DEF Contained, OutputInv
    <3>6. OutputInv'  BY <1>1, <1>2, <3>4, <3>5 DEF OutputInv
    <3>7. /\ edit'.add = {<<1, bg.output>>} /\ edit'.del = bg.inputs /\ edit'.log = logNumber
          /\ edit'.next = nextFile /\ edit'.last = lastSequence
      BY <3>1
    <3>8. Numbers(edit'.add) = {bg.output}  BY <3>7 DEF Numbers
    <3>9. In(tables, {bg.output}) = tables[bg.output]  BY <3>2, InOne
    <3>10. logNumber < nextFile
      BY <1>0, NumbersTyped DEF IInv, FilesInv, RunningInv, Running
    <3>11. \A e \in Files(Len(Records)) \cup In(tables, {bg.output}) : e[1] <= lastSequence
      <4>1. Files(Len(Records)) \subseteq Seen
        <5>1. Len(Records) \in DOMAIN Records  BY <1>0, RecordsTyped
        <5> QED  BY <1>0, <5>1 DEF Contained, BackedUpInv, Seen
      <4>2. In(tables, Numbers(bg.inputs)) \subseteq Seen
        <5>1. Numbers(bg.inputs) \in SUBSET Numbers(version)  BY <3>5 DEF Numbers
        <5> QED  BY <5>1, InFewer DEF Seen, Tabled
      <4>3. \A e \in Seen : e[1] <= lastSequence  BY <1>0 DEF Contained, MemtablesInv
      <4> QED  BY <3>5, <3>9, <4>1, <4>2, <4>3
    <3>12. Files(Len(Records))' = Files(Len(Records))
      BY <1>1, <1>2 DEF Files
    <3>13. EditHolds'
      BY <1>1, <1>2, <3>4, <3>5, <3>7, <3>8, <3>10, <3>11, <3>12 DEF EditHolds
    <3> QED  BY <3>6, <3>13
  <2>5. CASE RefVersion \/ UnrefVersion
    <3>1. UNCHANGED <<tables, phase, version, imm, bg, logfile, logNumber, edit>>
      BY <1>1, <2>5 DEF RefVersion, UnrefVersion
    <3> QED  BY <1>2, <3>1, OutputsKept
  <2> QED  BY <2>1, <2>2, <2>3, <2>4, <2>5
<1> QED  BY <1>0, <1>1, <1>3, <1>4, <1>5 DEF Contained

\* When the thread fails before it has added a record, everything stays where it is.
LEMMA FailureContained ==
  ASSUME IInv, Contained, bg.at # "idle", BackgroundFails,
         UNCHANGED <<directory, phase, lastSequence, logNumber, mem, logfile, torn, doubtful,
                     writers, group, edit>>,
         bg.flush # 0 /\ bg.inputs # {} /\ bg.output # 0 =>
           \A i \in DOMAIN Records : bg.output \notin Numbers(Records[i].files)
  PROVE  Contained' /\ Stored' = Stored /\ phase' = "open" /\ StateStep
<1>0. phase = "open" /\ phase' = "open"  BY AtWorkIsOpen
<1>1. version' = version /\ imm' = imm /\ EndOfWork  BY DEF BackgroundFails
<1>2. UNCHANGED <<logs, tables>>  BY DEF directory
<1>3. /\ Records' = Records /\ Tabled' = Tabled /\ All' \subseteq All
      /\ \A i \in DOMAIN Records : Files(i)' = Files(i)
  BY <1>1, <1>2, FilesUntouched
<1>4. OutputInv' /\ EditHolds' /\ StateStep
  <2>1. bg.flush # 0 /\ bg.inputs # {} /\ bg.output # 0 =>
           /\ tables'[bg.output] = tables[bg.output]
           /\ In(tables', Numbers(bg.inputs)) = In(tables, Numbers(bg.inputs))
           /\ \A i \in DOMAIN Records' : bg.output \notin Numbers(Records'[i].files)
    BY <1>2, <1>3
  <2> QED  BY <1>0, <1>1, <2>1, WorkEnds
<1>5. /\ EntriesInv' /\ GroupInv' /\ WritingInv' /\ TornInv' /\ SequenceInv'
      /\ MemtablesInv' /\ BackedUpInv' /\ ClosedInv' /\ ReplayInv' /\ NewLogInv'
      /\ Stored' = Stored
  BY <1>0, <1>1, <1>2, <1>3, <1>4, StoreKept
<1> QED  BY <1>0, <1>4, <1>5 DEF Contained

\* Writing a table that no version and no record names leaves everything else where it is.
LEMMA TableWritten ==
  ASSUME IInv, Contained, StateStep, phase = "open", NEW n, NEW x, tables' = Put(tables, n, x),
         x \subseteq All, n \notin Numbers(version),
         \A i \in DOMAIN Records : n \notin Numbers(Records[i].files),
         UNCHANGED <<logs, manifests, current, phase, lastSequence, logNumber, version, mem, imm,
                     logfile, torn, doubtful, writers, group>>
  PROVE  /\ EntriesInv' /\ GroupInv' /\ WritingInv' /\ TornInv' /\ SequenceInv'
         /\ MemtablesInv' /\ BackedUpInv' /\ ClosedInv' /\ ReplayInv' /\ NewLogInv'
         /\ Stored' = Stored
         /\ Records' = Records /\ Tabled' = Tabled
         /\ \A i \in DOMAIN Records : Files(i)' = Files(i)
<1>1. Records' = Records  BY DEF Records
<1>2. Tabled' = Tabled
  <2>1. In(tables', Numbers(version)) = In(tables, Numbers(version))  BY InPut
  <2> QED  BY <2>1 DEF Tabled
<1>3. ASSUME NEW i \in DOMAIN Records
      PROVE  Files(i)' = Files(i)
  <2>1. n \notin Numbers(Records[i].files)  OBVIOUS
  <2>2. In(tables', Numbers(Records[i].files)) = In(tables, Numbers(Records[i].files))
    BY <2>1, InPut
  <2> QED  BY <1>1, <2>2 DEF Files
<1>4. All' \subseteq All
  <2>1. In(tables', DOMAIN tables') \subseteq In(tables, DOMAIN tables) \cup x  BY InPutAll
  <2> QED  BY <2>1 DEF All
<1> QED  BY <1>1, <1>2, <1>3, <1>4, StoreKept

\* Building the table of the memtable,
LEMMA BuildTableContained ==
  ASSUME IInv, Contained, BuildTable
  PROVE  Contained' /\ Stored' = Stored /\ phase' = "open" /\ StateStep
<1>0. /\ phase = "open" /\ Types /\ bg.at = "build" /\ bg \in Background
      /\ bg.flush # 0 /\ UNION imm \subseteq All /\ UNION imm \subseteq Seen
  BY AtWorkIsOpen, WorkTyped, PartsTyped DEF IInv, BuildTable, FilesInv, StagesInv, Seen
<1>u. UNCHANGED <<logs, manifests, current, phase, lastSequence, nextFile, logNumber, mem,
                  logfile, torn, doubtful, writers, room, group, reader>>
  BY DEF BuildTable, numbers
<1>n. /\ bg.flush \notin Numbers(version)
      /\ \A i \in DOMAIN Records : bg.flush \notin Numbers(Records[i].files)
      /\ bg.inputs \subseteq version
  BY <1>0 DEF Contained, OutputInv
<1>1. CASE BackgroundFails /\ UNCHANGED <<tables, edit>>
  <2>1. bg.flush # 0 /\ bg.inputs # {} /\ bg.output # 0 =>
           \A i \in DOMAIN Records : bg.output \notin Numbers(Records[i].files)
    BY <1>0, OutputIsNew
  <2> QED  BY <1>0, <1>1, <1>u, <2>1, FailureContained DEF directory
<1>2. CASE ~ (BackgroundFails /\ UNCHANGED <<tables, edit>>)
  <2>1. /\ tables' = (IF UNION imm = {} THEN tables ELSE Put(tables, bg.flush, UNION imm))
        /\ edit' = [add |-> IF UNION imm = {} THEN {} ELSE {<<PickLevel, bg.flush>>}, del |-> {},
                    log |-> logfile, next |-> nextFile, last |-> lastSequence]
        /\ bg' = [bg EXCEPT !.at = "append"]
        /\ UNCHANGED <<version, imm, state>>
    BY <1>2 DEF BuildTable
  <2>2. /\ bg'.at = "append" /\ bg'.flush = bg.flush /\ bg'.output = bg.output
        /\ bg'.inputs = bg.inputs
    BY <1>0, <2>1 DEF Background
  <2>3. StateStep  BY <2>1, MoveIsStateStep
  <2>4. /\ EntriesInv' /\ GroupInv' /\ WritingInv' /\ TornInv' /\ SequenceInv'
        /\ MemtablesInv' /\ BackedUpInv' /\ ClosedInv' /\ ReplayInv' /\ NewLogInv'
        /\ Stored' = Stored
        /\ Records' = Records /\ Tabled' = Tabled
        /\ \A i \in DOMAIN Records : Files(i)' = Files(i)
    <3>1. CASE UNION imm = {}
      <4>1. tables' = tables  BY <2>1, <3>1
      <4>2. UNCHANGED <<directory, version, mem, imm, group>>
        BY <1>u, <2>1, <4>1 DEF directory
      <4>3. /\ Records' = Records /\ Tabled' = Tabled /\ All' \subseteq All
            /\ \A i \in DOMAIN Records : Files(i)' = Files(i)
        BY <4>2, FilesUntouched
      <4>4. /\ EntriesInv' /\ GroupInv' /\ WritingInv' /\ TornInv' /\ SequenceInv'
            /\ MemtablesInv' /\ BackedUpInv' /\ ClosedInv' /\ ReplayInv' /\ NewLogInv'
            /\ Stored' = Stored
        BY <1>0, <1>u, <2>1, <2>3, <4>3, StoreKept
      <4> QED  BY <4>3, <4>4
    <3>2. CASE UNION imm # {}
      <4>1. tables' = Put(tables, bg.flush, UNION imm)  BY <2>1, <3>2
      <4>2. UNCHANGED <<logs, manifests, current, phase, lastSequence, logNumber, version, mem,
                        imm, logfile, torn, doubtful, writers, group>>
        BY <1>u, <2>1
      <4> QED  BY <1>0, <1>n, <2>3, <4>1, <4>2, TableWritten
    <3> QED  BY <3>1, <3>2
  <2>5. /\ edit'.del = {} /\ edit'.log = logfile /\ edit'.next = nextFile
        /\ edit'.last = lastSequence
        /\ edit'.add = IF UNION imm = {} THEN {} ELSE {<<PickLevel, bg.flush>>}
    BY <2>1
  <2>6. Numbers(edit'.add) = IF UNION imm = {} THEN {} ELSE {bg.flush}
    <3>1. CASE UNION imm = {}
      <4>1. edit'.add = {}  BY <2>5, <3>1
      <4>2. Numbers(edit'.add) = {}  BY <4>1 DEF Numbers
      <4> QED  BY <3>1, <4>2
    <3>2. CASE UNION imm # {}
      <4>1. edit'.add = {<<PickLevel, bg.flush>>}  BY <2>5, <3>2
      <4>2. Numbers(edit'.add) = {bg.flush}  BY <4>1 DEF Numbers
      <4> QED  BY <3>2, <4>2
    <3> QED  BY <3>1, <3>2
  <2>7. In(tables', Numbers(edit'.add)) = UNION imm
    <3>1. CASE UNION imm = {}
      <4>1. Numbers(edit'.add) = {}  BY <2>6, <3>1
      <4>2. In(tables', {}) = {}  BY InNone
      <4> QED  BY <3>1, <4>1, <4>2
    <3>2. CASE UNION imm # {}
      <4> DEFINE x == UNION imm
      <4>1. tables' = Put(tables, bg.flush, x)  BY <2>1, <3>2
      <4> HIDE DEF x
      <4>a. bg.flush \in DOMAIN tables' /\ tables'[bg.flush] = x  BY <4>1 DEF Put
      <4>b. In(tables', {bg.flush}) = tables'[bg.flush]  BY <4>a, InOne
      <4>2. In(tables', {bg.flush}) = UNION imm  BY <4>a, <4>b DEF x
      <4>3. Numbers(edit'.add) = {bg.flush}  BY <2>6, <3>2
      <4> QED  BY <4>2, <4>3
    <3> QED  BY <3>1, <3>2
  <2>8. EditHolds'
    <3>1. logfile < nextFile  BY <1>0 DEF IInv, FilesInv, RunningInv, Running
    <3>2. \A e \in Files(Len(Records)) \cup (UNION imm) : e[1] <= lastSequence
      <4>1. Files(Len(Records)) \subseteq Seen
        <5>1. Len(Records) \in DOMAIN Records  BY <1>0, RecordsTyped
        <5> QED  BY <1>0, <5>1 DEF Contained, BackedUpInv, Seen
      <4>2. \A e \in Seen : e[1] <= lastSequence  BY <1>0 DEF Contained, MemtablesInv
      <4> QED  BY <1>0, <4>1, <4>2
    <3>3. Files(Len(Records))' = Files(Len(Records))
      <4>1. Len(Records) \in DOMAIN Records  BY <1>0, RecordsTyped
      <4>2. Files(Len(Records))' = In(tables', Numbers(Records[Len(Records)].files))
        BY <2>4 DEF Files
      <4>3. \A i \in DOMAIN Records : In(tables', Numbers(Records[i].files)) = Files(i)
        BY <2>4 DEF Files
      <4> QED  BY <4>1, <4>2, <4>3
    <3>4. logfile' = logfile /\ imm' = imm  BY <1>u, <2>1
    <3>5. Numbers(edit'.add) \subseteq {bg.flush}  BY <2>6
    <3> QED  BY <1>0, <2>2, <2>5, <2>7, <3>1, <3>2, <3>3, <3>4, <3>5 DEF EditHolds
  <2>9. OutputInv'
    <3>1. version' = version /\ phase' = phase  BY <1>u, <2>1
    <3>2. ASSUME bg.inputs # {}, bg.output # 0
          PROVE  tables'[bg.output] \in {{}, In(tables', Numbers(bg.inputs))}
      <4>1. tables[bg.output] \in {{}, In(tables, Numbers(bg.inputs))}
            /\ bg.output \in DOMAIN tables /\ bg.output # bg.flush
        BY <1>0, <3>2 DEF Contained, OutputInv, IInv, FilesInv, StagesInv
      <4>2. tables'[bg.output] = tables[bg.output]
        BY <2>1, <4>1 DEF Put
      <4>3. In(tables', Numbers(bg.inputs)) = In(tables, Numbers(bg.inputs))
        <5>1. bg.flush \notin Numbers(bg.inputs)  BY <1>n DEF Numbers
        <5>2. CASE UNION imm = {}  BY <2>1, <5>2
        <5>3. CASE UNION imm # {}
          <6>1. tables' = Put(tables, bg.flush, UNION imm)  BY <2>1, <5>3
          <6> QED  BY <5>1, <6>1, InPut
        <5> QED  BY <5>2, <5>3
      <4> QED  BY <4>1, <4>2, <4>3
    <3>3. ASSUME bg.inputs # {}, bg.output # 0
          PROVE  /\ bg.output \notin Numbers(version)
                 /\ \A i \in DOMAIN Records : bg.output \notin Numbers(Records[i].files)
      BY <1>0, <3>3 DEF Contained, OutputInv
    <3> QED  BY <1>n, <2>2, <2>4, <3>1, <3>2, <3>3 DEF OutputInv
  <2> QED  BY <1>0, <1>u, <2>3, <2>4, <2>8, <2>9 DEF Contained
<1> QED  BY <1>1, <1>2

\* opening the output of a compaction
LEMMA OpenOutputContained ==
  ASSUME IInv, Contained, OpenCompactionOutputFile
  PROVE  Contained' /\ Stored' = Stored /\ phase' = "open" /\ StateStep
<1>0. /\ phase = "open" /\ Types /\ bg.at = "work" /\ bg \in Background
      /\ bg.flush = 0
  BY AtWorkIsOpen, WorkTyped DEF IInv, OpenCompactionOutputFile, FilesInv, StagesInv
<1>1. /\ UNCHANGED <<logs, manifests, current, phase, lastSequence, logNumber, version, mem, imm,
                     logfile, torn, doubtful, writers, state, group>>
      /\ tables' = Put(tables, nextFile, {})
      /\ bg' = [bg EXCEPT !.output = nextFile]
  BY DEF OpenCompactionOutputFile, NewOutput, memtables, queue
<1>2. /\ bg'.at = "work" /\ bg'.inputs = bg.inputs /\ bg'.output = nextFile
  BY <1>0, <1>1 DEF Background
<1>3. StateStep  BY <1>1, MoveIsStateStep
<1>4. /\ nextFile \notin Numbers(version)
      /\ \A i \in DOMAIN Records : nextFile \notin Numbers(Records[i].files)
  BY <1>0, NextFileIsNew
<1>5. /\ EntriesInv' /\ GroupInv' /\ WritingInv' /\ TornInv' /\ SequenceInv'
      /\ MemtablesInv' /\ BackedUpInv' /\ ClosedInv' /\ ReplayInv' /\ NewLogInv'
      /\ Stored' = Stored
      /\ Records' = Records
  BY <1>0, <1>1, <1>3, <1>4, TableWritten
<1>6. tables'[nextFile] = {}  BY <1>1 DEF Put
<1>7. OutputInv'
  <2>1. bg.inputs \subseteq version  BY <1>0 DEF Contained, OutputInv
  <2> QED  BY <1>1, <1>2, <1>4, <1>5, <1>6, <2>1 DEF OutputInv
<1>8. EditHolds'  BY <1>2 DEF EditHolds
<1> QED  BY <1>0, <1>1, <1>3, <1>5, <1>7, <1>8 DEF Contained

\* and finishing it.
LEMMA FinishOutputContained ==
  ASSUME IInv, Contained, FinishCompactionOutputFile, 0 \notin DOMAIN tables
  PROVE  Contained' /\ Stored' = Stored /\ phase' = "open" /\ StateStep
<1>0. /\ phase = "open" /\ Types /\ bg.at = "work" /\ bg.flush = 0 /\ bg.inputs # {}
      /\ bg.output \in DOMAIN tables
  BY AtWorkIsOpen DEF IInv, FinishCompactionOutputFile, FilesInv, StagesInv
<1>u. UNCHANGED <<logs, manifests, current, phase, lastSequence, logNumber, mem, logfile, torn,
                  doubtful, writers, group, edit>>
  BY DEF FinishCompactionOutputFile, numbers
<1>1. CASE BackgroundFails /\ UNCHANGED tables
  <2>1. UNCHANGED directory  BY <1>1, <1>u DEF directory
  <2> QED  BY <1>0, <1>1, <1>u, <2>1, FailureContained
<1>2. CASE ~ (BackgroundFails /\ UNCHANGED tables)
  <2> DEFINE x == In(tables, Numbers(bg.inputs))
  <2>1. /\ tables' = Put(tables, bg.output, x)
        /\ UNCHANGED <<version, imm, bg, state>>
    BY <1>2 DEF FinishCompactionOutputFile, Contents, In
  <2>2. x \subseteq All  BY <1>0, PartsTyped
  <2> HIDE DEF x
  <2>3. bg.output # 0  BY <1>0
  <2>4. /\ bg.output \notin Numbers(version)
        /\ \A i \in DOMAIN Records : bg.output \notin Numbers(Records[i].files)
        /\ bg.inputs \subseteq version
    BY <1>0, <2>3 DEF Contained, OutputInv
  <2>5. StateStep  BY <2>1, MoveIsStateStep
  <2>6. /\ EntriesInv' /\ GroupInv' /\ WritingInv' /\ TornInv' /\ SequenceInv'
        /\ MemtablesInv' /\ BackedUpInv' /\ ClosedInv' /\ ReplayInv' /\ NewLogInv'
        /\ Stored' = Stored
        /\ Records' = Records
    BY <1>0, <1>u, <2>1, <2>2, <2>4, <2>5, TableWritten
  <2>7. OutputInv'
    <3>1. tables'[bg.output] = x  BY <2>1 DEF Put
    <3>2. In(tables', Numbers(bg.inputs)) = x
      <4>1. bg.output \notin Numbers(bg.inputs)  BY <2>4 DEF Numbers
      <4> QED  BY <2>1, <4>1, InPut DEF x
    <3> QED  BY <1>0, <1>u, <2>1, <2>4, <2>6, <3>1, <3>2 DEF OutputInv
  <2>8. EditHolds'  BY <1>0, <2>1 DEF EditHolds
  <2> QED  BY <1>0, <1>u, <2>5, <2>6, <2>7, <2>8 DEF Contained
<1> QED  BY <1>1, <1>2

\* What the record holds that an edit adds to the descriptor.
LEMMA NewRecordHolds ==
  ASSUME IInv, Contained, bg.at = "append", NEW new, new = Apply(Descriptor, edit)
  PROVE  /\ In(tables, Numbers(new.files)) \subseteq Tabled \cup (UNION imm)
         /\ Files(Len(Records)) \subseteq In(tables, Numbers(new.files))
         /\ bg.flush # 0 => UNION imm \subseteq In(tables, Numbers(new.files))
         /\ \A e \in In(tables, Numbers(new.files)) : e[1] <= edit.last
         /\ new.log = edit.log /\ new.next = edit.next /\ new.last = edit.last
         /\ bg.flush # 0 /\ bg.inputs # {} /\ bg.output # 0 =>
              bg.output \notin Numbers(new.files)
<1>0. /\ phase = "open" /\ Types /\ Descriptor = Records[Len(Records)]
      /\ Len(Records) \in DOMAIN Records
  BY AtWorkIsOpen, RecordsTyped DEF IInv
<1> DEFINE last == Records[Len(Records)]
           kept == Numbers(last.files \ edit.del)
           put == Numbers(edit.add)
<1>1. /\ new.files = (last.files \ edit.del) \cup edit.add /\ new.log = edit.log
      /\ new.next = edit.next /\ new.last = edit.last
  BY <1>0 DEF Apply
<1>2. Numbers(new.files) = kept \cup put  BY <1>1 DEF Numbers
<1>3. kept \in SUBSET Numbers(last.files)  BY DEF Numbers
<1>4. Numbers(last.files) \subseteq kept \cup Numbers(edit.del)  BY DEF Numbers
<1>5. Files(Len(Records)) = In(tables, Numbers(last.files))  BY DEF Files
<1> HIDE DEF last, kept, put
<1>6. In(tables, Numbers(new.files)) = In(tables, kept) \cup In(tables, put)  BY <1>2, InUnion
<1>7. In(tables, kept) \subseteq Files(Len(Records))  BY <1>3, <1>5, InFewer
<1>8. /\ Tabled \subseteq Files(Len(Records)) /\ Files(Len(Records)) \subseteq Tabled \cup (UNION imm)
  BY <1>0 DEF Contained, BackedUpInv
<1>9. \A e \in Files(Len(Records)) \cup In(tables, put) : e[1] <= edit.last
  BY <1>0 DEF Contained, EditHolds, put
<1>10. Files(Len(Records)) \subseteq In(tables, kept) \cup In(tables, Numbers(edit.del))
  <2> DEFINE all == kept \cup Numbers(edit.del)
  <2>1. Numbers(last.files) \in SUBSET all  BY <1>4
  <2> HIDE DEF all
  <2>2. In(tables, Numbers(last.files)) \subseteq In(tables, all)  BY <2>1, InFewer
  <2>3. In(tables, all) = In(tables, kept) \cup In(tables, Numbers(edit.del))
    BY InUnion DEF all
  <2> QED  BY <1>5, <2>2, <2>3
<1>11. CASE bg.flush # 0
  <2>1. /\ edit.del = {} /\ In(tables, put) = UNION imm /\ put \subseteq {bg.flush}
    BY <1>0, <1>11 DEF Contained, EditHolds, put
  <2>2. Numbers(edit.del) = {}  BY <2>1 DEF Numbers
  <2>3. In(tables, {}) = {}  BY InNone
  <2>4. Files(Len(Records)) \subseteq In(tables, kept)  BY <1>10, <2>2, <2>3
  <2>5. bg.inputs # {} /\ bg.output # 0 => bg.output \notin Numbers(new.files)
    <3> SUFFICES ASSUME bg.inputs # {}, bg.output # 0 PROVE bg.output \notin Numbers(new.files)
      OBVIOUS
    <3>1. bg.output \notin Numbers(last.files)
      BY <1>0, <1>11, OutputIsNew DEF last
    <3>2. bg.output # bg.flush  BY <1>11 DEF IInv, FilesInv, StagesInv
    <3> QED  BY <1>2, <1>3, <2>1, <3>1, <3>2
  <2> QED  BY <1>1, <1>6, <1>7, <1>8, <1>9, <1>11, <2>1, <2>4, <2>5
<1>12. CASE bg.flush = 0
  <2>1. /\ edit.del = bg.inputs /\ edit.add = {<<1, bg.output>>}
        /\ tables[bg.output] = In(tables, Numbers(bg.inputs))
        /\ bg.inputs \subseteq version
    BY <1>0, <1>12 DEF Contained, EditHolds, OutputInv
  <2>2. put = {bg.output}  BY <2>1 DEF put, Numbers
  <2>3. bg.output \in DOMAIN tables  BY <1>12 DEF IInv, FilesInv, StagesInv
  <2>4. In(tables, put) = In(tables, Numbers(bg.inputs))  BY <2>1, <2>2, <2>3, InOne
  <2>5. Numbers(bg.inputs) \in SUBSET Numbers(version)  BY <2>1 DEF Numbers
  <2>6. In(tables, Numbers(bg.inputs)) \subseteq Tabled  BY <2>5, InFewer DEF Tabled
  <2> QED  BY <1>1, <1>6, <1>7, <1>8, <1>9, <1>10, <1>12, <2>1, <2>4, <2>6
<1> QED
  <2>1. bg.flush \in Nat  BY <1>0, WorkTyped
  <2> QED  BY <1>11, <1>12

\* A record more leaves everything where it is, and holds what the others do.
LEMMA RecordAdded ==
  ASSUME IInv, Contained, StateStep, bg.at = "append", manifests' = Record,
         UNCHANGED <<logs, tables, current, phase, lastSequence, logNumber, version, mem, imm,
                     logfile, torn, doubtful, writers, group>>
  PROVE  /\ EntriesInv' /\ GroupInv' /\ WritingInv' /\ TornInv' /\ SequenceInv'
         /\ MemtablesInv' /\ BackedUpInv' /\ ClosedInv' /\ ReplayInv' /\ NewLogInv'
         /\ Stored' = Stored
         /\ Len(Records) \in Nat /\ Len(Records') = Len(Records) + 1
         /\ DOMAIN Records = 1..Len(Records) /\ DOMAIN Records' = 1..(Len(Records) + 1)
         /\ \A i \in DOMAIN Records : Records'[i] = Records[i]
         /\ Records'[Len(Records) + 1] = Apply(Descriptor, edit)
<1> DEFINE new == Apply(Descriptor, edit)  n == Len(Records) + 1
<1>0. /\ phase = "open" /\ Types /\ Descriptor = Records[Len(Records)]
      /\ Len(Records) \in Nat /\ Len(Records) \in DOMAIN Records
      /\ DOMAIN Records = 1..Len(Records)
      /\ logNumber \in Nat /\ logfile \in Nat /\ edit.log \in Nat
  BY AtWorkIsOpen, RecordsTyped, NumbersTyped, WorkTyped DEF IInv
<1>1. /\ Len(Records') = n /\ \A i \in DOMAIN Records : Records'[i] = Records[i]
      /\ Records'[n] = new
  BY <1>0, RecordTyped
<1>2. DOMAIN Records' = 1..n
  <2>1. Records' = Append(Records, new) /\ new \in Described  BY RecordTyped
  <2>2. Records \in Seq(Described)  BY <1>0, RecordsTyped
  <2> HIDE DEF new
  <2> QED  BY <1>0, <2>1, <2>2
<1>3. /\ In(tables, Numbers(new.files)) \subseteq Tabled \cup (UNION imm)
      /\ Files(Len(Records)) \subseteq In(tables, Numbers(new.files))
      /\ bg.flush # 0 => UNION imm \subseteq In(tables, Numbers(new.files))
      /\ \A e \in In(tables, Numbers(new.files)) : e[1] <= edit.last
      /\ new.log = edit.log /\ new.next = edit.next /\ new.last = edit.last
  BY NewRecordHolds
<1> HIDE DEF new
<1>4. \A i \in DOMAIN Records : Files(i)' = Files(i)  BY <1>1 DEF Files
<1>5. \A i : i = n => Files(i)' = In(tables, Numbers(new.files))  BY <1>1 DEF Files
<1>6. NoAnswer  BY DEF StateStep
<1>7. Tabled' = Tabled /\ Seen' = Seen /\ All' = All  BY DEF Tabled, Seen, All
<1>8. EntriesInv' /\ GroupInv' /\ WritingInv'  BY <1>7, GroupKept
<1>t. TornInv'
  <2>1. \A w \in Writes : state[w] = "failed" => state'[w] = "failed"  BY DEF StateStep, Grouped
  <2> QED  BY <2>1, TornKept
<1>9. MemtablesInv'  BY <1>6, <1>7, MemtablesKept
<1>10. \A i \in DOMAIN Records' : i \in DOMAIN Records \/ i = n  BY <1>0, <1>2
<1>11. SequenceInv'
  <2>1. SequenceInv /\ edit.log < edit.next  BY <1>0 DEF Contained, EditHolds
  <2>2. ASSUME NEW i \in DOMAIN Records'
        PROVE  /\ Records'[i].log < Records'[i].next
               /\ \A e \in Files(i)' : e[1] <= Records'[i].last
    <3>1. CASE i \in DOMAIN Records  BY <1>1, <1>4, <2>1, <3>1 DEF SequenceInv
    <3>2. CASE i = n  BY <1>1, <1>3, <1>5, <2>1, <3>2
    <3> QED  BY <1>10, <3>1, <3>2
  <2> QED  BY <2>2 DEF SequenceInv
<1>12. BackedUpInv'
  <2> SUFFICES ASSUME NEW i \in DOMAIN Records'
               PROVE  LET old == Before(logs, Records'[i].log, logfile)
                      IN  /\ logNumber <= Records'[i].log /\ Records'[i].log <= logfile
                          /\ Tabled \subseteq Files(i)' /\ Files(i)' \subseteq Tabled \cup (UNION imm)
                          /\ UNION imm \subseteq Files(i)' \cup Whole(logs, old)
                          /\ \A u \in Ends, e \in UNION imm :
                               Safe(e, u)' => e \in Files(i)' \cup Firm(logs, old, u)
    BY <1>7 DEF BackedUpInv
  <2>1. UNION imm \subseteq All  BY <1>0, PartsTyped
  <2>2. \A u \in Ends, e \in UNION imm : Safe(e, u)' => Safe(e, u)
    BY <1>0, <1>6, <2>1, Acknowledged
  <2>3. BackedUpInv  BY DEF Contained
  <2>4. CASE i \in DOMAIN Records
    <3>1. Records'[i] = Records[i] /\ Files(i)' = Files(i)  BY <1>1, <1>4, <2>4
    <3> QED  BY <1>0, <2>2, <2>3, <2>4, <3>1 DEF BackedUpInv
  <2>5. CASE i = n
    <3> DEFINE m == Len(Records)
               old == Before(logs, Records[m].log, logfile)
               ls == Before(logs, edit.log, logfile)
    <3>1. Records'[i].log = edit.log /\ Files(i)' = In(tables, Numbers(new.files))
      BY <1>1, <1>3, <1>5, <2>5
    <3>2. /\ Tabled \subseteq Files(m) /\ Files(m) \subseteq Tabled \cup (UNION imm)
          /\ UNION imm \subseteq Files(m) \cup Whole(logs, old)
          /\ \A u \in Ends, e \in UNION imm : Safe(e, u) => e \in Files(m) \cup Firm(logs, old, u)
          /\ logNumber <= Records[m].log /\ Records[m].log \in Nat
      BY <1>0, <2>3, RecordsTyped DEF BackedUpInv
    <3>3. Tabled \subseteq Files(i)' /\ Files(i)' \subseteq Tabled \cup (UNION imm)
      BY <1>3, <3>1, <3>2
    <3>4. CASE bg.flush # 0
      <4>1. edit.log = logfile /\ UNION imm \subseteq Files(i)'
        BY <1>0, <1>3, <3>1, <3>4 DEF Contained, EditHolds
      <4>2. logNumber <= logfile  BY <1>0 DEF IInv, FilesInv, RunningInv, Running
      <4> QED  BY <1>0, <3>1, <3>3, <4>1, <4>2
    <3>5. CASE bg.flush = 0
      <4>1. edit.log = logNumber  BY <1>0, <3>5 DEF Contained, EditHolds
      <4>2. logNumber <= logfile  BY <1>0 DEF IInv, FilesInv, RunningInv, Running
      <4>3. old \in SUBSET ls
        <5>1. \A l \in DOMAIN logs : l \in Nat  BY <1>0 DEF Types, TypeOK
        <5> QED  BY <1>0, <3>2, <4>1, <5>1 DEF Before
      <4> HIDE DEF old, ls
      <4>4. Whole(logs, old) \subseteq Whole(logs, ls)
           /\ (\A u : Firm(logs, old, u) \subseteq Firm(logs, ls, u))
        BY <4>3, WholeFewer
      <4>5. /\ UNION imm \subseteq Files(i)' \cup Whole(logs, ls)
            /\ \A u \in Ends, e \in UNION imm : Safe(e, u)' => e \in Files(i)' \cup Firm(logs, ls, u)
        BY <1>3, <2>2, <3>1, <3>2, <4>4
      <4>6. /\ logNumber <= Records'[i].log /\ Records'[i].log <= logfile
        BY <1>0, <3>1, <4>1, <4>2
      <4> QED  BY <3>1, <3>3, <4>5, <4>6 DEF ls
    <3>6. bg.flush \in Nat  BY <1>0, WorkTyped
    <3> QED  BY <3>4, <3>5, <3>6
  <2> QED  BY <1>10, <2>4, <2>5
<1>13. Stored' = Stored  BY <1>0, <1>7 DEF Stored
<1>14. ClosedInv' /\ ReplayInv' /\ NewLogInv'  BY <1>0, OpenHasNoMore
<1> QED
  BY <1>0, <1>1, <1>2, <1>8, <1>t, <1>9, <1>11, <1>12, <1>13, <1>14 DEF new

\* Appending the edit to the descriptor,
LEMMA AppendToDescriptorContained ==
  ASSUME IInv, Contained, AppendToDescriptor
  PROVE  Contained' /\ Stored' = Stored /\ phase' = "open" /\ StateStep
<1>0. /\ phase = "open" /\ Types /\ bg.at = "append" /\ bg \in Background
      /\ Len(Records) \in DOMAIN Records
  BY AtWorkIsOpen, WorkTyped, RecordsTyped DEF IInv, AppendToDescriptor
<1>u. UNCHANGED <<logs, tables, current, phase, lastSequence, logNumber, mem, logfile, torn,
                  doubtful, writers, group, edit>>
  BY DEF AppendToDescriptor, numbers
<1>n. bg.flush # 0 /\ bg.inputs # {} /\ bg.output # 0 =>
        /\ \A i \in DOMAIN Records : bg.output \notin Numbers(Records[i].files)
        /\ bg.output \notin Numbers(Apply(Descriptor, edit).files)
  BY <1>0, OutputIsNew, NewRecordHolds
<1>1. CASE BackgroundFails /\ manifests' = manifests
  <2>1. UNCHANGED directory  BY <1>1, <1>u DEF directory
  <2> QED  BY <1>0, <1>1, <1>n, <1>u, <2>1, FailureContained
<1>2. CASE BackgroundFails /\ manifests' = Record
  <2>1. version' = version /\ imm' = imm /\ EndOfWork  BY <1>2 DEF BackgroundFails
  <2>2. StateStep  BY <2>1, EndOfWorkIs, SignalIsStateStep
  <2>3. /\ EntriesInv' /\ GroupInv' /\ WritingInv' /\ TornInv' /\ SequenceInv'
        /\ MemtablesInv' /\ BackedUpInv' /\ ClosedInv' /\ ReplayInv' /\ NewLogInv'
        /\ Stored' = Stored
        /\ Len(Records) \in Nat
        /\ DOMAIN Records = 1..Len(Records) /\ DOMAIN Records' = 1..(Len(Records) + 1)
        /\ \A i \in DOMAIN Records : Records'[i] = Records[i]
        /\ Records'[Len(Records) + 1] = Apply(Descriptor, edit)
    BY <1>0, <1>2, <1>u, <2>1, <2>2, RecordAdded
  <2>4. \A i \in DOMAIN Records' : i \in DOMAIN Records \/ i = Len(Records) + 1  BY <2>3
  <2>5. ASSUME bg.flush # 0, bg.inputs # {}, bg.output # 0, NEW i \in DOMAIN Records'
        PROVE  bg.output \notin Numbers(Records'[i].files)
    BY <1>n, <2>3, <2>4, <2>5
  <2>6. OutputInv' /\ EditHolds'  BY <1>0, <1>u, <2>1, <2>5, WorkEnds
  <2> QED  BY <1>0, <1>u, <2>2, <2>3, <2>6 DEF Contained
<1>3. CASE ~BackgroundFails
  <2>1. /\ manifests' = Record /\ bg' = [bg EXCEPT !.at = "sync"]
        /\ UNCHANGED <<version, imm, state>>
    BY <1>3 DEF AppendToDescriptor
  <2>2. /\ bg'.at = "sync" /\ bg'.flush = bg.flush /\ bg'.output = bg.output
        /\ bg'.inputs = bg.inputs
    BY <1>0, <2>1 DEF Background
  <2>3. StateStep  BY <2>1, MoveIsStateStep
  <2>4. /\ EntriesInv' /\ GroupInv' /\ WritingInv' /\ TornInv' /\ SequenceInv'
        /\ MemtablesInv' /\ BackedUpInv' /\ ClosedInv' /\ ReplayInv' /\ NewLogInv'
        /\ Stored' = Stored
        /\ Len(Records) \in Nat /\ Len(Records') = Len(Records) + 1
        /\ DOMAIN Records = 1..Len(Records) /\ DOMAIN Records' = 1..(Len(Records) + 1)
        /\ \A i \in DOMAIN Records : Records'[i] = Records[i]
        /\ Records'[Len(Records) + 1] = Apply(Descriptor, edit)
    BY <1>0, <1>u, <2>1, <2>3, RecordAdded
  <2>5. \A i \in DOMAIN Records' : i \in DOMAIN Records \/ i = Len(Records')  BY <2>4
  <2>6. OutputInv'
    <3>1. /\ bg.inputs \subseteq version
          /\ bg.inputs # {} /\ bg.output # 0 =>
               /\ bg.output \notin Numbers(version)
               /\ \A i \in DOMAIN Records : bg.output \notin Numbers(Records[i].files)
               /\ tables[bg.output] \in {{}, In(tables, Numbers(bg.inputs))}
      BY <1>0 DEF Contained, OutputInv
    <3>2. ASSUME bg.inputs # {}, bg.output # 0, NEW i \in DOMAIN Records',
                 bg.output \in Numbers(Records'[i].files)
          PROVE  bg.flush = 0 /\ i = Len(Records')
      <4>1. i = Len(Records')  BY <2>4, <2>5, <3>1, <3>2
      <4>2. bg.output \in Numbers(Apply(Descriptor, edit).files)  BY <2>4, <3>2, <4>1
      <4> QED  BY <1>n, <3>2, <4>1, <4>2
    <3> QED  BY <1>u, <2>1, <2>2, <3>1, <3>2 DEF OutputInv
  <2>7. EditHolds'
    <3>1. Files(Len(Records))' = In(tables, Numbers(Apply(Descriptor, edit).files))
      BY <1>u, <2>4 DEF Files
    <3>2. \A e \in Files(Len(Records))' : e[1] <= edit.last  BY <1>0, <3>1, NewRecordHolds
    <3> QED  BY <1>0, <1>u, <2>1, <2>2, <3>2 DEF Contained, EditHolds
  <2> QED  BY <1>0, <1>u, <2>3, <2>4, <2>6, <2>7 DEF Contained
<1> QED  BY <1>1, <1>2, <1>3 DEF AppendToDescriptor

\* and syncing it: the version holds what the last record does.
LEMMA SyncDescriptorContained ==
  ASSUME IInv, Contained, SyncDescriptor
  PROVE  Contained' /\ Stored' = Stored /\ phase' = "open" /\ StateStep
<1> DEFINE n == Len(Records)
<1>0. /\ phase = "open" /\ Types /\ bg.at = "sync" /\ bg \in Background
      /\ n \in DOMAIN Records /\ n \in Nat /\ Descriptor = Records[n]
      /\ bg.flush \in Nat /\ logNumber \in Nat /\ logfile \in Nat /\ edit.log \in Nat
  BY AtWorkIsOpen, WorkTyped, RecordsTyped, NumbersTyped DEF IInv, SyncDescriptor
<1>u. UNCHANGED <<logs, tables, current, phase, lastSequence, mem, logfile, torn, writers, group,
                  edit>>
  BY DEF SyncDescriptor
<1>1. CASE BackgroundFails /\ UNCHANGED <<manifests, logNumber, doubtful>>
  <2>1. UNCHANGED directory  BY <1>1, <1>u DEF directory
  <2>2. bg.flush # 0 /\ bg.inputs # {} /\ bg.output # 0 =>
           \A i \in DOMAIN Records : bg.output \notin Numbers(Records[i].files)
    BY <1>0, OutputIsNew
  <2> QED  BY <1>0, <1>1, <1>u, <2>1, <2>2, FailureContained
<1>2. CASE ~ (BackgroundFails /\ UNCHANGED <<manifests, logNumber, doubtful>>)
  <2>1. /\ manifests' = [manifests EXCEPT ![manifestFile] = <<Last(@)>>]
        /\ version' = (version \ edit.del) \cup edit.add
        /\ logNumber' = edit.log
        /\ imm' = (IF bg.flush # 0 THEN {} ELSE imm)
        /\ doubtful' = (IF bg.flush # 0 THEN doubtful \cap {e[2] : e \in mem} ELSE doubtful)
        /\ bg' = [bg EXCEPT !.at = "clean", !.inputs = IF bg.flush # 0 THEN @ ELSE {}]
        /\ UNCHANGED state
    BY <1>2 DEF SyncDescriptor
  <2>2. /\ bg'.at = "clean" /\ bg'.flush = bg.flush /\ bg'.output = bg.output
        /\ bg'.inputs = IF bg.flush # 0 THEN bg.inputs ELSE {}
    BY <1>0, <2>1 DEF Background
  <2>3. Records' = <<Records[n]>>
    <3>1. manifestFile = current /\ current \in DOMAIN manifests
      BY <1>0 DEF IInv, FilesInv, RunningInv, Running, Types, TypeOK
    <3> QED  BY <1>0, <1>u, <2>1, <3>1 DEF Records, Descriptor
  <2>4. DOMAIN Records' = {1} /\ Records'[1] = Records[n]  BY <2>3
  <2>5. Files(1)' = Files(n)  BY <1>u, <2>4 DEF Files
  <2>6. StateStep /\ NoAnswer  BY <2>1, MoveIsStateStep DEF StateStep
  <2>e. /\ n > 1 /\ Records[n] = Apply(Records[n - 1], edit)
    BY <1>0 DEF IInv, FilesInv, EditInv
  <2>7. /\ Records[n].log = edit.log /\ edit.log <= logfile /\ logNumber <= edit.log
        /\ edit.add \subseteq Records[n].files
    <3>1. Records[n].log = edit.log /\ edit.add \subseteq Records[n].files  BY <2>e DEF Apply
    <3> QED  BY <1>0, <3>1 DEF Contained, BackedUpInv
  <2>b. /\ Tabled \subseteq Files(n) /\ Files(n) \subseteq Tabled \cup (UNION imm)
        /\ UNION imm \subseteq Files(n) \cup Whole(logs, Before(logs, Records[n].log, logfile))
        /\ \A u \in Ends, e \in UNION imm : Safe(e, u) =>
             e \in Files(n) \cup Firm(logs, Before(logs, Records[n].log, logfile), u)
    BY <1>0 DEF Contained, BackedUpInv
  <2>8. /\ (UNION imm)' \subseteq UNION imm /\ Tabled' \cup (UNION imm)' = Tabled \cup (UNION imm)
        /\ Tabled' \subseteq Files(n) /\ Files(n) \subseteq Tabled' \cup (UNION imm)'
    <3> DEFINE left == Numbers(version \ edit.del)
               put == Numbers(edit.add)
    <3>1. Numbers(version') = left \cup put  BY <2>1 DEF Numbers
    <3>2. left \in SUBSET Numbers(version) /\ Numbers(version) \subseteq left \cup Numbers(edit.del)
      BY DEF Numbers
    <3> HIDE DEF left, put
    <3>3. Tabled' = In(tables, left) \cup In(tables, put)
      <4>1. In(tables, Numbers(version')) = In(tables, left) \cup In(tables, put)
        BY <3>1, InUnion
      <4> QED  BY <1>u, <4>1 DEF Tabled
    <3>4. In(tables, left) \subseteq Tabled  BY <3>2, InFewer DEF Tabled
    <3>5. Tabled \subseteq In(tables, left) \cup In(tables, Numbers(edit.del))
      <4> DEFINE all == left \cup Numbers(edit.del)
      <4>1. Numbers(version) \in SUBSET all  BY <3>2
      <4>2. In(tables, all) = In(tables, left) \cup In(tables, Numbers(edit.del))
        BY InUnion
      <4> HIDE DEF all
      <4>3. In(tables, Numbers(version)) \subseteq In(tables, all)  BY <4>1, InFewer
      <4> QED  BY <4>2, <4>3 DEF Tabled
    <3>6. CASE bg.flush # 0
      <4>1. /\ edit.del = {} /\ In(tables, put) = UNION imm
        BY <1>0, <3>6 DEF Contained, EditHolds, put
      <4>2. Numbers(edit.del) = {}  BY <4>1 DEF Numbers
      <4>3. In(tables, {}) = {}  BY InNone
      <4>4. (UNION imm)' = {}  BY <2>1, <3>6
      <4>5. In(tables, put) \subseteq Files(n)
        <5>1. put \in SUBSET Numbers(Records[n].files)  BY <2>7 DEF put, Numbers
        <5> QED  BY <5>1, InFewer DEF Files
      <4>6. Tabled' = Tabled \cup (UNION imm)  BY <3>3, <3>4, <3>5, <4>1, <4>2, <4>3
      <4> QED  BY <2>b, <4>1, <4>4, <4>5, <4>6
    <3>7. CASE bg.flush = 0
      <4>1. /\ edit.del = bg.inputs /\ edit.add = {<<1, bg.output>>}
            /\ tables[bg.output] = In(tables, Numbers(bg.inputs))
            /\ bg.inputs \subseteq version
        BY <1>0, <3>7 DEF Contained, EditHolds, OutputInv
      <4>2. put = {bg.output}  BY <4>1 DEF put, Numbers
      <4>3. bg.output \in DOMAIN tables  BY <1>0, <3>7 DEF IInv, FilesInv, StagesInv
      <4>4. In(tables, put) = In(tables, Numbers(edit.del))  BY <4>1, <4>2, <4>3, InOne
      <4>5. In(tables, Numbers(edit.del)) \subseteq Tabled
        <5>1. Numbers(edit.del) \in SUBSET Numbers(version)  BY <4>1 DEF Numbers
        <5> QED  BY <5>1, InFewer DEF Tabled
      <4>6. Tabled' = Tabled  BY <3>3, <3>4, <3>5, <4>4, <4>5
      <4>7. imm' = imm  BY <2>1, <3>7
      <4> QED  BY <2>b, <4>6, <4>7
    <3> QED  BY <1>0, <3>6, <3>7
  <2>9. Seen' = Seen  BY <1>u, <2>8 DEF Seen
  <2>10. All' \subseteq All  BY <1>u, <2>8 DEF All
  <2>11. EntriesInv' /\ GroupInv' /\ WritingInv'  BY <1>u, <2>6, <2>10, GroupKept
  <2>t. TornInv'
    <3>1. \A w \in Writes : state[w] = "failed" => state'[w] = "failed"  BY <2>1
    <3> QED  BY <1>u, <3>1, TornKept
  <2>12. SequenceInv'
    <3>1. SequenceInv  BY DEF Contained
    <3> QED  BY <1>0, <2>4, <2>5, <3>1 DEF SequenceInv
  <2>13. MemtablesInv'
    <3> DEFINE ls == Since(logs, logNumber')
    <3>1. ls \in SUBSET Since(logs, logNumber) /\ Since(logs, logNumber) \in SUBSET DOMAIN logs
      <4>1. \A l \in DOMAIN logs : l \in Nat  BY <1>0 DEF Types, TypeOK
      <4> QED  BY <1>0, <2>1, <2>7, <4>1 DEF Since
    <3> HIDE DEF ls
    <3>2. Whole(logs, ls) \subseteq Whole(logs, Since(logs, logNumber))
      BY <3>1, WholeFewer
    <3>3. mem \subseteq All /\ Whole(logs, Since(logs, logNumber)) \subseteq All
      BY <1>0, <3>1, PartsTyped
    <3>4. \A u \in Ends, e \in mem : Safe(e, u)' => e \in Firm(logs, {logfile}, u)
      <4>1. \A e \in mem : state'[e[2]] = state[e[2]]  BY <2>1
      <4>2. \A e \in mem : e[2] \in doubtful => e[2] \in doubtful'  BY <2>1
      <4>3. \A u \in Ends, e \in mem : Safe(e, u)' => Safe(e, u)  BY <4>1, <4>2 DEF Safe
      <4> QED  BY <1>0, <4>3 DEF Contained, MemtablesInv
    <3>5. \A e \in Whole(logs, ls) : state'[e[2]] = "ok" => e \in Seen
      <4>1. \A e \in Whole(logs, ls) : state[e[2]] = "ok" => e \in Seen
        BY <1>0, <3>2 DEF Contained, MemtablesInv
      <4>2. \A e \in Whole(logs, ls) : state'[e[2]] = "ok" => state[e[2]] = "ok"
        BY <2>1
      <4> QED  BY <4>1, <4>2
    <3>6. /\ logfile \in DOMAIN logs /\ \A l \in DOMAIN logs : l <= logfile
          /\ mem \subseteq Whole(logs, {logfile}) /\ \A e \in Seen : e[1] <= lastSequence
      BY <1>0 DEF Contained, MemtablesInv
    <3> QED  BY <1>u, <2>9, <3>4, <3>5, <3>6 DEF MemtablesInv, ls
  <2>14. BackedUpInv'
    <3> DEFINE old == Before(logs, Records[n].log, logfile)
    <3>2. \A u \in Ends, e \in (UNION imm)' : Safe(e, u)' => Safe(e, u)
      <4>1. CASE bg.flush # 0
        <5>1. (UNION imm)' = {}  BY <2>1, <4>1
        <5> QED  BY <5>1
      <4>2. CASE bg.flush = 0
        <5>1. doubtful' = doubtful /\ state' = state  BY <2>1, <4>2
        <5> QED  BY <5>1 DEF Safe
      <4> QED  BY <4>1, <4>2
    <3>3. /\ logNumber' <= Records'[1].log /\ Records'[1].log <= logfile'
      BY <1>0, <1>u, <2>1, <2>4, <2>7
    <3>4. /\ Tabled' \subseteq Files(1)' /\ Files(1)' \subseteq Tabled' \cup (UNION imm)'
      BY <2>5, <2>8
    <3>5. /\ (UNION imm)' \subseteq Files(1)' \cup Whole(logs, old)
          /\ \A u \in Ends, e \in (UNION imm)' : Safe(e, u)' => e \in Files(1)' \cup Firm(logs, old, u)
      BY <2>5, <2>8, <2>b, <3>2
    <3>6. Before(logs', Records'[1].log, logfile') = old  BY <1>u, <2>4
    <3> HIDE DEF old
    <3>7. \A i \in DOMAIN Records' : i = 1  BY <2>4
    <3> QED  BY <1>u, <3>3, <3>4, <3>5, <3>6, <3>7 DEF BackedUpInv
  <2>15. OutputInv'
    <3>1. CASE bg.flush # 0
      <4>1. /\ bg.inputs \subseteq version /\ edit.del = {} /\ Numbers(edit.add) \subseteq {bg.flush}
        BY <1>0, <3>1 DEF Contained, OutputInv, EditHolds
      <4>2. bg.inputs \subseteq version'  BY <2>1, <4>1
      <4>3. ASSUME bg.inputs # {}, bg.output # 0
            PROVE  /\ bg.output \notin Numbers(version')
                   /\ bg.output \notin Numbers(Records'[1].files)
                   /\ tables[bg.output] \in {{}, In(tables, Numbers(bg.inputs))}
        <5>1. /\ bg.output \notin Numbers(version)
              /\ bg.output \notin Numbers(Records[n].files)
              /\ tables[bg.output] \in {{}, In(tables, Numbers(bg.inputs))}
          BY <1>0, <3>1, <4>3 DEF Contained, OutputInv
        <5>2. bg.output # bg.flush  BY <3>1 DEF IInv, FilesInv, StagesInv
        <5>3. Numbers(version') \subseteq Numbers(version) \cup {bg.flush}
          BY <2>1, <4>1 DEF Numbers
        <5> QED  BY <2>4, <5>1, <5>2, <5>3
      <4> QED  BY <1>u, <2>2, <2>4, <3>1, <4>2, <4>3 DEF OutputInv
    <3>2. CASE bg.flush = 0
      <4>1. bg'.inputs = {}  BY <2>2, <3>2
      <4> QED  BY <2>2, <4>1 DEF OutputInv
    <3> QED  BY <1>0, <3>1, <3>2
  <2>16. EditHolds'  BY <2>2 DEF EditHolds
  <2>17. Stored' = Stored  BY <1>0, <1>u, <2>9 DEF Stored
  <2>18. ClosedInv' /\ ReplayInv' /\ NewLogInv'  BY <1>0, <1>u, OpenHasNoMore
  <2> QED
    BY <1>0, <1>u, <2>6, <2>11, <2>t, <2>12, <2>13, <2>14, <2>15, <2>16, <2>17, <2>18 DEF Contained
<1> QED  BY <1>1, <1>2

\* What is deleted is in no table of the version or of a record, and in no log that is
\* still needed.
LEMMA DeletionsAre ==
  ASSUME Types, FilesInv, Running, bg.at # "sync", DeleteObsoleteFiles,
         UNCHANGED <<version, mem, imm, group>>
  PROVE  /\ Records' = Records /\ Tabled' = Tabled /\ All' \subseteq All
         /\ \A i \in DOMAIN Records : Files(i)' = Files(i)
         /\ In(tables', Numbers(bg.inputs)) = In(tables, Numbers(bg.inputs))
         /\ \A n \in pending \cap DOMAIN tables : tables'[n] = tables[n]
         /\ In(tables', DOMAIN tables') = In(tables, DOMAIN tables \ ObsoleteTables)
<1>0. /\ tables' = Drop(tables, ObsoleteTables) /\ logs' = Drop(logs, ObsoleteLogs)
      /\ current' = current
  BY DEF DeleteObsoleteFiles
<1>1. /\ manifests'[current] = Records
      /\ \A i \in DOMAIN Records : Numbers(Records[i].files) \subseteq DOMAIN tables'
      /\ Numbers(version) \cup Numbers(bg.inputs) \cup UNION reader \subseteq DOMAIN tables'
      /\ pending \cap DOMAIN tables \subseteq DOMAIN tables'
      /\ DOMAIN tables' = DOMAIN tables \ ObsoleteTables
  BY DeletionsKeep, DeletionsTyped
<1>d. \A n \in DOMAIN tables \ ObsoleteTables : Drop(tables, ObsoleteTables)[n] = tables[n]
  BY DropIs
<1>2. \A n \in DOMAIN tables \ ObsoleteTables : tables'[n] = tables[n]  BY <1>0, <1>d
<1>3. Records' = Records  BY <1>0, <1>1 DEF Records
<1>4. ASSUME NEW ns, ns \subseteq DOMAIN tables'
      PROVE  In(tables', ns) = In(tables, ns)
  <2>1. ns \cap ObsoleteTables \cap DOMAIN tables = {}  BY <1>1, <1>4
  <2> QED  BY <1>0, <2>1, InDrop
<1>5. Tabled' = Tabled
  <2>1. In(tables', Numbers(version)) = In(tables, Numbers(version))  BY <1>1, <1>4
  <2> QED  BY <2>1 DEF Tabled
<1>6. ASSUME NEW i \in DOMAIN Records
      PROVE  Files(i)' = Files(i)
  <2>1. In(tables', Numbers(Records[i].files)) = In(tables, Numbers(Records[i].files))
    BY <1>1, <1>4
  <2> QED  BY <1>3, <2>1 DEF Files
<1>7. In(tables', Numbers(bg.inputs)) = In(tables, Numbers(bg.inputs))  BY <1>1, <1>4
<1>8. /\ In(tables', DOMAIN tables') \subseteq In(tables, DOMAIN tables)
      /\ In(tables', DOMAIN tables') = In(tables, DOMAIN tables \ ObsoleteTables)
  <2> DEFINE ns == DOMAIN tables \ ObsoleteTables
  <2>1. ns = DOMAIN tables \ ObsoleteTables  OBVIOUS
  <2> HIDE DEF ns
  <2>2. In(tables', DOMAIN tables') = In(tables, ns)
        /\ In(tables', DOMAIN tables') \subseteq In(tables, DOMAIN tables)
    BY <1>0, <2>1, InDropAll
  <2> QED  BY <2>2 DEF ns
<1>9. Whole(logs', DOMAIN logs') \subseteq Whole(logs, DOMAIN logs)
  <2>1. DOMAIN logs' = DOMAIN logs \ ObsoleteLogs  BY <1>0, DropIs
  <2>2. DOMAIN logs' \in SUBSET DOMAIN logs /\ DOMAIN logs' \cap ObsoleteLogs = {}  BY <2>1
  <2>3. Whole(logs', DOMAIN logs') = Whole(logs, DOMAIN logs')  BY <1>0, <2>2, WholeDrop
  <2>4. Whole(logs, DOMAIN logs') \subseteq Whole(logs, DOMAIN logs)  BY <2>2, WholeFewer
  <2> QED  BY <2>3, <2>4
<1>10. All' \subseteq All  BY <1>8, <1>9 DEF All
<1> QED  BY <1>1, <1>2, <1>3, <1>5, <1>6, <1>7, <1>8, <1>10

\* The logs from the log number on stay.
LEMMA NewerLogsStay ==
  ASSUME Types, logs' = Drop(logs, ObsoleteLogs), NEW ls \in SUBSET Since(logs, logNumber)
  PROVE  /\ ls \subseteq DOMAIN logs'
         /\ Whole(logs', ls) = Whole(logs, ls) /\ (\A u : Firm(logs', ls, u) = Firm(logs, ls, u))
<1>1. \A l \in DOMAIN logs : l \in Nat  BY DEF Types, TypeOK
<1>2. logNumber \in Nat  BY NumbersTyped
<1>3. ls \subseteq DOMAIN logs /\ ls \cap ObsoleteLogs = {}
  BY <1>1, <1>2 DEF Since, ObsoleteLogs
<1>4. DOMAIN logs' = DOMAIN logs \ ObsoleteLogs  BY DropIs
<1> QED  BY <1>3, <1>4, WholeDrop

\* Deleting the obsolete files after a flush or a compaction.
LEMMA CleanUpContained ==
  ASSUME IInv, Contained, CleanUp
  PROVE  Contained' /\ Stored' = Stored /\ phase' = "open" /\ StateStep
<1>0. /\ phase = "open" /\ Types /\ FilesInv /\ Running /\ bg.at = "clean"
      /\ logNumber \in Nat /\ logfile \in Nat /\ \A l \in DOMAIN logs : l \in Nat
  BY AtWorkIsOpen, NumbersTyped DEF IInv, CleanUp, Types, TypeOK
<1>u. /\ UNCHANGED <<phase, lastSequence, logNumber, version, mem, imm, logfile, torn, doubtful,
                     writers, group, edit, current>>
      /\ DeleteObsoleteFiles /\ EndOfWork
  BY DEF CleanUp, DeleteObsoleteFiles, numbers
<1>1. /\ Records' = Records /\ Tabled' = Tabled /\ All' \subseteq All
      /\ \A i \in DOMAIN Records : Files(i)' = Files(i)
      /\ In(tables', Numbers(bg.inputs)) = In(tables, Numbers(bg.inputs))
      /\ \A n \in pending \cap DOMAIN tables : tables'[n] = tables[n]
  BY <1>0, <1>u, DeletionsAre
<1>l. logs' = Drop(logs, ObsoleteLogs) /\ DOMAIN logs' = DOMAIN logs \ ObsoleteLogs
  BY <1>u, DropIs DEF DeleteObsoleteFiles
<1>2. OutputInv' /\ EditHolds' /\ StateStep
  <2>1. ASSUME bg.flush # 0, bg.inputs # {}, bg.output # 0
        PROVE  /\ tables'[bg.output] = tables[bg.output]
               /\ \A i \in DOMAIN Records' : bg.output \notin Numbers(Records'[i].files)
    <3>1. bg.output \in pending \cap DOMAIN tables
      BY <1>0, <2>1 DEF FilesInv, StagesInv
    <3> QED  BY <1>0, <1>1, <2>1, <3>1, OutputIsNew
  <2> QED  BY <1>0, <1>1, <1>u, <2>1, WorkEnds
<1>3. NoAnswer /\ doubtful \subseteq doubtful'  BY <1>2, <1>u DEF StateStep
<1>4. /\ logfile \in DOMAIN logs /\ logNumber <= logfile
      /\ \A l \in DOMAIN logs : l <= logfile
  BY <1>0 DEF Contained, MemtablesInv, FilesInv, RunningInv
<1>5. /\ logfile \in DOMAIN logs' /\ Whole(logs', {logfile}) = Whole(logs, {logfile})
      /\ (\A u : Firm(logs', {logfile}, u) = Firm(logs, {logfile}, u))
  <2> DEFINE ls == {logfile}
  <2>1. ls \in SUBSET Since(logs, logNumber)  BY <1>4 DEF Since
  <2>2. ls \subseteq DOMAIN logs' /\ Whole(logs', ls) = Whole(logs, ls)
        /\ (\A u : Firm(logs', ls, u) = Firm(logs, ls, u))
    <3> HIDE DEF ls
    <3> QED  BY <1>0, <1>l, <2>1, NewerLogsStay
  <2> QED  BY <2>2
<1>6. EntriesInv' /\ GroupInv' /\ WritingInv'  BY <1>1, <1>2, <1>5, <1>u, GroupKept
<1>t. TornInv'
  <2>1. logs'[logfile] = logs[logfile]  BY <1>5, <1>l, DropIs
  <2>2. \A w \in Writes : state[w] = "failed" => state'[w] = "failed"
    BY <1>2 DEF StateStep, Grouped
  <2> QED  BY <1>u, <2>1, <2>2, TornKept
<1>7. SequenceInv'  BY <1>1 DEF Contained, SequenceInv
<1>8. Seen' = Seen  BY <1>1, <1>u DEF Seen
<1>9. MemtablesInv'
  <2> DEFINE ls == Since(logs, logNumber)
  <2>1. Since(logs', logNumber) \in SUBSET ls  BY <1>l DEF Since
  <2>2. mem \subseteq All /\ ls \in SUBSET DOMAIN logs  BY <1>0, PartsTyped DEF Since
  <2>3. Whole(logs', Since(logs', logNumber)) \subseteq Whole(logs, ls)
    <3> DEFINE ms == Since(logs', logNumber)
    <3>0. ms \in SUBSET ls  BY <2>1
    <3> HIDE DEF ms
    <3>1. Whole(logs', ms) = Whole(logs, ms)  BY <1>0, <1>l, <3>0, NewerLogsStay
    <3> HIDE DEF ls
    <3>2. Whole(logs, ms) \subseteq Whole(logs, ls)  BY <3>0, WholeFewer
    <3> QED  BY <3>1, <3>2 DEF ms
  <2> HIDE DEF ls
  <2>4. Whole(logs, ls) \subseteq All  BY <1>0, <2>2, PartsTyped
  <2>5. \A u \in Ends, e \in mem : Safe(e, u)' => e \in Firm(logs', {logfile}, u)
    <3>1. \A u \in Ends, e \in mem : Safe(e, u)' => Safe(e, u)  BY <1>0, <1>3, <2>2, Acknowledged
    <3> QED  BY <1>0, <1>5, <3>1 DEF Contained, MemtablesInv
  <2>6. \A e \in Whole(logs, ls) : state'[e[2]] = "ok" => e \in Seen
    <3>1. \A e \in Whole(logs, ls) : state'[e[2]] = "ok" => state[e[2]] = "ok"
      BY <1>0, <1>3, <2>4, Acknowledged
    <3>2. \A e \in Whole(logs, ls) : state[e[2]] = "ok" => e \in Seen
      BY <1>0 DEF Contained, MemtablesInv, ls
    <3> QED  BY <3>1, <3>2
  <2>7. /\ \A l \in DOMAIN logs' : l <= logfile /\ mem \subseteq Whole(logs', {logfile})
        /\ \A e \in Seen : e[1] <= lastSequence
    BY <1>0, <1>4, <1>5, <1>l DEF Contained, MemtablesInv
  <2> QED  BY <1>5, <1>8, <1>u, <2>3, <2>5, <2>6, <2>7 DEF MemtablesInv
<1>10. BackedUpInv'
  <2> SUFFICES ASSUME NEW i \in DOMAIN Records
               PROVE  LET old == Before(logs', Records[i].log, logfile)
                      IN  /\ logNumber <= Records[i].log /\ Records[i].log <= logfile
                          /\ Tabled \subseteq Files(i) /\ Files(i) \subseteq Tabled \cup (UNION imm)
                          /\ UNION imm \subseteq Files(i) \cup Whole(logs', old)
                          /\ \A u \in Ends, e \in UNION imm :
                               Safe(e, u)' => e \in Files(i) \cup Firm(logs', old, u)
    BY <1>1, <1>u DEF BackedUpInv
  <2> DEFINE old == Before(logs, Records[i].log, logfile)
  <2>1. UNION imm \subseteq All  BY <1>0, PartsTyped
  <2>2. \A u \in Ends, e \in UNION imm : Safe(e, u)' => Safe(e, u)
    BY <1>0, <1>3, <2>1, Acknowledged
  <2>3. /\ logNumber <= Records[i].log /\ Records[i].log <= logfile
        /\ Tabled \subseteq Files(i) /\ Files(i) \subseteq Tabled \cup (UNION imm)
        /\ UNION imm \subseteq Files(i) \cup Whole(logs, old)
        /\ \A u \in Ends, e \in UNION imm : Safe(e, u) => e \in Files(i) \cup Firm(logs, old, u)
    BY <1>0 DEF Contained, BackedUpInv
  <2>4. Records[i].log \in Nat  BY <1>0, RecordsTyped
  <2>5. old \in SUBSET Since(logs, logNumber)  BY <1>0, <2>3, <2>4 DEF Before, Since
  <2>6. old \subseteq DOMAIN logs' /\ Whole(logs', old) = Whole(logs, old)
        /\ (\A u : Firm(logs', old, u) = Firm(logs, old, u))
    <3> HIDE DEF old
    <3> QED  BY <1>0, <1>l, <2>5, NewerLogsStay
  <2>7. Before(logs', Records[i].log, logfile) = old  BY <1>l, <2>6 DEF Before
  <2> HIDE DEF old
  <2> QED  BY <2>2, <2>3, <2>6, <2>7
<1>11. Stored' = Stored  BY <1>0, <1>8, <1>u DEF Stored
<1>12. ClosedInv' /\ ReplayInv' /\ NewLogInv'  BY <1>0, <1>u, OpenHasNoMore
<1> QED
  BY <1>0, <1>2, <1>6, <1>t, <1>7, <1>9, <1>10, <1>11, <1>12, <1>u DEF Contained

------------------------------------------------------------------------------
(***************************************************************************)
(* The end of the process or of the machine.                               *)
(***************************************************************************)
\* What is left of the logs was there before, and all of it is sound, or synced if the
\* machine ends.
LEMMA LogsAfterCrash ==
  ASSUME Types, NEW machine \in BOOLEAN, NEW left \in LogsLeft(machine), NEW gone,
         logs' = Drop(left, gone)
  PROVE  /\ DOMAIN logs' = DOMAIN logs \ gone
         /\ \A l \in DOMAIN logs' : /\ logs[l] \in Log /\ logs'[l] \in LeftOf(logs[l], machine)
                                    /\ logs'[l].sound = Len(logs'[l].records)
                                    /\ machine => logs'[l].synced = Len(logs'[l].records)
<1>0. IsFileMap(logs, Log)  BY DEF Types, MoreTypes
<1>1. DOMAIN left = DOMAIN logs /\ \A l \in DOMAIN logs : left[l] \in LeftOf(logs[l], machine)
  BY DEF LogsLeft
<1>2. DOMAIN logs' = DOMAIN left \ gone /\ \A l \in DOMAIN left \ gone : logs'[l] = left[l]
  BY DropIs
<1>3. ASSUME NEW l \in DOMAIN logs'
      PROVE  /\ logs[l] \in Log /\ logs'[l] \in LeftOf(logs[l], machine)
             /\ logs'[l].sound = Len(logs'[l].records)
             /\ machine => logs'[l].synced = Len(logs'[l].records)
  <2>1. l \in DOMAIN logs /\ logs'[l] = left[l]  BY <1>1, <1>2
  <2>2. logs[l] \in Log /\ logs'[l] \in LeftOf(logs[l], machine)
    BY <1>0, <1>1, <2>1, FileMapHolds
  <2> QED  BY <2>2, LeftIs
<1> QED  BY <1>1, <1>2, <1>3

\* No log has more than it had.
LEMMA WholeAfterCrash ==
  ASSUME Types, NEW machine \in BOOLEAN, NEW left \in LogsLeft(machine), NEW gone,
         logs' = Drop(left, gone), NEW ls, ls \subseteq DOMAIN logs, ls \cap gone = {}
  PROVE  ls \subseteq DOMAIN logs' /\ Whole(logs', ls) \subseteq Whole(logs, ls)
<1>1. DOMAIN logs' = DOMAIN logs \ gone  BY LogsAfterCrash
<1>2. ASSUME NEW e \in Whole(logs', ls)
      PROVE  e \in Whole(logs, ls)
  <2>1. PICK l \in ls : e \in UNION ToSet(logs'[l].records)  BY WholeIs
  <2>2. logs[l] \in Log /\ logs'[l] \in LeftOf(logs[l], machine)  BY <1>1, LogsAfterCrash
  <2> DEFINE new == logs'[l].records
             old == logs[l].records
  <2>3. /\ logs'[l] \in Log /\ Len(new) <= Len(old)
        /\ \A k \in 1..Len(new) : new[k] \in {{}, old[k]}
    BY <2>2, LeftIs
  <2>4. /\ DOMAIN new = 1..Len(new) /\ DOMAIN old = 1..Len(old)
        /\ Len(new) \in Nat /\ Len(old) \in Nat
    BY <2>2, <2>3, LastingTyped
  <2>5. PICK k \in DOMAIN new : e \in new[k]  BY <2>1 DEF ToSet
  <2> HIDE DEF new, old
  <2>6. k \in DOMAIN old /\ e \in old[k]  BY <2>3, <2>4, <2>5
  <2>7. e \in UNION ToSet(logs[l].records)  BY <2>6 DEF ToSet, old
  <2> QED  BY <2>7, WholeIs
<1> QED  BY <1>1, <1>2

\* What outlasts an end is there after it, and after the end of the machine all that is
\* there outlasts another one.
LEMMA FirmAfterCrash ==
  ASSUME Types, NEW machine \in BOOLEAN, NEW left \in LogsLeft(machine), NEW gone,
         logs' = Drop(left, gone), NEW ls, ls \subseteq DOMAIN logs, ls \cap gone = {},
         NEW u \in Ends, machine => u = "machine"
  PROVE  Firm(logs, ls, u) \subseteq Firm(logs', ls, u)
<1> SUFFICES ASSUME NEW e \in Firm(logs, ls, u) PROVE e \in Firm(logs', ls, u)  OBVIOUS
<1>1. DOMAIN logs' = DOMAIN logs \ gone  BY LogsAfterCrash
<1>2. PICK l \in ls : \E k \in 1..Lasting(logs[l], u) : e \in logs[l].records[k]  BY FirmIs
<1>3. PICK k \in 1..Lasting(logs[l], u) : e \in logs[l].records[k]  BY <1>2
<1>4. logs[l] \in Log /\ logs'[l] \in LeftOf(logs[l], machine)  BY <1>1, LogsAfterCrash
<1> DEFINE old == logs[l]
           new == logs'[l]
<1>5. /\ new \in Log /\ new.sound = Len(new.records)
      /\ new.synced = IF machine THEN Len(new.records) ELSE old.synced
      /\ old.synced <= Len(new.records)
      /\ ~machine => Len(new.records) = Len(old.records)
      /\ \A n \in 1..Len(new.records) : n <= old.sound => new.records[n] = old.records[n]
  BY <1>4, LeftIs
<1>6. /\ old.sound \in Nat /\ old.synced \in Nat /\ old.synced <= old.sound
      /\ old.sound <= Len(old.records) /\ Len(new.records) \in Nat /\ Len(old.records) \in Nat
  BY <1>4, <1>5, LastingTyped DEF Log, LogShape
<1>7. k \in 1..Lasting(old, u) /\ e \in old.records[k]  BY <1>3
<1> HIDE DEF old, new
<1>8. Lasting(old, u) <= Lasting(new, u) /\ Lasting(old, u) <= old.sound
      /\ Lasting(old, u) <= Len(new.records)
  BY <1>5, <1>6 DEF Lasting, Ends
<1>9. Lasting(old, u) \in Nat /\ Lasting(new, u) \in Nat  BY <1>5, <1>6 DEF Lasting
<1>10. k \in 1..Lasting(new, u) /\ e \in new.records[k]  BY <1>5, <1>6, <1>7, <1>8, <1>9
<1>11. \E n \in 1..Lasting(logs'[l], u) : e \in logs'[l].records[n]  BY <1>10 DEF new
<1> QED  BY <1>11, FirmIs

\* Whichever record is opened from, what was acknowledged and is not in the database does
\* not come back unless it is doubtful, and what an end may not take is found; and the last
\* record leads to everything.
LEMMA RecordsLead ==
  ASSUME IInv, Contained, NEW i \in DOMAIN Records
  PROVE  /\ \A e \in Found(i) : state[e[2]] = "ok" /\ e[2] \notin doubtful => e \in Stored
         /\ \A u \in Ends, e \in Stored :
              (u = "machine" \/ i = Len(Records)) /\ Safe(e, u) => e \in Sure(i, u)
         /\ Stored \subseteq Found(Len(Records))
<1>0. /\ Types /\ Len(Records) \in DOMAIN Records /\ Records[i].log \in Nat
      /\ logNumber \in Nat /\ logfile \in Nat /\ \A l \in DOMAIN logs : l \in Nat
  BY RecordsTyped, NumbersTyped DEF IInv, Types, TypeOK
<1>1. CASE phase # "open"
  <2>1. Stored = Found(Len(Records))  BY <1>1 DEF Stored
  <2>2. \A e \in Found(i) : state[e[2]] = "ok" /\ e[2] \notin doubtful => e \in Stored
    BY <1>1, <2>1 DEF Contained, ClosedInv
  <2>3. \A e \in Stored : Safe(e, "machine") => e \in Sure(i, "machine")
    BY <1>1, <2>1 DEF Contained, ClosedInv
  <2>4. ASSUME i = Len(Records), NEW e \in Stored
        PROVE  e \in Sure(i, "process")
    <3> DEFINE ls == Since(logs, Records[i].log)
    <3>1. e \in Files(i) \cup Whole(logs, ls)  BY <2>1, <2>4 DEF Found
    <3>2. ls \in SUBSET DOMAIN logs /\ IsFileMap(logs, Log)
      BY <1>0 DEF Since, Types, MoreTypes
    <3>3. Sure(i, "process") = Files(i) \cup Firm(logs, ls, "process")  BY DEF Sure
    <3> HIDE DEF ls
    <3>4. \A l \in ls : Lasting(logs[l], "process") = Len(logs[l].records)
      BY <1>1, <3>2 DEF Contained, ClosedInv, Lasting
    <3>5. Whole(logs, ls) \subseteq Firm(logs, ls, "process")  BY <3>2, <3>4, WholeIsFirm
    <3> QED  BY <3>1, <3>3, <3>5
  <2>5. ASSUME NEW u \in Ends, NEW e \in Stored, u = "machine" \/ i = Len(Records), Safe(e, u)
        PROVE  e \in Sure(i, u)
    <3>1. CASE u = "machine"  BY <2>3, <2>5, <3>1
    <3>2. CASE u = "process"  BY <2>4, <2>5, <3>2
    <3> QED  BY <3>1, <3>2 DEF Ends
  <2> QED  BY <2>1, <2>2, <2>5
<1>2. CASE phase = "open"
  <2>1. Stored = mem \cup (UNION imm) \cup Tabled /\ Stored = Seen  BY <1>2 DEF Stored, Seen
  <2>2. ASSUME NEW k \in DOMAIN Records
        PROVE  /\ Stored \subseteq Found(k)
               /\ \A u \in Ends, e \in Stored : Safe(e, u) => e \in Sure(k, u)
    <3> DEFINE all == Since(logs, Records[k].log)
               old == Before(logs, Records[k].log, logfile)
               new == {logfile}
    <3>1. /\ logNumber <= Records[k].log /\ Records[k].log <= logfile
          /\ Tabled \subseteq Files(k)
          /\ UNION imm \subseteq Files(k) \cup Whole(logs, old)
          /\ \A u \in Ends, e \in UNION imm : Safe(e, u) => e \in Files(k) \cup Firm(logs, old, u)
      BY <1>2 DEF Contained, BackedUpInv
    <3>2. /\ logfile \in DOMAIN logs /\ mem \subseteq Whole(logs, new)
          /\ \A u \in Ends, e \in mem : Safe(e, u) => e \in Firm(logs, new, u)
      BY <1>2 DEF Contained, MemtablesInv
    <3>3. old \in SUBSET all /\ new \in SUBSET all
      BY <1>0, <3>1, <3>2 DEF Before, Since
    <3>4. Found(k) = Files(k) \cup Whole(logs, all)
      BY DEF Found
    <3>s. \A u \in Ends : Sure(k, u) = Files(k) \cup Firm(logs, all, u)  BY DEF Sure
    <3> HIDE DEF all, old, new
    <3>5. Whole(logs, old) \subseteq Whole(logs, all) /\ Whole(logs, new) \subseteq Whole(logs, all)
      BY <3>3, WholeFewer
    <3>6. Stored \subseteq Found(k)  BY <2>1, <3>1, <3>2, <3>4, <3>5
    <3>7. ASSUME NEW u \in Ends, NEW e \in Stored, Safe(e, u)
          PROVE  e \in Sure(k, u)
      <4>0. Sure(k, u) = Files(k) \cup Firm(logs, all, u)  BY <3>s
      <4>1. CASE e \in mem
        <5>1. e \in Firm(logs, new, u)  BY <3>2, <3>7, <4>1
        <5>2. Firm(logs, new, u) \subseteq Firm(logs, all, u)  BY <3>3, WholeFewer
        <5> QED  BY <4>0, <5>1, <5>2
      <4>2. CASE e \in UNION imm
        <5>1. e \in Files(k) \cup Firm(logs, old, u)  BY <3>1, <3>7, <4>2
        <5>2. Firm(logs, old, u) \subseteq Firm(logs, all, u)  BY <3>3, WholeFewer
        <5> QED  BY <4>0, <5>1, <5>2
      <4>3. CASE e \in Tabled  BY <3>1, <4>0, <4>3
      <4> QED  BY <2>1, <4>1, <4>2, <4>3
    <3> QED  BY <3>6, <3>7
  <2>3. \A e \in Found(i) : state[e[2]] = "ok" => e \in Stored
    <3> DEFINE ls == Since(logs, Records[i].log)
               ms == Since(logs, logNumber)
    <3>1. logNumber <= Records[i].log /\ Files(i) \subseteq Tabled \cup (UNION imm)
      BY <1>2 DEF Contained, BackedUpInv
    <3>2. ls \in SUBSET ms  BY <1>0, <3>1 DEF Since
    <3>3. Found(i) = Files(i) \cup Whole(logs, ls)  BY DEF Found
    <3>4. \A e \in Whole(logs, ms) : state[e[2]] = "ok" => e \in Seen
      BY <1>2 DEF Contained, MemtablesInv
    <3> HIDE DEF ls, ms
    <3>5. Whole(logs, ls) \subseteq Whole(logs, ms)  BY <3>2, WholeFewer
    <3> QED  BY <2>1, <3>1, <3>3, <3>4, <3>5
  <2> QED  BY <1>0, <2>2, <2>3
<1> QED  BY <1>1, <1>2

\* Every entry belongs to a write that was answered or waits for its answer.
LEMMA EntriesAreSettled ==
  ASSUME IInv, Contained, NEW e \in All
  PROVE  e[2] \in Batches /\ state[e[2]] \in Answers \cup Waiting
<1>1. e[2] \in Batches  BY PartsTyped, EntryIs DEF IInv
<1>2. CASE e \notin group.entries  BY <1>1, <1>2 DEF Contained, EntriesInv
<1>3. CASE e \in group.entries
  <2>1. group # NoGroup  BY <1>3 DEF NoGroup
  <2>2. PICK w \in Writes : state[w] \in Grouped  BY <2>1 DEF Contained, GroupInv
  <2> QED  BY <1>1, <1>3, <2>2, GroupIsQueued
<1> QED  BY <1>2, <1>3

\* The descriptor is left as it was, or with one of the records that were not synced.
LEMMA DescriptorAfterCrash ==
  ASSUME IInv, NEW machine \in BOOLEAN, Crash(machine)
  PROVE  \E i \in DOMAIN Records : Records' = IF machine THEN <<Records[i]>> ELSE Records
<1>0. Types /\ FilesInv /\ Quiet /\ current' = current  BY DEF IInv, Crash
<1>1. PICK left \in ManifestsLeft(machine), gone \in PartOf(ObsoleteManifests) :
        manifests' = Drop(left, gone)
  BY DEF Crash
<1>2. 1 \in DOMAIN Records  BY <1>0, RecordsTyped
<1>3. PICK i \in DOMAIN Records :
        left = [manifests EXCEPT ![current] = IF machine THEN <<Records[i]>> ELSE Records]
  BY <1>2 DEF ManifestsLeft, Records
<1> DEFINE kept == IF machine THEN <<Records[i]>> ELSE Records
<1>4. left = [manifests EXCEPT ![current] = kept]  BY <1>3
<1> HIDE DEF kept
<1>5. current \in DOMAIN manifests /\ current \in Nat
  BY <1>0, NumbersTyped DEF Types, TypeOK
<1>6. current \notin gone
  <2>1. CASE Cleaning
    <3>1. Running  BY <1>0, <2>1 DEF Cleaning, Running, Quiet, Idle
    <3>2. manifestFile = current  BY <1>0, <3>1 DEF FilesInv, RunningInv
    <3> QED  BY <1>5, <2>1, <3>2 DEF PartOf, ObsoleteManifests
  <2>2. CASE ~Cleaning  BY <2>2 DEF PartOf
  <2> QED  BY <2>1, <2>2
<1>7. Records' = kept  BY <1>0, <1>1, <1>4, <1>5, <1>6 DEF Drop, Restrict, Records
<1> QED  BY <1>7 DEF kept

\* What a record leads to, before and after.
LEMMA FoundAfterCrash ==
  ASSUME IInv, IInv', NEW machine \in BOOLEAN, Crash(machine),
         NEW j \in DOMAIN Records, NEW k \in DOMAIN Records', Records'[k] = Records[j]
  PROVE  /\ Files(k)' = Files(j) /\ Found(k)' \subseteq Found(j)
         /\ \A u \in Ends : (machine => u = "machine") => Sure(j, u) \subseteq Sure(k, u)'
         /\ \A u \in Ends : Sure(k, u)' \subseteq Found(k)'
         /\ machine => Found(k)' \subseteq Sure(k, "machine")'
<1> DEFINE ns == Numbers(Records[j].files)
           ls == Since(logs, Records[j].log)
<1>0. /\ Types /\ FilesInv /\ Quiet /\ StagesInv
      /\ DOMAIN Records = 1..Len(Records) /\ Records[j].log \in Nat /\ logNumber \in Nat
      /\ \A l \in DOMAIN logs : l \in Nat
  BY RecordsTyped, NumbersTyped DEF IInv, FilesInv, Types, TypeOK
<1>1. Files(k)' = Files(j)
  <2>1. PICK lost \in PartOf(ObsoleteTables) : tables' = Drop(tables, lost)  BY DEF Crash
  <2>2. Numbers(Records'[k].files) \subseteq DOMAIN tables'
    BY DEF IInv, FilesInv, DescriptorsInv
  <2>3. DOMAIN tables' = DOMAIN tables \ lost  BY <2>1, DropIs
  <2>4. ns \cap lost \cap DOMAIN tables = {}  BY <2>2, <2>3
  <2>5. Files(k)' = In(tables', ns) /\ Files(j) = In(tables, ns)  BY DEF Files
  <2> HIDE DEF ns
  <2>6. In(tables', ns) = In(tables, ns)  BY <2>1, <2>4, InDrop
  <2> QED  BY <2>5, <2>6
<1>2. PICK left \in LogsLeft(machine), gone \in PartOf(ObsoleteLogs) : logs' = Drop(left, gone)
  BY DEF Crash
<1>3. ls \subseteq DOMAIN logs /\ ls \cap gone = {}
  <2>1. CASE Cleaning /\ ~bgError
    <3>1. Running /\ bg.at # "sync"
      BY <1>0, <2>1 DEF Cleaning, Running, Quiet, Idle
    <3>2. Len(Records) = 1 /\ Records[1].log = logNumber
      BY <1>0, <2>1, <3>1 DEF FilesInv, AgreeInv
    <3>3. Records[j].log = logNumber
      <4>1. j = 1  BY <1>0, <3>2
      <4> QED  BY <3>2, <4>1
    <3>4. gone \subseteq {l \in DOMAIN logs : l < logNumber}
      BY <2>1 DEF PartOf, ObsoleteLogs
    <3> QED  BY <1>0, <3>3, <3>4 DEF Since
  <2>2. CASE ~ (Cleaning /\ ~bgError)
    <3>1. gone = {}  BY <2>2 DEF PartOf, ObsoleteLogs
    <3> QED  BY <3>1 DEF Since
  <2> QED  BY <2>1, <2>2
<1>4. DOMAIN logs' = DOMAIN logs \ gone
  <2>1. DOMAIN left = DOMAIN logs  BY <1>0, LeftTyped
  <2>2. DOMAIN Drop(left, gone) = DOMAIN left \ gone  BY DropIs
  <2> QED  BY <1>2, <2>1, <2>2
<1>5. Since(logs', Records'[k].log) = ls  BY <1>3, <1>4 DEF Since
<1>6. Found(k)' = Files(k)' \cup Whole(logs', ls) /\ Found(j) = Files(j) \cup Whole(logs, ls)
  BY <1>5 DEF Found
<1>7. ASSUME NEW u \in Ends
      PROVE  /\ Sure(k, u)' = Files(k)' \cup Firm(logs', ls, u)
             /\ Sure(j, u) = Files(j) \cup Firm(logs, ls, u)
  BY <1>5 DEF Sure
<1> HIDE DEF ls
<1>8. ls \in SUBSET DOMAIN logs' /\ Whole(logs', ls) \subseteq Whole(logs, ls)
  BY <1>0, <1>2, <1>3, WholeAfterCrash
<1>9. Found(k)' \subseteq Found(j)  BY <1>1, <1>6, <1>8
<1>10. ASSUME NEW u \in Ends, machine => u = "machine"
       PROVE  Sure(j, u) \subseteq Sure(k, u)'
  <2>1. Firm(logs, ls, u) \subseteq Firm(logs', ls, u)
    BY <1>0, <1>2, <1>3, <1>10, FirmAfterCrash
  <2> QED  BY <1>1, <1>7, <2>1
<1>11. IsFileMap(logs', Log)  BY DEF IInv, Types, MoreTypes
<1>12. ASSUME NEW u \in Ends
       PROVE  Sure(k, u)' \subseteq Found(k)'
  <2>1. Firm(logs', ls, u) \subseteq Whole(logs', ls)  BY <1>8, <1>11, FirmIsWhole
  <2> QED  BY <1>6, <1>7, <2>1
<1>13. ASSUME machine
       PROVE  Found(k)' \subseteq Sure(k, "machine")'
  <2>1. \A l \in ls : Lasting(logs'[l], "machine") = Len(logs'[l].records)
    BY <1>0, <1>2, <1>8, <1>13, LogsAfterCrash DEF Lasting
  <2>2. Whole(logs', ls) \subseteq Firm(logs', ls, "machine")
    BY <1>8, <1>11, <2>1, WholeIsFirm
  <2> QED  BY <1>6, <1>7, <2>2 DEF Ends
<1> QED  BY <1>1, <1>9, <1>10, <1>12, <1>13

\* What there is after a crash was there before.
LEMMA NothingAppears ==
  ASSUME IInv, NEW machine \in BOOLEAN, Crash(machine)
  PROVE  All' \subseteq All
<1>0. Types  BY DEF IInv
<1>1. mem' = {} /\ imm' = {} /\ group'.entries = {}  BY DEF Crash, NoGroup
<1>2. In(tables', DOMAIN tables') \subseteq All
  <2>1. PICK lost \in PartOf(ObsoleteTables) : tables' = Drop(tables, lost)  BY DEF Crash
  <2> DEFINE ns == DOMAIN tables \ lost
  <2>2. \A f : f = Drop(tables, lost) => In(f, DOMAIN f) \subseteq In(tables, DOMAIN tables)
    BY InDropAll
  <2>3. In(tables', DOMAIN tables') \subseteq In(tables, DOMAIN tables)  BY <2>1, <2>2
  <2> QED  BY <1>0, <2>3, PartsTyped
<1>3. Whole(logs', DOMAIN logs') \subseteq All
  <2>1. PICK left \in LogsLeft(machine), gone \in PartOf(ObsoleteLogs) : logs' = Drop(left, gone)
    BY DEF Crash
  <2> DEFINE ls == DOMAIN logs \ gone
  <2>2. DOMAIN left = DOMAIN logs  BY <1>0, LeftTyped
  <2>d. DOMAIN Drop(left, gone) = DOMAIN left \ gone  BY DropIs
  <2>3. DOMAIN logs' = ls  BY <2>1, <2>2, <2>d
  <2>4. ls \subseteq DOMAIN logs /\ ls \cap gone = {}  OBVIOUS
  <2> HIDE DEF ls
  <2>5. Whole(logs', ls) \subseteq Whole(logs, ls)  BY <1>0, <2>1, <2>4, WholeAfterCrash
  <2>6. Whole(logs, ls) \subseteq All  BY <1>0, <2>4, PartsTyped
  <2> QED  BY <2>3, <2>5, <2>6
<1>4. All' = mem' \cup (UNION imm') \cup group'.entries
              \cup In(tables', DOMAIN tables') \cup Whole(logs', DOMAIN logs')
  BY DEF All
<1> QED  BY <1>1, <1>2, <1>3, <1>4

\* A crash loses nothing that was acknowledged and, if the machine ends, synced, unless it is
\* doubtful; and nothing else comes back that was acknowledged and lost.
LEMMA CrashContained ==
  ASSUME IInv, Contained, NEW machine \in BOOLEAN, Crash(machine)
  PROVE  /\ Contained' /\ All' \subseteq All
         /\ \A u \in Ends, e \in Stored :
              (machine => u = "machine") /\ Safe(e, u) => e \in Stored'
         /\ \A e \in Stored' : state[e[2]] = "ok" /\ e[2] \notin doubtful => e \in Stored
<1>0. /\ IInv' /\ Types /\ Types' /\ phase' = "down" /\ group' = NoGroup
      /\ state' = [w \in Writes |-> IF state[w] \in {"idle", "ok"} THEN state[w] ELSE "lost"]
      /\ doubtful' = doubtful
  BY CrashKeeps DEF IInv, Crash
<1>1. PICK i \in DOMAIN Records : Records' = IF machine THEN <<Records[i]>> ELSE Records
  BY DescriptorAfterCrash
<1>2. /\ Len(Records) \in Nat /\ DOMAIN Records = 1..Len(Records)
      /\ Len(Records) \in DOMAIN Records
      /\ Len(Records') \in DOMAIN Records'
  <2>1. /\ Len(Records) \in Nat /\ DOMAIN Records = 1..Len(Records)
        /\ Len(Records) \in DOMAIN Records
    BY <1>0, RecordsTyped
  <2>2. CASE machine
    <3>1. Records' = <<Records[i]>>  BY <1>1, <2>2
    <3>2. Len(Records') = 1 /\ DOMAIN Records' = {1}  BY <3>1
    <3> QED  BY <2>1, <3>2
  <2>3. CASE ~machine  BY <1>1, <2>1, <2>3
  <2> QED  BY <2>1, <2>2, <2>3
<1>3. ASSUME NEW k \in DOMAIN Records'
      PROVE  \E j \in DOMAIN Records : /\ Records'[k] = Records[j]
                                       /\ ~machine => j = k
                                       /\ machine => k = Len(Records')
  <2>1. CASE machine
    <3>1. Records' = <<Records[i]>>  BY <1>1, <2>1
    <3>2. k = 1 /\ Len(Records') = 1 /\ Records'[1] = Records[i]  BY <3>1
    <3> QED  BY <2>1, <3>2
  <2>2. CASE ~machine  BY <1>1, <2>2
  <2> QED  BY <2>1, <2>2
<1>4. All' \subseteq All  BY NothingAppears
<1>5. EntriesInv'
  <2>1. \A e, f \in All' : e[1] = f[1] <=> e[2] = f[2]  BY <1>4 DEF Contained, EntriesInv
  <2>2. ASSUME NEW e \in All'
        PROVE  state'[e[2]] \in Answers
    <3>1. e[2] \in Batches /\ state[e[2]] \in Answers \cup Waiting
      BY <1>4, EntriesAreSettled
    <3> QED  BY <1>0, <3>1 DEF Answers, Waiting, Writes
  <2> QED  BY <1>0, <2>1, <2>2 DEF EntriesInv
<1>6. SequenceInv'
  <2> SUFFICES ASSUME NEW k \in DOMAIN Records'
               PROVE  /\ Records'[k].log < Records'[k].next
                      /\ \A e \in Files(k)' : e[1] <= Records'[k].last
    BY DEF SequenceInv
  <2>1. PICK j \in DOMAIN Records : Records'[k] = Records[j]  BY <1>3
  <2>2. Files(k)' = Files(j)  BY <1>0, <2>1, FoundAfterCrash
  <2> QED  BY <2>1, <2>2 DEF Contained, SequenceInv
<1>a. ASSUME NEW e \in All, state'[e[2]] = "ok"
      PROVE  state[e[2]] = "ok"
  <2>1. e[2] \in Writes  BY EntriesAreSettled DEF Writes
  <2> QED  BY <1>0, <1>a, <2>1
<1>7. PICK k \in DOMAIN Records' : k = Len(Records')  BY <1>2
<1>8. Stored' = Found(k)'  BY <1>0, <1>7 DEF Stored, Found, Files
<1>9. PICK j \in DOMAIN Records : Records'[k] = Records[j] /\ (~machine => j = k)
  BY <1>3
<1>10. /\ Found(k)' \subseteq Found(j)
       /\ \A u \in Ends : (machine => u = "machine") => Sure(j, u) \subseteq Found(k)'
  BY <1>0, <1>9, FoundAfterCrash
<1>11. /\ \A e \in Found(j) : state[e[2]] = "ok" /\ e[2] \notin doubtful => e \in Stored
       /\ \A u \in Ends, e \in Stored :
            (u = "machine" \/ j = Len(Records)) /\ Safe(e, u) => e \in Sure(j, u)
  BY RecordsLead
<1>12. ASSUME NEW u \in Ends, NEW e \in Stored, machine => u = "machine", Safe(e, u)
       PROVE  e \in Stored'
  <2>1. u = "machine" \/ j = Len(Records)  BY <1>1, <1>7, <1>9, <1>12
  <2>2. e \in Sure(j, u)  BY <1>11, <1>12, <2>1
  <2> QED  BY <1>8, <1>10, <1>12, <2>2
<1>13. \A e \in Stored' : state[e[2]] = "ok" /\ e[2] \notin doubtful => e \in Stored
  BY <1>8, <1>10, <1>11
<1>14. Stored' \subseteq All
  <2>1. Found(j) \subseteq All  BY <1>0, FoundTyped
  <2> QED  BY <1>8, <1>10, <2>1
<1>s. \A l \in DOMAIN logs' : logs'[l].sound = Len(logs'[l].records)
  <2>1. PICK left \in LogsLeft(machine), gone \in PartOf(ObsoleteLogs) : logs' = Drop(left, gone)
    BY DEF Crash
  <2> QED  BY <1>0, <2>1, LogsAfterCrash
<1>15. ClosedInv'
  <2> SUFFICES ASSUME NEW m \in DOMAIN Records'
               PROVE  /\ \A e \in Found(m)' : state'[e[2]] = "ok" /\ e[2] \notin doubtful' =>
                           e \in Found(Len(Records))'
                      /\ \A e \in Found(Len(Records))' :
                           Safe(e, "machine")' => e \in Sure(m, "machine")'
    BY <1>s DEF ClosedInv
  <2>1. Found(Len(Records))' = Stored'  BY <1>0 DEF Stored
  <2>2. PICK n \in DOMAIN Records : /\ Records'[m] = Records[n]
                                    /\ machine => m = Len(Records')
    BY <1>3
  <2>3. Found(m)' \subseteq Found(n) /\ Sure(n, "machine") \subseteq Sure(m, "machine")'
    BY <1>0, <2>2, FoundAfterCrash DEF Ends
  <2>4. /\ \A e \in Found(n) : state[e[2]] = "ok" /\ e[2] \notin doubtful => e \in Stored
        /\ \A e \in Stored : Safe(e, "machine") => e \in Sure(n, "machine")
    BY RecordsLead DEF Ends
  <2>5. ASSUME NEW e \in Found(m)', state'[e[2]] = "ok", e[2] \notin doubtful'
        PROVE  e \in Stored'
    <3>1. CASE machine
      <4>1. m = k  BY <1>7, <2>2, <3>1
      <4> QED  BY <1>8, <2>5, <4>1
    <3>2. CASE ~machine
      <4>1. Found(n) \subseteq All  BY <1>0, FoundTyped
      <4>2. state[e[2]] = "ok"  BY <1>a, <2>3, <2>5, <4>1
      <4>3. e \in Stored  BY <1>0, <2>3, <2>4, <2>5, <4>2
      <4>4. Safe(e, "process")  BY <1>0, <2>5 DEF Safe
      <4> QED  BY <1>12, <3>2, <4>3, <4>4 DEF Ends
    <3> QED  BY <3>1, <3>2
  <2>6. ASSUME NEW e \in Stored', Safe(e, "machine")'
        PROVE  e \in Sure(m, "machine")'
    <3>1. state'[e[2]] = "ok" /\ e[2] \in Synced /\ e[2] \notin doubtful
      BY <1>0, <2>6 DEF Safe
    <3>2. state[e[2]] = "ok"  BY <1>14, <1>a, <2>6, <3>1
    <3>3. Safe(e, "machine") /\ e \in Stored  BY <1>13, <2>6, <3>1, <3>2 DEF Safe
    <3> QED  BY <2>3, <2>4, <3>3
  <2> QED  BY <2>1, <2>5, <2>6
<1>16. /\ MemtablesInv' /\ BackedUpInv' /\ OutputInv' /\ EditHolds'
       /\ GroupInv' /\ WritingInv' /\ TornInv'
  BY <1>0, ClosedHasNoMore
<1>17. ReplayInv' /\ NewLogInv'  BY <1>0 DEF ReplayInv, Opening, NewLogInv
<1>18. Contained'  BY <1>5, <1>6, <1>15, <1>16, <1>17 DEF Contained
<1> QED  BY <1>4, <1>12, <1>13, <1>18

------------------------------------------------------------------------------
(***************************************************************************)
(* Open.                                                                   *)
(***************************************************************************)
\* A step of Open that leaves alone what each record leads to.
LEMMA OpeningKept ==
  ASSUME IInv, IInv', Contained, phase # "open", phase' # "open", state' = state,
         doubtful' = doubtful, Records' = Records, All' \subseteq All,
         \A l \in DOMAIN logs' : (l \in DOMAIN logs /\ logs'[l] = logs[l]) \/ logs'[l] = NewLog,
         \A i \in DOMAIN Records : /\ Files(i)' = Files(i) /\ Found(i)' = Found(i)
                                   /\ Sure(i, "machine")' = Sure(i, "machine")
  PROVE  /\ EntriesInv' /\ SequenceInv' /\ ClosedInv' /\ Stored' = Stored
         /\ MemtablesInv' /\ BackedUpInv' /\ OutputInv' /\ EditHolds'
         /\ GroupInv' /\ WritingInv' /\ TornInv'
<1>0. Types /\ Len(Records) \in DOMAIN Records  BY RecordsTyped DEF IInv
<1>1. /\ MemtablesInv' /\ BackedUpInv' /\ OutputInv' /\ EditHolds'
      /\ GroupInv' /\ WritingInv' /\ TornInv' /\ group' = NoGroup
  BY ClosedHasNoMore
<1>2. group = NoGroup  BY DEF IInv, Quiet
<1>3. EntriesInv'
  BY <1>1, <1>2 DEF Contained, EntriesInv
<1>4. SequenceInv'  BY DEF Contained, SequenceInv
<1>5. /\ Stored = Found(Len(Records)) /\ Stored' = Found(Len(Records))'  BY DEF Stored
<1>6. Found(Len(Records))' = Found(Len(Records))
  <2>1. \A k \in DOMAIN Records : k = Len(Records) => Found(k)' = Found(Len(Records))'
    BY DEF Found, Files
  <2> QED  BY <1>0, <2>1
<1>s. ASSUME NEW l \in DOMAIN logs'
      PROVE  logs'[l].sound = Len(logs'[l].records)
  <2>1. CASE l \in DOMAIN logs /\ logs'[l] = logs[l]  BY <2>1 DEF Contained, ClosedInv
  <2>2. CASE logs'[l] = NewLog  BY <2>2 DEF NewLog
  <2> QED  BY <2>1, <2>2
<1>7. ClosedInv'
  <2> SUFFICES ASSUME NEW i \in DOMAIN Records
               PROVE  /\ \A e \in Found(i) : state[e[2]] = "ok" /\ e[2] \notin doubtful =>
                           e \in Found(Len(Records))
                      /\ \A e \in Found(Len(Records)) :
                           Safe(e, "machine")' => e \in Sure(i, "machine")
    BY <1>6, <1>s DEF ClosedInv
  <2>1. \A e : Safe(e, "machine")' = Safe(e, "machine")  BY DEF Safe
  <2> QED  BY <2>1 DEF Contained, ClosedInv
<1> QED  BY <1>1, <1>3, <1>4, <1>5, <1>6, <1>7

\* Every record's files have numbers below those that Open makes use of.
LEMMA RecordsAreOlder ==
  ASSUME IInv, Opening, NEW i \in DOMAIN Records
  PROVE  /\ \A n \in Numbers(Records[i].files) : n \in Nat /\ n < manifestFile
         /\ Records[i].next <= manifestFile /\ manifestFile < nextFile
         /\ \A n \in Numbers(version) : n \in Nat /\ n < manifestFile
         /\ version = Records[Len(Records)].files /\ logNumber = Records[Len(Records)].log
<1>0. /\ Types /\ DescriptorsInv /\ OpeningInv
      /\ Len(Records) \in Nat /\ DOMAIN Records = 1..Len(Records)
      /\ Descriptor = Records[Len(Records)] /\ Len(Records) \in DOMAIN Records
  BY RecordsTyped DEF IInv, FilesInv
<1>1. \A k \in DOMAIN Records : /\ Records[k].next \in Nat
                                /\ \A n \in Numbers(Records[k].files) : n \in Nat
  BY <1>0, RecordsTyped
<1>2. /\ manifestFile = Records[Len(Records)].next /\ manifestFile < nextFile
      /\ version = Records[Len(Records)].files /\ logNumber = Records[Len(Records)].log
  BY <1>0 DEF OpeningInv
<1>3. Records[i].next <= manifestFile
  <2>1. i <= Len(Records)  BY <1>0
  <2> QED  BY <1>0, <1>2, <2>1 DEF DescriptorsInv
<1>4. \A n \in Numbers(Records[i].files) : n \in Nat /\ n < manifestFile
  <2>1. \A n \in Numbers(Records[i].files) : n < Records[i].next  BY <1>0 DEF DescriptorsInv
  <2>2. manifestFile \in Nat  BY <1>0, NumbersTyped
  <2> QED  BY <1>1, <1>3, <2>1, <2>2
<1>5. \A n \in Numbers(version) : n \in Nat /\ n < manifestFile
  BY <1>0, <1>1, <1>2 DEF DescriptorsInv
<1> QED  BY <1>2, <1>3, <1>4, <1>5

\* Reading the descriptor.
LEMMA RecoverContained ==
  ASSUME IInv, Contained, Recover
  PROVE  Contained' /\ Stored' = Stored
<1>0. /\ IInv' /\ Types /\ MoreTypes /\ Quiet /\ phase = "down" /\ phase' = "replay"
  BY RecoverKeeps DEF IInv, Types, Recover
<1>1. /\ lastSequence' = Descriptor.last /\ nextFile' = Descriptor.next + 1
      /\ version' = Descriptor.files
  BY DEF Recover
<1>2. UNCHANGED <<logs, tables, manifests, current, mem, imm, logfile, doubtful, state,
                  group, edit>>
  BY DEF Recover, directory, memtables, queue
<1>3. /\ Descriptor = Records[Len(Records)] /\ Len(Records) \in DOMAIN Records
      /\ Records[Len(Records)].next \in Nat /\ \A l \in DOMAIN logs : l \in Nat
  BY <1>0, RecordsTyped DEF Types, TypeOK
<1>4. /\ Records' = Records /\ All' \subseteq All
      /\ \A i \in DOMAIN Records :
           /\ Files(i)' = Files(i) /\ Found(i)' = Found(i)
           /\ Sure(i, "machine")' = Sure(i, "machine")
  BY <1>2 DEF Records, All, Files, Found, Sure
<1>5. /\ EntriesInv' /\ SequenceInv' /\ ClosedInv' /\ Stored' = Stored
      /\ MemtablesInv' /\ BackedUpInv' /\ OutputInv' /\ EditHolds'
      /\ GroupInv' /\ WritingInv' /\ TornInv'
  BY <1>0, <1>2, <1>4, OpeningKept
<1>6. ReplayInv'
  <2> DEFINE read == {l \in Since(logs', logNumber') : l <= logfile'}
  <2>1. logfile' = 0 /\ edit' = NoEdit  BY <1>0, <1>2 DEF Quiet
  <2>2. read = {}
    <3>1. 0 \notin DOMAIN logs  BY <1>0 DEF MoreTypes
    <3> QED  BY <1>2, <1>3, <2>1, <3>1 DEF Since
  <2>3. In(tables', Numbers(edit'.add)) = {}
    <3>1. Numbers(edit'.add) = {}  BY <2>1 DEF NoEdit, Numbers
    <3> QED  BY <3>1, InNone
  <2>4. Whole(logs', read) = {}  BY <2>2, WholeNone
  <2>5. Tabled' = Files(Len(Records))  BY <1>1, <1>2, <1>3 DEF Tabled, Files
  <2>6. \A e \in Tabled' : e[1] <= lastSequence'
    BY <1>1, <1>3, <2>5 DEF Contained, SequenceInv
  <2>7. logfile' < nextFile'  BY <1>1, <1>3, <2>1
  <2> QED  BY <2>3, <2>4, <2>6, <2>7 DEF ReplayInv
<1>7. NewLogInv'  BY <1>0 DEF NewLogInv
<1> QED  BY <1>5, <1>6, <1>7 DEF Contained

\* Reading a log file into a table.
LEMMA RecoverLogFileContained ==
  ASSUME IInv, Contained, NEW l \in DOMAIN logs, RecoverLogFile(l)
  PROVE  Contained' /\ Stored' = Stored
<1> DEFINE entries == LogContents(l)
<1>0. /\ IInv' /\ Types /\ MoreTypes /\ Quiet /\ phase = "replay" /\ phase' = "replay" /\ Opening
  BY RecoverLogFileKeeps DEF IInv, Types, RecoverLogFile, Opening
<1>1. /\ tables' = IF entries = {} THEN tables ELSE Put(tables, nextFile, entries)
      /\ edit' = IF entries = {} THEN edit
                 ELSE [edit EXCEPT !.add = @ \cup {<<0, nextFile>>}]
      /\ lastSequence' = Max({e[1] : e \in entries} \cup {lastSequence})
      /\ nextFile' = IF (IF entries = {} THEN nextFile ELSE nextFile + 1) <= l THEN l + 1
                     ELSE (IF entries = {} THEN nextFile ELSE nextFile + 1)
      /\ logfile' = l /\ MayReplay(l) /\ \A k \in DOMAIN logs : MayReplay(k) => l <= k
  BY DEF RecoverLogFile
<1>2. UNCHANGED <<logs, manifests, current, logNumber, version, mem, imm, doubtful, state,
                  group>>
  BY DEF RecoverLogFile, queue
<1>3. /\ l \in Nat /\ entries \in EntrySets /\ nextFile \in Nat /\ edit \in Edit
      /\ logfile \in Nat /\ lastSequence \in Nat /\ logNumber \in Nat
      /\ \A k \in DOMAIN logs : k \in Nat
  BY <1>0, FileMapHolds, LogContentsTyped, NumbersTyped, WorkTyped DEF Types, TypeOK
<1>4. entries = Whole(logs, {l})
  BY WholeIs DEF LogContents
<1> HIDE DEF entries
<1>5. /\ edit'.add = IF entries = {} THEN edit.add ELSE edit.add \cup {<<0, nextFile>>}
  BY <1>1, <1>3 DEF Edit
<1>6. l < nextFile'  BY <1>1, <1>3
<1>7. ASSUME NEW ns, nextFile \notin ns
      PROVE  In(tables', ns) = In(tables, ns)
  <2>1. CASE entries = {}  BY <1>1, <2>1
  <2>2. CASE entries # {}  BY <1>1, <1>7, <2>2, InPut
  <2> QED  BY <2>1, <2>2
<1>8. All' \subseteq All
  <2>1. entries \subseteq All
    <3> DEFINE ls == {l}
    <3>1. ls \in SUBSET DOMAIN logs  OBVIOUS
    <3> HIDE DEF ls
    <3>2. Whole(logs, ls) \subseteq All  BY <1>0, <3>1, PartsTyped
    <3> QED  BY <1>4, <3>2 DEF ls
  <2>2. In(tables', DOMAIN tables') \subseteq In(tables, DOMAIN tables) \cup entries
    <3>1. CASE entries = {}  BY <1>1, <3>1
    <3>2. CASE entries # {}  BY <1>1, <3>2, InPutAll
    <3> QED  BY <3>1, <3>2
  <2>3. In(tables, DOMAIN tables) \subseteq All  BY <1>0, PartsTyped
  <2> QED  BY <1>2, <2>1, <2>2, <2>3 DEF All
<1>9. Records' = Records  BY <1>2 DEF Records
<1>10. ASSUME NEW i \in DOMAIN Records
       PROVE  /\ Files(i)' = Files(i) /\ Found(i)' = Found(i)
              /\ Sure(i, "machine")' = Sure(i, "machine")
  <2> DEFINE ns == Numbers(Records[i].files)
  <2>1. nextFile \notin ns
    <3>1. \A n \in ns : n \in Nat /\ n < manifestFile  BY <1>0, RecordsAreOlder
    <3>2. manifestFile < nextFile /\ manifestFile \in Nat  BY <1>0, RecordsAreOlder, NumbersTyped
    <3> QED  BY <1>3, <3>1, <3>2
  <2>2. Files(i)' = In(tables', ns) /\ Files(i) = In(tables, ns)  BY <1>9 DEF Files
  <2> HIDE DEF ns
  <2>3. Files(i)' = Files(i)  BY <1>7, <2>1, <2>2
  <2> QED  BY <1>2, <1>9, <2>3 DEF Found, Sure
<1>11. /\ EntriesInv' /\ SequenceInv' /\ ClosedInv' /\ Stored' = Stored
       /\ MemtablesInv' /\ BackedUpInv' /\ OutputInv' /\ EditHolds'
       /\ GroupInv' /\ WritingInv' /\ TornInv'
  BY <1>0, <1>2, <1>8, <1>9, <1>10, OpeningKept
<1>12. ReplayInv'
  <2> DEFINE added == Numbers(edit.add)
             before == {k \in Since(logs, logNumber) : k <= logfile}
             after == {k \in Since(logs, logNumber) : k <= l}
             here == {l}
  <2>1. /\ In(tables, added) = Whole(logs, before)
        /\ \A e \in Tabled \cup In(tables, added) : e[1] <= lastSequence
    BY <1>0 DEF Contained, ReplayInv
  <2>2. nextFile \notin added /\ nextFile \notin Numbers(version)
    <3>1. \A n \in added : n < nextFile /\ n \in Nat
      BY <1>0, WorkTyped DEF IInv, FilesInv, OpeningInv
    <3>2. \E i \in DOMAIN Records : TRUE  BY <1>0, RecordsTyped
    <3>3. \A n \in Numbers(version) : n \in Nat /\ n < manifestFile
      BY <1>0, <3>2, RecordsAreOlder
    <3>4. manifestFile < nextFile /\ manifestFile \in Nat
      BY <1>0, <3>2, RecordsAreOlder, NumbersTyped
    <3> QED  BY <1>3, <3>1, <3>3, <3>4
  <2>3. Tabled' = Tabled  BY <1>2, <1>7, <2>2 DEF Tabled
  <2>4. after = before \cup here
    <3>1. \A k \in DOMAIN logs : MayReplay(k) <=> k >= logNumber /\ k > logfile
      <4>1. \E i \in DOMAIN Records : TRUE  BY <1>0, RecordsTyped
      <4>2. Descriptor.log = logNumber  BY <1>0, <4>1, RecordsAreOlder, RecordsTyped
      <4> QED  BY <4>2 DEF MayReplay, LogsToReplay
    <3> QED  BY <1>1, <1>3, <3>1 DEF Since
  <2>5. Whole(logs, after) = Whole(logs, before) \cup entries
    <3> HIDE DEF before, after, here
    <3>1. Whole(logs, after) = Whole(logs, before) \cup Whole(logs, here)
      BY <2>4, WholeUnion
    <3> QED  BY <1>4, <3>1 DEF here
  <2>6. In(tables', Numbers(edit'.add)) = In(tables, added) \cup entries
    <3> DEFINE new == {nextFile}
               all == Numbers(edit'.add)
    <3>1. CASE entries = {}
      BY <1>1, <1>5, <3>1
    <3>2. CASE entries # {}
      <4>0. edit'.add = edit.add \cup {<<0, nextFile>>}  BY <1>5, <3>2
      <4>1. all = added \cup new
        <5>1. ASSUME NEW n \in all PROVE n \in added \cup new
          <6>1. PICK file \in edit'.add : n = file[2]  BY DEF Numbers
          <6> QED  BY <4>0, <6>1 DEF Numbers
        <5>2. ASSUME NEW n \in added \cup new PROVE n \in all
          <6>1. CASE n \in added
            <7>1. PICK file \in edit.add : n = file[2]  BY <6>1 DEF Numbers
            <7> QED  BY <4>0, <7>1 DEF Numbers
          <6>2. CASE n = nextFile
            <7>1. <<0, nextFile>> \in edit'.add /\ <<0, nextFile>>[2] = nextFile  BY <4>0
            <7> QED  BY <6>2, <7>1 DEF Numbers
          <6> QED  BY <6>1, <6>2
        <5> QED  BY <5>1, <5>2
      <4>2. In(tables', new) = entries  BY <1>1, <3>2, InPutAll
      <4> HIDE DEF all, added, new
      <4>3. In(tables', all) = In(tables', added) \cup In(tables', new)  BY <4>1, InUnion
      <4>4. In(tables', added) = In(tables, added)  BY <1>7, <2>2
      <4> QED  BY <4>2, <4>3, <4>4 DEF all
    <3> QED  BY <3>1, <3>2
  <2>7. /\ lastSequence' \in Nat /\ lastSequence <= lastSequence'
        /\ \A e \in entries : e[1] <= lastSequence'
    BY <1>0, <1>1, <1>3, NewestIsTyped
  <2>8. \A e \in Tabled \cup In(tables, added) : e[1] <= lastSequence'
    <3>1. Tabled \cup In(tables, added) \subseteq All  BY <1>0, PartsTyped
    <3>2. \A e \in Tabled \cup In(tables, added) : e[1] \in Nat
      BY <1>0, <3>1, PartsTyped, EntryIs
    <3> QED  BY <1>3, <2>1, <2>7, <3>2
  <2>9. \A e \in Tabled' \cup In(tables', Numbers(edit'.add)) : e[1] <= lastSequence'
    BY <2>3, <2>6, <2>7, <2>8
  <2>10. In(tables', Numbers(edit'.add)) = Whole(logs, after)
    BY <2>1, <2>5, <2>6
  <2> QED  BY <1>1, <1>2, <1>6, <2>9, <2>10 DEF ReplayInv
<1>13. NewLogInv'  BY <1>0 DEF NewLogInv
<1> QED  BY <1>11, <1>12, <1>13 DEF Contained

\* Creating the new log.
LEMMA OpenLogContained ==
  ASSUME IInv, Contained, OpenLog
  PROVE  Contained' /\ Stored' = Stored
<1> DEFINE new == {nextFile}
<1>0. /\ IInv' /\ Types /\ Quiet /\ phase = "replay" /\ phase' = "describe" /\ Opening
  BY OpenLogKeeps DEF IInv, OpenLog, Opening
<1>1. /\ logs' = Put(logs, nextFile, NewLog) /\ logfile' = nextFile /\ nextFile' = nextFile + 1
      /\ edit'.add = edit.add
      /\ \A l \in DOMAIN logs : ~ MayReplay(l)
  <2>1. edit \in Edit  BY <1>0, WorkTyped
  <2> QED  BY <2>1 DEF OpenLog, Edit
<1>2. UNCHANGED <<tables, manifests, current, lastSequence, logNumber, version, mem, imm, doubtful,
                  state, group>>
  BY DEF OpenLog, queue
<1>3. /\ nextFile \in Nat /\ logfile \in Nat /\ logNumber \in Nat /\ manifestFile \in Nat
      /\ \A l \in DOMAIN logs : l \in Nat
      /\ \A i \in DOMAIN Records : Records[i].log \in Nat /\ Records[i].next \in Nat
      /\ Len(Records) \in DOMAIN Records /\ Descriptor = Records[Len(Records)]
  BY <1>0, NumbersTyped, RecordsTyped DEF Types, TypeOK
<1>4. \A i \in DOMAIN Records : Records[i].log < nextFile
  <2> SUFFICES ASSUME NEW i \in DOMAIN Records PROVE Records[i].log < nextFile  OBVIOUS
  <2>1. Records[i].log < Records[i].next  BY DEF Contained, SequenceInv
  <2>2. Records[i].next <= manifestFile /\ manifestFile < nextFile  BY <1>0, RecordsAreOlder
  <2> QED  BY <1>3, <2>1, <2>2
<1>5. logNumber < nextFile /\ Descriptor.log = logNumber
  BY <1>0, <1>3, <1>4, RecordsAreOlder
<1>6. \A l \in DOMAIN logs : l < nextFile /\ (logNumber <= l => l <= logfile)
  <2>1. logfile < nextFile  BY <1>0 DEF Contained, ReplayInv
  <2> QED  BY <1>1, <1>3, <1>5, <2>1 DEF MayReplay, LogsToReplay
<1>7. nextFile \notin DOMAIN logs /\ DOMAIN logs' = DOMAIN logs \cup new /\ logs'[nextFile] = NewLog
  BY <1>1, <1>3, <1>6 DEF Put
<1> HIDE DEF new
<1>8. ASSUME NEW ls \in SUBSET DOMAIN logs, NEW ms, ms = ls \cup new
      PROVE  Whole(logs', ms) = Whole(logs, ls) /\ Firm(logs', ms, "machine") = Firm(logs, ls, "machine")
  BY <1>1, <1>7, <1>8, WholeWithNew DEF new
<1>9. Records' = Records /\ \A i \in DOMAIN Records : Files(i)' = Files(i)
  BY <1>2 DEF Records, Files
<1>10. ASSUME NEW i \in DOMAIN Records
       PROVE  Found(i)' = Found(i) /\ Sure(i, "machine")' = Sure(i, "machine")
  <2> DEFINE ls == Since(logs, Records[i].log)
             ms == Since(logs', Records[i].log)
  <2>1. ls \in SUBSET DOMAIN logs  BY DEF Since
  <2>2. ms = ls \cup new  BY <1>3, <1>4, <1>7 DEF Since, new
  <2>3. /\ Found(i) = Files(i) \cup Whole(logs, ls)
        /\ Sure(i, "machine") = Files(i) \cup Firm(logs, ls, "machine")
        /\ Found(i)' = Files(i)' \cup Whole(logs', ms)
        /\ Sure(i, "machine")' = Files(i)' \cup Firm(logs', ms, "machine")
    BY <1>9 DEF Found, Sure
  <2> HIDE DEF ls, ms
  <2> QED  BY <1>8, <1>9, <2>1, <2>2, <2>3
<1>11. All' \subseteq All
  <2>1. Whole(logs', DOMAIN logs') = Whole(logs, DOMAIN logs)  BY <1>7, <1>8
  <2> QED  BY <1>2, <2>1 DEF All
<1>l. \A l \in DOMAIN logs' : (l \in DOMAIN logs /\ logs'[l] = logs[l]) \/ logs'[l] = NewLog
  BY <1>1 DEF Put
<1>12. /\ EntriesInv' /\ SequenceInv' /\ ClosedInv' /\ Stored' = Stored
       /\ MemtablesInv' /\ BackedUpInv' /\ OutputInv' /\ EditHolds'
       /\ GroupInv' /\ WritingInv' /\ TornInv'
  BY <1>0, <1>2, <1>9, <1>10, <1>11, <1>l, OpeningKept
<1>13. ReplayInv'
  <2> DEFINE before == {l \in Since(logs, logNumber) : l <= logfile}
             after == {l \in Since(logs', logNumber) : l <= nextFile}
  <2>1. after = before \cup new  BY <1>3, <1>5, <1>6, <1>7 DEF Since, new
  <2>2. before \in SUBSET DOMAIN logs  BY DEF Since
  <2>3. /\ In(tables, Numbers(edit.add)) = Whole(logs, before)
        /\ \A e \in Tabled \cup In(tables, Numbers(edit.add)) : e[1] <= lastSequence
    BY <1>0 DEF Contained, ReplayInv
  <2>4. Whole(logs', after) = Whole(logs, before)
    <3> HIDE DEF before, after
    <3> QED  BY <1>8, <2>1, <2>2
  <2>5. Tabled' = Tabled  BY <1>2 DEF Tabled
  <2>6. logfile' < nextFile'  BY <1>1, <1>3
  <2> QED  BY <1>1, <1>2, <2>3, <2>4, <2>5, <2>6 DEF ReplayInv
<1>14. NewLogInv'
  <2>1. \A l \in DOMAIN logs' : l <= nextFile  BY <1>3, <1>6, <1>7 DEF new
  <2>2. Whole(logs', new) = {}  BY <1>7, NewLogIsEmpty DEF new
  <2> QED  BY <1>0, <1>1, <1>7, <2>1, <2>2 DEF NewLogInv, new
<1> QED  BY <1>12, <1>13, <1>14 DEF Contained

\* Writing the new descriptor.
LEMMA NewDescriptorContained ==
  ASSUME IInv, Contained, NewDescriptor
  PROVE  Contained' /\ Stored' = Stored
<1>0. /\ IInv' /\ Types /\ phase = "describe" /\ phase' = "rename" /\ Opening
  BY NewDescriptorKeeps DEF IInv, NewDescriptor, Opening
<1>1. UNCHANGED <<logs, tables, current, lastSequence, nextFile, logNumber, version, mem, imm,
                  logfile, doubtful, state, group, edit>>
  BY DEF NewDescriptor, numbers, memtables, queue
<1>2. Records' = Records
  <2>1. manifestFile # current
    <3>1. Len(Records) \in DOMAIN Records /\ Records[Len(Records)].next \in Nat
      BY <1>0, RecordsTyped
    <3>2. current < Records[Len(Records)].next  BY <3>1 DEF IInv, FilesInv, DescriptorsInv
    <3>3. Records[Len(Records)].next <= manifestFile  BY <1>0, <3>1, RecordsAreOlder
    <3> QED  BY <1>0, <3>1, <3>2, <3>3, NumbersTyped
  <2>2. current \in DOMAIN manifests  BY <1>0 DEF Types, TypeOK
  <2>3. PICK x : manifests' = Put(manifests, manifestFile, x)  BY DEF NewDescriptor
  <2> QED  BY <1>1, <2>1, <2>2, <2>3 DEF Put, Records
<1>3. /\ All' \subseteq All
      /\ \A i \in DOMAIN Records :
           /\ Files(i)' = Files(i) /\ Found(i)' = Found(i)
           /\ Sure(i, "machine")' = Sure(i, "machine")
  BY <1>1, <1>2 DEF All, Files, Found, Sure
<1>4. /\ EntriesInv' /\ SequenceInv' /\ ClosedInv' /\ Stored' = Stored
      /\ MemtablesInv' /\ BackedUpInv' /\ OutputInv' /\ EditHolds'
      /\ GroupInv' /\ WritingInv' /\ TornInv'
  BY <1>0, <1>1, <1>2, <1>3, OpeningKept
<1>5. ReplayInv'
  <2>1. Tabled' = Tabled  BY <1>1 DEF Tabled
  <2> QED  BY <1>0, <1>1, <2>1 DEF Contained, ReplayInv
<1>6. NewLogInv'  BY <1>0, <1>1 DEF Contained, NewLogInv
<1> QED  BY <1>4, <1>5, <1>6 DEF Contained

\* Naming the new descriptor in CURRENT: the tables just written stand for the logs.
LEMMA SetCurrentFileContained ==
  ASSUME IInv, Contained, SetCurrentFile
  PROVE  Contained' /\ Stored' = Stored
<1>0. /\ IInv' /\ Types /\ Quiet /\ phase = "rename" /\ phase' = "clean" /\ Opening /\ OpeningInv
  BY SetCurrentFileKeeps DEF IInv, FilesInv, SetCurrentFile, Opening
<1>1. /\ current' = manifestFile /\ logNumber' = edit.log /\ version' = version \cup edit.add
      /\ edit.log = logfile /\ edit.next = nextFile /\ edit.last = lastSequence
      /\ logfile < nextFile
      /\ manifests[manifestFile] =
           <<[files |-> version \cup edit.add, log |-> edit.log, next |-> edit.next,
              last |-> edit.last]>>
  BY <1>0 DEF SetCurrentFile, OpeningInv
<1>2. UNCHANGED <<logs, tables, manifests, lastSequence, mem, imm, logfile, state, group>>
  BY DEF SetCurrentFile, memtables, queue
<1>3. /\ DOMAIN Records' = {1} /\ Len(Records') = 1
      /\ Records'[1].files = version' /\ Records'[1].log = logfile
      /\ Records'[1].next = nextFile /\ Records'[1].last = lastSequence
  BY <1>1, <1>2 DEF Records
<1> DEFINE newest == {logfile}
           later == {l \in Since(logs, logNumber) : l <= logfile}
<1>4. /\ logfile \in DOMAIN logs /\ \A l \in DOMAIN logs : l <= logfile
      /\ Whole(logs, newest) = {}
  BY <1>0 DEF Contained, NewLogInv
<1>5. /\ In(tables, Numbers(edit.add)) = Whole(logs, later)
      /\ \A e \in Tabled \cup In(tables, Numbers(edit.add)) : e[1] <= lastSequence
  BY <1>0 DEF Contained, ReplayInv
<1>6. /\ \A l \in DOMAIN logs : l \in Nat
      /\ logfile \in Nat /\ logNumber \in Nat
      /\ Len(Records) \in DOMAIN Records
  BY <1>0, NumbersTyped, RecordsTyped DEF Types, TypeOK
<1>7. Since(logs, logfile) = newest  BY <1>4, <1>6 DEF Since
<1>8. Since(logs, logNumber) = later  BY <1>4 DEF Since
<1> HIDE DEF newest, later
<1>9. Tabled' = Tabled \cup Whole(logs, later)
  <2> DEFINE all == Numbers(version')  old == Numbers(version)  added == Numbers(edit.add)
  <2>1. all = old \cup added  BY <1>1 DEF Numbers
  <2>2. Tabled' = In(tables, all) /\ Tabled = In(tables, old)  BY <1>2 DEF Tabled
  <2>3. In(tables, added) = Whole(logs, later)  BY <1>5
  <2> HIDE DEF all, old, added
  <2>4. In(tables, all) = In(tables, old) \cup In(tables, added)  BY <2>1, InUnion
  <2> QED  BY <2>2, <2>3, <2>4
<1>10. Files(1)' = Tabled' /\ Found(1)' = Tabled' /\ Tabled' \subseteq Sure(1, "machine")'
  <2>1. Files(1)' = Tabled'  BY <1>3 DEF Files, Tabled
  <2>2. /\ Found(1)' = Files(1)' \cup Whole(logs, newest)
        /\ Sure(1, "machine")' = Files(1)' \cup Firm(logs, newest, "machine")
    BY <1>2, <1>3, <1>7 DEF Found, Sure
  <2> QED  BY <1>4, <2>1, <2>2
<1>11. Stored' = Tabled'
  <2>1. Stored' = Found(1)'  BY <1>0, <1>3 DEF Stored, Found, Files
  <2> QED  BY <1>10, <2>1
<1>12. Stored = Tabled \cup Whole(logs, later)
  <2>1. /\ version = Records[Len(Records)].files /\ logNumber = Records[Len(Records)].log
    BY <1>0, <1>6, RecordsAreOlder
  <2>2. Found(Len(Records)) = Tabled \cup Whole(logs, later)
    BY <1>8, <2>1 DEF Found, Files, Tabled
  <2> QED  BY <1>0, <2>2 DEF Stored
<1>13. EntriesInv'
  <2>1. All' = All  BY <1>2 DEF All
  <2> QED  BY <1>0, <1>2, <2>1 DEF Contained, EntriesInv
<1>14. SequenceInv'
  <2>1. \A e \in Tabled' : e[1] <= lastSequence  BY <1>5, <1>9
  <2>2. Records'[1].log < Records'[1].next  BY <1>1, <1>3
  <2>3. \A e \in Files(1)' : e[1] <= Records'[1].last  BY <1>3, <1>10, <2>1
  <2> QED  BY <1>3, <2>2, <2>3 DEF SequenceInv
<1>15. ClosedInv'
  <2> SUFFICES ASSUME NEW i \in DOMAIN Records'
               PROVE  /\ \A e \in Found(i)' : e \in Found(Len(Records))'
                      /\ \A e \in Found(Len(Records))' : e \in Sure(i, "machine")'
    <3>1. \A l \in DOMAIN logs' : logs'[l].sound = Len(logs'[l].records)
      BY <1>0, <1>2 DEF Contained, ClosedInv
    <3> QED  BY <3>1 DEF ClosedInv
  <2>1. i = 1  BY <1>3
  <2>2. Found(Len(Records))' = Stored'  BY <1>0 DEF Stored
  <2> QED  BY <1>10, <1>11, <2>1, <2>2
<1>16. /\ MemtablesInv' /\ BackedUpInv' /\ OutputInv' /\ EditHolds'
       /\ GroupInv' /\ WritingInv' /\ TornInv'
  BY <1>0, ClosedHasNoMore
<1>17. ReplayInv'  BY <1>0 DEF ReplayInv, Opening
<1>18. NewLogInv'
  <2>1. \A e \in Tabled' : e[1] <= lastSequence  BY <1>5, <1>9
  <2>2. Whole(logs, {logfile}) = {}  BY <1>4 DEF newest
  <2> QED  BY <1>0, <1>1, <1>2, <1>4, <2>1, <2>2 DEF NewLogInv
<1> QED  BY <1>9, <1>11, <1>12, <1>13, <1>14, <1>15, <1>16, <1>17, <1>18 DEF Contained

\* Handing the database to its user: nothing is left beside what the version's tables hold.
LEMMA FinishOpenContained ==
  ASSUME IInv, Contained, FinishOpen
  PROVE  Contained' /\ Stored' = Stored
<1>0. /\ IInv' /\ Types /\ FilesInv /\ Quiet /\ phase = "clean" /\ phase' = "open" /\ Running
      /\ bg = Idle /\ pending = {} /\ reader = {} /\ mem = {} /\ imm = {} /\ group = NoGroup
      /\ writers = <<>> /\ ~bgError
  BY FinishOpenKeeps DEF IInv, FinishOpen, Running, Quiet
<1>1. /\ UNCHANGED <<current, lastSequence, logNumber, version, mem, imm, logfile, writers, state,
                     group, bg>>
      /\ DeleteObsoleteFiles
  BY DEF FinishOpen, DeleteObsoleteFiles, numbers, queue
<1>2. /\ logs' = Drop(logs, ObsoleteLogs) /\ bg.at # "sync"
  BY <1>0, <1>1 DEF DeleteObsoleteFiles, Idle
<1>3. /\ Records' = Records /\ Tabled' = Tabled /\ All' \subseteq All
      /\ \A i \in DOMAIN Records : Files(i)' = Files(i)
      /\ In(tables', DOMAIN tables') = In(tables, DOMAIN tables \ ObsoleteTables)
  BY <1>0, <1>1, <1>2, DeletionsAre
<1>4. /\ Len(Records) = 1 /\ DOMAIN Records = {1}
      /\ Records[1].files = version /\ Records[1].log = logNumber
  <2>1. Len(Records) = 1 /\ Records[1].files = version /\ Records[1].log = logNumber
    BY <1>0, <1>2 DEF FilesInv, AgreeInv
  <2>2. DOMAIN Records = 1..Len(Records)  BY <1>0, RecordsTyped
  <2> QED  BY <2>1, <2>2
<1>5. /\ logfile \in DOMAIN logs /\ \A l \in DOMAIN logs : l <= logfile
      /\ Whole(logs, {logfile}) = {}
      /\ logNumber = logfile /\ \A e \in Tabled : e[1] <= lastSequence
  BY <1>0 DEF Contained, NewLogInv
<1>6. logfile \in Nat /\ \A l \in DOMAIN logs : l \in Nat
  BY <1>0 DEF Types, TypeOK
<1> DEFINE newest == {logfile}
<1>7. DOMAIN logs' = newest /\ newest \in SUBSET Since(logs, logNumber)
  <2>1. DOMAIN logs' = DOMAIN logs \ ObsoleteLogs  BY <1>2, DropIs
  <2>2. ObsoleteLogs = {l \in DOMAIN logs : l < logfile}  BY <1>0, <1>5 DEF ObsoleteLogs
  <2> QED  BY <1>5, <1>6, <2>1, <2>2 DEF Since
<1> HIDE DEF newest
<1>8. Whole(logs', newest) = {} /\ logfile \in DOMAIN logs' /\ \A l \in DOMAIN logs' : l = logfile
  <2>1. Whole(logs', newest) = Whole(logs, newest)  BY <1>0, <1>2, <1>7, NewerLogsStay
  <2> QED  BY <1>5, <1>7, <2>1 DEF newest
<1>9. In(tables', DOMAIN tables') = Tabled
  <2> DEFINE kept == DOMAIN tables \ ObsoleteTables
             files == Numbers(version)
  <2>1. ObsoleteTables = DOMAIN tables \ files
    <3>1. Numbers(bg.inputs) = {} /\ UNION reader = {}  BY <1>0 DEF Idle, Numbers
    <3> QED  BY <1>0, <3>1 DEF ObsoleteTables, Live
  <2>2. files \subseteq DOMAIN tables  BY <1>0 DEF FilesInv, RunningInv
  <2>3. kept = files  BY <2>1, <2>2
  <2>4. In(tables', DOMAIN tables') = In(tables, kept)  BY <1>3
  <2>5. Tabled = In(tables, files)  BY DEF Tabled
  <2> HIDE DEF kept, files
  <2> QED  BY <2>3, <2>4, <2>5
<1>10. All' = Tabled /\ Seen' = Tabled /\ group'.entries = {}
  <2>1. mem' = {} /\ UNION imm' = {} /\ group'.entries = {}  BY <1>0, <1>1 DEF NoGroup
  <2>2. All' = mem' \cup (UNION imm') \cup group'.entries
               \cup In(tables', DOMAIN tables') \cup Whole(logs', DOMAIN logs')
    BY DEF All
  <2>3. Seen' = mem' \cup (UNION imm') \cup Tabled'  BY DEF Seen
  <2> QED  BY <1>3, <1>7, <1>8, <1>9, <2>1, <2>2, <2>3
<1>11. Stored' = Stored
  <2>1. Since(logs, logNumber) = newest  BY <1>5, <1>6 DEF Since, newest
  <2>2. Found(1) = Tabled \cup Whole(logs, newest)  BY <1>4, <2>1 DEF Found, Files, Tabled
  <2>3. Stored = Found(1)  BY <1>0, <1>4 DEF Stored
  <2> QED  BY <1>0, <1>5, <1>10, <2>2, <2>3 DEF Stored, newest
<1>12. EntriesInv'
  <2>1. \A e, f \in All' : e[1] = f[1] <=> e[2] = f[2]
    BY <1>3 DEF Contained, EntriesInv
  <2>2. ASSUME NEW e \in All'
        PROVE  state'[e[2]] \in Answers /\ e[1] <= lastSequence'
    <3>1. e \in All \ group.entries  BY <1>0, <1>3 DEF NoGroup
    <3>2. state[e[2]] \in Answers  BY <3>1 DEF Contained, EntriesInv
    <3> QED  BY <1>1, <1>5, <1>10, <3>2
  <2> QED  BY <2>1, <2>2 DEF EntriesInv
<1>13. GroupInv' /\ WritingInv'
  <2>1. ToSet(writers') = {}  BY <1>0, <1>1 DEF ToSet
  <2>2. \A w \in Writes : state'[w] \notin Grouped
    <3>1. \A w \in Writes : state'[w] \notin Waiting  BY <1>0, <2>1 DEF IInv, QueueInv
    <3> QED  BY <3>1 DEF Waiting, Grouped
  <2> QED  BY <1>0, <1>1, <2>2 DEF GroupInv, WritingInv, Grouped
<1>14. SequenceInv'  BY <1>3 DEF Contained, SequenceInv
<1>15. MemtablesInv'
  <2>1. mem' = {}  BY <1>0, <1>1
  <2>2. Whole(logs', Since(logs', logNumber')) = {}
    <3> DEFINE ls == Since(logs', logNumber')
    <3>1. ls \in SUBSET newest  BY <1>7 DEF Since
    <3> HIDE DEF ls
    <3>2. Whole(logs', ls) \subseteq Whole(logs', newest)  BY <3>1, WholeFewer
    <3> QED  BY <1>8, <3>2 DEF ls
  <2>3. \A l \in DOMAIN logs' : l <= logfile'  BY <1>1, <1>6, <1>8
  <2>4. \A e \in Seen' : e[1] <= lastSequence'  BY <1>1, <1>5, <1>10
  <2>5. logfile' \in DOMAIN logs'  BY <1>1, <1>8
  <2> QED  BY <2>1, <2>2, <2>3, <2>4, <2>5 DEF MemtablesInv
<1>16. BackedUpInv'
  <2>1. UNION imm' = {}  BY <1>0, <1>1
  <2>2. Files(1)' = Tabled'
    <3>1. Files(1)' = Files(1)  BY <1>3, <1>4
    <3>2. Files(1) = Tabled  BY <1>4 DEF Files, Tabled
    <3> QED  BY <1>3, <3>1, <3>2
  <2>3. logNumber' <= Records'[1].log /\ Records'[1].log <= logfile'
    BY <1>1, <1>3, <1>4, <1>5, <1>6
  <2>4. DOMAIN Records' = {1}  BY <1>3, <1>4
  <2> QED  BY <2>1, <2>2, <2>3, <2>4 DEF BackedUpInv
<1>17. OutputInv' /\ EditHolds'
  BY <1>0, <1>1 DEF OutputInv, EditHolds, Idle
<1>t. TornInv'
  <2>1. logs'[logfile] = logs[logfile]  BY <1>2, <1>5, <1>7, <1>8, DropIs
  <2>2. logs[logfile].sound = Len(logs[logfile].records)
    BY <1>0, <1>5 DEF Contained, ClosedInv
  <2> QED  BY <1>1, <2>1, <2>2 DEF TornInv
<1>18. ClosedInv' /\ ReplayInv' /\ NewLogInv'  BY <1>0, OpenHasNoMore
<1> QED
  BY <1>11, <1>12, <1>13, <1>14, <1>15, <1>16, <1>17, <1>18, <1>t DEF Contained

------------------------------------------------------------------------------
(***************************************************************************)
(* The first state, and steps that change nothing here.                    *)
(***************************************************************************)
\* The first state.
LEMMA InitContained == Init => Contained /\ Stored = {} /\ 0 \notin DOMAIN tables
<1> SUFFICES ASSUME Init PROVE Contained /\ Stored = {} /\ 0 \notin DOMAIN tables  OBVIOUS
<1> DEFINE first == [files |-> {}, log |-> 0, next |-> 2, last |-> 0]
<1>0. IInv  BY InitKeeps
<1>1. /\ logs = <<>> /\ tables = <<>> /\ phase = "down" /\ mem = {} /\ imm = {}
      /\ group = NoGroup /\ Records = <<first>>
      /\ state = [w \in Writes |-> "idle"]
  BY DEF Init, Records
<1>2. DOMAIN logs = {} /\ DOMAIN tables = {}  BY <1>1
<1>3. DOMAIN Records = {1} /\ Len(Records) = 1 /\ Records[1] = first  BY <1>1
<1>4. In(tables, DOMAIN tables) = {} /\ Whole(logs, DOMAIN logs) = {}
  BY <1>2, InNone, WholeNone
<1>5. All = {}  BY <1>1, <1>4 DEF All, NoGroup
<1>6. Files(1) = {} /\ Found(1) = {}
  <2>1. Types  BY <1>0 DEF IInv
  <2>2. 1 \in DOMAIN Records  BY <1>3
  <2> QED  BY <1>5, <2>1, <2>2, FoundTyped
<1>7. Stored = {}  BY <1>1, <1>3, <1>6 DEF Stored
<1>8. EntriesInv  BY <1>1, <1>5 DEF EntriesInv
<1>9. GroupInv /\ WritingInv /\ TornInv
  <2>1. \A w \in Writes : state[w] \notin Grouped  BY <1>1 DEF Grouped
  <2> QED  BY <1>1, <2>1 DEF GroupInv, WritingInv, TornInv, Grouped
<1>10. SequenceInv
  <2>1. Records[1].log < Records[1].next  BY <1>3
  <2> QED  BY <1>3, <1>6, <2>1 DEF SequenceInv
<1>11. MemtablesInv /\ BackedUpInv /\ OutputInv /\ EditHolds
  BY <1>1 DEF MemtablesInv, BackedUpInv, OutputInv, EditHolds
<1>12. ClosedInv  BY <1>2, <1>3, <1>6 DEF ClosedInv
<1>13. ReplayInv /\ NewLogInv  BY <1>1 DEF ReplayInv, Opening, NewLogInv
<1> QED  BY <1>2, <1>7, <1>8, <1>9, <1>10, <1>11, <1>12, <1>13 DEF Contained

\* Nothing is in the store of another state with the same variables.
LEMMA StutterContained ==
  ASSUME Contained, UNCHANGED vars
  PROVE  Contained' /\ Stored' = Stored
<1>1. UNCHANGED <<logs, tables, manifests, current, phase, lastSequence, nextFile, logNumber,
                  version, mem, imm, logfile, torn, doubtful, writers, state, group, bg, edit>>
  BY DEF vars, directory, numbers, memtables, queue
<1>2. /\ Records' = Records /\ Tabled' = Tabled /\ All' = All
  BY <1>1 DEF Records, Tabled, All
<1>3. \A i \in DOMAIN Records :
        /\ Files(i)' = Files(i) /\ Found(i)' = Found(i)
        /\ Sure(i, "machine")' = Sure(i, "machine")
  BY <1>1, <1>2 DEF Files, Found, Sure
<1>4. Seen' = Seen  BY <1>1, <1>2 DEF Seen
<1>5. EntriesInv' /\ GroupInv' /\ WritingInv' /\ TornInv'
  BY <1>1, <1>2 DEF Contained, EntriesInv, GroupInv, WritingInv, TornInv
<1>6. SequenceInv' /\ MemtablesInv' /\ BackedUpInv'
  <2>1. SequenceInv'  BY <1>1, <1>2, <1>3 DEF Contained, SequenceInv
  <2>2. MemtablesInv'  BY <1>1, <1>4 DEF Contained, MemtablesInv, Safe
  <2>3. BackedUpInv'  BY <1>1, <1>2, <1>3 DEF Contained, BackedUpInv, Safe
  <2> QED  BY <2>1, <2>2, <2>3
<1>7. OutputInv' /\ EditHolds'  BY <1>1, <1>2, <1>3, OutputsKept
<1>8. Found(Len(Records))' = Found(Len(Records))  BY <1>1, <1>2 DEF Found, Files
<1>9. ClosedInv'  BY <1>1, <1>2, <1>3, <1>8 DEF Contained, ClosedInv, Safe
<1>10. ReplayInv' /\ NewLogInv'
  BY <1>1, <1>2 DEF Contained, ReplayInv, NewLogInv, Opening
<1>11. Stored' = Stored  BY <1>1, <1>4, <1>8 DEF Stored
<1> QED  BY <1>5, <1>6, <1>7, <1>9, <1>10, <1>11 DEF Contained

------------------------------------------------------------------------------
(***************************************************************************)
(* What the store shows.                                                   *)
(***************************************************************************)
Maps == [KV!Next]_(KV!vars)

\* No table has the number that stands for none.
LEMMA ZeroIsNoTable ==
  ASSUME IInv, 0 \notin DOMAIN tables, [Next]_vars
  PROVE  0 \notin DOMAIN tables'
<1>0. Types /\ nextFile \in Nat /\ manifestFile \in Nat /\ current \in Nat
  BY NumbersTyped DEF IInv
<1>1. ASSUME NEW n, NEW x, n # 0, tables' = Put(tables, n, x)
      PROVE  0 \notin DOMAIN tables'
  BY <1>1 DEF Put
<1>2. ASSUME NEW S, tables' = Drop(tables, S)
      PROVE  0 \notin DOMAIN tables'
  <2>1. DOMAIN Drop(tables, S) = DOMAIN tables \ S  BY DropIs
  <2> QED  BY <1>2, <2>1
<1>3. CASE tables' = tables  BY <1>3
<1>4. CASE BuildTable
  <2>1. bg.flush # 0  BY <1>4 DEF BuildTable, IInv, FilesInv, StagesInv
  <2>2. tables' = tables \/ tables' = Put(tables, bg.flush, UNION imm)
    BY <1>4 DEF BuildTable
  <2> QED  BY <1>1, <1>3, <2>1, <2>2
<1>5. CASE OpenCompactionOutputFile
  <2>1. phase = "open"  BY <1>5, AtWorkIsOpen DEF OpenCompactionOutputFile
  <2>2. nextFile # 0  BY <2>1, NextFileIsNew
  <2> QED  BY <1>1, <1>5, <2>2 DEF OpenCompactionOutputFile
<1>6. CASE FinishCompactionOutputFile
  <2>1. bg.output # 0  BY <1>6 DEF FinishCompactionOutputFile
  <2>2. tables' = tables \/ tables' = Put(tables, bg.output, Contents(Numbers(bg.inputs)))
    BY <1>6 DEF FinishCompactionOutputFile
  <2> QED  BY <1>1, <1>3, <2>1, <2>2
<1>7. CASE CleanUp \/ FinishOpen
  BY <1>2, <1>7 DEF CleanUp, FinishOpen, DeleteObsoleteFiles
<1>8. ASSUME NEW l \in DOMAIN logs, RecoverLogFile(l)
      PROVE  0 \notin DOMAIN tables'
  <2>1. Opening  BY <1>8 DEF RecoverLogFile, Opening
  <2>2. nextFile # 0
    <3>1. manifestFile < nextFile  BY <2>1 DEF IInv, FilesInv, OpeningInv
    <3> QED  BY <1>0, <3>1
  <2>3. tables' = tables \/ tables' = Put(tables, nextFile, LogContents(l))
    BY <1>8 DEF RecoverLogFile
  <2> QED  BY <1>1, <1>3, <2>2, <2>3
<1>9. ASSUME NEW machine \in BOOLEAN, Crash(machine)
      PROVE  0 \notin DOMAIN tables'
  <2>1. PICK gone \in PartOf(ObsoleteTables) : tables' = Drop(tables, gone)
    BY <1>9 DEF Crash
  <2> QED  BY <1>2, <2>1
<1>10. ASSUME NEW w \in Writes, Write(w) \/ WriterStep(w)
       PROVE  tables' = tables
  BY <1>10 DEF Write, WriterStep, Room, RoomError, RoomDelay, RoomFound, RoomWait, RoomSwitch,
     RoomFails, AddRecord, SyncLog, FinishGroup, directory
<1>11. CASE BackgroundStep
  <2>1. BackgroundGivesUp \/ CompactMemTable \/ StartCompaction \/ InstallCompactionResults
          \/ AppendToDescriptor \/ SyncDescriptor => tables' = tables
    BY DEF BackgroundGivesUp, CompactMemTable, StartCompaction, InstallCompactionResults,
       AppendToDescriptor, SyncDescriptor, directory
  <2> QED  BY <1>3, <1>4, <1>5, <1>6, <1>7, <1>11, <2>1 DEF BackgroundStep
<1>12. CASE OpenStep
  <2>1. Recover \/ OpenLog \/ NewDescriptor \/ SetCurrentFile => tables' = tables
    BY DEF Recover, OpenLog, NewDescriptor, SetCurrentFile, directory
  <2> QED  BY <1>3, <1>7, <1>8, <1>12, <2>1 DEF OpenStep
<1>13. RefVersion \/ UnrefVersion \/ UNCHANGED vars => tables' = tables
  BY DEF RefVersion, UnrefVersion, vars, directory
<1> QED  BY <1>3, <1>9, <1>10, <1>11, <1>12, <1>13 DEF Next

\* The store shows what is stored,
LEMMA StoreIs ==
  ASSUME Contained
  PROVE  InOrder(IF phase = "open" THEN Visible ELSE Recoverable) = InOrder(Stored)
<1>1. ASSUME phase = "open" PROVE Visible = Stored
  <2>1. Contents(Numbers(version)) = Tabled  BY DEF Contents, Tabled, In
  <2>2. \A e \in Seen : e[1] <= lastSequence  BY <1>1 DEF Contained, MemtablesInv
  <2> QED  BY <1>1, <2>1, <2>2 DEF Visible, Stored, Seen
<1>2. ASSUME phase # "open" PROVE Recoverable = Stored
  <2>1. Descriptor = Records[Len(Records)]  BY DEF Descriptor, Records, Last
  <2>2. Contents(Numbers(Descriptor.files)) = Files(Len(Records))
    BY <2>1 DEF Contents, Files, In
  <2>3. LogsToReplay = {l \in DOMAIN logs : l >= Records[Len(Records)].log}
    BY <2>1 DEF LogsToReplay
  <2>4. UNION {LogContents(l) : l \in LogsToReplay} = Whole(logs, LogsToReplay)
    BY DEF LogContents, Whole
  <2> QED  BY <1>2, <2>2, <2>3, <2>4 DEF Recoverable, Stored, Found, Since
<1> QED  BY <1>1, <1>2

\* and so it does after a step.
LEMMA StoreIsNext ==
  ASSUME Contained'
  PROVE  InOrder(IF phase' = "open" THEN Visible' ELSE Recoverable') = InOrder(Stored')
<1>1. ASSUME phase' = "open" PROVE Visible' = Stored'
  <2>1. Contents(Numbers(version))' = Tabled'  BY DEF Contents, Tabled, In
  <2>2. \A e \in Seen' : e[1] <= lastSequence'  BY <1>1 DEF Contained, MemtablesInv
  <2> QED  BY <1>1, <2>1, <2>2 DEF Visible, Stored, Seen
<1>2. ASSUME phase' # "open" PROVE Recoverable' = Stored'
  <2>1. PICK k : k = Len(Records')  OBVIOUS
  <2>2. Descriptor' = Records'[k]  BY <2>1 DEF Descriptor, Records, Last
  <2>3. Contents(Numbers(Descriptor.files))' = In(tables', Numbers(Records'[k].files))
    BY <2>2 DEF Contents, In
  <2>4. LogsToReplay' = Since(logs', Records'[k].log)
    BY <2>2 DEF LogsToReplay, Since
  <2>5. UNION {LogContents(l)' : l \in LogsToReplay'} = Whole(logs', LogsToReplay')
    BY DEF LogContents, Whole
  <2>6. Stored' = In(tables', Numbers(Records'[k].files)) \cup Whole(logs', Since(logs', Records'[k].log))
    BY <1>2, <2>1 DEF Stored, Found, Files
  <2> QED  BY <2>3, <2>4, <2>5, <2>6 DEF Recoverable
<1> QED  BY <1>1, <1>2

Status == [b \in Batches |-> Known(b)]
Store  == InOrder(IF phase = "open" THEN Visible ELSE Recoverable)

\* The step of KVStore's that stands for a step without an answer: none.
LEMMA Stutters ==
  ASSUME Contained, Contained', Stored' = Stored, phase' = "open" <=> phase = "open",
         UNCHANGED <<torn, doubtful>>, \A b \in Batches : Known(b)' = Known(b)
  PROVE  Maps
<1>1. Store' = Store  BY StoreIs, StoreIsNext DEF Store
<1>2. Status' = Status  BY DEF Status
<1> QED  BY <1>1, <1>2 DEF Maps, KV!vars, Store, Status

\* What a caller knows does not change while its write waits.
LEMMA WaitingIsPending ==
  ASSUME \A b \in Batches : \/ state'[b] = state[b]
                            \/ state[b] \in Waiting /\ state'[b] \in Waiting
  PROVE  \A b \in Batches : Known(b)' = Known(b)
BY DEF Known, Waiting, Answers

\* KVStore's initial state.
LEMMA InitMaps == Init => KV!Init
<1> SUFFICES ASSUME Init PROVE KV!Init  OBVIOUS
<1>1. Contained /\ Stored = {}  BY InitContained
<1>2. phase = "down" /\ torn = FALSE /\ doubtful = {} /\ \A b \in Batches : Known(b) = "idle"
  BY DEF Init, Known, Writes
<1>3. InOrder({}) = <<>>
  <2>1. {} \in EntrySets /\ Distinct({})
    BY FS_EmptySet DEF EntrySets, Distinct
  <2>2. Cardinality({}) = 0  BY FS_EmptySet
  <2>3. InOrder({}) \in Seq(Batches) /\ Len(InOrder({})) = 0  BY <2>1, <2>2, InOrderIs
  <2> QED  BY <2>3
<1>4. Store = <<>>  BY <1>1, <1>3, StoreIs DEF Store
<1> QED  BY <1>2, <1>4 DEF KV!Init, Store

------------------------------------------------------------------------------
\* A write is made.
LEMMA WriteMaps ==
  ASSUME IInv, Contained, NEW w \in Writes, Write(w)
  PROVE  Maps
<1>0. Contained' /\ Stored' = Stored  BY WriteContained
<1>1. /\ phase = "open" /\ phase' = "open" /\ state[w] = "idle"
      /\ state' = [state EXCEPT ![w] = IF writers = <<>> THEN "room" ELSE "queued"]
      /\ state \in [Writes -> WriterStates] /\ UNCHANGED <<torn, doubtful>>
  BY DEF Write, IInv, Types, TypeOK, memtables
<1>2. \A v \in Writes : v # w => state'[v] = state[v]  BY <1>1
<1>3. state'[w] \in {"room", "queued"}  BY <1>1
<1>4. \A b \in Batches : b # w => Known(b)' = Known(b)  BY <1>2 DEF Known, Writes
<1>5. CASE w \in Batches
  <2>1. Known(w) = "idle" /\ Known(w)' = "pending"  BY <1>1, <1>3 DEF Known, Answers
  <2>2. Store' = Store  BY <1>0, StoreIs, StoreIsNext DEF Store
  <2>3. Status' = [Status EXCEPT ![w] = "pending"]  BY <1>4, <1>5, <2>1 DEF Status
  <2>4. KV!Write(w)  BY <1>1, <1>5, <2>1, <2>2, <2>3 DEF KV!Write, Store, Status
  <2> QED  BY <1>5, <2>4 DEF Maps, KV!Next
<1>6. CASE w \notin Batches
  <2>1. \A b \in Batches : Known(b)' = Known(b)  BY <1>4, <1>6
  <2> QED  BY <1>0, <1>1, <2>1, Stutters
<1> QED  BY <1>5, <1>6

\* A write fails before it is in a group.
LEMMA RefusalMaps ==
  ASSUME IInv, Contained, NEW w \in Writes, RoomError(w) \/ RoomFails(w)
  PROVE  Maps
<1>0. Contained' /\ Stored' = Stored  BY RoomContained
<1>1. /\ phase = "open" /\ phase' = "open" /\ state[w] = "room" /\ Answer(1, "error")
      /\ UNCHANGED <<torn, doubtful>>
  BY DEF RoomError, RoomFails, InRoom, memtables
<1>2. /\ state'[w] = "error"
      /\ \A v \in Writes : v # w => \/ state'[v] = state[v]
                                    \/ state[v] = "queued" /\ state'[v] = "room"
  <2>1. "error" \in Answers /\ "error" # "ok"  BY DEF Answers
  <2> QED  BY <1>1, <2>1, AnswerIsStateStep
<1>3. \A b \in Batches : b # w => Known(b)' = Known(b)
  BY <1>2 DEF Known, Answers, Writes
<1>4. CASE w \in Batches
  <2>1. Known(w) = "pending" /\ Known(w)' = "error"  BY <1>1, <1>2 DEF Known, Answers
  <2>2. Store' = Store  BY <1>0, StoreIs, StoreIsNext DEF Store
  <2>3. Status' = [b \in Batches |-> IF b \in {w} THEN "error" ELSE Status[b]]
    BY <1>3, <2>1 DEF Status
  <2>4. \A b \in {w} : Status[b] = "pending"  BY <1>4, <2>1 DEF Status
  <2>5. KV!Fail({w})  BY <1>1, <2>2, <2>3, <2>4 DEF KV!Fail, KV!Answer, Store, Status
  <2> QED  BY <1>4, <2>5 DEF Maps, KV!Next
<1>5. CASE w \notin Batches
  <2>1. \A b \in Batches : Known(b)' = Known(b)  BY <1>3, <1>5
  <2> QED  BY <1>0, <1>1, <2>1, Stutters
<1> QED  BY <1>4, <1>5

\* The other turns in the room, the record and its sync show nothing but a new log.
LEMMA WriterMaps ==
  ASSUME IInv, Contained, NEW w \in Writes,
         RoomDelay(w) \/ RoomWait(w) \/ RoomSwitch(w) \/ RoomFound(w) \/ AddRecord(w)
           \/ SyncLog(w)
  PROVE  Maps
<1>0. Contained' /\ Stored' = Stored
  BY RoomContained, RoomSwitchContained, RoomFoundContained, AddRecordContained,
     SyncLogContained
<1>t. state \in [Writes -> WriterStates] /\ writers \in Seq(Writes)
  BY DEF IInv, Types, TypeOK
<1>1. phase' = phase
  BY DEF RoomDelay, RoomWait, RoomSwitch, RoomFound, AddRecord, SyncLog
<1>2. \A b \in Batches : \/ state'[b] = state[b]
                         \/ state[b] \in Waiting /\ state'[b] \in Waiting
  <2>1. CASE RoomDelay(w) \/ RoomSwitch(w)
    BY <2>1 DEF RoomDelay, RoomSwitch
  <2>2. ASSUME NEW s \in Waiting, state[w] \in Waiting, state' = [state EXCEPT ![w] = s]
        PROVE  \A b \in Batches : \/ state'[b] = state[b]
                                  \/ state[b] \in Waiting /\ state'[b] \in Waiting
    BY <1>t, <2>2
  <2>3. CASE RoomWait(w)
    <3>1. state[w] \in Waiting /\ "waiting" \in Waiting  BY <2>3 DEF RoomWait, InRoom, Waiting
    <3> QED  BY <2>2, <2>3, <3>1 DEF RoomWait
  <2>4. CASE AddRecord(w)
    <3>1. state[w] \in Waiting /\ {"sync", "insert", "failed"} \subseteq Waiting
      BY <2>4 DEF AddRecord, Waiting
    <3>2. \E s \in {"sync", "insert", "failed"} : state' = [state EXCEPT ![w] = s]
      BY <2>4 DEF AddRecord
    <3> QED  BY <2>2, <3>1, <3>2
  <2>5. CASE SyncLog(w)
    <3>1. state[w] \in Waiting /\ {"insert", "syncFailed"} \subseteq Waiting
      BY <2>5 DEF SyncLog, Waiting
    <3>2. \E s \in {"insert", "syncFailed"} : state' = [state EXCEPT ![w] = s]
      BY <2>5 DEF SyncLog
    <3> QED  BY <2>2, <3>1, <3>2
  <2>6. CASE RoomFound(w)
    <3>0. state[w] = "room"  BY <2>6 DEF RoomFound, InRoom
    <3>1. CASE w \in Batches /\ state' = [state EXCEPT ![w] = "append"]
      <4>1. state[w] \in Waiting /\ "append" \in Waiting  BY <3>0 DEF Waiting
      <4> QED  BY <2>2, <3>1, <4>1
    <3>2. CASE w \in Flushes /\ Answer(1, "ok")
      <4>1. w \notin Batches  BY <3>2, WritesAssumption
      <4>2. "ok" \in Answers  BY DEF Answers
      <4>3. \A v \in Writes : v # w => \/ state'[v] = state[v]
                                       \/ state[v] = "queued" /\ state'[v] = "room"
        BY <3>0, <3>2, <4>1, <4>2, AnswerIsStateStep
      <4> QED  BY <4>1, <4>3 DEF Writes, Waiting
    <3> QED  BY <2>6, <3>1, <3>2 DEF RoomFound
  <2> QED  BY <2>1, <2>3, <2>4, <2>5, <2>6
<1>3. \A b \in Batches : Known(b)' = Known(b)  BY <1>2, WaitingIsPending
<1>4. CASE RoomSwitch(w)
  <2>1. phase = "open" /\ torn' = FALSE /\ doubtful' = doubtful
    BY <1>0, <1>4, FrontIsWriting DEF RoomSwitch, InRoom, Waiting
  <2>2. Store' = Store  BY <1>0, StoreIs, StoreIsNext DEF Store
  <2>3. Status' = Status  BY <1>3 DEF Status
  <2>4. KV!NewLog  BY <1>1, <2>1, <2>2, <2>3 DEF KV!NewLog, Store, Status
  <2> QED  BY <2>4 DEF Maps, KV!Next
<1>5. CASE ~RoomSwitch(w)
  <2>1. UNCHANGED <<torn, doubtful>>
    BY <1>5 DEF RoomDelay, RoomWait, RoomFound, AddRecord, SyncLog, memtables
  <2> QED  BY <1>0, <1>1, <1>3, <2>1, Stutters
<1> QED  BY <1>4, <1>5

\* KVStore and LevelDB mean the same by a prefix and by what a sequence holds.
LEMMA SequencesMapped ==
  ASSUME NEW s, NEW t
  PROVE  (KV!IsPrefix(s, t) <=> IsPrefix(s, t)) /\ KV!ToSet(s) = ToSet(s)
BY DEF KV!IsPrefix, IsPrefix, KV!ToSet, ToSet

\* Entries of the database are finitely many, each with a number of its own.
LEMMA EntriesAreDistinct ==
  ASSUME IInv, Contained, NEW S \in SUBSET All
  PROVE  S \in EntrySets /\ Distinct(S)
<1>1. All \in EntrySets  BY PartsTyped DEF IInv
<1>2. S \in EntrySets
  <2>1. IsFiniteSet(All) /\ All \subseteq Entries  BY <1>1 DEF EntrySets
  <2>2. IsFiniteSet(S)  BY <2>1, FS_Subset
  <2> QED  BY <2>1, <2>2 DEF EntrySets
<1>3. ASSUME NEW e \in S, NEW f \in S, e[1] = f[1]
      PROVE  e = f
  <2>1. e[2] = f[2]  BY <1>3 DEF Contained, EntriesInv
  <2>2. e = <<e[1], e[2]>> /\ f = <<f[1], f[2]>>  BY <1>2, EntryIs
  <2> QED  BY <1>3, <2>1, <2>2
<1> QED  BY <1>2, <1>3 DEF Distinct

\* A group is answered.
LEMMA FinishGroupMaps ==
  ASSUME IInv, Contained, NEW w \in Writes, FinishGroup(w)
  PROVE  Maps
<1> DEFINE first  == {writers[i] : i \in 1..group.size}
           taken  == {e[2] : e \in group.entries}
           answer == IF state[w] = "insert" THEN "ok" ELSE "error"
<1>0. /\ Contained' /\ phase = "open" /\ phase' = "open"
      /\ Stored' = IF state[w] = "insert" THEN Stored \cup group.entries ELSE Stored
  BY FinishGroupContained
<1>1. /\ state[w] \in Grouped /\ answer \in Answers
      /\ \A v \in first \cap Batches : state'[v] = answer /\ state[v] \in Waiting
      /\ \A v \in Batches \ first : \/ state'[v] = state[v]
                                    \/ state[v] \in Waiting /\ state'[v] = "room"
  BY GroupAnswers DEF Writes, Answers
<1>2. Types /\ group.entries \subseteq All /\ Stored = Seen /\ Seen \subseteq All
  BY <1>0, PartsTyped DEF IInv, Stored
<1>3. taken = first \cap Batches
  <2>1. /\ \A e \in group.entries : \E i \in 1..group.size : writers[i] = e[2]
        /\ \A i \in 1..group.size : writers[i] \in Batches =>
             \E e \in group.entries : e[2] = writers[i]
    BY <1>1 DEF Contained, GroupInv
  <2>2. \A e \in group.entries : e[2] \in Batches  BY <1>2, PartsTyped, EntryIs
  <2> QED  BY <2>1, <2>2
<1>4. \A b \in Batches : Known(b)' = IF b \in taken THEN answer ELSE Known(b)
  BY <1>1, <1>3 DEF Known, Waiting, Answers
<1>5. \A b \in taken : Known(b) = "pending"
  BY <1>1, <1>3 DEF Known, Waiting, Answers
<1>t. /\ state[w] = "insert" => torn' = torn
      /\ torn' \in {torn, torn \/ taken # {}}
      /\ state[w] # "insert" => doubtful' = doubtful
      /\ state[w] = "insert" => doubtful' = IF torn THEN doubtful \cup taken ELSE doubtful
  <2>1. taken # {}
    <3>1. w = writers[1] /\ w \in Batches /\ group.size \in 1..Len(writers)
      BY <1>1, GroupIsQueued
    <3>2. Len(writers) \in Nat  BY DEF IInv, Types, TypeOK
    <3>3. 1 \in 1..group.size  BY <3>1, <3>2
    <3> QED  BY <1>3, <3>1, <3>3
  <2>2. /\ torn' = (torn \/ state[w] = "failed")
        /\ doubtful' = doubtful \cup (IF torn /\ state[w] = "insert" THEN taken ELSE {})
    BY DEF FinishGroup
  <2>3. torn \in BOOLEAN  BY DEF IInv, Types, TypeOK
  <2> HIDE DEF taken
  <2>4. CASE state[w] = "failed"
    <3>1. torn' = TRUE /\ state[w] # "insert"  BY <2>2, <2>4
    <3>2. (torn \/ taken # {}) = TRUE  BY <2>1
    <3> QED  BY <2>2, <3>1, <3>2
  <2>5. CASE state[w] # "failed"
    <3>1. torn' = torn  BY <2>2, <2>3, <2>5
    <3> QED  BY <2>2, <3>1
  <2> QED  BY <2>4, <2>5
<1> HIDE DEF taken, first
<1>6. Status' = [b \in Batches |-> IF b \in taken THEN answer ELSE Status[b]]
  BY <1>4 DEF Status
<1>7. taken \in SUBSET Batches /\ \A b \in taken : Status[b] = "pending"
  BY <1>3, <1>5 DEF Status
<1>8. CASE state[w] # "insert"
  <2>1. Store' = Store  BY <1>0, <1>8, StoreIs, StoreIsNext DEF Store
  <2>2. KV!Fail(taken)  BY <1>0, <1>6, <1>7, <1>8, <1>t, <2>1 DEF KV!Fail, KV!Answer, Store, Status
  <2> QED  BY <1>7, <2>2 DEF Maps, KV!Next
<1>9. CASE state[w] = "insert"
  <2>1. Stored' = Stored \cup group.entries  BY <1>0, <1>9
  <2>2. /\ Stored \in EntrySets /\ Stored' \in EntrySets
        /\ Distinct(Stored) /\ Distinct(Stored')
    <3>1. Stored \in SUBSET All /\ Stored' \in SUBSET All  BY <1>2, <2>1
    <3> QED  BY <3>1, EntriesAreDistinct
  <2>3. IsPrefix(InOrder(Stored), InOrder(Stored'))
    <3>1. \A e \in Stored, f \in Stored' \ Stored : e[1] < f[1]
      <4>1. \A e \in Stored : e[1] \in Nat /\ e[1] <= lastSequence
        BY <1>0, <1>2, <2>2, EntryIs DEF Contained, MemtablesInv
      <4>2. \A f \in Stored' : f[1] \in Nat  BY <2>2, EntryIs
      <4>3. \A f \in group.entries : lastSequence < f[1]
        BY <1>1 DEF Contained, GroupInv
      <4>4. lastSequence \in Nat  BY <1>2, NumbersTyped
      <4> QED  BY <2>1, <4>1, <4>2, <4>3, <4>4
    <3> QED  BY <2>1, <2>2, <3>1, InOrderExtends
  <2>4. ToSet(InOrder(Stored')) = ToSet(InOrder(Stored)) \cup taken
    <3>1. ToSet(InOrder(Stored)) = {e[2] : e \in Stored}  BY <2>2, InOrderHolds
    <3>2. ToSet(InOrder(Stored')) = {e[2] : e \in Stored'}  BY <2>2, InOrderHolds
    <3> QED  BY <2>1, <3>1, <3>2 DEF taken
  <2>5. Store = InOrder(Stored) /\ Store' = InOrder(Stored')
    BY <1>0, StoreIs, StoreIsNext DEF Store
  <2>6. /\ KV!IsPrefix(Store, Store')
        /\ KV!ToSet(Store') = KV!ToSet(Store) \cup taken
    BY <2>3, <2>4, <2>5, SequencesMapped
  <2>7. KV!Commit(taken)
    BY <1>0, <1>6, <1>7, <1>9, <1>t, <2>6 DEF KV!Commit, KV!Answer, Store, Status
  <2> QED  BY <1>7, <2>7 DEF Maps, KV!Next
<1> QED  BY <1>8, <1>9

\* What a crash leaves is some of what there was.
LEMMA NothingIsStored ==
  ASSUME IInv, Contained, NEW machine \in BOOLEAN, Crash(machine)
  PROVE  Stored \subseteq All /\ Stored' \subseteq All
<1>0. /\ IInv' /\ Types /\ Types' /\ phase' = "down"  BY CrashKeeps DEF IInv, Crash
<1>1. Stored \subseteq All
  <2>1. Seen \subseteq All  BY <1>0, PartsTyped
  <2>2. Len(Records) \in DOMAIN Records  BY <1>0, RecordsTyped DEF IInv
  <2>3. Found(Len(Records)) \subseteq All  BY <1>0, <2>2, FoundTyped
  <2> QED  BY <2>1, <2>3 DEF Stored
<1>2. Stored' \subseteq All
  <2>1. PICK i \in DOMAIN Records : Records' = IF machine THEN <<Records[i]>> ELSE Records
    BY <1>0, DescriptorAfterCrash
  <2>2. Len(Records) \in DOMAIN Records /\ DOMAIN Records = 1..Len(Records)
    BY <1>0, RecordsTyped DEF IInv
  <2>3. PICK k : k = Len(Records')  OBVIOUS
  <2>4. \E j \in DOMAIN Records : k \in DOMAIN Records' /\ Records'[k] = Records[j]
    BY <2>1, <2>2, <2>3
  <2>5. PICK j \in DOMAIN Records : k \in DOMAIN Records' /\ Records'[k] = Records[j]
    BY <2>4
  <2>6. Found(k)' \subseteq Found(j)  BY <1>0, <2>5, FoundAfterCrash
  <2>7. Found(j) \subseteq All  BY <1>0, FoundTyped
  <2>8. \A m : m = Len(Records') => Stored' = Found(m)'  BY <1>0 DEF Stored, Found, Files
  <2> QED  BY <2>3, <2>6, <2>7, <2>8
<1> QED  BY <1>1, <1>2

\* The process or the machine ends.
LEMMA CrashMaps ==
  ASSUME IInv, Contained, NEW machine \in BOOLEAN, Crash(machine)
  PROVE  Maps
<1> DEFINE undecided == {b \in Batches : Status[b] \in {"pending", "error", "lost"}}
           safe == {b \in ToSet(Store) \ doubtful :
                     machine => Status[b] = "ok" /\ b \in Synced}
<1>0. /\ Contained' /\ phase' = "down" /\ torn' = FALSE /\ doubtful' = doubtful
      /\ \A e \in Stored' : state[e[2]] = "ok" /\ e[2] \notin doubtful => e \in Stored
      /\ state' = [w \in Writes |-> IF state[w] \in {"idle", "ok"} THEN state[w] ELSE "lost"]
  BY CrashContained DEF Crash
<1>u. ASSUME NEW u \in Ends, NEW e \in Stored, machine => u = "machine", Safe(e, u)
      PROVE  e \in Stored'
  BY <1>u, CrashContained
<1>1. /\ Stored \in EntrySets /\ Stored' \in EntrySets
      /\ Distinct(Stored) /\ Distinct(Stored')
      /\ Stored \subseteq All /\ Stored' \subseteq All
  BY NothingIsStored, EntriesAreDistinct
<1>2. Store = InOrder(Stored) /\ Store' = InOrder(Stored')
  BY <1>0, StoreIs, StoreIsNext DEF Store
<1>3. ToSet(Store) = {e[2] : e \in Stored} /\ ToSet(Store') = {e[2] : e \in Stored'}
  BY <1>1, <1>2, InOrderHolds
<1>4. \A b \in Batches : /\ Known(b) \in {"idle", "ok", "error", "lost", "pending"}
                         /\ Known(b) = "ok" <=> state[b] = "ok"
                         /\ Known(b) = "idle" <=> state[b] = "idle"
  BY DEF Known, Answers
<1>5. \A b \in Batches :
        Known(b)' = IF Known(b) \in {"pending", "error", "lost"} THEN "lost" ELSE Known(b)
  <2>1. \A b \in Batches : state'[b] = IF state[b] \in {"idle", "ok"} THEN state[b] ELSE "lost"
    BY <1>0 DEF Writes
  <2> QED  BY <1>4, <2>1 DEF Known, Answers
<1>6. Status' = [b \in Batches |-> IF b \in undecided THEN "lost" ELSE Status[b]]
  BY <1>5 DEF Status
<1>7. safe \subseteq ToSet(Store')
  <2> SUFFICES ASSUME NEW b \in safe PROVE b \in ToSet(Store')  OBVIOUS
  <2>1. PICK e \in Stored : b = e[2]  BY <1>3
  <2>2. b \in Batches  BY <1>1, <2>1, EntryIs
  <2>3. PICK u \in Ends : u = IF machine THEN "machine" ELSE "process"  BY DEF Ends
  <2>4. Safe(e, u)  BY <1>4, <2>1, <2>2, <2>3 DEF Safe, Status
  <2>5. e \in Stored'  BY <1>u, <2>3, <2>4
  <2> QED  BY <1>3, <2>1, <2>5
<1>8. ToSet(Store') \subseteq ToSet(Store) \cup undecided \cup doubtful
  <2> SUFFICES ASSUME NEW b \in ToSet(Store'), b \notin undecided, b \notin doubtful
               PROVE  b \in ToSet(Store)
    OBVIOUS
  <2>1. PICK e \in Stored' : b = e[2]  BY <1>3
  <2>2. b \in Batches /\ state[b] \in Answers \cup Waiting
    BY <1>1, <2>1, EntriesAreSettled
  <2>3. Known(b) \notin {"pending", "error", "lost"}  BY <2>2 DEF Status
  <2>4. state[b] = "ok"  BY <2>2, <2>3 DEF Known, Answers, Waiting
  <2> QED  BY <1>0, <1>3, <2>1, <2>4
<1>9. ASSUME NEW i \in DOMAIN Store', NEW j \in DOMAIN Store', i < j,
             NEW k \in DOMAIN Store, NEW l \in DOMAIN Store, k < l,
             Store[k] = Store'[j], Store[l] = Store'[i]
      PROVE  FALSE
  <2>1. \A e, f \in Stored \cup Stored' : e[1] = f[1] <=> e[2] = f[2]
    BY <1>1 DEF Contained, EntriesInv
  <2> QED  BY <1>1, <1>2, <1>9, <2>1, InOrderAgrees
<1>10. KV!SameOrder  BY <1>9 DEF KV!SameOrder, Store
<1>11. KV!ToSet(Store) = ToSet(Store) /\ KV!ToSet(Store') = ToSet(Store')
  BY SequencesMapped
<1>12. KV!Crash(machine)
  BY <1>0, <1>6, <1>7, <1>8, <1>10, <1>11 DEF KV!Crash, Store, Status
<1> QED  BY <1>12 DEF Maps, KV!Next

------------------------------------------------------------------------------
\* The background thread's steps and the readers' show nothing: an acknowledged write is
\* as much in the table as it was in the memtable.
LEMMA BackgroundMaps ==
  ASSUME IInv, Contained, 0 \notin DOMAIN tables, BackgroundStep \/ RefVersion \/ UnrefVersion
  PROVE  Maps
<1>0. Contained' /\ Stored' = Stored
  BY ThreadContained, BuildTableContained, OpenOutputContained, FinishOutputContained,
     AppendToDescriptorContained, SyncDescriptorContained, CleanUpContained
     DEF BackgroundStep
<1>1. phase' = phase
  BY DEF BackgroundStep, RefVersion, UnrefVersion, BackgroundGivesUp, CompactMemTable,
     BuildTable, StartCompaction, OpenCompactionOutputFile, FinishCompactionOutputFile,
     InstallCompactionResults, AppendToDescriptor, SyncDescriptor, CleanUp
<1>2. state' \in {state, SignalAll(state)}
  <2>1. BackgroundFails => state' \in {state, SignalAll(state)}
    BY EndOfWorkIs DEF BackgroundFails
  <2>2. CleanUp => state' \in {state, SignalAll(state)}
    BY EndOfWorkIs DEF CleanUp
  <2> QED
    BY <2>1, <2>2 DEF BackgroundStep, RefVersion, UnrefVersion, BackgroundGivesUp,
       CompactMemTable, BuildTable, StartCompaction, OpenCompactionOutputFile,
       FinishCompactionOutputFile, InstallCompactionResults, AppendToDescriptor,
       SyncDescriptor, EndBackgroundCall, queue
<1>3. \A b \in Batches : \/ state'[b] = state[b]
                         \/ state[b] \in Waiting /\ state'[b] \in Waiting
  BY <1>2 DEF SignalAll, Writes, Waiting
<1>4. \A b \in Batches : Known(b)' = Known(b)  BY <1>3, WaitingIsPending
<1>5. CASE SyncDescriptor
  <2>1. /\ phase = "open" /\ torn' = torn
        /\ \/ doubtful' = doubtful
           \/ doubtful' = doubtful \cap {e[2] : e \in mem}
    BY <1>1, <1>5, SyncDescriptorContained DEF SyncDescriptor
  <2>2. doubtful' \subseteq doubtful  BY <2>1
  <2>3. Store' = Store  BY <1>0, StoreIs, StoreIsNext DEF Store
  <2>4. Status' = Status  BY <1>4 DEF Status
  <2>5. KV!Settle  BY <1>1, <2>1, <2>2, <2>3, <2>4 DEF KV!Settle, Store, Status
  <2> QED  BY <2>5 DEF Maps, KV!Next
<1>6. CASE ~SyncDescriptor
  <2>1. UNCHANGED <<torn, doubtful>>
    BY <1>6 DEF BackgroundStep, RefVersion, UnrefVersion, BackgroundGivesUp,
       CompactMemTable, BuildTable, StartCompaction, OpenCompactionOutputFile,
       FinishCompactionOutputFile, InstallCompactionResults, AppendToDescriptor, CleanUp,
       memtables
  <2> QED  BY <1>0, <1>1, <1>4, <2>1, Stutters
<1> QED  BY <1>5, <1>6

\* A database that opens shows what it will show until it is open; its last step is
\* KVStore's Open.
LEMMA OpenMaps ==
  ASSUME IInv, Contained, OpenStep
  PROVE  Maps
<1>0. Contained' /\ Stored' = Stored
  BY RecoverContained, RecoverLogFileContained, OpenLogContained, NewDescriptorContained,
     SetCurrentFileContained, FinishOpenContained DEF OpenStep
<1>1. state' = state
  BY DEF OpenStep, Recover, RecoverLogFile, OpenLog, NewDescriptor, SetCurrentFile, FinishOpen,
     queue
<1>2. \A b \in Batches : Known(b)' = Known(b)  BY <1>1 DEF Known
<1>3. CASE FinishOpen
  <2>1. phase = "clean" /\ phase' = "open" /\ doubtful' = {} /\ torn' = torn  BY <1>3 DEF FinishOpen
  <2>2. Store' = Store  BY <1>0, StoreIs, StoreIsNext DEF Store
  <2>3. Status' = Status  BY <1>2 DEF Status
  <2>4. KV!Open  BY <2>1, <2>2, <2>3 DEF KV!Open, Store, Status
  <2> QED  BY <2>4 DEF Maps, KV!Next
<1>4. CASE ~FinishOpen
  <2>1. phase # "open" /\ phase' # "open" /\ UNCHANGED <<torn, doubtful>>
    BY <1>4 DEF OpenStep, Recover, RecoverLogFile, OpenLog, NewDescriptor, SetCurrentFile,
       memtables
  <2> QED  BY <1>0, <1>2, <2>1, Stutters
<1> QED  BY <1>3, <1>4

\* Every step keeps what is where,
LEMMA StepContained ==
  ASSUME IInv, Contained, 0 \notin DOMAIN tables, [Next]_vars
  PROVE  Contained'
<1>1. ASSUME NEW w \in Writes, Write(w) \/ WriterStep(w) PROVE Contained'
  BY <1>1, WriteContained, RoomContained, RoomFoundContained, RoomSwitchContained,
     AddRecordContained, SyncLogContained, FinishGroupContained
     DEF WriterStep, Room
<1>2. ASSUME BackgroundStep \/ RefVersion \/ UnrefVersion PROVE Contained'
  BY <1>2, ThreadContained, BuildTableContained, OpenOutputContained, FinishOutputContained,
     AppendToDescriptorContained, SyncDescriptorContained, CleanUpContained
     DEF BackgroundStep
<1>3. ASSUME NEW machine \in BOOLEAN, Crash(machine) PROVE Contained'
  BY <1>3, CrashContained
<1>4. ASSUME OpenStep PROVE Contained'
  BY <1>4, RecoverContained, RecoverLogFileContained, OpenLogContained, NewDescriptorContained,
     SetCurrentFileContained, FinishOpenContained DEF OpenStep
<1>5. ASSUME UNCHANGED vars PROVE Contained'
  BY <1>5, StutterContained
<1> QED  BY <1>1, <1>2, <1>3, <1>4, <1>5 DEF Next

\* and maps to a step of KVStore's or to none.
LEMMA StepMaps ==
  ASSUME IInv, Contained, 0 \notin DOMAIN tables, [Next]_vars
  PROVE  Maps
<1>1. ASSUME NEW w \in Writes, Write(w) \/ WriterStep(w) PROVE Maps
  BY <1>1, WriteMaps, RefusalMaps, WriterMaps, FinishGroupMaps DEF WriterStep, Room
<1>2. ASSUME BackgroundStep \/ RefVersion \/ UnrefVersion PROVE Maps
  BY <1>2, BackgroundMaps
<1>3. ASSUME NEW machine \in BOOLEAN, Crash(machine) PROVE Maps
  BY <1>3, CrashMaps
<1>4. ASSUME OpenStep PROVE Maps
  BY <1>4, OpenMaps
<1>5. ASSUME UNCHANGED vars PROVE Maps
  <2>1. UNCHANGED <<phase, state, torn, doubtful>>  BY <1>5 DEF vars, queue, memtables
  <2>2. \A b \in Batches : Known(b)' = Known(b)  BY <2>1 DEF Known
  <2>3. Contained' /\ Stored' = Stored  BY <1>5, StutterContained
  <2> QED  BY <2>1, <2>2, <2>3, Stutters
<1> QED  BY <1>1, <1>2, <1>3, <1>4, <1>5 DEF Next

\* What is where, in every state of every behaviour.
Agreement == Contained /\ 0 \notin DOMAIN tables

\* The log, the memtables, the tables and the descriptor never disagree about what is in
\* the database.
THEOREM AlwaysAgree == Spec => []Agreement
<1>1. Init => Agreement  BY InitContained DEF Agreement
<1>2. IInv /\ Agreement /\ [Next]_vars => Agreement'
  BY StepContained, ZeroIsNoTable DEF Agreement
<1> QED  BY <1>1, <1>2, Invariance, PTL DEF Spec

\* What leveldb does for a write: it is applied whole, in the order of the answers; an
\* acknowledged one survives the end of the process, and with sync the end of the machine,
\* unless an earlier record of its log failed and no table has it yet (log::Writer goes on
\* behind a torn record, and DBImpl::Write goes on after a failed append); one that was not
\* acknowledged may come back or vanish when the database is opened again, but not before.
THEOREM Implementation == Spec => ImplementsKVStore
<1>1. IInv /\ Agreement /\ [Next]_vars => [KV!Next]_(KV!vars)
  BY StepMaps DEF Agreement, Maps
<1> QED
  BY InitMaps, <1>1, Invariance, AlwaysAgree, PTL DEF Spec, ImplementsKVStore, KV!Spec

================================================================================
