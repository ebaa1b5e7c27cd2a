------------------------------- MODULE KVStore -------------------------------
(***************************************************************************)
(* What leveldb promises its callers about writes (include/leveldb/db.h,   *)
(* options.h): a write is applied whole, in the order of the answers; once *)
(* it is answered with success, the end of the process does not lose it,   *)
(* and the end of the machine does not either if it asked for sync.  A     *)
(* write that was never answered, or answered with an error, may show up   *)
(* after a later start, or vanish again, but not before.                   *)
(*                                                                         *)
(* Less than options.h promises: after an error the log may be torn, and   *)
(* what is acknowledged from then on is doubtful, until a table has it.    *)
(* The end of the process may take a doubtful write; nothing else may.     *)
(***************************************************************************)
EXTENDS Naturals, Sequences, SequencesExt

CONSTANTS
  Batches,   \* the batches written, each at most once
  Synced     \* those written with WriteOptions.sync

VARIABLES
  up,        \* the database is open
  status,    \* what the caller of each write knows
  store,     \* the writes in the database, oldest first
  torn,      \* since the log in use was new, a write had an error
  doubtful   \* what was acknowledged behind such an error, and may be lost

vars == <<up, status, store, torn, doubtful>>

Statuses == {"idle", "pending", "ok", "error", "lost"}

Init ==
  /\ up = FALSE
  /\ status = [b \in Batches |-> "idle"]
  /\ store = <<>>
  /\ torn = FALSE /\ doubtful = {}

Open ==
  /\ ~up /\ up' = TRUE
  /\ doubtful' = {}
  /\ UNCHANGED <<status, store, torn>>

Write(b) ==
  /\ up /\ status[b] = "idle"
  /\ status' = [status EXCEPT ![b] = "pending"]
  /\ UNCHANGED <<up, store, torn, doubtful>>

\* The pending writes of a group are answered together.
Answer(group, answer) ==
  status' = [b \in Batches |-> IF b \in group THEN answer ELSE status[b]]

Commit(group) ==
  /\ up /\ \A b \in group : status[b] = "pending"
  /\ Answer(group, "ok")
  /\ IsPrefix(store, store')
  /\ ToSet(store') = ToSet(store) \cup group
  /\ doubtful' = IF torn THEN doubtful \cup group ELSE doubtful
  /\ UNCHANGED <<up, torn>>

Fail(group) ==
  /\ up /\ \A b \in group : status[b] = "pending"
  /\ Answer(group, "error")
  /\ torn' \in {torn, torn \/ group # {}}
  /\ UNCHANGED <<up, store, doubtful>>

\* A new log, and a memtable whose table is written.
NewLog == up /\ torn' = FALSE /\ UNCHANGED <<up, status, store, doubtful>>
Settle == up /\ doubtful' \subseteq doubtful /\ UNCHANGED <<up, status, store, torn>>

\* The order of what is in the database before and after a crash.
SameOrder ==
  \A i, j \in DOMAIN store' :
    i < j => ~ \E k, l \in DOMAIN store :
                 k < l /\ store[k] = store'[j] /\ store[l] = store'[i]

\* The process ends, or the whole machine.
Crash(machine) ==
  LET unanswered == {b \in Batches : status[b] \in {"pending", "error", "lost"}}
      safe == {b \in ToSet(store) \ doubtful :
                 machine => status[b] = "ok" /\ b \in Synced}
  IN  /\ up' = FALSE
      /\ status' = [b \in Batches |-> IF b \in unanswered THEN "lost" ELSE status[b]]
      /\ safe \subseteq ToSet(store')
      /\ ToSet(store') \subseteq ToSet(store) \cup unanswered \cup doubtful
      /\ torn' = FALSE
      /\ UNCHANGED doubtful
      /\ SameOrder

Next ==
  \/ Open
  \/ \E b \in Batches : Write(b)
  \/ \E group \in SUBSET Batches : Commit(group) \/ Fail(group)
  \/ NewLog \/ Settle
  \/ \E machine \in BOOLEAN : Crash(machine)

Spec == Init /\ [][Next]_vars
==============================================================================
