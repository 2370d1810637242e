------------------------------- MODULE Logger -------------------------------
(***************************************************************************)
(* One Logger object (layer2/logger.cpp) under any sequence of the calls   *)
(* its Participant makes: writeLog, commitLog and rollbackLog.             *)
(***************************************************************************)
EXTENDS LogOps

CONSTANTS
  Workload,   \* the commands written
  MaxCalls    \* bound on the calls of one execution

ASSUME LoggerConstants == Workload \subseteq Command /\ MaxCalls \in Nat

VARIABLES
  store,
  outcome,    \* "ok", "thrown" by an exception or "wild" after a read outside a vector
  drift,      \* history: committed GETs that have been rolled back
  cleared,    \* history: a DEL has erased a key
  calls

vars == <<store, outcome, drift, cleared, calls>>

TypeOK ==
  /\ store \in Store
  /\ outcome \in {"ok", "thrown", "wild"}
  /\ drift \in Nat
  /\ cleared \in BOOLEAN
  /\ calls \in Nat

Init ==
  /\ store = EmptyStore
  /\ outcome = "ok"
  /\ drift = 0
  /\ cleared = FALSE
  /\ calls = 0

Call == outcome = "ok" /\ calls < MaxCalls /\ calls' = calls + 1

\* Behind the first element of the vector nothing can be read.
Lost == Call /\ store.posi < 0 /\ outcome' = "wild" /\ UNCHANGED <<store, drift, cleared>>

Write(cmd) ==
  /\ Call
  /\ store.posi >= 0
  /\ store' = WriteLog(store, 0, cmd)
  /\ UNCHANGED <<outcome, drift, cleared>>

Commit ==
  /\ Call
  /\ store.posi >= 0
  /\ store' = CommitLog(store).store
  /\ cleared' = (cleared \/ \E k \in Key : store'.db[k] = Absent /\ store.db[k] # Absent)
  /\ UNCHANGED <<outcome, drift>>

RollbackFails ==
  /\ Call
  /\ RollbackThrows(store) \/ RollbackUndefined(store)
  /\ outcome' = IF RollbackThrows(store) THEN "thrown" ELSE "wild"
  /\ UNCHANGED <<store, drift, cleared>>

Rollback ==
  /\ Call
  /\ ~RollbackThrows(store) /\ ~RollbackUndefined(store)
  /\ store' = RollbackLog(store).store
  /\ drift' = IF CommittedOp(store, "GET") THEN drift + 1 ELSE drift
  /\ UNCHANGED <<outcome, cleared>>

Next == (\E cmd \in Workload : Write(cmd)) \/ Commit \/ Rollback \/ RollbackFails \/ Lost

Spec == Init /\ [][Next]_vars

-----------------------------------------------------------------------------
\* posi falls behind the vector by one with every committed GET that is
\* rolled back, and in no other way: from then on commitLog commits an entry
\* below the last one written.
PosiDrift == store.posi = Len(store.log) - drift

\* An entry with another one above it, up to posi, is never touched again: a
\* commit or a rollback reaches the top entry only, so a prepared entry that
\* is covered is stuck.
BuriedIsFinal ==
  [][\A n \in 1 .. store.posi - 1 : n <= Len(store'.log) /\ store'.log[n] = store.log[n]]_vars

\* Until a committed GET has been rolled back or a DEL has erased a key, the
\* map is what the committed SETs of the log make it, whatever was written,
\* refused and rolled back.
ReplayStep(db, e) ==
  IF e.state = "COMMIT" /\ e.cmd.op = "SET" THEN [db EXCEPT ![e.cmd.keys[1]] = e.cmd.val] ELSE db

Replay(log) == FoldLeft(ReplayStep, EmptyStore.db, log)

MapIsReplay == drift = 0 /\ ~cleared => store.db = Replay(store.log)

-----------------------------------------------------------------------------
\* logger.h: parseDelVal parses every key of a DEL into the queue, from which
\* commitLog erases it.  No key named by a committed DEL is left in the map.
CommitsDel ==
  /\ store.posi > 0 /\ TopState(store) = "PRE" /\ Top(store).cmd.op = "DEL"
  /\ store'.posi = store.posi /\ TopState(store') = "COMMIT"

DelErasesItsKeys ==
  [][CommitsDel => \A k \in Range(Top(store).cmd.keys) : store'.db[k] = Absent]_vars
=============================================================================
