------------------------------- MODULE LogOps -------------------------------
(***************************************************************************)
(* The operations of class Logger (layer2/logger.cpp) and of the key-value *)
(* map under it (layer2/KVDB.cpp), as operators on the state of one        *)
(* replica.  A store is the record of Logger's fields                      *)
(*                                                                         *)
(*   log   the vector<Log>, entry n of the vector being log[n + 1]         *)
(*   posi  the position counter, which the code keeps beside the vector    *)
(*   db    KVDB's map, Absent standing for "the key is not in the map"     *)
(*   delq  Logger::delqueue, the keys parsed from a DEL and not yet erased *)
(*                                                                         *)
(* Logger never reads newLogIndex, CommitLogIndex and maxPosi, so they are *)
(* left out.  A command value such as "k,v" is kept parsed: the keys named *)
(* and, for SET, the value.                                                *)
(***************************************************************************)
EXTENDS Integers, SequencesExt

CONSTANTS
  Key,      \* keys clients use
  Value,    \* values clients store
  Absent,   \* the key is not in the map
  Empty,    \* the empty string
  MaxLog    \* MAX_LOG_SIZE, the capacity of the log (1000000 in the code)

ASSUME LogConstants ==
  /\ MaxLog \in Nat
  /\ Absent \notin Value \cup {Empty}
  /\ Empty \notin Value

Command == [op   : {"SET", "GET", "DEL"},
            keys : Seq(Key) \ {<<>>},
            val  : Value \cup {Empty}]

\* The commands of the README: SET key value, GET key, DEL key...
Set(k, v) == [op |-> "SET", keys |-> <<k>>, val |-> v]
Get(k)    == [op |-> "GET", keys |-> <<k>>, val |-> Empty]
Del(ks)   == [op |-> "DEL", keys |-> ks,    val |-> Empty]

\* Entries only ever are LOG_PRE or LOG_COMMIT: nothing in the code sets
\* the state of an entry to INVALID or LOG_ABORT.  dels is the length of
\* op.delVal, to which every key erased for the entry adds one value.
Entry == [index : Nat, cmd : Command, state : {"PRE", "COMMIT"}, dels : Nat]

\* Mutant: the state is not initialised to LOG_PRE.
NewEntryRaw(index, cmd) == [index |-> index, cmd |-> cmd, state |-> "INVALID", dels |-> 0]

NewEntry(index, cmd) == [index |-> index, cmd |-> cmd, state |-> "PRE", dels |-> 0]

Store == [log  : Seq(Entry),
          posi : Int,
          db   : [Key -> Value \cup {Empty, Absent}],
          delq : Seq(Key)]

EmptyStore == [log |-> <<>>, posi |-> 0, db |-> [k \in Key |-> Absent], delq |-> <<>>]

-----------------------------------------------------------------------------
(***************************************************************************)
(* Reading the log.  The code indexes log[posi-1] without a bounds check;  *)
(* InRange says when that read is defined.                                 *)
(***************************************************************************)
InRange(s) == s.posi \in 0 .. Len(s.log)

Top(s) == s.log[s.posi]

\* Mutant: the answer logger.h documents for a log without entries.
NewLogIndexNone(s) == IF s.posi = 0 THEN -1 ELSE Top(s).index

NewLogIndex(s) == IF s.posi = 0 THEN 0 ELSE Top(s).index

\* Logger::getState, with "~" for the empty log
TopState(s) == IF s.posi = 0 THEN "~" ELSE Top(s).state

\* Logger::getLog(n) reads element n of the vector, counted from 0.
HasLog(s, n) == n \in 0 .. Len(s.log) - 1
LogAt(s, n)  == s.log[n + 1]

-----------------------------------------------------------------------------
(***************************************************************************)
(* writeLog: refused only at capacity.  The state of the entry under posi, *)
(* which is the new one while posi counts the vector, becomes LOG_PRE.     *)
(***************************************************************************)
CanWrite(s) == Len(s.log) < MaxLog

\* Mutant: the entry below is marked.
MarkBelow(log, n, st, erased) ==
  [log EXCEPT ![n - 1] = [index |-> log[n - 1].index, cmd |-> log[n - 1].cmd,
                          state |-> st, dels |-> log[n - 1].dels + erased]]

Mark(log, n, st, erased) ==
  [log EXCEPT ![n] = [index |-> log[n].index, cmd |-> log[n].cmd,
                      state |-> st, dels |-> log[n].dels + erased]]

WriteLog(s, index, cmd) ==
  IF CanWrite(s)
  THEN [log  |-> Mark(Append(s.log, NewEntry(index, cmd)), s.posi + 1, "PRE", 0),
        posi |-> s.posi + 1,
        db   |-> s.db,
        delq |-> s.delq]
  ELSE s

-----------------------------------------------------------------------------
(***************************************************************************)
(* commitLog.  A result is a record: whether the call returned true, the   *)
(* answer it left in its argument, and the store after it.                 *)
(***************************************************************************)
Refused(s) == [ok |-> FALSE, ans |-> Empty, store |-> s]

\* The entry on top is marked LOG_COMMIT and the map becomes db.
Applied(s, db, delq, ans, erased) ==
  [ok |-> TRUE, ans |-> ans,
   store |-> [log  |-> Mark(s.log, s.posi, "COMMIT", erased),
              posi |-> s.posi, db |-> db, delq |-> delq]]

\* Mutant: the value found is not handed back.
CommitGetSilent(s) ==
  IF s.db[Top(s).cmd.keys[1]] = Absent THEN Refused(s) ELSE Applied(s, s.db, s.delq, Empty, 0)

CommitGet(s) ==
  LET v == s.db[Top(s).cmd.keys[1]]
  IN  IF v = Absent THEN Refused(s) ELSE Applied(s, s.db, s.delq, v, 0)

\* Mutant: a key that is in the map keeps its value.
CommitSetOnce(s) ==
  LET c == Top(s).cmd
      k == c.keys[1]
  IN  Applied(s, [s.db EXCEPT ![k] = IF s.db[k] = Absent THEN c.val ELSE s.db[k]],
              s.delq, Empty, 0)

CommitSet(s) ==
  LET c == Top(s).cmd
  IN  Applied(s, [s.db EXCEPT ![c.keys[1]] = c.val], s.delq, Empty, 0)

\* parseDelVal queues the text before each comma, so of "k1,...,kn" it
\* queues k1 .. k(n-1), behind whatever an earlier DEL left in the queue.
ParseDelVal(s, cmd) == s.delq \o Front(cmd.keys)

\* The positions of q whose key KVDB::delValue does not find, given that
\* the keys before it have been erased.
NotFound(db, q) ==
  {n \in DOMAIN q : db[q[n]] = Absent \/ \E m \in 1 .. n - 1 : q[m] = q[n]}

Erase(db, ks) == [k \in Key |-> IF k \in ks THEN Absent ELSE db[k]]

\* The keys are erased one by one; the first that is missing ends the call
\* with the earlier ones erased and the later ones still queued.
CommitDel(s) ==
  LET q    == ParseDelVal(s, Top(s).cmd)
      miss == NotFound(s.db, q)
      f    == CHOOSE n \in miss : \A m \in miss : n <= m
  IN  IF miss = {}
      THEN Applied(s, Erase(s.db, Range(q)), <<>>, Empty, Len(q))
      ELSE Refused([log  |-> Mark(s.log, s.posi, "PRE", f - 1),
                    posi |-> s.posi,
                    db   |-> Erase(s.db, Range(SubSeq(q, 1, f - 1))),
                    delq |-> SubSeq(q, f + 1, Len(q))])

CommitLog(s) ==
  CASE s.posi = 0 \/ TopState(s) = "COMMIT" -> Refused(s)
    [] s.posi # 0 /\ TopState(s) = "PRE" /\ Top(s).cmd.op = "GET" -> CommitGet(s)
    [] s.posi # 0 /\ TopState(s) = "PRE" /\ Top(s).cmd.op = "SET" -> CommitSet(s)
    [] OTHER -> CommitDel(s)

-----------------------------------------------------------------------------
(***************************************************************************)
(* rollbackLog.  An entry that is not committed is popped.  A committed    *)
(* GET moves posi back twice.  A committed DEL stores, for every key it    *)
(* queues, the value kept in delVal, always the empty string because       *)
(* KVDB::delValue takes oldval by value.  For a committed SET oldVal is    *)
(* empty for the same reason, and oldVal.substr(pos+1) throws              *)
(* out_of_range, which nothing catches.  Reading delVal past its end is    *)
(* undefined.                                                              *)
(***************************************************************************)
\* Mutants: only the counter moves back, or only the vector shrinks.
PopCounter(s, n, db, delq) ==
  [ok |-> TRUE, ans |-> Empty,
   store |-> [log |-> s.log, posi |-> s.posi - n, db |-> db, delq |-> delq]]

PopVector(s, n, db, delq) ==
  [ok |-> TRUE, ans |-> Empty,
   store |-> [log |-> Front(s.log), posi |-> s.posi, db |-> db, delq |-> delq]]

Pop(s, n, db, delq) ==
  [ok |-> TRUE, ans |-> Empty,
   store |-> [log |-> Front(s.log), posi |-> s.posi - n, db |-> db, delq |-> delq]]

CommittedOp(s, op) == s.posi > 0 /\ TopState(s) = "COMMIT" /\ Top(s).cmd.op = op

RollbackThrows(s) == CommittedOp(s, "SET")

RollbackUndefined(s) ==
  CommittedOp(s, "DEL") /\ Len(ParseDelVal(s, Top(s).cmd)) > Top(s).dels

RollbackDel(s) ==
  LET q == ParseDelVal(s, Top(s).cmd)
  IN  Pop(s, 1, [k \in Key |-> IF k \in Range(q) THEN Empty ELSE s.db[k]], <<>>)

RollbackLog(s) ==
  CASE s.posi <= 0 -> Refused(s)
    [] s.posi > 0 /\ TopState(s) = "PRE" -> Pop(s, 1, s.db, s.delq)
    [] CommittedOp(s, "GET") -> Pop(s, 2, s.db, s.delq)
    [] OTHER -> RollbackDel(s)
=============================================================================
