---------------------------- MODULE Replication -----------------------------
(***************************************************************************)
(* What a cluster of Participants achieves: the properties of the two      *)
(* phases, of recovery and of elections, and the fairness of its threads.  *)
(***************************************************************************)
EXTENDS Participant

Running(s) == status[s] = "up"

Idle == \A c \in Client : pending[c] = Nil

\* A node has read outside a vector: what it does next is undefined.
Undefined == \E s \in Server : status[s] = "wild"

-----------------------------------------------------------------------------
(***************************************************************************)
(* The two phases.                                                         *)
(***************************************************************************)

\* The map after the commands the clients were told have succeeded
Effect(db, cmd) ==
  CASE cmd.op = "SET" -> [db EXCEPT ![cmd.keys[1]] = cmd.val]
    [] cmd.op = "DEL" -> Erase(db, Range(cmd.keys))
    [] OTHER          -> db

AfterReply(db, r) == IF r.ok THEN Effect(db, r.cmd) ELSE db

AfterAll(answers) == FoldLeft(AfterReply, EmptyStore.db, answers)

Acknowledged == AfterAll(replies)

\* While no client waits, every running replica holds exactly the effect of
\* the acknowledged commands: an answer "ok" is given only when the followers
\* have committed the entry, not merely when the LEADER has (the COMRE
\* quorum), and an answer "error" leaves no trace in any map.
AckedEverywhere ==
  Idle /\ ~Undefined => \A s \in Server : Running(s) => store[s].db = Acknowledged

\* While no client waits, the effect of the acknowledged commands is on a
\* majority of the cluster: after a message has been lost and one node has
\* crashed, and perhaps come back empty, the other two replicas still hold it.
\* The reads past the end of a log that follow do not change that.
AckedOnMajority ==
  Idle /\ ~Undefined =>
    Cardinality({s \in Server : Running(s) /\ store[s].db = Acknowledged}) >= Quorum

Holds(s, n, e) ==
  /\ n <= Len(store[s].log)
  /\ store[s].log[n].index = e.index
  /\ store[s].log[n].cmd = e.cmd

\* No node commits an entry before every running node has written it at the
\* same position: COM is sent only after a quorum of PRERE, which with three
\* or four nodes is all the followers, and no rollback or recovery moves an
\* entry that some node has committed.
PreparedFirst ==
  \A s \in Server : \A n \in 1 .. Len(store[s].log) :
    store[s].log[n].state = "COMMIT" =>
      \A b \in Server : Running(b) => Holds(b, n, store[s].log[n])

\* No node commits a command before every running node has it in its log,
\* wherever: this much also holds when nodes time out and a second LEADER
\* recovers the followers, although the positions may then differ.
WrittenFirst ==
  \A s \in Server : \A n \in 1 .. Len(store[s].log) :
    store[s].log[n].state = "COMMIT" =>
      \A b \in Server : Running(b) =>
        \E p \in 1 .. Len(store[b].log) : Holds(b, p, store[s].log[n])

\* Only the entry on top of a log can still be waiting to be committed:
\* COM commits the entry on top, so one that is covered stays prepared forever.
NoHole ==
  \A s \in Server : \A n \in 1 .. Len(store[s].log) - 1 : store[s].log[n].state = "COMMIT"

\* No rollback meets a committed SET, whose old value is always empty: substr
\* would throw, nothing catches it, and the process would end.
NeverTerminated == \A s \in Server : status[s] # "terminated"

\* The answers are those of one map that executes one command at a time.
KV == INSTANCE KVStore WITH db <- store[Boot].db
KVSpec == KV!Spec

-----------------------------------------------------------------------------
(***************************************************************************)
(* What the repository says of the system and the code does not achieve.   *)
(***************************************************************************)

\* README.md: the system is based on Raft, which elects at most one LEADER
\* per round.
OneLeaderPerRound ==
  \A a, b \in Server :
    pstate[a] = "LEADER" /\ pstate[b] = "LEADER" /\ round[a] = round[b] => a = b

\* logger.h: getLog gets the log with the position asked for.  No node reads
\* outside its log.
NeverUndefined == ~Undefined

-----------------------------------------------------------------------------
(***************************************************************************)
(* Fairness: the sender thread keeps sending, the network delivers what it *)
(* has accepted, and performComm takes the messages in turn.  Nothing is   *)
(* assumed of the timer, the clients and the faults.                       *)
(***************************************************************************)
Takes(a, s) ==
  \E n \in 1 .. Len(net[a][s]) : HandleClient(a, s, n) \/ (a \in Server /\ PerformComm(a, s, n))

FairSpec ==
  /\ Spec
  /\ \A s \in Server : WF_vars(HeartAll(s)) /\ WF_vars(VoteAll(s))
  /\ \A a \in Node, s \in Server : WF_vars(Takes(a, s))

\* A command that was sent is answered, unless a node has run into
\* undefined behaviour.
EventuallyAnswered ==
  \A c \in Client : pending[c] # Nil ~> (pending[c] = Nil \/ Undefined)
=============================================================================
