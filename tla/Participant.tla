---------------------------- MODULE Participant -----------------------------
(***************************************************************************)
(* A cluster of Participants (layer1/participant.cpp): election by timeout *)
(* and votes, replication of client commands in two phases, heartbeats and *)
(* log recovery.                                                           *)
(*                                                                         *)
(* net[a][b] holds the messages on their way from a to b, oldest first.    *)
(* It stands for the whole path a message takes: a's msgSendQueue and      *)
(* sender thread, one TCP connection, and b's receiving threads up to      *)
(* comQueue.  Each connection is served by a thread of its own, so two     *)
(* messages between the same nodes may overtake each other; Ordered        *)
(* restricts the model to the schedules in which they do not.              *)
(*                                                                         *)
(* A handler of performComm is one action: it takes a message out of net,  *)
(* changes the node and adds its replies to net.  The Timer thread takes   *)
(* no notice of it, and may write round and pstate after a handler has     *)
(* compared them and before it changes them: see held.  timeOut is left    *)
(* out: any node that is not LEADER may time out at any moment.            *)
(***************************************************************************)
EXTENDS LogOps, FiniteSets

CONSTANTS
  Server, Client,
  Boot,        \* the node on port 8001, which starts as LEADER
  Nil,         \* no node, no client, no command
  Ordered,     \* messages between two nodes are received in sending order
  Workload,    \* the commands the clients issue
  MaxCmd,      \* bound on the commands issued
  MaxTimeout,  \* bound on the timeouts that start an election
  MaxBeat,     \* bound on the heartbeats and answers to them under way
               \* between two nodes when a LEADER sends the next
  MaxLoss,     \* bound on messages lost between running nodes
  MaxCrash     \* bound on crashes

ASSUME ClusterConstants ==
  /\ IsFiniteSet(Server)
  /\ Boot \in Server
  /\ Server \cap Client = {}
  /\ Nil \notin Server \cup Client \cup Command
  /\ Ordered \in BOOLEAN
  /\ Workload \subseteq Command
  /\ MaxCmd \in Nat /\ MaxTimeout \in Nat /\ MaxBeat \in Nat
  /\ MaxLoss \in Nat /\ MaxCrash \in Nat

VARIABLES
  status,      \* "up", "down", "terminated" by an exception, or "wild"
  round, pstate, voteNum, lea,
  tokens,      \* psem[4]: timeouts voteAll has not served yet
  timer,       \* Timer: "waiting"; "due", when it has found that the node is
               \* not LEADER, which by now it is; "standing", when the node is
               \* CANDIDATE and its round is not yet raised
  held,        \* a message performComm had tested, and not yet acted on, when
               \* Timer wrote, with the round it was compared with
  dataState, store, client,
  acks,        \* succNumP, failNumP, succNumC, failNumC
  net,
  pending,     \* the command each client waits for
  replies,     \* what the clients have been answered, in order
  issued, losses, crashes, timeouts

elect == <<round, pstate, voteNum, lea, tokens, timer>>
data  == <<dataState, store, client>>
users == <<pending, replies, issued>>
env   == <<status, losses, crashes, timeouts>>
vars  == <<elect, held, data, acks, net, users, env>>

Node   == Server \cup Client

\* Mutants of Quorum: one follower fewer, and every node of the cluster.
QuorumHalf == Cardinality(Server) \div 2
QuorumAll  == Cardinality(Server)

Quorum == Cardinality(Server) \div 2 + 1

-----------------------------------------------------------------------------
(***************************************************************************)
(* Messages.  A field the receiver does not use is left out.  RECOVER is   *)
(* the [HEART] whose res carries a log entry.                              *)
(***************************************************************************)
Sent == [index : Nat, cmd : Command, state : {"PRE", "COMMIT"}]

Message ==
       [type : {"VOTE", "VOTERE"}, round : Nat]
  \cup [type : {"HEART"}, round : Nat, posi : Nat, index : Nat]
  \cup [type : {"HEARTRE"}, posi : Nat, index : Nat]
  \cup [type : {"RECOVER"}, posi : Nat, entry : Sent]
  \cup [type : {"PRE"}, index : Nat, cmd : Command]
  \cup [type : {"COM", "ROLL"}]
  \cup [type : {"PRERE", "COMRE", "ROLLRE"}, ok : BOOLEAN]
  \cup [type : {"CLIENT"}, client : Client, cmd : Command]

Vote(r)   == [type |-> "VOTE", round |-> r]
VoteRe(r) == [type |-> "VOTERE", round |-> r]

Heart(r, s) == [type |-> "HEART", round |-> r, posi |-> s.posi, index |-> NewLogIndex(s)]
HeartRe(s)  == [type |-> "HEARTRE", posi |-> s.posi, index |-> NewLogIndex(s)]

Recover(n, e) ==
  [type |-> "RECOVER", posi |-> n,
   entry |-> [index |-> e.index, cmd |-> e.cmd, state |-> e.state]]

Pre(s, cmd)  == [type |-> "PRE", index |-> NewLogIndex(s), cmd |-> cmd]
Order(t)     == [type |-> t]
Ack(t, ok)   == [type |-> t, ok |-> ok]
Ask(c, cmd)  == [type |-> "CLIENT", client |-> c, cmd |-> cmd]

-----------------------------------------------------------------------------
NoAcks == [pOk |-> 0, pErr |-> 0, cOk |-> 0, cErr |-> 0]

Counts == [pOk : Nat, pErr : Nat, cOk : Nat, cErr : Nat]

PState == {"FOLLOWER", "CANDIDATE", "LEADER"}

Held == [from : Server, msg : Message, round : Nat]

Reply == [client : Client, cmd : Command, ok : BOOLEAN, val : Value \cup {Empty}]

TypeOK ==
  /\ status \in [Server -> {"up", "down", "terminated", "wild"}]
  /\ round \in [Server -> Nat]
  /\ pstate \in [Server -> PState]
  /\ voteNum \in [Server -> Nat]
  /\ lea \in [Server -> Server \cup {Nil}]
  /\ tokens \in [Server -> Nat]
  /\ timer \in [Server -> {"waiting", "due", "standing"}]
  /\ held \in [Server -> Held \cup {Nil}]
  /\ dataState \in [Server -> {"LOG_COMMIT", "LOG_PRE", "INVALID", "LOG_ABORT"}]
  /\ store \in [Server -> Store]
  /\ client \in [Server -> Client \cup {Nil}]
  /\ acks \in [Server -> Counts]
  /\ net \in [Node -> [Server -> Seq(Message)]]
  /\ pending \in [Client -> Command \cup {Nil}]
  /\ replies \in Seq(Reply)
  /\ issued \in Nat /\ losses \in Nat /\ crashes \in Nat /\ timeouts \in Nat

Init ==
  /\ status = [s \in Server |-> "up"]
  /\ round = [s \in Server |-> 0]
  /\ pstate = [s \in Server |-> IF s = Boot THEN "LEADER" ELSE "FOLLOWER"]
  /\ voteNum = [s \in Server |-> 1]
  /\ lea = [s \in Server |-> Nil]
  /\ tokens = [s \in Server |-> 0]
  /\ timer = [s \in Server |-> "waiting"]
  /\ held = [s \in Server |-> Nil]
  /\ dataState = [s \in Server |-> "LOG_COMMIT"]
  /\ store = [s \in Server |-> EmptyStore]
  /\ client = [s \in Server |-> Nil]
  /\ acks = [s \in Server |-> NoAcks]
  /\ net = [a \in Node |-> [b \in Server |-> <<>>]]
  /\ pending = [c \in Client |-> Nil]
  /\ replies = <<>>
  /\ issued = 0 /\ losses = 0 /\ crashes = 0 /\ timeouts = 0

-----------------------------------------------------------------------------
(***************************************************************************)
(* Sending and receiving.                                                  *)
(***************************************************************************)
Receivable(a, b) == {n \in 1 .. Len(net[a][b]) : Ordered => n = 1}

\* The network without the n-th message from a to b.
Taken(a, b, n) == [net EXCEPT ![a][b] = RemoveAt(net[a][b], n)]

With(nt, a, b, m) == [nt EXCEPT ![a][b] = Append(nt[a][b], m)]

\* rollBackAll, commitAll, prepareAll and heartAll queue one message for
\* every other node.
WithAll(nt, a, m) ==
  [nt EXCEPT ![a] = [b \in Server |-> IF b = a THEN nt[a][b] ELSE Append(nt[a][b], m)]]

\* performComm has tested this message and not yet acted on it.
Holding(a, s, n) == held[s] # Nil /\ a = held[s].from /\ net[a][s][n] = held[s].msg

\* Node s, running, takes the n-th message from a, which is of type t.
Receives(a, s, n, t) ==
  /\ status[s] = "up"
  /\ n \in Receivable(a, s)
  /\ net[a][s][n].type = t
  /\ held[s] # Nil => Holding(a, s, n)
  /\ held' = [held EXCEPT ![s] = Nil]

\* The round performComm compares a message with: the node's, or the one the
\* node was in when the message it holds was tested.
Known(s) == IF held[s] = Nil THEN round[s] ELSE held[s].round

\* A reply reaches the client the node remembers; one that waits for
\* nothing ignores it.
Answer(c, ok, val) ==
  IF c # Nil /\ pending[c] # Nil
  THEN /\ replies' = Append(replies, [client |-> c, cmd |-> pending[c], ok |-> ok, val |-> val])
       /\ pending' = [pending EXCEPT ![c] = Nil]
       /\ issued' = issued
  ELSE UNCHANGED users

-----------------------------------------------------------------------------
(***************************************************************************)
(* Election: the threads Timer and voteAll, and the handlers of [VOTE] and *)
(* [VOTERE].                                                               *)
(***************************************************************************)

\* A vote is granted for the node's own round or a later one, to whoever
\* asks: the node does not note whom it voted for, nor compare logs.
\* Mutant: any request is granted.
GrantsAll(s, r) == TRUE

Grants(s, r) == r >= Known(s)

\* A vote counts for the round it was given in.  Who gave it is not checked.
\* Mutant: so do the votes of earlier rounds.
VoteCountsLate(s, r) == held[s] # Nil \/ pstate[s] = "CANDIDATE"

VoteCounts(s, r) == held[s] # Nil \/ (pstate[s] = "CANDIDATE" /\ r = round[s])

\* A heartbeat counts when neither its round nor its log is behind.
\* Mutant: the round is not compared.
AcceptsOld(s, m) == m.posi >= store[s].posi /\ m.index >= NewLogIndex(store[s])

Accepts(s, m) ==
  /\ m.round >= Known(s)
  /\ m.posi >= store[s].posi
  /\ m.index >= NewLogIndex(store[s])

\* The test of performComm lets the message pass.
Passes(s, m) ==
  \/ m.type = "VOTE" /\ Grants(s, m.round)
  \/ m.type = "VOTERE" /\ VoteCounts(s, m.round)
  \/ m.type = "HEART" /\ Accepts(s, m)

\* Timer writes between the test of a message and what the handler does then,
\* or at another time.  (A test and the steps of other nodes may change places,
\* so it is taken to be made just before.)
Interrupts(s) ==
  \/ held' = held
  \/ /\ held[s] = Nil
     /\ \E a \in Server : \E n \in Receivable(a, s) :
          /\ Passes(s, net[a][s][n])
          /\ held' = [held EXCEPT ![s] = [from |-> a, msg |-> net[a][s][n], round |-> round[s]]]

\* The node becomes CANDIDATE, without the mutex.
TimeOut(s) ==
  /\ status[s] = "up"
  /\ timer[s] = "due" \/ (timer[s] = "waiting" /\ pstate[s] # "LEADER")
  /\ timeouts < MaxTimeout
  /\ timer' = [timer EXCEPT ![s] = "standing"]
  /\ pstate' = [pstate EXCEPT ![s] = "CANDIDATE"]
  /\ Interrupts(s)
  /\ timeouts' = timeouts + 1
  /\ UNCHANGED <<round, voteNum, lea, tokens, data, acks, net, users, status, losses, crashes>>

\* It raises its round, whatever it has become since.
NewRound(s) ==
  /\ status[s] = "up"
  /\ timer[s] = "standing"
  /\ timer' = [timer EXCEPT ![s] = "waiting"]
  /\ round' = [round EXCEPT ![s] = round[s] + 1]
  /\ voteNum' = [voteNum EXCEPT ![s] = 1]
  /\ tokens' = [tokens EXCEPT ![s] = tokens[s] + 1]
  /\ Interrupts(s)
  /\ UNCHANGED <<pstate, lea, data, acks, net, users, env>>

Timer(s) == TimeOut(s) \/ NewRound(s)

\* voteAll asks for votes in the round it finds, which need not be the one
\* whose timeout posted the token.
VoteAll(s) ==
  /\ status[s] = "up"
  /\ tokens[s] > 0
  /\ tokens' = [tokens EXCEPT ![s] = tokens[s] - 1]
  /\ net' = IF pstate[s] = "CANDIDATE" THEN WithAll(net, s, Vote(round[s])) ELSE net
  /\ UNCHANGED <<round, pstate, voteNum, lea, timer, held, data, acks, users, env>>

\* A node steps down, but Timer may make it CANDIDATE before the handler
\* writes the round.
StepsDown(s) ==
  \/ pstate' = [pstate EXCEPT ![s] = "FOLLOWER"]
  \/ held[s] # Nil /\ pstate[s] = "CANDIDATE" /\ UNCHANGED pstate

\* The round is stored although it may have been raised since the test.  A
\* LEADER of that very round stays LEADER and its reply is dropped.
HandleVote(a, s, n) ==
  LET r == net[a][s][n].round
  IN  /\ Receives(a, s, n, "VOTE")
      /\ \/ /\ ~Grants(s, r)
            /\ net' = Taken(a, s, n)
            /\ UNCHANGED <<round, pstate, voteNum>>
         \/ /\ Grants(s, r)
            /\ IF r = Known(s) THEN UNCHANGED pstate ELSE StepsDown(s)
            /\ round' = [round EXCEPT ![s] = r]
            /\ voteNum' = [voteNum EXCEPT ![s] = 1]
            /\ net' = IF pstate'[s] = "LEADER" THEN Taken(a, s, n)
                      ELSE With(Taken(a, s, n), s, a, VoteRe(r))
      /\ UNCHANGED <<lea, tokens, timer, data, acks, users, env>>

\* The node becomes LEADER in the round it is in by now, and Timer may have
\* looked at pstate just before.
HandleVoteRe(a, s, n) ==
  LET counts == VoteCounts(s, net[a][s][n].round)
      wins   == voteNum[s] + 1 >= Quorum
  IN  /\ Receives(a, s, n, "VOTERE")
      /\ \/ /\ ~counts
            /\ net' = Taken(a, s, n)
            /\ UNCHANGED <<pstate, voteNum, timer>>
         \/ /\ counts /\ ~wins
            /\ voteNum' = [voteNum EXCEPT ![s] = voteNum[s] + 1]
            /\ net' = Taken(a, s, n)
            /\ UNCHANGED <<pstate, timer>>
         \/ /\ counts /\ wins
            /\ voteNum' = [voteNum EXCEPT ![s] = 1]
            /\ pstate' = [pstate EXCEPT ![s] = "LEADER"]
            /\ \/ UNCHANGED timer
               \/ timer[s] = "waiting" /\ timer' = [timer EXCEPT ![s] = "due"]
            /\ net' = WithAll(Taken(a, s, n), s, Heart(round[s], store[s]))
      /\ UNCHANGED <<round, lea, tokens, data, acks, users, env>>

-----------------------------------------------------------------------------
(***************************************************************************)
(* Heartbeats and recovery: the sender thread, the handler of [HEART] and  *)
(* of [HEARTRE].                                                           *)
(***************************************************************************)
OfType(a, b, types) == {n \in 1 .. Len(net[a][b]) : net[a][b][n].type \in types}

Beats(a, b) == OfType(a, b, {"HEART", "RECOVER"})

HeartAll(s) ==
  /\ status[s] = "up"
  /\ pstate[s] = "LEADER"
  /\ \A b \in Server :
       Cardinality(Beats(s, b)) + Cardinality(OfType(b, s, {"HEARTRE"})) < MaxBeat
  /\ net' = WithAll(net, s, Heart(round[s], store[s]))
  /\ UNCHANGED <<elect, held, data, acks, users, env>>

\* The sender thread throws away the heartbeats it finds queued when the
\* node is no longer LEADER.
DropHeart(s, b, n) ==
  /\ status[s] = "up"
  /\ pstate[s] # "LEADER"
  /\ n \in Beats(s, b)
  /\ ~Holding(s, b, n)
  /\ net' = Taken(s, b, n)
  /\ UNCHANGED <<elect, held, data, acks, users, env>>

\* dataState once a heartbeat agrees with the node's log
DataStateOf(st) ==
  CASE TopState(st) \in {"~", "COMMIT"} -> "LOG_COMMIT"
    [] TopState(st) = "PRE" -> "LOG_PRE"

SameLog(st, posi, index) == posi = st.posi /\ index = NewLogIndex(st)

HandleHeart(a, s, n) ==
  LET m  == net[a][s][n]
      st == store[s]
      accepted == Accepts(s, m)
      same     == SameLog(st, m.posi, m.index)
      invalid  == dataState[s] = "INVALID"
  IN  /\ Receives(a, s, n, "HEART")
      /\ \/ /\ ~accepted
            /\ net' = Taken(a, s, n)
            /\ UNCHANGED <<round, pstate, lea, dataState>>
         \/ /\ accepted
            /\ StepsDown(s)
            /\ round' = [round EXCEPT ![s] = m.round]
            /\ lea' = [lea EXCEPT ![s] = a]
            /\ dataState' = [dataState EXCEPT ![s] =
                 CASE same /\ ~invalid -> DataStateOf(st)
                   [] same /\ invalid  -> "LOG_ABORT"
                   [] ~same            -> "INVALID"]
            /\ net' = IF same /\ invalid THEN Taken(a, s, n)
                      ELSE With(Taken(a, s, n), s, a, HeartRe(st))
      /\ UNCHANGED <<voteNum, tokens, timer, store, client, acks, users, env>>

\* What a recovering node makes of an entry sent at position posi: it is
\* written when the log has not got that far, and then committed if it is
\* committed at the sender.
Restored(st, posi, entry) ==
  LET written == WriteLog(st, entry.index, entry.cmd)
  IN  CASE posi < st.posi \/ ~CanWrite(st) -> [ok |-> TRUE, store |-> st]
        [] posi >= st.posi /\ CanWrite(st) /\ entry.state = "PRE" ->
             [ok |-> TRUE, store |-> written]
        [] OTHER -> [ok |-> CommitLog(written).ok, store |-> CommitLog(written).store]

\* The round of the sender is not looked at.  After a commit that fails the
\* reply is sent without the fields the LEADER needs, and has no effect.
HandleRecover(a, s, n) ==
  LET m  == net[a][s][n]
      st == store[s]
      res   == IF dataState[s] = "INVALID" THEN Restored(st, m.posi, m.entry)
               ELSE [ok |-> TRUE, store |-> st]
      reply == res.ok /\ pstate[s] # "LEADER"
  IN  /\ Receives(a, s, n, "RECOVER")
      /\ store' = [store EXCEPT ![s] = res.store]
      /\ dataState' = [dataState EXCEPT ![s] =
           IF dataState[s] # "INVALID" /\ SameLog(st, m.posi, m.entry.index)
           THEN DataStateOf(st) ELSE "INVALID"]
      /\ net' = IF reply THEN With(Taken(a, s, n), s, a, HeartRe(res.store))
                ELSE Taken(a, s, n)
      /\ UNCHANGED <<elect, client, acks, users, env>>

\* getLog reads the vector at the follower's position without a check: past
\* its end the outcome is undefined.
HandleHeartRe(a, s, n) ==
  LET m      == net[a][s][n]
      st     == store[s]
      behind == pstate[s] = "LEADER" /\ m.posi # st.posi
  IN  /\ Receives(a, s, n, "HEARTRE")
      /\ \/ /\ ~behind
            /\ net' = Taken(a, s, n)
            /\ UNCHANGED status
         \/ /\ behind /\ HasLog(st, m.posi)
            /\ net' = With(Taken(a, s, n), s, a, Recover(m.posi, LogAt(st, m.posi)))
            /\ UNCHANGED status
         \/ /\ behind /\ ~HasLog(st, m.posi)
            /\ net' = Taken(a, s, n)
            /\ status' = [status EXCEPT ![s] = "wild"]
      /\ UNCHANGED <<elect, data, acks, users, losses, crashes, timeouts>>

-----------------------------------------------------------------------------
(***************************************************************************)
(* The two phases.  A client sends its command to the node on port 8001.   *)
(***************************************************************************)
Submit(c) ==
  /\ pending[c] = Nil
  /\ issued < MaxCmd
  /\ \E cmd \in Workload :
       /\ pending' = [pending EXCEPT ![c] = cmd]
       /\ net' = With(net, c, Boot, Ask(c, cmd))
  /\ issued' = issued + 1
  /\ UNCHANGED <<elect, held, data, acks, replies, env>>

\* The LEADER writes the entry, whether or not the log has room for it, and
\* starts the first phase.  Another node passes the command on to LEA.
HandleClient(a, s, n) ==
  LET m  == net[a][s][n]
      st == WriteLog(store[s], round[s], m.cmd)
  IN  /\ Receives(a, s, n, "CLIENT")
      /\ \/ /\ pstate[s] # "LEADER"
            /\ net' = IF lea[s] = Nil THEN Taken(a, s, n)
                      ELSE With(Taken(a, s, n), s, lea[s], m)
            /\ UNCHANGED data
         \/ /\ pstate[s] = "LEADER"
            /\ client' = [client EXCEPT ![s] = m.client]
            /\ store' = [store EXCEPT ![s] = st]
            /\ dataState' = [dataState EXCEPT ![s] = "LOG_PRE"]
            /\ net' = WithAll(Taken(a, s, n), s, Pre(st, m.cmd))
      /\ UNCHANGED <<elect, acks, users, env>>

HandlePre(a, s, n) ==
  LET m  == net[a][s][n]
      ok == CanWrite(store[s])
  IN  /\ Receives(a, s, n, "PRE")
      /\ store' = [store EXCEPT ![s] = WriteLog(store[s], m.index, m.cmd)]
      /\ dataState' = [dataState EXCEPT ![s] = IF ok THEN "LOG_PRE" ELSE dataState[s]]
      /\ net' = With(Taken(a, s, n), s, a, Ack("PRERE", ok))
      /\ UNCHANGED <<elect, client, acks, users, env>>

\* The entry on top is committed, whichever it is.
HandleCom(a, s, n) ==
  LET res == CommitLog(store[s])
  IN  /\ Receives(a, s, n, "COM")
      /\ store' = [store EXCEPT ![s] = res.store]
      /\ dataState' = [dataState EXCEPT ![s] = IF res.ok THEN "LOG_ABORT" ELSE dataState[s]]
      /\ net' = With(Taken(a, s, n), s, a, Ack("COMRE", res.ok))
      /\ UNCHANGED <<elect, client, acks, users, env>>

\* What rolling back does to the process: an exception nothing catches, a
\* read outside a vector (at once, or by the next getNewLogIndex), or nothing.
Fate(st) ==
  CASE RollbackThrows(st) -> "terminated"
    [] ~RollbackThrows(st) /\ (RollbackUndefined(st) \/ RollbackLog(st).store.posi < 0) -> "wild"
    [] OTHER -> "up"

\* A node that goes on has the log rolled back; of one that does not,
\* nothing is read any more.
RollBack(s) ==
  LET fate == Fate(store[s])
  IN  /\ status' = [status EXCEPT ![s] = fate]
      /\ store' = [store EXCEPT ![s] =
                     IF fate = "up" THEN RollbackLog(store[s]).store ELSE store[s]]

HandleRoll(a, s, n) ==
  LET ok    == RollbackLog(store[s]).ok
      alive == Fate(store[s]) = "up"
  IN  /\ Receives(a, s, n, "ROLL")
      /\ RollBack(s)
      /\ dataState' = [dataState EXCEPT ![s] = IF ok /\ alive THEN "LOG_ABORT" ELSE dataState[s]]
      /\ net' = IF alive THEN With(Taken(a, s, n), s, a, Ack("ROLLRE", ok)) ELSE Taken(a, s, n)
      /\ UNCHANGED <<elect, client, acks, users, losses, crashes, timeouts>>

HandleRollRe(a, s, n) ==
  /\ Receives(a, s, n, "ROLLRE")
  /\ net' = Taken(a, s, n)
  /\ dataState' = [dataState EXCEPT ![s] =
                     IF pstate[s] = "LEADER" THEN "LOG_ABORT" ELSE dataState[s]]
  /\ UNCHANGED <<elect, store, client, acks, users, env>>

PrepareAcks(k, ok, err) == [pOk |-> ok, pErr |-> err, cOk |-> k.cOk, cErr |-> k.cErr]
CommitAcks(k, ok, err)  == [pOk |-> k.pOk, pErr |-> k.pErr, cOk |-> ok, cErr |-> err]

\* The counters are not tied to an entry, nor cleared when the node becomes
\* LEADER.  When a quorum refuses, the log is rolled back and the client is
\* left without an answer.
HandlePreRe(a, s, n) ==
  LET ok == net[a][s][n].ok
      k  == acks[s]
  IN  /\ Receives(a, s, n, "PRERE")
      /\ \/ /\ pstate[s] # "LEADER"
            /\ net' = Taken(a, s, n)
            /\ UNCHANGED <<acks, dataState, store, status>>
         \/ /\ pstate[s] = "LEADER" /\ ok /\ k.pOk + 1 < Quorum
            /\ acks' = [acks EXCEPT ![s] = PrepareAcks(k, k.pOk + 1, k.pErr)]
            /\ net' = Taken(a, s, n)
            /\ UNCHANGED <<dataState, store, status>>
         \/ /\ pstate[s] = "LEADER" /\ ok /\ k.pOk + 1 >= Quorum
            /\ acks' = [acks EXCEPT ![s] = PrepareAcks(k, 0, 0)]
            /\ dataState' = [dataState EXCEPT ![s] = "LOG_COMMIT"]
            /\ net' = WithAll(Taken(a, s, n), s, Order("COM"))
            /\ UNCHANGED <<store, status>>
         \/ /\ pstate[s] = "LEADER" /\ ~ok /\ k.pErr + 1 < Quorum
            /\ acks' = [acks EXCEPT ![s] = PrepareAcks(k, k.pOk, k.pErr + 1)]
            /\ net' = Taken(a, s, n)
            /\ UNCHANGED <<dataState, store, status>>
         \/ /\ pstate[s] = "LEADER" /\ ~ok /\ k.pErr + 1 >= Quorum
            /\ acks' = [acks EXCEPT ![s] = PrepareAcks(k, 0, 0)]
            /\ net' = WithAll(Taken(a, s, n), s, Order("ROLL"))
            /\ RollBack(s)
            /\ UNCHANGED dataState
      /\ UNCHANGED <<elect, client, users, losses, crashes, timeouts>>

\* commitLog is called until it succeeds, at most nine times.
Again(res)  == IF res.ok THEN res ELSE CommitLog(res.store)
Again3(res) == Again(Again(Again(res)))
CommitRetried(st) == Again(Again(Again3(Again3(CommitLog(st)))))

\* The answer is queued after the rollback: not when the rollback throws.
HandleComRe(a, s, n) ==
  LET ok  == net[a][s][n].ok
      k   == acks[s]
      res == CommitRetried(store[s])
  IN  /\ Receives(a, s, n, "COMRE")
      /\ \/ /\ pstate[s] # "LEADER"
            /\ net' = Taken(a, s, n)
            /\ UNCHANGED <<acks, dataState, store, status, users>>
         \/ /\ pstate[s] = "LEADER" /\ ok /\ k.cOk + 1 < Quorum
            /\ acks' = [acks EXCEPT ![s] = CommitAcks(k, k.cOk + 1, k.cErr)]
            /\ net' = Taken(a, s, n)
            /\ UNCHANGED <<dataState, store, status, users>>
         \/ /\ pstate[s] = "LEADER" /\ ok /\ k.cOk + 1 >= Quorum
            /\ acks' = [acks EXCEPT ![s] = CommitAcks(k, 0, 0)]
            /\ dataState' = [dataState EXCEPT ![s] = "LOG_ABORT"]
            /\ store' = [store EXCEPT ![s] = res.store]
            /\ Answer(client[s], res.ok, IF res.ok THEN res.ans ELSE Empty)
            /\ net' = Taken(a, s, n)
            /\ UNCHANGED status
         \/ /\ pstate[s] = "LEADER" /\ ~ok /\ k.cErr + 1 < Quorum
            /\ acks' = [acks EXCEPT ![s] = CommitAcks(k, k.cOk, k.cErr + 1)]
            /\ net' = Taken(a, s, n)
            /\ UNCHANGED <<dataState, store, status, users>>
         \/ /\ pstate[s] = "LEADER" /\ ~ok /\ k.cErr + 1 >= Quorum
            /\ acks' = [acks EXCEPT ![s] = CommitAcks(k, 0, 0)]
            /\ dataState' = [dataState EXCEPT ![s] = "LOG_ABORT"]
            /\ net' = WithAll(Taken(a, s, n), s, Order("ROLL"))
            /\ RollBack(s)
            /\ \/ Fate(store[s]) # "terminated" /\ Answer(client[s], FALSE, Empty)
               \/ Fate(store[s]) # "up" /\ UNCHANGED users
      /\ UNCHANGED <<elect, client, losses, crashes, timeouts>>

-----------------------------------------------------------------------------
(***************************************************************************)
(* Faults.  A message whose connection fails is not sent again.  A process *)
(* that dies keeps nothing, and starts again as Init and Working say.      *)
(***************************************************************************)
Lose(a, b, n) ==
  /\ n \in 1 .. Len(net[a][b])
  /\ \/ /\ status[b] # "up" \/ (a \in Server /\ status[a] # "up")
        /\ UNCHANGED losses
     \/ /\ a \in Server /\ status[a] = "up" /\ status[b] = "up"
        /\ losses < MaxLoss
        /\ losses' = losses + 1
  /\ ~(b \in Server /\ status[b] = "up" /\ Holding(a, b, n))
  /\ net' = Taken(a, b, n)
  /\ UNCHANGED <<elect, held, data, acks, users, status, crashes, timeouts>>

Crash(s) ==
  /\ status[s] = "up"
  /\ crashes < MaxCrash
  /\ status' = [status EXCEPT ![s] = "down"]
  /\ held' = [held EXCEPT ![s] = Nil]
  /\ crashes' = crashes + 1
  /\ UNCHANGED <<elect, data, acks, net, users, losses, timeouts>>

Restart(s) ==
  /\ status[s] \in {"down", "terminated"}
  /\ status' = [status EXCEPT ![s] = "up"]
  /\ round' = [round EXCEPT ![s] = 0]
  /\ pstate' = [pstate EXCEPT ![s] = IF s = Boot THEN "LEADER" ELSE "FOLLOWER"]
  /\ voteNum' = [voteNum EXCEPT ![s] = 1]
  /\ lea' = [lea EXCEPT ![s] = Nil]
  /\ tokens' = [tokens EXCEPT ![s] = 0]
  /\ timer' = [timer EXCEPT ![s] = "waiting"]
  /\ dataState' = [dataState EXCEPT ![s] = "LOG_COMMIT"]
  /\ store' = [store EXCEPT ![s] = EmptyStore]
  /\ client' = [client EXCEPT ![s] = Nil]
  /\ acks' = [acks EXCEPT ![s] = NoAcks]
  /\ UNCHANGED <<held, net, users, losses, crashes, timeouts>>

-----------------------------------------------------------------------------
\* What the threads of node s do of their own accord
Threads(s) == Timer(s) \/ VoteAll(s) \/ HeartAll(s)

\* performComm takes one message.
PerformComm(a, s, n) ==
  \/ HandleVote(a, s, n)   \/ HandleVoteRe(a, s, n)
  \/ HandleHeart(a, s, n)  \/ HandleRecover(a, s, n) \/ HandleHeartRe(a, s, n)
  \/ HandlePre(a, s, n)    \/ HandlePreRe(a, s, n)
  \/ HandleCom(a, s, n)    \/ HandleComRe(a, s, n)
  \/ HandleRoll(a, s, n)   \/ HandleRollRe(a, s, n)

Next ==
  \/ \E s \in Server : Threads(s) \/ Crash(s) \/ Restart(s)
  \/ \E c \in Client : Submit(c)
  \/ \E a \in Node, s \in Server : \E n \in 1 .. Len(net[a][s]) :
       HandleClient(a, s, n) \/ Lose(a, s, n)
  \/ \E a, s \in Server : \E n \in 1 .. Len(net[a][s]) :
       PerformComm(a, s, n) \/ DropHeart(a, s, n)

Spec == Init /\ [][Next]_vars

-----------------------------------------------------------------------------
(***************************************************************************)
(* What holds of a node and of the votes in every execution.  The          *)
(* properties of the cluster as a whole are in module Replication.         *)
(***************************************************************************)

\* posi, kept beside the vector, never points past its end in a running node:
\* getNewLogIndex, getState, commitLog and rollbackLog index log[posi-1]
\* without a check, and rolling back a committed GET moves posi twice.
Readable == \A s \in Server : status[s] # "wild" => InRange(store[s])

\* A vote that is given stays binding: no timeout that comes between the test
\* and the writes of a later message takes the voter back behind it.
VotesBind ==
  \A a, b \in Server : \A n \in 1 .. Len(net[a][b]) :
    net[a][b][n].type = "VOTERE" => net[a][b][n].round <= round[a]

\* No message takes a node back behind the round in which performComm has
\* found it: what may be undone are timeouts that came in between, no more.
NoStaleRound ==
  [][\A s \in Server : status[s] = "up" => round'[s] >= Known(s)]_vars

\* Whoever becomes LEADER has a majority of the cluster, itself included, in
\* the round of the votes it has counted or a later one.  By then it may be
\* in a later round itself.
ElectedByMajority ==
  [][\A s \in Server :
       status[s] = "up" /\ pstate[s] # "LEADER" /\ pstate'[s] = "LEADER" =>
         Cardinality({b \in Server : round[b] >= Known(s)}) >= Quorum]_vars

=============================================================================
