------------------------ MODULE Participant_proofs --------------------------
(***************************************************************************)
(* Proofs about the cluster, for any number of nodes, clients and commands *)
(* and every value of the bounds: the type invariant, and that no running  *)
(* node's position ever leaves its log.  The two are proved together, for  *)
(* a message is well formed only because the position of its sender was.   *)
(* Then what the proofs about the two phases need of a queue between two   *)
(* nodes when a message is taken out or put behind it, of the network as a *)
(* whole, and of the map that the clients' answers tell.                   *)
(***************************************************************************)
EXTENDS Replication, LogOps_proofs

Nets == [Node -> [Server -> Seq(Message)]]

Inv == TypeOK /\ Readable

-----------------------------------------------------------------------------
\* Messages: the fields of each type, and what the constructors build.
LEMMA MessageFields ==
  ASSUME NEW m \in Message
  PROVE  /\ m.type \in {"VOTE", "VOTERE", "HEART"} => m.round \in Nat
         /\ m.type \in {"HEART", "HEARTRE"} => m.posi \in Nat /\ m.index \in Nat
         /\ m.type = "RECOVER" => m.posi \in Nat /\ m.entry \in Sent
         /\ m.type = "PRE" => m.index \in Nat /\ m.cmd \in Command
         /\ m.type \in {"PRERE", "COMRE", "ROLLRE"} => m.ok \in BOOLEAN
         /\ m.type = "CLIENT" => m.client \in Client /\ m.cmd \in Command
BY DEF Message

\* [VOTE] and [VOTERE] are messages.
LEMMA VoteType ==
  ASSUME NEW r \in Nat
  PROVE  Vote(r) \in Message /\ VoteRe(r) \in Message
BY DEF Vote, VoteRe, Message

\* [HEART] and [HEARTRE] of a well formed store are messages.
LEMMA HeartType ==
  ASSUME NEW r \in Nat, NEW s \in Store, InRange(s)
  PROVE  Heart(r, s) \in Message /\ HeartRe(s) \in Message
<1>1. s.posi \in Nat /\ NewLogIndex(s) \in Nat
  BY NewLogIndexType DEF Store, InRange
<1> QED
  BY <1>1 DEF Heart, HeartRe, Message

\* A [HEART] that carries an entry is a message.
LEMMA RecoverType ==
  ASSUME NEW n \in Nat, NEW e \in Entry
  PROVE  Recover(n, e) \in Message
<1>1. [index |-> e.index, cmd |-> e.cmd, state |-> e.state] \in Sent
  BY DEF Entry, Sent
<1> QED
  BY <1>1 DEF Recover, Message

\* The requests, orders and acknowledgements of the two phases are messages.
LEMMA OrderType ==
  ASSUME NEW s \in Store, InRange(s), NEW cmd \in Command, NEW c \in Client, NEW ok \in BOOLEAN
  PROVE  /\ Pre(s, cmd) \in Message /\ Ask(c, cmd) \in Message
         /\ \A t \in {"COM", "ROLL"} : Order(t) \in Message
         /\ \A t \in {"PRERE", "COMRE", "ROLLRE"} : Ack(t, ok) \in Message
<1>1. NewLogIndex(s) \in Nat
  BY NewLogIndexType
<1> QED
  BY <1>1 DEF Pre, Ask, Order, Ack, Message

-----------------------------------------------------------------------------
\* The network: taking a message out and adding messages.
LEMMA TakenType ==
  ASSUME net \in Nets, NEW a \in Node, NEW b \in Server, NEW n \in 1 .. Len(net[a][b])
  PROVE  net[a][b][n] \in Message /\ Taken(a, b, n) \in Nets
<1> DEFINE q == net[a][b]
<1>1. q \in Seq(Message)
  BY DEF Nets
<1> HIDE DEF q
<1>2. n \in 1 .. Len(q)
  BY DEF q
<1>3. q[n] \in Message
  BY <1>1, <1>2
<1>4. n - 1 \in 0 .. Len(q) /\ n + 1 \in Nat \ {0} /\ 1 \in Nat \ {0} /\ Len(q) \in 0 .. Len(q)
  BY <1>1, <1>2
<1>5. SubSeq(q, 1, n - 1) \in Seq(Message) /\ SubSeq(q, n + 1, Len(q)) \in Seq(Message)
  BY <1>1, <1>4, SliceType
<1>6. RemoveAt(q, n) \in Seq(Message)
  BY <1>5, ConcatProperties DEF RemoveAt
<1>7. Taken(a, b, n) = [net EXCEPT ![a][b] = RemoveAt(q, n)]
  BY DEF Taken, q
<1> QED
  BY <1>3, <1>6, <1>7 DEF q, Nets

\* Sending one message keeps the type of the network.
LEMMA WithType ==
  ASSUME NEW nt \in Nets, NEW a \in Node, NEW b \in Server, NEW m \in Message
  PROVE  With(nt, a, b, m) \in Nets
<1>1. Append(nt[a][b], m) \in Seq(Message)
  BY DEF Nets
<1> QED
  BY <1>1 DEF With, Nets

\* Sending a message to every other node keeps the type of the network.
LEMMA WithAllType ==
  ASSUME NEW nt \in Nets, NEW a \in Node, NEW m \in Message
  PROVE  WithAll(nt, a, m) \in Nets
<1> DEFINE row == [b \in Server |-> IF b = a THEN nt[a][b] ELSE Append(nt[a][b], m)]
<1>1. row \in [Server -> Seq(Message)]
  BY DEF Nets
<1>2. WithAll(nt, a, m) = [nt EXCEPT ![a] = row]
  BY DEF WithAll
<1> HIDE DEF row
<1> QED
  BY <1>1, <1>2 DEF Nets
-----------------------------------------------------------------------------
DataStates == {"LOG_COMMIT", "LOG_PRE", "INVALID", "LOG_ABORT"}

\* Updating one node's entry of a variable.
LEMMA ExceptType ==
  ASSUME NEW S, NEW T, NEW f \in [S -> T], NEW x \in S, NEW e \in T
  PROVE  [f EXCEPT ![x] = e] \in [S -> T]
OBVIOUS

\* What a handler may rely on when it starts.
LEMMA RunningFacts ==
  ASSUME Inv, NEW s \in Server, status[s] = "up"
  PROVE  /\ net \in Nets /\ s \in Node
         /\ round[s] \in Nat /\ voteNum[s] \in Nat /\ tokens[s] \in Nat
         /\ store[s] \in Store /\ InRange(store[s])
         /\ acks[s] \in Counts
BY DEF Inv, TypeOK, Readable, Nets, Node

\* What a handler may assume of the message it takes.
LEMMA ReceivedFacts ==
  ASSUME Inv, NEW a \in Node, NEW s \in Server, NEW n \in 1 .. Len(net[a][s]),
         NEW t, Receives(a, s, n, t)
  PROVE  /\ status[s] = "up"
         /\ net[a][s][n] \in Message /\ net[a][s][n].type = t
         /\ Taken(a, s, n) \in Nets
         /\ held' \in [Server -> Held \cup {Nil}]
<1>1. net \in Nets
  BY DEF Inv, TypeOK, Nets
<1>2. held' \in [Server -> Held \cup {Nil}]
  BY ExceptType DEF Receives, Inv, TypeOK
<1> QED
  BY <1>1, <1>2, TakenType DEF Receives

\* An entry on top is prepared or committed, so dataState is always set.
LEMMA DataStateType ==
  ASSUME NEW st \in Store, InRange(st)
  PROVE  DataStateOf(st) \in {"LOG_COMMIT", "LOG_PRE"}
<1>1. TopState(st) \in {"~", "COMMIT", "PRE"}
  BY TopType DEF TopState, Entry
<1> QED
  BY <1>1 DEF DataStateOf

\* An action that leaves the stores and the status of the nodes alone keeps
\* the positions readable.
LEMMA ReadableKept ==
  ASSUME Inv, UNCHANGED <<store, status>>
  PROVE  Readable'
BY DEF Inv, Readable

-----------------------------------------------------------------------------
\* What performComm holds is well typed, also when Timer has interrupted it.
LEMMA InterruptsType ==
  ASSUME Inv, NEW s \in Server, status[s] = "up", Interrupts(s)
  PROVE  held' \in [Server -> Held \cup {Nil}]
<1>1. held \in [Server -> Held \cup {Nil}]
  BY DEF Inv, TypeOK
<1>2. CASE held' = held
  BY <1>1, <1>2
<1>3. CASE held' # held
  <2>1. PICK a \in Server : \E n \in Receivable(a, s) :
          held' = [held EXCEPT ![s] = [from |-> a, msg |-> net[a][s][n], round |-> round[s]]]
    BY <1>3 DEF Interrupts
  <2>2. PICK n \in Receivable(a, s) :
          held' = [held EXCEPT ![s] = [from |-> a, msg |-> net[a][s][n], round |-> round[s]]]
    BY <2>1
  <2> DEFINE h == [from |-> a, msg |-> net[a][s][n], round |-> round[s]]
  <2>3. net[a][s][n] \in Message
    BY RunningFacts, TakenType DEF Receivable, Node
  <2>4. h \in Held
    BY <2>3, RunningFacts DEF Held
  <2> HIDE DEF h
  <2> QED
    BY <1>1, <2>2, <2>4, ExceptType DEF h
<1> QED
  BY <1>2, <1>3

\* A timeout keeps the invariant.
LEMMA TimeOutInv ==
  ASSUME Inv, NEW s \in Server, TimeOut(s)
  PROVE  Inv'
<1>1. status[s] = "up" /\ held' \in [Server -> Held \cup {Nil}]
  BY InterruptsType DEF TimeOut
<1>2. pstate' \in [Server -> PState]
  BY ExceptType DEF TimeOut, Inv, TypeOK, PState
<1>3. timer' \in [Server -> {"waiting", "due", "standing"}] /\ timeouts' \in Nat
  BY DEF TimeOut, Inv, TypeOK
<1>4. TypeOK'
  BY <1>1, <1>2, <1>3 DEF TimeOut, Inv, TypeOK, data, users
<1> QED
  BY <1>4, ReadableKept DEF TimeOut, Inv, data

\* Raising the round keeps the invariant.
LEMMA NewRoundInv ==
  ASSUME Inv, NEW s \in Server, NewRound(s)
  PROVE  Inv'
<1>1. status[s] = "up" /\ held' \in [Server -> Held \cup {Nil}]
  BY InterruptsType DEF NewRound
<1>2. round' \in [Server -> Nat] /\ voteNum' \in [Server -> Nat] /\ tokens' \in [Server -> Nat]
  BY <1>1, RunningFacts DEF NewRound, Inv, TypeOK
<1>3. timer' \in [Server -> {"waiting", "due", "standing"}]
  BY DEF NewRound, Inv, TypeOK
<1>4. TypeOK'
  BY <1>1, <1>2, <1>3 DEF NewRound, Inv, TypeOK, data, users, env
<1> QED
  BY <1>4, ReadableKept DEF NewRound, Inv, data, env

\* voteAll keeps the invariant.
LEMMA VoteAllInv ==
  ASSUME Inv, NEW s \in Server, VoteAll(s)
  PROVE  Inv'
<1>1. status[s] = "up"
  BY DEF VoteAll
<1>2. Vote(round[s]) \in Message
  BY <1>1, RunningFacts, VoteType
<1>3. net' \in Nets
  BY <1>1, <1>2, RunningFacts, WithAllType DEF VoteAll
<1>4. tokens' \in [Server -> Nat]
  BY <1>1, RunningFacts DEF VoteAll, Inv, TypeOK
<1>5. TypeOK'
  BY <1>3, <1>4 DEF VoteAll, Inv, TypeOK, Nets, data, users, env
<1> QED
  BY <1>5, ReadableKept DEF VoteAll, Inv, data, env

\* The handler of [VOTE] keeps the invariant.
LEMMA HandleVoteInv ==
  ASSUME Inv, NEW a \in Server, NEW s \in Server, NEW n \in 1 .. Len(net[a][s]),
         HandleVote(a, s, n)
  PROVE  Inv'
<1> DEFINE r == net[a][s][n].round
<1>1. a \in Node /\ Receives(a, s, n, "VOTE")
  BY DEF HandleVote, Node
<1>2. status[s] = "up" /\ r \in Nat /\ Taken(a, s, n) \in Nets
  BY <1>1, ReceivedFacts, MessageFields
<1>3. With(Taken(a, s, n), s, a, VoteRe(r)) \in Nets
  BY <1>2, RunningFacts, VoteType, WithType
<1>4. net' \in Nets
  BY <1>2, <1>3 DEF HandleVote
<1>5. round' \in [Server -> Nat] /\ voteNum' \in [Server -> Nat]
  <2>1. round \in [Server -> Nat] /\ voteNum \in [Server -> Nat] /\ 1 \in Nat
    BY DEF Inv, TypeOK
  <2>2. /\ round' \in {round, [round EXCEPT ![s] = r]}
        /\ voteNum' \in {voteNum, [voteNum EXCEPT ![s] = 1]}
    BY DEF HandleVote
  <2> QED
    BY <1>2, <2>1, <2>2, ExceptType
<1>6. pstate' \in [Server -> PState]
  <2>1. pstate \in [Server -> PState] /\ "FOLLOWER" \in PState
    BY DEF Inv, TypeOK, PState
  <2>2. pstate' \in {pstate, [pstate EXCEPT ![s] = "FOLLOWER"]}
    BY DEF HandleVote, StepsDown
  <2> QED
    BY <2>1, <2>2, ExceptType
<1>h. held' \in [Server -> Held \cup {Nil}]
  BY <1>1, ReceivedFacts
<1>7. TypeOK'
  BY <1>h, <1>4, <1>5, <1>6 DEF HandleVote, Inv, TypeOK, Nets, data, users, env
<1> QED
  BY <1>7, ReadableKept DEF HandleVote, Inv, data, env

\* The handler of [VOTERE] keeps the invariant.
LEMMA HandleVoteReInv ==
  ASSUME Inv, NEW a \in Server, NEW s \in Server, NEW n \in 1 .. Len(net[a][s]),
         HandleVoteRe(a, s, n)
  PROVE  Inv'
<1>1. a \in Node /\ Receives(a, s, n, "VOTERE")
  BY DEF HandleVoteRe, Node
<1>2. status[s] = "up" /\ Taken(a, s, n) \in Nets
  BY <1>1, ReceivedFacts
<1>3. WithAll(Taken(a, s, n), s, Heart(round[s], store[s])) \in Nets
  BY <1>2, RunningFacts, HeartType, WithAllType
<1>4. net' \in Nets
  BY <1>2, <1>3 DEF HandleVoteRe
<1>5. pstate' \in [Server -> PState] /\ voteNum' \in [Server -> Nat]
  <2>1. /\ pstate \in [Server -> PState] /\ voteNum \in [Server -> Nat]
        /\ "LEADER" \in PState /\ 1 \in Nat /\ voteNum[s] + 1 \in Nat
    BY DEF Inv, TypeOK, PState
  <2>2. /\ pstate' \in {pstate, [pstate EXCEPT ![s] = "LEADER"]}
        /\ voteNum' \in {voteNum, [voteNum EXCEPT ![s] = 1],
                          [voteNum EXCEPT ![s] = voteNum[s] + 1]}
    BY DEF HandleVoteRe
  <2> QED
    BY <2>1, <2>2, ExceptType
<1>6. timer' \in [Server -> {"waiting", "due", "standing"}]
  <2>1. timer \in [Server -> {"waiting", "due", "standing"}]
    BY DEF Inv, TypeOK
  <2>2. timer' \in {timer, [timer EXCEPT ![s] = "due"]}
    BY DEF HandleVoteRe
  <2> QED
    BY <2>1, <2>2, ExceptType
<1>h. held' \in [Server -> Held \cup {Nil}]
  BY <1>1, ReceivedFacts
<1>7. TypeOK'
  BY <1>h, <1>4, <1>5, <1>6 DEF HandleVoteRe, Inv, TypeOK, Nets, data, users, env
<1> QED
  BY <1>7, ReadableKept DEF HandleVoteRe, Inv, data, env

\* Sending heartbeats keeps the invariant.
LEMMA HeartAllInv ==
  ASSUME Inv, NEW s \in Server, HeartAll(s)
  PROVE  Inv'
<1>1. status[s] = "up"
  BY DEF HeartAll
<1>2. net' \in Nets
  BY <1>1, RunningFacts, HeartType, WithAllType DEF HeartAll
<1>3. TypeOK'
  BY <1>2 DEF HeartAll, Inv, TypeOK, Nets, elect, data, users, env
<1> QED
  BY <1>3, ReadableKept DEF HeartAll, Inv, data, env

\* Dropping a heartbeat keeps the invariant.
LEMMA DropHeartInv ==
  ASSUME Inv, NEW s \in Server, NEW b \in Server, NEW n \in 1 .. Len(net[s][b]),
         DropHeart(s, b, n)
  PROVE  Inv'
<1>1. status[s] = "up"
  BY DEF DropHeart
<1>2. net' \in Nets
  BY <1>1, RunningFacts, TakenType DEF DropHeart
<1>3. TypeOK'
  BY <1>2 DEF DropHeart, Inv, TypeOK, Nets, elect, data, users, env
<1> QED
  BY <1>3, ReadableKept DEF DropHeart, Inv, data, env

\* The handler of [HEART] keeps the invariant.
LEMMA HandleHeartInv ==
  ASSUME Inv, NEW a \in Server, NEW s \in Server, NEW n \in 1 .. Len(net[a][s]),
         HandleHeart(a, s, n)
  PROVE  Inv'
<1> DEFINE m == net[a][s][n]
<1>1. a \in Node /\ Receives(a, s, n, "HEART")
  BY DEF HandleHeart, Node
<1>2. status[s] = "up" /\ m.round \in Nat /\ Taken(a, s, n) \in Nets
  BY <1>1, ReceivedFacts, MessageFields
<1>3. With(Taken(a, s, n), s, a, HeartRe(store[s])) \in Nets
  BY <1>2, RunningFacts, HeartType, WithType
<1>4. net' \in Nets
  BY <1>2, <1>3 DEF HandleHeart
<1>5. round' \in [Server -> Nat] /\ lea' \in [Server -> Server \cup {Nil}]
  <2>1. round \in [Server -> Nat] /\ lea \in [Server -> Server \cup {Nil}]
    BY DEF Inv, TypeOK
  <2>2. /\ round' \in {round, [round EXCEPT ![s] = m.round]}
        /\ lea' \in {lea, [lea EXCEPT ![s] = a]}
    BY DEF HandleHeart
  <2> QED
    BY <1>2, <2>1, <2>2, ExceptType
<1>6. pstate' \in [Server -> PState]
  <2>1. pstate \in [Server -> PState] /\ "FOLLOWER" \in PState
    BY DEF Inv, TypeOK, PState
  <2>2. pstate' \in {pstate, [pstate EXCEPT ![s] = "FOLLOWER"]}
    BY DEF HandleHeart, StepsDown
  <2> QED
    BY <2>1, <2>2, ExceptType
<1>7. dataState' \in [Server -> DataStates]
  <2> DEFINE same    == SameLog(store[s], m.posi, m.index)
             invalid == dataState[s] = "INVALID"
             d       == CASE same /\ ~invalid -> DataStateOf(store[s])
                          [] same /\ invalid  -> "LOG_ABORT"
                          [] ~same            -> "INVALID"
  <2>1. DataStateOf(store[s]) \in {"LOG_COMMIT", "LOG_PRE"}
    BY <1>2, RunningFacts, DataStateType
  <2>2. d \in DataStates
    BY <2>1 DEF DataStates
  <2>3. dataState' \in {dataState, [dataState EXCEPT ![s] = d]}
    BY DEF HandleHeart
  <2>4. dataState \in [Server -> DataStates]
    BY DEF Inv, TypeOK, DataStates
  <2> HIDE DEF d
  <2> QED
    BY <2>2, <2>3, <2>4, ExceptType
<1>h. held' \in [Server -> Held \cup {Nil}]
  BY <1>1, ReceivedFacts
<1>8. TypeOK'
  BY <1>h, <1>4, <1>5, <1>6, <1>7 DEF HandleHeart, DataStates, Inv, TypeOK, Nets, users, env
<1> QED
  BY <1>8, ReadableKept DEF HandleHeart, Inv, env
\* What recovery makes of an entry is a well-formed store.
LEMMA RestoredType ==
  ASSUME NEW st \in Store, InRange(st), NEW posi \in Nat, NEW entry \in Sent
  PROVE  /\ Restored(st, posi, entry).ok \in BOOLEAN
         /\ Restored(st, posi, entry).store \in Store
         /\ InRange(Restored(st, posi, entry).store)
<1> DEFINE written == WriteLog(st, entry.index, entry.cmd)
<1>1. written \in Store /\ InRange(written)
  BY WriteLogType DEF Sent
<1>2. CommitLog(written) \in Result /\ InRange(CommitLog(written).store)
  BY <1>1, CommitLogType
<1> HIDE DEF written
<1>3. Restored(st, posi, entry) \in
        {[ok |-> TRUE, store |-> st], [ok |-> TRUE, store |-> written],
         [ok |-> CommitLog(written).ok, store |-> CommitLog(written).store]}
  <2>1. CASE posi < st.posi \/ ~CanWrite(st)
    <3>1. ~(posi >= st.posi /\ CanWrite(st))
      BY <2>1 DEF Store
    <3> QED
      BY <2>1, <3>1 DEF Restored, written
  <2>2. CASE ~(posi < st.posi \/ ~CanWrite(st))
    BY <2>2 DEF Restored, written
  <2> QED
    BY <2>1, <2>2
<1>4. CommitLog(written).ok \in BOOLEAN /\ CommitLog(written).store \in Store
  BY <1>2 DEF Result
<1>5. PICK b \in BOOLEAN, w \in Store :
        InRange(w) /\ Restored(st, posi, entry) = [ok |-> b, store |-> w]
  BY <1>1, <1>2, <1>3, <1>4
<1>6. Restored(st, posi, entry).ok = b /\ Restored(st, posi, entry).store = w
  BY <1>5
<1> QED
  BY <1>5, <1>6

\* Changing one node's store keeps the positions of the running nodes readable.
LEMMA ReadableStored ==
  ASSUME Inv, NEW s \in Server, NEW st \in Store, InRange(st),
         store' = [store EXCEPT ![s] = st], status' = status
  PROVE  store' \in [Server -> Store] /\ Readable'
BY DEF Inv, TypeOK, Readable

\* The handler of a [HEART] with an entry keeps the invariant.
LEMMA HandleRecoverInv ==
  ASSUME Inv, NEW a \in Server, NEW s \in Server, NEW n \in 1 .. Len(net[a][s]),
         HandleRecover(a, s, n)
  PROVE  Inv'
<1> DEFINE m   == net[a][s][n]
           st  == store[s]
           res == IF dataState[s] = "INVALID" THEN Restored(st, m.posi, m.entry)
                  ELSE [ok |-> TRUE, store |-> st]
<1>1. a \in Node /\ Receives(a, s, n, "RECOVER")
  BY DEF HandleRecover, Node
<1>2. status[s] = "up" /\ m.posi \in Nat /\ m.entry \in Sent /\ Taken(a, s, n) \in Nets
  BY <1>1, ReceivedFacts, MessageFields
<1>3. s \in Node /\ round[s] \in Nat /\ st \in Store /\ InRange(st)
  BY <1>2, RunningFacts
<1>4. res.ok \in BOOLEAN /\ res.store \in Store /\ InRange(res.store)
  BY <1>2, <1>3, RestoredType
<1>5. net' \in {With(Taken(a, s, n), s, a, HeartRe(res.store)), Taken(a, s, n)}
  BY DEF HandleRecover
<1>6. store' = [store EXCEPT ![s] = res.store] /\ status' = status
  BY DEF HandleRecover, env
<1>7. dataState' \in [Server -> DataStates]
  <2> DEFINE d == IF dataState[s] # "INVALID" /\ SameLog(st, m.posi, m.entry.index)
                  THEN DataStateOf(st) ELSE "INVALID"
  <2>1. d \in DataStates
    BY <1>3, DataStateType DEF DataStates
  <2>2. dataState' = [dataState EXCEPT ![s] = d]
    BY DEF HandleRecover
  <2>3. dataState \in [Server -> DataStates]
    BY DEF Inv, TypeOK, DataStates
  <2> HIDE DEF d
  <2> QED
    BY <2>1, <2>2, <2>3, ExceptType
<1> HIDE DEF res
<1>8. net' \in Nets
  BY <1>2, <1>3, <1>4, <1>5, HeartType, WithType
<1>9. store' \in [Server -> Store] /\ Readable'
  BY <1>4, <1>6, ReadableStored
<1>h. held' \in [Server -> Held \cup {Nil}]
  BY <1>1, ReceivedFacts
<1>10. TypeOK'
  BY <1>h, <1>7, <1>8, <1>9 DEF HandleRecover, Inv, TypeOK, Nets, DataStates, elect, users, env
<1> QED
  BY <1>9, <1>10 DEF Inv

\* The handler of [HEARTRE] keeps the invariant, also when it reads past the
\* end of the log.
LEMMA HandleHeartReInv ==
  ASSUME Inv, NEW a \in Server, NEW s \in Server, NEW n \in 1 .. Len(net[a][s]),
         HandleHeartRe(a, s, n)
  PROVE  Inv'
<1> DEFINE m  == net[a][s][n]
           st == store[s]
<1>1. a \in Node /\ Receives(a, s, n, "HEARTRE")
  BY DEF HandleHeartRe, Node
<1>2. status[s] = "up" /\ m.posi \in Nat /\ Taken(a, s, n) \in Nets
  BY <1>1, ReceivedFacts, MessageFields
<1>3. s \in Node /\ st \in Store
  BY <1>2, RunningFacts
<1>4. \A e \in Entry : With(Taken(a, s, n), s, a, Recover(m.posi, e)) \in Nets
  BY <1>2, <1>3, RecoverType, WithType
<1>5. HasLog(st, m.posi) => LogAt(st, m.posi) \in Entry
  BY <1>3, LogAtType
<1> HIDE DEF m, st
<1>6. net' \in Nets
  BY <1>2, <1>4, <1>5 DEF HandleHeartRe, m, st
<1>7. status' \in {status, [status EXCEPT ![s] = "wild"]} /\ store' = store
  BY DEF HandleHeartRe, data
<1>8. status' \in [Server -> {"up", "down", "terminated", "wild"}]
  BY <1>7 DEF Inv, TypeOK
<1>h. held' \in [Server -> Held \cup {Nil}]
  BY <1>1, ReceivedFacts
<1>9. TypeOK'
  BY <1>h, <1>6, <1>8 DEF HandleHeartRe, Inv, TypeOK, Nets, elect, data, users
<1>10. Readable'
  BY <1>7 DEF Inv, TypeOK, Readable
<1> QED
  BY <1>9, <1>10 DEF Inv
\* A client that sends a command keeps the invariant.
LEMMA SubmitInv ==
  ASSUME Inv, NEW c \in Client, Submit(c)
  PROVE  Inv'
<1>1. PICK cmd \in Workload : /\ pending' = [pending EXCEPT ![c] = cmd]
                              /\ net' = With(net, c, Boot, Ask(c, cmd))
  BY DEF Submit
<1>2. cmd \in Command /\ Boot \in Server /\ c \in Node
  BY ClusterConstants DEF Node
<1>3. Ask(c, cmd) \in Message
  BY <1>2 DEF Ask, Message
<1>4. net' \in Nets
  BY <1>1, <1>2, <1>3, WithType DEF Inv, TypeOK, Nets
<1>5. pending' \in [Client -> Command \cup {Nil}] /\ issued' \in Nat
  BY <1>1, <1>2 DEF Submit, Inv, TypeOK
<1>6. TypeOK'
  BY <1>4, <1>5 DEF Submit, Inv, TypeOK, Nets, elect, data, env
<1> QED
  BY <1>6, ReadableKept DEF Submit, Inv, data, env

\* The handler of [CLIENT] keeps the invariant.
LEMMA HandleClientInv ==
  ASSUME Inv, NEW a \in Node, NEW s \in Server, NEW n \in 1 .. Len(net[a][s]),
         HandleClient(a, s, n)
  PROVE  Inv'
<1> DEFINE m  == net[a][s][n]
           st == WriteLog(store[s], round[s], m.cmd)
<1>1. Receives(a, s, n, "CLIENT")
  BY DEF HandleClient
<1>2. /\ status[s] = "up" /\ m \in Message /\ Taken(a, s, n) \in Nets
      /\ m.client \in Client /\ m.cmd \in Command
  BY <1>1, ReceivedFacts, MessageFields
<1>3. s \in Node /\ st \in Store /\ InRange(st)
  BY <1>2, RunningFacts, WriteLogType
<1>4. Pre(st, m.cmd) \in Message
  BY <1>2, <1>3, OrderType, TRUE \in BOOLEAN
<1>5. lea[s] = Nil \/ lea[s] \in Server
  BY DEF Inv, TypeOK
<1> HIDE DEF m, st
<1>6. net' \in Nets
  <2>1. lea[s] # Nil => With(Taken(a, s, n), s, lea[s], m) \in Nets
    BY <1>2, <1>3, <1>5, WithType
  <2>2. WithAll(Taken(a, s, n), s, Pre(st, m.cmd)) \in Nets
    BY <1>2, <1>3, <1>4, WithAllType
  <2> QED
    BY <1>2, <2>1, <2>2 DEF HandleClient, m, st
<1>h. held' \in [Server -> Held \cup {Nil}]
  BY <1>1, ReceivedFacts
<1>7. CASE pstate[s] # "LEADER"
  <2>1. UNCHANGED data
    BY <1>7 DEF HandleClient
  <2>2. TypeOK'
    BY <1>h, <1>6, <2>1 DEF HandleClient, Inv, TypeOK, Nets, elect, data, users, env
  <2> QED
    BY <2>1, <2>2, ReadableKept DEF HandleClient, Inv, data, env
<1>8. CASE pstate[s] = "LEADER"
  <2>1. /\ client' = [client EXCEPT ![s] = m.client]
        /\ store' = [store EXCEPT ![s] = st] /\ status' = status
        /\ dataState' = [dataState EXCEPT ![s] = "LOG_PRE"]
    BY <1>8 DEF HandleClient, env, m, st
  <2>2. store' \in [Server -> Store] /\ Readable'
    BY <1>3, <2>1, ReadableStored
  <2>3. client' \in [Server -> Client \cup {Nil}]
    BY <1>2, <2>1 DEF Inv, TypeOK
  <2>4. dataState' \in [Server -> DataStates]
    BY <2>1 DEF Inv, TypeOK, DataStates
  <2>5. TypeOK'
    BY <1>h, <1>6, <2>2, <2>3, <2>4 DEF HandleClient, Inv, TypeOK, Nets, DataStates, elect, users, env
  <2> QED
    BY <2>2, <2>5 DEF Inv
<1> QED
  BY <1>7, <1>8

\* The handler of [PRE] keeps the invariant.
LEMMA HandlePreInv ==
  ASSUME Inv, NEW a \in Server, NEW s \in Server, NEW n \in 1 .. Len(net[a][s]),
         HandlePre(a, s, n)
  PROVE  Inv'
<1> DEFINE m  == net[a][s][n]
           st == WriteLog(store[s], m.index, m.cmd)
           ok == CanWrite(store[s])
<1>1. a \in Node /\ Receives(a, s, n, "PRE")
  BY DEF HandlePre, Node
<1>2. /\ status[s] = "up" /\ Taken(a, s, n) \in Nets
      /\ m.index \in Nat /\ m.cmd \in Command
  BY <1>1, ReceivedFacts, MessageFields
<1>3. s \in Node /\ st \in Store /\ InRange(st)
  BY <1>2, RunningFacts, WriteLogType
<1>4. ok \in BOOLEAN
  BY DEF CanWrite
<1>5. /\ store' = [store EXCEPT ![s] = st] /\ status' = status
      /\ net' = With(Taken(a, s, n), s, a, Ack("PRERE", ok))
  BY DEF HandlePre, env
<1>6. dataState' \in [Server -> DataStates]
  <2>1. dataState' = [dataState EXCEPT ![s] = IF ok THEN "LOG_PRE" ELSE dataState[s]]
    BY DEF HandlePre
  <2> QED
    BY <2>1 DEF Inv, TypeOK, DataStates
<1> HIDE DEF st, ok
<1>7. Ack("PRERE", ok) \in Message
  BY <1>4 DEF Ack, Message
<1>8. net' \in Nets
  BY <1>2, <1>3, <1>5, <1>7, WithType
<1>9. store' \in [Server -> Store] /\ Readable'
  BY <1>3, <1>5, ReadableStored
<1>h. held' \in [Server -> Held \cup {Nil}]
  BY <1>1, ReceivedFacts
<1>10. TypeOK'
  BY <1>h, <1>6, <1>8, <1>9 DEF HandlePre, Inv, TypeOK, Nets, DataStates, elect, users, env
<1> QED
  BY <1>9, <1>10 DEF Inv

\* The handler of [COM] keeps the invariant.
LEMMA HandleComInv ==
  ASSUME Inv, NEW a \in Server, NEW s \in Server, NEW n \in 1 .. Len(net[a][s]),
         HandleCom(a, s, n)
  PROVE  Inv'
<1> DEFINE res == CommitLog(store[s])
<1>1. a \in Node /\ Receives(a, s, n, "COM")
  BY DEF HandleCom, Node
<1>2. status[s] = "up" /\ Taken(a, s, n) \in Nets
  BY <1>1, ReceivedFacts
<1>3. s \in Node /\ res \in Result /\ InRange(res.store)
  BY <1>2, RunningFacts, CommitLogType
<1>4. res.ok \in BOOLEAN /\ res.store \in Store
  BY <1>3 DEF Result
<1>5. /\ store' = [store EXCEPT ![s] = res.store] /\ status' = status
      /\ dataState' = [dataState EXCEPT ![s] = IF res.ok THEN "LOG_ABORT" ELSE dataState[s]]
      /\ net' = With(Taken(a, s, n), s, a, Ack("COMRE", res.ok))
  BY DEF HandleCom, env
<1> HIDE DEF res
<1>6. dataState' \in [Server -> DataStates]
  BY <1>5 DEF Inv, TypeOK, DataStates
<1>7. Ack("COMRE", res.ok) \in Message
  BY <1>4 DEF Ack, Message
<1>8. net' \in Nets
  BY <1>2, <1>3, <1>5, <1>7, WithType
<1>9. store' \in [Server -> Store] /\ Readable'
  BY <1>3, <1>4, <1>5, ReadableStored
<1>h. held' \in [Server -> Held \cup {Nil}]
  BY <1>1, ReceivedFacts
<1>10. TypeOK'
  BY <1>h, <1>6, <1>8, <1>9 DEF HandleCom, Inv, TypeOK, Nets, DataStates, elect, users, env
<1> QED
  BY <1>9, <1>10 DEF Inv

\* Rolling back: the node goes on with a readable log, or does not go on.
LEMMA RollBackType ==
  ASSUME Inv, NEW s \in Server, status[s] = "up", RollBack(s)
  PROVE  /\ status' \in [Server -> {"up", "down", "terminated", "wild"}]
         /\ store' \in [Server -> Store]
         /\ Readable'
<1> DEFINE st   == store[s]
           fate == Fate(st)
<1>1. st \in Store /\ InRange(st)
  BY RunningFacts
<1>2. fate \in {"up", "terminated", "wild"}
  BY DEF Fate
<1>3. CASE fate = "up"
  <2> DEFINE res == RollbackLog(st)
  <2>1. ~RollbackThrows(st) /\ ~(res.store.posi < 0)
    BY <1>3 DEF Fate
  <2>2. res \in Result /\ (res.store.posi >= 0 => InRange(res.store))
    BY <1>1, <2>1, RollbackLogType
  <2>3. status' = [status EXCEPT ![s] = "up"] /\ store' = [store EXCEPT ![s] = res.store]
    BY <1>3 DEF RollBack
  <2> HIDE DEF res
  <2>4. res.store \in Store /\ InRange(res.store)
    BY <2>1, <2>2 DEF Result, Store
  <2> QED
    BY <2>3, <2>4 DEF Inv, TypeOK, Readable
<1>4. CASE fate # "up"
  <2>1. status' = [status EXCEPT ![s] = fate] /\ store' = [store EXCEPT ![s] = st]
    BY <1>4 DEF RollBack
  <2> HIDE DEF fate
  <2> QED
    BY <1>1, <1>2, <2>1 DEF Inv, TypeOK, Readable
<1> QED
  BY <1>3, <1>4

\* The handler of [ROLL] keeps the invariant.
LEMMA HandleRollInv ==
  ASSUME Inv, NEW a \in Server, NEW s \in Server, NEW n \in 1 .. Len(net[a][s]),
         HandleRoll(a, s, n)
  PROVE  Inv'
<1> DEFINE ok    == RollbackLog(store[s]).ok
           alive == Fate(store[s]) = "up"
<1>1. a \in Node /\ Receives(a, s, n, "ROLL")
  BY DEF HandleRoll, Node
<1>2. status[s] = "up" /\ Taken(a, s, n) \in Nets
  BY <1>1, ReceivedFacts
<1>3. s \in Node /\ store[s] \in Store /\ InRange(store[s])
  BY <1>2, RunningFacts
<1>4. alive => ok \in BOOLEAN
  BY <1>3, RollbackLogType DEF Fate, Result
<1>5. alive => Ack("ROLLRE", ok) \in Message
  BY <1>4 DEF Ack, Message
<1>6. /\ status' \in [Server -> {"up", "down", "terminated", "wild"}]
      /\ store' \in [Server -> Store] /\ Readable'
  BY <1>2, RollBackType DEF HandleRoll
<1>7. dataState' \in [Server -> DataStates]
  <2>1. dataState' = [dataState EXCEPT ![s] = IF ok /\ alive THEN "LOG_ABORT" ELSE dataState[s]]
    BY DEF HandleRoll
  <2> HIDE DEF ok, alive
  <2> QED
    BY <2>1 DEF Inv, TypeOK, DataStates
<1>8. net' = IF alive THEN With(Taken(a, s, n), s, a, Ack("ROLLRE", ok)) ELSE Taken(a, s, n)
  BY DEF HandleRoll
<1> HIDE DEF ok, alive
<1>9. net' \in Nets
  BY <1>2, <1>3, <1>5, <1>8, WithType
<1>h. held' \in [Server -> Held \cup {Nil}]
  BY <1>1, ReceivedFacts
<1>10. TypeOK'
  BY <1>h, <1>6, <1>7, <1>9 DEF HandleRoll, Inv, TypeOK, Nets, DataStates, elect, users
<1> QED
  BY <1>6, <1>10 DEF Inv

\* The handler of [ROLLRE] keeps the invariant.
LEMMA HandleRollReInv ==
  ASSUME Inv, NEW a \in Server, NEW s \in Server, NEW n \in 1 .. Len(net[a][s]),
         HandleRollRe(a, s, n)
  PROVE  Inv'
<1>1. a \in Node /\ Receives(a, s, n, "ROLLRE")
  BY DEF HandleRollRe, Node
<1>2. net' \in Nets
  BY <1>1, ReceivedFacts DEF HandleRollRe
<1>3. dataState' \in [Server -> DataStates]
  BY DEF HandleRollRe, Inv, TypeOK, DataStates
<1>h. held' \in [Server -> Held \cup {Nil}]
  BY <1>1, ReceivedFacts
<1>4. TypeOK'
  BY <1>h, <1>2, <1>3 DEF HandleRollRe, Inv, TypeOK, Nets, DataStates, elect, users, env
<1> QED
  BY <1>4, ReadableKept DEF HandleRollRe, Inv, env
\* Replacing the counters of one phase.
LEMMA AcksType ==
  ASSUME NEW k \in Counts, NEW ok \in Nat, NEW err \in Nat
  PROVE  PrepareAcks(k, ok, err) \in Counts /\ CommitAcks(k, ok, err) \in Counts
BY DEF PrepareAcks, CommitAcks, Counts

\* The handler of [PRERE] keeps the invariant.
LEMMA HandlePreReInv ==
  ASSUME Inv, NEW a \in Server, NEW s \in Server, NEW n \in 1 .. Len(net[a][s]),
         HandlePreRe(a, s, n)
  PROVE  Inv'
<1> DEFINE k == acks[s]
<1>1. a \in Node /\ Receives(a, s, n, "PRERE")
  BY DEF HandlePreRe, Node
<1>2. status[s] = "up" /\ Taken(a, s, n) \in Nets
  BY <1>1, ReceivedFacts
<1>3. s \in Node /\ k \in Counts
  BY <1>2, RunningFacts
<1>4. /\ acks' \in {acks, [acks EXCEPT ![s] = PrepareAcks(k, k.pOk + 1, k.pErr)],
                    [acks EXCEPT ![s] = PrepareAcks(k, k.pOk, k.pErr + 1)],
                    [acks EXCEPT ![s] = PrepareAcks(k, 0, 0)]}
      /\ dataState' \in {dataState, [dataState EXCEPT ![s] = "LOG_COMMIT"]}
      /\ net' \in {Taken(a, s, n), WithAll(Taken(a, s, n), s, Order("COM")),
                   WithAll(Taken(a, s, n), s, Order("ROLL"))}
      /\ UNCHANGED <<store, status>> \/ RollBack(s)
  BY DEF HandlePreRe
<1>5. acks' \in [Server -> Counts]
  <2>1. k.pOk \in Nat /\ k.pErr \in Nat /\ k.pOk + 1 \in Nat /\ k.pErr + 1 \in Nat /\ 0 \in Nat
    BY <1>3 DEF Counts
  <2>2. \A x, y \in Nat : PrepareAcks(k, x, y) \in Counts
    BY <1>3, AcksType
  <2>3. acks \in [Server -> Counts]
    BY DEF Inv, TypeOK
  <2> HIDE DEF k
  <2> QED
    BY <1>4, <2>1, <2>2, <2>3, ExceptType
<1>6. dataState' \in [Server -> DataStates]
  BY <1>4 DEF Inv, TypeOK, DataStates
<1>7. net' \in Nets
  <2>1. Order("COM") \in Message /\ Order("ROLL") \in Message
    BY DEF Order, Message
  <2> QED
    BY <1>2, <1>3, <1>4, <2>1, WithAllType
<1>8. /\ status' \in [Server -> {"up", "down", "terminated", "wild"}]
      /\ store' \in [Server -> Store] /\ Readable'
  <2>1. CASE UNCHANGED <<store, status>>
    BY <2>1, ReadableKept DEF Inv, TypeOK
  <2>2. CASE RollBack(s)
    BY <1>2, <2>2, RollBackType
  <2> QED
    BY <1>4, <2>1, <2>2
<1>h. held' \in [Server -> Held \cup {Nil}]
  BY <1>1, ReceivedFacts
<1>9. TypeOK'
  BY <1>h, <1>5, <1>6, <1>7, <1>8 DEF HandlePreRe, Inv, TypeOK, Nets, DataStates, elect, users
<1> QED
  BY <1>8, <1>9 DEF Inv

\* Retrying a commit, as often as the LEADER does.
LEMMA AgainType ==
  ASSUME NEW res \in Result, InRange(res.store)
  PROVE  Again(res) \in Result /\ InRange(Again(res).store)
<1>1. res.store \in Store
  BY DEF Result
<1> QED
  BY <1>1, CommitLogType DEF Again

\* Calling commitLog up to nine times yields a well formed result.
LEMMA CommitRetriedType ==
  ASSUME NEW st \in Store, InRange(st)
  PROVE  CommitRetried(st) \in Result /\ InRange(CommitRetried(st).store)
<1>1. ASSUME NEW res \in Result, InRange(res.store)
      PROVE  Again3(res) \in Result /\ InRange(Again3(res).store)
  <2>1. Again(res) \in Result /\ InRange(Again(res).store)
    BY <1>1, AgainType
  <2>2. Again(Again(res)) \in Result /\ InRange(Again(Again(res)).store)
    BY <2>1, AgainType
  <2> QED
    BY <2>2, AgainType DEF Again3
<1>2. CommitLog(st) \in Result /\ InRange(CommitLog(st).store)
  BY CommitLogType
<1> DEFINE six == Again3(Again3(CommitLog(st)))
<1>3. Again3(CommitLog(st)) \in Result /\ InRange(Again3(CommitLog(st)).store)
  BY <1>1, <1>2
<1>4. six \in Result /\ InRange(six.store)
  BY <1>1, <1>3
<1>5. CommitRetried(st) = Again(Again(six))
  BY DEF CommitRetried
<1> HIDE DEF six
<1>6. Again(six) \in Result /\ InRange(Again(six).store)
  BY <1>4, AgainType
<1> QED
  BY <1>5, <1>6, AgainType

\* An answer is a reply to the command its client waits for.
LEMMA AnswerType ==
  ASSUME Inv, NEW c \in Client \cup {Nil}, NEW ok \in BOOLEAN,
         NEW val \in Value \cup {Empty}, Answer(c, ok, val)
  PROVE  /\ pending' \in [Client -> Command \cup {Nil}]
         /\ replies' \in Seq(Reply) /\ issued' = issued
<1>1. /\ pending \in [Client -> Command \cup {Nil}] /\ replies \in Seq(Reply)
  BY DEF Inv, TypeOK
<1>2. CASE c # Nil /\ pending[c] # Nil
  <2> DEFINE r == [client |-> c, cmd |-> pending[c], ok |-> ok, val |-> val]
  <2>1. r \in Reply
    BY <1>1, <1>2 DEF Reply
  <2>2. /\ replies' = Append(replies, r) /\ issued' = issued
        /\ pending' = [pending EXCEPT ![c] = Nil]
    BY <1>2 DEF Answer
  <2> HIDE DEF r
  <2> QED
    BY <1>1, <1>2, <2>1, <2>2
<1>3. CASE ~(c # Nil /\ pending[c] # Nil)
  BY <1>1, <1>3 DEF Answer, users
<1> QED
  BY <1>2, <1>3

\* The handler of [COMRE] keeps the invariant.
LEMMA HandleComReInv ==
  ASSUME Inv, NEW a \in Server, NEW s \in Server, NEW n \in 1 .. Len(net[a][s]),
         HandleComRe(a, s, n)
  PROVE  Inv'
<1> DEFINE k   == acks[s]
           res == CommitRetried(store[s])
           ans == IF res.ok THEN res.ans ELSE Empty
<1>1. a \in Node /\ Receives(a, s, n, "COMRE")
  BY DEF HandleComRe, Node
<1>2. status[s] = "up" /\ Taken(a, s, n) \in Nets
  BY <1>1, ReceivedFacts
<1>3. s \in Node /\ k \in Counts /\ res \in Result /\ InRange(res.store)
  BY <1>2, RunningFacts, CommitRetriedType
<1>4. res.ok \in BOOLEAN /\ res.store \in Store /\ ans \in Value \cup {Empty}
  BY <1>3 DEF Result
<1>5. /\ acks' \in {acks, [acks EXCEPT ![s] = CommitAcks(k, k.cOk + 1, k.cErr)],
                    [acks EXCEPT ![s] = CommitAcks(k, k.cOk, k.cErr + 1)],
                    [acks EXCEPT ![s] = CommitAcks(k, 0, 0)]}
      /\ dataState' \in {dataState, [dataState EXCEPT ![s] = "LOG_ABORT"]}
      /\ net' \in {Taken(a, s, n), WithAll(Taken(a, s, n), s, Order("ROLL"))}
      /\ \/ UNCHANGED <<store, status>>
         \/ store' = [store EXCEPT ![s] = res.store] /\ status' = status
         \/ RollBack(s)
      /\ \/ UNCHANGED users
         \/ Answer(client[s], res.ok, ans)
         \/ Answer(client[s], FALSE, Empty)
  BY DEF HandleComRe
<1> HIDE DEF res, ans
<1>6. acks' \in [Server -> Counts]
  <2>1. k.cOk \in Nat /\ k.cErr \in Nat /\ k.cOk + 1 \in Nat /\ k.cErr + 1 \in Nat /\ 0 \in Nat
    BY <1>3 DEF Counts
  <2>2. \A x, y \in Nat : CommitAcks(k, x, y) \in Counts
    BY <1>3, AcksType
  <2>3. acks \in [Server -> Counts]
    BY DEF Inv, TypeOK
  <2> HIDE DEF k
  <2> QED
    BY <1>5, <2>1, <2>2, <2>3, ExceptType
<1>7. dataState' \in [Server -> DataStates]
  BY <1>5 DEF Inv, TypeOK, DataStates
<1>8. net' \in Nets
  <2>1. Order("ROLL") \in Message
    BY DEF Order, Message
  <2> QED
    BY <1>2, <1>3, <1>5, <2>1, WithAllType
<1>9. /\ status' \in [Server -> {"up", "down", "terminated", "wild"}]
      /\ store' \in [Server -> Store] /\ Readable'
  <2>1. CASE UNCHANGED <<store, status>>
    BY <2>1, ReadableKept DEF Inv, TypeOK
  <2>2. CASE store' = [store EXCEPT ![s] = res.store] /\ status' = status
    BY <1>3, <1>4, <2>2, ReadableStored DEF Inv, TypeOK
  <2>3. CASE RollBack(s)
    BY <1>2, <2>3, RollBackType
  <2> QED
    BY <1>5, <2>1, <2>2, <2>3
<1>10. /\ pending' \in [Client -> Command \cup {Nil}] /\ replies' \in Seq(Reply) /\ issued' \in Nat
  <2>1. /\ client[s] \in Client \cup {Nil} /\ FALSE \in BOOLEAN /\ Empty \in Value \cup {Empty}
        /\ issued \in Nat
    BY DEF Inv, TypeOK
  <2>2. CASE UNCHANGED users
    BY <2>2 DEF Inv, TypeOK, users
  <2>3. CASE Answer(client[s], res.ok, ans)
    BY <1>4, <2>1, <2>3, AnswerType
  <2>4. CASE Answer(client[s], FALSE, Empty)
    BY <2>1, <2>4, AnswerType
  <2> QED
    BY <1>5, <2>2, <2>3, <2>4
<1>h. held' \in [Server -> Held \cup {Nil}]
  BY <1>1, ReceivedFacts
<1>11. TypeOK'
  BY <1>h, <1>6, <1>7, <1>8, <1>9, <1>10 DEF HandleComRe, Inv, TypeOK, Nets, DataStates, elect
<1> QED
  BY <1>9, <1>11 DEF Inv

\* Losing a message keeps the invariant.
LEMMA LoseInv ==
  ASSUME Inv, NEW a \in Node, NEW b \in Server, NEW n \in 1 .. Len(net[a][b]), Lose(a, b, n)
  PROVE  Inv'
<1>1. net' \in Nets
  BY TakenType DEF Lose, Inv, TypeOK, Nets
<1>2. losses' \in Nat
  BY DEF Lose, Inv, TypeOK
<1>3. TypeOK'
  BY <1>1, <1>2 DEF Lose, Inv, TypeOK, Nets, elect, data, users
<1> QED
  BY <1>3, ReadableKept DEF Lose, Inv, data

\* A crash keeps the invariant.
LEMMA CrashInv ==
  ASSUME Inv, NEW s \in Server, Crash(s)
  PROVE  Inv'
<1>1. TypeOK'
  BY DEF Crash, Inv, TypeOK, elect, data, users
<1>2. Readable'
  BY DEF Crash, Inv, TypeOK, Readable, data
<1> QED
  BY <1>1, <1>2 DEF Inv

\* A restart keeps the invariant.
LEMMA RestartInv ==
  ASSUME Inv, NEW s \in Server, Restart(s)
  PROVE  Inv'
<1>1. /\ status' \in [Server -> {"up", "down", "terminated", "wild"}]
      /\ store' \in [Server -> Store] /\ Readable'
  BY EmptyStoreType DEF Restart, Inv, TypeOK, Readable
<1>2. NoAcks \in Counts
  BY DEF NoAcks, Counts
<1>3. /\ round' \in [Server -> Nat] /\ voteNum' \in [Server -> Nat] /\ tokens' \in [Server -> Nat]
      /\ acks' \in [Server -> Counts]
  BY <1>2 DEF Restart, Inv, TypeOK
<1>4. /\ pstate' \in [Server -> PState] /\ lea' \in [Server -> Server \cup {Nil}]
      /\ dataState' \in [Server -> DataStates] /\ client' \in [Server -> Client \cup {Nil}]
  BY DEF Restart, Inv, TypeOK, DataStates, PState
<1>5. TypeOK'
  BY <1>1, <1>3, <1>4 DEF Restart, Inv, TypeOK, DataStates, users
<1> QED
  BY <1>1, <1>5 DEF Inv
-----------------------------------------------------------------------------
\* The invariant holds at the start.
LEMMA InitInv == Init => Inv
<1> SUFFICES ASSUME Init PROVE Inv
  OBVIOUS
<1>1. NoAcks \in Counts /\ EmptyStore \in Store /\ InRange(EmptyStore)
  BY EmptyStoreType DEF NoAcks, Counts
<1>2. /\ net \in [Node -> [Server -> Seq(Message)]] /\ replies \in Seq(Reply)
  BY DEF Init
<1>3. TypeOK
  BY <1>1, <1>2 DEF Init, TypeOK, PState
<1>4. Readable
  BY <1>1 DEF Init, Readable
<1> QED
  BY <1>3, <1>4 DEF Inv

\* Every step keeps the invariant.
LEMMA NextInv ==
  ASSUME Inv, [Next]_vars
  PROVE  Inv'
<1>1. CASE \E s \in Server : Threads(s) \/ Crash(s) \/ Restart(s)
  BY <1>1, TimeOutInv, NewRoundInv, VoteAllInv, HeartAllInv, CrashInv, RestartInv DEF Threads, Timer
<1>2. CASE \E c \in Client : Submit(c)
  BY <1>2, SubmitInv
<1>3. CASE \E a \in Node, s \in Server : \E n \in 1 .. Len(net[a][s]) :
             HandleClient(a, s, n) \/ Lose(a, s, n)
  BY <1>3, HandleClientInv, LoseInv
<1>4. CASE \E a, s \in Server : \E n \in 1 .. Len(net[a][s]) :
             PerformComm(a, s, n) \/ DropHeart(a, s, n)
  <2> PICK a, s \in Server : \E n \in 1 .. Len(net[a][s]) :
             PerformComm(a, s, n) \/ DropHeart(a, s, n)
    BY <1>4
  <2> PICK n \in 1 .. Len(net[a][s]) : PerformComm(a, s, n) \/ DropHeart(a, s, n)
    OBVIOUS
  <2>1. CASE HandleVote(a, s, n) \/ HandleVoteRe(a, s, n)
    BY <2>1, HandleVoteInv, HandleVoteReInv
  <2>2. CASE HandleHeart(a, s, n) \/ HandleRecover(a, s, n) \/ HandleHeartRe(a, s, n)
    BY <2>2, HandleHeartInv, HandleRecoverInv, HandleHeartReInv
  <2>3. CASE HandlePre(a, s, n) \/ HandlePreRe(a, s, n)
    BY <2>3, HandlePreInv, HandlePreReInv
  <2>4. CASE HandleCom(a, s, n) \/ HandleComRe(a, s, n)
    BY <2>4, HandleComInv, HandleComReInv
  <2>5. CASE HandleRoll(a, s, n) \/ HandleRollRe(a, s, n)
    BY <2>5, HandleRollInv, HandleRollReInv
  <2>6. CASE DropHeart(a, s, n)
    BY <2>6, DropHeartInv
  <2> QED
    BY <2>1, <2>2, <2>3, <2>4, <2>5, <2>6 DEF PerformComm
<1>5. CASE UNCHANGED vars
  BY <1>5 DEF vars, elect, data, users, env, Inv, TypeOK, Readable
<1> QED
  BY <1>1, <1>2, <1>3, <1>4, <1>5 DEF Next

\* The invariant holds in every execution.
LEMMA Invariance == Spec => []Inv
BY InitInv, NextInv, PTL DEF Spec

\* In every cluster and under every schedule, loss and crash, the variables
\* of the nodes, the messages and the answers have the types of the code.
THEOREM TypeCorrect == Spec => []TypeOK
<1>1. Inv => TypeOK
  BY DEF Inv
<1> QED
  BY <1>1, Invariance, PTL

\* In every cluster and under every schedule, loss and crash, the position
\* of a node that has not already read outside a vector is within its log:
\* the unchecked reads log[posi-1] of layer2/logger.cpp are defined, except
\* after a committed GET has been rolled back at position 1.
THEOREM AlwaysReadable == Spec => []Readable
<1>1. Inv => Readable
  BY DEF Inv
<1> QED
  BY <1>1, Invariance, PTL

-----------------------------------------------------------------------------
(***************************************************************************)
(* The queues between two nodes: the orders of the two phases, the answers *)
(* the LEADER counts, and the entries it sends to a recovering follower.   *)
(***************************************************************************)

Counted == {"PRERE", "COMRE"}

\* The messages of the given types in a queue.
OfKind(q, types) == {q[n] : n \in {i \in 1 .. Len(q) : q[i].type \in types}}

\* The queue holds at most one message of each of these types.
Once(q, types) ==
  \A m, n \in 1 .. Len(q) : q[m].type \in types /\ q[m].type = q[n].type => m = n

-----------------------------------------------------------------------------
\* The queue without its n-th message.
LEMMA Removed ==
  ASSUME NEW q \in Seq(Message), NEW n \in 1 .. Len(q)
  PROVE  /\ RemoveAt(q, n) \in Seq(Message) /\ Len(RemoveAt(q, n)) = Len(q) - 1
         /\ \A i \in 1 .. Len(q) - 1 : RemoveAt(q, n)[i] = IF i < n THEN q[i] ELSE q[i + 1]
<1> DEFINE u == SubSeq(q, 1, n - 1)
           v == SubSeq(q, n + 1, Len(q))
<1>1. /\ u \in Seq(Message) /\ Len(u) = n - 1 /\ \A i \in 1 .. n - 1 : u[i] = q[i]
      /\ v \in Seq(Message) /\ Len(v) = Len(q) - n /\ \A i \in 1 .. Len(q) - n : v[i] = q[n + i]
  OBVIOUS
<1>2. RemoveAt(q, n) = u \o v
  BY DEF RemoveAt
<1>3. Len(q) \in Nat /\ n \in 1 .. Len(q)
  OBVIOUS
<1> HIDE DEF u, v
<1>4. /\ u \o v \in Seq(Message) /\ Len(u \o v) = Len(u) + Len(v)
      /\ \A i \in 1 .. Len(u) + Len(v) : (u \o v)[i] = IF i <= Len(u) THEN u[i] ELSE v[i - Len(u)]
  BY <1>1, ConcatProperties
<1>5. Len(u \o v) = Len(q) - 1
  BY <1>1, <1>3, <1>4
<1>6. ASSUME NEW i \in 1 .. Len(q) - 1
      PROVE  (u \o v)[i] = IF i < n THEN q[i] ELSE q[i + 1]
  <2>1. i \in 1 .. Len(u) + Len(v) /\ (i <= Len(u) <=> i < n)
    BY <1>1, <1>3
  <2>2. CASE i < n
    BY <1>1, <1>3, <1>4, <2>1, <2>2
  <2>3. CASE ~(i < n)
    <3>1. (u \o v)[i] = v[i - (n - 1)]
      BY <1>1, <1>4, <2>1, <2>3
    <3>2. i - (n - 1) \in 1 .. Len(q) - n /\ n + (i - (n - 1)) = i + 1
      BY <1>3, <2>3
    <3> QED
      BY <1>1, <2>3, <3>1, <3>2
  <2> QED
    BY <2>2, <2>3
<1> QED
  BY <1>2, <1>4, <1>5, <1>6

\* Every message but the n-th is still there, and no other has come.
LEMMA RemovedKinds ==
  ASSUME NEW q \in Seq(Message), NEW n \in 1 .. Len(q), NEW types
  PROVE  /\ OfKind(RemoveAt(q, n), types) \subseteq OfKind(q, types)
         /\ q[n].type \notin types => OfKind(RemoveAt(q, n), types) = OfKind(q, types)
         /\ Once(q, types) /\ q[n].type \in types =>
              OfKind(RemoveAt(q, n), types) = OfKind(q, types) \ {q[n]}
         /\ Once(q, types) => Once(RemoveAt(q, n), types)
<1> DEFINE u == RemoveAt(q, n)
<1>1. Len(u) = Len(q) - 1 /\ Len(q) \in Nat /\ n \in 1 .. Len(q)
      /\ \A i \in 1 .. Len(q) - 1 : u[i] = IF i < n THEN q[i] ELSE q[i + 1]
  <2>1. Len(q) \in Nat /\ n \in 1 .. Len(q)
    OBVIOUS
  <2> QED
    BY <2>1, Removed
<1> HIDE DEF u
<1>2. ASSUME NEW i \in 1 .. Len(u)
      PROVE  \E j \in 1 .. Len(q) : j # n /\ u[i] = q[j] /\ j = IF i < n THEN i ELSE i + 1
  <2>1. i \in 1 .. Len(q) - 1 /\ i \in 1 .. Len(q) /\ i + 1 \in 1 .. Len(q) /\ i + 1 # i
    BY <1>1
  <2>2. CASE i < n
    BY <1>1, <2>1, <2>2
  <2>3. CASE ~(i < n)
    <3>1. i + 1 # n
      BY <1>1, <2>1, <2>3
    <3> QED
      BY <1>1, <2>1, <2>3, <3>1
  <2> QED
    BY <2>2, <2>3
<1>3. ASSUME NEW j \in 1 .. Len(q), j # n
      PROVE  \E i \in 1 .. Len(u) : u[i] = q[j]
  <2>1. CASE j < n
    <3>1. j \in 1 .. Len(q) - 1
      BY <1>1, <2>1
    <3> QED
      BY <1>1, <2>1, <3>1
  <2>2. CASE ~(j < n)
    <3>1. j - 1 \in 1 .. Len(q) - 1 /\ ~(j - 1 < n) /\ (j - 1) + 1 = j
      BY <1>1, <1>3, <2>2
    <3> QED
      BY <1>1, <3>1
  <2> QED
    BY <2>1, <2>2
<1>4. OfKind(u, types) \subseteq OfKind(q, types)
  BY <1>2 DEF OfKind
<1>5. ASSUME q[n].type \notin types
      PROVE  OfKind(q, types) \subseteq OfKind(u, types)
  BY <1>3, <1>5 DEF OfKind
<1>6. ASSUME Once(q, types), q[n].type \in types
      PROVE  OfKind(u, types) = OfKind(q, types) \ {q[n]}
  <2>1. q[n] \notin OfKind(u, types)
    BY <1>2, <1>6 DEF OfKind, Once
  <2>2. OfKind(q, types) \ {q[n]} \subseteq OfKind(u, types)
    BY <1>3 DEF OfKind
  <2> QED
    BY <1>4, <2>1, <2>2
<1>7. ASSUME Once(q, types)
      PROVE  Once(u, types)
  <2> SUFFICES ASSUME NEW i \in 1 .. Len(u), NEW k \in 1 .. Len(u), u[i].type \in types,
                      u[i].type = u[k].type
               PROVE  i = k
    BY DEF Once
  <2>1. PICK j \in 1 .. Len(q) : u[i] = q[j] /\ j = IF i < n THEN i ELSE i + 1
    BY <1>2
  <2>2. PICK l \in 1 .. Len(q) : u[k] = q[l] /\ l = IF k < n THEN k ELSE k + 1
    BY <1>2
  <2>3. j = l
    BY <1>7, <2>1, <2>2 DEF Once
  <2> QED
    BY <1>1, <2>1, <2>2, <2>3
<1> QED
  BY <1>4, <1>5, <1>6, <1>7 DEF u

\* A message is put behind the others.
LEMMA AppendedKinds ==
  ASSUME NEW q \in Seq(Message), NEW m \in Message, NEW types
  PROVE  /\ OfKind(Append(q, m), types) =
              OfKind(q, types) \cup (IF m.type \in types THEN {m} ELSE {})
         /\ Once(q, types) /\ (\A x \in OfKind(q, types) : x.type # m.type) => Once(Append(q, m), types)
<1> DEFINE u == Append(q, m)
<1>1. Len(u) = Len(q) + 1 /\ Len(q) \in Nat /\ u[Len(q) + 1] = m /\ \A i \in 1 .. Len(q) : u[i] = q[i]
  OBVIOUS
<1> HIDE DEF u
<1>2. \A i \in 1 .. Len(u) : i \in 1 .. Len(q) \/ i = Len(q) + 1
  BY <1>1
<1>3. \A i \in 1 .. Len(q) : i \in 1 .. Len(u)
  BY <1>1
<1>4. Len(q) + 1 \in 1 .. Len(u)
  BY <1>1
<1>5. OfKind(u, types) \subseteq OfKind(q, types) \cup (IF m.type \in types THEN {m} ELSE {})
  BY <1>1, <1>2 DEF OfKind
<1>6. OfKind(q, types) \subseteq OfKind(u, types)
  BY <1>1, <1>3 DEF OfKind
<1>7. m.type \in types => m \in OfKind(u, types)
  BY <1>1, <1>4 DEF OfKind
<1>8. ASSUME Once(q, types), \A x \in OfKind(q, types) : x.type # m.type
      PROVE  Once(u, types)
  <2>1. \A i \in 1 .. Len(q) : q[i].type \in types => q[i].type # m.type
    BY <1>8 DEF OfKind
  <2> QED
    BY <1>1, <1>2, <1>8, <2>1 DEF Once
<1> QED
  BY <1>5, <1>6, <1>7, <1>8 DEF u

-----------------------------------------------------------------------------
\* The network message by message: one is taken out.
LEMMA TakenNet ==
  ASSUME net \in Nets, NEW a \in Node, NEW b \in Server, NEW n
  PROVE  \A x \in Node, y \in Server :
           Taken(a, b, n)[x][y] = IF x = a /\ y = b THEN RemoveAt(net[a][b], n) ELSE net[x][y]
<1> DEFINE q == RemoveAt(net[a][b], n)
<1>1. Taken(a, b, n) = [net EXCEPT ![a][b] = q]
  BY DEF Taken
<1> HIDE DEF q
<1> QED
  BY <1>1 DEF Nets, q

\* One is sent to a node.
LEMMA WithNet ==
  ASSUME NEW nt \in Nets, NEW a \in Node, NEW b \in Server, NEW m
  PROVE  \A x \in Node, y \in Server :
           With(nt, a, b, m)[x][y] = IF x = a /\ y = b THEN Append(nt[a][b], m) ELSE nt[x][y]
<1> DEFINE q == Append(nt[a][b], m)
<1>1. With(nt, a, b, m) = [nt EXCEPT ![a][b] = q]
  BY DEF With
<1> HIDE DEF q
<1> QED
  BY <1>1 DEF Nets, q

\* One is sent to every other node.
LEMMA WithAllNet ==
  ASSUME NEW nt \in Nets, NEW a \in Node, NEW m
  PROVE  \A x \in Node, y \in Server :
           WithAll(nt, a, m)[x][y] = IF x = a /\ y # a THEN Append(nt[a][y], m) ELSE nt[x][y]
<1> DEFINE row == [y \in Server |-> IF y = a THEN nt[a][y] ELSE Append(nt[a][y], m)]
<1>1. WithAll(nt, a, m) = [nt EXCEPT ![a] = row]
  BY DEF WithAll
<1>2. \A y \in Server : row[y] = IF y # a THEN Append(nt[a][y], m) ELSE nt[a][y]
  OBVIOUS
<1> HIDE DEF row
<1> QED
  BY <1>1, <1>2 DEF Nets

-----------------------------------------------------------------------------
(***************************************************************************)
(* The map the clients have been told of.                                  *)
(***************************************************************************)

\* The answers build a map for every prefix of them, each from the one before
\* it.
LEMMA AfterPrefixes ==
  ASSUME NEW q \in Seq(Reply)
  PROVE  \E f \in [0 .. Len(q) -> Map] :
           /\ f[0] = EmptyStore.db
           /\ \A m \in 1 .. Len(q) : f[m] = AfterReply(f[m - 1], q[m])
           /\ AfterAll(q) = f[Len(q)]
<1> DEFINE n    == Len(q)
           step == [p \in Nat \X Map |-> IF p[1] \in 1 .. n THEN AfterReply(p[2], q[p[1]]) ELSE p[2]]
           Is(iter) == iter = [s \in SUBSET (1 .. n) |-> IF s = {} THEN EmptyStore.db
                                 ELSE AfterReply(iter[s \ {Max(s)}], q[Max(s)])]
           chosen == CHOOSE iter : Is(iter)
<1>1. n \in Nat /\ DOMAIN q = 1 .. n /\ n = Len(q)
  OBVIOUS
<1>a. \A i \in 1 .. n : q[i] \in Reply
  OBVIOUS
<1>2. AfterAll(q) = chosen[1 .. n]
  BY <1>1 DEF AfterAll, FoldLeft, MapThenFoldSet
<1>3. EmptyStore.db \in Map
  BY DEF EmptyStore, Map
<1>4. ASSUME NEW db \in Map, NEW e \in Reply
      PROVE  AfterReply(db, e) \in Map
  BY DEF AfterReply, Effect, Erase, Map, Reply, Command
<1>5. step \in [Nat \X Map -> Map]
  <2> SUFFICES ASSUME NEW i \in Nat, NEW db \in Map, i \in 1 .. n
               PROVE  AfterReply(db, q[i]) \in Map
    OBVIOUS
  <2> QED
    BY <1>4
<1> HIDE DEF n
<1>6. PICK it \in [SUBSET (1 .. n) -> Map] : FoldsTo(n, EmptyStore.db, step, it)
  <2> HIDE DEF step
  <2> QED
    BY <1>1, <1>3, <1>5, FoldExists
<1>7. Is(it)
  <2>1. ASSUME NEW s \in SUBSET (1 .. n), s # {}
        PROVE  it[s] = AfterReply(it[s \ {Max(s)}], q[Max(s)])
    <3>1. Max(s) \in s
      BY <1>1, <2>1, MaxPosition, Zenon
    <3>a. Max(s) \in 1 .. n
      BY <3>1
    <3>b. Max(s) \in Nat
      BY <1>1, <3>a
    <3>2. it[s \ {Max(s)}] \in Map
      BY <1>6
    <3>3. step[<<Max(s), it[s \ {Max(s)}]>>] = AfterReply(it[s \ {Max(s)}], q[Max(s)])
      BY <3>a, <3>b, <3>2
    <3> HIDE DEF step
    <3> QED
      BY <1>6, <2>1, <3>3 DEF FoldsTo
  <2> HIDE DEF step
  <2> QED
    BY <1>6, <2>1 DEF FoldsTo
<1>8. Is(chosen)
  <2> HIDE DEF Is
  <2> QED
    BY <1>7
<1> HIDE DEF chosen
<1> DEFINE f == [m \in 0 .. n |-> chosen[1 .. m]]
<1>9. f[0] = EmptyStore.db
  <2>1. 1 .. 0 = {}
    OBVIOUS
  <2> QED
    BY <1>1, <1>8, <2>1
<1>10. ASSUME NEW m \in 1 .. n
       PROVE  f[m] = AfterReply(f[m - 1], q[m])
  <2>a. m \in Nat /\ m >= 1 /\ m <= n
    BY <1>1
  <2>b. 1 .. m \in SUBSET (1 .. n)
    BY <1>1, <2>a
  <2>c. (1 .. m) \ {m} = 1 .. m - 1 /\ m \in 1 .. m
    BY <2>a
  <2>1. 1 .. m \in SUBSET (1 .. n) /\ 1 .. m # {} /\ (1 .. m) \ {m} = 1 .. m - 1
    BY <2>b, <2>c
  <2>2. Max(1 .. m) = m
    <3>1. m \in Nat /\ m \in 1 .. m /\ 1 .. m \in SUBSET (1 .. m)
      BY <1>1
    <3>2. Max(1 .. m) \in 1 .. m /\ m <= Max(1 .. m)
      BY <2>1, <3>1, MaxPosition, Zenon
    <3> QED
      BY <3>1, <3>2
  <2>3. chosen[1 .. m] = AfterReply(chosen[(1 .. m) \ {m}], q[m])
    <3> QED
      BY <1>8, <2>1, <2>2
  <2>4. f[m] = chosen[1 .. m] /\ f[m - 1] = chosen[1 .. m - 1]
    BY <1>1
  <2> QED
    BY <2>1, <2>3, <2>4
<1>11. \A m \in 0 .. n : f[m] \in Map
  <2> DEFINE Bad == {m \in 0 .. n : f[m] \notin Map}
  <2> SUFFICES ASSUME Bad # {} PROVE FALSE
    OBVIOUS
  <2>1. PICK m \in Bad : \A k \in Bad : m <= k
    <3>1. Bad \in SUBSET Nat
      OBVIOUS
    <3> HIDE DEF Bad
    <3> QED
      BY <3>1, LeastPosition
  <2>2. m \in 0 .. n /\ f[m] \notin Map
    BY <2>1
  <2>3. m # 0
    BY <1>3, <1>9, <2>2
  <2>4. m \in 1 .. n /\ m - 1 \in 0 .. n /\ ~(m <= m - 1)
    BY <1>1, <2>2, <2>3
  <2>5. m - 1 \notin Bad
    <3> HIDE DEF Bad
    <3> QED
      BY <2>1, <2>4
  <2>6. f[m - 1] \in Map
    BY <2>4, <2>5
  <2>7. q[m] \in Reply
    BY <1>a, <2>4
  <2> HIDE DEF f, Bad
  <2> QED
    BY <1>4, <1>10, <2>2, <2>4, <2>6, <2>7
<1>12. f \in [0 .. n -> Map] /\ AfterAll(q) = f[n]
  BY <1>1, <1>2, <1>11
<1> HIDE DEF f
<1> QED
  BY <1>1, <1>9, <1>10, <1>12

\* One more answer: what it tells, on the map of the answers before it.
LEMMA AfterAppend ==
  ASSUME NEW q \in Seq(Reply), NEW e \in Reply
  PROVE  AfterAll(Append(q, e)) = AfterReply(AfterAll(q), e)
<1> DEFINE n == Len(q)
           p == Append(q, e)
<1>1. n \in Nat /\ p \in Seq(Reply) /\ Len(p) = n + 1 /\ p[n + 1] = e /\ \A m \in 1 .. n : p[m] = q[m]
  OBVIOUS
<1>2. PICK f \in [0 .. n -> Map] : /\ f[0] = EmptyStore.db
                                   /\ \A m \in 1 .. n : f[m] = AfterReply(f[m - 1], q[m])
                                   /\ AfterAll(q) = f[n]
  BY AfterPrefixes
<1>3. PICK g \in [0 .. n + 1 -> Map] : /\ g[0] = EmptyStore.db
                                       /\ \A m \in 1 .. n + 1 : g[m] = AfterReply(g[m - 1], p[m])
                                       /\ AfterAll(p) = g[n + 1]
  <2> HIDE DEF p, n
  <2> QED
    BY <1>1, AfterPrefixes
<1> HIDE DEF n, p
<1> DEFINE Bad == {m \in 0 .. n : f[m] # g[m]}
<1>4. Bad = {}
  <2> SUFFICES ASSUME Bad # {} PROVE FALSE
    OBVIOUS
  <2>1. Bad \in SUBSET Nat
    BY <1>1
  <2>2. PICK m \in Bad : \A k \in Bad : m <= k
    <3> HIDE DEF Bad
    <3> QED
      BY <2>1, LeastPosition
  <2>3. m \in 0 .. n /\ f[m] # g[m]
    BY <2>2
  <2>4. m # 0
    BY <1>2, <1>3, <2>3
  <2>5. m \in 1 .. n /\ m \in 1 .. n + 1 /\ m - 1 \in 0 .. n /\ ~(m <= m - 1)
    BY <1>1, <2>3, <2>4
  <2>6. m - 1 \notin Bad
    <3> HIDE DEF Bad
    <3> QED
      BY <2>2, <2>5
  <2>7. f[m - 1] = g[m - 1]
    BY <2>5, <2>6
  <2> HIDE DEF Bad
  <2> QED
    BY <1>1, <1>2, <1>3, <2>3, <2>5, <2>7
<1>5. f[n] = g[n]
  <2>1. n \in 0 .. n
    BY <1>1
  <2> QED
    BY <1>4, <2>1
<1>6. n + 1 \in 1 .. n + 1 /\ (n + 1) - 1 = n
  BY <1>1
<1>7. g[n + 1] = AfterReply(g[n], e)
  BY <1>1, <1>3, <1>6
<1> QED
  BY <1>2, <1>3, <1>5, <1>7 DEF p

\* Before the first answer the map is empty.
LEMMA AfterNone == AfterAll(<<>>) = EmptyStore.db
<1>1. <<>> \in Seq(Reply) /\ Len(<<>>) = 0
  OBVIOUS
<1> QED
  BY <1>1, AfterPrefixes
=============================================================================
