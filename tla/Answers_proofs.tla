--------------------------- MODULE Answers_proofs ---------------------------
(***************************************************************************)
(* Two consequences of FaultInv.  With clients that only set, no rollback  *)
(* is ever ordered, so that nothing has to be assumed of the order in      *)
(* which messages are received.  And the answers are those of KVStore, a   *)
(* map that executes one command at a time.                                *)
(***************************************************************************)
EXTENDS Faults_proofs

\* The clients only set.
OnlySets == \A cmd \in Workload : cmd.op = "SET"

\* No rollback is under way, as long as the cluster lives.
SetInv == FaultInv /\ (Over \/ Undefined \/ Dead \/ Lacks(net, "ROLL"))

\* A quorum of nodes refuses nothing but a GET, in the second phase.
LEMMA OnlyGetsRefused ==
  ASSUME FaultSetting, Inv, Alive, NEW a \in Server, NEW s \in Server, NEW n \in 1 .. Len(net[a][s]),
         Withdraws(a, s, n)
  PROVE  Led /\ UnderWay /\ Cmd.op = "GET"
<1> DEFINE re == IF HandlePreRe(a, s, n) /\ acks[s].pErr + 1 >= Quorum THEN "PRERE" ELSE "COMRE"
           go == IF HandlePreRe(a, s, n) /\ acks[s].pErr + 1 >= Quorum THEN "PRE" ELSE "COM"
           nt == Taken(a, s, n)
<1>1. /\ Phase(go, re) /\ Receives(a, s, n, re) /\ ~net[a][s][n].ok
      /\ re = "PRERE" => acks[s].pErr + 1 >= Quorum /\ go = "PRE"
      /\ re # "PRERE" => acks[s].cErr + 1 >= Quorum /\ go = "COM" /\ re = "COMRE"
  BY DEF Withdraws, HandlePreRe, HandleComRe, Phase
<1> HIDE DEF re, go, nt
<1>2. /\ a \in Others /\ s = Boot /\ Led /\ net[a][s][n] \in Mail(net, a, Boot)
      /\ \A C : Polling(net, Boot, C, go, re) => a \notin C /\ Polling(nt, Boot, C \cup {a}, go, re)
      /\ \A T \in SUBSET Server : Lives(T) =>
           \E Y, N \in SUBSET Server : IF re = "PRERE" THEN Collecting(T, Y, N) ELSE Closing(T, Y, N)
  <2>1. Phase(go, re) /\ Receives(a, s, n, re)
    BY <1>1
  <2>2. a \in Others /\ s = Boot /\ Led /\ net[a][s][n] \in Mail(net, a, Boot)
    BY <2>1, AnswerTaken
  <2>3. \A C : Polling(net, Boot, C, go, re) => a \notin C /\ Polling(nt, Boot, C \cup {a}, go, re)
    BY <2>1, AnswerTaken DEF nt
  <2>4. \A T \in SUBSET Server : Lives(T) =>
          \E Y, N \in SUBSET Server : IF re = "PRERE" THEN Collecting(T, Y, N) ELSE Closing(T, Y, N)
    BY <2>1, AnswerTaken
  <2> QED
    BY <2>2, <2>3, <2>4
<1>3. PICK T \in SUBSET Server, Y \in SUBSET Server, N \in SUBSET Server :
        Steady(T) /\ IF re = "PRERE" THEN Collecting(T, Y, N) ELSE Closing(T, Y, N)
  BY <1>2 DEF Alive
<1>4. CASE re = "PRERE"
  <2>1. /\ Polling(net, Boot, Y \cup N, go, re) /\ acks[Boot].pErr = Cardinality(N)
    BY <1>1, <1>3, <1>4 DEF Collecting
  <2>2. N \cap T = {} /\ a \in Server \ T /\ a \notin N
    <3>1. Boot \notin N /\ a \notin N
      BY <1>2, <2>1 DEF Polling
    <3>2. N \cap T = {}
      BY <1>3, <1>4, <3>1 DEF Collecting
    <3>3. a \notin T
      BY <1>1, <1>2, <1>3, <1>4 DEF Collecting, CollectAt, Others
    <3> QED
      BY <3>1, <3>2, <3>3
  <2>3. Cardinality(N) + 1 < Quorum
    BY <1>3, <2>2, FewRefuse
  <2>4. Cardinality(N) + 1 >= Quorum
    BY <1>1, <1>2, <1>4, <2>1
  <2>5. Quorum \in Int
    BY DEF FaultSetting, Quorum, Nodes
  <2>6. Cardinality(N) \in Nat
    BY <2>2, CountMore
  <2> QED
    BY <2>3, <2>4, <2>5, <2>6
<1>5. CASE re # "PRERE"
  <2>1. /\ Closing(T, Y, N) /\ Polling(net, Boot, Y \cup N, go, re) /\ acks[Boot].cErr = Cardinality(N)
    <3>1. Closing(T, Y, N) /\ go = "COM" /\ re = "COMRE"
      BY <1>1, <1>3, <1>5
    <3>2. Polling(net, Boot, Y \cup N, "COM", "COMRE") /\ acks[Boot].cErr = Cardinality(N)
      BY <3>1 DEF Closing
    <3> QED
      BY <3>1, <3>2
  <2>2. a \in Server \ N /\ Polling(nt, Boot, (Y \cup N) \cup {a}, "COM", "COMRE")
    BY <1>1, <1>2, <1>5, <2>1
  <2>3. Cardinality(N) + 1 >= Quorum /\ \E m \in Mail(net, a, Boot) : ~m.ok
    BY <1>1, <1>2, <1>5, <2>1
  <2>4. Cmd.op = "GET"
    BY <1>3, <2>1, <2>2, <2>3, AllRefused
  <2> QED
    BY <1>2, <2>1, <2>4 DEF Closing
<1> QED
  BY <1>4, <1>5

\* So with clients that only set no rollback comes into the network.
LEMMA NoneWithdrawn ==
  ASSUME FaultSetting, OnlySets, Inv, Alive, Lacks(net, "ROLL"), Next
  PROVE  Lacks(net', "ROLL")
<1>1. net \in Nets /\ Server \subseteq Node /\ Client \subseteq Node /\ Boot \in Server
  BY Basics, ClusterConstants DEF Typed, Node
<1>2. "ROLL" \in {"CLIENT", "ROLL"}
  OBVIOUS
<1>3. ASSUME NEW s \in Server, Threads(s) \/ Crash(s) \/ Restart(s)
      PROVE  Lacks(net', "ROLL")
  <2>1. \/ net' = net
        \/ \E r, st : net' = WithAll(net, s, Vote(r)) \/ net' = WithAll(net, s, Heart(r, st))
    BY <1>3 DEF Threads, Timer, TimeOut, NewRound, VoteAll, HeartAll, Crash, Restart
  <2>2. s \in Node
    BY <1>1
  <2> QED
    BY <1>1, <1>2, <2>1, <2>2, LacksSent, NodesSend
<1>4. ASSUME NEW c \in Client, Submit(c)
      PROVE  Lacks(net', "ROLL")
  <2>1. \E cmd : net' = With(net, c, Boot, Ask(c, cmd))
    BY <1>4 DEF Submit
  <2>2. c \in Node /\ \A cmd : Ask(c, cmd).type # "ROLL"
    BY <1>1 DEF Ask
  <2> QED
    BY <1>1, <2>1, <2>2, LacksSent
<1>5. ASSUME NEW a \in Node, NEW s \in Server, NEW n \in 1 .. Len(net[a][s])
      PROVE  Taken(a, s, n) \in Nets /\ Lacks(Taken(a, s, n), "ROLL")
  BY <1>1, LacksTaken
<1>6. ASSUME NEW a \in Node, NEW s \in Server, NEW n \in 1 .. Len(net[a][s]), HandleClient(a, s, n)
      PROVE  Lacks(net', "ROLL")
  <2> DEFINE nt == Taken(a, s, n)
             m  == net[a][s][n]
  <2>1. \/ net' = nt
        \/ net' = With(nt, s, lea[s], m) /\ lea[s] # Nil
        \/ \E st, cmd : net' = WithAll(nt, s, Pre(st, cmd))
    BY <1>6 DEF HandleClient
  <2>2. m.type # "ROLL"
    BY <1>6 DEF HandleClient, Receives
  <2>3. nt \in Nets /\ Lacks(nt, "ROLL") /\ s \in Node /\ (lea[s] # Nil => lea[s] \in Server)
    BY <1>1, <1>5 DEF Inv, TypeOK
  <2> HIDE DEF nt, m
  <2> QED
    BY <1>2, <2>1, <2>2, <2>3, LacksSent, NodesSend
<1>7. ASSUME NEW a \in Node, NEW s \in Server, NEW n \in 1 .. Len(net[a][s]), Lose(a, s, n) \/ DropHeart(a, s, n)
      PROVE  Lacks(net', "ROLL")
  BY <1>5, <1>7 DEF Lose, DropHeart
<1>8. ASSUME NEW a \in Server, NEW s \in Server, NEW n \in 1 .. Len(net[a][s]), PerformComm(a, s, n)
      PROVE  Lacks(net', "ROLL")
  <2>1. PICK m : /\ m.type = "ROLL" => Withdraws(a, s, n)
                 /\ net' \in {Taken(a, s, n), With(Taken(a, s, n), s, a, m), WithAll(Taken(a, s, n), s, m)}
    BY <1>8, Replies DEF Replied
  <2>2. ~Withdraws(a, s, n)
    <3> SUFFICES ASSUME Withdraws(a, s, n)
                 PROVE  FALSE
      OBVIOUS
    <3>1. Led /\ UnderWay /\ Cmd.op = "GET"
      BY OnlyGetsRefused
    <3>2. Cmd \in Workload
      BY <3>1 DEF Led, UnderWay, Cmd
    <3> QED
      BY <3>1, <3>2 DEF OnlySets
  <2>3. a \in Node /\ s \in Node
    BY <1>1
  <2>4. Taken(a, s, n) \in Nets /\ Lacks(Taken(a, s, n), "ROLL")
    BY <1>5, <2>3
  <2> QED
    BY <2>1, <2>2, <2>3, <2>4, LacksSent
<1> QED
  BY <1>1, <1>3, <1>4, <1>6, <1>7, <1>8 DEF Next

\* SetInv is inductive, whatever the order of the messages.
LEMMA SetStep ==
  ASSUME FaultSetting, OnlySets, SetInv, [Next]_vars
  PROVE  SetInv'
<1>1. Inv /\ Inv' /\ (Over => Over')
  BY NextInv, CountsGrow DEF SetInv, FaultInv
<1>2. ASSUME Lacks(net, "ROLL")
      PROVE  RollbackFirst
  <2> SUFFICES ASSUME NEW a \in Server, NEW s \in Server, NEW n \in 1 .. Len(net[a][s]), NEW k \in 1 .. n
               PROVE  net[a][s][k].type # "ROLL"
    BY DEF RollbackFirst
  <2>1. a \in Node /\ Len(net[a][s]) \in Nat
    <3>1. a \in Node
      BY DEF Node
    <3>2. net[a][s] \in Seq(Message)
      BY <1>1, <3>1, Basics DEF Typed, Nets
    <3> QED
      BY <3>1, <3>2
  <2>2. k \in 1 .. Len(net[a][s])
    BY <2>1
  <2> QED
    BY <1>2, <2>1, <2>2 DEF Lacks
<1>3. CASE UNCHANGED vars
  <2>1. [RollbackFirst]_vars
    BY <1>3
  <2>2. FaultInv'
    BY <2>1, FaultStep DEF SetInv
  <2>3. net' = net /\ status' = status /\ client' = client /\ pending' = pending /\ crashes' = crashes
    BY <1>3 DEF vars, data, users, env
  <2> QED
    BY <1>1, <2>2, <2>3 DEF SetInv, Undefined, Dead
<1>4. CASE Next
  <2>1. Undefined => Undefined'
    BY <1>1, <1>4, WildStays
  <2>2. Dead => Dead'
    BY <1>1, <1>4, DeadStep
  <2>3. ASSUME Over \/ Undefined \/ Dead
        PROVE  SetInv'
    <3>1. Inv' /\ Unhurried'
      BY <1>1, CountsGrow DEF SetInv, FaultInv
    <3> QED
      BY <1>1, <2>1, <2>2, <2>3, <3>1 DEF SetInv, FaultInv
  <2>4. ASSUME ~Over, ~Undefined, ~Dead
        PROVE  SetInv'
    <3>1. Alive /\ Lacks(net, "ROLL")
      BY <2>4 DEF SetInv, FaultInv
    <3>2. FaultInv'
      BY <1>2, <3>1, FaultStep DEF SetInv
    <3>3. Lacks(net', "ROLL")
      BY <1>1, <1>4, <3>1, NoneWithdrawn
    <3> QED
      BY <3>2, <3>3 DEF SetInv
  <2> QED
    BY <2>3, <2>4
<1> QED
  BY <1>3, <1>4

\* It holds at the start, when nothing is under way.
LEMMA InitSet ==
  ASSUME FaultSetting, Init
  PROVE  SetInv
<1>1. \A a \in Node, b \in Server : Len(net[a][b]) = 0
  BY DEF Init
<1> QED
  BY <1>1, InitFault DEF SetInv, Lacks

\* SetInv holds of every execution.
LEMMA SetInvariance ==
  ASSUME FaultSetting, OnlySets
  PROVE  Spec => []SetInv
<1>1. Init => SetInv
  BY InitSet
<1>2. SetInv /\ [Next]_vars => SetInv'
  BY SetStep
<1> QED
  BY <1>1, <1>2, PTL DEF Spec

\* With one client that only sets, whatever order messages are received in and
\* whichever are lost, three and four nodes keep what has been acknowledged: a
\* majority of them until somebody times out or a second process dies, all of
\* them until the first dies.
THEOREM SetsSurvive ==
  ASSUME FaultSetting, OnlySets
  PROVE  Spec => []/\ timeouts = 0 /\ crashes <= 1 => AckedOnMajority
                   /\ timeouts = 0 /\ crashes = 0 => AckedEverywhere
<1>1. SetInv => /\ timeouts = 0 /\ crashes <= 1 => AckedOnMajority
                /\ timeouts = 0 /\ crashes = 0 => AckedEverywhere
  BY MajorityHolds, AllHold DEF SetInv
<1> QED
  BY <1>1, SetInvariance, PTL

-----------------------------------------------------------------------------
(***************************************************************************)
(* The map of KVStore is the boot node's.                                  *)
(***************************************************************************)

\* What a step of the cluster is to the map: one of its own, or nothing.
LEMMA Unseen ==
  ASSUME store'[Boot].db = store[Boot].db, UNCHANGED users
  PROVE  [KV!Next]_(KV!vars)
BY DEF KV!vars, users

\* The client under way is told that its command has succeeded, or failed.
LEMMA ToldClient ==
  ASSUME UnderWay, Cmd \in Command, Cmd.op \in {"SET", "GET"}, NEW ok, NEW val,
         Answer(client[Boot], ok, val),
         IF ok
         THEN /\ Cmd.op = "SET" =>
                   val = Empty /\ store'[Boot].db = [store[Boot].db EXCEPT ![Cmd.keys[1]] = Cmd.val]
              /\ Cmd.op = "GET" =>
                   /\ val = store[Boot].db[Cmd.keys[1]] /\ store[Boot].db[Cmd.keys[1]] # Absent
                   /\ store'[Boot].db = store[Boot].db
         ELSE val = Empty /\ store'[Boot].db = store[Boot].db,
         ok \in BOOLEAN
  PROVE  KV!Next
<1> DEFINE c == client[Boot]
<1>1. c \in Client /\ pending[c] = Cmd /\ Cmd # Nil /\ c # Nil
  BY ClusterConstants DEF UnderWay, Cmd
<1>2. KV!Answered(c, ok, val)
  BY <1>1 DEF Answer, KV!Answered
<1> HIDE DEF c
<1>3. CASE ~ok
  <2>1. KV!Refuse(c)
    BY <1>2, <1>3 DEF KV!Refuse
  <2> QED
    BY <1>1, <2>1 DEF KV!Next
<1>4. CASE ok /\ Cmd.op = "SET"
  <2>1. KV!Set(c)
    BY <1>1, <1>2, <1>4 DEF KV!Set
  <2> QED
    BY <1>1, <2>1 DEF KV!Next
<1>5. CASE ok /\ Cmd.op = "GET"
  <2>1. KV!Get(c)
    BY <1>1, <1>2, <1>5 DEF KV!Get
  <2> QED
    BY <1>1, <2>1 DEF KV!Next
<1> QED
  BY <1>3, <1>4, <1>5

\* The handler of a [COMRE] answers the client with what the map says.
LEMMA MapAnswers ==
  ASSUME FaultSetting, Inv, Alive, NEW a \in Server, NEW s \in Server, NEW n \in 1 .. Len(net[a][s]),
         HandleComRe(a, s, n)
  PROVE  [KV!Next]_(KV!vars)
<1> DEFINE ok  == net[a][s][n].ok
           st  == store[Boot]
           res == CommitRetried(st)
<1>1. Receives(a, s, n, "COMRE") /\ Phase("COM", "COMRE") /\ "COMRE" # "PRERE"
  BY DEF HandleComRe, Phase
<1>2. s = Boot /\ pstate[Boot] = "LEADER" /\ Led /\ ok \in BOOLEAN
  BY <1>1, AnswerTaken
<1>3. \A T \in SUBSET Server : Lives(T) => \E Y, N \in SUBSET Server : Closing(T, Y, N)
  <2> DEFINE re == "COMRE"
             go == "COM"
  <2>1. Phase(go, re) /\ Receives(a, s, n, re) /\ re # "PRERE"
    BY <1>1
  <2> HIDE DEF re, go
  <2> QED
    BY <2>1, AnswerTaken
<1>4. UnderWay /\ Uncommitted(st) /\ Top(st).cmd = Cmd /\ st.posi = Len(st.log)
  BY <1>2, <1>3 DEF Alive, Closing, UnderWay, OnTop, Led
<1>5. /\ st \in Store /\ Boot \in Server /\ store \in [Server -> Store]
      /\ Cmd \in Command /\ Cmd.op \in {"SET", "GET"}
  BY <1>2, <1>4, CmdOp, ClusterConstants DEF Inv, TypeOK
<1>6. Fate(st) = "up" /\ RollbackLog(st).store.db = st.db
  BY <1>4, <1>5, PopFacts
<1> HIDE DEF st
<1>7. /\ CommitLog(st) \in Result /\ (~CommitLog(st).ok => CommitLog(st).store = st)
      /\ CommitLog(st).ok =>
           /\ Cmd.op = "SET" =>
                CommitLog(st).ans = Empty /\ CommitLog(st).store.db = [st.db EXCEPT ![Cmd.keys[1]] = Cmd.val]
           /\ Cmd.op = "GET" =>
                /\ CommitLog(st).ans = st.db[Cmd.keys[1]] /\ st.db[Cmd.keys[1]] # Absent
                /\ CommitLog(st).store.db = st.db
  <2>1. st.posi > 0 /\ TopState(st) = "PRE"
    BY <1>4 DEF Uncommitted
  <2> QED
    BY <1>4, <1>5, <2>1, CommitTop
<1>8. res = CommitLog(st) /\ res.ok \in BOOLEAN
  BY <1>7, CommittedAtOnce DEF Result
<1>9. \/ store' = store /\ UNCHANGED users
      \/ /\ store' = [store EXCEPT ![Boot] = res.store]
         /\ Answer(client[Boot], res.ok, IF res.ok THEN res.ans ELSE Empty)
      \/ RollBack(Boot) /\ Answer(client[Boot], FALSE, Empty)
  <2> HIDE DEF res
  <2> QED
    BY <1>2, <1>6 DEF HandleComRe, res, st
<1> HIDE DEF res
<1>10. CASE store' = store /\ UNCHANGED users
  BY <1>10, Unseen
<1>11. CASE /\ store' = [store EXCEPT ![Boot] = res.store]
            /\ Answer(client[Boot], res.ok, IF res.ok THEN res.ans ELSE Empty)
  <2>1. store'[Boot] = res.store
    BY <1>5, <1>11
  <2>2. KV!Next
    BY <1>4, <1>5, <1>7, <1>8, <1>11, <2>1, ToldClient DEF st
  <2> QED
    BY <2>2
<1>12. CASE RollBack(Boot) /\ Answer(client[Boot], FALSE, Empty)
  <2>1. store'[Boot].db = store[Boot].db
    BY <1>5, <1>6, <1>12 DEF RollBack, st
  <2>2. KV!Next
    BY <1>4, <1>5, <1>12, <2>1, ToldClient
  <2> QED
    BY <2>2
<1> QED
  BY <1>9, <1>10, <1>11, <1>12

\* The handler of a [PRERE] leaves the map alone, even when it rolls back.
LEMMA MapPrepares ==
  ASSUME FaultSetting, Inv, Alive, NEW a \in Server, NEW s \in Server, NEW n \in 1 .. Len(net[a][s]),
         HandlePreRe(a, s, n)
  PROVE  [KV!Next]_(KV!vars)
<1>1. Receives(a, s, n, "PRERE") /\ Phase("PRE", "PRERE")
  BY DEF HandlePreRe, Phase
<1>2. s = Boot /\ Led
  BY <1>1, AnswerTaken
<1>3. \A T \in SUBSET Server : Lives(T) => \E Y, N \in SUBSET Server : Collecting(T, Y, N)
  <2> DEFINE re == "PRERE"
             go == "PRE"
  <2>1. Phase(go, re) /\ Receives(a, s, n, re) /\ re = "PRERE"
    BY <1>1
  <2> HIDE DEF re, go
  <2> QED
    BY <2>1, AnswerTaken
<1>4. Uncommitted(store[Boot]) /\ store[Boot].posi = Len(store[Boot].log)
  BY <1>2, <1>3 DEF Alive, Collecting, UnderWay, OnTop, Led
<1>5. store[Boot] \in Store /\ Boot \in Server /\ store \in [Server -> Store]
  BY ClusterConstants DEF Inv, TypeOK
<1>6. RollbackLog(store[Boot]).store.db = store[Boot].db
  BY <1>4, <1>5, PopFacts
<1>7. store' = store \/ RollBack(Boot)
  BY <1>2 DEF HandlePreRe
<1>8. store'[Boot].db = store[Boot].db
  BY <1>5, <1>6, <1>7 DEF RollBack
<1>9. UNCHANGED users
  BY DEF HandlePreRe
<1> QED
  BY <1>8, <1>9, Unseen

\* What the other messages do, they do to the other nodes or not to the map.
LEMMA MapReceives ==
  ASSUME FaultSetting, Inv, Alive, NEW a \in Server, NEW s \in Server, NEW n \in 1 .. Len(net[a][s]),
         PerformComm(a, s, n)
  PROVE  [KV!Next]_(KV!vars)
<1>1. a \in Node /\ store \in [Server -> Store] /\ Boot \in Server
  BY ClusterConstants DEF Node, Inv, TypeOK
<1>2. CASE \/ HandleVote(a, s, n) \/ HandleVoteRe(a, s, n) \/ HandleHeart(a, s, n)
           \/ HandleHeartRe(a, s, n) \/ HandleRollRe(a, s, n)
  <2>1. store' = store /\ UNCHANGED users
    BY <1>2 DEF HandleVote, HandleVoteRe, HandleHeart, HandleHeartRe, HandleRollRe, data
  <2> QED
    BY <2>1, Unseen
<1>3. ASSUME NEW t \in {"RECOVER", "PRE", "COM", "ROLL"}, Receives(a, s, n, t)
      PROVE  s # Boot
  <2>1. Allowed(a, s, net[a][s][n]) /\ net[a][s][n].type = t
    BY <1>1, <1>3, Delivered
  <2> QED
    BY <2>1 DEF Allowed
<1>4. CASE HandleRecover(a, s, n) \/ HandlePre(a, s, n) \/ HandleCom(a, s, n) \/ HandleRoll(a, s, n)
  <2>1. s # Boot
    BY <1>3, <1>4 DEF HandleRecover, HandlePre, HandleCom, HandleRoll
  <2>2. UNCHANGED users /\ \E st : store' = [store EXCEPT ![s] = st]
    BY <1>4 DEF HandleRecover, HandlePre, HandleCom, HandleRoll, RollBack
  <2>3. store'[Boot] = store[Boot]
    BY <1>1, <2>1, <2>2
  <2> QED
    BY <2>2, <2>3, Unseen
<1>5. CASE HandlePreRe(a, s, n)
  BY <1>5, MapPrepares
<1>6. CASE HandleComRe(a, s, n)
  BY <1>6, MapAnswers
<1> QED
  BY <1>2, <1>4, <1>5, <1>6 DEF PerformComm

\* While the cluster lives and no node has crashed, every step is one of the
\* map's, or none.
LEMMA MapStep ==
  ASSUME FaultSetting, FaultInv, timeouts = 0, crashes = 0, ~Undefined, [Next]_vars
  PROVE  [KV!Next]_(KV!vars)
<1>1. Inv /\ Alive
  BY DEF FaultInv, Over, Dead
<1>2. CASE UNCHANGED vars
  BY <1>2, Unseen DEF vars, data, users
<1>3. ASSUME NEW s \in Server, Threads(s) \/ Crash(s) \/ Restart(s)
      PROVE  [KV!Next]_(KV!vars)
  <2>1. status[s] = "up"
    <3>1. PICK T \in SUBSET Server : Steady(T)
      BY <1>1 DEF Alive
    <3> QED
      BY <3>1 DEF Steady
  <2>2. ~Restart(s)
    BY <2>1 DEF Restart
  <2>3. store' = store /\ UNCHANGED users
    BY <1>3, <2>2 DEF Threads, Timer, TimeOut, NewRound, VoteAll, HeartAll, Crash, data
  <2> QED
    BY <2>3, Unseen
<1>4. ASSUME NEW c \in Client, Submit(c)
      PROVE  [KV!Next]_(KV!vars)
  <2>1. KV!Submit(c)
    BY <1>4 DEF Submit, KV!Submit, data
  <2> QED
    BY <2>1 DEF KV!Next
<1>5. ASSUME NEW a \in Node, NEW s \in Server, NEW n \in 1 .. Len(net[a][s]), HandleClient(a, s, n)
      PROVE  [KV!Next]_(KV!vars)
  <2>1. UNCHANGED users /\ (store' = store \/ \E i, cmd : store' = [store EXCEPT ![s] = WriteLog(store[s], i, cmd)])
    BY <1>5 DEF HandleClient, data
  <2>2. \A st, i, cmd : WriteLog(st, i, cmd).db = st.db
    BY DEF WriteLog
  <2>3. store'[Boot].db = store[Boot].db
    <3>1. store \in [Server -> Store] /\ Boot \in Server
      BY <1>1, ClusterConstants DEF Inv, TypeOK
    <3> HIDE DEF Inv, TypeOK
    <3> QED
      BY <2>1, <2>2, <3>1
  <2> QED
    BY <2>1, <2>3, Unseen
<1>6. ASSUME NEW a \in Node, NEW s \in Server, NEW n \in 1 .. Len(net[a][s]), Lose(a, s, n) \/ DropHeart(a, s, n)
      PROVE  [KV!Next]_(KV!vars)
  <2>1. store' = store /\ UNCHANGED users
    BY <1>6 DEF Lose, DropHeart, data
  <2> QED
    BY <2>1, Unseen
<1>7. Server \subseteq Node
  BY DEF Node
<1> QED
  BY <1>1, <1>2, <1>3, <1>4, <1>5, <1>6, <1>7, MapReceives DEF Next

\* As long as nobody times out, no process dies and none reads outside its log,
\* the cluster implements the map of KVStore, which executes one command at a
\* time: with three or four nodes and one client that sets and reads, messages
\* lost or overtaking each other, but no command overtaking a rollback.
THEOREM ImplementsTheMap ==
  ASSUME FaultSetting
  PROVE  Spec /\ [][RollbackFirst]_vars /\ [](timeouts = 0 /\ crashes = 0 /\ ~Undefined) => KVSpec
<1>1. Init => KV!Init
  BY ClusterConstants DEF Init, KV!Init, EmptyStore
<1>2. FaultInv /\ (timeouts = 0 /\ crashes = 0 /\ ~Undefined) /\ [Next]_vars => [KV!Next]_(KV!vars)
  BY MapStep
<1> QED
  BY <1>1, <1>2, FaultInvariance, PTL DEF Spec, KVSpec, KV!Spec

\* If the client only sets, all of that holds whatever the order.
THEOREM SetsImplementTheMap ==
  ASSUME FaultSetting, OnlySets
  PROVE  Spec /\ [](timeouts = 0 /\ crashes = 0 /\ ~Undefined) => KVSpec
<1>1. Init => KV!Init
  BY ClusterConstants DEF Init, KV!Init, EmptyStore
<1>2. SetInv /\ (timeouts = 0 /\ crashes = 0 /\ ~Undefined) /\ [Next]_vars => [KV!Next]_(KV!vars)
  BY MapStep DEF SetInv
<1> QED
  BY <1>1, <1>2, SetInvariance, PTL DEF Spec, KVSpec, KV!Spec
=============================================================================
