------------------------- MODULE Election_proofs ----------------------------
(***************************************************************************)
(* Proofs about rounds, with Timer writing between the test of a message   *)
(* and what the handler then does: no message takes a running node back    *)
(* behind the round performComm has found it in, and as long as no process *)
(* starts again a node is bound by every vote it has sent.  Restart has to *)
(* be excluded for the latter: the round is kept in memory only, so a node *)
(* that comes back forgets the votes still on their way.  From this        *)
(* follows that whoever is elected has the vote of another node that is    *)
(* still bound by it, and in a cluster of up to three nodes a majority.    *)
(***************************************************************************)
EXTENDS Participant_proofs, FiniteSetTheorems

\* What performComm holds has passed its test, in a round the node has not
\* left since.
HeldOK ==
  \A s \in Server : held[s] # Nil =>
    /\ status[s] = "up"
    /\ held[s].round <= round[s]
    /\ held[s].msg.type = "VOTERE" => held[s].msg.round = held[s].round

\* What every node's handler compares with.
Knowns == [s \in Server |-> Known(s)]

\* In nt no node has sent a vote of a round later than r says.
Bound(nt, r) ==
  \A a, b \in Server : \A n \in 1 .. Len(nt[a][b]) :
    nt[a][b][n].type = "VOTERE" => nt[a][b][n].round <= r[a]

\* Message m may be sent by a node in round r.
Sendable(m, r) == m.type = "VOTERE" => m.round <= r

-----------------------------------------------------------------------------
\* Rounds.  The round a handler compares with is a number, and the node has
\* reached it.
LEMMA KnownFacts ==
  ASSUME Inv, HeldOK, NEW x \in Server
  PROVE  Known(x) \in Nat /\ round[x] \in Nat /\ round[x] >= Known(x)
<1>1. round[x] \in Nat /\ (held[x] = Nil \/ held[x] \in Held)
  BY DEF Inv, TypeOK
<1>2. CASE held[x] = Nil
  BY <1>1, <1>2 DEF Known
<1>3. CASE held[x] # Nil
  <2>1. held[x].round \in Nat
    BY <1>1, <1>3 DEF Held
  <2> QED
    BY <1>1, <1>3, <2>1 DEF HeldOK, Known
<1> QED
  BY <1>2, <1>3

\* What Timer may leave behind: performComm holds what it held, or a message
\* that has passed its test.
LEMMA TimerHeld ==
  ASSUME Inv, NEW s \in Server, Interrupts(s)
  PROVE  \/ held' = held
         \/ /\ held[s] = Nil
            /\ \A x \in Server \ {s} : held'[x] = held[x]
            /\ held'[s].round = round[s]
            /\ held'[s].msg.type = "VOTERE" => held'[s].msg.round = round[s]
<1>1. CASE held' = held
  BY <1>1
<1>2. CASE held' # held
  <2>1. PICK a \in Server : \E n \in Receivable(a, s) :
          /\ Passes(s, net[a][s][n])
          /\ held' = [held EXCEPT ![s] = [from |-> a, msg |-> net[a][s][n], round |-> round[s]]]
    BY <1>2 DEF Interrupts
  <2>2. PICK n \in Receivable(a, s) :
          /\ Passes(s, net[a][s][n])
          /\ held' = [held EXCEPT ![s] = [from |-> a, msg |-> net[a][s][n], round |-> round[s]]]
    BY <2>1
  <2>3. held[s] = Nil
    BY <1>2 DEF Interrupts
  <2>4. net[a][s][n].type = "VOTERE" => net[a][s][n].round = round[s]
    BY <2>2, <2>3 DEF Passes, VoteCounts
  <2> DEFINE h == [from |-> a, msg |-> net[a][s][n], round |-> round[s]]
  <2>5. h.round = round[s] /\ h.msg = net[a][s][n]
    OBVIOUS
  <2>6. held' = [held EXCEPT ![s] = h] /\ held \in [Server -> Held \cup {Nil}]
    BY <2>2 DEF Inv, TypeOK
  <2> HIDE DEF h
  <2> QED
    BY <2>3, <2>4, <2>5, <2>6
<1> QED
  BY <1>1, <1>2

\* A step that is none of the election's leaves rounds and parts alone, and
\* what is still held after it was held before.
Aside ==
  /\ round' = round /\ pstate' = pstate /\ lea' = lea
  /\ \A x \in Server : held'[x] # Nil => held'[x] = held[x] /\ status'[x] = status[x]

\* Every step is Timer's, a restart, a handler's that reads the round, or aside.
LEMMA ElectionSteps ==
  ASSUME Inv, [Next]_vars
  PROVE  \/ Aside
         \/ \E s \in Server : TimeOut(s) \/ NewRound(s) \/ Restart(s)
         \/ \E a, s \in Server : \E n \in 1 .. Len(net[a][s]) :
              HandleVote(a, s, n) \/ HandleVoteRe(a, s, n) \/ HandleHeart(a, s, n)
<1>1. held \in [Server -> Held \cup {Nil}] /\ status \in [Server -> {"up", "down", "terminated", "wild"}]
  BY DEF Inv, TypeOK
<1>2. CASE \E s \in Server : Threads(s) \/ Crash(s) \/ Restart(s)
  <2> PICK s \in Server : Threads(s) \/ Crash(s) \/ Restart(s)
    BY <1>2
  <2>1. CASE VoteAll(s) \/ HeartAll(s)
    BY <2>1 DEF VoteAll, HeartAll, Aside, elect, env
  <2>2. CASE Crash(s)
    BY <1>1, <2>2 DEF Crash, Aside, elect
  <2> QED
    BY <2>1, <2>2 DEF Threads, Timer
<1>3. CASE \E c \in Client : Submit(c)
  BY <1>3 DEF Submit, Aside, elect, env
<1>4. CASE \E a \in Node, s \in Server : \E n \in 1 .. Len(net[a][s]) :
             HandleClient(a, s, n) \/ Lose(a, s, n)
  BY <1>1, <1>4 DEF HandleClient, Lose, Receives, Aside, elect, env
<1>5. CASE \E a, s \in Server : \E n \in 1 .. Len(net[a][s]) :
             PerformComm(a, s, n) \/ DropHeart(a, s, n)
  <2> PICK a, s \in Server : \E n \in 1 .. Len(net[a][s]) :
             PerformComm(a, s, n) \/ DropHeart(a, s, n)
    BY <1>5
  <2> PICK n \in 1 .. Len(net[a][s]) : PerformComm(a, s, n) \/ DropHeart(a, s, n)
    OBVIOUS
  <2>1. CASE DropHeart(a, s, n)
    BY <2>1 DEF DropHeart, Aside, elect, env
  <2>2. CASE HandleRecover(a, s, n) \/ HandlePre(a, s, n) \/ HandleCom(a, s, n) \/ HandleRollRe(a, s, n)
    <3>1. /\ round' = round /\ pstate' = pstate /\ lea' = lea /\ status' = status
          /\ held' = [held EXCEPT ![s] = Nil]
      BY <2>2 DEF HandleRecover, HandlePre, HandleCom, HandleRollRe, Receives, elect, env
    <3> QED
      BY <1>1, <3>1 DEF Aside
  <2>3. CASE HandleHeartRe(a, s, n) \/ HandleRoll(a, s, n) \/ HandlePreRe(a, s, n) \/ HandleComRe(a, s, n)
    <3>1. /\ round' = round /\ pstate' = pstate /\ lea' = lea
          /\ held' = [held EXCEPT ![s] = Nil]
      BY <2>3 DEF HandleHeartRe, HandleRoll, HandlePreRe, HandleComRe, Receives, elect
    <3>2. \A x \in Server \ {s} : status'[x] = status[x]
      BY <1>1, <2>3 DEF HandleHeartRe, HandleRoll, HandlePreRe, HandleComRe, RollBack
    <3> QED
      BY <1>1, <3>1, <3>2 DEF Aside
  <2> QED
    BY <2>1, <2>2, <2>3 DEF PerformComm
<1>6. CASE UNCHANGED vars
  BY <1>6 DEF vars, elect, env, Aside
<1> QED
  BY <1>2, <1>3, <1>4, <1>5, <1>6 DEF Next

\* A step other than the restart of node x does not take it back behind the
\* round its handler compares with, which never falls either.
LEMMA RoundStep ==
  ASSUME Inv, HeldOK, [Next]_vars, NEW x \in Server, ~Restart(x)
  PROVE  round'[x] >= Known(x) /\ Known(x)' >= Known(x)
<1>1. /\ round \in [Server -> Nat] /\ held \in [Server -> Held \cup {Nil}]
      /\ Known(x) \in Nat /\ round[x] >= Known(x)
  BY KnownFacts DEF Inv, TypeOK
<1>2. CASE Aside
  <2>1. CASE held'[x] = Nil
    BY <1>1, <1>2, <2>1 DEF Aside, Known
  <2>2. CASE held'[x] # Nil
    BY <1>1, <1>2, <2>2 DEF Aside, Known
  <2> QED
    BY <2>1, <2>2
<1>3. ASSUME NEW s \in Server, TimeOut(s) \/ NewRound(s)
      PROVE  round'[x] >= Known(x) /\ Known(x)' >= Known(x)
  <2>1. /\ Interrupts(s)
        /\ round' = round \/ round' = [round EXCEPT ![s] = round[s] + 1]
    BY <1>3 DEF TimeOut, NewRound
  <2>2. round'[x] \in Nat /\ round'[x] >= round[x]
    BY <1>1, <2>1
  <2>3. CASE held' = held
    BY <1>1, <2>2, <2>3 DEF Known
  <2>4. CASE held' # held
    <3>1. held[s] = Nil /\ held'[s].round = round[s] /\ \A y \in Server \ {s} : held'[y] = held[y]
      BY <1>3, <2>1, <2>4, TimerHeld
    <3>2. CASE x = s
      BY <1>1, <2>2, <3>1, <3>2 DEF Known
    <3>3. CASE x # s
      BY <1>1, <2>2, <3>1, <3>3 DEF Known
    <3> QED
      BY <3>2, <3>3
  <2> QED
    BY <2>3, <2>4
<1>4. ASSUME NEW s \in Server, Restart(s)
      PROVE  round'[x] >= Known(x) /\ Known(x)' >= Known(x)
  <2>1. s # x /\ held' = held /\ round' = [round EXCEPT ![s] = 0]
    BY <1>4 DEF Restart
  <2> QED
    BY <1>1, <2>1 DEF Known
<1>5. ASSUME NEW a \in Server, NEW s \in Server, NEW n \in 1 .. Len(net[a][s]),
             HandleVote(a, s, n) \/ HandleVoteRe(a, s, n) \/ HandleHeart(a, s, n)
      PROVE  round'[x] >= Known(x) /\ Known(x)' >= Known(x)
  <2> DEFINE r == net[a][s][n].round
  <2>1. /\ Receives(a, s, n, "VOTE") \/ Receives(a, s, n, "VOTERE") \/ Receives(a, s, n, "HEART")
        /\ round' = round \/ (r >= Known(s) /\ round' = [round EXCEPT ![s] = r])
    BY <1>5 DEF HandleVote, HandleVoteRe, HandleHeart, Grants, Accepts
  <2>2. held' = [held EXCEPT ![s] = Nil] /\ a \in Node
    BY <2>1 DEF Receives, Node
  <2>3. r \in Nat
    BY <2>1, <2>2, ReceivedFacts, MessageFields
  <2> HIDE DEF r
  <2>4. CASE x = s
    BY <1>1, <2>1, <2>2, <2>3, <2>4 DEF Known
  <2>5. CASE x # s
    BY <1>1, <2>1, <2>2, <2>3, <2>5 DEF Known
  <2> QED
    BY <2>4, <2>5
<1> QED
  BY <1>2, <1>3, <1>4, <1>5, ElectionSteps

\* What is held stays in order, restarts included.
LEMMA HeldStep ==
  ASSUME Inv, HeldOK, [Next]_vars
  PROVE  HeldOK'
<1>1. /\ round \in [Server -> Nat] /\ held \in [Server -> Held \cup {Nil}]
      /\ \A x \in Server : round[x] \in Nat /\ Known(x) \in Nat /\ round[x] >= Known(x)
  BY KnownFacts DEF Inv, TypeOK
<1> SUFFICES ASSUME NEW x \in Server, held'[x] # Nil
             PROVE  /\ status'[x] = "up"
                    /\ held'[x].round <= round'[x]
                    /\ held'[x].msg.type = "VOTERE" => held'[x].msg.round = held'[x].round
  BY DEF HeldOK
<1>2. CASE Aside
  BY <1>1, <1>2 DEF Aside, HeldOK
<1>3. ASSUME NEW s \in Server, TimeOut(s) \/ NewRound(s)
      PROVE  /\ status'[x] = "up"
             /\ held'[x].round <= round'[x]
             /\ held'[x].msg.type = "VOTERE" => held'[x].msg.round = held'[x].round
  <2>1. /\ Interrupts(s) /\ status' = status /\ status[s] = "up"
        /\ round' = round \/ round' = [round EXCEPT ![s] = round[s] + 1]
    BY <1>3 DEF TimeOut, NewRound, env
  <2>2. round'[x] \in Nat /\ round'[x] >= round[x]
    BY <1>1, <2>1
  <2>3. ASSUME held'[x] = held[x]
        PROVE  /\ status'[x] = "up"
               /\ held'[x].round <= round'[x]
               /\ held'[x].msg.type = "VOTERE" => held'[x].msg.round = held'[x].round
    <3>1. held[x].round \in Nat
      BY <1>1, <2>3 DEF Held
    <3> QED
      BY <1>1, <2>1, <2>2, <2>3, <3>1 DEF HeldOK
  <2>4. CASE held' # held
    <3>1. /\ \A y \in Server \ {s} : held'[y] = held[y]
          /\ held'[s].round = round[s]
          /\ held'[s].msg.type = "VOTERE" => held'[s].msg.round = round[s]
      BY <1>3, <2>1, <2>4, TimerHeld
    <3>2. CASE x = s
      BY <1>1, <2>1, <2>2, <3>1, <3>2
    <3>3. CASE x # s
      BY <1>1, <2>3, <3>1, <3>3
    <3> QED
      BY <3>2, <3>3
  <2> QED
    BY <2>3, <2>4
<1>4. ASSUME NEW s \in Server, Restart(s)
      PROVE  /\ status'[x] = "up"
             /\ held'[x].round <= round'[x]
             /\ held'[x].msg.type = "VOTERE" => held'[x].msg.round = held'[x].round
  <2>1. /\ status[s] # "up" /\ held' = held /\ round' = [round EXCEPT ![s] = 0]
        /\ status' = [status EXCEPT ![s] = "up"]
    BY <1>4 DEF Restart
  <2>2. x # s
    BY <2>1 DEF HeldOK
  <2>3. round'[x] = round[x] /\ status'[x] = status[x]
    BY <1>1, <2>1, <2>2 DEF Inv, TypeOK
  <2> QED
    BY <2>1, <2>3 DEF HeldOK
<1>5. ASSUME NEW a \in Server, NEW s \in Server, NEW n \in 1 .. Len(net[a][s]),
             HandleVote(a, s, n) \/ HandleVoteRe(a, s, n) \/ HandleHeart(a, s, n)
      PROVE  /\ status'[x] = "up"
             /\ held'[x].round <= round'[x]
             /\ held'[x].msg.type = "VOTERE" => held'[x].msg.round = held'[x].round
  <2>1. /\ held' = [held EXCEPT ![s] = Nil] /\ status' = status
        /\ \A y \in Server \ {s} : round'[y] = round[y]
    BY <1>1, <1>5 DEF HandleVote, HandleVoteRe, HandleHeart, Receives, env
  <2>2. x # s
    BY <1>1, <2>1
  <2> QED
    BY <1>1, <2>1, <2>2 DEF HeldOK
<1> QED
  BY <1>2, <1>3, <1>4, <1>5, ElectionSteps

\* In every execution, what performComm holds is in order.
LEMMA HeldInvariance == Spec => [](Inv /\ HeldOK)
<1>1. Init => HeldOK
  BY DEF Init, HeldOK
<1>2. Inv /\ HeldOK /\ [Next]_vars => HeldOK'
  BY HeldStep
<1> QED
  BY <1>1, <1>2, Invariance, PTL DEF Spec

\* While a node runs, no message takes it back behind the round performComm
\* has compared the message with, whatever messages reach it, in whatever
\* order, and wherever Timer raises the round in between: it votes and
\* follows only in that round or a later one.
THEOREM RoundsGrow == Spec => NoStaleRound
<1>1. ASSUME Inv, HeldOK, [Next]_vars
      PROVE  [\A s \in Server : status[s] = "up" => round'[s] >= Known(s)]_vars
  <2>1. \A s \in Server : status[s] = "up" => ~Restart(s)
    BY DEF Restart
  <2> QED
    BY <1>1, <2>1, RoundStep
<1>2. Spec => [][Next]_vars
  BY DEF Spec
<1> QED
  BY <1>1, <1>2, HeldInvariance, PTL DEF NoStaleRound
-----------------------------------------------------------------------------
\* Votes.  What the operations on the network do to Bound.
LEMMA BoundTaken ==
  ASSUME net \in Nets, NEW r, Bound(net, r), NEW a \in Node, NEW s \in Server,
         NEW n \in 1 .. Len(net[a][s])
  PROVE  Bound(Taken(a, s, n), r)
<1> DEFINE q == net[a][s]
           u == SubSeq(q, 1, n - 1)
           v == SubSeq(q, n + 1, Len(q))
<1>1. q \in Seq(Message) /\ n \in 1 .. Len(q)
  BY DEF Nets
<1> HIDE DEF q
<1>2. /\ u \in Seq(Message) /\ Len(u) = n - 1 /\ \A i \in 1 .. n - 1 : u[i] = q[i]
      /\ v \in Seq(Message) /\ Len(v) = Len(q) - n /\ \A i \in 1 .. Len(q) - n : v[i] = q[n + i]
  BY <1>1
<1>3. Taken(a, s, n) = [net EXCEPT ![a][s] = u \o v]
  BY DEF Taken, RemoveAt, q
<1> HIDE DEF u, v
<1>4. \A i \in 1 .. Len(u \o v) : \E j \in 1 .. Len(q) : (u \o v)[i] = q[j]
  <2>a. /\ Len(u \o v) = Len(u) + Len(v)
        /\ \A i \in 1 .. Len(u) + Len(v) : (u \o v)[i] = IF i <= Len(u) THEN u[i] ELSE v[i - Len(u)]
    BY <1>2, ConcatProperties
  <2> TAKE i \in 1 .. Len(u \o v)
  <2>1. /\ Len(u \o v) = Len(q) - 1 /\ i \in 1 .. Len(q) - 1
        /\ (u \o v)[i] = IF i <= n - 1 THEN u[i] ELSE v[i - (n - 1)]
    BY <1>1, <1>2, <2>a
  <2>2. CASE i <= n - 1
    BY <1>1, <1>2, <2>1, <2>2
  <2>3. CASE ~(i <= n - 1)
    <3>1. i - (n - 1) \in 1 .. Len(q) - n /\ i + 1 \in 1 .. Len(q)
      BY <1>1, <2>1, <2>3
    <3>2. (u \o v)[i] = q[i + 1]
      BY <1>1, <1>2, <2>1, <2>3, <3>1
    <3> QED
      BY <3>1, <3>2
  <2> QED
    BY <2>2, <2>3
<1> SUFFICES ASSUME NEW x \in Server, NEW y \in Server, NEW i \in 1 .. Len(Taken(a, s, n)[x][y]),
                    Taken(a, s, n)[x][y][i].type = "VOTERE"
             PROVE  Taken(a, s, n)[x][y][i].round <= r[x]
  BY DEF Bound
<1>5. CASE x = a /\ y = s
  <2>1. Taken(a, s, n)[x][y] = u \o v
    BY <1>3, <1>5 DEF Nets
  <2>2. PICK j \in 1 .. Len(q) : Taken(a, s, n)[x][y][i] = q[j]
    BY <1>4, <2>1
  <2> QED
    BY <1>5, <2>2 DEF Bound, q
<1>6. CASE ~(x = a /\ y = s)
  <2>1. Taken(a, s, n)[x][y] = net[x][y]
    BY <1>3, <1>6 DEF Nets, Node
  <2> QED
    BY <2>1 DEF Bound
<1> QED
  BY <1>5, <1>6

\* Sending a message of a round the sender has reached keeps votes binding.
LEMMA BoundWith ==
  ASSUME NEW nt \in Nets, NEW r, Bound(nt, r), NEW a \in Server, NEW b \in Server,
         NEW m, Sendable(m, r[a])
  PROVE  Bound(With(nt, a, b, m), r)
<1> SUFFICES ASSUME NEW x \in Server, NEW y \in Server, NEW i \in 1 .. Len(With(nt, a, b, m)[x][y]),
                    With(nt, a, b, m)[x][y][i].type = "VOTERE"
             PROVE  With(nt, a, b, m)[x][y][i].round <= r[x]
  BY DEF Bound
<1>1. nt[x][y] \in Seq(Message) /\ a \in Node /\ x \in Node
  BY DEF Nets, Node
<1>2. With(nt, a, b, m)[x][y] = IF x = a /\ y = b THEN Append(nt[x][y], m) ELSE nt[x][y]
  BY <1>1 DEF With, Nets
<1>3. CASE i \in 1 .. Len(nt[x][y])
  <2>1. With(nt, a, b, m)[x][y][i] = nt[x][y][i]
    BY <1>1, <1>2, <1>3
  <2> QED
    BY <1>3, <2>1 DEF Bound
<1>4. CASE i \notin 1 .. Len(nt[x][y])
  <2>1. x = a /\ With(nt, a, b, m)[x][y][i] = m
    BY <1>1, <1>2, <1>4
  <2> QED
    BY <2>1 DEF Sendable
<1> QED
  BY <1>3, <1>4

\* So does sending it to every other node.
LEMMA BoundWithAll ==
  ASSUME NEW nt \in Nets, NEW r, Bound(nt, r), NEW a \in Server,
         NEW m, Sendable(m, r[a])
  PROVE  Bound(WithAll(nt, a, m), r)
<1> SUFFICES ASSUME NEW x \in Server, NEW y \in Server, NEW i \in 1 .. Len(WithAll(nt, a, m)[x][y]),
                    WithAll(nt, a, m)[x][y][i].type = "VOTERE"
             PROVE  WithAll(nt, a, m)[x][y][i].round <= r[x]
  BY DEF Bound
<1>1. nt[x][y] \in Seq(Message) /\ a \in Node /\ x \in Node
  BY DEF Nets, Node
<1>2. WithAll(nt, a, m)[x][y] = IF x = a /\ y # a THEN Append(nt[x][y], m) ELSE nt[x][y]
  BY <1>1 DEF WithAll, Nets
<1>3. CASE i \in 1 .. Len(nt[x][y])
  <2>1. WithAll(nt, a, m)[x][y][i] = nt[x][y][i]
    BY <1>1, <1>2, <1>3
  <2> QED
    BY <1>3, <2>1 DEF Bound
<1>4. CASE i \notin 1 .. Len(nt[x][y])
  <2>1. x = a /\ WithAll(nt, a, m)[x][y][i] = m
    BY <1>1, <1>2, <1>4
  <2> QED
    BY <2>1 DEF Sendable
<1> QED
  BY <1>3, <1>4

\* Rounds that only grow keep the votes bound.
LEMMA BoundLater ==
  ASSUME NEW nt \in Nets, NEW r, NEW q, Bound(nt, r),
         \A x \in Server : r[x] \in Nat /\ q[x] \in Nat /\ q[x] >= r[x]
  PROVE  Bound(nt, q)
<1> SUFFICES ASSUME NEW x \in Server, NEW y \in Server, NEW i \in 1 .. Len(nt[x][y]),
                    nt[x][y][i].type = "VOTERE"
             PROVE  nt[x][y][i].round <= q[x]
  BY DEF Bound
<1>1. nt[x][y][i] \in Message
  BY DEF Nets, Node
<1>2. nt[x][y][i].round \in Nat /\ nt[x][y][i].round <= r[x]
  BY <1>1, MessageFields DEF Bound
<1> QED
  BY <1>2

\* Messages of the other types bind nobody.
LEMMA FreeToSend ==
  ASSUME NEW r, NEW s, NEW c, NEW e, NEW n, NEW ok, NEW v,
         NEW t \in {"PRERE", "COMRE", "ROLLRE", "COM", "ROLL"}
  PROVE  /\ Sendable(Vote(v), r) /\ Sendable(Heart(v, s), r)
         /\ Sendable(HeartRe(s), r) /\ Sendable(Recover(n, e), r)
         /\ Sendable(Pre(s, c), r) /\ Sendable(Order(t), r) /\ Sendable(Ack(t, ok), r)
BY DEF Sendable, Vote, Heart, HeartRe, Recover, Pre, Order, Ack

\* A client that sends a command keeps votes binding.
LEMMA SubmitBound ==
  ASSUME Inv, NEW r, Bound(net, r), NEW c \in Client, Submit(c)
  PROVE  Bound(net', r)
<1>1. PICK cmd : net' = With(net, c, Boot, Ask(c, cmd))
  BY DEF Submit
<1>2. \A x, y \in Server : net'[x][y] = net[x][y]
  BY <1>1, ClusterConstants DEF With, Inv, TypeOK, Node
<1> QED
  BY <1>2 DEF Bound

\* The step of a handler: it takes one message and sends at most one kind of
\* message, which its node may send.
LEMMA HandlerBound ==
  ASSUME Inv, NEW r, Bound(net, r), NEW a \in Node, NEW s \in Server,
         NEW n \in 1 .. Len(net[a][s]),
         \/ net' = Taken(a, s, n)
         \/ \E m : /\ Sendable(m, r[s])
                  /\ \/ net' = WithAll(Taken(a, s, n), s, m)
                     \/ \E b \in Server : net' = With(Taken(a, s, n), s, b, m)
  PROVE  Bound(net', r)
<1>1. net \in Nets
  BY DEF Inv, TypeOK, Nets
<1>2. Taken(a, s, n) \in Nets /\ Bound(Taken(a, s, n), r)
  BY <1>1, TakenType, BoundTaken
<1> QED
  BY <1>2, BoundWith, BoundWithAll

\* A step without a restart keeps every node bound by what it has sent.
LEMMA BoundStep ==
  ASSUME Inv, Inv', HeldOK, HeldOK', [Next]_vars, \A x \in Server : ~Restart(x), Bound(net, Knowns)
  PROVE  Bound(net', Knowns')
<1>1. \A x \in Server : /\ Known(x)' >= Known(x)
                        /\ Known(x) \in Nat /\ Known(x)' \in Nat
  <2> TAKE x \in Server
  <2>1. Known(x)' >= Known(x)
    BY RoundStep
  <2>2. Known(x) \in Nat
    BY KnownFacts
  <2>3. Known(x)' \in Nat
    <3>1. round'[x] \in Nat /\ (held'[x] = Nil \/ held'[x] \in Held)
      BY DEF Inv, TypeOK
    <3> QED
      BY <3>1 DEF Known, Held
  <2> QED
    BY <2>1, <2>2, <2>3
<1>2. net \in Nets /\ Bound(net, Knowns')
  <2>1. net \in Nets
    BY DEF Inv, TypeOK, Nets
  <2>2. \A x \in Server : /\ Knowns[x] \in Nat /\ Knowns'[x] \in Nat
                          /\ Knowns'[x] >= Knowns[x]
    BY <1>1 DEF Knowns
  <2> QED
    BY <2>1, <2>2, BoundLater
<1>4. CASE \E s \in Server : Threads(s) \/ Crash(s) \/ Restart(s)
  <2> PICK s \in Server : Threads(s) \/ Crash(s)
    BY <1>4
  <2>1. CASE Timer(s) \/ Crash(s)
    BY <1>2, <2>1 DEF Timer, TimeOut, NewRound, Crash
  <2>2. CASE VoteAll(s)
    <3>1. net' \in {net, WithAll(net, s, Vote(round[s]))}
      BY <2>2 DEF VoteAll
    <3> QED
      BY <1>2, <3>1, FreeToSend, BoundWithAll
  <2>3. CASE HeartAll(s)
    <3>1. net' = WithAll(net, s, Heart(round[s], store[s]))
      BY <2>3 DEF HeartAll
    <3> QED
      BY <1>2, <3>1, FreeToSend, BoundWithAll
  <2> QED
    BY <2>1, <2>2, <2>3 DEF Threads
<1>5. CASE \E c \in Client : Submit(c)
  BY <1>2, <1>5, SubmitBound
<1>6. CASE \E a \in Node, s \in Server : \E n \in 1 .. Len(net[a][s]) :
             HandleClient(a, s, n) \/ Lose(a, s, n)
  <2> PICK a \in Node, s \in Server : \E n \in 1 .. Len(net[a][s]) :
             HandleClient(a, s, n) \/ Lose(a, s, n)
    BY <1>6
  <2> PICK n \in 1 .. Len(net[a][s]) : HandleClient(a, s, n) \/ Lose(a, s, n)
    OBVIOUS
  <2>1. CASE Lose(a, s, n)
    BY <1>2, <2>1, HandlerBound DEF Lose
  <2>2. CASE HandleClient(a, s, n)
    <3> DEFINE m  == net[a][s][n]
               st == WriteLog(store[s], round[s], m.cmd)
    <3>1. /\ \/ net' = Taken(a, s, n)
             \/ lea[s] # Nil /\ net' = With(Taken(a, s, n), s, lea[s], m)
             \/ net' = WithAll(Taken(a, s, n), s, Pre(st, m.cmd))
          /\ m.type = "CLIENT"
      BY <2>2 DEF HandleClient, Receives
    <3>2. Sendable(m, Knowns'[s]) /\ Sendable(Pre(st, m.cmd), Knowns'[s])
      BY <3>1, FreeToSend DEF Sendable
    <3>3. lea[s] # Nil => lea[s] \in Server
      BY DEF Inv, TypeOK
    <3> HIDE DEF m, st
    <3> QED
      BY <1>2, <3>1, <3>2, <3>3, HandlerBound
  <2> QED
    BY <2>1, <2>2
<1>7. CASE \E a, s \in Server : \E n \in 1 .. Len(net[a][s]) :
             PerformComm(a, s, n) \/ DropHeart(a, s, n)
  <2> PICK a, s \in Server : \E n \in 1 .. Len(net[a][s]) :
             PerformComm(a, s, n) \/ DropHeart(a, s, n)
    BY <1>7
  <2> PICK n \in 1 .. Len(net[a][s]) : PerformComm(a, s, n) \/ DropHeart(a, s, n)
    OBVIOUS
  <2>a. a \in Node
    BY DEF Node
  <2>1. CASE DropHeart(a, s, n)
    BY <1>2, <2>1, <2>a, HandlerBound DEF DropHeart
  <2>2. CASE HandleVote(a, s, n)
    <3> DEFINE r == net[a][s][n].round
    <3>1. \/ net' = Taken(a, s, n)
          \/ net' = With(Taken(a, s, n), s, a, VoteRe(r)) /\ round' = [round EXCEPT ![s] = r]
      BY <2>2 DEF HandleVote
    <3>2. held' = [held EXCEPT ![s] = Nil]
      BY <2>2 DEF HandleVote, Receives
    <3>3. round' = [round EXCEPT ![s] = r] => Knowns'[s] = r
      BY <3>2 DEF Knowns, Known, Inv, TypeOK
    <3>4. round' = [round EXCEPT ![s] = r] => Sendable(VoteRe(r), Knowns'[s])
      BY <1>1, <3>3 DEF Sendable, VoteRe, Knowns
    <3> HIDE DEF r
    <3> QED
      BY <1>2, <2>a, <3>1, <3>4, HandlerBound
  <2>3. CASE HandleVoteRe(a, s, n)
    <3>1. net' \in {Taken(a, s, n), WithAll(Taken(a, s, n), s, Heart(round[s], store[s]))}
      BY <2>3 DEF HandleVoteRe
    <3> QED
      BY <1>2, <2>a, <3>1, FreeToSend, HandlerBound
  <2>4. CASE HandleHeart(a, s, n)
    <3>1. net' \in {Taken(a, s, n), With(Taken(a, s, n), s, a, HeartRe(store[s]))}
      BY <2>4 DEF HandleHeart
    <3> QED
      BY <1>2, <2>a, <3>1, FreeToSend, HandlerBound
  <2>5. CASE HandleRecover(a, s, n)
    <3>1. \E st : net' \in {Taken(a, s, n), With(Taken(a, s, n), s, a, HeartRe(st))}
      BY <2>5 DEF HandleRecover
    <3> QED
      BY <1>2, <2>a, <3>1, FreeToSend, HandlerBound
  <2>6. CASE HandleHeartRe(a, s, n)
    <3>1. \E p, e : net' \in {Taken(a, s, n), With(Taken(a, s, n), s, a, Recover(p, e))}
      BY <2>6 DEF HandleHeartRe
    <3> QED
      BY <1>2, <2>a, <3>1, FreeToSend, HandlerBound
  <2>7. CASE HandlePre(a, s, n) \/ HandleCom(a, s, n) \/ HandleRoll(a, s, n) \/ HandleRollRe(a, s, n)
    <3>1. \E t \in {"PRERE", "COMRE", "ROLLRE"} : \E ok :
            net' \in {Taken(a, s, n), With(Taken(a, s, n), s, a, Ack(t, ok))}
      BY <2>7 DEF HandlePre, HandleCom, HandleRoll, HandleRollRe
    <3> QED
      BY <1>2, <2>a, <3>1, FreeToSend, HandlerBound
  <2>8. CASE HandlePreRe(a, s, n) \/ HandleComRe(a, s, n)
    <3>1. \E t \in {"COM", "ROLL"} :
            net' \in {Taken(a, s, n), WithAll(Taken(a, s, n), s, Order(t))}
      BY <2>8 DEF HandlePreRe, HandleComRe
    <3> QED
      BY <1>2, <2>a, <3>1, FreeToSend, HandlerBound
  <2> QED
    BY <2>1, <2>2, <2>3, <2>4, <2>5, <2>6, <2>7, <2>8 DEF PerformComm
<1>8. CASE UNCHANGED vars
  BY <1>2, <1>8 DEF vars
<1> QED
  BY <1>4, <1>5, <1>6, <1>7, <1>8 DEF Next

NoRestart == \A s \in Server : ~Restart(s)

\* As long as no process starts again, every vote on its way, in any number
\* of elections, however messages are reordered or lost and wherever Timer
\* comes between test and write, is of a round its sender has reached: the
\* voter's handlers will not compare with an earlier round any more.
THEOREM VotesStayBinding ==
  Spec /\ [][NoRestart]_vars => []VotesBind
<1>1. Init => Bound(net, Knowns)
  BY DEF Init, Bound, Node
<1>2. Inv /\ Inv' /\ HeldOK /\ HeldOK' /\ [Next]_vars /\ [NoRestart]_vars /\ Bound(net, Knowns)
        => Bound(net, Knowns)'
  <2> SUFFICES ASSUME Inv, Inv', HeldOK, HeldOK', [Next]_vars, [NoRestart]_vars, Bound(net, Knowns)
               PROVE  Bound(net', Knowns')
    BY DEF Bound
  <2>1. CASE UNCHANGED vars
    BY <2>1 DEF vars, elect, Knowns, Known
  <2>2. CASE NoRestart
    BY <2>2, BoundStep DEF NoRestart
  <2> QED
    BY <2>1, <2>2
<1>3. Inv /\ HeldOK /\ Bound(net, Knowns) => VotesBind
  <2> SUFFICES ASSUME Inv, HeldOK, Bound(net, Knowns), NEW a \in Server, NEW b \in Server,
                      NEW n \in 1 .. Len(net[a][b]), net[a][b][n].type = "VOTERE"
               PROVE  net[a][b][n].round <= round[a]
    BY DEF VotesBind
  <2>1. net[a][b][n].round <= Known(a)
    BY DEF Bound, Knowns
  <2>2. net[a][b][n] \in Message
    BY TakenType DEF Inv, TypeOK, Nets, Node
  <2> QED
    BY <2>1, <2>2, MessageFields, KnownFacts
<1> QED
  BY <1>1, <1>2, <1>3, HeldInvariance, PTL DEF Spec
-----------------------------------------------------------------------------
(***************************************************************************)
(* Majorities.  A node becomes LEADER on a [VOTERE] of the round it was in *)
(* when the reply was tested.  It has not sent that reply itself, for no   *)
(* node has a queue to itself, and whoever sent it is still bound by it.   *)
(* With up to three nodes the two are a majority.  With more they are not, *)
(* for the replies are counted and not their senders.                      *)
(***************************************************************************)
\* In nt no message is on its way from a node to itself.
Silent(nt) == \A x \in Server : nt[x][x] = <<>>

\* No node takes itself for the LEADER that sent it a heartbeat.
OthersLead == \A x \in Server : lea[x] # x

\* Whoever becomes LEADER does so in a round another node has reached.
ElectedByAnother ==
  \A s \in Server :
    status[s] = "up" /\ pstate[s] # "LEADER" /\ pstate'[s] = "LEADER" =>
      \E b \in Server \ {s} : round[b] >= Known(s)

VotesInv == Silent(net) /\ OthersLead /\ Bound(net, Knowns)

\* Messages sent to other nodes leave the queues of the nodes to themselves
\* empty.
LEMMA SilentSent ==
  ASSUME NEW nt \in Nets, Silent(nt), NEW s \in Server, NEW b \in Server \ {s}, NEW m
  PROVE  Silent(With(nt, s, b, m)) /\ Silent(WithAll(nt, s, m))
BY DEF Silent, With, WithAll, Nets, Node

\* A message that is taken was sent by another node, and the queues of the
\* nodes to themselves stay empty.
LEMMA SilentTaken ==
  ASSUME net \in Nets, Silent(net), NEW a \in Node, NEW s \in Server, NEW n \in 1 .. Len(net[a][s])
  PROVE  a # s /\ Silent(Taken(a, s, n))
<1>1. a # s
  BY DEF Silent
<1> QED
  BY <1>1 DEF Silent, Taken, Nets, Node

\* The step of a handler, which sends to other nodes only.
LEMMA HandlerSilent ==
  ASSUME Inv, Silent(net), NEW a \in Node, NEW s \in Server, NEW n \in 1 .. Len(net[a][s]),
         \/ net' = Taken(a, s, n)
         \/ \E m : \/ net' = WithAll(Taken(a, s, n), s, m)
                   \/ \E b \in Server \ {s} : net' = With(Taken(a, s, n), s, b, m)
                   \/ a \in Server /\ net' = With(Taken(a, s, n), s, a, m)
  PROVE  Silent(net')
<1>1. net \in Nets
  BY DEF Inv, TypeOK, Nets
<1>2. a # s /\ Taken(a, s, n) \in Nets /\ Silent(Taken(a, s, n))
  BY <1>1, TakenType, SilentTaken
<1>3. \A m : Silent(WithAll(Taken(a, s, n), s, m))
  BY <1>2 DEF Silent, WithAll, Nets, Node
<1> QED
  BY <1>2, <1>3, SilentSent

\* In every step the nodes send to other nodes only.
LEMMA SilentStep ==
  ASSUME Inv, [Next]_vars, Silent(net), OthersLead
  PROVE  Silent(net')
<1>1. net \in Nets
  BY DEF Inv, TypeOK, Nets
<1>2. CASE \E s \in Server : Threads(s) \/ Crash(s) \/ Restart(s)
  <2> PICK s \in Server : Threads(s) \/ Crash(s) \/ Restart(s)
    BY <1>2
  <2>1. \A m : Silent(WithAll(net, s, m))
    BY <1>1 DEF Silent, WithAll, Nets, Node
  <2> QED
    BY <2>1 DEF Threads, Timer, TimeOut, NewRound, VoteAll, HeartAll, Crash, Restart
<1>3. CASE \E c \in Client : Submit(c)
  <2>1. PICK c \in Client, cmd \in Workload : net' = With(net, c, Boot, Ask(c, cmd))
    BY <1>3 DEF Submit
  <2> QED
    BY <1>1, <2>1, ClusterConstants DEF Silent, With, Nets, Node
<1>4. CASE \E a \in Node, s \in Server : \E n \in 1 .. Len(net[a][s]) :
             HandleClient(a, s, n) \/ Lose(a, s, n)
  <2> PICK a \in Node, s \in Server : \E n \in 1 .. Len(net[a][s]) :
             HandleClient(a, s, n) \/ Lose(a, s, n)
    BY <1>4
  <2> PICK n \in 1 .. Len(net[a][s]) : HandleClient(a, s, n) \/ Lose(a, s, n)
    OBVIOUS
  <2>1. lea[s] # Nil => lea[s] \in Server \ {s}
    BY DEF OthersLead, Inv, TypeOK
  <2>2. \/ net' = Taken(a, s, n)
        \/ \E m : \/ net' = WithAll(Taken(a, s, n), s, m)
                  \/ lea[s] # Nil /\ net' = With(Taken(a, s, n), s, lea[s], m)
    BY DEF HandleClient, Lose
  <2> QED
    BY <2>1, <2>2, HandlerSilent
<1>5. CASE \E a, s \in Server : \E n \in 1 .. Len(net[a][s]) :
             PerformComm(a, s, n) \/ DropHeart(a, s, n)
  <2> PICK a, s \in Server : \E n \in 1 .. Len(net[a][s]) :
             PerformComm(a, s, n) \/ DropHeart(a, s, n)
    BY <1>5
  <2> PICK n \in 1 .. Len(net[a][s]) : PerformComm(a, s, n) \/ DropHeart(a, s, n)
    OBVIOUS
  <2>1. \/ net' = Taken(a, s, n)
        \/ \E m : \/ net' = WithAll(Taken(a, s, n), s, m)
                  \/ net' = With(Taken(a, s, n), s, a, m)
    <3>1. CASE HandleVote(a, s, n) \/ HandleVoteRe(a, s, n) \/ DropHeart(a, s, n)
      BY <3>1 DEF HandleVote, HandleVoteRe, DropHeart
    <3>2. CASE HandleHeart(a, s, n) \/ HandleRecover(a, s, n) \/ HandleHeartRe(a, s, n)
      BY <3>2 DEF HandleHeart, HandleRecover, HandleHeartRe
    <3>3. CASE HandlePre(a, s, n) \/ HandleCom(a, s, n) \/ HandleRoll(a, s, n) \/ HandleRollRe(a, s, n)
      BY <3>3 DEF HandlePre, HandleCom, HandleRoll, HandleRollRe
    <3>4. CASE HandlePreRe(a, s, n) \/ HandleComRe(a, s, n)
      BY <3>4 DEF HandlePreRe, HandleComRe
    <3> QED
      BY <3>1, <3>2, <3>3, <3>4 DEF PerformComm
  <2> QED
    BY <2>1, HandlerSilent DEF Node
<1>6. CASE UNCHANGED vars
  BY <1>6 DEF vars
<1> QED
  BY <1>2, <1>3, <1>4, <1>5, <1>6 DEF Next

\* A node follows another node, never itself.
LEMMA OthersLeadStep ==
  ASSUME Inv, [Next]_vars, Silent(net), OthersLead
  PROVE  OthersLead'
<1> DEFINE Followed(s) == \E a \in Server \ {s} : lea' = [lea EXCEPT ![s] = a]
<1>1. \/ lea' = lea
      \/ \E s \in Server : Followed(s) \/ lea' = [lea EXCEPT ![s] = Nil]
  <2>1. CASE \E s \in Server : Threads(s) \/ Crash(s) \/ Restart(s)
    BY <2>1 DEF Threads, Timer, TimeOut, NewRound, VoteAll, HeartAll, Crash, Restart, elect
  <2>2. CASE \E c \in Client : Submit(c)
    BY <2>2 DEF Submit, elect
  <2>3. CASE \E a \in Node, s \in Server : \E n \in 1 .. Len(net[a][s]) :
               HandleClient(a, s, n) \/ Lose(a, s, n)
    BY <2>3 DEF HandleClient, Lose, elect
  <2>4. CASE \E a, s \in Server : \E n \in 1 .. Len(net[a][s]) :
               PerformComm(a, s, n) \/ DropHeart(a, s, n)
    <3> PICK a, s \in Server : \E n \in 1 .. Len(net[a][s]) :
               PerformComm(a, s, n) \/ DropHeart(a, s, n)
      BY <2>4
    <3> PICK n \in 1 .. Len(net[a][s]) : PerformComm(a, s, n) \/ DropHeart(a, s, n)
      OBVIOUS
    <3>1. CASE HandleHeart(a, s, n)
      <4>1. lea' = lea \/ lea' = [lea EXCEPT ![s] = a]
        BY <3>1 DEF HandleHeart
      <4>2. a \in Server \ {s}
        BY SilentTaken DEF Inv, TypeOK, Nets, Node
      <4> QED
        BY <4>1, <4>2
    <3>2. CASE HandleVote(a, s, n) \/ HandleVoteRe(a, s, n) \/ DropHeart(a, s, n)
      BY <3>2 DEF HandleVote, HandleVoteRe, DropHeart, elect
    <3>3. CASE HandleRecover(a, s, n) \/ HandleHeartRe(a, s, n)
      BY <3>3 DEF HandleRecover, HandleHeartRe, elect
    <3>4. CASE HandlePre(a, s, n) \/ HandlePreRe(a, s, n) \/ HandleCom(a, s, n) \/ HandleComRe(a, s, n)
               \/ HandleRoll(a, s, n) \/ HandleRollRe(a, s, n)
      BY <3>4 DEF HandlePre, HandlePreRe, HandleCom, HandleComRe, HandleRoll, HandleRollRe, elect
    <3> QED
      BY <3>1, <3>2, <3>3, <3>4 DEF PerformComm
  <2>5. CASE UNCHANGED vars
    BY <2>5 DEF vars, elect
  <2> QED
    BY <2>1, <2>2, <2>3, <2>4, <2>5 DEF Next
<1>2. lea \in [Server -> Server \cup {Nil}] /\ Nil \notin Server
  BY ClusterConstants DEF Inv, TypeOK
<1> QED
  BY <1>1, <1>2 DEF OthersLead

\* A node that becomes LEADER has taken the vote another node gave it in the
\* round it was tested in.
LEMMA LeaderStep ==
  ASSUME Inv, HeldOK, [Next]_vars, VotesInv
  PROVE  ElectedByAnother
<1> SUFFICES ASSUME NEW x \in Server, status[x] = "up", pstate[x] # "LEADER", pstate'[x] = "LEADER"
             PROVE  \E b \in Server \ {x} : round[b] >= Known(x)
  BY DEF ElectedByAnother
<1>1. pstate \in [Server -> PState] /\ status \in [Server -> {"up", "down", "terminated", "wild"}]
  BY DEF Inv, TypeOK
<1>2. ~Aside
  BY DEF Aside
<1>3. ASSUME NEW s \in Server, TimeOut(s) \/ NewRound(s) \/ Restart(s)
      PROVE  FALSE
  <2>1. CASE TimeOut(s)
    BY <1>1, <2>1 DEF TimeOut
  <2>2. CASE NewRound(s)
    BY <2>2 DEF NewRound
  <2>3. CASE Restart(s)
    BY <1>1, <2>3 DEF Restart
  <2> QED
    BY <1>3, <2>1, <2>2, <2>3
<1>4. ASSUME NEW a \in Server, NEW s \in Server, NEW n \in 1 .. Len(net[a][s]),
             HandleVote(a, s, n) \/ HandleHeart(a, s, n)
      PROVE  FALSE
  <2>1. pstate' \in {pstate, [pstate EXCEPT ![s] = "FOLLOWER"]}
    BY <1>4 DEF HandleVote, HandleHeart, StepsDown
  <2> QED
    BY <1>1, <2>1
<1>5. ASSUME NEW a \in Server, NEW s \in Server, NEW n \in 1 .. Len(net[a][s]), HandleVoteRe(a, s, n)
      PROVE  \E b \in Server \ {x} : round[b] >= Known(x)
  <2> DEFINE m == net[a][s][n]
  <2>1. /\ m.type = "VOTERE" /\ (held[s] # Nil => m = held[s].msg)
        /\ pstate' = pstate \/ (VoteCounts(s, m.round) /\ pstate' = [pstate EXCEPT ![s] = "LEADER"])
    BY <1>5 DEF HandleVoteRe, Receives, Holding
  <2>2. x = s /\ VoteCounts(s, m.round)
    BY <1>1, <2>1
  <2>3. m.round = Known(s)
    BY <2>1, <2>2 DEF VoteCounts, Known, HeldOK
  <2>4. m.round <= Known(a) /\ a # s
    BY <2>1, SilentTaken DEF VotesInv, Bound, Knowns, Inv, TypeOK, Nets, Node
  <2>5. Known(a) \in Nat /\ Known(s) \in Nat /\ round[a] \in Nat /\ round[a] >= Known(a)
    BY KnownFacts
  <2> HIDE DEF m
  <2>6. round[a] >= Known(x) /\ a \in Server \ {x}
    BY <2>2, <2>3, <2>4, <2>5
  <2> QED
    BY <2>6
<1> QED
  BY <1>2, <1>3, <1>4, <1>5, ElectionSteps

\* A step without a restart keeps the voters bound.
LEMMA VotesStep ==
  ASSUME Inv, Inv', HeldOK, HeldOK', [Next]_vars, NoRestart, VotesInv
  PROVE  VotesInv'
<1>1. Silent(net)' /\ OthersLead'
  BY SilentStep, OthersLeadStep DEF VotesInv, Silent
<1>2. Bound(net, Knowns)'
  BY BoundStep DEF VotesInv, Bound, NoRestart
<1> QED
  BY <1>1, <1>2 DEF VotesInv

\* As long as no process starts again, in a cluster of any size.
LEMMA VotesInvariance ==
  Spec /\ [][NoRestart]_vars => [](Inv /\ HeldOK /\ VotesInv)
<1>1. Init => VotesInv
  BY ClusterConstants DEF Init, VotesInv, Silent, OthersLead, Bound, Node
<1>2. Inv /\ Inv' /\ HeldOK /\ HeldOK' /\ [Next]_vars /\ [NoRestart]_vars /\ VotesInv => VotesInv'
  <2> SUFFICES ASSUME Inv, Inv', HeldOK, HeldOK', [Next]_vars, [NoRestart]_vars, VotesInv
               PROVE  VotesInv'
    OBVIOUS
  <2>1. CASE UNCHANGED vars
    BY <2>1 DEF vars, elect, VotesInv, Silent, OthersLead, Bound, Knowns, Known
  <2>2. CASE NoRestart
    BY <2>2, VotesStep
  <2> QED
    BY <2>1, <2>2
<1> QED
  BY <1>1, <1>2, HeldInvariance, PTL DEF Spec

\* As long as no process starts again, whatever the size of the cluster and
\* wherever Timer comes between test and write: whoever becomes LEADER does so
\* on a vote of a node other than itself, which has reached the round that
\* vote is for and will not go back behind it.
THEOREM LeadersAreSeconded ==
  Spec /\ [][NoRestart]_vars => [][ElectedByAnother]_vars
<1>1. Inv /\ HeldOK /\ VotesInv /\ [Next]_vars => [ElectedByAnother]_vars
  BY LeaderStep
<1>2. Spec => [][Next]_vars
  BY DEF Spec
<1> QED
  BY <1>1, <1>2, VotesInvariance, PTL

\* In a cluster of up to three nodes, as long as no process starts again,
\* whoever becomes LEADER has a majority of the cluster, itself included, in
\* the round of the votes it has counted or a later one, although Timer may
\* have taken it to a later round by the time it becomes LEADER.
THEOREM MajorityElects ==
  ASSUME Cardinality(Server) <= 3
  PROVE  Spec /\ [][NoRestart]_vars => ElectedByMajority
<1>1. ASSUME Inv, HeldOK, ElectedByAnother, NEW s \in Server,
             status[s] = "up", pstate[s] # "LEADER", pstate'[s] = "LEADER"
      PROVE  Cardinality({b \in Server : round[b] >= Known(s)}) >= Quorum
  <2> DEFINE Up == {b \in Server : round[b] >= Known(s)}
  <2>1. Known(s) \in Nat /\ round[s] >= Known(s) /\ IsFiniteSet(Server)
    BY <1>1, KnownFacts, ClusterConstants
  <2>2. IsFiniteSet(Up) /\ Cardinality(Server) \in Nat
    BY <2>1, FS_Subset, FS_CardinalityType
  <2> PICK b \in Server \ {s} : round[b] >= Known(s)
    BY <1>1 DEF ElectedByAnother
  <2>3. {s, b} \in SUBSET Up
    BY <2>1
  <2>4. IsFiniteSet({s}) /\ Cardinality({s}) = 1 /\ {s, b} = {s} \cup {b}
    BY FS_Singleton
  <2>5. Cardinality({s, b}) = 2
    <3>1. b \notin {s}
      OBVIOUS
    <3>2. Cardinality({s} \cup {b}) = Cardinality({s}) + 1
      BY <2>4, <3>1, FS_AddElement
    <3> QED
      BY <2>4, <3>2
  <2>6. Cardinality({s, b}) <= Cardinality(Up)
    BY <2>2, <2>3, FS_Subset
  <2>7. Quorum <= 2
    BY <2>2 DEF Quorum
  <2>8. Cardinality(Up) \in Nat /\ Quorum \in Int
    BY <2>2, FS_CardinalityType DEF Quorum
  <2> QED
    BY <2>5, <2>6, <2>7, <2>8
<1>2. Inv /\ HeldOK /\ VotesInv /\ [Next]_vars =>
        [\A s \in Server :
           status[s] = "up" /\ pstate[s] # "LEADER" /\ pstate'[s] = "LEADER" =>
             Cardinality({b \in Server : round[b] >= Known(s)}) >= Quorum]_vars
  BY <1>1, LeaderStep
<1>3. Spec => [][Next]_vars
  BY DEF Spec
<1> QED
  BY <1>2, <1>3, VotesInvariance, PTL DEF ElectedByMajority
=============================================================================
