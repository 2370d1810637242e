--------------------------- MODULE Faults_proofs ----------------------------
(***************************************************************************)
(* The answers of the clients while nobody has timed out, when messages    *)
(* overtake each other or are lost and a node crashes and comes back with  *)
(* an empty log: whatever has been acknowledged is in the maps of all      *)
(* nodes that never crashed, and nothing else is.  FaultInv says for these *)
(* nodes where they are in the course of the command under way, and how    *)
(* far behind and ahead of the LEADER's log theirs may be; from it follow  *)
(* AckedEverywhere, AckedOnMajority and NeverTerminated.                   *)
(***************************************************************************)
EXTENDS Failover_proofs

\* What the theorems assume of the constants: one client, no DEL, a cluster in
\* which all but one are a majority and the quorum is all followers, and room
\* for two entries for every command.
FaultSetting ==
  /\ \A c, d \in Client : c = d
  /\ Nodes \in {3, 4}
  /\ \A cmd \in Workload : cmd.op # "DEL"
  /\ 2 * MaxCmd <= MaxLog

\* What they assume of the steps: no command overtakes a rollback its sender has
\* ordered before.
RollbackFirst ==
  \A a, s \in Server : \A n \in 1 .. Len(net[a][s]) :
    HandlePre(a, s, n) \/ HandleCom(a, s, n) =>
      \A k \in 1 .. n : net[a][s][k].type # "ROLL"

\* They speak of the time up to the first timeout and the second crash.
Over == timeouts > 0 \/ crashes > 1

Others == Server \ {Boot}

-----------------------------------------------------------------------------
(***************************************************************************)
(* The network of a cluster whose LEADER is the boot node.                 *)
(***************************************************************************)

\* The boot node orders, the others answer it, and clients ask it.
Allowed(a, b, m) ==
  \/ a \in Client /\ b = Boot /\ m.type = "CLIENT"
  \/ /\ a = Boot /\ b # Boot /\ m.type \in {"HEART", "RECOVER", "PRE", "COM", "ROLL"}
     /\ m.type = "HEART" => m.round = 0
  \/ a \in Others /\ b = Boot /\ m.type \in {"HEARTRE", "PRERE", "COMRE", "ROLLRE"}

Proper(nt) == \A a \in Node, b \in Server : \A n \in 1 .. Len(nt[a][b]) : Allowed(a, b, nt[a][b][n])

\* There is a rollback in the queue; at most one, and ahead of the next command.
Rolling(q) == \E n \in 1 .. Len(q) : q[n].type = "ROLL"

Lined(q) ==
  /\ Once(q, {"ROLL"})
  /\ \A k, n \in 1 .. Len(q) : q[k].type = "ROLL" /\ q[n].type \in {"PRE", "COM"} => k < n

Tidy(nt) == Single(nt) /\ Proper(nt) /\ \A f \in Server : Lined(nt[Boot][f])

RollTo(nt, f) == Rolling(nt[Boot][f])

-----------------------------------------------------------------------------
(***************************************************************************)
(* The nodes.                                                              *)
(***************************************************************************)

\* Nobody but the boot node leads and knows its client, in round 0, and its
\* position counts its log.
Led ==
  /\ \A s \in Server : round[s] = 0 /\ tokens[s] = 0
  /\ \A s \in Others : pstate[s] = "FOLLOWER" /\ client[s] = Nil
  /\ pstate[Boot] = "LEADER"
  /\ issued <= MaxCmd
  /\ \A c \in Client : pending[c] # Nil => pending[c] \in Workload
  /\ store[Boot].posi = Len(store[Boot].log)

\* The nodes in T have been running from the start: all, or all but one.
Steady(T) ==
  /\ T \subseteq Server
  /\ crashes = 0 => T = Server
  /\ \E d \in Server : Server \ {d} \subseteq T
  /\ \A s \in T : status[s] = "up" /\ store[s].posi = Len(store[s].log)

Bit(P) == IF P THEN 1 ELSE 0

\* The entry on top is prepared; it is that of the command under way.
Uncommitted(st) == st.posi > 0 /\ TopState(st) = "PRE"

Cmd == pending[client[Boot]]

OnTop(s) == Uncommitted(store[s]) /\ Top(store[s]).cmd = Cmd

\* A log is h entries longer than b, and h longer than where an entry on its
\* way to it for recovery belongs, so that this is written only if h = 0, and
\* never if it is committed.
Place(m) == m.posi + Bit(m.entry.state = "COMMIT")

Ahead(st, copies, b, h) ==
  /\ b + h <= st.posi
  /\ \A m \in copies : Place(m) + h <= st.posi

\* The command that has been issued and not written yet.
Load == Bit(\E c \in Client : Mail(net, c, Boot) # {})

\* The log has room for the entries of n commands, written twice, of which
\* load are still to be written.
Roomy(st, copies, load, n) ==
  /\ st.posi + 2 * load <= 2 * n
  /\ \A m \in copies : m.posi + 1 + load <= n

\* Between two commands, or with one that the LEADER has not taken, or has lost.
RestAt(f) ==
  /\ Ahead(store[f], Copies(net, Boot, f), store[Boot].posi, Bit(RollTo(net, f)))
  /\ RollTo(net, f) => Uncommitted(store[f])
  /\ Roomy(store[f], Copies(net, Boot, f), Load, issued)

Resting(T) ==
  /\ \A a \in Node, b \in Server : \A m \in Mail(net, a, b) :
       m.type = "CLIENT" /\ pending[m.client] = m.cmd
  /\ acks[Boot] = NoAcks
  /\ store[Boot].posi + Load <= issued
  /\ \A s \in T : store[s].db = Acknowledged
  /\ \A f \in T \ {Boot} : RestAt(f)

\* The LEADER has written the command of its client.
UnderWay ==
  /\ client[Boot] \in Client /\ Cmd # Nil /\ OnTop(Boot)
  /\ store[Boot].posi <= issued

\* Follower f has answered; the LEADER has counted the answers of those in C.
Told(nt, f, C) == f \in C \/ Mail(nt, f, Boot) # {}

\* First phase, those in C having answered: none in T refuses.
CollectAt(f, C) ==
  /\ Ahead(store[f], Copies(net, Boot, f), store[Boot].posi - 1, Bit(RollTo(net, f) \/ Told(net, f, C)))
  /\ RollTo(net, f) => Uncommitted(store[f])
  /\ Told(net, f, C) => OnTop(f) /\ ~RollTo(net, f)
  /\ \A m \in Mail(net, f, Boot) : m.ok
  /\ Mail(net, Boot, f) # {} => store[f].posi < 2 * issued
  /\ Roomy(store[f], Copies(net, Boot, f), 0, issued)

\* Y have agreed and N refused.
Collecting(T, Y, N) ==
  /\ UnderWay
  /\ Polling(net, Boot, Y \cup N, "PRE", "PRERE") /\ Y \cap N = {}
  /\ acks[Boot] = [pOk |-> Cardinality(Y), pErr |-> Cardinality(N), cOk |-> 0, cErr |-> 0]
  /\ \A f \in Others : \A m \in Mail(net, Boot, f) : m.cmd = Cmd
  /\ \A s \in T : store[s].db = Acknowledged
  /\ \A f \in T \ {Boot} : CollectAt(f, Y \cup N) /\ f \notin N

\* Second phase.  Only a GET is refused, and remains on top.
CloseAt(f, Y, N) ==
  /\ Ahead(store[f], Copies(net, Boot, f), store[Boot].posi - 1, 1) /\ ~RollTo(net, f)
  /\ Mail(net, Boot, f) # {} => OnTop(f) /\ store[f].db = Acknowledged
  /\ Told(net, f, Y \cup N) => store[f].db = Effect(Acknowledged, Cmd)
  /\ f \in N \/ (\E m \in Mail(net, f, Boot) : ~m.ok) => Cmd.op = "GET" /\ Uncommitted(store[f])
  /\ Roomy(store[f], Copies(net, Boot, f), 0, issued)

Closing(T, Y, N) ==
  /\ UnderWay
  /\ Polling(net, Boot, Y \cup N, "COM", "COMRE") /\ Y \cap N = {}
  /\ acks[Boot] = [pOk |-> 0, pErr |-> 0, cOk |-> Cardinality(Y), cErr |-> Cardinality(N)]
  /\ \A f \in Others : Told(net, f, Y \cup N) => ~RollTo(net, f)
  /\ Boot \in T => store[Boot].db = Acknowledged
  /\ \A f \in T \ {Boot} : CloseAt(f, Y, N)

Lives(T) ==
  \/ Resting(T)
  \/ \E Y, N \in SUBSET Server : Collecting(T, Y, N) \/ Closing(T, Y, N)

Alive == Led /\ Tidy(net) /\ \E T \in SUBSET Server : Steady(T) /\ Lives(T)

\* No message of type t is under way.
Lacks(nt, t) == \A a \in Node, b \in Server : \A n \in 1 .. Len(nt[a][b]) : nt[a][b][n].type # t

\* The boot node has crashed with a command under way, and knows its client no
\* more: the client waits for ever.
Dead ==
  /\ crashes > 0
  /\ \E c \in Client : pending[c] # Nil
  /\ \A s \in Server : client[s] = Nil
  /\ Lacks(net, "CLIENT")

\* Only Timer sets out to raise a round.
Unhurried == timeouts = 0 => \A s \in Server : timer[s] # "standing"

FaultInv == Inv /\ Unhurried /\ (Over \/ Undefined \/ Dead \/ Alive)

-----------------------------------------------------------------------------
\* A queue without its n-th message is in line if it was.
LEMMA LinedTaken ==
  ASSUME NEW q \in Seq(Message), NEW n \in 1 .. Len(q), Lined(q)
  PROVE  /\ Lined(RemoveAt(q, n))
         /\ Rolling(RemoveAt(q, n)) => Rolling(q) /\ q[n].type # "ROLL"
         /\ \A i \in 1 .. Len(RemoveAt(q, n)) : \E j \in 1 .. Len(q) : RemoveAt(q, n)[i] = q[j]
<1> DEFINE u == RemoveAt(q, n)
<1>1. Len(u) = Len(q) - 1 /\ Len(q) \in Nat /\ n \in 1 .. Len(q)
      /\ \A i \in 1 .. Len(q) - 1 : u[i] = IF i < n THEN q[i] ELSE q[i + 1]
  <2>1. Len(q) \in Nat /\ n \in 1 .. Len(q)
    OBVIOUS
  <2> QED
    BY <2>1, Removed
<1>2. Once(u, {"ROLL"})
  BY RemovedKinds DEF Lined
<1> HIDE DEF u
<1>3. ASSUME NEW i \in 1 .. Len(u)
      PROVE  \E j \in 1 .. Len(q) : j # n /\ u[i] = q[j] /\ j = IF i < n THEN i ELSE i + 1
  <2>1. i \in 1 .. Len(q) - 1 /\ i \in 1 .. Len(q) /\ i + 1 \in 1 .. Len(q) /\ i + 1 # i
    BY <1>1
  <2>2. CASE i < n
    BY <1>1, <2>1, <2>2
  <2>3. CASE ~(i < n)
    <3>1. i + 1 # n
      BY <1>1, <2>1, <2>3
    <3> QED
      BY <1>1, <2>1, <2>3, <3>1
  <2> QED
    BY <2>2, <2>3
<1>4. ASSUME NEW i \in 1 .. Len(u), NEW k \in 1 .. Len(u), u[i].type = "ROLL",
             u[k].type \in {"PRE", "COM"}
      PROVE  i < k
  <2>1. PICK j \in 1 .. Len(q) : u[i] = q[j] /\ j = IF i < n THEN i ELSE i + 1
    BY <1>3
  <2>2. PICK l \in 1 .. Len(q) : u[k] = q[l] /\ l = IF k < n THEN k ELSE k + 1
    BY <1>3
  <2>3. j < l
    BY <1>4, <2>1, <2>2 DEF Lined
  <2> QED
    BY <1>1, <2>1, <2>2, <2>3
<1>5. ASSUME Rolling(u)
      PROVE  Rolling(q) /\ q[n].type # "ROLL"
  <2>1. PICK i \in 1 .. Len(u) : u[i].type = "ROLL"
    BY <1>5 DEF Rolling
  <2>2. PICK j \in 1 .. Len(q) : j # n /\ u[i] = q[j]
    BY <1>3
  <2> QED
    BY <2>1, <2>2 DEF Rolling, Lined, Once
<1>6. Lined(u)
  BY <1>2, <1>4 DEF Lined
<1> QED
  BY <1>3, <1>5, <1>6 DEF u

\* It stays so when a message is added, a rollback only if there is none.
LEMMA LinedSent ==
  ASSUME NEW q \in Seq(Message), NEW m \in Message, Lined(q),
         m.type = "ROLL" => ~Rolling(q) /\ OfKind(q, Tracked) = {}
  PROVE  /\ Lined(Append(q, m))
         /\ Rolling(Append(q, m)) <=> Rolling(q) \/ m.type = "ROLL"
<1> DEFINE u == Append(q, m)
<1>1. Len(u) = Len(q) + 1 /\ Len(q) \in Nat /\ u[Len(q) + 1] = m /\ \A i \in 1 .. Len(q) : u[i] = q[i]
  OBVIOUS
<1> HIDE DEF u
<1>2. \A i \in 1 .. Len(u) : i \in 1 .. Len(q) \/ i = Len(q) + 1
  BY <1>1
<1>3. \A i \in 1 .. Len(q) : i \in 1 .. Len(u) /\ i < Len(q) + 1
  BY <1>1
<1>4. Len(q) + 1 \in 1 .. Len(u)
  BY <1>1
<1>5. m.type = "ROLL" => \A i \in 1 .. Len(q) : q[i].type \notin {"ROLL", "PRE", "COM"}
  BY DEF Rolling, OfKind, Tracked
<1>6. Once(u, {"ROLL"})
  BY <1>1, <1>2, <1>5 DEF Once, Lined
<1>7. ASSUME NEW i \in 1 .. Len(u), NEW k \in 1 .. Len(u), u[i].type = "ROLL",
             u[k].type \in {"PRE", "COM"}
      PROVE  i < k
  <2>1. CASE i \in 1 .. Len(q) /\ k \in 1 .. Len(q)
    BY <1>1, <1>7, <2>1 DEF Lined
  <2>2. CASE i \in 1 .. Len(q) /\ k = Len(q) + 1
    BY <1>3, <2>2
  <2>3. CASE i = Len(q) + 1
    <3>1. m.type = "ROLL"
      BY <1>1, <1>7, <2>3
    <3>2. k \notin 1 .. Len(q)
      BY <1>1, <1>5, <1>7, <3>1
    <3>3. u[k] = m
      BY <1>1, <1>2, <3>2
    <3> QED
      BY <1>7, <3>1, <3>3
  <2> QED
    BY <1>2, <2>1, <2>2, <2>3
<1>8. Rolling(u) <=> Rolling(q) \/ m.type = "ROLL"
  BY <1>1, <1>2, <1>3, <1>4 DEF Rolling
<1> QED
  BY <1>6, <1>7, <1>8 DEF u, Lined

-----------------------------------------------------------------------------
\* A message is taken: the network stays tidy, and no rollback is new.
LEMMA TidyTaken ==
  ASSUME net \in Nets, Tidy(net), NEW a \in Node, NEW s \in Server, NEW n \in 1 .. Len(net[a][s])
  PROVE  /\ Taken(a, s, n) \in Nets /\ Tidy(Taken(a, s, n))
         /\ \A f \in Server : RollTo(Taken(a, s, n), f) =>
              RollTo(net, f) /\ ~(a = Boot /\ f = s /\ net[a][s][n].type = "ROLL")
<1> DEFINE t == Taken(a, s, n)
           q == net[a][s]
           u == RemoveAt(q, n)
<1>1. /\ Boot \in Node /\ q \in Seq(Message) /\ n \in 1 .. Len(q) /\ Single(net) /\ Proper(net)
      /\ \A f \in Server : Lined(net[Boot][f])
  BY ClusterConstants DEF Nets, Node, Tidy
<1>2. t \in Nets /\ Single(t)
  BY <1>1, TakenType, MailTaken
<1>3. \A x \in Node, y \in Server : t[x][y] = IF x = a /\ y = s THEN u ELSE net[x][y]
  BY TakenNet
<1> HIDE DEF t, q
<1>4. \A i \in 1 .. Len(u) : \E j \in 1 .. Len(q) : u[i] = q[j]
  <2>1. Len(u) = Len(q) - 1 /\ Len(q) \in Nat /\ n \in 1 .. Len(q)
        /\ \A i \in 1 .. Len(q) - 1 : u[i] = IF i < n THEN q[i] ELSE q[i + 1]
    <3>1. Len(q) \in Nat /\ n \in 1 .. Len(q)
      BY <1>1
    <3> QED
      BY <1>1, <3>1, Removed
  <2> HIDE DEF u
  <2> QED
    BY <2>1
<1>5. Proper(t)
  <2> SUFFICES ASSUME NEW x \in Node, NEW y \in Server, NEW i \in 1 .. Len(t[x][y])
               PROVE  Allowed(x, y, t[x][y][i])
    BY DEF Proper
  <2>1. CASE x = a /\ y = s
    <3>1. PICK j \in 1 .. Len(net[a][s]) : t[x][y][i] = net[a][s][j]
      BY <1>3, <1>4, <2>1 DEF q
    <3> QED
      BY <1>1, <2>1, <3>1 DEF Proper
  <2>2. CASE ~(x = a /\ y = s)
    BY <1>1, <1>3, <2>2 DEF Proper
  <2> QED
    BY <2>1, <2>2
<1>6. ASSUME NEW f \in Server
      PROVE  /\ Lined(t[Boot][f])
             /\ RollTo(t, f) => RollTo(net, f) /\ ~(a = Boot /\ f = s /\ q[n].type = "ROLL")
  <2>1. CASE Boot = a /\ f = s
    <3>1. t[Boot][f] = u /\ net[Boot][f] = q /\ Lined(q)
      BY <1>1, <1>3, <2>1 DEF q
    <3>2. Lined(u) /\ (Rolling(u) => Rolling(q) /\ q[n].type # "ROLL")
      BY <1>1, <3>1, LinedTaken
    <3> QED
      BY <3>1, <3>2 DEF RollTo
  <2>2. CASE ~(Boot = a /\ f = s)
    <3>1. t[Boot][f] = net[Boot][f]
      BY <1>1, <1>3, <2>2
    <3> QED
      BY <1>1, <2>2, <3>1 DEF RollTo
  <2> QED
    BY <2>1, <2>2
<1> QED
  BY <1>2, <1>5, <1>6 DEF t, q, Tidy

\* A message other than a rollback is sent to one node.
LEMMA TidySent ==
  ASSUME NEW nt \in Nets, Tidy(nt), NEW a \in Node, NEW b \in Server, NEW m \in Message,
         Allowed(a, b, m), m.type # "ROLL",
         m.type \in Tracked => \A o \in Mail(nt, a, b) : o.type # m.type
  PROVE  /\ With(nt, a, b, m) \in Nets /\ Tidy(With(nt, a, b, m))
         /\ \A f \in Server : RollTo(With(nt, a, b, m), f) <=> RollTo(nt, f)
<1> DEFINE w == With(nt, a, b, m)
           q == nt[a][b]
           u == Append(q, m)
<1>1. /\ Boot \in Node /\ q \in Seq(Message) /\ Single(nt) /\ Proper(nt)
      /\ \A f \in Server : Lined(nt[Boot][f])
  BY ClusterConstants DEF Nets, Node, Tidy
<1>2. w \in Nets /\ Single(w)
  BY <1>1, WithType, MailSent
<1>3. \A x \in Node, y \in Server : w[x][y] = IF x = a /\ y = b THEN u ELSE nt[x][y]
  BY WithNet
<1>4. \A i \in 1 .. Len(u) : u[i] = m \/ \E j \in 1 .. Len(q) : u[i] = q[j]
  BY <1>1
<1> HIDE DEF w, q
<1>5. Proper(w)
  <2> SUFFICES ASSUME NEW x \in Node, NEW y \in Server, NEW i \in 1 .. Len(w[x][y])
               PROVE  Allowed(x, y, w[x][y][i])
    BY DEF Proper
  <2>1. CASE x = a /\ y = b
    <3>1. w[x][y][i] = m \/ \E j \in 1 .. Len(nt[a][b]) : w[x][y][i] = nt[a][b][j]
      BY <1>3, <1>4, <2>1 DEF q
    <3> QED
      BY <1>1, <2>1, <3>1 DEF Proper
  <2>2. CASE ~(x = a /\ y = b)
    BY <1>1, <1>3, <2>2 DEF Proper
  <2> QED
    BY <2>1, <2>2
<1>6. ASSUME NEW f \in Server
      PROVE  Lined(w[Boot][f]) /\ (RollTo(w, f) <=> RollTo(nt, f))
  <2>1. CASE Boot = a /\ f = b
    <3>1. w[Boot][f] = u /\ nt[Boot][f] = q /\ Lined(q)
      BY <1>1, <1>3, <2>1 DEF q
    <3>2. Lined(u) /\ (Rolling(u) <=> Rolling(q))
      BY <1>1, <3>1, LinedSent
    <3> QED
      BY <3>1, <3>2 DEF RollTo
  <2>2. CASE ~(Boot = a /\ f = b)
    <3>1. w[Boot][f] = nt[Boot][f]
      BY <1>1, <1>3, <2>2
    <3> QED
      BY <1>1, <3>1 DEF RollTo
  <2> QED
    BY <2>1, <2>2
<1> QED
  BY <1>2, <1>5, <1>6 DEF w, Tidy

\* A message is sent to all followers, a rollback when none is on its way.
LEMMA TidySentAll ==
  ASSUME NEW nt \in Nets, Tidy(nt), NEW m \in Message, m.type # "RECOVER",
         \A b \in Others : Allowed(Boot, b, m),
         m.type \in Tracked => \A b \in Others : \A o \in Mail(nt, Boot, b) : o.type # m.type,
         m.type = "ROLL" => \A b \in Others : ~RollTo(nt, b) /\ Mail(nt, Boot, b) = {}
  PROVE  /\ WithAll(nt, Boot, m) \in Nets /\ Tidy(WithAll(nt, Boot, m))
         /\ \A f \in Server : RollTo(WithAll(nt, Boot, m), f) <=>
              RollTo(nt, f) \/ (m.type = "ROLL" /\ f # Boot)
<1> DEFINE w == WithAll(nt, Boot, m)
<1>1. /\ Boot \in Node /\ Boot \in Server /\ Single(nt) /\ Proper(nt)
      /\ \A f \in Server : Lined(nt[Boot][f]) /\ nt[Boot][f] \in Seq(Message)
  BY ClusterConstants DEF Nets, Node, Tidy
<1>2. w \in Nets /\ Single(w)
  BY <1>1, WithAllType, MailSentAll DEF Others
<1>3. \A x \in Node, y \in Server :
        w[x][y] = IF x = Boot /\ y # Boot THEN Append(nt[Boot][y], m) ELSE nt[x][y]
  BY <1>1, WithAllNet
<1> HIDE DEF w
<1>4. Proper(w)
  <2> SUFFICES ASSUME NEW x \in Node, NEW y \in Server, NEW i \in 1 .. Len(w[x][y])
               PROVE  Allowed(x, y, w[x][y][i])
    BY DEF Proper
  <2>1. CASE x = Boot /\ y # Boot
    <3> DEFINE q == nt[Boot][y]
    <3>1. q \in Seq(Message) /\ w[x][y] = Append(q, m) /\ y \in Others
      BY <1>1, <1>3, <2>1 DEF Others
    <3>2. Append(q, m)[i] = m \/ \E j \in 1 .. Len(q) : Append(q, m)[i] = q[j]
      BY <3>1
    <3> QED
      BY <1>1, <2>1, <3>1, <3>2 DEF Proper
  <2>2. CASE ~(x = Boot /\ y # Boot)
    BY <1>1, <1>3, <2>2 DEF Proper
  <2> QED
    BY <2>1, <2>2
<1>5. ASSUME NEW f \in Server
      PROVE  Lined(w[Boot][f]) /\ (RollTo(w, f) <=> RollTo(nt, f) \/ (m.type = "ROLL" /\ f # Boot))
  <2>1. CASE f # Boot
    <3> DEFINE q == nt[Boot][f]
    <3>1. q \in Seq(Message) /\ Lined(q) /\ w[Boot][f] = Append(q, m) /\ f \in Others
      BY <1>1, <1>3, <2>1 DEF Others
    <3>2. m.type = "ROLL" => ~Rolling(q) /\ OfKind(q, Tracked) = {}
      BY <3>1 DEF RollTo, Mail
    <3> HIDE DEF q
    <3>3. Lined(Append(q, m)) /\ (Rolling(Append(q, m)) <=> Rolling(q) \/ m.type = "ROLL")
      BY <3>1, <3>2, LinedSent
    <3> QED
      BY <2>1, <3>1, <3>3 DEF RollTo, q
  <2>2. CASE f = Boot
    <3>1. w[Boot][f] = nt[Boot][f]
      BY <1>1, <1>3, <2>2
    <3> QED
      BY <1>1, <2>2, <3>1 DEF RollTo
  <2> QED
    BY <2>1, <2>2
<1> QED
  BY <1>2, <1>4, <1>5 DEF w, Tidy

-----------------------------------------------------------------------------
(***************************************************************************)
(* Positions.                                                              *)
(***************************************************************************)

\* The types of what is on the way, and of the nodes' data.
Typed ==
  /\ net \in Nets /\ Boot \in Server /\ Boot \in Node /\ Server \subseteq Node
  /\ \A f \in Server : store[f] \in Store /\ store[f].posi \in Int
  /\ \A a \in Node, b \in Server : \A m \in Copies(net, a, b) :
       /\ m \in Message /\ m.type = "RECOVER"
       /\ m.posi \in Nat /\ m.entry \in Sent /\ Place(m) \in Nat
  /\ \A a \in Node, b \in Server : \A m \in Mail(net, a, b) : m \in Message /\ m.type \in Tracked
  /\ issued \in Nat /\ Load \in Nat /\ Load <= 1

\* They follow from the type invariant, in every state.
LEMMA Basics == Inv => Typed
<1> SUFFICES ASSUME Inv
             PROVE  Typed
  OBVIOUS
<1>1. /\ net \in Nets /\ Boot \in Server /\ Boot \in Node /\ Server \subseteq Node
      /\ store \in [Server -> Store] /\ issued \in Nat
  BY ClusterConstants DEF Inv, TypeOK, Nets, Node
<1>2. \A f \in Server : store[f] \in Store /\ store[f].posi \in Int
  BY <1>1 DEF Store
<1>3. ASSUME NEW a \in Node, NEW b \in Server, NEW types, NEW m \in OfKind(net[a][b], types)
      PROVE  m \in Message /\ m.type \in types
  <2>1. net[a][b] \in Seq(Message)
    BY <1>1 DEF Nets
  <2> QED
    BY <1>3, <2>1 DEF OfKind
<1>4. ASSUME NEW a \in Node, NEW b \in Server, NEW m \in Copies(net, a, b)
      PROVE  /\ m \in Message /\ m.type = "RECOVER"
             /\ m.posi \in Nat /\ m.entry \in Sent /\ Place(m) \in Nat
  <2>1. m \in OfKind(net[a][b], {"RECOVER"})
    BY DEF Copies
  <2>2. m \in Message /\ m.type \in {"RECOVER"}
    BY <1>3, <2>1
  <2>3. m.posi \in Nat /\ m.entry \in Sent
    BY <2>2, MessageFields
  <2> QED
    BY <2>2, <2>3 DEF Place, Bit
<1>5. ASSUME NEW a \in Node, NEW b \in Server, NEW m \in Mail(net, a, b)
      PROVE  m \in Message /\ m.type \in Tracked
  BY <1>3, <1>5 DEF Mail
<1>6. Load \in Nat /\ Load <= 1
  BY DEF Load, Bit
<1> QED
  BY <1>1, <1>2, <1>4, <1>5, <1>6 DEF Typed

\* So they do after a step.
LEMMA BasicsNext == Inv' => Typed'
BY Basics, PTL

\* A log keeps its distance when it grows as much as the distance does, and
\* the copies that are added are of entries further down.
LEMMA AheadStep ==
  ASSUME NEW st, NEW t, st.posi \in Int, t.posi \in Int, NEW old, NEW new,
         NEW b \in Int, NEW d \in Int, NEW h \in Int, NEW j \in Int,
         Ahead(st, old, b, h), d <= b, j + st.posi <= h + t.posi,
         \A m \in new : Place(m) \in Int /\ (m \in old \/ Place(m) <= b)
  PROVE  Ahead(t, new, d, j)
<1>1. d + j <= t.posi
  BY DEF Ahead
<1>2. ASSUME NEW m \in new
      PROVE  Place(m) + j <= t.posi
  <2>1. CASE m \in old
    <3>1. Place(m) + h <= st.posi /\ Place(m) \in Int
      BY <2>1 DEF Ahead
    <3> QED
      BY <3>1
  <2>2. CASE Place(m) <= b
    <3>1. b + h <= st.posi /\ Place(m) \in Int
      BY DEF Ahead
    <3> QED
      BY <2>2, <3>1
  <2> QED
    BY <2>1, <2>2
<1> QED
  BY <1>1, <1>2 DEF Ahead

\* So it does with its room.
LEMMA RoomyStep ==
  ASSUME NEW st, NEW t, NEW old, NEW new, NEW l \in Nat, NEW k \in Nat, NEW n \in Nat, NEW i \in Nat,
         Roomy(st, old, l, n), k + n <= l + i, t.posi + 2 * k <= 2 * i,
         \A m \in new : m.posi \in Int /\ (m \in old \/ m.posi + 1 + l <= n)
  PROVE  Roomy(t, new, k, i)
<1>1. ASSUME NEW m \in new
      PROVE  m.posi + 1 + k <= i
  <2>1. m.posi + 1 + l <= n /\ m.posi \in Int
    BY DEF Roomy
  <2> QED
    BY <2>1
<1> QED
  BY <1>1 DEF Roomy

\* The copy of an entry the LEADER has, and not of one it commits next.
Spare(m) ==
  /\ m.posi \in Nat /\ m.posi + 1 <= store[Boot].posi
  /\ Uncommitted(store[Boot]) => Place(m) + 1 <= store[Boot].posi

\* In the network nt follower f has no news of the command under way.
Hushed(nt, f) ==
  /\ Mail(nt, Boot, f) \subseteq Mail(net, Boot, f) /\ Mail(nt, f, Boot) \subseteq Mail(net, f, Boot)
  /\ RollTo(nt, f) => RollTo(net, f)
  /\ \A m \in Copies(nt, Boot, f) : m \in Copies(net, Boot, f) \/ Spare(m)

\* Nobody has.
Quiet(nt) ==
  /\ \A a \in Node, b \in Server : Mail(nt, a, b) \subseteq Mail(net, a, b)
  /\ \A f \in Server : Hushed(nt, f)

\* Between two commands, a follower that has written or popped an entry, or none.
LEMMA RestMoved ==
  ASSUME Inv, Inv', NEW f \in Server, RestAt(f),
         \A m \in Copies(net', Boot, f) : m \in Copies(net, Boot, f) \/ Spare(m),
         store'[Boot].posi <= store[Boot].posi, Load' <= Load, issued' = issued,
         store[Boot].posi + Load <= issued,
         Bit(RollTo(net', f)) + store[f].posi <= Bit(RollTo(net, f)) + store'[f].posi,
         RollTo(net', f) => Uncommitted(store'[f]),
         store'[f].posi + 2 * Load' <= 2 * issued
  PROVE  RestAt(f)'
<1> DEFINE st == store[f]
           t == store'[f]
           old == Copies(net, Boot, f)
           new == Copies(net', Boot, f)
           b == store[Boot].posi
           d == store'[Boot].posi
           h == Bit(RollTo(net, f))
           j == Bit(RollTo(net', f))
           l == Load
           k == Load'
           i == issued
<1>1. /\ st.posi \in Int /\ b \in Int /\ i \in Nat /\ l \in Nat
      /\ \A m \in old : m.posi \in Nat /\ Place(m) \in Int
  BY Basics DEF Typed
<1>2. /\ d \in Int /\ k \in Nat /\ t.posi \in Int
      /\ \A m \in new : m.posi \in Nat /\ Place(m) \in Int /\ Place(m) <= m.posi + 1
  <2>1. /\ d \in Int /\ k \in Nat /\ t.posi \in Int /\ \A m \in new : m.posi \in Nat /\ Place(m) \in Nat
    BY BasicsNext DEF Typed
  <2>2. \A m : m.posi \in Nat => Place(m) <= m.posi + 1
    BY DEF Place, Bit
  <2> QED
    BY <2>1, <2>2
<1>3. h \in Int /\ j \in Int
  BY DEF Bit
<1>4. \A m \in new : m \in old \/ m.posi + 1 <= b
  BY DEF Spare
<1>5. /\ Ahead(st, old, b, h) /\ Roomy(st, old, l, i) /\ d <= b /\ k <= l /\ b + l <= i
      /\ j + st.posi <= h + t.posi /\ t.posi + 2 * k <= 2 * i
  BY DEF RestAt
<1>6. RestAt(f)' <=> /\ Ahead(t, new, d, j)
                     /\ RollTo(net', f) => Uncommitted(store'[f])
                     /\ Roomy(t, new, k, issued')
  BY DEF RestAt
<1> HIDE DEF st, t, old, new, b, d, h, j, l, k, i
<1>7. Ahead(t, new, d, j)
  <2>1. \A m \in new : Place(m) \in Int /\ (m \in old \/ Place(m) <= b)
    BY <1>1, <1>2, <1>4
  <2> QED
    BY <1>1, <1>2, <1>3, <1>5, <2>1, AheadStep
<1>8. Roomy(t, new, k, i)
  <2>1. \A m \in new : m.posi \in Int /\ (m \in old \/ m.posi + 1 + l <= i)
    BY <1>1, <1>2, <1>4, <1>5
  <2> QED
    BY <1>1, <1>2, <1>5, <2>1, RoomyStep
<1> QED
  BY <1>6, <1>7, <1>8 DEF i

\* One that has no news.
LEMMA RestKept ==
  ASSUME Inv, Inv', NEW f \in Server, RestAt(f), Hushed(net', f), store'[f] = store[f],
         store'[Boot].posi <= store[Boot].posi, Load' <= Load, issued' = issued,
         store[Boot].posi + Load <= issued
  PROVE  RestAt(f)'
<1>1. \A m \in Copies(net', Boot, f) : m \in Copies(net, Boot, f) \/ Spare(m)
  BY DEF Hushed
<1>2. store[f].posi \in Int /\ issued \in Nat /\ Load \in Nat /\ Load' \in Nat
  BY Basics, BasicsNext DEF Typed
<1>3. Bit(RollTo(net', f)) + store[f].posi <= Bit(RollTo(net, f)) + store'[f].posi
  BY <1>2 DEF Bit, Hushed
<1>4. RollTo(net', f) => Uncommitted(store'[f])
  BY DEF RestAt, Hushed
<1>5. store'[f].posi + 2 * Load' <= 2 * issued
  BY <1>2 DEF RestAt, Roomy
<1> QED
  BY <1>1, <1>3, <1>4, <1>5, RestMoved

\* In the first phase, a follower that has written or popped an entry, or none.
LEMMA CollectMoved ==
  ASSUME Inv, Inv', UnderWay, NEW f \in Server, NEW C, NEW D, CollectAt(f, C),
         \A m \in Copies(net', Boot, f) : m \in Copies(net, Boot, f) \/ Spare(m),
         store'[Boot].posi = store[Boot].posi, issued' = issued,
         Bit(RollTo(net', f) \/ Told(net', f, D)) + store[f].posi
           <= Bit(RollTo(net, f) \/ Told(net, f, C)) + store'[f].posi,
         RollTo(net', f) => Uncommitted(store'[f]),
         Told(net', f, D) => Uncommitted(store'[f]) /\ Top(store'[f]).cmd = Cmd' /\ ~RollTo(net', f),
         \A m \in Mail(net', f, Boot) : m.ok,
         Mail(net', Boot, f) # {} => store'[f].posi < 2 * issued,
         store'[f].posi <= 2 * issued
  PROVE  CollectAt(f, D)'
<1> DEFINE st == store[f]
           t == store'[f]
           old == Copies(net, Boot, f)
           new == Copies(net', Boot, f)
           b == store[Boot].posi - 1
           h == Bit(RollTo(net, f) \/ Told(net, f, C))
           j == Bit(RollTo(net', f) \/ Told(net', f, D))
           i == issued
<1>1. /\ st.posi \in Int /\ b \in Int /\ i \in Nat
      /\ \A m \in old : m.posi \in Nat /\ Place(m) \in Int
  BY Basics DEF Typed
<1>2. t.posi \in Int /\ \A m \in new : m.posi \in Nat /\ Place(m) \in Int
  BY BasicsNext DEF Typed
<1>3. h \in Int /\ j \in Int
  BY DEF Bit
<1>4. \A m \in new : m \in old \/ (m.posi + 1 <= i /\ Place(m) <= b)
  <2>1. \A m \in new : Spare(m) => m.posi + 1 <= store[Boot].posi /\ Place(m) + 1 <= store[Boot].posi
    BY DEF UnderWay, OnTop, Spare
  <2>2. store[Boot].posi \in Int /\ store[Boot].posi <= issued
    BY Basics DEF Typed, UnderWay
  <2> QED
    BY <1>1, <1>2, <2>1, <2>2
<1>5. /\ Ahead(st, old, b, h) /\ Roomy(st, old, 0, i)
      /\ j + st.posi <= h + t.posi /\ t.posi + 2 * 0 <= 2 * i
  BY <1>1, <1>2 DEF CollectAt
<1>6. CollectAt(f, D)' <=>
        /\ Ahead(t, new, store'[Boot].posi - 1, j)
        /\ RollTo(net', f) => Uncommitted(store'[f])
        /\ Told(net', f, D) => Uncommitted(store'[f]) /\ Top(store'[f]).cmd = Cmd' /\ ~RollTo(net', f)
        /\ \A m \in Mail(net', f, Boot) : m.ok
        /\ Mail(net', Boot, f) # {} => store'[f].posi < 2 * issued'
        /\ Roomy(t, new, 0, issued')
  BY DEF CollectAt, OnTop
<1>7. store'[Boot].posi - 1 = b /\ issued' = i
  OBVIOUS
<1> HIDE DEF st, t, old, new, b, h, j
<1>8. Ahead(t, new, b, j)
  BY <1>1, <1>2, <1>3, <1>4, <1>5, AheadStep
<1>9. Roomy(t, new, 0, i)
  <2>1. \A m \in new : m.posi \in Int /\ (m \in old \/ m.posi + 1 + 0 <= i)
    BY <1>1, <1>2, <1>4
  <2> HIDE DEF i
  <2> QED
    BY <1>1, <1>5, <2>1, RoomyStep
<1> QED
  BY <1>6, <1>7, <1>8, <1>9

\* One that has no news.
LEMMA CollectKept ==
  ASSUME Inv, Inv', UnderWay, NEW f \in Server, NEW C, NEW D, CollectAt(f, C), Hushed(net', f),
         store'[f] = store[f], store'[Boot].posi = store[Boot].posi, Cmd' = Cmd, issued' = issued,
         Told(net', f, D) => Told(net, f, C)
  PROVE  CollectAt(f, D)'
<1>1. \A m \in Copies(net', Boot, f) : m \in Copies(net, Boot, f) \/ Spare(m)
  BY DEF Hushed
<1>2. store[f].posi \in Int /\ issued \in Nat
  BY Basics DEF Typed
<1>3. Bit(RollTo(net', f) \/ Told(net', f, D)) + store[f].posi
        <= Bit(RollTo(net, f) \/ Told(net, f, C)) + store'[f].posi
  BY <1>2 DEF Bit, Hushed
<1>4. /\ RollTo(net', f) => Uncommitted(store'[f])
      /\ Told(net', f, D) => Uncommitted(store'[f]) /\ Top(store'[f]).cmd = Cmd' /\ ~RollTo(net', f)
      /\ \A m \in Mail(net', f, Boot) : m.ok
      /\ Mail(net', Boot, f) # {} => store'[f].posi < 2 * issued
  BY DEF CollectAt, Hushed, OnTop
<1>5. store'[f].posi <= 2 * issued
  BY <1>2 DEF CollectAt, Roomy
<1> QED
  BY <1>1, <1>3, <1>4, <1>5, CollectMoved

\* In the second phase, a follower whose log is as long as it was.
LEMMA CloseMoved ==
  ASSUME Inv, Inv', UnderWay, NEW f \in Server, NEW Y, NEW N, NEW Z, NEW M, CloseAt(f, Y, N),
         \A m \in Copies(net', Boot, f) : m \in Copies(net, Boot, f) \/ Spare(m),
         store'[f].posi = store[f].posi, store'[Boot].posi = store[Boot].posi, issued' = issued,
         ~RollTo(net', f),
         Mail(net', Boot, f) # {} =>
           Uncommitted(store'[f]) /\ Top(store'[f]).cmd = Cmd' /\ store'[f].db = Acknowledged',
         Told(net', f, Z \cup M) => store'[f].db = Effect(Acknowledged', Cmd'),
         f \in M \/ (\E m \in Mail(net', f, Boot) : ~m.ok) => Cmd'.op = "GET" /\ Uncommitted(store'[f])
  PROVE  CloseAt(f, Z, M)'
<1> DEFINE st == store[f]
           t == store'[f]
           old == Copies(net, Boot, f)
           new == Copies(net', Boot, f)
           b == store[Boot].posi - 1
           i == issued
<1>1. /\ st.posi \in Int /\ b \in Int /\ i \in Nat
      /\ \A m \in old : m.posi \in Nat /\ Place(m) \in Int
  BY Basics DEF Typed
<1>2. t.posi \in Int /\ \A m \in new : m.posi \in Nat /\ Place(m) \in Int
  BY BasicsNext DEF Typed
<1>3. \A m \in new : m \in old \/ (m.posi + 1 <= i /\ Place(m) <= b)
  <2>1. \A m \in new : Spare(m) => m.posi + 1 <= store[Boot].posi /\ Place(m) + 1 <= store[Boot].posi
    BY DEF UnderWay, OnTop, Spare
  <2>2. store[Boot].posi \in Int /\ store[Boot].posi <= issued
    BY Basics DEF Typed, UnderWay
  <2> QED
    BY <1>1, <1>2, <2>1, <2>2
<1>4. Ahead(st, old, b, 1) /\ Roomy(st, old, 0, i) /\ t.posi = st.posi
  BY DEF CloseAt
<1>5. CloseAt(f, Z, M)' <=>
        /\ Ahead(t, new, store'[Boot].posi - 1, 1) /\ ~RollTo(net', f)
        /\ Mail(net', Boot, f) # {} =>
             Uncommitted(store'[f]) /\ Top(store'[f]).cmd = Cmd' /\ store'[f].db = Acknowledged'
        /\ Told(net', f, Z \cup M) => store'[f].db = Effect(Acknowledged', Cmd')
        /\ f \in M \/ (\E m \in Mail(net', f, Boot) : ~m.ok) => Cmd'.op = "GET" /\ Uncommitted(store'[f])
        /\ Roomy(t, new, 0, issued')
  BY DEF CloseAt, OnTop
<1>6. store'[Boot].posi - 1 = b /\ issued' = i
  OBVIOUS
<1> HIDE DEF st, t, old, new, b, i
<1>7. Ahead(t, new, b, 1)
  BY <1>1, <1>2, <1>3, <1>4, AheadStep
<1>8. Roomy(t, new, 0, i)
  <2>1. \A m \in new : m.posi \in Int /\ (m \in old \/ m.posi + 1 + 0 <= i)
    BY <1>1, <1>2, <1>3
  <2>2. t.posi + 2 * 0 <= 2 * i
    BY <1>1, <1>4 DEF Roomy
  <2> QED
    BY <1>1, <1>4, <2>1, <2>2, RoomyStep
<1> QED
  BY <1>5, <1>6, <1>7, <1>8

\* One that has no news.
LEMMA CloseKept ==
  ASSUME Inv, Inv', UnderWay, NEW f \in Server, NEW Y, NEW N, NEW Z, NEW M, CloseAt(f, Y, N), Hushed(net', f),
         store'[f] = store[f], store'[Boot].posi = store[Boot].posi, Cmd' = Cmd, issued' = issued,
         Acknowledged' = Acknowledged, Told(net', f, Z \cup M) => Told(net, f, Y \cup N),
         f \in M => f \in N \/ \E m \in Mail(net, f, Boot) : ~m.ok
  PROVE  CloseAt(f, Z, M)'
<1>1. \A m \in Copies(net', Boot, f) : m \in Copies(net, Boot, f) \/ Spare(m)
  BY DEF Hushed
<1>2. /\ ~RollTo(net', f)
      /\ Mail(net', Boot, f) # {} =>
           Uncommitted(store'[f]) /\ Top(store'[f]).cmd = Cmd' /\ store'[f].db = Acknowledged'
      /\ Told(net', f, Z \cup M) => store'[f].db = Effect(Acknowledged', Cmd')
      /\ f \in M \/ (\E m \in Mail(net', f, Boot) : ~m.ok) => Cmd'.op = "GET" /\ Uncommitted(store'[f])
  BY DEF CloseAt, Hushed, OnTop
<1> QED
  BY <1>1, <1>2, CloseMoved

\* The data of the boot node and of the nodes in U are as before, and so is
\* what the clients know.
Unmoved(U) ==
  /\ \A s \in U \cup {Boot} : store'[s] = store[s]
  /\ acks'[Boot] = acks[Boot] /\ client'[Boot] = client[Boot]
  /\ pending' = pending /\ replies' = replies /\ issued' = issued

\* The command and the acknowledged map are then as before.
LEMMA UnmovedFacts ==
  ASSUME Inv, NEW U, Unmoved(U), Quiet(net')
  PROVE  /\ Cmd' = Cmd /\ Acknowledged' = Acknowledged /\ Load' <= Load
         /\ OnTop(Boot)' <=> OnTop(Boot)
<1>1. Cmd' = Cmd /\ Acknowledged' = Acknowledged
  BY DEF Unmoved, Cmd, Acknowledged
<1>2. OnTop(Boot)' <=> OnTop(Boot)
  BY <1>1 DEF Unmoved, OnTop
<1>3. \A c \in Client : Mail(net', c, Boot) \subseteq Mail(net, c, Boot)
  BY ClusterConstants DEF Quiet, Node
<1>4. Load' <= Load
  BY <1>3 DEF Load, Bit
<1> QED
  BY <1>1, <1>2, <1>4

\* And the course of the command goes on as before, seen from any of the nodes.
LEMMA PhaseKept ==
  ASSUME Inv, Inv', NEW T \in SUBSET Server, NEW U \in SUBSET T, Unmoved(U), Quiet(net')
  PROVE  /\ Resting(T) => Resting(U)'
         /\ \A Y, N \in SUBSET Server : Collecting(T, Y, N) => Collecting(U, Y, N)'
         /\ \A Y, N \in SUBSET Server : Closing(T, Y, N) => Closing(U, Y, N)'
<1>1. Cmd' = Cmd /\ Acknowledged' = Acknowledged /\ Load' <= Load /\ (OnTop(Boot)' <=> OnTop(Boot))
  BY UnmovedFacts
<1>2. /\ \A a \in Node, b \in Server : Mail(net', a, b) \subseteq Mail(net, a, b)
      /\ \A f \in Server : Hushed(net', f)
      /\ U \subseteq Server
      /\ \A s \in U \cup {Boot} : store'[s] = store[s]
      /\ acks'[Boot] = acks[Boot] /\ client'[Boot] = client[Boot]
      /\ pending' = pending /\ replies' = replies /\ issued' = issued
  BY DEF Quiet, Unmoved
<1>3. /\ \A f \in Server : store[f].posi \in Int
      /\ issued \in Nat /\ Load \in Nat /\ Boot \in Server /\ Server \subseteq Node
  BY Basics DEF Typed
<1>4. ASSUME UnderWay
      PROVE  UnderWay'
  BY <1>1, <1>2, <1>4 DEF UnderWay
<1>5. ASSUME NEW C, NEW go, NEW re, Polling(net, Boot, C, go, re)
      PROVE  Polling(net', Boot, C, go, re)
  <2> SUFFICES ASSUME NEW x \in Node, NEW y \in Server, NEW o \in Mail(net', x, y)
               PROVE  \/ o.type = go /\ x = Boot /\ y \notin C \cup {Boot}
                      \/ /\ o.type = re /\ y = Boot /\ x \notin C \cup {Boot} /\ x \in Server
                         /\ \A e \in Mail(net', Boot, x) : e.type # go
    BY <1>5 DEF Polling
  <2>1. o \in Mail(net, x, y)
    BY <1>2
  <2>2. CASE o.type = go /\ x = Boot /\ y \notin C \cup {Boot}
    BY <2>2
  <2>3. CASE /\ o.type = re /\ y = Boot /\ x \notin C \cup {Boot} /\ x \in Server
             /\ \A e \in Mail(net, Boot, x) : e.type # go
    BY <1>2, <1>3, <2>3
  <2> QED
    BY <1>5, <2>1, <2>2, <2>3 DEF Polling
<1>6. ASSUME NEW f \in Server, NEW C, Told(net', f, C)
      PROVE  Told(net, f, C)
  BY <1>2, <1>6 DEF Told, Hushed
<1>7. ASSUME Resting(T)
      PROVE  Resting(U)'
  <2>1. \A a \in Node, b \in Server : \A m \in Mail(net', a, b) : m.type = "CLIENT" /\ pending'[m.client] = m.cmd
    BY <1>2, <1>7 DEF Resting
  <2>2. store'[Boot].posi + Load' <= issued' /\ acks'[Boot] = NoAcks
    <3>1. Load' \in Nat
      BY BasicsNext DEF Typed
    <3>2. store[Boot].posi + Load <= issued /\ acks[Boot] = NoAcks /\ store'[Boot] = store[Boot] /\ issued' = issued
      BY <1>2, <1>7 DEF Resting
    <3> QED
      BY <1>1, <1>2, <1>3, <3>1, <3>2
  <2>3. \A s \in U : store'[s].db = Acknowledged'
    BY <1>1, <1>2, <1>7 DEF Resting
  <2>4. ASSUME NEW f \in U \ {Boot}
        PROVE  RestAt(f)'
    <3>1. /\ f \in Server /\ RestAt(f) /\ Hushed(net', f) /\ store'[f] = store[f]
          /\ store[Boot].posi + Load <= issued /\ store'[Boot] = store[Boot]
      BY <1>2, <1>7 DEF Resting
    <3>2. store'[Boot].posi <= store[Boot].posi
      BY <1>3, <3>1
    <3> QED
      BY <1>1, <1>2, <3>1, <3>2, RestKept
  <2> QED
    BY <2>1, <2>2, <2>3, <2>4 DEF Resting
<1>8. ASSUME NEW Y, NEW N, Collecting(T, Y, N)
      PROVE  Collecting(U, Y, N)'
  <2>1. UnderWay'
    BY <1>4, <1>8 DEF Collecting
  <2>2. Polling(net', Boot, Y \cup N, "PRE", "PRERE") /\ Y \cap N = {}
    BY <1>5, <1>8 DEF Collecting
  <2>3. acks'[Boot] = [pOk |-> Cardinality(Y), pErr |-> Cardinality(N), cOk |-> 0, cErr |-> 0]
    BY <1>2, <1>8 DEF Collecting
  <2>4. \A f \in Others : \A m \in Mail(net', Boot, f) : m.cmd = Cmd'
    BY <1>1, <1>2, <1>3, <1>8 DEF Collecting, Others
  <2>5. \A s \in U : store'[s].db = Acknowledged'
    BY <1>1, <1>2, <1>8 DEF Collecting
  <2>6. ASSUME NEW f \in U \ {Boot}
        PROVE  CollectAt(f, Y \cup N)' /\ f \notin N
    <3>1. /\ f \in Server /\ CollectAt(f, Y \cup N) /\ f \notin N /\ Hushed(net', f) /\ store'[f] = store[f]
          /\ store'[Boot].posi = store[Boot].posi /\ UnderWay
          /\ Told(net', f, Y \cup N) => Told(net, f, Y \cup N)
      BY <1>2, <1>6, <1>8 DEF Collecting
    <3>2. CollectAt(f, Y \cup N)'
      BY <1>1, <1>2, <3>1, CollectKept
    <3> QED
      BY <3>1, <3>2
  <2> QED
    BY <2>1, <2>2, <2>3, <2>4, <2>5, <2>6 DEF Collecting
<1>9. ASSUME NEW Y, NEW N, Closing(T, Y, N)
      PROVE  Closing(U, Y, N)'
  <2>1. UnderWay'
    BY <1>4, <1>9 DEF Closing
  <2>2. Polling(net', Boot, Y \cup N, "COM", "COMRE") /\ Y \cap N = {}
    BY <1>5, <1>9 DEF Closing
  <2>3. acks'[Boot] = [pOk |-> 0, pErr |-> 0, cOk |-> Cardinality(Y), cErr |-> Cardinality(N)]
    BY <1>2, <1>9 DEF Closing
  <2>4. Boot \in U => store'[Boot].db = Acknowledged'
    BY <1>1, <1>2, <1>9 DEF Closing
  <2>5. ASSUME NEW f \in U \ {Boot}
        PROVE  CloseAt(f, Y, N)'
    <3>1. /\ f \in Server /\ CloseAt(f, Y, N) /\ Hushed(net', f) /\ store'[f] = store[f]
          /\ store'[Boot].posi = store[Boot].posi /\ UnderWay
          /\ Told(net', f, Y \cup N) => Told(net, f, Y \cup N)
      BY <1>2, <1>6, <1>9 DEF Closing
    <3> QED
      BY <1>1, <1>2, <3>1, CloseKept
  <2>6. \A f \in Others : Told(net', f, Y \cup N) => ~RollTo(net', f)
    BY <1>2, <1>6, <1>9 DEF Closing, Hushed, Others
  <2> QED
    BY <2>1, <2>2, <2>3, <2>4, <2>5, <2>6 DEF Closing
<1> QED
  BY <1>7, <1>8, <1>9

\* Whichever it is.
LEMMA LivesKept ==
  ASSUME Inv, Inv', NEW T \in SUBSET Server, Lives(T), NEW U \in SUBSET T, Unmoved(U), Quiet(net')
  PROVE  Lives(U)'
<1>1. /\ Resting(T) => Resting(U)'
      /\ \A Y, N \in SUBSET Server : Collecting(T, Y, N) => Collecting(U, Y, N)'
      /\ \A Y, N \in SUBSET Server : Closing(T, Y, N) => Closing(U, Y, N)'
  BY PhaseKept
<1> QED
  BY <1>1 DEF Lives

-----------------------------------------------------------------------------
(***************************************************************************)
(* What changes nothing of the course: heartbeats, losses and crashes.     *)
(***************************************************************************)

\* A message that is taken is no news to anybody else.
LEMMA QuietTaken ==
  ASSUME Inv, Tidy(net), NEW a \in Node, NEW s \in Server, NEW n \in 1 .. Len(net[a][s])
  PROVE  Taken(a, s, n) \in Nets /\ Tidy(Taken(a, s, n)) /\ Quiet(Taken(a, s, n))
<1> DEFINE t == Taken(a, s, n)
<1>1. net \in Nets /\ Boot \in Node /\ Server \subseteq Node /\ Boot \in Server /\ Single(net)
  BY Basics DEF Typed, Tidy
<1>2. t \in Nets /\ Tidy(t) /\ \A f \in Server : RollTo(t, f) => RollTo(net, f)
  BY <1>1, TidyTaken
<1>3. \A x \in Node, y \in Server :
        Mail(t, x, y) \subseteq Mail(net, x, y) /\ Copies(t, x, y) \subseteq Copies(net, x, y)
  BY <1>1, MailTaken
<1> HIDE DEF t
<1>4. Quiet(t)
  BY <1>1, <1>2, <1>3 DEF Quiet, Hushed
<1> QED
  BY <1>2, <1>4 DEF t

\* Nor is one that is not about a command, or is a spare copy.
LEMMA QuietSent ==
  ASSUME Inv, NEW nt \in Nets, Tidy(nt), Quiet(nt), NEW a \in Node, NEW b \in Server, NEW m \in Message,
         Allowed(a, b, m), m.type \notin Tracked \cup {"ROLL"}, m.type = "RECOVER" => Spare(m)
  PROVE  With(nt, a, b, m) \in Nets /\ Tidy(With(nt, a, b, m)) /\ Quiet(With(nt, a, b, m))
<1> DEFINE w == With(nt, a, b, m)
<1>1. Boot \in Node /\ Server \subseteq Node /\ Boot \in Server /\ Single(nt)
  BY Basics DEF Typed, Tidy
<1>2. w \in Nets /\ Tidy(w) /\ \A f \in Server : RollTo(w, f) <=> RollTo(nt, f)
  BY TidySent
<1>3. \A x \in Node, y \in Server :
        /\ Mail(w, x, y) = Mail(nt, x, y) \cup (IF x = a /\ y = b /\ m.type \in Tracked THEN {m} ELSE {})
        /\ Copies(w, x, y) = Copies(nt, x, y) \cup (IF x = a /\ y = b /\ m.type = "RECOVER" THEN {m} ELSE {})
  BY <1>1, MailSent
<1> HIDE DEF w
<1>4. \A x \in Node, y \in Server :
        /\ Mail(w, x, y) = Mail(nt, x, y)
        /\ \A c \in Copies(w, x, y) : c \in Copies(nt, x, y) \/ Spare(c)
  BY <1>3
<1>5. Quiet(w)
  BY <1>1, <1>2, <1>4 DEF Quiet, Hushed
<1> QED
  BY <1>2, <1>5 DEF w

\* Nor are heartbeats.
LEMMA QuietSentAll ==
  ASSUME Inv, Tidy(net), NEW m \in Message, m.type = "HEART", m.round = 0
  PROVE  Tidy(WithAll(net, Boot, m)) /\ Quiet(WithAll(net, Boot, m))
<1> DEFINE w == WithAll(net, Boot, m)
<1>1. net \in Nets /\ Boot \in Node /\ Server \subseteq Node /\ Boot \in Server /\ Single(net)
  BY Basics DEF Typed, Tidy
<1>2. /\ m.type \notin Tracked /\ m.type \notin {"RECOVER", "ROLL"}
      /\ \A b \in Others : Allowed(Boot, b, m)
  BY DEF Tracked, Allowed, Others
<1>3. Tidy(w) /\ \A f \in Server : RollTo(w, f) <=> RollTo(net, f)
  BY <1>1, <1>2, TidySentAll
<1>4. \A x \in Node, y \in Server :
        /\ Mail(w, x, y) = Mail(net, x, y)
               \cup (IF x = Boot /\ y # Boot /\ m.type \in Tracked THEN {m} ELSE {})
        /\ Copies(w, x, y) = Copies(net, x, y)
  BY <1>1, <1>2, MailSentAll
<1> HIDE DEF w
<1>5. \A x \in Node, y \in Server : Mail(w, x, y) = Mail(net, x, y)
  BY <1>2, <1>4
<1>6. Quiet(w)
  BY <1>1, <1>3, <1>4, <1>5 DEF Quiet, Hushed
<1> QED
  BY <1>3, <1>6 DEF w

\* The boot node goes on leading when no round, state or token changes and
\* clients are only answered.
LEMMA LedKept ==
  ASSUME Led,
         \A s \in Server : round'[s] = round[s] /\ tokens'[s] = tokens[s] /\ pstate'[s] = pstate[s],
         \A s \in Others : client'[s] = client[s],
         \A c \in Client : pending'[c] # Nil => pending'[c] = pending[c],
         issued' = issued, store'[Boot].posi = Len(store'[Boot].log)
  PROVE  Led'
BY ClusterConstants DEF Led, Others

\* A node that has been running from the start goes on.
LEMMA SteadyKept ==
  ASSUME NEW T, Steady(T), crashes' = crashes,
         \A s \in T : status'[s] = status[s] /\ store'[s].posi = Len(store'[s].log)
  PROVE  Steady(T)'
BY DEF Steady

\* What a node finds when it takes a message.
LEMMA Delivered ==
  ASSUME Inv, Alive, NEW a \in Node, NEW s \in Server, NEW n \in 1 .. Len(net[a][s]),
         NEW t, Receives(a, s, n, t)
  PROVE  /\ Allowed(a, s, net[a][s][n]) /\ net[a][s][n] \in Message /\ net[a][s][n].type = t
         /\ Taken(a, s, n) \in Nets /\ Tidy(Taken(a, s, n)) /\ Quiet(Taken(a, s, n))
         /\ status[s] = "up" /\ store[s] \in Store /\ InRange(store[s]) /\ s \in Node /\ round[s] = 0
         /\ Led /\ Tidy(net) /\ net \in Nets /\ Single(net)
<1>1. status[s] = "up" /\ net[a][s][n].type = t
  BY DEF Receives
<1>2. net \in Nets /\ s \in Node /\ store[s] \in Store /\ InRange(store[s])
  BY <1>1, RunningFacts
<1>3. Led /\ Tidy(net) /\ Single(net) /\ Proper(net) /\ round[s] = 0
  BY DEF Alive, Tidy, Led
<1>4. net[a][s][n] \in Message
  BY <1>2, TakenType
<1>5. Taken(a, s, n) \in Nets /\ Tidy(Taken(a, s, n)) /\ Quiet(Taken(a, s, n))
  BY <1>3, QuietTaken
<1>6. Allowed(a, s, net[a][s][n])
  BY <1>3 DEF Proper
<1> QED
  BY <1>1, <1>2, <1>3, <1>4, <1>5, <1>6

\* A step without news, seen from the nodes in U that are still running.
LEMMA Noise ==
  ASSUME Inv, Inv', NEW T \in SUBSET Server, Lives(T), NEW U \in SUBSET T, Steady(U)', Led',
         Tidy(net'), Quiet(net'), Unmoved(U)
  PROVE  Alive'
<1>1. Lives(U)' /\ U \in SUBSET Server
  BY LivesKept
<1> QED
  BY <1>1 DEF Alive

\* Heartbeats, the answers to them and to rollbacks, and losses.
LEMMA SameStep ==
  ASSUME Inv, Inv', Alive, Tidy(net'), Quiet(net'), store' = store, client' = client, acks' = acks,
         \A s \in Server : round'[s] = round[s] /\ tokens'[s] = tokens[s] /\ pstate'[s] = pstate[s],
         status' = status, crashes' = crashes, pending' = pending, replies' = replies, issued' = issued
  PROVE  Alive'
<1>1. PICK T \in SUBSET Server : Steady(T) /\ Lives(T)
  BY DEF Alive
<1>2. Led
  BY DEF Alive
<1>3. Led'
  BY <1>2, LedKept DEF Led
<1>4. Steady(T)'
  BY <1>1, SteadyKept DEF Steady
<1>5. Unmoved(T)
  BY DEF Unmoved
<1> QED
  BY <1>1, <1>3, <1>4, <1>5, Noise

\* Nobody else leads: there are no elections, and no heartbeat is dropped.
LEMMA NoElection ==
  ASSUME Inv, Alive, Unhurried, timeouts = 0
  PROVE  /\ \A s \in Server : ~NewRound(s) /\ ~VoteAll(s)
         /\ \A a \in Node, s \in Server : \A n \in 1 .. Len(net[a][s]) :
              ~HandleVote(a, s, n) /\ ~HandleVoteRe(a, s, n) /\ ~DropHeart(a, s, n)
<1>1. /\ \A s \in Server : round[s] = 0 /\ tokens[s] = 0 /\ (pstate[s] # "LEADER" => s # Boot)
      /\ \A a \in Node, b \in Server : \A n \in 1 .. Len(net[a][b]) : Allowed(a, b, net[a][b][n])
  BY DEF Alive, Led, Tidy, Proper
<1>2. \A s \in Server : ~NewRound(s) /\ ~VoteAll(s)
  BY <1>1 DEF NewRound, VoteAll, Unhurried
<1>3. ASSUME NEW a \in Node, NEW s \in Server, NEW n \in 1 .. Len(net[a][s])
      PROVE  ~HandleVote(a, s, n) /\ ~HandleVoteRe(a, s, n) /\ ~DropHeart(a, s, n)
  <2>1. Allowed(a, s, net[a][s][n])
    BY <1>1
  <2>2. net[a][s][n].type \notin {"VOTE", "VOTERE"}
    BY <2>1 DEF Allowed
  <2>3. net[a][s][n].type \in {"HEART", "RECOVER"} => a = Boot
    BY <2>1 DEF Allowed
  <2>4. Boot \in Server /\ pstate[Boot] = "LEADER"
    BY ClusterConstants DEF Alive, Led
  <2> QED
    BY <2>2, <2>3, <2>4 DEF HandleVote, HandleVoteRe, Receives, DropHeart, Beats, OfType
<1> QED
  BY <1>2, <1>3

\* The LEADER sends heartbeats.
LEMMA HeartStep ==
  ASSUME Inv, Inv', Alive, NEW s \in Server, HeartAll(s)
  PROVE  Alive'
<1> DEFINE h == Heart(round[s], store[s])
<1>1. Led /\ Tidy(net)
  BY DEF Alive
<1>2. s = Boot /\ round[s] = 0 /\ status[s] = "up"
  BY <1>1 DEF HeartAll, Led, Others
<1>3. round[s] \in Nat /\ store[s] \in Store /\ InRange(store[s])
  BY <1>2, RunningFacts
<1>4. h \in Message /\ h.type = "HEART" /\ h.round = 0
  BY <1>2, <1>3, HeartType DEF Heart
<1>5. net' = WithAll(net, Boot, h)
  BY <1>2 DEF HeartAll
<1> HIDE DEF h
<1>6. Tidy(net') /\ Quiet(net')
  BY <1>1, <1>4, <1>5, QuietSentAll
<1> QED
  BY <1>6, SameStep DEF HeartAll, elect, data, users, env

\* A follower answers a heartbeat.
LEMMA BeatStep ==
  ASSUME Inv, Inv', Alive, NEW a \in Server, NEW s \in Server, NEW n \in 1 .. Len(net[a][s]),
         HandleHeart(a, s, n)
  PROVE  Alive'
<1> DEFINE m  == net[a][s][n]
           nt == Taken(a, s, n)
           hr == HeartRe(store[s])
<1>1. a \in Node /\ Receives(a, s, n, "HEART")
  BY DEF Node, HandleHeart
<1>2. /\ Allowed(a, s, m) /\ m.type = "HEART" /\ nt \in Nets /\ Tidy(nt) /\ Quiet(nt)
      /\ store[s] \in Store /\ InRange(store[s]) /\ s \in Node /\ round[s] = 0 /\ Led
  BY <1>1, Delivered
<1>3. a = Boot /\ s \in Others /\ m.round = 0
  BY <1>2 DEF Allowed, Others
<1>4. hr \in Message /\ hr.type = "HEARTRE" /\ hr.type \notin Tracked \cup {"ROLL", "RECOVER"}
  <2>1. hr.type = "HEARTRE" /\ 0 \in Nat
    BY DEF HeartRe
  <2> QED
    BY <1>2, <2>1, HeartType DEF Tracked
<1>5. Allowed(s, a, hr)
  BY <1>3, <1>4 DEF Allowed
<1>6. /\ net' \in {nt, With(nt, s, a, hr)}
      /\ \A x \in Server : round'[x] = round[x] /\ tokens'[x] = tokens[x] /\ pstate'[x] = pstate[x]
      /\ store' = store /\ client' = client /\ acks' = acks /\ status' = status /\ crashes' = crashes
      /\ pending' = pending /\ replies' = replies /\ issued' = issued
  <2>1. net' \in {nt, With(nt, s, a, hr)}
    BY DEF HandleHeart
  <2>2. /\ \/ round' = round /\ pstate' = pstate
           \/ /\ round' = [round EXCEPT ![s] = m.round]
              /\ pstate' = pstate \/ pstate' = [pstate EXCEPT ![s] = "FOLLOWER"]
        /\ tokens' = tokens
        /\ store' = store /\ client' = client /\ acks' = acks /\ status' = status /\ crashes' = crashes
        /\ pending' = pending /\ replies' = replies /\ issued' = issued
    BY DEF HandleHeart, StepsDown, users, env
  <2>3. round \in [Server -> Nat] /\ pstate \in [Server -> PState]
    BY DEF Inv, TypeOK
  <2>4. round[s] = m.round /\ pstate[s] = "FOLLOWER"
    BY <1>2, <1>3 DEF Led
  <2> HIDE DEF m, nt, hr
  <2>5. \A x \in Server : round'[x] = round[x] /\ tokens'[x] = tokens[x] /\ pstate'[x] = pstate[x]
    BY <2>2, <2>3, <2>4
  <2> QED
    BY <2>1, <2>2, <2>5
<1> HIDE DEF nt, hr
<1>7. Tidy(With(nt, s, a, hr)) /\ Quiet(With(nt, s, a, hr))
  BY <1>2, <1>4, <1>5, QuietSent
<1>8. Tidy(net') /\ Quiet(net')
  BY <1>2, <1>6, <1>7
<1> QED
  BY <1>6, <1>8, SameStep

\* The LEADER sends a follower that is behind the entry it lacks, or reads
\* past its own log.
LEMMA BeatReStep ==
  ASSUME Inv, Inv', Alive, NEW a \in Server, NEW s \in Server, NEW n \in 1 .. Len(net[a][s]),
         HandleHeartRe(a, s, n)
  PROVE  Alive' \/ Undefined'
<1> DEFINE m  == net[a][s][n]
           nt == Taken(a, s, n)
           r  == Recover(m.posi, LogAt(store[s], m.posi))
<1>1. a \in Node /\ Receives(a, s, n, "HEARTRE")
  BY DEF Node, HandleHeartRe
<1>2. /\ Allowed(a, s, m) /\ m \in Message /\ m.type = "HEARTRE" /\ nt \in Nets /\ Tidy(nt) /\ Quiet(nt)
      /\ store[s] \in Store /\ InRange(store[s]) /\ s \in Node /\ Led
  BY <1>1, Delivered
<1>3. a \in Others /\ s = Boot /\ m.posi \in Nat
  BY <1>2, MessageFields DEF Allowed
<1>4. /\ store' = store /\ client' = client /\ acks' = acks /\ crashes' = crashes
      /\ pending' = pending /\ replies' = replies /\ issued' = issued
      /\ round' = round /\ tokens' = tokens /\ pstate' = pstate
  BY DEF HandleHeartRe, elect, data, users
<1>5. CASE net' = nt /\ status' = status
  BY <1>2, <1>4, <1>5, SameStep
<1>6. CASE HasLog(store[s], m.posi) /\ net' = With(nt, s, a, r) /\ status' = status
  <2> DEFINE e == LogAt(store[s], m.posi)
  <2>1. e \in Entry
    BY <1>2, <1>6, LogAtType
  <2>2. store[s].posi = Len(store[s].log) /\ m.posi \in 0 .. Len(store[s].log) - 1 /\ Len(store[s].log) \in Nat
    BY <1>2, <1>3, <1>6 DEF HasLog, Led, Store
  <2>3. Uncommitted(store[s]) /\ m.posi + 1 = store[s].posi => e.state = "PRE"
    BY <2>2 DEF Uncommitted, TopState, Top, LogAt
  <2> HIDE DEF e
  <2>4. r \in Message /\ r.type = "RECOVER" /\ r.posi = m.posi /\ r.entry.state = e.state
    BY <1>3, <2>1, RecoverType DEF Recover, e
  <2>5. Allowed(s, a, r) /\ r.type \notin Tracked \cup {"ROLL"}
    BY <1>3, <2>4 DEF Allowed, Others, Tracked
  <2> HIDE DEF r, m, nt
  <2>6. Spare(r)
    <3>1. r.posi \in Nat /\ r.posi + 1 <= store[Boot].posi /\ store[Boot].posi \in Nat
      BY <1>3, <2>2, <2>4
    <3>2. ASSUME Uncommitted(store[Boot])
          PROVE  Place(r) + 1 <= store[Boot].posi
      <4>1. CASE r.entry.state = "COMMIT"
        <5>1. r.posi + 1 # store[Boot].posi
          BY <1>3, <2>3, <2>4, <3>2, <4>1
        <5>2. Place(r) = r.posi + 1
          BY <4>1 DEF Place, Bit
        <5> QED
          BY <3>1, <5>1, <5>2
      <4>2. CASE r.entry.state # "COMMIT"
        <5>1. Place(r) = r.posi
          BY <3>1, <4>2 DEF Place, Bit
        <5> QED
          BY <3>1, <5>1
      <4> QED
        BY <4>1, <4>2
    <3> QED
      BY <3>1, <3>2 DEF Spare
  <2>7. Tidy(net') /\ Quiet(net')
    BY <1>2, <1>6, <2>4, <2>5, <2>6, QuietSent
  <2> QED
    BY <1>4, <1>6, <2>7, SameStep
<1>7. CASE status' = [status EXCEPT ![s] = "wild"]
  <2>1. status \in [Server -> {"up", "down", "terminated", "wild"}]
    BY DEF Inv, TypeOK
  <2>2. status'[s] = "wild"
    BY <1>7, <2>1
  <2> QED
    BY <2>2 DEF Undefined
<1> QED
  BY <1>5, <1>6, <1>7 DEF HandleHeartRe

\* The LEADER takes note of a rollback, a message is lost.
LEMMA TakeStep ==
  ASSUME Inv, Inv', Alive, NEW a \in Node, NEW s \in Server, NEW n \in 1 .. Len(net[a][s]),
         HandleRollRe(a, s, n) \/ Lose(a, s, n)
  PROVE  Alive'
<1>1. Tidy(net)
  BY DEF Alive
<1>2. Tidy(net') /\ Quiet(net')
  BY <1>1, QuietTaken DEF HandleRollRe, Lose
<1> QED
  BY <1>2, SameStep DEF HandleRollRe, Lose, elect, data, users, env

\* A node crashes: the others are still as they were.
LEMMA CrashStep ==
  ASSUME Inv, Inv', Alive, NEW s \in Server, Crash(s), crashes' <= 1
  PROVE  Alive'
<1>1. PICK T \in SUBSET Server : Steady(T) /\ Lives(T)
  BY DEF Alive
<1>2. Led /\ Tidy(net)
  BY DEF Alive
<1>3. /\ net' = net /\ store' = store /\ client' = client /\ acks' = acks
      /\ round' = round /\ tokens' = tokens /\ pstate' = pstate
      /\ pending' = pending /\ replies' = replies /\ issued' = issued
      /\ crashes' = crashes + 1
      /\ status' = [status EXCEPT ![s] = "down"]
  BY DEF Crash, elect, data, users
<1>4. crashes \in Nat /\ status \in [Server -> {"up", "down", "terminated", "wild"}]
  BY DEF Inv, TypeOK
<1>5. crashes = 0 /\ T = Server /\ crashes' # 0
  BY <1>1, <1>3, <1>4 DEF Steady
<1> DEFINE U == Server \ {s}
<1>6. Steady(U)'
  <2>1. \A x \in U : status'[x] = "up" /\ store'[x].posi = Len(store'[x].log)
    BY <1>1, <1>3, <1>4, <1>5 DEF Steady
  <2> QED
    BY <1>5, <2>1 DEF Steady
<1>7. Led'
  BY <1>2, <1>3, LedKept DEF Led
<1>8. Unmoved(U) /\ Quiet(net')
  BY <1>3 DEF Unmoved, Quiet, Hushed
<1> QED
  BY <1>1, <1>2, <1>3, <1>5, <1>6, <1>7, <1>8, Noise

-----------------------------------------------------------------------------
(***************************************************************************)
(* Recovery.                                                               *)
(***************************************************************************)

\* A follower joins those of which the course is known.
LEMMA Joined ==
  ASSUME NEW U, NEW s \in Others
  PROVE  /\ Resting(U)' /\ RestAt(s)' /\ store'[s].db = Acknowledged' => Resting(U \cup {s})'
         /\ \A Y, N : Collecting(U, Y, N)' /\ CollectAt(s, Y \cup N)' /\ s \notin N
                        /\ store'[s].db = Acknowledged' => Collecting(U \cup {s}, Y, N)'
         /\ \A Y, N : Closing(U, Y, N)' /\ CloseAt(s, Y, N)' => Closing(U \cup {s}, Y, N)'
<1>1. s # Boot
  BY DEF Others
<1>2. Resting(U)' /\ RestAt(s)' /\ store'[s].db = Acknowledged' => Resting(U \cup {s})'
  BY <1>1 DEF Resting
<1>3. ASSUME NEW Y, NEW N, Collecting(U, Y, N)', CollectAt(s, Y \cup N)', s \notin N, store'[s].db = Acknowledged'
      PROVE  Collecting(U \cup {s}, Y, N)'
  BY <1>1, <1>3 DEF Collecting
<1>4. ASSUME NEW Y, NEW N, Closing(U, Y, N)', CloseAt(s, Y, N)'
      PROVE  Closing(U \cup {s}, Y, N)'
  BY <1>1, <1>4 DEF Closing
<1> QED
  BY <1>2, <1>3, <1>4

\* Only a log that is not ahead can take an entry sent to it, and only the
\* next one, which is not committed.
LEMMA AheadWrites ==
  ASSUME NEW st, st.posi \in Int, NEW copies, NEW b, NEW h \in Nat, Ahead(st, copies, b, h),
         NEW m \in copies, m.posi \in Nat, m.posi >= st.posi
  PROVE  h = 0 /\ m.posi = st.posi /\ m.entry.state # "COMMIT"
<1>1. Place(m) + h <= st.posi
  BY DEF Ahead
<1>2. Place(m) = m.posi + Bit(m.entry.state = "COMMIT")
  BY DEF Place
<1>3. CASE m.entry.state = "COMMIT"
  <2>1. Bit(m.entry.state = "COMMIT") = 1
    BY <1>3 DEF Bit
  <2> QED
    BY <1>1, <1>2, <2>1
<1>4. CASE m.entry.state # "COMMIT"
  <2>1. Bit(m.entry.state = "COMMIT") = 0
    BY <1>4 DEF Bit
  <2> QED
    BY <1>1, <1>2, <1>4, <2>1
<1> QED
  BY <1>3, <1>4

\* What a follower has made of its log when it has taken an entry m.
Regrown(s, m) ==
  /\ store'[s].posi = store[s].posi + 1 /\ store[s].posi \in Nat
  /\ m.posi >= store[s].posi
  /\ m.entry.state = "PRE" => /\ store'[s].db = store[s].db
                              /\ Uncommitted(store'[s])

\* A follower that has been running from the start does so only while it has
\* no answer under way, and the entry is not committed.
LEMMA RegrownStep ==
  ASSUME Inv, Inv', NEW T \in SUBSET Server, Lives(T), NEW s \in T \ {Boot}, NEW m \in Copies(net, Boot, s),
         Regrown(s, m), Unmoved(T \ {s}), Quiet(net')
  PROVE  Lives(T)'
<1> DEFINE U == T \ {s}
           st == store[s]
           p == store[s].posi
<1>1. s \in Server /\ s \in Others /\ U \cup {s} = T /\ U \in SUBSET T /\ s \in Node
  BY Basics DEF Others, Typed
<1>2. /\ st.posi \in Int /\ m.posi \in Nat /\ m.entry \in Sent
      /\ issued \in Nat /\ Load \in Nat /\ Load <= 1 /\ store[Boot].posi \in Int
  BY <1>1, Basics DEF Typed
<1>3. Load' \in Nat
  BY BasicsNext DEF Typed
<1>4. Cmd' = Cmd /\ Acknowledged' = Acknowledged /\ Load' <= Load
  BY UnmovedFacts
<1>5. store'[Boot] = store[Boot] /\ issued' = issued
  BY DEF Unmoved
<1>6. Hushed(net', s)
  BY <1>1 DEF Quiet
<1>7. \A c \in Copies(net', Boot, s) : c \in Copies(net, Boot, s) \/ Spare(c)
  BY <1>6 DEF Hushed
<1>8. ASSUME NEW b, NEW P \in BOOLEAN, Ahead(st, Copies(net, Boot, s), b, Bit(P))
      PROVE  /\ ~P /\ store'[s].posi = m.posi + 1
             /\ store'[s].db = store[s].db /\ Uncommitted(store'[s])
  <2>1. Bit(P) \in Nat
    BY DEF Bit
  <2>2. Bit(P) = 0 /\ m.posi = st.posi /\ m.entry.state # "COMMIT"
    BY <1>2, <1>8, <2>1, AheadWrites DEF Regrown
  <2>3. ~P
    BY <2>2 DEF Bit
  <2>4. m.entry.state = "PRE"
    BY <1>2, <2>2 DEF Sent
  <2> QED
    BY <2>2, <2>3, <2>4 DEF Regrown
<1>9. /\ Resting(T) => Resting(U)'
      /\ \A Y, N \in SUBSET Server : Collecting(T, Y, N) => Collecting(U, Y, N)'
      /\ \A Y, N \in SUBSET Server : Closing(T, Y, N) => Closing(U, Y, N)'
  BY <1>1, PhaseKept
<1>10. ASSUME Resting(T)
       PROVE  Resting(T)'
  <2>1. RestAt(s) /\ store[s].db = Acknowledged /\ store[Boot].posi + Load <= issued
    BY <1>10 DEF Resting
  <2>2. /\ ~RollTo(net, s) /\ store'[s].posi = m.posi + 1
        /\ store'[s].db = store[s].db /\ Uncommitted(store'[s])
    <3>1. Ahead(st, Copies(net, Boot, s), store[Boot].posi, Bit(RollTo(net, s))) /\ RollTo(net, s) \in BOOLEAN
      BY <2>1 DEF RestAt, RollTo, Rolling
    <3> QED
      BY <1>8, <3>1
  <2>3. m.posi + 1 + Load <= issued
    BY <2>1 DEF RestAt, Roomy
  <2>4. Bit(RollTo(net', s)) + store[s].posi <= Bit(RollTo(net, s)) + store'[s].posi
    <3>1. ~RollTo(net', s)
      BY <1>6, <2>2 DEF Hushed
    <3> QED
      BY <1>2, <2>2, <3>1 DEF Bit, Regrown
  <2>5. store'[s].posi + 2 * Load' <= 2 * issued
    BY <1>2, <1>3, <1>4, <2>2, <2>3
  <2>6. store'[Boot].posi <= store[Boot].posi
    BY <1>2, <1>5
  <2>7. RestAt(s)'
    BY <1>1, <1>4, <1>5, <1>7, <2>1, <2>2, <2>4, <2>5, <2>6, RestMoved
  <2> QED
    BY <1>1, <1>4, <1>9, <1>10, <2>1, <2>2, <2>7, Joined
<1>11. ASSUME NEW Y \in SUBSET Server, NEW N \in SUBSET Server, Collecting(T, Y, N)
       PROVE  Collecting(T, Y, N)'
  <2> DEFINE C == Y \cup N
  <2>1. CollectAt(s, C) /\ s \notin N /\ store[s].db = Acknowledged /\ UnderWay
    BY <1>11 DEF Collecting
  <2>2. /\ ~(RollTo(net, s) \/ Told(net, s, C)) /\ store'[s].posi = m.posi + 1
        /\ store'[s].db = store[s].db /\ Uncommitted(store'[s])
    <3>1. /\ Ahead(st, Copies(net, Boot, s), store[Boot].posi - 1, Bit(RollTo(net, s) \/ Told(net, s, C)))
          /\ (RollTo(net, s) \/ Told(net, s, C)) \in BOOLEAN
      BY <2>1 DEF CollectAt
    <3> QED
      BY <1>8, <3>1
  <2>3. m.posi + 1 <= issued
    BY <1>2, <2>1 DEF CollectAt, Roomy
  <2>4. ~RollTo(net', s) /\ ~Told(net', s, C)
    BY <1>6, <2>2 DEF Hushed, Told
  <2>5. Bit(RollTo(net', s) \/ Told(net', s, C)) + store[s].posi
          <= Bit(RollTo(net, s) \/ Told(net, s, C)) + store'[s].posi
    BY <1>2, <2>2, <2>4 DEF Bit, Regrown
  <2>6. /\ \A c \in Mail(net', s, Boot) : c.ok
        /\ store'[s].posi < 2 * issued
    BY <1>2, <2>2, <2>3, <2>4 DEF Told
  <2>7. CollectAt(s, C)'
    <3>1. store'[s].posi <= 2 * issued /\ store'[Boot].posi = store[Boot].posi
      BY <1>2, <1>5, <2>2, <2>6
    <3> HIDE DEF C
    <3> QED
      BY <1>1, <1>4, <1>5, <1>7, <2>1, <2>2, <2>4, <2>5, <2>6, <3>1, CollectMoved
  <2>8. Collecting(U, Y, N)' /\ store'[s].db = Acknowledged'
    BY <1>4, <1>9, <1>11, <2>1, <2>2
  <2>9. CollectAt(s, Y \cup N)' /\ s \notin N
    BY <2>1, <2>7
  <2>10. Collecting(U \cup {s}, Y, N)'
    BY <1>1, <2>8, <2>9, Joined
  <2> QED
    BY <1>1, <2>10
<1>12. ASSUME NEW Y \in SUBSET Server, NEW N \in SUBSET Server, Closing(T, Y, N)
       PROVE  FALSE
  <2>1. Ahead(st, Copies(net, Boot, s), store[Boot].posi - 1, 1) /\ Bit(TRUE) = 1
    BY <1>12 DEF Closing, CloseAt, Bit
  <2> QED
    BY <1>8, <2>1
<1> QED
  BY <1>10, <1>11, <1>12 DEF Lives

\* The handler of a [HEART] with an entry.
LEMMA RecoverStep ==
  ASSUME Inv, Inv', Alive, NEW a \in Server, NEW s \in Server, NEW n \in 1 .. Len(net[a][s]),
         HandleRecover(a, s, n)
  PROVE  Alive'
<1> DEFINE m   == net[a][s][n]
           st  == store[s]
           nt  == Taken(a, s, n)
           res == IF dataState[s] = "INVALID" THEN Restored(st, m.posi, m.entry)
                  ELSE [ok |-> TRUE, store |-> st]
           new == res.store
           hr  == HeartRe(new)
<1>1. a \in Node /\ Receives(a, s, n, "RECOVER")
  BY DEF HandleRecover, Node
<1>2. /\ Allowed(a, s, m) /\ m \in Message /\ m.type = "RECOVER" /\ nt \in Nets /\ Tidy(nt) /\ Quiet(nt)
      /\ st \in Store /\ InRange(st) /\ s \in Node /\ Led /\ net \in Nets /\ Single(net)
  BY <1>1, Delivered
<1>3. a = Boot /\ s \in Others /\ s # Boot /\ m.posi \in Nat /\ m.entry \in Sent
  BY <1>2, MessageFields DEF Allowed, Others
<1>4. m \in Copies(net, Boot, s)
  BY <1>1, <1>2, <1>3, MailTaken
<1>5. new \in Store /\ InRange(new)
  BY <1>2, <1>3, RestoredType
<1>6. /\ store' = [store EXCEPT ![s] = new] /\ net' \in {nt, With(nt, s, a, hr)}
      /\ status' = status /\ crashes' = crashes /\ acks' = acks /\ client' = client
      /\ round' = round /\ tokens' = tokens /\ pstate' = pstate
      /\ pending' = pending /\ replies' = replies /\ issued' = issued
  BY DEF HandleRecover, env, users, elect
<1>7. hr \in Message /\ hr.type = "HEARTRE"
  <2>1. hr.type = "HEARTRE" /\ 0 \in Nat
    BY DEF HeartRe
  <2> HIDE DEF new
  <2> QED
    BY <1>5, <2>1, HeartType
<1>8. hr.type \notin Tracked \cup {"ROLL", "RECOVER"} /\ Allowed(s, a, hr)
  BY <1>3, <1>7 DEF Tracked, Allowed
<1>9. \/ new = st
      \/ /\ m.posi >= st.posi /\ CanWrite(st)
         /\ new.posi = WriteLog(st, m.entry.index, m.entry.cmd).posi
         /\ Len(new.log) = Len(WriteLog(st, m.entry.index, m.entry.cmd).log)
         /\ m.entry.state = "PRE" => new = WriteLog(st, m.entry.index, m.entry.cmd)
  <2>1. CASE dataState[s] # "INVALID"
    BY <2>1
  <2>2. CASE dataState[s] = "INVALID" /\ (m.posi < st.posi \/ ~CanWrite(st))
    <3>1. new = Restored(st, m.posi, m.entry).store
      BY <2>2
    <3> HIDE DEF new
    <3> QED
      BY <2>2, <3>1 DEF Restored
  <2>3. CASE dataState[s] = "INVALID" /\ m.posi >= st.posi /\ CanWrite(st)
    <3> DEFINE w == WriteLog(st, m.entry.index, m.entry.cmd)
    <3>1. new = Restored(st, m.posi, m.entry).store /\ ~(m.posi < st.posi \/ ~CanWrite(st))
      <4>1. st.posi \in Int
        BY <1>2 DEF Store
      <4> QED
        BY <1>3, <2>3, <4>1
    <3>2. w \in Store /\ InRange(w)
      BY <1>2, <1>3, WriteLogType DEF Sent
    <3>3. CommitLog(w).store.posi = w.posi /\ Len(CommitLog(w).store.log) = Len(w.log)
      BY <3>2, CommitLogSame DEF Same
    <3> HIDE DEF w, new
    <3>4. new \in {w, CommitLog(w).store} /\ (m.entry.state = "PRE" => new = w)
      BY <2>3, <3>1 DEF Restored, w
    <3> QED
      BY <2>3, <3>3, <3>4 DEF w
  <2> QED
    <3>1. st.posi \in Int
      BY <1>2 DEF Store
    <3> QED
      BY <1>3, <2>1, <2>2, <2>3, <3>1
<1> HIDE DEF nt, hr, new, res
<1>10. Tidy(With(nt, s, a, hr)) /\ Quiet(With(nt, s, a, hr))
  BY <1>1, <1>2, <1>3, <1>7, <1>8, QuietSent
<1>11. Tidy(net') /\ Quiet(net')
  BY <1>2, <1>6, <1>10
<1>12. \A x \in Server : store'[x] = IF x = s THEN new ELSE store[x]
  BY <1>6 DEF Inv, TypeOK
<1>13. store'[Boot] = store[Boot]
  BY <1>3, <1>12, ClusterConstants
<1>14. Led'
  BY <1>2, <1>6, <1>13, LedKept DEF Led
<1>15. PICK T \in SUBSET Server : Steady(T) /\ Lives(T)
  BY DEF Alive
<1>16. ASSUME s \notin T \/ new = st
       PROVE  Alive'
  <2>1. \A x \in T : store'[x] = store[x]
    BY <1>12, <1>16
  <2>2. Unmoved(T)
    BY <1>6, <1>13, <2>1 DEF Unmoved
  <2>3. Steady(T)'
    BY <1>6, <1>15, <2>1, SteadyKept DEF Steady
  <2> QED
    BY <1>11, <1>14, <1>15, <2>2, <2>3, Noise
<1>17. ASSUME s \in T, new # st
       PROVE  Alive'
  <2> DEFINE w == WriteLog(st, m.entry.index, m.entry.cmd)
  <2>1. st.posi = Len(st.log) /\ st.posi \in Nat
    BY <1>2, <1>15, <1>17 DEF Steady, Store
  <2>2. /\ m.posi >= st.posi /\ CanWrite(st) /\ new.posi = w.posi /\ Len(new.log) = Len(w.log)
        /\ m.entry.state = "PRE" => new = w
    BY <1>9, <1>17
  <2>3. w.posi = st.posi + 1 /\ Above(w, st) /\ w.db = st.db /\ w.posi = Len(w.log)
    <3>1. m.entry.index \in Nat /\ m.entry.cmd \in Command
      BY <1>3 DEF Sent
    <3> HIDE DEF m
    <3>2. w.posi = st.posi + 1 /\ Above(w, st) /\ w.db = st.db /\ Len(w.log) = st.posi + 1
      BY <1>2, <2>1, <2>2, <3>1, WrittenAbove
    <3> QED
      BY <3>2
  <2> HIDE DEF w, m
  <2>4. Regrown(s, m)
    BY <1>12, <2>1, <2>2, <2>3 DEF Regrown, Above, Uncommitted
  <2>5. Unmoved(T \ {s})
    BY <1>6, <1>12, <1>13 DEF Unmoved
  <2>6. Lives(T)'
    BY <1>3, <1>4, <1>11, <1>15, <1>17, <2>4, <2>5, RegrownStep
  <2>7. Steady(T)'
    <3>1. store'[s].posi = Len(store'[s].log)
      BY <1>12, <2>2, <2>3
    <3> QED
      BY <1>6, <1>12, <1>15, <3>1, SteadyKept DEF Steady
  <2> QED
    BY <1>11, <1>14, <2>6, <2>7 DEF Alive
<1> QED
  BY <1>16, <1>17

-----------------------------------------------------------------------------
(***************************************************************************)
(* Rollbacks.                                                              *)
(***************************************************************************)

\* An entry that is not committed is popped, and nothing else changes.
LEMMA PopFacts ==
  ASSUME NEW st \in Store, st.posi = Len(st.log), Uncommitted(st)
  PROVE  /\ Fate(st) = "up" /\ RollbackLog(st).ok
         /\ RollbackLog(st).store.posi = st.posi - 1 /\ RollbackLog(st).store.db = st.db
         /\ Len(RollbackLog(st).store.log) = st.posi - 1
<1>1. st.posi > 0 /\ TopState(st) = "PRE" /\ st.posi \in Nat /\ st.log \in Seq(Entry)
  BY DEF Uncommitted, Store
<1>2. ~CommittedOp(st, "SET") /\ ~CommittedOp(st, "GET") /\ ~CommittedOp(st, "DEL")
  BY <1>1 DEF CommittedOp
<1>3. RollbackLog(st) = Pop(st, 1, st.db, st.delq)
  BY <1>1, <1>2 DEF RollbackLog
<1>4. Len(Front(st.log)) = st.posi - 1
  BY <1>1, LastEntry
<1>5. /\ RollbackLog(st).ok /\ RollbackLog(st).store.db = st.db
      /\ RollbackLog(st).store.posi = st.posi - 1 /\ RollbackLog(st).store.log = Front(st.log)
  BY <1>3 DEF Pop
<1>6. ~RollbackThrows(st) /\ ~RollbackUndefined(st) /\ ~(RollbackLog(st).store.posi < 0)
  BY <1>1, <1>2, <1>5 DEF RollbackThrows, RollbackUndefined
<1>7. Fate(st) = "up"
  BY <1>6 DEF Fate
<1> QED
  BY <1>4, <1>5, <1>7

\* A follower that has been running from the start rolls back what it was
\* given for a command that was refused, before it has an answer to the next.
LEMMA RolledStep ==
  ASSUME Inv, Inv', NEW T \in SUBSET Server, Lives(T), NEW s \in T \ {Boot},
         RollTo(net, s), ~RollTo(net', s), store'[s].posi = store[s].posi - 1, store'[s].db = store[s].db,
         Unmoved(T \ {s}), Quiet(net')
  PROVE  Lives(T)'
<1> DEFINE U == T \ {s}
<1>1. s \in Server /\ s \in Others /\ U \cup {s} = T /\ U \in SUBSET T /\ s \in Node
  BY Basics DEF Others, Typed
<1>2. store[s].posi \in Int /\ issued \in Nat /\ Load \in Nat /\ store[Boot].posi \in Int
  BY <1>1, Basics DEF Typed
<1>3. Load' \in Nat
  BY BasicsNext DEF Typed
<1>4. Cmd' = Cmd /\ Acknowledged' = Acknowledged /\ Load' <= Load
  BY UnmovedFacts
<1>5. store'[Boot] = store[Boot] /\ issued' = issued
  BY DEF Unmoved
<1>6. Hushed(net', s)
  BY <1>1 DEF Quiet
<1>7. \A c \in Copies(net', Boot, s) : c \in Copies(net, Boot, s) \/ Spare(c)
  BY <1>6 DEF Hushed
<1>8. /\ Resting(T) => Resting(U)'
      /\ \A Y, N \in SUBSET Server : Collecting(T, Y, N) => Collecting(U, Y, N)'
  BY <1>1, PhaseKept
<1>9. ASSUME Resting(T)
      PROVE  Resting(T)'
  <2>1. RestAt(s) /\ store[s].db = Acknowledged /\ store[Boot].posi + Load <= issued
    BY <1>9 DEF Resting
  <2>2. Bit(RollTo(net', s)) + store[s].posi <= Bit(RollTo(net, s)) + store'[s].posi
    BY <1>2 DEF Bit
  <2>3. store'[s].posi + 2 * Load' <= 2 * issued
    BY <1>2, <1>3, <1>4, <2>1 DEF RestAt, Roomy
  <2>4. store'[Boot].posi <= store[Boot].posi
    BY <1>2, <1>5
  <2>5. RestAt(s)'
    BY <1>1, <1>4, <1>5, <1>7, <2>1, <2>2, <2>3, <2>4, RestMoved
  <2> QED
    BY <1>1, <1>4, <1>8, <1>9, <2>1, <2>5, Joined
<1>10. ASSUME NEW Y \in SUBSET Server, NEW N \in SUBSET Server, Collecting(T, Y, N)
       PROVE  Collecting(T, Y, N)'
  <2>1. CollectAt(s, Y \cup N) /\ s \notin N /\ store[s].db = Acknowledged /\ UnderWay
    BY <1>10 DEF Collecting
  <2>2. ~Told(net, s, Y \cup N) /\ ~Told(net', s, Y \cup N)
    BY <1>6, <2>1 DEF CollectAt, Told, Hushed
  <2>3. Bit(RollTo(net', s) \/ Told(net', s, Y \cup N)) + store[s].posi
          <= Bit(RollTo(net, s) \/ Told(net, s, Y \cup N)) + store'[s].posi
    BY <1>2, <2>2 DEF Bit
  <2>4. /\ \A c \in Mail(net', s, Boot) : c.ok
        /\ Mail(net', Boot, s) # {} => store'[s].posi < 2 * issued
        /\ store'[s].posi <= 2 * issued /\ store'[Boot].posi = store[Boot].posi
    BY <1>2, <1>5, <1>6, <2>1, <2>2 DEF Told, CollectAt, Hushed, Roomy
  <2>5. CollectAt(s, Y \cup N)'
    BY <1>1, <1>5, <1>7, <2>1, <2>2, <2>3, <2>4, CollectMoved
  <2>6. Collecting(U, Y, N)' /\ store'[s].db = Acknowledged'
    BY <1>4, <1>8, <1>10, <2>1
  <2>7. Collecting(U \cup {s}, Y, N)'
    BY <1>1, <2>1, <2>5, <2>6, Joined
  <2> QED
    BY <1>1, <2>7
<1>11. ASSUME NEW Y \in SUBSET Server, NEW N \in SUBSET Server, Closing(T, Y, N)
       PROVE  FALSE
  BY <1>11 DEF Closing, CloseAt
<1> QED
  BY <1>9, <1>10, <1>11 DEF Lives

\* The handler of a [ROLL].
LEMMA RollStep ==
  ASSUME Inv, Inv', Alive, NEW a \in Server, NEW s \in Server, NEW n \in 1 .. Len(net[a][s]),
         HandleRoll(a, s, n)
  PROVE  Alive'
<1> DEFINE m   == net[a][s][n]
           nt  == Taken(a, s, n)
           ok  == RollbackLog(store[s]).ok
           re  == Ack("ROLLRE", ok)
<1>1. a \in Node /\ Receives(a, s, n, "ROLL")
  BY DEF HandleRoll, Node
<1>2. /\ Allowed(a, s, m) /\ m.type = "ROLL" /\ nt \in Nets /\ Tidy(nt) /\ Quiet(nt)
      /\ store[s] \in Store /\ InRange(store[s]) /\ s \in Node /\ Led /\ net \in Nets /\ Tidy(net)
      /\ status[s] = "up"
  BY <1>1, Delivered
<1>3. a = Boot /\ s \in Others /\ s # Boot
  BY <1>2 DEF Allowed, Others
<1>4. ~RollTo(nt, s)
  BY <1>1, <1>2, <1>3, TidyTaken
<1>5. RollTo(net, s)
  BY <1>2, <1>3 DEF RollTo, Rolling
<1>6. /\ RollBack(s)
      /\ net' = IF Fate(store[s]) = "up" THEN With(nt, s, a, re) ELSE nt
      /\ crashes' = crashes /\ acks' = acks /\ client' = client
      /\ round' = round /\ tokens' = tokens /\ pstate' = pstate
      /\ pending' = pending /\ replies' = replies /\ issued' = issued
  BY DEF HandleRoll, users, elect
<1>7. ASSUME Fate(store[s]) = "up"
      PROVE  re \in Message /\ re.type = "ROLLRE"
  <2>1. re.type = "ROLLRE"
    BY DEF Ack
  <2>2. ok \in BOOLEAN
    <3>1. ~RollbackThrows(store[s])
      BY <1>7 DEF Fate
    <3> QED
      BY <1>2, <3>1, RollbackLogType DEF Result
  <2>3. re \in Message
    BY <2>2 DEF Ack, Message
  <2> QED
    BY <2>1, <2>3
<1> HIDE DEF nt, re, ok
<1>8. ASSUME Fate(store[s]) = "up"
      PROVE  /\ Tidy(With(nt, s, a, re)) /\ Quiet(With(nt, s, a, re)) /\ ~RollTo(With(nt, s, a, re), s)
  <2>1. re.type \notin Tracked \cup {"ROLL", "RECOVER"} /\ Allowed(s, a, re)
    BY <1>3, <1>7, <1>8 DEF Tracked, Allowed
  <2>2. Tidy(With(nt, s, a, re)) /\ Quiet(With(nt, s, a, re))
    BY <1>1, <1>2, <1>7, <1>8, <2>1, QuietSent
  <2>3. RollTo(With(nt, s, a, re), s) <=> RollTo(nt, s)
    BY <1>1, <1>2, <1>7, <1>8, <2>1, TidySent
  <2> QED
    BY <1>4, <2>2, <2>3
<1>9. Tidy(net') /\ Quiet(net') /\ ~RollTo(net', s)
  BY <1>2, <1>4, <1>6, <1>8
<1>10. \A x \in Server : x # s => store'[x] = store[x] /\ status'[x] = status[x]
  BY <1>6 DEF RollBack, Inv, TypeOK
<1>11. store'[Boot] = store[Boot] /\ Boot \in Server
  BY <1>3, <1>10, ClusterConstants
<1>12. Led'
  BY <1>2, <1>6, <1>11, LedKept DEF Led
<1>13. PICK T \in SUBSET Server : Steady(T) /\ Lives(T)
  BY DEF Alive
<1>14. CASE s \notin T
  <2>1. Unmoved(T)
    BY <1>6, <1>10, <1>11, <1>14 DEF Unmoved
  <2>2. Steady(T)'
    BY <1>6, <1>10, <1>13, <1>14, SteadyKept DEF Steady
  <2> QED
    BY <1>9, <1>12, <1>13, <2>1, <2>2, Noise
<1>15. CASE s \in T
  <2>1. Uncommitted(store[s])
    <3>1. s \in T \ {Boot}
      BY <1>3, <1>15
    <3>2. \/ RestAt(s)
          \/ \E Y, N \in SUBSET Server : CollectAt(s, Y \cup N) \/ CloseAt(s, Y, N)
      BY <1>13, <3>1 DEF Lives, Resting, Collecting, Closing
    <3> QED
      BY <1>5, <3>2 DEF RestAt, CollectAt, CloseAt
  <2>2. store[s].posi = Len(store[s].log)
    BY <1>13, <1>15 DEF Steady
  <2>3. /\ Fate(store[s]) = "up"
        /\ RollbackLog(store[s]).store.posi = store[s].posi - 1
        /\ RollbackLog(store[s]).store.db = store[s].db
        /\ Len(RollbackLog(store[s]).store.log) = store[s].posi - 1
    BY <1>2, <2>1, <2>2, PopFacts
  <2>4. status'[s] = status[s] /\ store'[s] = RollbackLog(store[s]).store
    BY <1>2, <1>6, <2>3 DEF RollBack, Inv, TypeOK
  <2>5. Unmoved(T \ {s})
    BY <1>6, <1>10, <1>11 DEF Unmoved
  <2>6. Lives(T)'
    <3>1. s \in T \ {Boot} /\ store'[s].posi = store[s].posi - 1 /\ store'[s].db = store[s].db
      BY <1>3, <1>15, <2>3, <2>4
    <3> QED
      BY <1>5, <1>9, <1>13, <2>5, <3>1, RolledStep
  <2>7. Steady(T)'
    <3>1. \A x \in T : status'[x] = status[x] /\ store'[x].posi = Len(store'[x].log)
      BY <1>10, <1>13, <2>3, <2>4 DEF Steady
    <3> QED
      BY <1>6, <1>13, <3>1, SteadyKept
  <2> QED
    BY <1>9, <1>12, <2>6, <2>7 DEF Alive
<1> QED
  BY <1>14, <1>15

-----------------------------------------------------------------------------
(***************************************************************************)
(* The followers' answers.                                                 *)
(***************************************************************************)

\* Follower s has answered with m, and nobody else has any news.
Spoken(nt, s, m) ==
  /\ nt \in Nets /\ Tidy(nt)
  /\ Mail(nt, Boot, s) = {} /\ Mail(nt, s, Boot) \subseteq {m}
  /\ RollTo(nt, s) => RollTo(net, s)
  /\ Copies(nt, Boot, s) \subseteq Copies(net, Boot, s)
  /\ \A f \in Server \ {s} : Hushed(nt, f)

\* So it is when it takes the LEADER's message of the phase.
LEMMA Speaks ==
  ASSUME Inv, Tidy(net), NEW C, NEW go, NEW re, Phase(go, re), Polling(net, Boot, C, go, re),
         NEW s \in Others, NEW n \in 1 .. Len(net[Boot][s]), net[Boot][s][n].type = go,
         NEW m \in Message, m.type = re, NEW nt, nt = With(Taken(Boot, s, n), s, Boot, m)
  PROVE  /\ Spoken(nt, s, m) /\ Polling(nt, Boot, C, go, re)
         /\ s \notin C /\ net[Boot][s][n] \in Mail(net, Boot, s) /\ Mail(net, s, Boot) = {}
         /\ (\A k \in 1 .. n : net[Boot][s][k].type # "ROLL") => ~RollTo(net, s)
<1> DEFINE t == Taken(Boot, s, n)
<1>1. /\ net \in Nets /\ Boot \in Node /\ Server \subseteq Node /\ Boot \in Server /\ Single(net)
      /\ s \in Server /\ s # Boot /\ s \in Node /\ Lined(net[Boot][s])
  BY Basics DEF Typed, Tidy, Others
<1>2. /\ s \notin C \cup {Boot} /\ net[Boot][s][n] \in Mail(net, Boot, s)
      /\ Single(nt)
      /\ \A x \in Node, y \in Server :
           /\ Mail(nt, x, y) \subseteq Mail(net, x, y) \cup (IF x = s /\ y = Boot THEN {m} ELSE {})
           /\ Copies(nt, x, y) \subseteq Copies(net, x, y)
      /\ \A o \in Mail(nt, Boot, s) : o.type # go
      /\ Polling(nt, Boot, C, go, re)
  BY <1>1, Answers
<1>3. t \in Nets /\ Tidy(t) /\ \A f \in Server : RollTo(t, f) => RollTo(net, f)
  BY <1>1, TidyTaken
<1>4. go # re /\ re \in Tracked /\ go \in {"PRE", "COM"} /\ re \in {"PRERE", "COMRE"}
  BY PhaseTypes DEF Phase
<1>5. Mail(net, s, Boot) = {}
  <2> SUFFICES ASSUME NEW o \in Mail(net, s, Boot)
               PROVE  FALSE
    OBVIOUS
  <2>1. \A e \in Mail(net, Boot, s) : e.type # go
    BY <1>1 DEF Polling
  <2> QED
    BY <1>2, <2>1
<1>6. Mail(nt, Boot, s) = {}
  <2> SUFFICES ASSUME NEW o \in Mail(nt, Boot, s)
               PROVE  FALSE
    OBVIOUS
  <2>1. o \in Mail(net, Boot, s) /\ o.type # go
    BY <1>1, <1>2
  <2> QED
    BY <1>1, <2>1 DEF Polling
<1>7. nt \in Nets /\ Tidy(nt) /\ \A f \in Server : RollTo(nt, f) <=> RollTo(t, f)
  <2>1. \A o \in Mail(t, s, Boot) : o.type # m.type
    <3>1. Mail(t, s, Boot) \subseteq Mail(net, s, Boot)
      BY <1>1, MailTaken
    <3> QED
      BY <1>5, <3>1
  <2>2. Allowed(s, Boot, m) /\ m.type # "ROLL"
    BY <1>4 DEF Allowed
  <2> HIDE DEF t
  <2> QED
    BY <1>1, <1>3, <2>1, <2>2, TidySent DEF t
<1>8. Mail(nt, s, Boot) \subseteq {m}
  BY <1>1, <1>2, <1>5
<1>9. ASSUME NEW f \in Server \ {s}
      PROVE  Hushed(nt, f)
  BY <1>1, <1>2, <1>3, <1>7 DEF Hushed
<1>10. ASSUME \A k \in 1 .. n : net[Boot][s][k].type # "ROLL"
       PROVE  ~RollTo(net, s)
  <2>1. \A k \in 1 .. Len(net[Boot][s]) : net[Boot][s][k].type # "ROLL"
    <3>1. \A k \in 1 .. Len(net[Boot][s]) : net[Boot][s][k].type = "ROLL" => k < n
      BY <1>1, <1>4 DEF Lined
    <3> QED
      BY <1>10, <3>1
  <2> QED
    BY <2>1 DEF RollTo, Rolling
<1> QED
  BY <1>1, <1>2, <1>3, <1>5, <1>6, <1>7, <1>8, <1>9, <1>10 DEF Spoken

\* What the clients know and the LEADER's part stay as they are when a follower acts.
Followed(s) ==
  /\ \A x \in Server \ {s} : store'[x] = store[x]
  /\ status' = status /\ crashes' = crashes /\ acks' = acks /\ client' = client
  /\ round' = round /\ tokens' = tokens /\ pstate' = pstate
  /\ pending' = pending /\ replies' = replies /\ issued' = issued

\* The command under way and the acknowledged map do, then.
LEMMA FollowedFacts ==
  ASSUME Inv, Led, NEW s \in Others, Followed(s)
  PROVE  /\ Led' /\ store'[Boot] = store[Boot]
         /\ Cmd' = Cmd /\ Acknowledged' = Acknowledged
         /\ UnderWay => UnderWay'
         /\ \A T : Steady(T) /\ store'[s].posi = Len(store'[s].log) => Steady(T)'
         /\ \A T : Steady(T) /\ s \notin T => Steady(T)'
<1>1. store'[Boot] = store[Boot]
  BY ClusterConstants DEF Followed, Others
<1>2. Led'
  BY <1>1, LedKept DEF Followed, Led
<1>3. Cmd' = Cmd /\ Acknowledged' = Acknowledged
  BY DEF Followed, Cmd, Acknowledged
<1>4. UnderWay => UnderWay'
  BY <1>1, <1>3 DEF UnderWay, OnTop, Followed
<1>5. ASSUME NEW T, Steady(T), store'[s].posi = Len(store'[s].log) \/ s \notin T
      PROVE  Steady(T)'
  <2>1. \A x \in T : status'[x] = status[x] /\ store'[x].posi = Len(store'[x].log)
    BY <1>5 DEF Steady, Followed
  <2>2. crashes' = crashes
    BY DEF Followed
  <2> QED
    BY <1>5, <2>1, <2>2, SteadyKept
<1> QED
  BY <1>1, <1>2, <1>3, <1>4, <1>5

\* First phase: a follower has written the entry, or it has been restarted.
LEMMA AgreedStep ==
  ASSUME Inv, Inv', NEW T \in SUBSET Server, NEW Y \in SUBSET Server, NEW N \in SUBSET Server,
         Collecting(T, Y, N), NEW s \in Others, Followed(s), Led, NEW m, Spoken(net', s, m),
         Polling(net', Boot, Y \cup N, "PRE", "PRERE"),
         s \in T => CollectAt(s, Y \cup N)' /\ store'[s].db = store[s].db
  PROVE  Collecting(T, Y, N)'
<1>1. /\ store'[Boot] = store[Boot] /\ Cmd' = Cmd /\ Acknowledged' = Acknowledged
      /\ UnderWay => UnderWay'
  BY FollowedFacts
<1>2. UnderWay /\ UnderWay' /\ Y \cap N = {}
  BY <1>1 DEF Collecting
<1>3. acks'[Boot] = [pOk |-> Cardinality(Y), pErr |-> Cardinality(N), cOk |-> 0, cErr |-> 0]
  BY DEF Collecting, Followed
<1>4. \A f \in Others : \A o \in Mail(net', Boot, f) : o.cmd = Cmd'
  <2>1. \A f \in Others : Mail(net', Boot, f) \subseteq Mail(net, Boot, f)
    BY DEF Spoken, Hushed, Others
  <2> QED
    BY <1>1, <2>1 DEF Collecting
<1>5. \A x \in T : store'[x].db = Acknowledged'
  BY <1>1 DEF Collecting, Followed
<1>6. ASSUME NEW f \in T \ {Boot}
      PROVE  CollectAt(f, Y \cup N)' /\ f \notin N
  <2>1. f \in Server /\ CollectAt(f, Y \cup N) /\ f \notin N
    BY DEF Collecting
  <2>2. CASE f = s
    BY <2>1, <2>2
  <2>3. CASE f # s
    <3>1. Hushed(net', f) /\ store'[f] = store[f] /\ issued' = issued /\ store'[Boot].posi = store[Boot].posi
      BY <1>1, <2>1, <2>3 DEF Spoken, Followed
    <3>2. Told(net', f, Y \cup N) => Told(net, f, Y \cup N)
      BY <3>1 DEF Told, Hushed
    <3>3. CollectAt(f, Y \cup N)'
      BY <1>1, <1>2, <2>1, <3>1, <3>2, CollectKept
    <3> QED
      BY <2>1, <3>3
  <2> QED
    BY <2>2, <2>3
<1> QED
  BY <1>2, <1>3, <1>4, <1>5, <1>6 DEF Collecting

\* The handler of a [PRE].
LEMMA PrepareStep ==
  ASSUME FaultSetting, Inv, Inv', Alive, NEW a \in Server, NEW s \in Server, NEW n \in 1 .. Len(net[a][s]),
         HandlePre(a, s, n), RollbackFirst
  PROVE  Alive'
<1> DEFINE m  == net[a][s][n]
           st == store[s]
           ok == CanWrite(st)
           w  == WriteLog(st, m.index, m.cmd)
           re == Ack("PRERE", ok)
           nt == net'
<1>1. a \in Node /\ Receives(a, s, n, "PRE")
  BY DEF HandlePre, Node
<1>2. /\ Allowed(a, s, m) /\ m \in Message /\ m.type = "PRE"
      /\ st \in Store /\ InRange(st) /\ Led /\ Tidy(net) /\ net \in Nets /\ Single(net)
  BY <1>1, Delivered
<1>3. /\ a = Boot /\ s \in Others /\ s # Boot
      /\ \A k \in 1 .. n : net[Boot][s][k].type # "ROLL"
  BY <1>2 DEF Allowed, Others, RollbackFirst
<1>4. m.index \in Nat /\ m.cmd \in Command
  BY <1>2, MessageFields
<1>5. /\ nt = With(Taken(a, s, n), s, a, re) /\ store' = [store EXCEPT ![s] = w]
      /\ Followed(s)
  <2>1. store \in [Server -> Store]
    BY DEF Inv, TypeOK
  <2> QED
    BY <2>1 DEF HandlePre, Followed, elect, users, env
<1>6. re \in Message /\ re.type = "PRERE" /\ re.ok = ok
  BY <1>2, <1>4, OrderType DEF Ack, CanWrite, Message
<1>7. m \in Mail(net, Boot, s)
  BY <1>1, <1>2, <1>3, MailTaken DEF Tracked
<1>8. PICK T \in SUBSET Server : Steady(T) /\ Lives(T)
  BY DEF Alive
<1>9. PICK Y \in SUBSET Server, N \in SUBSET Server : Collecting(T, Y, N)
  <2>1. ~Resting(T)
    <3>1. Boot \in Node
      BY Basics DEF Typed
    <3> QED
      BY <1>2, <1>7, <3>1 DEF Resting
  <2>2. ASSUME NEW Y, NEW N, Closing(T, Y, N)
        PROVE  FALSE
    <3>1. m.type \in {"COM", "COMRE"}
      BY <1>1, <1>3, <1>7, <2>2 DEF Closing, Polling
    <3> QED
      BY <1>2, <3>1
  <2> QED
    BY <1>8, <2>1, <2>2 DEF Lives
<1> DEFINE C == Y \cup N
<1>10. Polling(net, Boot, C, "PRE", "PRERE") /\ Phase("PRE", "PRERE")
  BY <1>9 DEF Collecting, Phase
<1>11. m.cmd = Cmd
  BY <1>3, <1>7, <1>9 DEF Collecting
<1> HIDE DEF m, re, nt, C, ok, st, w
<1>12. /\ Spoken(nt, s, re) /\ Polling(nt, Boot, C, "PRE", "PRERE")
       /\ s \notin C /\ Mail(net, s, Boot) = {} /\ ~RollTo(net, s)
  BY <1>2, <1>3, <1>5, <1>6, <1>10, Speaks DEF m
<1>13. /\ Led' /\ store'[Boot] = store[Boot] /\ Cmd' = Cmd /\ Acknowledged' = Acknowledged
       /\ UnderWay => UnderWay'
       /\ \A S : Steady(S) /\ store'[s].posi = Len(store'[s].log) => Steady(S)'
       /\ \A S : Steady(S) /\ s \notin S => Steady(S)'
  BY <1>2, <1>3, <1>5, FollowedFacts
<1>14. ASSUME s \in T
       PROVE  /\ store'[s].posi = Len(store'[s].log)
              /\ CollectAt(s, C)' /\ store'[s].db = store[s].db
  <2>1. CollectAt(s, C) /\ UnderWay /\ st.posi = Len(st.log)
    BY <1>3, <1>8, <1>9, <1>14 DEF Collecting, Steady, C, st
  <2>2. st.posi < 2 * issued
    BY <1>7, <2>1 DEF CollectAt, st
  <2>3. /\ issued \in Nat /\ issued <= MaxCmd /\ MaxCmd \in Nat /\ MaxLog \in Nat /\ 2 * MaxCmd <= MaxLog
        /\ st.posi \in Nat
    BY <1>2, <2>1, Basics, ClusterConstants, LogConstants DEF Typed, Led, FaultSetting, Store
  <2>4. CanWrite(st)
    <3>1. st.posi < MaxLog
      BY <2>2, <2>3
    <3> QED
      BY <2>1, <3>1 DEF CanWrite
  <2>5. /\ Above(w, st) /\ w.posi = st.posi + 1 /\ Len(w.log) = st.posi + 1
        /\ Top(w).cmd = m.cmd /\ w.db = st.db
    BY <1>2, <1>4, <2>1, <2>4, WrittenAbove DEF w
  <2>6. store'[s] = w
    BY <1>5 DEF Inv, TypeOK
  <2>7. ~RollTo(net', s) /\ ~Told(net, s, C)
    BY <1>12 DEF Spoken, Told, nt
  <2>8. Bit(RollTo(net', s) \/ Told(net', s, C)) + store[s].posi
          <= Bit(RollTo(net, s) \/ Told(net, s, C)) + store'[s].posi
    BY <1>12, <2>3, <2>5, <2>6, <2>7 DEF Bit, st
  <2>9. Uncommitted(store'[s]) /\ Top(store'[s]).cmd = Cmd'
    BY <1>11, <1>13, <2>5, <2>6 DEF Above, Uncommitted
  <2>10. /\ \A o \in Mail(net', s, Boot) : o.ok
         /\ Mail(net', Boot, s) = {}
         /\ \A o \in Copies(net', Boot, s) : o \in Copies(net, Boot, s) \/ Spare(o)
    BY <1>6, <1>12, <2>4 DEF Spoken, ok, nt
  <2>11. store'[s].posi <= 2 * issued /\ store'[Boot].posi = store[Boot].posi /\ issued' = issued
    BY <1>5, <1>13, <2>2, <2>3, <2>5, <2>6 DEF Followed
  <2>12. CollectAt(s, C)'
    BY <1>3, <2>1, <2>7, <2>8, <2>9, <2>10, <2>11, CollectMoved
  <2> QED
    BY <2>5, <2>6, <2>12 DEF st
<1>15. Collecting(T, Y, N)'
  BY <1>2, <1>3, <1>5, <1>9, <1>12, <1>14, AgreedStep DEF C, nt
<1>16. Steady(T)' /\ Tidy(net')
  BY <1>8, <1>12, <1>13, <1>14 DEF Spoken, nt
<1> QED
  BY <1>13, <1>15, <1>16 DEF Alive, Lives

\* Second phase: a follower has committed the entry on top, or refused to.
LEMMA ClosedStep ==
  ASSUME Inv, Inv', NEW T \in SUBSET Server, NEW Y \in SUBSET Server, NEW N \in SUBSET Server,
         Closing(T, Y, N), NEW s \in Others, Followed(s), Led, NEW m, Spoken(net', s, m),
         Polling(net', Boot, Y \cup N, "COM", "COMRE"), ~RollTo(net, s),
         s \in T => CloseAt(s, Y, N)'
  PROVE  Closing(T, Y, N)'
<1>1. /\ store'[Boot] = store[Boot] /\ Cmd' = Cmd /\ Acknowledged' = Acknowledged
      /\ UnderWay => UnderWay'
  BY FollowedFacts
<1>2. UnderWay /\ UnderWay' /\ Y \cap N = {}
  BY <1>1 DEF Closing
<1>3. acks'[Boot] = [pOk |-> 0, pErr |-> 0, cOk |-> Cardinality(Y), cErr |-> Cardinality(N)]
  BY DEF Closing, Followed
<1>4. Boot \in T => store'[Boot].db = Acknowledged'
  BY <1>1 DEF Closing
<1>5. ASSUME NEW f \in T \ {Boot}
      PROVE  CloseAt(f, Y, N)'
  <2>1. f \in Server /\ CloseAt(f, Y, N)
    BY DEF Closing
  <2>2. CASE f = s
    BY <2>2
  <2>3. CASE f # s
    <3>1. Hushed(net', f) /\ store'[f] = store[f] /\ issued' = issued /\ store'[Boot].posi = store[Boot].posi
      BY <1>1, <2>1, <2>3 DEF Spoken, Followed
    <3>2. Told(net', f, Y \cup N) => Told(net, f, Y \cup N)
      BY <3>1 DEF Told, Hushed
    <3> QED
      BY <1>1, <1>2, <2>1, <3>1, <3>2, CloseKept
  <2> QED
    BY <2>2, <2>3
<1>6. ASSUME NEW f \in Others, Told(net', f, Y \cup N)
      PROVE  ~RollTo(net', f)
  <2>1. CASE f = s
    BY <2>1 DEF Spoken
  <2>2. CASE f # s
    <3>1. Hushed(net', f)
      BY <2>2 DEF Spoken, Others
    <3>2. Told(net, f, Y \cup N)
      BY <1>6, <3>1 DEF Told, Hushed
    <3> QED
      BY <3>1, <3>2 DEF Closing, Hushed
  <2> QED
    BY <2>1, <2>2
<1> QED
  BY <1>2, <1>3, <1>4, <1>5, <1>6 DEF Closing

\* Committing the entry of a SET or a GET has the effect of the command, or it
\* is refused for a GET, and the entry stays.
LEMMA CommitEffect ==
  ASSUME NEW st \in Store, st.posi = Len(st.log), Uncommitted(st), Top(st).cmd.op \in {"SET", "GET"}
  PROVE  /\ CommitLog(st) \in Result
         /\ CommitLog(st).store.posi = st.posi /\ Len(CommitLog(st).store.log) = st.posi
         /\ CommitLog(st).store.db = Effect(st.db, Top(st).cmd)
         /\ ~CommitLog(st).ok => CommitLog(st).store = st /\ Top(st).cmd.op = "GET"
<1>1. st.posi > 0 /\ TopState(st) = "PRE"
  BY DEF Uncommitted
<1>2. /\ CommitLog(st) \in Result
      /\ ~CommitLog(st).ok => CommitLog(st).store = st /\ Top(st).cmd.op = "GET"
      /\ CommitLog(st).ok =>
           /\ Top(st).cmd.op = "SET" =>
                CommitLog(st).store.db = [st.db EXCEPT ![Top(st).cmd.keys[1]] = Top(st).cmd.val]
           /\ Top(st).cmd.op = "GET" => CommitLog(st).store.db = st.db
      /\ CommitLog(st).store.posi = st.posi /\ Len(CommitLog(st).store.log) = st.posi
  BY <1>1, CommitTop
<1>3. /\ Top(st).cmd.op = "SET" =>
           Effect(st.db, Top(st).cmd) = [st.db EXCEPT ![Top(st).cmd.keys[1]] = Top(st).cmd.val]
      /\ Top(st).cmd.op = "GET" => Effect(st.db, Top(st).cmd) = st.db
  BY DEF Effect
<1>4. CommitLog(st).ok \in BOOLEAN
  BY <1>2 DEF Result
<1> QED
  BY <1>2, <1>3, <1>4

\* The command under way is a SET or a GET.
LEMMA CmdOp ==
  ASSUME FaultSetting, Led, UnderWay
  PROVE  Cmd \in Command /\ Cmd.op \in {"SET", "GET"}
<1>1. Cmd \in Workload /\ Workload \subseteq Command
  BY ClusterConstants DEF UnderWay, Led, Cmd
<1> QED
  BY <1>1 DEF FaultSetting, Command

\* The handler of a [COM].
LEMMA CommitStep ==
  ASSUME FaultSetting, Inv, Inv', Alive, NEW a \in Server, NEW s \in Server, NEW n \in 1 .. Len(net[a][s]),
         HandleCom(a, s, n), RollbackFirst
  PROVE  Alive'
<1> DEFINE m   == net[a][s][n]
           st  == store[s]
           res == CommitLog(st)
           re  == Ack("COMRE", res.ok)
           nt  == net'
<1>1. a \in Node /\ Receives(a, s, n, "COM")
  BY DEF HandleCom, Node
<1>2. /\ Allowed(a, s, m) /\ m \in Message /\ m.type = "COM"
      /\ st \in Store /\ InRange(st) /\ Led /\ Tidy(net) /\ net \in Nets /\ Single(net)
  BY <1>1, Delivered
<1>3. /\ a = Boot /\ s \in Others /\ s # Boot
      /\ \A k \in 1 .. n : net[Boot][s][k].type # "ROLL"
  BY <1>2 DEF Allowed, Others, RollbackFirst
<1>4. res \in Result /\ res.ok \in BOOLEAN
  BY <1>2, CommitLogType DEF Result
<1>5. /\ nt = With(Taken(a, s, n), s, a, re) /\ store' = [store EXCEPT ![s] = res.store]
      /\ Followed(s)
  <2>1. store \in [Server -> Store]
    BY DEF Inv, TypeOK
  <2> QED
    BY <2>1 DEF HandleCom, Followed, elect, users, env
<1>6. re \in Message /\ re.type = "COMRE" /\ re.ok = res.ok
  <2> HIDE DEF res
  <2> QED
    BY <1>4 DEF Ack, Message
<1>7. m \in Mail(net, Boot, s)
  BY <1>1, <1>2, <1>3, MailTaken DEF Tracked
<1>8. PICK T \in SUBSET Server : Steady(T) /\ Lives(T)
  BY DEF Alive
<1>9. PICK Y \in SUBSET Server, N \in SUBSET Server : Closing(T, Y, N)
  <2>1. ~Resting(T)
    <3>1. Boot \in Node
      BY Basics DEF Typed
    <3> QED
      BY <1>2, <1>7, <3>1 DEF Resting
  <2>2. ASSUME NEW Y, NEW N, Collecting(T, Y, N)
        PROVE  FALSE
    <3>1. m.type \in {"PRE", "PRERE"}
      BY <1>1, <1>3, <1>7, <2>2 DEF Collecting, Polling
    <3> QED
      BY <1>2, <3>1
  <2> QED
    BY <1>8, <2>1, <2>2 DEF Lives
<1> DEFINE C == Y \cup N
<1>10. Polling(net, Boot, C, "COM", "COMRE") /\ Phase("COM", "COMRE")
  BY <1>9 DEF Closing, Phase
<1> HIDE DEF m, re, nt, C, res, st
<1>11. /\ Spoken(nt, s, re) /\ Polling(nt, Boot, C, "COM", "COMRE")
       /\ s \notin C /\ Mail(net, s, Boot) = {} /\ ~RollTo(net, s)
  BY <1>2, <1>3, <1>5, <1>6, <1>10, Speaks DEF m
<1>12. /\ Led' /\ store'[Boot] = store[Boot] /\ Cmd' = Cmd /\ Acknowledged' = Acknowledged
       /\ UnderWay => UnderWay'
       /\ \A S : Steady(S) /\ store'[s].posi = Len(store'[s].log) => Steady(S)'
       /\ \A S : Steady(S) /\ s \notin S => Steady(S)'
  BY <1>2, <1>3, <1>5, FollowedFacts
<1>13. ASSUME s \in T
       PROVE  store'[s].posi = Len(store'[s].log) /\ CloseAt(s, Y, N)'
  <2>1. CloseAt(s, Y, N) /\ UnderWay /\ st.posi = Len(st.log)
    BY <1>3, <1>8, <1>9, <1>13 DEF Closing, Steady, st
  <2>2. Uncommitted(st) /\ Top(st).cmd = Cmd /\ st.db = Acknowledged
    BY <1>7, <2>1 DEF CloseAt, OnTop, st
  <2>3. Cmd.op \in {"SET", "GET"}
    BY <1>2, <2>1, CmdOp
  <2>4. /\ res.store.posi = st.posi /\ Len(res.store.log) = st.posi
        /\ res.store.db = Effect(st.db, Top(st).cmd)
        /\ ~res.ok => res.store = st /\ Top(st).cmd.op = "GET"
    BY <1>2, <2>1, <2>2, <2>3, CommitEffect DEF res
  <2>5. store'[s] = res.store
    BY <1>5 DEF Inv, TypeOK
  <2>6. ~RollTo(net', s) /\ Mail(net', Boot, s) = {}
    BY <1>11, <2>1 DEF Spoken, CloseAt, nt
  <2>7. store'[s].db = Effect(Acknowledged', Cmd')
    BY <1>12, <2>2, <2>4, <2>5
  <2>8. s \in N \/ (\E o \in Mail(net', s, Boot) : ~o.ok) => Cmd'.op = "GET" /\ Uncommitted(store'[s])
    <3>1. s \notin N
      BY <1>11 DEF C
    <3>2. \A o \in Mail(net', s, Boot) : o.ok = res.ok
      BY <1>6, <1>11 DEF Spoken, nt
    <3> QED
      BY <1>12, <2>2, <2>4, <2>5, <3>1, <3>2
  <2>9. \A o \in Copies(net', Boot, s) : o \in Copies(net, Boot, s) \/ Spare(o)
    BY <1>11 DEF Spoken, nt
  <2>10. store'[s].posi = store[s].posi /\ store'[Boot].posi = store[Boot].posi /\ issued' = issued
    BY <1>5, <1>12, <2>4, <2>5 DEF Followed, st
  <2>11. CloseAt(s, Y, N)'
    BY <1>3, <2>1, <2>6, <2>7, <2>8, <2>9, <2>10, CloseMoved DEF Others
  <2> QED
    BY <2>4, <2>5, <2>11
<1>14. Closing(T, Y, N)'
  BY <1>2, <1>3, <1>5, <1>9, <1>11, <1>13, ClosedStep DEF C, nt
<1>15. Steady(T)' /\ Tidy(net')
  BY <1>8, <1>11, <1>12, <1>13 DEF Spoken, nt
<1> QED
  BY <1>12, <1>14, <1>15 DEF Alive, Lives

-----------------------------------------------------------------------------
(***************************************************************************)
(* The client's command reaches the LEADER.                                *)
(***************************************************************************)

\* With one client, nothing is under way when it asks, and no mail is left.
LEMMA NothingAsked ==
  ASSUME FaultSetting, Inv, NEW T, Lives(T), NEW c \in Client, pending[c] = Nil
  PROVE  Resting(T) /\ \A a \in Node, b \in Server : Mail(net, a, b) = {}
<1>1. ~UnderWay
  BY DEF UnderWay, Cmd, FaultSetting
<1>2. Resting(T)
  BY <1>1 DEF Lives, Collecting, Closing
<1>3. ASSUME NEW a \in Node, NEW b \in Server, NEW m \in Mail(net, a, b)
      PROVE  FALSE
  <2>1. m.type = "CLIENT" /\ pending[m.client] = m.cmd
    BY <1>2 DEF Resting
  <2>2. m \in Message
    BY Basics DEF Typed
  <2>3. m.client \in Client /\ m.cmd \in Command
    BY <2>1, <2>2, MessageFields
  <2> QED
    BY <2>1, <2>3, ClusterConstants DEF FaultSetting
<1> QED
  BY <1>2, <1>3

\* The client asks.
LEMMA AskStep ==
  ASSUME FaultSetting, Inv, Inv', Alive, NEW c \in Client, Submit(c)
  PROVE  Alive'
<1>1. PICK T \in SUBSET Server : Steady(T) /\ Lives(T)
  BY DEF Alive
<1>2. Led /\ Tidy(net) /\ pending[c] = Nil /\ issued < MaxCmd
  BY DEF Alive, Submit
<1>3. Resting(T) /\ \A a \in Node, b \in Server : Mail(net, a, b) = {}
  BY <1>1, <1>2, NothingAsked
<1>4. PICK cmd \in Workload : /\ pending' = [pending EXCEPT ![c] = cmd]
                              /\ net' = With(net, c, Boot, Ask(c, cmd))
  BY DEF Submit
<1> DEFINE m == Ask(c, cmd)
<1>5. m \in Message /\ m.type = "CLIENT" /\ m.client = c /\ m.cmd = cmd
  <2>1. cmd \in Command
    BY ClusterConstants
  <2>2. m \in Message
    BY <2>1, EmptyStoreType, OrderType
  <2> QED
    BY <2>2 DEF Ask
<1>6. /\ issued' = issued + 1 /\ store' = store /\ client' = client /\ acks' = acks
      /\ replies' = replies /\ status' = status /\ crashes' = crashes
      /\ round' = round /\ tokens' = tokens /\ pstate' = pstate
  BY DEF Submit, elect, data, env
<1>7. /\ net \in Nets /\ Boot \in Server /\ Boot \in Node /\ c \in Node /\ c \notin Server /\ c # Boot
      /\ issued \in Nat /\ Load \in Nat /\ Load' \in Nat /\ Load' <= 1 /\ Single(net)
      /\ \A f \in Server : store[f].posi \in Int
      /\ \A f \in Server : \A o \in Copies(net, Boot, f) : o.posi \in Int
  BY <1>2, Basics, BasicsNext, ClusterConstants DEF Typed, Node, Tidy
<1> HIDE DEF m
<1>8. Allowed(c, Boot, m)
  BY <1>5 DEF Allowed
<1>9. Tidy(net') /\ \A f \in Server : RollTo(net', f) <=> RollTo(net, f)
  BY <1>2, <1>3, <1>4, <1>5, <1>7, <1>8, TidySent DEF m
<1>10. \A x \in Node, y \in Server :
         /\ Mail(net', x, y) \subseteq {m}
         /\ Copies(net', x, y) = Copies(net, x, y)
  <2>1. \A x \in Node, y \in Server :
          /\ Mail(With(net, c, Boot, m), x, y) =
               Mail(net, x, y) \cup (IF x = c /\ y = Boot /\ m.type \in Tracked THEN {m} ELSE {})
          /\ Copies(With(net, c, Boot, m), x, y) =
               Copies(net, x, y) \cup (IF x = c /\ y = Boot /\ m.type = "RECOVER" THEN {m} ELSE {})
    <3>1. \A o \in Mail(net, c, Boot) : o.type # m.type
      BY <1>3, <1>7
    <3>2. net \in Nets /\ Single(net) /\ c \in Node /\ Boot \in Server /\ m \in Message
      BY <1>5, <1>7
    <3> QED
      BY <3>1, <3>2, MailSent
  <2> QED
    BY <1>3, <1>4, <1>5, <2>1 DEF m
<1>11. Load = 0
  BY <1>3, <1>7, ClusterConstants DEF Load, Bit, Node
<1>12. Acknowledged' = Acknowledged
  BY <1>6 DEF Acknowledged
<1>13. pending'[c] = cmd /\ \A d \in Client : d = c
  BY <1>4 DEF Inv, TypeOK, FaultSetting
<1>14. Led'
  <2>1. issued' <= MaxCmd
    BY <1>2, <1>6, <1>7, ClusterConstants
  <2> QED
    BY <1>2, <1>6, <1>13, <2>1 DEF Led
<1>15. Steady(T)'
  BY <1>1, <1>6 DEF Steady
<1>16. ASSUME NEW f \in T \ {Boot}
       PROVE  RestAt(f)'
  <2>1. f \in Server /\ RestAt(f)
    BY <1>3 DEF Resting
  <2>2. /\ Ahead(store[f], Copies(net, Boot, f), store[Boot].posi, Bit(RollTo(net, f)))
        /\ RollTo(net, f) => Uncommitted(store[f])
        /\ Roomy(store[f], Copies(net, Boot, f), Load, issued)
    BY <2>1 DEF RestAt
  <2>3. RollTo(net', f) = RollTo(net, f) /\ Copies(net', Boot, f) = Copies(net, Boot, f)
    BY <1>7, <1>9, <1>10, <2>1 DEF RollTo, Rolling
  <2>4. Roomy(store[f], Copies(net, Boot, f), Load', issued')
    <3> DEFINE k == Load'
               i == issued'
               old == Copies(net, Boot, f)
               st == store[f]
               n == issued
    <3>1. /\ k \in Nat /\ k <= 1 /\ i = n + 1 /\ n \in Nat /\ st.posi \in Int /\ Roomy(st, old, 0, n)
          /\ \A o \in old : o.posi \in Int
      BY <1>6, <1>7, <1>11, <2>1, <2>2
    <3> HIDE DEF k, i, old, st, n
    <3>2. k + n <= 0 + i /\ i \in Nat
      BY <3>1
    <3>3. st.posi + 2 * k <= 2 * i
      BY <3>1 DEF Roomy
    <3>4. Roomy(st, old, k, i)
      BY <3>1, <3>2, <3>3, RoomyStep
    <3> QED
      BY <3>4 DEF k, i, old, st
  <2> QED
    BY <1>6, <2>2, <2>3, <2>4 DEF RestAt
<1>17. Resting(T)'
  <2>1. \A a \in Node, b \in Server : \A o \in Mail(net', a, b) :
          o.type = "CLIENT" /\ pending'[o.client] = o.cmd
    BY <1>5, <1>10, <1>13
  <2>2. acks'[Boot] = NoAcks /\ \A s \in T : store'[s].db = Acknowledged'
    BY <1>3, <1>6, <1>12 DEF Resting
  <2>3. store'[Boot].posi + Load' <= issued'
    BY <1>3, <1>6, <1>7, <1>11 DEF Resting
  <2> QED
    BY <1>16, <2>1, <2>2, <2>3 DEF Resting
<1>18. Lives(T)'
  BY <1>17 DEF Lives
<1> QED
  BY <1>9, <1>14, <1>15, <1>18 DEF Alive

\* What is on its way has been sent by somebody who may.
LEMMA MailAllowed ==
  ASSUME Tidy(net), NEW x \in Node, NEW y \in Server, NEW o \in Mail(net, x, y)
  PROVE  Allowed(x, y, o)
<1>1. PICK k \in 1 .. Len(net[x][y]) : net[x][y][k] = o
  BY DEF Mail, OfKind
<1> QED
  BY <1>1 DEF Tidy, Proper

\* The LEADER takes the client's command when nothing else is on its way.
LEMMA AskedFacts ==
  ASSUME FaultSetting, Inv, Alive, NEW a \in Node, NEW s \in Server, NEW n \in 1 .. Len(net[a][s]),
         Receives(a, s, n, "CLIENT")
  PROVE  /\ a \in Client /\ s = Boot /\ net[a][s][n] \in Message /\ net[a][s][n].type = "CLIENT"
         /\ net[a][s][n].client \in Client /\ net[a][s][n].cmd \in Command
         /\ pending[net[a][s][n].client] = net[a][s][n].cmd
         /\ \A x \in Node, y \in Server : Mail(Taken(a, s, n), x, y) = {}
         /\ Load = 1
         /\ \A T \in SUBSET Server : Lives(T) => Resting(T)
<1> DEFINE m == net[a][s][n]
           nt == Taken(a, s, n)
<1>1. Allowed(a, s, m) /\ m \in Message /\ m.type = "CLIENT" /\ net \in Nets /\ Single(net) /\ Tidy(net)
  BY Delivered
<1>2. a \in Client /\ s = Boot /\ Boot \in Node
  BY <1>1, ClusterConstants DEF Allowed, Node
<1>3. m.client \in Client /\ m.cmd \in Command
  BY <1>1, MessageFields
<1>4. /\ m \in Mail(net, a, s)
      /\ \A o \in Mail(nt, a, s) : o.type # "CLIENT"
      /\ \A x \in Node, y \in Server : Mail(nt, x, y) \subseteq Mail(net, x, y)
  BY <1>1, MailTaken DEF Tracked
<1> HIDE DEF m, nt
<1>5. ASSUME NEW T \in SUBSET Server, Lives(T)
      PROVE  Resting(T)
  <2>1. ASSUME NEW Y, NEW N, Collecting(T, Y, N)
        PROVE  FALSE
    <3>1. m.type \in {"PRE", "PRERE"}
      BY <1>4, <2>1 DEF Collecting, Polling
    <3> QED
      BY <1>1, <3>1
  <2>2. ASSUME NEW Y, NEW N, Closing(T, Y, N)
        PROVE  FALSE
    <3>1. m.type \in {"COM", "COMRE"}
      BY <1>4, <2>2 DEF Closing, Polling
    <3> QED
      BY <1>1, <3>1
  <2> QED
    BY <1>5, <2>1, <2>2 DEF Lives
<1>6. PICK T \in SUBSET Server : Resting(T)
  BY <1>5 DEF Alive
<1>7. pending[m.client] = m.cmd
  BY <1>4, <1>6 DEF Resting
<1>8. ASSUME NEW x \in Node, NEW y \in Server, NEW o \in Mail(nt, x, y)
      PROVE  FALSE
  <2>1. o \in Mail(net, x, y)
    BY <1>4
  <2>2. o.type = "CLIENT"
    BY <1>6, <2>1 DEF Resting
  <2>3. Allowed(x, y, o)
    BY <1>1, <2>1, MailAllowed
  <2>4. x = a /\ y = s
    BY <1>2, <2>2, <2>3 DEF Allowed, FaultSetting
  <2> QED
    BY <1>4, <2>2, <2>4
<1>9. Load = 1
  BY <1>2, <1>4 DEF Load, Bit
<1>10. \A x \in Node, y \in Server : Mail(nt, x, y) = {}
  BY <1>8
<1> QED
  BY <1>1, <1>2, <1>3, <1>5, <1>7, <1>9, <1>10 DEF m, nt

\* What the LEADER has once it has written a command that the client gave it.
LEMMA LeaderWrites ==
  ASSUME FaultSetting, Inv, Alive, NEW T \in SUBSET Server, Resting(T), Load = 1,
         NEW cmd \in Command, NEW st, st = WriteLog(store[Boot], 0, cmd)
  PROVE  /\ st.posi = store[Boot].posi + 1 /\ st.posi = Len(st.log) /\ st.posi <= issued
         /\ Uncommitted(st) /\ Top(st).cmd = cmd /\ st.db = store[Boot].db
         /\ Pre(st, cmd) \in Message
<1> DEFINE old == store[Boot]
<1>1. /\ old \in Store /\ issued \in Nat /\ MaxCmd \in Nat /\ MaxLog \in Nat
      /\ issued <= MaxCmd /\ 2 * MaxCmd <= MaxLog
      /\ old.posi = Len(old.log) /\ old.posi + 1 <= issued
  BY Basics, ClusterConstants, LogConstants DEF Typed, Alive, Led, FaultSetting, Resting
<1> HIDE DEF old
<1>2. old.posi \in Nat
  BY <1>1 DEF Store
<1>3. CanWrite(old)
  <2>1. old.posi < MaxLog
    BY <1>1, <1>2
  <2> QED
    BY <1>1, <2>1 DEF CanWrite
<1>4. /\ st \in Store /\ Above(st, old)
      /\ st.posi = old.posi + 1 /\ Len(st.log) = old.posi + 1
      /\ Top(st).cmd = cmd /\ st.db = old.db /\ NewLogIndex(st) = 0
  <2>1. st = WriteLog(old, 0, cmd)
    BY DEF old
  <2> QED
    BY <1>1, <1>3, <2>1, WrittenAbove
<1>5. Pre(st, cmd) \in Message
  BY <1>4 DEF Pre, Message
<1> QED
  BY <1>1, <1>4, <1>5 DEF Above, Uncommitted, old

\* A follower that was between two commands is asked to write the next.
LEMMA CalledOn ==
  ASSUME Inv, Inv', NEW f \in Others, RestAt(f), Load = 1, issued' = issued,
         Copies(net', Boot, f) \subseteq Copies(net, Boot, f), RollTo(net', f) => RollTo(net, f),
         Mail(net', f, Boot) = {}, store'[f] = store[f], store'[Boot].posi = store[Boot].posi + 1
  PROVE  CollectAt(f, {})'
<1> DEFINE st == store[f]
           old == Copies(net, Boot, f)
           new == Copies(net', Boot, f)
           b == store[Boot].posi
           h == Bit(RollTo(net, f))
           j == Bit(RollTo(net', f))
           i == issued
<1>1. /\ st.posi \in Int /\ b \in Int /\ i \in Nat
      /\ \A m \in old : m.posi \in Int /\ Place(m) \in Int
  BY Basics DEF Typed, Others
<1>2. h \in Int /\ j \in Int /\ j <= h
  BY DEF Bit
<1>3. Ahead(st, old, b, h) /\ Roomy(st, old, 1, i) /\ new \subseteq old
  BY DEF RestAt
<1>4. ~Told(net', f, {})
  BY DEF Told
<1>5. store'[Boot].posi - 1 = b
  BY <1>1
<1>6. CollectAt(f, {})' <=>
        /\ Ahead(store'[f], new, store'[Boot].posi - 1, Bit(RollTo(net', f) \/ Told(net', f, {})))
        /\ RollTo(net', f) => Uncommitted(store'[f])
        /\ Told(net', f, {}) => Uncommitted(store'[f]) /\ Top(store'[f]).cmd = Cmd' /\ ~RollTo(net', f)
        /\ \A m \in Mail(net', f, Boot) : m.ok
        /\ Mail(net', Boot, f) # {} => store'[f].posi < 2 * issued'
        /\ Roomy(store'[f], new, 0, issued')
  BY DEF CollectAt, OnTop
<1>7. Bit(RollTo(net', f) \/ Told(net', f, {})) = j
  BY <1>4 DEF Bit
<1>8. RollTo(net', f) => Uncommitted(store'[f])
  BY DEF RestAt
<1>9. store'[f] = st /\ issued' = i
  OBVIOUS
<1> HIDE DEF st, old, new, b, h, j, i
<1>10. Ahead(st, new, b, j)
  BY <1>1, <1>2, <1>3, AheadStep
<1>11. Roomy(st, new, 0, i) /\ st.posi < 2 * i
  <2>1. st.posi + 2 <= 2 * i
    BY <1>1, <1>3 DEF Roomy
  <2>2. \A m \in new : m.posi \in Int /\ (m \in old \/ m.posi + 1 + 1 <= i)
    BY <1>1, <1>3
  <2>3. st.posi + 2 * 0 <= 2 * i /\ 0 + i <= 1 + i
    BY <1>1, <2>1
  <2>4. Roomy(st, new, 0, i)
    BY <1>1, <1>3, <2>2, <2>3, RoomyStep
  <2> QED
    BY <1>1, <2>1, <2>4
<1> QED
  BY <1>4, <1>5, <1>6, <1>7, <1>8, <1>9, <1>10, <1>11

\* The handler of a [CLIENT].
LEMMA OpenStep ==
  ASSUME FaultSetting, Inv, Inv', Alive, NEW a \in Node, NEW s \in Server, NEW n \in 1 .. Len(net[a][s]),
         HandleClient(a, s, n)
  PROVE  Alive'
<1> DEFINE m  == net[a][s][n]
           nt == Taken(a, s, n)
           st == WriteLog(store[Boot], 0, m.cmd)
           p  == Pre(st, m.cmd)
<1>1. Receives(a, s, n, "CLIENT")
  BY DEF HandleClient
<1>2. /\ a \in Client /\ s = Boot /\ m.client \in Client /\ m.cmd \in Command
      /\ pending[m.client] = m.cmd
      /\ \A x \in Node, y \in Server : Mail(nt, x, y) = {}
      /\ Load = 1 /\ \A T \in SUBSET Server : Lives(T) => Resting(T)
  BY <1>1, AskedFacts
<1>3. nt \in Nets /\ Tidy(nt) /\ Quiet(nt) /\ Led /\ round[s] = 0
  BY <1>1, Delivered
<1>4. PICK T \in SUBSET Server : Steady(T) /\ Resting(T)
  BY <1>2 DEF Alive
<1>5. /\ st.posi = store[Boot].posi + 1 /\ st.posi = Len(st.log) /\ st.posi <= issued
      /\ Uncommitted(st) /\ Top(st).cmd = m.cmd /\ st.db = store[Boot].db /\ p \in Message
  BY <1>2, <1>4, LeaderWrites
<1>6. /\ net' = WithAll(nt, Boot, p) /\ p.type = "PRE" /\ p.cmd = m.cmd
      /\ \A x \in Server : store'[x] = IF x = Boot THEN st ELSE store[x]
      /\ \A x \in Server : client'[x] = IF x = Boot THEN m.client ELSE client[x]
  <2>1. pstate[s] = "LEADER"
    BY <1>2, <1>3 DEF Led
  <2>2. store \in [Server -> Store] /\ client \in [Server -> Client \cup {Nil}]
    BY DEF Inv, TypeOK
  <2> QED
    BY <1>2, <1>3, <2>1, <2>2 DEF HandleClient, Pre
<1>7. /\ acks' = acks /\ status' = status /\ crashes' = crashes /\ round' = round /\ tokens' = tokens
      /\ pstate' = pstate /\ pending' = pending /\ replies' = replies /\ issued' = issued
  BY DEF HandleClient, elect, users, env
<1> HIDE DEF m, nt, st, p
<1>8. Boot \in Server /\ Boot \in Node /\ Server \subseteq Node
  BY Basics DEF Typed
<1>9. /\ Polling(net', Boot, {}, "PRE", "PRERE")
      /\ \A x \in Node, y \in Server :
           /\ Mail(net', x, y) \subseteq {p}
           /\ Mail(net', x, y) # {} => x = Boot /\ y # Boot
           /\ Copies(net', x, y) = Copies(nt, x, y)
  <2>1. Phase(p.type, "PRERE") /\ Single(nt)
    BY <1>3, <1>6 DEF Phase, Tidy
  <2>2. Asking(nt, WithAll(nt, Boot, p), Boot, p, "PRERE")
    BY <1>2, <1>3, <1>5, <1>8, <2>1, Started
  <2> QED
    BY <1>6, <2>2 DEF Asking
<1>10. Tidy(net') /\ \A f \in Server : RollTo(net', f) => RollTo(net, f)
  <2>1. \A b \in Others : Allowed(Boot, b, p)
    BY <1>6 DEF Allowed, Others
  <2>2. \A b \in Others : \A o \in Mail(nt, Boot, b) : o.type # p.type
    BY <1>2, <1>8 DEF Others
  <2>3. /\ Tidy(WithAll(nt, Boot, p))
        /\ \A f \in Server : RollTo(WithAll(nt, Boot, p), f) <=> RollTo(nt, f) \/ (p.type = "ROLL" /\ f # Boot)
    BY <1>3, <1>5, <1>6, <2>1, <2>2, TidySentAll
  <2>4. \A f \in Server : RollTo(nt, f) => RollTo(net, f)
    BY <1>3 DEF Quiet, Hushed
  <2> QED
    BY <1>6, <2>3, <2>4
<1>11. /\ client'[Boot] = m.client /\ Cmd' = m.cmd /\ m.cmd # Nil /\ Acknowledged' = Acknowledged
       /\ store'[Boot] = st
  BY <1>2, <1>6, <1>7, <1>8, ClusterConstants DEF Cmd, Acknowledged
<1>12. UnderWay'
  BY <1>2, <1>5, <1>7, <1>11 DEF UnderWay, OnTop
<1>13. Led'
  BY <1>3, <1>5, <1>6, <1>7, <1>11, LedKept DEF Led, Others
<1>14. Steady(T)'
  <2>1. \A x \in T : status'[x] = status[x] /\ store'[x].posi = Len(store'[x].log)
    BY <1>4, <1>5, <1>6, <1>7 DEF Steady
  <2> QED
    BY <1>4, <1>7, <2>1, SteadyKept
<1>15. ASSUME NEW f \in T \ {Boot}
       PROVE  CollectAt(f, {})'
  <2>1. f \in Others /\ f \in Server /\ RestAt(f) /\ store'[f] = store[f]
    BY <1>4, <1>6 DEF Resting, Others
  <2>2. Copies(net', Boot, f) \subseteq Copies(net, Boot, f)
    <3>1. Copies(nt, Boot, f) \subseteq Copies(net, Boot, f)
      <4>1. a # Boot
        BY <1>2, <1>8, ClusterConstants
      <4> QED
        BY <1>1, <1>3, <1>8, <2>1, Delivered, MailTaken DEF nt
    <3> QED
      BY <1>8, <1>9, <2>1, <3>1
  <2>3. Mail(net', f, Boot) = {}
    BY <1>8, <1>9, <2>1
  <2>4. store'[Boot].posi = store[Boot].posi + 1 /\ issued' = issued
    BY <1>5, <1>7, <1>11
  <2> QED
    BY <1>2, <1>10, <2>1, <2>2, <2>3, <2>4, CalledOn
<1>16. Collecting(T, {}, {})'
  <2>1. acks'[Boot] = [pOk |-> Cardinality({}), pErr |-> Cardinality({}), cOk |-> 0, cErr |-> 0]
    BY <1>4, <1>7, FS_EmptySet DEF Resting, NoAcks
  <2>2. \A f \in Others : \A o \in Mail(net', Boot, f) : o.cmd = Cmd'
    BY <1>6, <1>8, <1>9, <1>11 DEF Others
  <2>3. \A x \in T : store'[x].db = Acknowledged'
    BY <1>4, <1>5, <1>6, <1>11 DEF Resting
  <2>4. {} \cup {} = {} /\ {} \cap {} = {}
    OBVIOUS
  <2> QED
    BY <1>9, <1>12, <1>15, <2>1, <2>2, <2>3, <2>4 DEF Collecting
<1>17. Lives(T)'
  BY <1>16 DEF Lives
<1> QED
  BY <1>10, <1>13, <1>14, <1>17 DEF Alive

-----------------------------------------------------------------------------
(***************************************************************************)
(* The LEADER counts the answers.                                          *)
(***************************************************************************)

\* The LEADER has taken the answer of a and has counted it.
Heard(a) ==
  /\ Mail(net, a, Boot) # {} /\ Quiet(net')
  /\ store' = store /\ client' = client
  /\ pending' = pending /\ replies' = replies /\ issued' = issued

\* The rest is as before.
LEMMA HeardFacts ==
  ASSUME Inv, NEW a \in Others, Heard(a)
  PROVE  /\ Cmd' = Cmd /\ Acknowledged' = Acknowledged /\ (UnderWay => UnderWay')
         /\ \A C, f : Told(net', f, C \cup {a}) /\ f \in Server => Told(net, f, C)
         /\ \A f \in Server : Hushed(net', f)
         /\ \A x \in Node, y \in Server : Mail(net', x, y) \subseteq Mail(net, x, y)
         /\ store' = store /\ issued' = issued
<1>1. Cmd' = Cmd /\ Acknowledged' = Acknowledged
  BY DEF Heard, Cmd, Acknowledged
<1>2. UnderWay => UnderWay'
  BY <1>1 DEF Heard, UnderWay, OnTop
<1>3. \A C, f : Told(net', f, C \cup {a}) /\ f \in Server => Told(net, f, C)
  BY DEF Heard, Quiet, Hushed, Told
<1> QED
  BY <1>1, <1>2, <1>3 DEF Heard, Quiet

\* In the first phase, one more has agreed or refused.
LEMMA CountedFirst ==
  ASSUME Inv, Inv', NEW T \in SUBSET Server, NEW Y, NEW N, Collecting(T, Y, N), NEW a \in Others, Heard(a),
         NEW Z, NEW M, Z \cap M = {}, Z \cup M = (Y \cup N) \cup {a}, T \cap M = {},
         Polling(net', Boot, (Y \cup N) \cup {a}, "PRE", "PRERE"),
         acks'[Boot] = [pOk |-> Cardinality(Z), pErr |-> Cardinality(M), cOk |-> 0, cErr |-> 0]
  PROVE  Collecting(T, Z, M)'
<1>1. /\ Cmd' = Cmd /\ Acknowledged' = Acknowledged /\ (UnderWay => UnderWay')
      /\ \A C, f : Told(net', f, C \cup {a}) /\ f \in Server => Told(net, f, C)
      /\ \A f \in Server : Hushed(net', f)
      /\ \A x \in Node, y \in Server : Mail(net', x, y) \subseteq Mail(net, x, y)
      /\ store' = store /\ issued' = issued
  BY HeardFacts
<1>2. UnderWay /\ UnderWay'
  BY <1>1 DEF Collecting
<1>3. Boot \in Node /\ Others \subseteq Server
  BY Basics DEF Typed, Others
<1>4. \A f \in Others : \A o \in Mail(net', Boot, f) : o.cmd = Cmd'
  BY <1>1, <1>3 DEF Collecting
<1>5. \A x \in T : store'[x].db = Acknowledged'
  BY <1>1 DEF Collecting
<1>6. ASSUME NEW f \in T \ {Boot}
      PROVE  CollectAt(f, Z \cup M)' /\ f \notin M
  <2>1. f \in Server /\ CollectAt(f, Y \cup N) /\ Hushed(net', f) /\ f \notin M
    BY <1>1 DEF Collecting
  <2>2. Told(net', f, (Y \cup N) \cup {a}) => Told(net, f, Y \cup N)
    BY <1>1, <2>1
  <2>3. CollectAt(f, (Y \cup N) \cup {a})'
    BY <1>1, <1>2, <2>1, <2>2, CollectKept
  <2> QED
    BY <2>1, <2>3
<1>7. Polling(net', Boot, Z \cup M, "PRE", "PRERE")
  OBVIOUS
<1> QED
  BY <1>2, <1>4, <1>5, <1>6, <1>7 DEF Collecting

\* So it is in the second phase.
LEMMA CountedSecond ==
  ASSUME Inv, Inv', NEW T \in SUBSET Server, NEW Y, NEW N, Closing(T, Y, N), NEW a \in Others, Heard(a),
         NEW Z, NEW M, Z \cap M = {}, Z \cup M = (Y \cup N) \cup {a},
         \A f \in M : f \in N \/ \E m \in Mail(net, f, Boot) : ~m.ok,
         Polling(net', Boot, (Y \cup N) \cup {a}, "COM", "COMRE"),
         acks'[Boot] = [pOk |-> 0, pErr |-> 0, cOk |-> Cardinality(Z), cErr |-> Cardinality(M)]
  PROVE  Closing(T, Z, M)'
<1>1. /\ Cmd' = Cmd /\ Acknowledged' = Acknowledged /\ (UnderWay => UnderWay')
      /\ \A C, f : Told(net', f, C \cup {a}) /\ f \in Server => Told(net, f, C)
      /\ \A f \in Server : Hushed(net', f)
      /\ store' = store /\ issued' = issued
  BY HeardFacts
<1>2. /\ UnderWay /\ UnderWay' /\ (Boot \in T => store'[Boot].db = Acknowledged')
      /\ \A f \in Others : Told(net', f, Z \cup M) => ~RollTo(net', f)
  BY <1>1 DEF Closing, Hushed, Others
<1>3. ASSUME NEW f \in T \ {Boot}
      PROVE  CloseAt(f, Z, M)'
  <2>1. f \in Server /\ CloseAt(f, Y, N) /\ Hushed(net', f)
    BY <1>1 DEF Closing
  <2>2. Told(net', f, Z \cup M) => Told(net, f, Y \cup N)
    BY <1>1, <2>1
  <2> QED
    BY <1>1, <1>2, <2>1, <2>2, CloseKept
<1>4. Polling(net', Boot, Z \cup M, "COM", "COMRE")
  OBVIOUS
<1> QED
  BY <1>2, <1>3, <1>4 DEF Closing

\* What the LEADER finds when it takes an answer.
LEMMA AnswerTaken ==
  ASSUME Inv, Alive, NEW a \in Server, NEW s \in Server, NEW n \in 1 .. Len(net[a][s]), NEW go, NEW re,
         Phase(go, re), Receives(a, s, n, re)
  PROVE  /\ a \in Others /\ s = Boot /\ pstate[Boot] = "LEADER" /\ Led
         /\ net[a][s][n] \in Mail(net, a, Boot) /\ net[a][s][n].ok \in BOOLEAN
         /\ Taken(a, s, n) \in Nets /\ Tidy(Taken(a, s, n)) /\ Quiet(Taken(a, s, n))
         /\ \A f \in Server : Copies(Taken(a, s, n), Boot, f) \subseteq Copies(net, Boot, f)
         /\ \A C : Polling(net, Boot, C, go, re) =>
              a \notin C /\ Polling(Taken(a, s, n), Boot, C \cup {a}, go, re)
         /\ \A T \in SUBSET Server : Lives(T) =>
              \E Y, N \in SUBSET Server :
                IF re = "PRERE" THEN Collecting(T, Y, N) ELSE Closing(T, Y, N)
<1> DEFINE m  == net[a][s][n]
           nt == Taken(a, s, n)
<1>1. go # re /\ re \in Tracked /\ re \in {"PRERE", "COMRE"} /\ go \in {"PRE", "COM"}
  BY PhaseTypes DEF Phase
<1>2. a \in Node /\ Boot \in Node /\ Boot \in Server
  BY Basics DEF Typed
<1>3. /\ Allowed(a, s, m) /\ m \in Message /\ m.type = re /\ nt \in Nets /\ Tidy(nt) /\ Quiet(nt)
      /\ Led /\ net \in Nets /\ Single(net)
  BY <1>2, Delivered
<1>4. a \in Others /\ s = Boot /\ pstate[Boot] = "LEADER" /\ a \in Server
  BY <1>1, <1>3, ClusterConstants DEF Allowed, Led, Others
<1>5. m.ok \in BOOLEAN
  BY <1>1, <1>3, MessageFields
<1>6. m \in Mail(net, a, Boot) /\ \A f \in Server : Copies(nt, Boot, f) \subseteq Copies(net, Boot, f)
  BY <1>1, <1>2, <1>3, <1>4, MailTaken
<1> HIDE DEF m, nt
<1>7. ASSUME NEW C, Polling(net, Boot, C, go, re)
      PROVE  a \notin C /\ Polling(nt, Boot, C \cup {a}, go, re)
  BY <1>2, <1>3, <1>4, <1>7, TakesAnswer DEF m, nt
<1>8. ASSUME NEW T \in SUBSET Server, Lives(T)
      PROVE  \E Y, N \in SUBSET Server : IF re = "PRERE" THEN Collecting(T, Y, N) ELSE Closing(T, Y, N)
  <2>1. ~Resting(T)
    BY <1>1, <1>2, <1>3, <1>6 DEF Resting
  <2>2. ASSUME NEW Y, NEW N, Collecting(T, Y, N)
        PROVE  re = "PRERE"
    <3>1. m.type \in {"PRE", "PRERE"}
      BY <1>2, <1>6, <2>2 DEF Collecting, Polling
    <3> QED
      BY <1>1, <1>3, <3>1
  <2>3. ASSUME NEW Y, NEW N, Closing(T, Y, N)
        PROVE  re = "COMRE"
    <3>1. m.type \in {"COM", "COMRE"}
      BY <1>2, <1>6, <2>3 DEF Closing, Polling
    <3> QED
      BY <1>1, <1>3, <3>1
  <2> QED
    BY <1>8, <2>1, <2>2, <2>3 DEF Lives
<1> QED
  BY <1>3, <1>4, <1>5, <1>6, <1>7, <1>8 DEF m, nt

\* Once a quorum has given the same answer, everybody has answered.
LEMMA QuorumAnswered ==
  ASSUME FaultSetting, NEW nt, NEW C, NEW go, NEW re, Polling(nt, Boot, C, go, re),
         NEW Z, Z \subseteq C, Cardinality(Z) >= Quorum
  PROVE  C = Others /\ \A x \in Node, y \in Server : Mail(nt, x, y) = {}
<1>1. /\ C \in SUBSET Server /\ Z \in SUBSET Server /\ Boot \in Server
  BY ClusterConstants DEF Polling
<1>2. IsFiniteSet(C) /\ Cardinality(C) \in Nat /\ Cardinality(Z) \in Nat /\ Nodes \in Nat
  BY <1>1, Finite
<1>3. Cardinality(Z) <= Cardinality(C)
  BY <1>2, FS_Subset
<1>4. Quorum \in Nat
  BY <1>2 DEF Quorum, Nodes
<1>5. Cardinality(C) >= Quorum /\ Nodes <= 4
  BY <1>2, <1>3, <1>4 DEF FaultSetting
<1> QED
  BY <1>5, AllAnswered DEF Others

\* A refusal alone is no quorum.
LEMMA FewRefuse ==
  ASSUME FaultSetting, NEW T \in SUBSET Server, Steady(T), NEW a \in Server \ T, NEW N \in SUBSET Server,
         N \cap T = {}, a \notin N
  PROVE  Cardinality(N) + 1 < Quorum
<1>1. PICK d \in Server : Server \ {d} \subseteq T
  BY DEF Steady
<1>2. N = {}
  BY <1>1
<1>3. Cardinality(N) = 0
  BY <1>2, FS_EmptySet
<1>4. Quorum >= 2
  BY DEF FaultSetting, Quorum, Nodes
<1>5. Quorum \in Int
  BY DEF FaultSetting, Quorum, Nodes
<1> QED
  BY <1>3, <1>4, <1>5

\* A follower whose answer to the first phase has been given is ready for the second.
LEMMA ReadyToCommit ==
  ASSUME NEW f \in Server, NEW C, CollectAt(f, C), Told(net, f, C), store'[f] = store[f],
         store[f].db = Acknowledged, Acknowledged' = Acknowledged, Cmd' = Cmd, issued' = issued,
         store'[Boot] = store[Boot], Copies(net', Boot, f) \subseteq Copies(net, Boot, f),
         RollTo(net', f) => RollTo(net, f), Mail(net', f, Boot) = {}
  PROVE  CloseAt(f, {}, {})'
<1>1. Bit(RollTo(net, f) \/ Told(net, f, C)) = 1
  BY DEF Bit
<1>2. /\ Ahead(store[f], Copies(net, Boot, f), store[Boot].posi - 1, 1)
      /\ OnTop(f) /\ ~RollTo(net, f) /\ Roomy(store[f], Copies(net, Boot, f), 0, issued)
  BY <1>1 DEF CollectAt
<1>3. /\ Ahead(store'[f], Copies(net', Boot, f), store'[Boot].posi - 1, 1)
      /\ Roomy(store'[f], Copies(net', Boot, f), 0, issued')
  BY <1>2 DEF Ahead, Roomy
<1>4. Uncommitted(store'[f]) /\ Top(store'[f]).cmd = Cmd' /\ store'[f].db = Acknowledged'
  BY <1>2 DEF OnTop
<1>5. ~Told(net', f, {} \cup {})
  BY DEF Told
<1>6. \A m \in Mail(net', f, Boot) : FALSE
  OBVIOUS
<1> QED
  BY <1>2, <1>3, <1>4, <1>5, <1>6 DEF CloseAt, OnTop

\* When all have agreed, the second phase begins.
LEMMA CommitOrdered ==
  ASSUME Inv, Inv', NEW T \in SUBSET Server, NEW Y, NEW N, Collecting(T, Y, N),
         NEW a \in Others, Mail(net, a, Boot) # {}, (Y \cup N) \cup {a} = Others,
         NEW nt \in Nets, Tidy(nt), Quiet(nt), \A x \in Node, y \in Server : Mail(nt, x, y) = {},
         \A f \in Server : Copies(nt, Boot, f) \subseteq Copies(net, Boot, f),
         net' = WithAll(nt, Boot, Order("COM")), store' = store, client' = client, acks'[Boot] = NoAcks,
         pending' = pending, replies' = replies, issued' = issued
  PROVE  Tidy(net') /\ Closing(T, {}, {})'
<1> DEFINE m == Order("COM")
<1>1. /\ Boot \in Server /\ Boot \in Node /\ Server \subseteq Node
      /\ m \in Message /\ m.type = "COM"
  BY Basics DEF Typed, Order, Message
<1> HIDE DEF m
<1>2. /\ Polling(net', Boot, {}, "COM", "COMRE")
      /\ \A x \in Node, y \in Server :
           /\ Mail(net', x, y) # {} => x = Boot /\ y # Boot
           /\ Copies(net', x, y) = Copies(nt, x, y)
  <2>1. Phase(m.type, "COMRE") /\ Single(nt)
    BY <1>1 DEF Phase, Tidy
  <2>2. Asking(nt, WithAll(nt, Boot, m), Boot, m, "COMRE")
    BY <1>1, <2>1, Started
  <2> QED
    BY <1>1, <2>2 DEF Asking, m
<1>3. Tidy(net') /\ \A f \in Server : RollTo(net', f) => RollTo(net, f)
  <2>1. \A b \in Others : Allowed(Boot, b, m)
    BY <1>1 DEF Allowed, Others
  <2>2. \A b \in Others : \A o \in Mail(nt, Boot, b) : o.type # m.type
    BY <1>1 DEF Others
  <2>3. /\ Tidy(WithAll(nt, Boot, m))
        /\ \A f \in Server : RollTo(WithAll(nt, Boot, m), f) <=> RollTo(nt, f) \/ (m.type = "ROLL" /\ f # Boot)
    BY <1>1, <2>1, <2>2, TidySentAll
  <2>4. \A f \in Server : RollTo(nt, f) => RollTo(net, f)
    BY DEF Quiet, Hushed
  <2> QED
    BY <1>1, <2>3, <2>4 DEF m
<1>4. Cmd' = Cmd /\ Acknowledged' = Acknowledged
  BY DEF Cmd, Acknowledged
<1>5. UnderWay'
  BY <1>4 DEF Collecting, UnderWay, OnTop
<1>6. ASSUME NEW f \in T \ {Boot}
      PROVE  CloseAt(f, {}, {})'
  <2>1. f \in Server /\ f \in Others /\ CollectAt(f, Y \cup N) /\ store[f].db = Acknowledged
    BY DEF Collecting, Others
  <2>2. Told(net, f, Y \cup N)
    BY <2>1 DEF Told
  <2>3. Copies(net', Boot, f) \subseteq Copies(net, Boot, f)
    BY <1>1, <1>2, <2>1
  <2>4. RollTo(net', f) => RollTo(net, f)
    BY <1>3, <2>1
  <2>5. Mail(net', f, Boot) = {}
    BY <1>1, <1>2, <2>1 DEF Others
  <2> QED
    BY <1>4, <2>1, <2>2, <2>3, <2>4, <2>5, ReadyToCommit
<1>7. Closing(T, {}, {})'
  <2>1. acks'[Boot] = [pOk |-> 0, pErr |-> 0, cOk |-> Cardinality({}), cErr |-> Cardinality({})]
    BY FS_EmptySet DEF NoAcks
  <2>2. Boot \in T => store'[Boot].db = Acknowledged'
    BY <1>4 DEF Collecting
  <2>3. {} \cup {} = {} /\ {} \cap {} = {}
    OBVIOUS
  <2>4. \A f \in Others : ~Told(net', f, {} \cup {})
    BY <1>1, <1>2 DEF Told, Others
  <2> QED
    BY <1>2, <1>5, <1>6, <2>1, <2>2, <2>3, <2>4 DEF Closing
<1> QED
  BY <1>3, <1>7

\* The handler of a [PRERE].
LEMMA PreAnswerStep ==
  ASSUME FaultSetting, Inv, Inv', Alive, NEW a \in Server, NEW s \in Server, NEW n \in 1 .. Len(net[a][s]),
         HandlePreRe(a, s, n)
  PROVE  Alive'
<1> DEFINE ok == net[a][s][n].ok
           nt == Taken(a, s, n)
           k  == acks[Boot]
<1>1. Receives(a, s, n, "PRERE") /\ Phase("PRE", "PRERE")
  BY DEF HandlePreRe, Phase
<1>2. /\ a \in Others /\ s = Boot /\ pstate[Boot] = "LEADER" /\ Led
      /\ net[a][s][n] \in Mail(net, a, Boot) /\ ok \in BOOLEAN
      /\ nt \in Nets /\ Tidy(nt) /\ Quiet(nt)
      /\ \A f \in Server : Copies(nt, Boot, f) \subseteq Copies(net, Boot, f)
      /\ \A C : Polling(net, Boot, C, "PRE", "PRERE") => a \notin C /\ Polling(nt, Boot, C \cup {a}, "PRE", "PRERE")
      /\ \A T \in SUBSET Server : Lives(T) => \E Y, N \in SUBSET Server : Collecting(T, Y, N)
  <2> DEFINE go == "PRE"
             re == "PRERE"
  <2>1. Phase(go, re) /\ Receives(a, s, n, re) /\ re = "PRERE"
    BY <1>1
  <2> HIDE DEF go, re, ok, nt
  <2>2. /\ a \in Others /\ s = Boot /\ pstate[Boot] = "LEADER" /\ Led
        /\ net[a][s][n] \in Mail(net, a, Boot) /\ ok \in BOOLEAN
        /\ nt \in Nets /\ Tidy(nt) /\ Quiet(nt)
        /\ \A f \in Server : Copies(nt, Boot, f) \subseteq Copies(net, Boot, f)
    BY <2>1, AnswerTaken DEF ok, nt
  <2>3. \A C : Polling(net, Boot, C, go, re) => a \notin C /\ Polling(nt, Boot, C \cup {a}, go, re)
    BY <2>1, AnswerTaken DEF nt
  <2>4. \A T \in SUBSET Server : Lives(T) => \E Y, N \in SUBSET Server : Collecting(T, Y, N)
    BY <2>1, AnswerTaken
  <2> QED
    BY <2>2, <2>3, <2>4 DEF go, re
<1>3. PICK T \in SUBSET Server, Y \in SUBSET Server, N \in SUBSET Server : Steady(T) /\ Collecting(T, Y, N)
  BY <1>2 DEF Alive
<1>4. /\ Polling(net, Boot, Y \cup N, "PRE", "PRERE") /\ Y \cap N = {} /\ N \cap T = {}
      /\ k = [pOk |-> Cardinality(Y), pErr |-> Cardinality(N), cOk |-> 0, cErr |-> 0]
      /\ (a \in T => ok)
  <2>1. N \cap T = {}
    <3>1. Boot \notin N
      BY <1>3 DEF Collecting, Polling
    <3> QED
      BY <1>3, <3>1 DEF Collecting
  <2>2. a \in T => ok
    BY <1>2, <1>3 DEF Collecting, CollectAt, Others
  <2> QED
    BY <1>3, <2>1, <2>2 DEF Collecting
<1>5. /\ a \notin Y \cup N /\ a \in Server \ Y /\ a \in Server \ N
      /\ Polling(nt, Boot, (Y \cup N) \cup {a}, "PRE", "PRERE")
  BY <1>2, <1>4
<1>6. /\ Cardinality(Y \cup {a}) = Cardinality(Y) + 1 /\ Cardinality(Y) \in Nat
      /\ Cardinality(N \cup {a}) = Cardinality(N) + 1 /\ Cardinality(N) \in Nat
  BY <1>5, CountMore
<1>7. /\ client' = client /\ crashes' = crashes /\ pending' = pending /\ replies' = replies
      /\ issued' = issued /\ round' = round /\ tokens' = tokens /\ pstate' = pstate
  BY DEF HandlePreRe, elect, users
<1>8. acks \in [Server -> Counts] /\ Boot \in Server /\ Mail(net, a, Boot) # {}
  BY <1>2, ClusterConstants DEF Inv, TypeOK
<1>9. ~ok /\ k.pErr + 1 >= Quorum => FALSE
  <2>1. ASSUME ~ok
        PROVE  Cardinality(N) + 1 < Quorum
    <3>1. a \in Server \ T
      BY <1>2, <1>4, <2>1
    <3> QED
      BY <1>3, <1>4, <1>5, <3>1, FewRefuse
  <2>2. Quorum \in Int
    BY DEF FaultSetting, Quorum, Nodes
  <2> QED
    BY <1>4, <1>6, <2>1, <2>2
<1>10. /\ store' = store /\ status' = status
       /\ \/ ok /\ net' = nt /\ acks'[Boot] = PrepareAcks(k, k.pOk + 1, k.pErr)
          \/ /\ ok /\ k.pOk + 1 >= Quorum /\ acks'[Boot] = PrepareAcks(k, 0, 0)
             /\ net' = WithAll(nt, Boot, Order("COM"))
          \/ ~ok /\ net' = nt /\ acks'[Boot] = PrepareAcks(k, k.pOk, k.pErr + 1)
  BY <1>2, <1>8, <1>9 DEF HandlePreRe
<1> HIDE DEF ok, nt, k
<1>11. Steady(T)' /\ Led'
  <2>1. Led'
    BY <1>2, <1>7, <1>10, LedKept DEF Led
  <2>2. Steady(T)'
    BY <1>3, <1>7, <1>10, SteadyKept DEF Steady
  <2> QED
    BY <2>1, <2>2
<1>12. ASSUME net' = nt
       PROVE  Heard(a)
  BY <1>2, <1>7, <1>8, <1>10, <1>12 DEF Heard
<1>13. CASE ok /\ net' = nt /\ acks'[Boot] = PrepareAcks(k, k.pOk + 1, k.pErr)
  <2>1. acks'[Boot] = [pOk |-> Cardinality(Y \cup {a}), pErr |-> Cardinality(N), cOk |-> 0, cErr |-> 0]
    BY <1>4, <1>6, <1>13 DEF PrepareAcks
  <2>2. /\ (Y \cup {a}) \cap N = {} /\ (Y \cup {a}) \cup N = (Y \cup N) \cup {a} /\ T \cap N = {}
        /\ Y \cup {a} \in SUBSET Server
    BY <1>4, <1>5
  <2>3. Collecting(T, Y \cup {a}, N)'
    BY <1>2, <1>3, <1>5, <1>12, <1>13, <2>1, <2>2, CountedFirst
  <2> QED
    BY <1>2, <1>11, <1>13, <2>2, <2>3 DEF Alive, Lives
<1>14. CASE /\ ok /\ k.pOk + 1 >= Quorum /\ acks'[Boot] = PrepareAcks(k, 0, 0)
            /\ net' = WithAll(nt, Boot, Order("COM"))
  <2>1. acks'[Boot] = NoAcks
    BY <1>4, <1>14 DEF PrepareAcks, NoAcks
  <2>2. Y \cup {a} \subseteq (Y \cup N) \cup {a} /\ Cardinality(Y \cup {a}) >= Quorum
    BY <1>4, <1>6, <1>14
  <2>3. (Y \cup N) \cup {a} = Others /\ \A x \in Node, y \in Server : Mail(nt, x, y) = {}
    BY <1>5, <2>2, QuorumAnswered
  <2>4. Tidy(net') /\ Closing(T, {}, {})'
    BY <1>2, <1>3, <1>7, <1>8, <1>10, <1>14, <2>1, <2>3, CommitOrdered
  <2>5. Lives(T)'
    BY <2>4 DEF Lives
  <2> QED
    BY <1>11, <2>4, <2>5 DEF Alive
<1>15. CASE ~ok /\ net' = nt /\ acks'[Boot] = PrepareAcks(k, k.pOk, k.pErr + 1)
  <2>1. acks'[Boot] = [pOk |-> Cardinality(Y), pErr |-> Cardinality(N \cup {a}), cOk |-> 0, cErr |-> 0]
    BY <1>4, <1>6, <1>15 DEF PrepareAcks
  <2>2. /\ Y \cap (N \cup {a}) = {} /\ Y \cup (N \cup {a}) = (Y \cup N) \cup {a} /\ T \cap (N \cup {a}) = {}
        /\ N \cup {a} \in SUBSET Server
    BY <1>4, <1>5, <1>15
  <2>3. Collecting(T, Y, N \cup {a})'
    BY <1>2, <1>3, <1>5, <1>12, <1>15, <2>1, <2>2, CountedFirst
  <2> QED
    BY <1>2, <1>11, <1>15, <2>2, <2>3 DEF Alive, Lives
<1> QED
  BY <1>10, <1>13, <1>14, <1>15

\* Committing again does nothing: the first time it has been done, or it is
\* refused each time.
LEMMA CommittedAtOnce ==
  ASSUME NEW st, CommitLog(st).ok \in BOOLEAN, ~CommitLog(st).ok => CommitLog(st).store = st
  PROVE  CommitRetried(st) = CommitLog(st)
<1>1. Again(CommitLog(st)) = CommitLog(st)
  BY DEF Again
<1>2. Again3(CommitLog(st)) = CommitLog(st)
  BY <1>1 DEF Again3
<1> QED
  BY <1>1, <1>2 DEF CommitRetried

\* The client is answered, and has succeeded with what had an effect.
LEMMA Answered ==
  ASSUME Inv, UnderWay, Cmd \in Command, NEW ok \in BOOLEAN, NEW val \in Value \cup {Empty},
         Answer(client[Boot], ok, val)
  PROVE  /\ Acknowledged' = IF ok THEN Effect(Acknowledged, Cmd) ELSE Acknowledged
         /\ issued' = issued
         /\ \A c \in Client : pending'[c] # Nil => pending'[c] = pending[c]
<1> DEFINE c == client[Boot]
           e == [client |-> c, cmd |-> pending[c], ok |-> ok, val |-> val]
<1>1. c \in Client /\ c # Nil /\ pending[c] = Cmd /\ Cmd # Nil
  BY ClusterConstants DEF UnderWay, Cmd
<1>2. /\ replies' = Append(replies, e) /\ pending' = [pending EXCEPT ![c] = Nil] /\ issued' = issued
  BY <1>1 DEF Answer
<1>3. e \in Reply /\ replies \in Seq(Reply) /\ e.ok = ok /\ e.cmd = Cmd
  BY <1>1 DEF Reply, Inv, TypeOK
<1>4. \A d \in Client : pending'[d] # Nil => pending'[d] = pending[d]
  BY <1>2 DEF Inv, TypeOK
<1> HIDE DEF e
<1>5. AfterAll(Append(replies, e)) = AfterReply(AfterAll(replies), e)
  BY <1>3, AfterAppend
<1>6. Acknowledged' = AfterReply(Acknowledged, e)
  BY <1>2, <1>5 DEF Acknowledged
<1> QED
  BY <1>2, <1>3, <1>4, <1>6 DEF AfterReply

\* A follower when the second phase is over, whether or not it is to roll back.
LEMMA RestAgain ==
  ASSUME Inv, Inv', NEW f \in Server, NEW Y, NEW N, CloseAt(f, Y, N), store'[f] = store[f],
         Copies(net', Boot, f) \subseteq Copies(net, Boot, f), Load' = 0, issued' = issued,
         store'[Boot].posi + Bit(RollTo(net', f)) <= store[Boot].posi,
         RollTo(net', f) => Uncommitted(store[f])
  PROVE  RestAt(f)'
<1> DEFINE st == store[f]
           old == Copies(net, Boot, f)
           new == Copies(net', Boot, f)
           b == store[Boot].posi
           d == store'[Boot].posi
           j == Bit(RollTo(net', f))
<1>1. /\ st.posi \in Int /\ b \in Int
      /\ \A m \in old : Place(m) \in Int
  BY Basics DEF Typed
<1>2. d \in Int
  BY BasicsNext DEF Typed
<1>3. j \in Int /\ j <= 1
  BY DEF Bit
<1>4. Ahead(st, old, b - 1, 1) /\ Roomy(st, old, 0, issued) /\ new \subseteq old /\ d + j <= b
  BY DEF CloseAt
<1>5. RestAt(f)' <=> /\ Ahead(store'[f], new, d, j)
                     /\ RollTo(net', f) => Uncommitted(store'[f])
                     /\ Roomy(store'[f], new, Load', issued')
  BY DEF RestAt
<1>6. store'[f] = st
  OBVIOUS
<1> HIDE DEF st, old, new, b, d, j
<1>7. Ahead(st, new, d, j)
  <2>1. d + j <= st.posi
    BY <1>1, <1>2, <1>3, <1>4 DEF Ahead
  <2>2. ASSUME NEW m \in new
        PROVE  Place(m) + j <= st.posi
    <3>1. Place(m) + 1 <= st.posi /\ Place(m) \in Int
      BY <1>1, <1>4 DEF Ahead
    <3> QED
      BY <1>1, <1>3, <3>1
  <2> QED
    BY <2>1, <2>2 DEF Ahead
<1>8. Roomy(st, new, Load', issued')
  BY <1>4 DEF Roomy
<1> QED
  BY <1>5, <1>6, <1>7, <1>8 DEF st

\* Once all have answered and the LEADER has acted on it, the command is over.
LEMMA PhaseOver ==
  ASSUME FaultSetting, Inv, Inv', Led, NEW T \in SUBSET Server, NEW Y, NEW N, Closing(T, Y, N),
         NEW a \in Others, Mail(net, a, Boot) # {}, (Y \cup N) \cup {a} = Others,
         \A x \in Node, y \in Server : Mail(net', x, y) = {},
         \A f \in Server : Copies(net', Boot, f) \subseteq Copies(net, Boot, f),
         acks'[Boot] = NoAcks, \A f \in Others : store'[f] = store[f], issued' = issued,
         store'[Boot].posi <= store[Boot].posi, store'[Boot].db = Effect(store[Boot].db, Cmd),
         \A f \in Others : store'[Boot].posi + Bit(RollTo(net', f)) <= store[Boot].posi,
         \A f \in T \ {Boot} : RollTo(net', f) => Uncommitted(store[f]),
         Acknowledged' = Effect(Acknowledged, Cmd)
  PROVE  Resting(T)'
<1>1. /\ Boot \in Server /\ Boot \in Node /\ Server \subseteq Node /\ store[Boot].posi \in Int
      /\ issued \in Nat
  BY Basics DEF Typed
<1>2. store'[Boot].posi \in Int
  BY <1>1, BasicsNext DEF Typed
<1>3. Load' = 0
  BY <1>1 DEF Load, Bit, Node
<1>4. ASSUME NEW f \in T \ {Boot}
      PROVE  RestAt(f)' /\ store'[f].db = Acknowledged'
  <2>1. f \in Server /\ f \in Others /\ CloseAt(f, Y, N)
    BY DEF Closing, Others
  <2>2. Told(net, f, Y \cup N)
    BY <2>1 DEF Told
  <2>3. RestAt(f)'
    BY <1>3, <2>1, RestAgain
  <2> QED
    BY <2>1, <2>2, <2>3 DEF CloseAt
<1>5. Boot \in T => store'[Boot].db = Acknowledged'
  BY DEF Closing
<1>6. store'[Boot].posi + Load' <= issued'
  <2>1. store[Boot].posi <= issued
    BY DEF Closing, UnderWay
  <2> QED
    BY <1>1, <1>2, <1>3, <2>1
<1> QED
  BY <1>1, <1>4, <1>5, <1>6 DEF Resting

\* The LEADER commits, and answers the client.
LEMMA Committed ==
  ASSUME FaultSetting, Inv, Inv', Led, NEW T \in SUBSET Server, NEW Y, NEW N, Closing(T, Y, N),
         NEW a \in Others, Mail(net, a, Boot) # {}, (Y \cup N) \cup {a} = Others, Quiet(net'),
         \A x \in Node, y \in Server : Mail(net', x, y) = {},
         \A f \in Server : Copies(net', Boot, f) \subseteq Copies(net, Boot, f),
         acks'[Boot] = NoAcks, \A f \in Others : store'[f] = store[f],
         NEW res, res = CommitRetried(store[Boot]), store'[Boot] = res.store,
         Answer(client[Boot], res.ok, IF res.ok THEN res.ans ELSE Empty)
  PROVE  /\ Resting(T)' /\ issued' = issued
         /\ store'[Boot].posi = Len(store'[Boot].log)
         /\ \A c \in Client : pending'[c] # Nil => pending'[c] = pending[c]
<1> DEFINE st == store[Boot]
<1>1. UnderWay /\ Uncommitted(st) /\ Top(st).cmd = Cmd /\ st.posi = Len(st.log)
  BY DEF Closing, UnderWay, OnTop, Led
<1>2. st \in Store /\ st.posi \in Int /\ Boot \in Server
  BY Basics DEF Typed
<1>3. Cmd \in Command /\ Cmd.op \in {"SET", "GET"}
  BY <1>1, CmdOp
<1> HIDE DEF st
<1>4. /\ CommitLog(st) \in Result
      /\ CommitLog(st).store.posi = st.posi /\ Len(CommitLog(st).store.log) = st.posi
      /\ CommitLog(st).store.db = Effect(st.db, Cmd)
      /\ ~CommitLog(st).ok => CommitLog(st).store = st /\ Cmd.op = "GET"
  BY <1>1, <1>2, <1>3, CommitEffect
<1>5. res = CommitLog(st)
  BY <1>4, CommittedAtOnce DEF Result, st
<1>6. /\ res.ok \in BOOLEAN /\ (IF res.ok THEN res.ans ELSE Empty) \in Value \cup {Empty}
  <2>1. res \in Result
    BY <1>4, <1>5
  <2> HIDE DEF Result
  <2>2. res.ok \in BOOLEAN /\ res.ans \in Value \cup {Empty}
    BY <2>1 DEF Result
  <2> QED
    BY <2>2
<1>7. /\ Acknowledged' = IF res.ok THEN Effect(Acknowledged, Cmd) ELSE Acknowledged
      /\ issued' = issued
      /\ \A c \in Client : pending'[c] # Nil => pending'[c] = pending[c]
  BY <1>1, <1>3, <1>6, Answered
<1>8. Acknowledged' = Effect(Acknowledged, Cmd)
  <2>1. CASE res.ok
    BY <1>7, <2>1
  <2>2. CASE ~res.ok
    BY <1>4, <1>5, <1>7, <2>2 DEF Effect
  <2> QED
    BY <2>1, <2>2
<1>9. store'[Boot].posi = st.posi /\ Len(store'[Boot].log) = st.posi /\ store'[Boot].db = Effect(st.db, Cmd)
  BY <1>4, <1>5
<1>10. ASSUME NEW f \in Others
       PROVE  ~RollTo(net', f)
  <2>1. f \in Server /\ Hushed(net', f)
    BY DEF Quiet, Others
  <2>2. Told(net, f, Y \cup N)
    BY DEF Told
  <2> QED
    BY <2>1, <2>2 DEF Closing, Hushed
<1>11. /\ store'[Boot].posi <= st.posi
       /\ \A f \in Others : store'[Boot].posi + Bit(RollTo(net', f)) <= st.posi
       /\ \A f \in T \ {Boot} : RollTo(net', f) => Uncommitted(store[f])
  BY <1>2, <1>9, <1>10 DEF Bit, Others
<1>12. Resting(T)'
  BY <1>7, <1>8, <1>9, <1>11, PhaseOver DEF st
<1> QED
  BY <1>7, <1>9, <1>12

\* The LEADER rolls back and has the others do so, and tells the client that it
\* has failed: it was a GET.
LEMMA Withdrawn ==
  ASSUME FaultSetting, Inv, Inv', Led, NEW T \in SUBSET Server, NEW Y, NEW N, Closing(T, Y, N),
         NEW a \in Others, Mail(net, a, Boot) # {}, (Y \cup N) \cup {a} = Others,
         NEW nt \in Nets, Tidy(nt), Quiet(nt), \A x \in Node, y \in Server : Mail(nt, x, y) = {},
         \A f \in Server : Copies(nt, Boot, f) \subseteq Copies(net, Boot, f),
         net' = WithAll(nt, Boot, Order("ROLL")),
         acks'[Boot] = NoAcks, \A f \in Others : store'[f] = store[f],
         Cmd.op = "GET", \A f \in T \ {Boot} : Uncommitted(store[f]),
         store'[Boot].posi = store[Boot].posi - 1, store'[Boot].db = store[Boot].db,
         Answer(client[Boot], FALSE, Empty)
  PROVE  /\ Tidy(net') /\ Resting(T)' /\ issued' = issued
         /\ \A c \in Client : pending'[c] # Nil => pending'[c] = pending[c]
<1> DEFINE m == Order("ROLL")
<1>1. /\ Boot \in Server /\ Boot \in Node /\ Server \subseteq Node /\ store[Boot].posi \in Int
      /\ m \in Message /\ m.type = "ROLL" /\ Single(nt)
  BY Basics DEF Typed, Order, Message, Tidy
<1> HIDE DEF m
<1>2. \A b \in Others : ~RollTo(nt, b) /\ Mail(nt, Boot, b) = {} /\ Allowed(Boot, b, m)
  <2> SUFFICES ASSUME NEW b \in Others
               PROVE  ~RollTo(nt, b) /\ Mail(nt, Boot, b) = {} /\ Allowed(Boot, b, m)
    OBVIOUS
  <2>1. b \in Server /\ Hushed(nt, b) /\ b # Boot
    BY DEF Quiet, Others
  <2>2. Told(net, b, Y \cup N)
    BY DEF Told
  <2> QED
    BY <1>1, <2>1, <2>2 DEF Closing, Hushed, Allowed
<1>3. m.type \notin Tracked /\ m.type # "RECOVER"
  BY <1>1 DEF Tracked
<1>4. Tidy(net')
  BY <1>1, <1>2, <1>3, TidySentAll DEF m
<1>5. \A x \in Node, y \in Server : Mail(net', x, y) = {} /\ Copies(net', x, y) = Copies(nt, x, y)
  <2>1. \A x \in Node, y \in Server :
          /\ Mail(WithAll(nt, Boot, m), x, y) =
               Mail(nt, x, y) \cup (IF x = Boot /\ y # Boot /\ m.type \in Tracked THEN {m} ELSE {})
          /\ Copies(WithAll(nt, Boot, m), x, y) = Copies(nt, x, y)
    BY <1>1, <1>3, MailSentAll
  <2> QED
    BY <1>3, <2>1 DEF m
<1>6. UnderWay /\ Cmd \in Command
  <2>1. UnderWay
    BY DEF Closing
  <2> QED
    BY <2>1, CmdOp
<1>7. /\ Acknowledged' = Acknowledged /\ issued' = issued
      /\ \A c \in Client : pending'[c] # Nil => pending'[c] = pending[c]
  <2>1. FALSE \in BOOLEAN /\ Empty \in Value \cup {Empty}
    OBVIOUS
  <2> QED
    BY <1>6, <2>1, Answered
<1>8. \A db : Effect(db, Cmd) = db
  BY DEF Effect
<1>9. /\ store'[Boot].posi <= store[Boot].posi
      /\ \A f \in Others : store'[Boot].posi + Bit(RollTo(net', f)) <= store[Boot].posi
      /\ \A f \in Server : Copies(net', Boot, f) \subseteq Copies(net, Boot, f)
      /\ \A f \in T \ {Boot} : RollTo(net', f) => Uncommitted(store[f])
  BY <1>1, <1>5 DEF Bit
<1>10. Acknowledged' = Effect(Acknowledged, Cmd) /\ store'[Boot].db = Effect(store[Boot].db, Cmd)
  BY <1>7, <1>8
<1>11. Resting(T)'
  BY <1>5, <1>7, <1>9, <1>10, PhaseOver
<1> QED
  BY <1>4, <1>7, <1>11

\* When a quorum has refused, all have; then the command was a GET, and it is
\* on top of the logs that have been there from the start.
LEMMA AllRefused ==
  ASSUME FaultSetting, NEW T \in SUBSET Server, Steady(T), NEW Y \in SUBSET Server, NEW N \in SUBSET Server,
         Closing(T, Y, N), NEW a \in Server \ N, NEW nt, Polling(nt, Boot, (Y \cup N) \cup {a}, "COM", "COMRE"),
         \E m \in Mail(net, a, Boot) : ~m.ok, Cardinality(N) + 1 >= Quorum
  PROVE  /\ (Y \cup N) \cup {a} = Others /\ \A x \in Node, y \in Server : Mail(nt, x, y) = {}
         /\ Cmd.op = "GET" /\ \A f \in T \ {Boot} : Uncommitted(store[f])
<1>1. Cardinality(N \cup {a}) = Cardinality(N) + 1 /\ Cardinality(N) \in Nat
  BY CountMore
<1>2. N \cup {a} \subseteq (Y \cup N) \cup {a} /\ Cardinality(N \cup {a}) >= Quorum
  BY <1>1
<1>3. (Y \cup N) \cup {a} = Others /\ \A x \in Node, y \in Server : Mail(nt, x, y) = {}
  BY <1>2, QuorumAnswered
<1>4. N \cup {a} = Others
  <2>1. Polling(nt, Boot, N \cup {a}, "COM", "COMRE")
    <3>1. Boot \in Server /\ N \cup {a} \in SUBSET (Server \ {Boot})
      BY <1>3, ClusterConstants DEF Others
    <3> QED
      BY <1>3, <3>1 DEF Polling
  <2> QED
    BY <1>2, <2>1, QuorumAnswered
<1>5. \A f \in T \ {Boot} : Cmd.op = "GET" /\ Uncommitted(store[f])
  <2> SUFFICES ASSUME NEW f \in T \ {Boot}
               PROVE  Cmd.op = "GET" /\ Uncommitted(store[f])
    OBVIOUS
  <2>1. CloseAt(f, Y, N) /\ f \in N \cup {a}
    BY <1>4 DEF Closing, Others
  <2> QED
    BY <2>1 DEF CloseAt
<1>6. PICK f \in T : f \in N \cup {a}
  <2> SUFFICES ASSUME \A f \in T : f \notin N \cup {a}
               PROVE  FALSE
    OBVIOUS
  <2>1. a \in Server \ T /\ N \cap T = {} /\ a \notin N
    OBVIOUS
  <2>2. Cardinality(N) + 1 < Quorum
    BY <2>1, FewRefuse
  <2>3. Quorum \in Int
    BY DEF FaultSetting, Quorum, Nodes
  <2> QED
    BY <1>1, <2>2, <2>3
<1>7. Cmd.op = "GET"
  BY <1>4, <1>5, <1>6 DEF Others
<1> QED
  BY <1>3, <1>5, <1>7

\* The handler of a [COMRE].
LEMMA ComAnswerStep ==
  ASSUME FaultSetting, Inv, Inv', Alive, NEW a \in Server, NEW s \in Server, NEW n \in 1 .. Len(net[a][s]),
         HandleComRe(a, s, n)
  PROVE  Alive'
<1> DEFINE ok  == net[a][s][n].ok
           nt  == Taken(a, s, n)
           k   == acks[Boot]
           res == CommitRetried(store[Boot])
<1>1. Receives(a, s, n, "COMRE") /\ Phase("COM", "COMRE")
  BY DEF HandleComRe, Phase
<1>2. /\ a \in Others /\ s = Boot /\ pstate[Boot] = "LEADER" /\ Led
      /\ net[a][s][n] \in Mail(net, a, Boot) /\ ok \in BOOLEAN
      /\ nt \in Nets /\ Tidy(nt) /\ Quiet(nt)
      /\ \A f \in Server : Copies(nt, Boot, f) \subseteq Copies(net, Boot, f)
      /\ \A C : Polling(net, Boot, C, "COM", "COMRE") => a \notin C /\ Polling(nt, Boot, C \cup {a}, "COM", "COMRE")
      /\ \A T \in SUBSET Server : Lives(T) => \E Y, N \in SUBSET Server : Closing(T, Y, N)
  <2> DEFINE go == "COM"
             re == "COMRE"
  <2>1. Phase(go, re) /\ Receives(a, s, n, re) /\ re # "PRERE"
    BY <1>1
  <2> HIDE DEF go, re, ok, nt
  <2>2. /\ a \in Others /\ s = Boot /\ pstate[Boot] = "LEADER" /\ Led
        /\ net[a][s][n] \in Mail(net, a, Boot) /\ ok \in BOOLEAN
        /\ nt \in Nets /\ Tidy(nt) /\ Quiet(nt)
        /\ \A f \in Server : Copies(nt, Boot, f) \subseteq Copies(net, Boot, f)
    BY <2>1, AnswerTaken DEF ok, nt
  <2>3. \A C : Polling(net, Boot, C, go, re) => a \notin C /\ Polling(nt, Boot, C \cup {a}, go, re)
    BY <2>1, AnswerTaken DEF nt
  <2>4. \A T \in SUBSET Server : Lives(T) => \E Y, N \in SUBSET Server : Closing(T, Y, N)
    BY <2>1, AnswerTaken
  <2> QED
    BY <2>2, <2>3, <2>4 DEF go, re
<1>3. PICK T \in SUBSET Server, Y \in SUBSET Server, N \in SUBSET Server : Steady(T) /\ Closing(T, Y, N)
  BY <1>2 DEF Alive
<1>4. /\ Polling(net, Boot, Y \cup N, "COM", "COMRE") /\ Y \cap N = {}
      /\ k = [pOk |-> 0, pErr |-> 0, cOk |-> Cardinality(Y), cErr |-> Cardinality(N)]
  BY <1>3 DEF Closing
<1>5. /\ a \notin Y \cup N /\ a \in Server \ Y /\ a \in Server \ N
      /\ Polling(nt, Boot, (Y \cup N) \cup {a}, "COM", "COMRE")
  BY <1>2, <1>4
<1>6. /\ Cardinality(Y \cup {a}) = Cardinality(Y) + 1 /\ Cardinality(Y) \in Nat
      /\ Cardinality(N \cup {a}) = Cardinality(N) + 1 /\ Cardinality(N) \in Nat
  BY <1>5, CountMore
<1>7. /\ client' = client /\ crashes' = crashes
      /\ round' = round /\ tokens' = tokens /\ pstate' = pstate
  BY DEF HandleComRe, elect
<1>8. /\ acks \in [Server -> Counts] /\ Boot \in Server /\ Mail(net, a, Boot) # {}
      /\ store \in [Server -> Store] /\ status \in [Server -> {"up", "down", "terminated", "wild"}]
      /\ Boot \notin Others /\ Others \subseteq Server
  BY <1>2, ClusterConstants DEF Inv, TypeOK, Others
<1>9. /\ Fate(store[Boot]) = "up" /\ RollbackLog(store[Boot]).store.posi = store[Boot].posi - 1
      /\ RollbackLog(store[Boot]).store.db = store[Boot].db
      /\ Len(RollbackLog(store[Boot]).store.log) = store[Boot].posi - 1
  <2>1. Uncommitted(store[Boot]) /\ store[Boot].posi = Len(store[Boot].log) /\ store[Boot] \in Store
    BY <1>2, <1>3, <1>8 DEF Closing, UnderWay, OnTop, Led
  <2> QED
    BY <2>1, PopFacts
<1>10. status[Boot] = "up"
  BY <1>1, <1>2 DEF Receives
<1>11. \/ /\ ok /\ net' = nt /\ acks'[Boot] = CommitAcks(k, k.cOk + 1, k.cErr)
          /\ store' = store /\ status' = status /\ users' = users
       \/ /\ ok /\ k.cOk + 1 >= Quorum /\ net' = nt /\ acks'[Boot] = CommitAcks(k, 0, 0)
          /\ store' = [store EXCEPT ![Boot] = res.store] /\ status' = status
          /\ Answer(client[Boot], res.ok, IF res.ok THEN res.ans ELSE Empty)
       \/ /\ ~ok /\ net' = nt /\ acks'[Boot] = CommitAcks(k, k.cOk, k.cErr + 1)
          /\ store' = store /\ status' = status /\ users' = users
       \/ /\ ~ok /\ k.cErr + 1 >= Quorum /\ net' = WithAll(nt, Boot, Order("ROLL"))
          /\ acks'[Boot] = CommitAcks(k, 0, 0) /\ RollBack(Boot) /\ Answer(client[Boot], FALSE, Empty)
  <2> HIDE DEF res
  <2> QED
    BY <1>2, <1>8, <1>9 DEF HandleComRe, res
<1> HIDE DEF ok, nt, k, res
<1>12. CASE /\ ok /\ net' = nt /\ acks'[Boot] = CommitAcks(k, k.cOk + 1, k.cErr)
            /\ store' = store /\ status' = status /\ users' = users
  <2>1. acks'[Boot] = [pOk |-> 0, pErr |-> 0, cOk |-> Cardinality(Y \cup {a}), cErr |-> Cardinality(N)]
    BY <1>4, <1>6, <1>12 DEF CommitAcks
  <2>2. /\ (Y \cup {a}) \cap N = {} /\ (Y \cup {a}) \cup N = (Y \cup N) \cup {a}
        /\ Y \cup {a} \in SUBSET Server
    BY <1>4, <1>5
  <2>3. pending' = pending /\ replies' = replies /\ issued' = issued /\ Heard(a)
    BY <1>2, <1>7, <1>8, <1>12 DEF Heard, users
  <2>4. Closing(T, Y \cup {a}, N)'
    BY <1>2, <1>3, <1>5, <1>12, <2>1, <2>2, <2>3, CountedSecond
  <2>5. Led' /\ Steady(T)'
    BY <1>2, <1>3, <1>7, <1>12, <2>3, LedKept, SteadyKept DEF Led, Steady
  <2> QED
    BY <1>2, <1>12, <2>2, <2>4, <2>5 DEF Alive, Lives
<1>13. CASE /\ ok /\ k.cOk + 1 >= Quorum /\ net' = nt /\ acks'[Boot] = CommitAcks(k, 0, 0)
            /\ store' = [store EXCEPT ![Boot] = res.store] /\ status' = status
            /\ Answer(client[Boot], res.ok, IF res.ok THEN res.ans ELSE Empty)
  <2>1. acks'[Boot] = NoAcks
    BY <1>4, <1>13 DEF CommitAcks, NoAcks
  <2>2. Y \cup {a} \subseteq (Y \cup N) \cup {a} /\ Cardinality(Y \cup {a}) >= Quorum
    BY <1>4, <1>6, <1>13
  <2>3. (Y \cup N) \cup {a} = Others /\ \A x \in Node, y \in Server : Mail(nt, x, y) = {}
    BY <1>5, <2>2, QuorumAnswered
  <2>4. /\ store'[Boot] = res.store /\ \A f \in Others : store'[f] = store[f]
        /\ \A f \in Server : f # Boot => store'[f] = store[f]
    BY <1>8, <1>13
  <2>5. /\ Resting(T)' /\ issued' = issued /\ store'[Boot].posi = Len(store'[Boot].log)
        /\ \A c \in Client : pending'[c] # Nil => pending'[c] = pending[c]
    BY <1>2, <1>3, <1>8, <1>13, <2>1, <2>3, <2>4, Committed DEF res
  <2>6. Led'
    BY <1>2, <1>7, <2>5, LedKept
  <2>7. Steady(T)'
    <3>1. \A x \in T : status'[x] = status[x] /\ store'[x].posi = Len(store'[x].log)
      BY <1>3, <1>13, <2>4, <2>5 DEF Steady
    <3> QED
      BY <1>3, <1>7, <3>1, SteadyKept
  <2>8. Lives(T)'
    BY <2>5 DEF Lives
  <2> QED
    BY <1>2, <1>13, <2>6, <2>7, <2>8 DEF Alive
<1>14. CASE /\ ~ok /\ net' = nt /\ acks'[Boot] = CommitAcks(k, k.cOk, k.cErr + 1)
            /\ store' = store /\ status' = status /\ users' = users
  <2>1. acks'[Boot] = [pOk |-> 0, pErr |-> 0, cOk |-> Cardinality(Y), cErr |-> Cardinality(N \cup {a})]
    BY <1>4, <1>6, <1>14 DEF CommitAcks
  <2>2. /\ Y \cap (N \cup {a}) = {} /\ Y \cup (N \cup {a}) = (Y \cup N) \cup {a}
        /\ N \cup {a} \in SUBSET Server
    BY <1>4, <1>5
  <2>3. pending' = pending /\ replies' = replies /\ issued' = issued /\ Heard(a)
    BY <1>2, <1>7, <1>8, <1>14 DEF Heard, users
  <2>4. \A f \in N \cup {a} : f \in N \/ \E o \in Mail(net, f, Boot) : ~o.ok
    BY <1>2, <1>14 DEF ok
  <2>5. Closing(T, Y, N \cup {a})'
    <3> DEFINE M == N \cup {a}
    <3>1. Polling(net', Boot, (Y \cup N) \cup {a}, "COM", "COMRE")
      BY <1>5, <1>14
    <3>2. /\ Y \cap M = {} /\ Y \cup M = (Y \cup N) \cup {a}
          /\ \A f \in M : f \in N \/ \E m \in Mail(net, f, Boot) : ~m.ok
          /\ acks'[Boot] = [pOk |-> 0, pErr |-> 0, cOk |-> Cardinality(Y), cErr |-> Cardinality(M)]
      BY <2>1, <2>2, <2>4
    <3> HIDE DEF M
    <3>3. Closing(T, Y, M)'
      BY <1>2, <1>3, <2>3, <3>1, <3>2, CountedSecond
    <3> QED
      BY <3>3 DEF M
  <2>6. Led' /\ Steady(T)'
    BY <1>2, <1>3, <1>7, <1>14, <2>3, LedKept, SteadyKept DEF Led, Steady
  <2> QED
    BY <1>2, <1>14, <2>2, <2>5, <2>6 DEF Alive, Lives
<1>15. CASE /\ ~ok /\ k.cErr + 1 >= Quorum /\ net' = WithAll(nt, Boot, Order("ROLL"))
            /\ acks'[Boot] = CommitAcks(k, 0, 0) /\ RollBack(Boot) /\ Answer(client[Boot], FALSE, Empty)
  <2>1. acks'[Boot] = NoAcks
    BY <1>4, <1>15 DEF CommitAcks, NoAcks
  <2>2. /\ (Y \cup N) \cup {a} = Others /\ \A x \in Node, y \in Server : Mail(nt, x, y) = {}
        /\ Cmd.op = "GET" /\ \A f \in T \ {Boot} : Uncommitted(store[f])
    <3>1. \E m \in Mail(net, a, Boot) : ~m.ok
      BY <1>2, <1>15 DEF ok
    <3>2. Cardinality(N) + 1 >= Quorum
      BY <1>4, <1>15
    <3> QED
      BY <1>3, <1>5, <3>1, <3>2, AllRefused
  <2>3. /\ store'[Boot] = RollbackLog(store[Boot]).store /\ status' = status
        /\ \A f \in Server : f # Boot => store'[f] = store[f]
    BY <1>8, <1>9, <1>10, <1>15 DEF RollBack
  <2>4. /\ store'[Boot].posi = store[Boot].posi - 1 /\ store'[Boot].db = store[Boot].db
        /\ store'[Boot].posi = Len(store'[Boot].log) /\ \A f \in Others : store'[f] = store[f]
    BY <1>8, <1>9, <2>3
  <2>5. /\ Tidy(net') /\ Resting(T)' /\ issued' = issued
        /\ \A c \in Client : pending'[c] # Nil => pending'[c] = pending[c]
    BY <1>2, <1>3, <1>8, <1>15, <2>1, <2>2, <2>4, Withdrawn
  <2>6. Led'
    BY <1>2, <1>7, <2>4, <2>5, LedKept
  <2>7. Steady(T)'
    <3>1. \A x \in T : status'[x] = status[x] /\ store'[x].posi = Len(store'[x].log)
      BY <1>3, <2>3, <2>4 DEF Steady
    <3> QED
      BY <1>3, <1>7, <3>1, SteadyKept
  <2>8. Lives(T)'
    BY <2>5 DEF Lives
  <2> QED
    BY <2>5, <2>6, <2>7, <2>8 DEF Alive
<1> QED
  BY <1>11, <1>12, <1>13, <1>14, <1>15

-----------------------------------------------------------------------------
(***************************************************************************)
(* Restarts, and what the cluster does when the LEADER has forgotten its   *)
(* client.                                                                 *)
(***************************************************************************)

\* The boot node comes back while a command is under way: nobody knows the
\* client any more.
LEMMA Forgotten ==
  ASSUME Inv, Led, UnderWay, NEW C, NEW go, NEW re, Phase(go, re), Polling(net, Boot, C, go, re),
         Restart(Boot), crashes > 0
  PROVE  Dead'
<1>1. \A s \in Server : client'[s] = Nil
  <2>1. client' = [client EXCEPT ![Boot] = Nil] /\ client \in [Server -> Client \cup {Nil}]
    BY DEF Restart, Inv, TypeOK
  <2> QED
    BY <2>1 DEF Led, Others
<1>2. \E c \in Client : pending'[c] # Nil
  <2>1. pending' = pending
    BY DEF Restart, users
  <2> QED
    BY <2>1 DEF UnderWay, Cmd
<1>3. Lacks(net', "CLIENT")
  <2> SUFFICES ASSUME NEW a \in Node, NEW b \in Server, NEW n \in 1 .. Len(net[a][b]),
                      net[a][b][n].type = "CLIENT"
               PROVE  FALSE
    BY DEF Lacks, Restart
  <2>1. net[a][b][n] \in Mail(net, a, b)
    BY DEF Mail, OfKind, Tracked
  <2>2. net[a][b][n].type \in {go, re}
    BY <2>1 DEF Polling
  <2>3. go # "CLIENT" /\ re # "CLIENT"
    BY DEF Phase
  <2> QED
    BY <2>2, <2>3
<1>4. crashes' = crashes
  BY DEF Restart
<1> QED
  BY <1>1, <1>2, <1>3, <1>4 DEF Dead

\* A node that has crashed comes back.
LEMMA RestartStep ==
  ASSUME Inv, Inv', Alive, NEW s \in Server, Restart(s)
  PROVE  Alive' \/ Dead'
<1>1. PICK T \in SUBSET Server : Steady(T) /\ Lives(T)
  BY DEF Alive
<1>2. /\ net' = net /\ pending' = pending /\ replies' = replies /\ issued' = issued /\ crashes' = crashes
      /\ Led /\ Tidy(net)
  BY DEF Restart, users, Alive
<1>3. /\ \A x \in Server : x # s => status'[x] = status[x] /\ store'[x] = store[x] /\ round'[x] = round[x]
           /\ pstate'[x] = pstate[x] /\ tokens'[x] = tokens[x] /\ client'[x] = client[x] /\ acks'[x] = acks[x]
      /\ store'[s] = EmptyStore /\ round'[s] = 0 /\ tokens'[s] = 0 /\ client'[s] = Nil /\ acks'[s] = NoAcks
      /\ pstate'[s] = IF s = Boot THEN "LEADER" ELSE "FOLLOWER"
  BY DEF Restart, Inv, TypeOK
<1>4. s \notin T
  BY <1>1 DEF Steady, Restart
<1>5. Boot \in Server /\ EmptyStore.posi = 0 /\ EmptyStore.posi = Len(EmptyStore.log)
  BY ClusterConstants DEF EmptyStore
<1>6. Led'
  BY <1>2, <1>3, <1>5 DEF Led, Others
<1>7. Steady(T)'
  <2>1. \A x \in T : status'[x] = status[x] /\ store'[x].posi = Len(store'[x].log)
    BY <1>1, <1>3, <1>4 DEF Steady
  <2> QED
    BY <1>1, <1>2, <2>1, SteadyKept
<1>8. Tidy(net') /\ Quiet(net')
  BY <1>2 DEF Quiet, Hushed
<1>9. CASE s # Boot
  <2>1. Unmoved(T)
    BY <1>2, <1>3, <1>4, <1>5, <1>9 DEF Unmoved
  <2> QED
    BY <1>1, <1>6, <1>7, <1>8, <2>1, Noise
<1>10. ASSUME s = Boot, Resting(T)
       PROVE  Alive'
  <2>1. /\ store[Boot].posi \in Nat /\ store'[Boot].posi = 0 /\ issued \in Nat /\ Load \in Nat
        /\ Load' = Load
    <3>1. store[Boot] \in Store /\ issued \in Nat /\ Load \in Nat
      BY <1>5, Basics DEF Typed
    <3>2. store[Boot].posi \in Nat
      BY <1>2, <3>1 DEF Led, Store
    <3>3. Load' = Load
      BY <1>2 DEF Load
    <3> QED
      BY <1>3, <1>5, <1>10, <3>1, <3>2, <3>3
  <2>2. Acknowledged' = Acknowledged
    BY <1>2 DEF Acknowledged
  <2>3. /\ \A a \in Node, b \in Server : \A m \in Mail(net', a, b) :
             m.type = "CLIENT" /\ pending'[m.client] = m.cmd
        /\ acks'[Boot] = NoAcks /\ \A x \in T : store'[x].db = Acknowledged'
    BY <1>2, <1>3, <1>4, <1>10, <2>2 DEF Resting
  <2>4. store'[Boot].posi + Load' <= issued' /\ store[Boot].posi + Load <= issued
    BY <1>2, <1>10, <2>1 DEF Resting
  <2>5. ASSUME NEW f \in T \ {Boot}
        PROVE  RestAt(f)'
    <3>1. f \in Server /\ RestAt(f) /\ Hushed(net', f) /\ store'[f] = store[f]
      BY <1>3, <1>8, <1>10 DEF Resting, Quiet
    <3>2. store'[Boot].posi <= store[Boot].posi /\ Load' <= Load
      BY <2>1
    <3> QED
      BY <1>2, <2>4, <3>1, <3>2, RestKept
  <2>6. Resting(T)'
    BY <2>3, <2>4, <2>5 DEF Resting
  <2>7. Lives(T)'
    BY <2>6 DEF Lives
  <2> QED
    BY <1>6, <1>7, <1>8, <2>7 DEF Alive
<1>11. ASSUME s = Boot, NEW Y, NEW N, Collecting(T, Y, N) \/ Closing(T, Y, N)
       PROVE  Dead'
  <2>1. UnderWay
    BY <1>11 DEF Collecting, Closing
  <2>2. PICK go, re : Phase(go, re) /\ Polling(net, Boot, Y \cup N, go, re)
    BY <1>11 DEF Collecting, Closing, Phase
  <2>3. crashes > 0
    <3>1. crashes \in Nat /\ crashes # 0
      BY <1>1, <1>4, <1>5, <1>11 DEF Steady, Inv, TypeOK
    <3> QED
      BY <3>1
  <2> QED
    BY <1>2, <1>11, <2>1, <2>2, <2>3, Forgotten
<1> QED
  BY <1>1, <1>9, <1>10, <1>11 DEF Lives

\* Timeouts and crashes only become more, and no node is in the middle of a
\* timeout before the first.
LEMMA CountsGrow ==
  ASSUME Inv, [Next]_vars
  PROVE  /\ timeouts' >= timeouts /\ crashes' >= crashes
         /\ Unhurried => Unhurried'
         /\ Over => Over'
<1>1. timeouts \in Nat /\ crashes \in Nat /\ timer \in [Server -> {"waiting", "due", "standing"}]
  BY DEF Inv, TypeOK
<1> DEFINE Grows ==
      /\ timeouts' = timeouts \/ timeouts' = timeouts + 1
      /\ crashes' = crashes \/ crashes' = crashes + 1
      /\ timeouts' = timeouts =>
           timer' = timer \/ \E s \in Server, t \in {"waiting", "due"} : timer' = [timer EXCEPT ![s] = t]
<1>2. Grows
  <2>1. ASSUME NEW s \in Server, TimeOut(s)
        PROVE  Grows
    BY <1>1, <2>1 DEF TimeOut
  <2>2. ASSUME NEW s \in Server, NewRound(s) \/ VoteAll(s) \/ HeartAll(s) \/ Crash(s) \/ Restart(s)
        PROVE  Grows
    BY <2>2 DEF NewRound, VoteAll, HeartAll, Crash, Restart, env, elect
  <2>3. ASSUME NEW c \in Client, Submit(c)
        PROVE  Grows
    BY <2>3 DEF Submit, env, elect
  <2>4. ASSUME NEW a \in Node, NEW s \in Server, NEW n \in 1 .. Len(net[a][s]),
               HandleClient(a, s, n) \/ Lose(a, s, n) \/ DropHeart(a, s, n)
        PROVE  Grows
    BY <2>4 DEF HandleClient, Lose, DropHeart, env, elect
  <2>5. ASSUME NEW a \in Server, NEW s \in Server, NEW n \in 1 .. Len(net[a][s]), PerformComm(a, s, n)
        PROVE  Grows
    <3>1. CASE HandleVote(a, s, n) \/ HandleVoteRe(a, s, n) \/ HandleHeart(a, s, n)
      BY <3>1 DEF HandleVote, HandleVoteRe, HandleHeart, env
    <3>2. CASE HandleRecover(a, s, n) \/ HandleHeartRe(a, s, n) \/ HandlePre(a, s, n) \/ HandlePreRe(a, s, n)
      BY <3>2 DEF HandleRecover, HandleHeartRe, HandlePre, HandlePreRe, env, elect
    <3>3. CASE HandleCom(a, s, n) \/ HandleComRe(a, s, n) \/ HandleRoll(a, s, n) \/ HandleRollRe(a, s, n)
      BY <3>3 DEF HandleCom, HandleComRe, HandleRoll, HandleRollRe, env, elect
    <3> QED
      BY <2>5, <3>1, <3>2, <3>3 DEF PerformComm
  <2>6. CASE UNCHANGED vars
    BY <2>6 DEF vars, env, elect
  <2>7. Server \subseteq Node
    BY DEF Node
  <2> HIDE DEF Grows
  <2> QED
    BY <2>1, <2>2, <2>3, <2>4, <2>5, <2>6, <2>7 DEF Next, Threads, Timer
<1>3. ASSUME Unhurried
      PROVE  Unhurried'
  BY <1>1, <1>2, <1>3 DEF Unhurried
<1> QED
  BY <1>1, <1>2, <1>3 DEF Over

\* A node whose state is undefined does nothing that would define it.
LEMMA WildStays ==
  ASSUME Inv, Undefined, Next
  PROVE  Undefined'
<1>1. PICK w \in Server : status[w] = "wild"
  BY DEF Undefined
<1>2. status \in [Server -> {"up", "down", "terminated", "wild"}]
  BY DEF Inv, TypeOK
<1>3. \/ status' = status
      \/ \E s \in Server : \E v : status[s] # "wild" /\ status' = [status EXCEPT ![s] = v]
  <2>1. ASSUME NEW s \in Server, Threads(s) \/ Crash(s) \/ Restart(s)
        PROVE  status' = status \/ \E v : status[s] # "wild" /\ status' = [status EXCEPT ![s] = v]
    BY <2>1 DEF Threads, Timer, TimeOut, NewRound, VoteAll, HeartAll, Crash, Restart, env
  <2>2. ASSUME NEW c \in Client, Submit(c)
        PROVE  status' = status
    BY <2>2 DEF Submit, env
  <2>3. ASSUME NEW a \in Node, NEW s \in Server, NEW n \in 1 .. Len(net[a][s]), HandleClient(a, s, n) \/ Lose(a, s, n)
        PROVE  status' = status
    BY <2>3 DEF HandleClient, Lose, env
  <2>4. ASSUME NEW a \in Server, NEW s \in Server, NEW n \in 1 .. Len(net[a][s]), DropHeart(a, s, n)
        PROVE  status' = status
    BY <2>4 DEF DropHeart, env
  <2>5. ASSUME NEW a \in Server, NEW s \in Server, NEW n \in 1 .. Len(net[a][s]), PerformComm(a, s, n)
        PROVE  status' = status \/ \E v : status[s] # "wild" /\ status' = [status EXCEPT ![s] = v]
    <3>1. status[s] # "wild"
      <4>1. status[s] = "up"
        BY <2>5 DEF PerformComm, HandleVote, HandleVoteRe, HandleHeart, HandleRecover, HandleHeartRe,
                    HandlePre, HandlePreRe, HandleCom, HandleComRe, HandleRoll, HandleRollRe, Receives
      <4> QED
        BY <4>1
    <3>2. CASE HandleVote(a, s, n) \/ HandleVoteRe(a, s, n) \/ HandleHeart(a, s, n) \/ HandleRecover(a, s, n)
               \/ HandlePre(a, s, n) \/ HandleCom(a, s, n) \/ HandleRollRe(a, s, n)
      BY <3>2 DEF HandleVote, HandleVoteRe, HandleHeart, HandleRecover, HandlePre, HandleCom, HandleRollRe, env
    <3>3. CASE HandleHeartRe(a, s, n)
      BY <3>1, <3>3 DEF HandleHeartRe
    <3>4. CASE HandlePreRe(a, s, n)
      BY <3>1, <3>4 DEF HandlePreRe, RollBack
    <3>5. CASE HandleComRe(a, s, n)
      BY <3>1, <3>5 DEF HandleComRe, RollBack
    <3>6. CASE HandleRoll(a, s, n)
      BY <3>1, <3>6 DEF HandleRoll, RollBack
    <3> QED
      BY <2>5, <3>2, <3>3, <3>4, <3>5, <3>6 DEF PerformComm
  <2> QED
    BY <2>1, <2>2, <2>3, <2>4, <2>5 DEF Next
<1>4. status'[w] = "wild"
  BY <1>1, <1>2, <1>3
<1> QED
  BY <1>4 DEF Undefined

\* Without a message of a type in the network none comes into it by what a node
\* takes.
LEMMA LacksTaken ==
  ASSUME NEW t, net \in Nets, Lacks(net, t), NEW a \in Node, NEW s \in Server, NEW n \in 1 .. Len(net[a][s])
  PROVE  /\ Taken(a, s, n) \in Nets /\ Lacks(Taken(a, s, n), t)
         /\ net[a][s][n].type # t
<1> DEFINE tk == Taken(a, s, n)
<1>1. tk \in Nets /\ net[a][s] \in Seq(Message)
  BY TakenType DEF Nets
<1>2. net[a][s][n].type # t
  BY DEF Lacks
<1>3. \A x \in Node, y \in Server : tk[x][y] = IF x = a /\ y = s THEN RemoveAt(net[a][s], n) ELSE net[x][y]
  BY TakenNet
<1>4. /\ Len(RemoveAt(net[a][s], n)) = Len(net[a][s]) - 1
      /\ \A i \in 1 .. Len(net[a][s]) - 1 :
           RemoveAt(net[a][s], n)[i] = IF i < n THEN net[a][s][i] ELSE net[a][s][i + 1]
  BY <1>1, Removed
<1>5. Lacks(tk, t)
  <2> SUFFICES ASSUME NEW x \in Node, NEW y \in Server, NEW i \in 1 .. Len(tk[x][y])
               PROVE  tk[x][y][i].type # t
    BY DEF Lacks
  <2> HIDE DEF tk
  <2>1. CASE x = a /\ y = s
    <3>1. Len(net[a][s]) \in Nat
      BY <1>1
    <3>2. i \in 1 .. Len(net[a][s]) - 1
      BY <1>3, <1>4, <2>1
    <3>3. i \in 1 .. Len(net[a][s]) /\ i + 1 \in 1 .. Len(net[a][s])
      BY <3>1, <3>2
    <3>4. tk[x][y][i] \in {net[a][s][i], net[a][s][i + 1]}
      BY <1>3, <1>4, <2>1, <3>2
    <3>5. \A k \in 1 .. Len(net[a][s]) : net[a][s][k].type # t
      BY DEF Lacks
    <3>6. net[a][s][i].type # t /\ net[a][s][i + 1].type # t
      BY <3>3, <3>5
    <3> QED
      BY <3>4, <3>6
  <2>2. CASE ~(x = a /\ y = s)
    BY <1>3, <2>2 DEF Lacks
  <2> QED
    BY <2>1, <2>2
<1> QED
  BY <1>1, <1>2, <1>5

\* Nor by what it sends.
LEMMA LacksSent ==
  ASSUME NEW t, NEW nt \in Nets, Lacks(nt, t), NEW a \in Node, NEW m, m.type # t
  PROVE  Lacks(WithAll(nt, a, m), t) /\ \A b \in Server : Lacks(With(nt, a, b, m), t)
<1>1. \A q \in Seq(Message) : \A i \in 1 .. Len(Append(q, m)) :
        (\A k \in 1 .. Len(q) : q[k].type # t) => Append(q, m)[i].type # t
  OBVIOUS
<1>2. \A x \in Node, y \in Server : nt[x][y] \in Seq(Message) /\ \A k \in 1 .. Len(nt[x][y]) : nt[x][y][k].type # t
  BY DEF Nets, Lacks
<1>3. Lacks(WithAll(nt, a, m), t)
  <2>1. \A x \in Node, y \in Server :
          WithAll(nt, a, m)[x][y] = IF x = a /\ y # a THEN Append(nt[a][y], m) ELSE nt[x][y]
    BY WithAllNet
  <2> SUFFICES ASSUME NEW x \in Node, NEW y \in Server, NEW i \in 1 .. Len(WithAll(nt, a, m)[x][y])
               PROVE  WithAll(nt, a, m)[x][y][i].type # t
    BY DEF Lacks
  <2>2. CASE x = a /\ y # a
    <3> DEFINE q == nt[a][y]
    <3>1. q \in Seq(Message) /\ \A k \in 1 .. Len(q) : q[k].type # t
      BY <1>2, <2>2
    <3>2. WithAll(nt, a, m)[x][y] = Append(q, m)
      BY <2>1, <2>2
    <3> HIDE DEF q
    <3>3. i \in 1 .. Len(Append(q, m))
      BY <3>2
    <3>4. Append(q, m)[i].type # t
      BY <1>1, <3>1, <3>3
    <3> QED
      BY <3>2, <3>4
  <2>3. CASE ~(x = a /\ y # a)
    BY <1>2, <2>1, <2>3
  <2> QED
    BY <2>2, <2>3
<1>4. ASSUME NEW b \in Server
      PROVE  Lacks(With(nt, a, b, m), t)
  <2>1. \A x \in Node, y \in Server :
          With(nt, a, b, m)[x][y] = IF x = a /\ y = b THEN Append(nt[a][b], m) ELSE nt[x][y]
    BY WithNet
  <2> SUFFICES ASSUME NEW x \in Node, NEW y \in Server, NEW i \in 1 .. Len(With(nt, a, b, m)[x][y])
               PROVE  With(nt, a, b, m)[x][y][i].type # t
    BY DEF Lacks
  <2>2. CASE x = a /\ y = b
    <3> DEFINE q == nt[a][b]
    <3>1. q \in Seq(Message) /\ \A k \in 1 .. Len(q) : q[k].type # t
      BY <1>2, <2>2
    <3>2. With(nt, a, b, m)[x][y] = Append(q, m)
      BY <2>1, <2>2
    <3> HIDE DEF q
    <3>3. i \in 1 .. Len(Append(q, m))
      BY <3>2
    <3>4. Append(q, m)[i].type # t
      BY <1>1, <3>1, <3>3
    <3> QED
      BY <3>2, <3>4
  <2>3. CASE ~(x = a /\ y = b)
    BY <1>2, <2>1, <2>3
  <2> QED
    BY <2>2, <2>3
<1> QED
  BY <1>3, <1>4

\* What nodes send is not a client's message, and a rollback only where they
\* order one.
LEMMA NodesSend ==
  ASSUME NEW t \in {"CLIENT", "ROLL"}
  PROVE  /\ \A r : Vote(r).type # t /\ VoteRe(r).type # t
         /\ \A r, st : Heart(r, st).type # t /\ HeartRe(st).type # t
         /\ \A p, e : Recover(p, e).type # t
         /\ \A st, cmd : Pre(st, cmd).type # t
         /\ Order("COM").type # t /\ Order("ROLL").type # "CLIENT"
         /\ \A ok : Ack("PRERE", ok).type # t /\ Ack("COMRE", ok).type # t /\ Ack("ROLLRE", ok).type # t
BY DEF Vote, VoteRe, Heart, HeartRe, Recover, Pre, Order, Ack

\* The LEADER takes the refusal that makes it order a rollback.
Withdraws(a, s, n) ==
  /\ pstate[s] = "LEADER" /\ ~net[a][s][n].ok
  /\ \/ HandlePreRe(a, s, n) /\ acks[s].pErr + 1 >= Quorum
     \/ HandleComRe(a, s, n) /\ acks[s].cErr + 1 >= Quorum

\* A message is taken and, perhaps, one is sent back, or to all others.
Replied(a, s, n) ==
  \E m : /\ m.type # "CLIENT" /\ (m.type = "ROLL" => Withdraws(a, s, n))
         /\ net' \in {Taken(a, s, n), With(Taken(a, s, n), s, a, m), WithAll(Taken(a, s, n), s, m)}

\* Every handler does that.
LEMMA Replies ==
  ASSUME NEW a \in Server, NEW s \in Server, NEW n \in 1 .. Len(net[a][s]), PerformComm(a, s, n)
  PROVE  Replied(a, s, n)
<1> DEFINE nt == Taken(a, s, n)
<1>1. CASE HandleVote(a, s, n)
  <2>1. \E r : net' \in {nt, With(nt, s, a, VoteRe(r))}
    BY <1>1 DEF HandleVote
  <2> HIDE DEF nt
  <2> QED
    BY <2>1, NodesSend DEF Replied, nt
<1>2. CASE HandleVoteRe(a, s, n)
  <2>1. \E r, st : net' \in {nt, WithAll(nt, s, Heart(r, st))}
    BY <1>2 DEF HandleVoteRe
  <2> HIDE DEF nt
  <2> QED
    BY <2>1, NodesSend DEF Replied, nt
<1>3. CASE HandleHeart(a, s, n)
  <2>1. \E st : net' \in {nt, With(nt, s, a, HeartRe(st))}
    BY <1>3 DEF HandleHeart
  <2> HIDE DEF nt
  <2> QED
    BY <2>1, NodesSend DEF Replied, nt
<1>4. CASE HandleRecover(a, s, n)
  <2>1. \E st : net' \in {nt, With(nt, s, a, HeartRe(st))}
    BY <1>4 DEF HandleRecover
  <2> HIDE DEF nt
  <2> QED
    BY <2>1, NodesSend DEF Replied, nt
<1>5. CASE HandleHeartRe(a, s, n)
  <2>1. \E p, e : net' \in {nt, With(nt, s, a, Recover(p, e))}
    BY <1>5 DEF HandleHeartRe
  <2> HIDE DEF nt
  <2> QED
    BY <2>1, NodesSend DEF Replied, nt
<1>6. CASE HandlePre(a, s, n)
  <2>1. \E ok : net' = With(nt, s, a, Ack("PRERE", ok))
    BY <1>6 DEF HandlePre
  <2> HIDE DEF nt
  <2> QED
    BY <2>1, NodesSend DEF Replied, nt
<1>7. CASE HandlePreRe(a, s, n)
  <2>1. \/ net' \in {nt, WithAll(nt, s, Order("COM"))}
        \/ net' = WithAll(nt, s, Order("ROLL")) /\ Withdraws(a, s, n)
    BY <1>7 DEF HandlePreRe, Withdraws
  <2> HIDE DEF nt
  <2> QED
    BY <2>1, NodesSend DEF Replied, nt
<1>8. CASE HandleCom(a, s, n)
  <2>1. \E ok : net' = With(nt, s, a, Ack("COMRE", ok))
    BY <1>8 DEF HandleCom
  <2> HIDE DEF nt
  <2> QED
    BY <2>1, NodesSend DEF Replied, nt
<1>9. CASE HandleComRe(a, s, n)
  <2>1. net' = nt \/ (net' = WithAll(nt, s, Order("ROLL")) /\ Withdraws(a, s, n))
    BY <1>9 DEF HandleComRe, Withdraws
  <2> HIDE DEF nt
  <2>2. Order("COM").type \notin {"CLIENT", "ROLL"}
    BY NodesSend
  <2> QED
    BY <2>1, <2>2, NodesSend DEF Replied, nt
<1>10. CASE HandleRoll(a, s, n)
  <2>1. \E ok : net' \in {nt, With(nt, s, a, Ack("ROLLRE", ok))}
    BY <1>10 DEF HandleRoll
  <2> HIDE DEF nt
  <2> QED
    BY <2>1, NodesSend DEF Replied, nt
<1>11. CASE HandleRollRe(a, s, n)
  <2>1. net' = nt
    BY <1>11 DEF HandleRollRe
  <2> HIDE DEF nt
  <2> QED
    BY <2>1, NodesSend DEF Replied, nt
<1> QED
  BY <1>1, <1>2, <1>3, <1>4, <1>5, <1>6, <1>7, <1>8, <1>9, <1>10, <1>11 DEF PerformComm

\* A cluster that has forgotten its client never answers it, nor takes a command.
LEMMA DeadStep ==
  ASSUME FaultSetting, Inv, Dead, Next
  PROVE  Dead'
<1>1. net \in Nets /\ Server \subseteq Node /\ Lacks(net, "CLIENT") /\ \A s \in Server : client[s] = Nil
  BY Basics DEF Typed, Dead
<1>2. ASSUME pending' = pending, \A s \in Server : client'[s] = Nil, Lacks(net', "CLIENT")
      PROVE  Dead'
  <2>1. crashes' >= crashes /\ crashes \in Nat /\ crashes' \in Nat
    <3>1. Inv'
      BY NextInv
    <3> QED
      BY <3>1, CountsGrow DEF Inv, TypeOK
  <2> QED
    BY <1>2, <2>1 DEF Dead
<1>3. ASSUME NEW s \in Server, Threads(s) \/ Crash(s) \/ Restart(s)
      PROVE  Dead'
  <2>1. pending' = pending
    BY <1>3 DEF Threads, Timer, TimeOut, NewRound, VoteAll, HeartAll, Crash, Restart, users
  <2>2. client' = client \/ client' = [client EXCEPT ![s] = Nil]
    BY <1>3 DEF Threads, Timer, TimeOut, NewRound, VoteAll, HeartAll, Crash, Restart, data
  <2>3. \A x \in Server : client'[x] = Nil
    BY <1>1, <2>2 DEF Inv, TypeOK
  <2>4. \/ net' = net
        \/ \E r, st : net' = WithAll(net, s, Vote(r)) \/ net' = WithAll(net, s, Heart(r, st))
    BY <1>3 DEF Threads, Timer, TimeOut, NewRound, VoteAll, HeartAll, Crash, Restart
  <2>5. Lacks(net', "CLIENT")
    <3>1. s \in Node
      BY <1>1
    <3> QED
      BY <1>1, <2>4, <3>1, LacksSent, NodesSend
  <2> QED
    BY <1>2, <2>1, <2>3, <2>5
<1>4. ASSUME NEW c \in Client
      PROVE  ~Submit(c)
  <2>1. pending[c] # Nil
    BY DEF Dead, FaultSetting
  <2> QED
    BY <2>1 DEF Submit
<1>5. ASSUME NEW a \in Node, NEW s \in Server, NEW n \in 1 .. Len(net[a][s]),
             HandleClient(a, s, n) \/ Lose(a, s, n) \/ DropHeart(a, s, n)
      PROVE  Dead'
  <2>1. Lacks(Taken(a, s, n), "CLIENT") /\ net[a][s][n].type # "CLIENT"
    BY <1>1, LacksTaken
  <2>2. ~HandleClient(a, s, n)
    BY <2>1 DEF HandleClient, Receives
  <2>3. \E x \in Node, y \in Server : \E k \in 1 .. Len(net[x][y]) :
          net' = Taken(x, y, k) /\ pending' = pending /\ client' = client
    <3>1. CASE Lose(a, s, n)
      BY <3>1 DEF Lose, users, data
    <3>2. CASE DropHeart(a, s, n)
      <4>1. n \in 1 .. Len(net[a][s]) /\ net' = Taken(a, s, n) /\ pending' = pending /\ client' = client
        BY <3>2 DEF DropHeart, users, data
      <4> QED
        BY <4>1
    <3> QED
      BY <1>5, <2>2, <3>1, <3>2
  <2>4. Lacks(net', "CLIENT")
    BY <1>1, <2>3, LacksTaken
  <2> QED
    BY <1>1, <1>2, <2>3, <2>4
<1>6. ASSUME NEW a \in Server, NEW s \in Server, NEW n \in 1 .. Len(net[a][s]), PerformComm(a, s, n)
      PROVE  Dead'
  <2>1. a \in Node /\ s \in Node
    BY <1>1
  <2>2. Lacks(net', "CLIENT")
    <3>1. PICK m : /\ m.type # "CLIENT"
                   /\ net' \in {Taken(a, s, n), With(Taken(a, s, n), s, a, m), WithAll(Taken(a, s, n), s, m)}
      BY <1>6, Replies DEF Replied
    <3>2. Taken(a, s, n) \in Nets /\ Lacks(Taken(a, s, n), "CLIENT")
      BY <1>1, <2>1, LacksTaken
    <3> QED
      BY <2>1, <3>1, <3>2, LacksSent
  <2>3. client' = client
    BY <1>6 DEF PerformComm, HandleVote, HandleVoteRe, HandleHeart, HandleRecover, HandleHeartRe,
                HandlePre, HandlePreRe, HandleCom, HandleComRe, HandleRoll, HandleRollRe, data
  <2>4. pending' = pending
    <3>1. \A ok, val : Answer(client[s], ok, val) => pending' = pending
      BY <1>1 DEF Answer, users
    <3>2. CASE HandleComRe(a, s, n)
      BY <3>1, <3>2 DEF HandleComRe, users
    <3> QED
      BY <1>6, <3>2 DEF PerformComm, HandleVote, HandleVoteRe, HandleHeart, HandleRecover, HandleHeartRe,
                        HandlePre, HandlePreRe, HandleCom, HandleRoll, HandleRollRe, users
  <2> QED
    BY <1>1, <1>2, <2>2, <2>3, <2>4
<1> QED
  BY <1>1, <1>3, <1>4, <1>5, <1>6 DEF Next

-----------------------------------------------------------------------------
(***************************************************************************)
(* The theorems.                                                           *)
(***************************************************************************)

\* FaultInv holds at the start: all nodes are steady, and at rest.
LEMMA InitFault ==
  ASSUME FaultSetting, Init
  PROVE  FaultInv
<1>1. Inv /\ Boot \in Server /\ Server \cap Client = {} /\ MaxCmd \in Nat
  BY InitInv, ClusterConstants
<1>2. \A a \in Node, b \in Server : net[a][b] = <<>> /\ Len(net[a][b]) = 0
  BY DEF Init
<1>3. Boot \in Node /\ Server \subseteq Node /\ Client \subseteq Node
  BY <1>1 DEF Node
<1>4. \A a \in Node, b \in Server : ~\E n \in 1 .. Len(net[a][b]) : TRUE
  BY <1>2
<1>5. \A a \in Node, b \in Server :
        /\ Mail(net, a, b) = {} /\ Copies(net, a, b) = {}
        /\ Once(net[a][b], Tracked) /\ Lined(net[a][b]) /\ ~Rolling(net[a][b])
  BY <1>4 DEF Mail, Copies, OfKind, Once, Lined, Rolling
<1>6. \A s \in Server : store[s] = EmptyStore /\ acks[s] = NoAcks
  BY DEF Init
<1>7. EmptyStore.posi = 0 /\ Len(EmptyStore.log) = 0
  BY DEF EmptyStore
<1>8. Led
  <2>1. issued <= MaxCmd
    BY <1>1 DEF Init
  <2>2. store[Boot].posi = Len(store[Boot].log)
    BY <1>1, <1>6, <1>7
  <2> QED
    BY <1>1, <2>1, <2>2 DEF Init, Led, Others
<1>9. Tidy(net)
  BY <1>3, <1>4, <1>5 DEF Tidy, Single, Proper
<1>10. Steady(Server)
  BY <1>1, <1>6, <1>7 DEF Steady, Init
<1>11. Load = 0
  BY <1>1, <1>3, <1>5 DEF Load, Bit
<1>12. Acknowledged = EmptyStore.db
  BY AfterNone DEF Acknowledged, Init
<1>13. ASSUME NEW f \in Server
       PROVE  RestAt(f)
  <2>1. store[f].posi = 0 /\ store[Boot].posi = 0 /\ Copies(net, Boot, f) = {} /\ ~RollTo(net, f)
    BY <1>1, <1>3, <1>5, <1>6, <1>7 DEF RollTo
  <2>2. Ahead(store[f], Copies(net, Boot, f), store[Boot].posi, Bit(RollTo(net, f)))
    BY <2>1 DEF Ahead, Bit
  <2>3. Roomy(store[f], Copies(net, Boot, f), Load, issued)
    BY <1>11, <2>1 DEF Roomy, Init
  <2> QED
    BY <2>1, <2>2, <2>3 DEF RestAt
<1>14. Resting(Server)
  <2>1. store[Boot].posi + Load <= issued
    BY <1>1, <1>6, <1>7, <1>11 DEF Init
  <2> QED
    BY <1>1, <1>5, <1>6, <1>12, <1>13, <2>1 DEF Resting
<1>15. Alive
  BY <1>8, <1>9, <1>10, <1>14 DEF Alive, Lives
<1>16. Unhurried
  BY DEF Init, Unhurried
<1> QED
  BY <1>1, <1>15, <1>16 DEF FaultInv

\* What a thread, a crash or a client does while the cluster lives.
LEMMA AliveThreads ==
  ASSUME FaultSetting, Inv, Inv', Alive, Unhurried, timeouts = 0, ~Over',
         \/ \E s \in Server : Threads(s) \/ Crash(s) \/ Restart(s)
         \/ \E c \in Client : Submit(c)
  PROVE  Alive' \/ Dead'
<1>1. ASSUME NEW s \in Server, Threads(s)
      PROVE  Alive'
  <2>1. ~TimeOut(s)
    BY DEF TimeOut, Over
  <2> QED
    BY <1>1, <2>1, NoElection, HeartStep DEF Threads, Timer
<1>2. ASSUME NEW s \in Server, Crash(s)
      PROVE  Alive'
  <2>1. crashes' <= 1
    BY DEF Over, Inv, TypeOK
  <2> QED
    BY <1>2, <2>1, CrashStep
<1>3. ASSUME NEW s \in Server, Restart(s)
      PROVE  Alive' \/ Dead'
  BY <1>3, RestartStep
<1>4. ASSUME NEW c \in Client, Submit(c)
      PROVE  Alive'
  BY <1>4, AskStep
<1> QED
  BY <1>1, <1>2, <1>3, <1>4

\* What becomes of a message.
LEMMA AliveReceives ==
  ASSUME FaultSetting, Inv, Inv', Alive, Unhurried, timeouts = 0, RollbackFirst, NEW a \in Server, NEW s \in Server, NEW n \in 1 .. Len(net[a][s]),
         PerformComm(a, s, n)
  PROVE  Alive' \/ Undefined'
<1>1. a \in Node
  BY DEF Node
<1>2. ~HandleVote(a, s, n) /\ ~HandleVoteRe(a, s, n)
  BY <1>1, NoElection
<1>3. CASE HandleHeart(a, s, n)
  BY <1>3, BeatStep
<1>4. CASE HandleRecover(a, s, n)
  BY <1>4, RecoverStep
<1>5. CASE HandleHeartRe(a, s, n)
  BY <1>5, BeatReStep
<1>6. CASE HandlePre(a, s, n)
  BY <1>6, PrepareStep
<1>7. CASE HandlePreRe(a, s, n)
  BY <1>7, PreAnswerStep
<1>8. CASE HandleCom(a, s, n)
  BY <1>8, CommitStep
<1>9. CASE HandleComRe(a, s, n)
  BY <1>9, ComAnswerStep
<1>10. CASE HandleRoll(a, s, n)
  BY <1>10, RollStep
<1>11. CASE HandleRollRe(a, s, n)
  BY <1>1, <1>11, TakeStep
<1> QED
  BY <1>2, <1>3, <1>4, <1>5, <1>6, <1>7, <1>8, <1>9, <1>10, <1>11 DEF PerformComm

\* A step of the cluster that lives leaves it alive, unless a node reads
\* outside its vector, or the boot node starts again without its client.
LEMMA AliveStep ==
  ASSUME FaultSetting, Inv, Inv', Alive, Unhurried, timeouts = 0, RollbackFirst, ~Over', Next
  PROVE  Alive' \/ Dead' \/ Undefined'
<1>1. CASE \/ \E s \in Server : Threads(s) \/ Crash(s) \/ Restart(s)
           \/ \E c \in Client : Submit(c)
  BY <1>1, AliveThreads
<1>2. ASSUME NEW a \in Node, NEW s \in Server, NEW n \in 1 .. Len(net[a][s]),
             HandleClient(a, s, n) \/ Lose(a, s, n)
      PROVE  Alive'
  BY <1>2, OpenStep, TakeStep
<1>3. ASSUME NEW a \in Server, NEW s \in Server, NEW n \in 1 .. Len(net[a][s]), PerformComm(a, s, n)
      PROVE  Alive' \/ Undefined'
  BY <1>3, AliveReceives
<1>4. ASSUME NEW a \in Server, NEW s \in Server, NEW n \in 1 .. Len(net[a][s])
      PROVE  ~DropHeart(a, s, n)
  BY NoElection DEF Node
<1> QED
  BY <1>1, <1>2, <1>3, <1>4 DEF Next

\* FaultInv is inductive.
LEMMA FaultStep ==
  ASSUME FaultSetting, FaultInv, [Next]_vars, Alive => [RollbackFirst]_vars
  PROVE  FaultInv'
<1>1. Inv /\ Inv' /\ Unhurried'
  BY NextInv, CountsGrow DEF FaultInv
<1>2. CASE UNCHANGED vars
  <2>1. /\ net' = net /\ store' = store /\ status' = status /\ acks' = acks /\ client' = client
        /\ round' = round /\ tokens' = tokens /\ pstate' = pstate /\ crashes' = crashes
        /\ pending' = pending /\ replies' = replies /\ issued' = issued
    BY <1>2 DEF vars, elect, data, users, env
  <2>2. Undefined => Undefined'
    BY <2>1 DEF Undefined
  <2>3. Dead => Dead'
    BY <2>1 DEF Dead
  <2>4. ASSUME Alive
        PROVE  Alive'
    <3>1. Tidy(net') /\ Quiet(net')
      BY <2>1, <2>4 DEF Alive, Quiet, Hushed
    <3> QED
      BY <1>1, <2>1, <2>4, <3>1, SameStep
  <2>5. Over => Over'
    BY CountsGrow DEF FaultInv
  <2> QED
    BY <1>1, <2>2, <2>3, <2>4, <2>5 DEF FaultInv
<1>3. ASSUME Next, ~(UNCHANGED vars)
      PROVE  FaultInv'
  <2>1. Alive => RollbackFirst
    BY <1>3
  <2>2. Over => Over'
    BY CountsGrow DEF FaultInv
  <2>3. ~Over => timeouts = 0
    BY DEF Over, FaultInv, Inv, TypeOK
  <2> QED
    BY <1>1, <1>3, <2>1, <2>2, <2>3, WildStays, DeadStep, AliveStep DEF FaultInv
<1> QED
  BY <1>2, <1>3

\* FaultInv holds of every execution in which no command overtakes a rollback.
LEMMA FaultInvariance ==
  ASSUME FaultSetting
  PROVE  Spec /\ [][RollbackFirst]_vars => []FaultInv
<1>1. Init => FaultInv
  BY InitFault
<1>2. FaultInv /\ [Next]_vars /\ [RollbackFirst]_vars => FaultInv'
  BY FaultStep
<1> QED
  BY <1>1, <1>2, PTL DEF Spec

\* While no client waits, the steady nodes hold what has been acknowledged.
LEMMA SteadyHold ==
  ASSUME FaultSetting, FaultInv, ~Over, ~Undefined, Idle
  PROVE  \E T \in SUBSET Server : Steady(T) /\ \A s \in T : store[s].db = Acknowledged
<1>1. Alive
  BY DEF FaultInv, Dead, Idle
<1>2. PICK T \in SUBSET Server : Steady(T) /\ Lives(T)
  BY <1>1 DEF Alive
<1>3. ~UnderWay
  BY DEF UnderWay, Cmd, Idle
<1>4. Resting(T)
  BY <1>2, <1>3 DEF Lives, Collecting, Closing
<1> QED
  BY <1>2, <1>4 DEF Resting

\* They are a majority.
LEMMA SteadyMajority ==
  ASSUME FaultSetting, NEW T \in SUBSET Server, Steady(T), NEW H \in SUBSET Server, T \subseteq H
  PROVE  Cardinality(H) >= Quorum
<1>1. PICK d \in Server : Server \ {d} \subseteq T
  BY DEF Steady
<1>2. IsFiniteSet(Server) /\ Nodes \in Nat /\ Cardinality(Server) = Nodes
  BY ClusterConstants, FS_CardinalityType DEF Nodes
<1>3. IsFiniteSet(Server \ {d}) /\ Cardinality(Server \ {d}) = Nodes - 1
  BY <1>2, FS_RemoveElement
<1>4. Server \ {d} \subseteq H
  BY <1>1
<1>5. IsFiniteSet(H) /\ Cardinality(H) \in Nat /\ Nodes - 1 <= Cardinality(H)
  <2>1. IsFiniteSet(H)
    BY <1>2, FS_Subset
  <2> QED
    BY <1>3, <1>4, <2>1, FS_Subset, FS_CardinalityType
<1>6. Quorum <= Nodes - 1 /\ Quorum \in Nat
  BY <1>2 DEF Quorum, FaultSetting
<1> QED
  BY <1>2, <1>5, <1>6

\* Until the first timeout and the second crash, these are all but one.
LEMMA MajorityHolds ==
  ASSUME FaultSetting
  PROVE  FaultInv => (timeouts = 0 /\ crashes <= 1 => AckedOnMajority)
<1> SUFFICES ASSUME FaultInv, timeouts = 0, crashes <= 1, Idle, ~Undefined
             PROVE  Cardinality({s \in Server : Running(s) /\ store[s].db = Acknowledged}) >= Quorum
  BY DEF AckedOnMajority
<1>1. ~Over
  BY DEF Over, FaultInv, Inv, TypeOK
<1>2. PICK T \in SUBSET Server : Steady(T) /\ \A s \in T : store[s].db = Acknowledged
  BY <1>1, SteadyHold
<1> DEFINE H == {s \in Server : Running(s) /\ store[s].db = Acknowledged}
<1>3. T \subseteq H /\ H \in SUBSET Server
  BY <1>2 DEF Steady, Running
<1> HIDE DEF H
<1>4. Cardinality(H) >= Quorum
  BY <1>2, <1>3, SteadyMajority
<1> QED
  BY <1>4 DEF H

\* Until the first crash, these are all.
LEMMA AllHold ==
  ASSUME FaultSetting
  PROVE  FaultInv => (timeouts = 0 /\ crashes = 0 => AckedEverywhere)
<1> SUFFICES ASSUME FaultInv, timeouts = 0, crashes = 0, Idle, ~Undefined
             PROVE  \A s \in Server : store[s].db = Acknowledged
  BY DEF AckedEverywhere
<1>1. ~Over
  BY DEF Over
<1>2. PICK T \in SUBSET Server : Steady(T) /\ \A s \in T : store[s].db = Acknowledged
  BY <1>1, SteadyHold
<1> QED
  BY <1>2 DEF Steady

\* Until somebody times out or a second process dies, whatever the clients have
\* been told is on a majority of the cluster while none of them waits, and these
\* replicas hold nothing else: messages to nodes that run may be lost or
\* overtake each other, and one node, the LEADER too, may crash and come back
\* with an empty log, in the middle of a command.  This holds of clusters of
\* three and four nodes with one client that sets and reads, as long as no
\* command overtakes a rollback.
THEOREM AckedSurvives ==
  ASSUME FaultSetting
  PROVE  Spec /\ [][RollbackFirst]_vars => [](timeouts = 0 /\ crashes <= 1 => AckedOnMajority)
BY MajorityHolds, FaultInvariance, PTL

\* Until somebody times out or a process dies, every replica holds exactly what
\* the clients have been told while none of them waits, in the same clusters:
\* messages may overtake each other or be lost, and entries may be recovered
\* while their own PRE or COM is still on its way.
THEOREM ReplicasHoldTheAnswers ==
  ASSUME FaultSetting
  PROVE  Spec /\ [][RollbackFirst]_vars => [](timeouts = 0 /\ crashes = 0 => AckedEverywhere)
BY AllHold, FaultInvariance, PTL

\* Until then, no rollback meets a committed SET, and no process ends, unless one
\* has read outside its log before: what makes a rollback meet one is a command
\* that overtakes it.
THEOREM NobodyTerminates ==
  ASSUME FaultSetting
  PROVE  Spec /\ [][RollbackFirst]_vars =>
           [](timeouts = 0 /\ crashes = 0 /\ ~Undefined => NeverTerminated)
<1>1. ASSUME FaultInv, timeouts = 0, crashes = 0, ~Undefined
      PROVE  NeverTerminated
  <2>1. Alive
    BY <1>1 DEF FaultInv, Over, Dead
  <2>2. PICK T \in SUBSET Server : Steady(T)
    BY <2>1 DEF Alive
  <2> QED
    BY <1>1, <2>2 DEF Steady, NeverTerminated
<1>2. FaultInv => (timeouts = 0 /\ crashes = 0 /\ ~Undefined => NeverTerminated)
  BY <1>1
<1> QED
  BY <1>2, FaultInvariance, PTL
=============================================================================
