-------------------------- MODULE Failover_proofs ---------------------------
(***************************************************************************)
(* The two phases while nodes time out, fail and lose messages.  Several   *)
(* nodes may think they are LEADER, and logs may hold an entry twice; but  *)
(* one client at a time has a command under way, and it is the node that   *)
(* wrote the command that counts the answers to it.  CommandInv says who   *)
(* has the entry, whose answer has been counted and whose is on its way;   *)
(* from it follows WrittenFirst.                                           *)
(***************************************************************************)
EXTENDS Participant_proofs, FiniteSetTheorems

Nodes == Cardinality(Server)

\* What the theorem assumes of the constants: clients wait for one another,
\* the quorum of answers is all the followers, and the logs have room for
\* what is written when every command is recovered by every node.
OneByOne ==
  /\ \A c, d \in Client : c = d
  /\ Nodes <= 4
  /\ Nodes * MaxCmd <= MaxLog

\* No LEADER has ordered a rollback that is still to be done.
NoRollback == \A a, b \in Server : \A n \in 1 .. Len(net[a][b]) : net[a][b][n].type # "ROLL"

-----------------------------------------------------------------------------
\* The messages that belong to one command, and the entries under way to a
\* recovering node.
Tracked == {"CLIENT", "PRE", "PRERE", "COM", "COMRE"}

Mail(nt, a, b)   == OfKind(nt[a][b], Tracked)
Copies(nt, a, b) == OfKind(nt[a][b], {"RECOVER"})

\* No connection carries two messages of one type about a command.
Single(nt) == \A a \in Node, b \in Server : Once(nt[a][b], Tracked)

\* An entry is known by its round and its command.
Id(e) == <<e.index, e.cmd>>

Ids(log)  == {Id(log[n]) : n \in 1 .. Len(log)}
Done(log) == {Id(log[n]) : n \in {m \in 1 .. Len(log) : log[m].state = "COMMIT"}}

\* Every running node has the entry.
Spread(x) == \A b \in Server : Running(b) => x \in Ids(store[b].log)

\* The entry is in a log, or on its way to one; and so it is as a committed
\* one.
Seen(x) ==
  \/ \E s \in Server : x \in Ids(store[s].log)
  \/ \E a \in Node, b \in Server : \E m \in Copies(net, a, b) : x = Id(m.entry)

Final(x) ==
  \/ \E s \in Server : x \in Done(store[s].log)
  \/ \E a \in Node, b \in Server : \E m \in Copies(net, a, b) :
       x = Id(m.entry) /\ m.entry.state = "COMMIT"

\* A log has n entries, or is about to be given its n-th.
Reached(n) ==
  \/ \E s \in Server : n = Len(store[s].log)
  \/ \E a \in Node, b \in Server : \E m \in Copies(net, a, b) : n = m.posi + 1

\* All logs have room for the entries still to be written for the commands
\* issued, more of them than are pending.
Fits(more) ==
  /\ issued <= MaxCmd
  /\ \A n \in Nat : Reached(n) => n + more <= Nodes * issued
  /\ \A s \in Server : store[s].posi = Len(store[s].log)

\* Node L has counted p prepared and c committed followers, the others none.
Tally(L, p, c) ==
  \A s \in Server : /\ acks[s].pOk = IF s = L THEN p ELSE 0
                    /\ acks[s].cOk = IF s = L THEN c ELSE 0

\* A command is under way: no client may issue another.
Busy == \A c \in Client : pending[c] # Nil

\* Node L has sent "go" to all the others.  Those in C have answered "re", and
\* L has counted it; of the rest one of the two messages is on its way, or lost.
Polling(nt, L, C, go, re) ==
  /\ L \in Server /\ C \in SUBSET (Server \ {L})
  /\ \A a \in Node, b \in Server : \A m \in Mail(nt, a, b) :
       \/ m.type = go /\ a = L /\ b \notin C \cup {L}
       \/ /\ m.type = re /\ b = L /\ a \notin C \cup {L} /\ a \in Server
          /\ \A o \in Mail(nt, L, a) : o.type # go

\* Between two commands, or with a command that no LEADER has taken yet.
Asked == \E a \in Node, b \in Server : Mail(net, a, b) # {}

Free ==
  /\ Asked => Busy
  /\ \A a \in Node, b \in Server : \A m \in Mail(net, a, b) : m.type = "CLIENT"
  /\ \A a, x \in Node, b, y \in Server :
       Mail(net, a, b) # {} /\ Mail(net, x, y) # {} => a = x /\ b = y
  /\ \A L \in Server : Tally(L, 0, 0)
  /\ \A x : Seen(x) => Spread(x)
  /\ Fits(IF Asked THEN Nodes ELSE 0)

\* First phase: L has written the entry x, and those that have answered too.
Waiting(L) == {f \in Server : \E m \in Mail(net, L, f) : m.type = "PRE"}

Preparing(L, C, x) ==
  /\ Busy
  /\ Polling(net, L, C, "PRE", "PRERE")
  /\ \A f \in Server : \A m \in Mail(net, L, f) : m.type = "PRE" => <<m.index, m.cmd>> = x
  /\ \A f \in Server : Mail(net, f, L) # {} \/ f \in C \cup {L} => x \in Ids(store[f].log)
  /\ Tally(L, Cardinality(C), 0)
  /\ \A y : Seen(y) => y = x \/ Spread(y)
  /\ \A y : Final(y) => Spread(y)
  /\ Fits(Cardinality(Waiting(L)))

\* Second phase: every running node has every entry of every log.
Committing(L, C) ==
  /\ Busy
  /\ Polling(net, L, C, "COM", "COMRE")
  /\ Tally(L, 0, Cardinality(C))
  /\ \A x : Seen(x) => Spread(x)
  /\ Fits(0)

Course ==
  \/ Free
  \/ \E L \in Server : \E C \in SUBSET Server :
       Committing(L, C) \/ \E x \in Nat \X Command : Preparing(L, C, x)

CommandInv == Inv /\ Single(net) /\ Course

-----------------------------------------------------------------------------
(***************************************************************************)
(* The network.                                                            *)
(***************************************************************************)

\* A message is taken: on its connection there is none of its type left.
LEMMA MailTaken ==
  ASSUME net \in Nets, Single(net), NEW a \in Node, NEW s \in Server, NEW n \in 1 .. Len(net[a][s])
  PROVE  /\ Single(Taken(a, s, n))
         /\ \A x \in Node, y \in Server :
              /\ Mail(Taken(a, s, n), x, y) \subseteq Mail(net, x, y)
              /\ Copies(Taken(a, s, n), x, y) \subseteq Copies(net, x, y)
              /\ ~(x = a /\ y = s) => Mail(Taken(a, s, n), x, y) = Mail(net, x, y)
         /\ net[a][s][n].type \in Tracked =>
              /\ net[a][s][n] \in Mail(net, a, s)
              /\ \A o \in Mail(Taken(a, s, n), a, s) : o.type # net[a][s][n].type
         /\ net[a][s][n].type = "RECOVER" => net[a][s][n] \in Copies(net, a, s)
<1> DEFINE q  == net[a][s]
           u  == RemoveAt(q, n)
           nt == Taken(a, s, n)
<1>1. \A x \in Node, y \in Server : nt[x][y] = IF x = a /\ y = s THEN u ELSE net[x][y]
  BY TakenNet
<1>2. q \in Seq(Message) /\ n \in 1 .. Len(q) /\ Once(q, Tracked)
  BY DEF Nets, Single
<1>3. nt[a][s] = u
  BY <1>1
<1>4. /\ OfKind(u, Tracked) \subseteq OfKind(q, Tracked)
      /\ OfKind(u, {"RECOVER"}) \subseteq OfKind(q, {"RECOVER"})
      /\ q[n].type \in Tracked => OfKind(u, Tracked) = OfKind(q, Tracked) \ {q[n]}
      /\ Once(u, Tracked)
  <2> HIDE DEF q, u
  <2> QED
    BY <1>2, RemovedKinds DEF u
<1>5. q[n].type \in Tracked => q[n] \in OfKind(q, Tracked)
  BY <1>2 DEF OfKind
<1>6. q[n].type = "RECOVER" => q[n] \in OfKind(q, {"RECOVER"})
  BY <1>2 DEF OfKind
<1>7. \A o \in OfKind(q, Tracked) : o.type = q[n].type => o = q[n]
  BY <1>2 DEF OfKind, Once
<1> HIDE DEF q, u, nt
<1>8. Single(nt)
  BY <1>1, <1>4 DEF Single
<1>9. \A x \in Node, y \in Server :
        /\ Mail(nt, x, y) \subseteq Mail(net, x, y)
        /\ Copies(nt, x, y) \subseteq Copies(net, x, y)
        /\ ~(x = a /\ y = s) => Mail(nt, x, y) = Mail(net, x, y)
  BY <1>1, <1>4 DEF Mail, Copies, q
<1>10. q[n].type \in Tracked =>
         q[n] \in Mail(net, a, s) /\ \A o \in Mail(nt, a, s) : o.type # q[n].type
  BY <1>3, <1>4, <1>5, <1>7 DEF Mail, q
<1>11. q[n].type = "RECOVER" => q[n] \in Copies(net, a, s)
  BY <1>6 DEF Copies, q
<1> QED
  BY <1>8, <1>9, <1>10, <1>11 DEF q, nt

\* A message is sent where there is none of its type.
LEMMA MailSent ==
  ASSUME NEW nt \in Nets, Single(nt), NEW a \in Node, NEW b \in Server, NEW m \in Message,
         m.type \in Tracked => \A o \in Mail(nt, a, b) : o.type # m.type
  PROVE  /\ Single(With(nt, a, b, m))
         /\ \A x \in Node, y \in Server :
              /\ Mail(With(nt, a, b, m), x, y) =
                   Mail(nt, x, y) \cup (IF x = a /\ y = b /\ m.type \in Tracked THEN {m} ELSE {})
              /\ Copies(With(nt, a, b, m), x, y) =
                   Copies(nt, x, y) \cup (IF x = a /\ y = b /\ m.type = "RECOVER" THEN {m} ELSE {})
<1> DEFINE q == nt[a][b]
           u == Append(q, m)
           w == With(nt, a, b, m)
<1>1. \A x \in Node, y \in Server : w[x][y] = IF x = a /\ y = b THEN u ELSE nt[x][y]
  BY WithNet
<1>2. q \in Seq(Message) /\ Once(q, Tracked)
  BY DEF Nets, Single
<1>3. m.type \in Tracked => \A o \in OfKind(q, Tracked) : o.type # m.type
  BY DEF Mail
<1>4. m.type \notin Tracked => \A o \in OfKind(q, Tracked) : o.type # m.type
  BY DEF OfKind
<1> HIDE DEF q
<1>5. /\ OfKind(u, Tracked) = OfKind(q, Tracked) \cup (IF m.type \in Tracked THEN {m} ELSE {})
      /\ OfKind(u, {"RECOVER"}) = OfKind(q, {"RECOVER"})
             \cup (IF m.type = "RECOVER" THEN {m} ELSE {})
      /\ Once(u, Tracked)
  <2>1. m.type \in {"RECOVER"} <=> m.type = "RECOVER"
    OBVIOUS
  <2> QED
    BY <1>2, <1>3, <1>4, <2>1, AppendedKinds
<1> HIDE DEF u, w
<1>6. Single(w)
  BY <1>1, <1>5 DEF Single
<1>7. \A x \in Node, y \in Server :
        /\ Mail(w, x, y) = Mail(nt, x, y)
               \cup (IF x = a /\ y = b /\ m.type \in Tracked THEN {m} ELSE {})
        /\ Copies(w, x, y) = Copies(nt, x, y)
               \cup (IF x = a /\ y = b /\ m.type = "RECOVER" THEN {m} ELSE {})
  BY <1>1, <1>5 DEF Mail, Copies, q
<1> QED
  BY <1>6, <1>7 DEF w

\* A message that belongs to no entry under way is sent to all others.
LEMMA MailSentAll ==
  ASSUME NEW nt \in Nets, Single(nt), NEW a \in Node, NEW m \in Message, m.type # "RECOVER",
         m.type \in Tracked => \A b \in Server \ {a} : \A o \in Mail(nt, a, b) : o.type # m.type
  PROVE  /\ Single(WithAll(nt, a, m))
         /\ \A x \in Node, y \in Server :
              /\ Mail(WithAll(nt, a, m), x, y) =
                   Mail(nt, x, y) \cup (IF x = a /\ y # a /\ m.type \in Tracked THEN {m} ELSE {})
              /\ Copies(WithAll(nt, a, m), x, y) = Copies(nt, x, y)
<1> DEFINE w == WithAll(nt, a, m)
<1>1. \A x \in Node, y \in Server : w[x][y] = IF x = a /\ y # a THEN Append(nt[a][y], m) ELSE nt[x][y]
  BY WithAllNet
<1>2. ASSUME NEW y \in Server, y # a
      PROVE  /\ OfKind(Append(nt[a][y], m), Tracked) =
                  OfKind(nt[a][y], Tracked) \cup (IF m.type \in Tracked THEN {m} ELSE {})
             /\ OfKind(Append(nt[a][y], m), {"RECOVER"}) = OfKind(nt[a][y], {"RECOVER"})
             /\ Once(Append(nt[a][y], m), Tracked)
  <2> DEFINE q == nt[a][y]
  <2>1. q \in Seq(Message) /\ Once(q, Tracked)
    BY DEF Nets, Single
  <2>2. m.type \in Tracked => \A o \in OfKind(q, Tracked) : o.type # m.type
    BY <1>2 DEF Mail
  <2>3. m.type \notin Tracked => \A o \in OfKind(q, Tracked) : o.type # m.type
    BY DEF OfKind
  <2>4. m.type \notin {"RECOVER"}
    OBVIOUS
  <2> HIDE DEF q
  <2>5. /\ OfKind(Append(q, m), Tracked) = OfKind(q, Tracked)
               \cup (IF m.type \in Tracked THEN {m} ELSE {})
        /\ OfKind(Append(q, m), {"RECOVER"}) = OfKind(q, {"RECOVER"})
        /\ Once(Append(q, m), Tracked)
    <3>2. OfKind(Append(q, m), Tracked) = OfKind(q, Tracked)
              \cup (IF m.type \in Tracked THEN {m} ELSE {})
      BY <2>1, AppendedKinds
    <3>3. OfKind(Append(q, m), {"RECOVER"}) =
            OfKind(q, {"RECOVER"}) \cup (IF m.type \in {"RECOVER"} THEN {m} ELSE {})
      BY <2>1, AppendedKinds
    <3>4. Once(Append(q, m), Tracked)
      BY <2>1, <2>2, <2>3, AppendedKinds
    <3> QED
      BY <2>4, <3>2, <3>3, <3>4
  <2> QED
    BY <2>5 DEF q
<1> HIDE DEF w
<1>3. Single(w)
  BY <1>1, <1>2 DEF Single
<1>4. \A x \in Node, y \in Server :
        /\ Mail(w, x, y) = Mail(nt, x, y)
               \cup (IF x = a /\ y # a /\ m.type \in Tracked THEN {m} ELSE {})
        /\ Copies(w, x, y) = Copies(nt, x, y)
  BY <1>1, <1>2 DEF Mail, Copies
<1> QED
  BY <1>3, <1>4 DEF w

-----------------------------------------------------------------------------
(***************************************************************************)
(* The log: writing adds an entry, committing keeps all of them.           *)
(***************************************************************************)

\* t has the entries of s, and only the one on top may differ in its state.
Alike(s, t) ==
  /\ t.posi = s.posi
  /\ Len(t.log) = Len(s.log)
  /\ \A n \in 1 .. Len(s.log) : Id(t.log[n]) = Id(s.log[n])
  /\ \A n \in 1 .. Len(s.log) : n # s.posi => t.log[n] = s.log[n]

\* A commit marks the entry on top, or does nothing to the log.
LEMMA CommitMarks ==
  ASSUME NEW s \in Store, InRange(s)
  PROVE  CommitLog(s).store.log = s.log
         \/ \E st, d : CommitLog(s).store.log = Mark(s.log, s.posi, st, d)
<1> DEFINE Fine(r) == r.store.log = s.log \/ \E st, d : r.store.log = Mark(s.log, s.posi, st, d)
<1>1. Fine(Refused(s))
  BY DEF Refused
<1>2. \A db, delq, ans, erased : Fine(Applied(s, db, delq, ans, erased))
  BY DEF Applied
<1>3. \A t, d : t.log = Mark(s.log, s.posi, "PRE", d) => Fine(Refused(t))
  BY DEF Refused
<1> HIDE DEF Fine
<1>4. Fine(CommitGet(s)) /\ Fine(CommitSet(s))
  BY <1>1, <1>2 DEF CommitGet, CommitSet
<1>5. Fine(CommitDel(s))
  <2> DEFINE q    == ParseDelVal(s, Top(s).cmd)
             miss == NotFound(s.db, q)
             f    == CHOOSE n \in miss : \A m \in miss : n <= m
             t    == [log  |-> Mark(s.log, s.posi, "PRE", f - 1), posi |-> s.posi,
                      db   |-> Erase(s.db, Range(SubSeq(q, 1, f - 1))),
                      delq |-> SubSeq(q, f + 1, Len(q))]
  <2>1. CommitDel(s) = IF miss = {} THEN Applied(s, Erase(s.db, Range(q)), <<>>, Empty, Len(q))
                       ELSE Refused(t)
    BY DEF CommitDel
  <2>2. t.log = Mark(s.log, s.posi, "PRE", f - 1)
    OBVIOUS
  <2> HIDE DEF miss, q, t, f
  <2> QED
    BY <1>2, <1>3, <2>1, <2>2
<1>6. CommitLog(s) \in {Refused(s), CommitGet(s), CommitSet(s), CommitDel(s)}
  BY DEF CommitLog
<1>7. Fine(CommitLog(s))
  BY <1>1, <1>4, <1>5, <1>6
<1> QED
  BY <1>7 DEF Fine

\* So every entry keeps its index and its command.
LEMMA CommitAlike ==
  ASSUME NEW s \in Store, InRange(s)
  PROVE  Alike(s, CommitLog(s).store)
<1> DEFINE t == CommitLog(s).store
<1>1. s.log \in Seq(Entry) /\ s.posi \in Int /\ s.posi \in 0 .. Len(s.log)
  BY DEF Store, InRange
<1>2. t.posi = s.posi /\ Len(t.log) = Len(s.log)
      /\ \A n \in 1 .. Len(s.log) : n # s.posi => t.log[n] = s.log[n]
  BY CommitLogSame DEF Same
<1>3. t.log = s.log \/ \E st, d : t.log = Mark(s.log, s.posi, st, d)
  BY CommitMarks
<1> HIDE DEF t
<1>4. ASSUME s.posi \in 1 .. Len(s.log)
      PROVE  Id(t.log[s.posi]) = Id(s.log[s.posi])
  <2>1. CASE t.log = s.log
    BY <2>1
  <2>2. ASSUME NEW st, NEW d, t.log = Mark(s.log, s.posi, st, d)
        PROVE  Id(t.log[s.posi]) = Id(s.log[s.posi])
    <3>1. t.log[s.posi] = [index |-> s.log[s.posi].index, cmd |-> s.log[s.posi].cmd,
                           state |-> st, dels |-> s.log[s.posi].dels + d]
      BY <1>1, <1>4, <2>2 DEF Mark
    <3> QED
      BY <3>1 DEF Id
  <2> QED
    BY <1>3, <2>1, <2>2
<1>5. \A n \in 1 .. Len(s.log) : Id(t.log[n]) = Id(s.log[n])
  BY <1>2, <1>4
<1> QED
  BY <1>2, <1>5 DEF Alike, t

\* Logs that are alike have the same entries, at most one more of them
\* committed.
LEMMA AlikeIds ==
  ASSUME NEW s \in Store, NEW t \in Store, Alike(s, t)
  PROVE  /\ Ids(t.log) = Ids(s.log) /\ Len(t.log) = Len(s.log) /\ t.posi = s.posi
         /\ Done(t.log) \subseteq Ids(s.log)
         /\ s.posi \in 1 .. Len(s.log) => Done(t.log) \subseteq Done(s.log) \cup {Id(s.log[s.posi])}
         /\ s.posi \notin 1 .. Len(s.log) => Done(t.log) \subseteq Done(s.log)
<1>1. Ids(t.log) = Ids(s.log)
  BY DEF Alike, Ids
<1>2. Done(t.log) \subseteq Ids(t.log)
  BY DEF Done, Ids
<1>3. ASSUME NEW n \in 1 .. Len(t.log), t.log[n].state = "COMMIT", n # s.posi
      PROVE  Id(t.log[n]) \in Done(s.log)
  BY <1>3 DEF Alike, Done
<1>4. \A n \in 1 .. Len(t.log) : Id(t.log[n]) = Id(s.log[n])
  BY DEF Alike
<1> QED
  BY <1>1, <1>2, <1>3, <1>4 DEF Alike, Done

\* However often the LEADER tries to commit, the entries stay the same.
LEMMA CommitRetriedAlike ==
  ASSUME NEW st \in Store, InRange(st)
  PROVE  Alike(st, CommitRetried(st).store)
<1> DEFINE Good(r) == r \in Result /\ InRange(r.store) /\ Alike(st, r.store)
<1>1. Good(CommitLog(st))
  BY CommitLogType, CommitAlike
<1>2. ASSUME NEW r, Good(r)
      PROVE  Good(Again(r))
  <2>1. r.store \in Store
    BY <1>2 DEF Result
  <2>2. Again(r) \in Result /\ InRange(Again(r).store)
    BY <1>2, AgainType
  <2>3. Alike(r.store, CommitLog(r.store).store)
    BY <1>2, <2>1, CommitAlike
  <2>4. Alike(st, r.store) /\ Alike(r.store, CommitLog(r.store).store)
          => Alike(st, CommitLog(r.store).store)
    <3> DEFINE u == r.store
               v == CommitLog(r.store).store
    <3>1. Alike(st, u) /\ Alike(u, v) => Alike(st, v)
      <4> HIDE DEF u, v
      <4> QED
        BY DEF Alike
    <3> QED
      BY <3>1
  <2>5. Alike(st, Again(r).store)
    BY <1>2, <2>3, <2>4 DEF Again
  <2> QED
    BY <2>2, <2>5
<1> HIDE DEF Good
<1>3. \A r : Good(r) => Good(Again3(r))
  BY <1>2 DEF Again3
<1>4. Good(CommitRetried(st))
  BY <1>1, <1>2, <1>3 DEF CommitRetried
<1> QED
  BY <1>4 DEF Good

\* Writing adds one entry, which is not committed.
Added(s, t, i, c) ==
  /\ t \in Store /\ t.posi = Len(t.log) /\ Len(t.log) = Len(s.log) + 1
  /\ Ids(t.log) = Ids(s.log) \cup {<<i, c>>}
  /\ Done(t.log) = Done(s.log)
  /\ Id(t.log[t.posi]) = <<i, c>>
  /\ NewLogIndex(t) = i

\* That is what writeLog does when it has room.
LEMMA WriteIds ==
  ASSUME NEW s \in Store, s.posi = Len(s.log), CanWrite(s), NEW i \in Nat, NEW c \in Command
  PROVE  Added(s, WriteLog(s, i, c), i, c)
<1> DEFINE t == WriteLog(s, i, c)
           l == Len(s.log)
<1>1. /\ t \in Store /\ Above(t, s) /\ t.posi = s.posi + 1 /\ Len(t.log) = s.posi + 1
      /\ Top(t).cmd = c /\ NewLogIndex(t) = i
  BY WrittenAbove
<1>2. l \in Nat /\ s.posi = l
  BY DEF Store
<1> HIDE DEF t
<1>3. (\A n \in 1 .. t.posi - 1 : s.log[n] = t.log[n]) /\ t.log[t.posi].state = "PRE"
  BY <1>1, AboveFacts
<1> HIDE DEF l
<1>4. t.posi = l + 1 /\ Len(t.log) = l + 1
  BY <1>1, <1>2
<1>5. Id(t.log[l + 1]) = <<i, c>>
  BY <1>1, <1>2, <1>4 DEF Id, NewLogIndex, Top
<1>6. \A n \in 1 .. l : t.log[n] = s.log[n]
  BY <1>2, <1>3, <1>4
<1>7. 1 .. Len(t.log) = (1 .. l) \cup {l + 1} /\ 1 .. Len(s.log) = 1 .. l
  BY <1>2, <1>4 DEF l
<1>8. Ids(t.log) = Ids(s.log) \cup {<<i, c>>}
  BY <1>5, <1>6, <1>7 DEF Ids
<1>9. Done(t.log) = Done(s.log)
  <2>1. t.log[l + 1].state # "COMMIT"
    BY <1>3, <1>4
  <2>2. {m \in 1 .. Len(t.log) : t.log[m].state = "COMMIT"}
          = {m \in 1 .. Len(s.log) : s.log[m].state = "COMMIT"}
    BY <1>6, <1>7, <2>1
  <2>3. \A n \in {m \in 1 .. Len(s.log) : s.log[m].state = "COMMIT"} : t.log[n] = s.log[n]
    BY <1>6, <1>7
  <2> QED
    BY <2>2, <2>3 DEF Done
<1> QED
  BY <1>1, <1>4, <1>5, <1>8, <1>9, <1>2 DEF t, l, Added

-----------------------------------------------------------------------------
(***************************************************************************)
(* Steps that leave the course of a command as it is.                      *)
(***************************************************************************)

\* A [HEART] with an entry of some node's log.
Fresh(m) ==
  \E s \in Server : \E p \in Nat : HasLog(store[s], p) /\ m = Recover(p, LogAt(store[s], p))

\* No entry is sent that is in no log.
NoNews(nt) ==
  \A x \in Node, y \in Server : \A m \in Copies(nt, x, y) : m \in Copies(net, x, y) \/ Fresh(m)

\* To the command under way nt is net, perhaps with some messages lost.
Harmless(nt) ==
  /\ Single(nt)
  /\ \A x \in Node, y \in Server : Mail(nt, x, y) \subseteq Mail(net, x, y)
  /\ NoNews(nt)

\* What such a message carries is in a log.
LEMMA FreshKnown ==
  ASSUME Inv, NEW m, Fresh(m)
  PROVE  /\ Seen(Id(m.entry))
         /\ m.entry.state = "COMMIT" => Final(Id(m.entry))
         /\ \E k \in Nat : m.posi + 1 <= k /\ Reached(k)
<1> PICK s \in Server, p \in Nat : HasLog(store[s], p) /\ m = Recover(p, LogAt(store[s], p))
  BY DEF Fresh
<1> DEFINE log == store[s].log
<1>1. log \in Seq(Entry) /\ Len(log) \in Nat /\ p + 1 \in 1 .. Len(log) /\ LogAt(store[s], p) = log[p + 1]
  BY DEF Inv, TypeOK, Store, HasLog, LogAt
<1>2. m.posi = p /\ m.entry.state = log[p + 1].state /\ Id(m.entry) = Id(log[p + 1])
  BY <1>1 DEF Recover, Id
<1>3. Id(log[p + 1]) \in Ids(log) /\ (log[p + 1].state = "COMMIT" => Id(log[p + 1]) \in Done(log))
  BY <1>1 DEF Ids, Done
<1>4. Reached(Len(log)) /\ p + 1 <= Len(log)
  BY <1>1 DEF Reached
<1> QED
  BY <1>1, <1>2, <1>3, <1>4 DEF Seen, Final

\* The ways a handler or a thread changes the network without touching the
\* messages about a command.
LEMMA HarmlessTaken ==
  ASSUME net \in Nets, Single(net), NEW a \in Node, NEW s \in Server, NEW n \in 1 .. Len(net[a][s])
  PROVE  Harmless(Taken(a, s, n)) /\ Taken(a, s, n) \in Nets
<1>1. Taken(a, s, n) \in Nets
  BY TakenType
<1> QED
  BY <1>1, MailTaken DEF Harmless, NoNews

\* Sending to one node.
LEMMA HarmlessSent ==
  ASSUME NEW nt \in Nets, Harmless(nt), NEW a \in Node, NEW b \in Server, NEW m \in Message,
         m.type \notin Tracked, m.type = "RECOVER" => Fresh(m)
  PROVE  Harmless(With(nt, a, b, m))
<1>1. Single(nt)
  BY DEF Harmless, NoNews
<1>2. /\ Single(With(nt, a, b, m))
      /\ \A x \in Node, y \in Server :
           /\ Mail(With(nt, a, b, m), x, y) =
                Mail(nt, x, y) \cup (IF x = a /\ y = b /\ m.type \in Tracked THEN {m} ELSE {})
           /\ Copies(With(nt, a, b, m), x, y) =
                Copies(nt, x, y) \cup (IF x = a /\ y = b /\ m.type = "RECOVER" THEN {m} ELSE {})
  BY <1>1, MailSent
<1> DEFINE w == With(nt, a, b, m)
<1> HIDE DEF w
<1>3. Single(w)
  BY <1>2 DEF w
<1>4. \A x \in Node, y \in Server : Mail(w, x, y) = Mail(nt, x, y)
  <2> SUFFICES ASSUME NEW x \in Node, NEW y \in Server
               PROVE  Mail(w, x, y) = Mail(nt, x, y)
    OBVIOUS
  <2>1. Mail(w, x, y) = Mail(nt, x, y)
            \cup (IF x = a /\ y = b /\ m.type \in Tracked THEN {m} ELSE {})
    BY <1>2 DEF w
  <2>2. (IF x = a /\ y = b /\ m.type \in Tracked THEN {m} ELSE {}) = {}
    OBVIOUS
  <2> QED
    BY <2>1, <2>2
<1>5. \A x \in Node, y \in Server :
        Copies(w, x, y) = Copies(nt, x, y)
            \cup (IF x = a /\ y = b /\ m.type = "RECOVER" THEN {m} ELSE {})
  BY <1>2 DEF w
<1>6. Harmless(w)
  BY <1>3, <1>4, <1>5 DEF Harmless, NoNews
<1> QED
  BY <1>6 DEF w

\* Sending to all others.
LEMMA HarmlessSentAll ==
  ASSUME NEW nt \in Nets, Harmless(nt), NEW a \in Node, NEW m \in Message,
         m.type \notin Tracked \cup {"RECOVER"}
  PROVE  Harmless(WithAll(nt, a, m))
<1>1. Single(nt)
  BY DEF Harmless, NoNews
<1>2. /\ Single(WithAll(nt, a, m))
      /\ \A x \in Node, y \in Server :
           /\ Mail(WithAll(nt, a, m), x, y) =
                Mail(nt, x, y) \cup (IF x = a /\ y # a /\ m.type \in Tracked THEN {m} ELSE {})
           /\ Copies(WithAll(nt, a, m), x, y) = Copies(nt, x, y)
  BY <1>1, MailSentAll
<1> DEFINE w == WithAll(nt, a, m)
<1> HIDE DEF w
<1>3. Single(w) /\ \A x \in Node, y \in Server : Mail(w, x, y) = Mail(nt, x, y) /\ Copies(w, x, y) = Copies(nt, x, y)
  BY <1>2 DEF w
<1>4. Harmless(w)
  BY <1>3 DEF Harmless, NoNews
<1> QED
  BY <1>4 DEF w

\* The network as it is.
LEMMA HarmlessSame ==
  ASSUME Single(net)
  PROVE  Harmless(net)
BY DEF Harmless, NoNews

\* One node's log becomes that of st, and no entry is sent that is in no log.
LEMMA SeenStep ==
  ASSUME Inv, NEW s \in Server, NEW st, store' = [store EXCEPT ![s] = st], NoNews(net')
  PROVE  /\ \A x : Seen(x)' => Seen(x) \/ x \in Ids(st.log)
         /\ \A x : Final(x)' => Final(x) \/ x \in Done(st.log)
         /\ \A n \in Nat : Reached(n)' => n = Len(st.log) \/ \E k \in Nat : n <= k /\ Reached(k)
<1>1. \A b \in Server : store'[b] = IF b = s THEN st ELSE store[b]
  BY DEF Inv, TypeOK
<1>2. \A x \in Node, y \in Server : \A m \in Copies(net', x, y) : m \in Copies(net, x, y) \/ Fresh(m)
  BY DEF Harmless, NoNews
<1>3. ASSUME NEW x, Seen(x)'
      PROVE  Seen(x) \/ x \in Ids(st.log)
  <2>1. CASE \E b \in Server : x \in Ids(store'[b].log)
    BY <1>1, <2>1 DEF Seen
  <2>2. CASE \E a \in Node, b \in Server : \E m \in Copies(net', a, b) : x = Id(m.entry)
    <3> PICK a \in Node, b \in Server : \E m \in Copies(net', a, b) : x = Id(m.entry)
      BY <2>2
    <3> PICK m \in Copies(net', a, b) : x = Id(m.entry)
      OBVIOUS
    <3>1. CASE m \in Copies(net, a, b)
      BY <3>1 DEF Seen
    <3>2. CASE Fresh(m)
      BY <3>2, FreshKnown
    <3> QED
      BY <1>2, <3>1, <3>2
  <2>3. (\E b \in Server : x \in Ids(store'[b].log))
        \/ (\E a \in Node, b \in Server : \E m \in Copies(net', a, b) : x = Id(m.entry))
    BY <1>3 DEF Seen
  <2> QED
    BY <2>1, <2>2, <2>3
<1>4. ASSUME NEW x, Final(x)'
      PROVE  Final(x) \/ x \in Done(st.log)
  <2>1. CASE \E b \in Server : x \in Done(store'[b].log)
    BY <1>1, <2>1 DEF Final
  <2>2. CASE \E a \in Node, b \in Server : \E m \in Copies(net', a, b) :
               x = Id(m.entry) /\ m.entry.state = "COMMIT"
    <3> PICK a \in Node, b \in Server : \E m \in Copies(net', a, b) :
               x = Id(m.entry) /\ m.entry.state = "COMMIT"
      BY <2>2
    <3> PICK m \in Copies(net', a, b) : x = Id(m.entry) /\ m.entry.state = "COMMIT"
      OBVIOUS
    <3>1. CASE m \in Copies(net, a, b)
      BY <3>1 DEF Final
    <3>2. CASE Fresh(m)
      BY <3>2, FreshKnown
    <3> QED
      BY <1>2, <3>1, <3>2
  <2>3. (\E b \in Server : x \in Done(store'[b].log))
        \/ (\E a \in Node, b \in Server : \E m \in Copies(net', a, b) :
               x = Id(m.entry) /\ m.entry.state = "COMMIT")
    BY <1>4 DEF Final
  <2> QED
    BY <2>1, <2>2, <2>3
<1>5. ASSUME NEW n \in Nat, Reached(n)'
      PROVE  n = Len(st.log) \/ \E k \in Nat : n <= k /\ Reached(k)
  <2>1. CASE \E b \in Server : n = Len(store'[b].log)
    <3> PICK b \in Server : n = Len(store'[b].log)
      BY <2>1
    <3>1. CASE b = s
      BY <1>1, <3>1
    <3>2. CASE b # s
      <4>1. n = Len(store[b].log)
        BY <1>1, <3>2
      <4> QED
        BY <4>1 DEF Reached
    <3> QED
      BY <3>1, <3>2
  <2>2. CASE \E a \in Node, b \in Server : \E m \in Copies(net', a, b) : n = m.posi + 1
    <3> PICK a \in Node, b \in Server : \E m \in Copies(net', a, b) : n = m.posi + 1
      BY <2>2
    <3> PICK m \in Copies(net', a, b) : n = m.posi + 1
      OBVIOUS
    <3>1. CASE m \in Copies(net, a, b)
      <4>1. Reached(n) /\ n <= n
        BY <3>1 DEF Reached
      <4> QED
        BY <4>1
    <3>2. CASE Fresh(m)
      <4>1. \E k \in Nat : m.posi + 1 <= k /\ Reached(k)
        BY <3>2, FreshKnown
      <4> QED
        BY <4>1
    <3> QED
      BY <1>2, <3>1, <3>2
  <2>3. (\E b \in Server : n = Len(store'[b].log))
        \/ (\E a \in Node, b \in Server : \E m \in Copies(net', a, b) : n = m.posi + 1)
    BY <1>5 DEF Reached
  <2> QED
    BY <2>1, <2>2, <2>3
<1> QED
  BY <1>3, <1>4, <1>5

\* What is spread stays so while logs keep their entries and no node returns.
LEMMA SpreadKept ==
  ASSUME \A b \in Server : Ids(store[b].log) \subseteq Ids(store'[b].log),
         \A b \in Server : Running(b)' => Running(b)
  PROVE  \A x : Spread(x) => Spread(x)'
BY DEF Spread

\* With fewer entries still to be written the logs have room for them.
LEMMA FitsLess ==
  ASSUME NEW k \in Nat, NEW j \in Nat, j <= k, Fits(k), issued \in Nat, issued' = issued, Nodes \in Nat,
         \A n \in Nat : Reached(n)' => \E m \in Nat : n + j <= m + k /\ Reached(m),
         \A s \in Server : store'[s].posi = Len(store'[s].log)
  PROVE  Fits(j)'
<1>1. Nodes * issued \in Nat
  OBVIOUS
<1> DEFINE N == Nodes * issued
<1>2. N \in Nat /\ N' = N
  BY <1>1
<1>3. \A m \in Nat : Reached(m) => m + k <= N
  BY DEF Fits
<1>4. \A n \in Nat : Reached(n)' => n + j <= N
  <2> HIDE DEF N
  <2> QED
    BY <1>2, <1>3
<1> QED
  BY <1>4 DEF Fits, Nodes

\* The cluster is finite, and so is the set of the followers still to write.
LEMMA Finite ==
  ASSUME NEW L \in Server
  PROVE  /\ IsFiniteSet(Server) /\ Nodes \in Nat /\ Nodes > 0
         /\ IsFiniteSet(Waiting(L)) /\ Cardinality(Waiting(L)) \in Nat
         /\ \A C \in SUBSET Server : IsFiniteSet(C) /\ Cardinality(C) \in Nat /\ Cardinality(C) <= Nodes
<1>1. IsFiniteSet(Server)
  BY ClusterConstants
<1>2. Nodes \in Nat
  BY <1>1, FS_CardinalityType DEF Nodes
<1>3. Nodes # 0
  BY <1>1, FS_EmptySet DEF Nodes
<1>4. \A C \in SUBSET Server : IsFiniteSet(C) /\ Cardinality(C) \in Nat /\ Cardinality(C) <= Nodes
  BY <1>1, FS_Subset, FS_CardinalityType DEF Nodes
<1>5. Waiting(L) \in SUBSET Server
  BY DEF Waiting
<1> QED
  BY <1>1, <1>2, <1>3, <1>4, <1>5

\* A step that takes at most messages away, adds no entry that was not under
\* way, and counts no answer.
LEMMA CourseKept ==
  ASSUME CommandInv,
         \A a \in Node, b \in Server : Mail(net', a, b) \subseteq Mail(net, a, b),
         \A b \in Server : Ids(store[b].log) \subseteq Ids(store'[b].log),
         \A b \in Server : Running(b)' => Running(b),
         \A x : Seen(x)' => Seen(x),
         \A x : Final(x)' => Final(x),
         \A n \in Nat : Reached(n)' => \E k \in Nat : n <= k /\ Reached(k),
         \A s \in Server : store'[s].posi = Len(store'[s].log),
         \A s \in Server : acks'[s].pOk = acks[s].pOk /\ acks'[s].cOk = acks[s].cOk,
         pending' = pending, issued' = issued
  PROVE  Course'
<1>1. \A x : Spread(x) => Spread(x)'
  BY SpreadKept
<1>2. \A L, p, c : Tally(L, p, c) => Tally(L, p, c)'
  BY DEF Tally
<1>3. Busy => Busy'
  BY DEF Busy
<1>4. \A L, C, go, re : Polling(net, L, C, go, re) => Polling(net, L, C, go, re)'
  <2> SUFFICES ASSUME NEW L, NEW C, NEW go, NEW re, Polling(net, L, C, go, re)
               PROVE  Polling(net, L, C, go, re)'
    OBVIOUS
  <2> QED
    BY DEF Polling, Node
<1>5. issued \in Nat /\ IsFiniteSet(Server) /\ Nodes \in Nat /\ Nodes > 0 /\ Boot \in Server
  BY Finite, ClusterConstants DEF CommandInv, Inv, TypeOK
<1>6. \A j, k \in Nat : j <= k /\ Fits(k) => Fits(j)'
  <2> SUFFICES ASSUME NEW j \in Nat, NEW k \in Nat, j <= k, Fits(k)
               PROVE  Fits(j)'
    OBVIOUS
  <2>1. \A n \in Nat : Reached(n)' => \E m \in Nat : n + j <= m + k /\ Reached(m)
    <3> SUFFICES ASSUME NEW n \in Nat, Reached(n)'
                 PROVE  \E m \in Nat : n + j <= m + k /\ Reached(m)
      OBVIOUS
    <3> PICK m \in Nat : n <= m /\ Reached(m)
      OBVIOUS
    <3>1. n + j <= m + k
      OBVIOUS
    <3> QED
      BY <3>1
  <2> QED
    BY <1>5, <2>1, FitsLess
<1>7. ASSUME Free
      PROVE  Free'
  <2>1. Asked' => Asked
    BY DEF Asked
  <2>2. Fits(IF Asked THEN Nodes ELSE 0)
    BY <1>7 DEF Free
  <2>3. Fits(0)' /\ (Asked' => Fits(Nodes)')
    <3>1. CASE Asked
      <4>1. Fits(Nodes)
        BY <2>2, <3>1
      <4> QED
        BY <1>5, <1>6, <4>1
    <3>2. CASE ~Asked
      <4>1. Fits(0)
        BY <2>2, <3>2
      <4> QED
        BY <1>6, <2>1, <3>2, <4>1
    <3> QED
      BY <3>1, <3>2
  <2>4. Asked' => Busy'
    BY <1>3, <1>7, <2>1 DEF Free
  <2>5. \A a \in Node, b \in Server : \A m \in Mail(net', a, b) : m.type = "CLIENT"
    BY <1>7 DEF Free
  <2>6. \A a, x \in Node, b, y \in Server :
          Mail(net', a, b) # {} /\ Mail(net', x, y) # {} => a = x /\ b = y
    BY <1>7 DEF Free
  <2>7. (\A L \in Server : Tally(L, 0, 0)') /\ \A x : Seen(x)' => Spread(x)'
    BY <1>1, <1>2, <1>7 DEF Free
  <2>8. Fits(IF Asked THEN Nodes ELSE 0)'
    <3>1. CASE Asked'
      BY <2>3, <3>1 DEF Fits
    <3>2. CASE ~Asked'
      BY <2>3, <3>2 DEF Fits
    <3> QED
      BY <3>1, <3>2
  <2> QED
    BY <2>4, <2>5, <2>6, <2>7, <2>8 DEF Free
<1>8. ASSUME NEW L \in Server, NEW C \in SUBSET Server, Committing(L, C)
      PROVE  Committing(L, C)'
  <2>1. Fits(0)'
    BY <1>6, <1>8 DEF Committing
  <2>2. Tally(L, 0, Cardinality(C))'
    BY <1>2, <1>8 DEF Committing
  <2>3. Polling(net, L, C, "COM", "COMRE")'
    BY <1>4, <1>8 DEF Committing
  <2> QED
    BY <1>1, <1>3, <1>8, <2>1, <2>2, <2>3 DEF Committing
<1>9. ASSUME NEW L \in Server, NEW C \in SUBSET Server, NEW x \in Nat \X Command, Preparing(L, C, x)
      PROVE  Preparing(L, C, x)'
  <2>1. L \in Node
    BY DEF Node
  <2>2. Fits(Cardinality(Waiting(L)))'
    <3> DEFINE W == Waiting(L)
               k == Cardinality(W)
    <3>1. W' \subseteq W
      BY <2>1 DEF Waiting
    <3>2. W \in SUBSET Server /\ W' \in SUBSET Server
      BY DEF Waiting
    <3>3. Fits(k)
      BY <1>9 DEF Preparing
    <3>4. IsFiniteSet(W) /\ k \in Nat
      BY Finite
    <3> HIDE DEF W
    <3>5. Cardinality(W') \in Nat /\ Cardinality(W') <= k
      BY <3>1, <3>4, FS_Subset, FS_CardinalityType
    <3>6. PICK j \in Nat : j = Cardinality(W')
      BY <3>5
    <3>7. Fits(j)'
      <4>1. j <= k
        BY <3>5, <3>6
      <4> HIDE DEF k
      <4> QED
        BY <1>6, <3>3, <3>4, <4>1
    <3> QED
      BY <3>6, <3>7 DEF W, k, Fits
  <2>3. Polling(net, L, C, "PRE", "PRERE")'
    BY <1>4, <1>9 DEF Preparing
  <2>4. Tally(L, Cardinality(C), 0)'
    BY <1>2, <1>9 DEF Preparing
  <2>5. \A f \in Server : \A m \in Mail(net', L, f) : m.type = "PRE" => <<m.index, m.cmd>> = x
    BY <1>9, <2>1 DEF Preparing
  <2>6. \A f \in Server : Mail(net', f, L) # {} \/ f \in C \cup {L} => x \in Ids(store'[f].log)
    <3> SUFFICES ASSUME NEW f \in Server, Mail(net', f, L) # {} \/ f \in C \cup {L}
                 PROVE  x \in Ids(store'[f].log)
      OBVIOUS
    <3>1. f \in Node
      BY DEF Node
    <3>2. Mail(net, f, L) # {} \/ f \in C \cup {L}
      BY <3>1
    <3>3. x \in Ids(store[f].log)
      BY <1>9, <3>2 DEF Preparing
    <3> QED
      BY <3>3
  <2>7. (\A y : Seen(y)' => y = x \/ Spread(y)') /\ \A y : Final(y)' => Spread(y)'
    BY <1>1, <1>9 DEF Preparing
  <2> QED
    BY <1>3, <1>9, <2>2, <2>3, <2>4, <2>5, <2>6, <2>7 DEF Preparing
<1>10. Free \/ \E L \in Server : \E C \in SUBSET Server :
         Committing(L, C) \/ \E x \in Nat \X Command : Preparing(L, C, x)
  BY DEF CommandInv, Course
<1>11. CASE Free
  BY <1>7, <1>11 DEF Course
<1>12. ASSUME NEW L \in Server, NEW C \in SUBSET Server,
              Committing(L, C) \/ \E x \in Nat \X Command : Preparing(L, C, x)
       PROVE  Course'
  <2>1. CASE Committing(L, C)
    BY <1>8, <2>1 DEF Course
  <2>2. ASSUME NEW x \in Nat \X Command, Preparing(L, C, x)
        PROVE  Course'
    <3>1. Preparing(L, C, x)'
      BY <1>9, <2>2
    <3> QED
      BY <3>1 DEF Course
  <2> QED
    BY <1>12, <2>1, <2>2
<1> QED
  BY <1>10, <1>11, <1>12

\* In every phase positions agree with logs, logs have room for what is
\* written, and what is committed somewhere is everywhere.
LEMMA CourseFacts ==
  ASSUME CommandInv
  PROVE  /\ \A s \in Server : store[s].posi = Len(store[s].log)
         /\ issued <= MaxCmd /\ issued \in Nat
         /\ \A x : Final(x) => Spread(x)
<1>1. \A x : Final(x) => Seen(x)
  BY DEF Final, Seen, Done, Ids
<1>2. CASE Free
  BY <1>1, <1>2 DEF Free, Fits, CommandInv, Inv, TypeOK
<1>3. ASSUME NEW L \in Server, NEW C \in SUBSET Server, Committing(L, C)
      PROVE  /\ \A s \in Server : store[s].posi = Len(store[s].log)
             /\ issued <= MaxCmd /\ issued \in Nat
             /\ \A x : Final(x) => Spread(x)
  BY <1>1, <1>3 DEF Committing, Fits, CommandInv, Inv, TypeOK
<1>4. ASSUME NEW L \in Server, NEW C \in SUBSET Server, NEW x \in Nat \X Command, Preparing(L, C, x)
      PROVE  /\ \A s \in Server : store[s].posi = Len(store[s].log)
             /\ issued <= MaxCmd /\ issued \in Nat
             /\ \A y : Final(y) => Spread(y)
  BY <1>4 DEF Preparing, Fits, CommandInv, Inv, TypeOK
<1> QED
  BY <1>2, <1>3, <1>4 DEF CommandInv, Course

\* No log changes, and no entry is sent that is in no log.
LEMMA Still ==
  ASSUME Inv, store' = store, NoNews(net')
  PROVE  /\ \A x : Seen(x)' => Seen(x)
         /\ \A x : Final(x)' => Final(x)
         /\ \A n \in Nat : Reached(n)' => \E k \in Nat : n <= k /\ Reached(k)
<1>1. Boot \in Server
  BY ClusterConstants
<1>2. store' = [store EXCEPT ![Boot] = store[Boot]]
  BY <1>1 DEF Inv, TypeOK
<1>3. /\ \A x : Seen(x)' => Seen(x) \/ x \in Ids(store[Boot].log)
      /\ \A x : Final(x)' => Final(x) \/ x \in Done(store[Boot].log)
      /\ \A n \in Nat : Reached(n)' => n = Len(store[Boot].log) \/ \E k \in Nat : n <= k /\ Reached(k)
  BY <1>1, <1>2, SeenStep
<1>4. \A x : Seen(x)' => Seen(x)
  BY <1>1, <1>3 DEF Seen
<1>5. \A x : Final(x)' => Final(x)
  BY <1>1, <1>3 DEF Final
<1>6. \A n \in Nat : Reached(n)' => \E k \in Nat : n <= k /\ Reached(k)
  <2> SUFFICES ASSUME NEW n \in Nat, Reached(n)'
               PROVE  \E k \in Nat : n <= k /\ Reached(k)
    OBVIOUS
  <2>1. CASE n = Len(store[Boot].log)
    <3>1. n <= n /\ Reached(n)
      BY <1>1, <2>1 DEF Reached
    <3> QED
      BY <3>1
  <2> QED
    BY <1>3, <2>1
<1> QED
  BY <1>4, <1>5, <1>6

\* A step that changes no log.
LEMMA NoiseStep ==
  ASSUME CommandInv, Inv', Harmless(net'), store' = store,
         \A b \in Server : status'[b] = "up" => status[b] = "up",
         \A s \in Server : acks'[s].pOk = acks[s].pOk /\ acks'[s].cOk = acks[s].cOk,
         pending' = pending, issued' = issued
  PROVE  CommandInv'
<1>1. Inv /\ Boot \in Server /\ Single(net')
  BY ClusterConstants DEF CommandInv, Harmless
<1>2. NoNews(net')
  BY DEF Harmless
<1>3. /\ \A x : Seen(x)' => Seen(x)
      /\ \A x : Final(x)' => Final(x)
      /\ \A n \in Nat : Reached(n)' => \E k \in Nat : n <= k /\ Reached(k)
  BY <1>1, <1>2, Still
<1>4. \A a \in Node, b \in Server : Mail(net', a, b) \subseteq Mail(net, a, b)
  BY DEF Harmless, NoNews
<1>5. \A s \in Server : store'[s].posi = Len(store'[s].log)
  BY CourseFacts
<1>6. \A b \in Server : Ids(store[b].log) \subseteq Ids(store'[b].log)
  OBVIOUS
<1>7. \A b \in Server : Running(b)' => Running(b)
  BY DEF Running
<1>8. Course'
  BY <1>3, <1>4, <1>5, <1>6, <1>7, CourseKept
<1> QED
  BY <1>1, <1>8 DEF CommandInv

-----------------------------------------------------------------------------
(***************************************************************************)
(* Elections, heartbeats and losses do not disturb a command.              *)
(***************************************************************************)

\* What a handler may rely on: it takes the message out of a network that is
\* otherwise the same.
LEMMA Took ==
  ASSUME CommandInv, NEW a \in Node, NEW s \in Server, NEW n \in 1 .. Len(net[a][s]),
         NEW t, Receives(a, s, n, t)
  PROVE  /\ Inv /\ Single(net) /\ net \in Nets
         /\ Harmless(Taken(a, s, n)) /\ Taken(a, s, n) \in Nets
         /\ status[s] = "up" /\ net[a][s][n] \in Message /\ net[a][s][n].type = t
         /\ s \in Node /\ store[s] \in Store /\ InRange(store[s]) /\ round[s] \in Nat
         /\ acks[s] \in Counts
<1>1. Inv /\ Single(net)
  BY DEF CommandInv
<1>2. status[s] = "up" /\ net[a][s][n] \in Message /\ net[a][s][n].type = t
  BY <1>1, ReceivedFacts
<1>3. /\ net \in Nets /\ s \in Node /\ store[s] \in Store /\ InRange(store[s]) /\ round[s] \in Nat
      /\ acks[s] \in Counts
  BY <1>1, <1>2, RunningFacts
<1> QED
  BY <1>1, <1>2, <1>3, HarmlessTaken

\* Timeouts and requests for votes.
LEMMA TimerNoise ==
  ASSUME CommandInv, Inv', NEW s \in Server, Timer(s) \/ VoteAll(s)
  PROVE  CommandInv'
<1>1. Inv /\ Single(net) /\ status[s] = "up"
  BY DEF CommandInv, Timer, TimeOut, NewRound, VoteAll
<1>2. net \in Nets /\ s \in Node /\ round[s] \in Nat
  BY <1>1, RunningFacts
<1>3. Harmless(net)
  BY <1>1, HarmlessSame
<1>4. Vote(round[s]) \in Message /\ Vote(round[s]).type = "VOTE"
  BY <1>2, VoteType DEF Vote
<1>5. Vote(round[s]).type \notin Tracked \cup {"RECOVER"}
  BY <1>4 DEF Tracked
<1>6. Harmless(WithAll(net, s, Vote(round[s])))
  BY <1>2, <1>3, <1>4, <1>5, HarmlessSentAll
<1>7. Harmless(net')
  BY <1>3, <1>6 DEF Timer, TimeOut, NewRound, VoteAll
<1>8. /\ store' = store /\ status' = status /\ acks' = acks /\ pending' = pending /\ issued' = issued
  BY DEF Timer, TimeOut, NewRound, VoteAll, data, env, users
<1> QED
  BY <1>7, <1>8, NoiseStep

\* Heartbeats, sent or thrown away.
LEMMA HeartNoise ==
  ASSUME CommandInv, Inv', NEW s \in Server,
         HeartAll(s) \/ \E b \in Server : \E n \in 1 .. Len(net[s][b]) : DropHeart(s, b, n)
  PROVE  CommandInv'
<1>1. Inv /\ Single(net) /\ status[s] = "up"
  BY DEF CommandInv, HeartAll, DropHeart
<1>2. net \in Nets /\ s \in Node /\ round[s] \in Nat /\ store[s] \in Store /\ InRange(store[s])
  BY <1>1, RunningFacts
<1>3. Heart(round[s], store[s]) \in Message /\ Heart(round[s], store[s]).type = "HEART"
  BY <1>2, HeartType DEF Heart
<1>4. Heart(round[s], store[s]).type \notin Tracked \cup {"RECOVER"}
  BY <1>3 DEF Tracked
<1>5. Harmless(WithAll(net, s, Heart(round[s], store[s])))
  BY <1>1, <1>2, <1>3, <1>4, HarmlessSame, HarmlessSentAll
<1>6. \A b \in Server : \A n \in 1 .. Len(net[s][b]) : Harmless(Taken(s, b, n))
  BY <1>1, <1>2, HarmlessTaken
<1>7. Harmless(net')
  BY <1>5, <1>6 DEF HeartAll, DropHeart
<1>8. /\ store' = store /\ status' = status /\ acks' = acks /\ pending' = pending /\ issued' = issued
  BY DEF HeartAll, DropHeart, data, env, users
<1> QED
  BY <1>7, <1>8, NoiseStep

\* [VOTE] and [VOTERE].
LEMMA VoteNoise ==
  ASSUME CommandInv, Inv', NEW a \in Server, NEW s \in Server, NEW n \in 1 .. Len(net[a][s]),
         HandleVote(a, s, n) \/ HandleVoteRe(a, s, n)
  PROVE  CommandInv'
<1> DEFINE m  == net[a][s][n]
           nt == Taken(a, s, n)
           vr == VoteRe(m.round)
           h  == Heart(round[s], store[s])
<1>1. a \in Node /\ \E t \in {"VOTE", "VOTERE"} : Receives(a, s, n, t)
  BY DEF Node, HandleVote, HandleVoteRe
<1>2. PICK t \in {"VOTE", "VOTERE"} : Receives(a, s, n, t)
  BY <1>1
<1>3. /\ Harmless(nt) /\ nt \in Nets /\ m \in Message /\ m.type = t
      /\ s \in Node /\ store[s] \in Store /\ InRange(store[s]) /\ round[s] \in Nat
  BY <1>1, <1>2, Took
<1>4. m.round \in Nat
  BY <1>3, MessageFields
<1>5. vr \in Message /\ vr.type = "VOTERE" /\ h \in Message /\ h.type = "HEART"
  <2>1. vr.type = "VOTERE" /\ h.type = "HEART"
    BY DEF VoteRe, Heart
  <2> QED
    BY <1>3, <1>4, <2>1, VoteType, HeartType
<1>6. net' \in {nt, With(nt, s, a, vr), WithAll(nt, s, h)}
  BY DEF HandleVote, HandleVoteRe
<1>7. /\ store' = store /\ status' = status /\ acks' = acks /\ pending' = pending /\ issued' = issued
  BY DEF HandleVote, HandleVoteRe, data, env, users
<1> HIDE DEF nt, vr, h
<1>8. vr.type \notin Tracked \cup {"RECOVER"} /\ h.type \notin Tracked \cup {"RECOVER"}
  BY <1>5 DEF Tracked
<1>9. Harmless(With(nt, s, a, vr))
  BY <1>3, <1>5, <1>8, HarmlessSent
<1>10. Harmless(WithAll(nt, s, h))
  BY <1>3, <1>5, <1>8, HarmlessSentAll
<1>11. Harmless(net')
  BY <1>3, <1>6, <1>9, <1>10
<1> QED
  BY <1>7, <1>11, NoiseStep

\* [HEART], and the answers to it and to a rollback.
LEMMA BeatNoise ==
  ASSUME CommandInv, Inv', NEW a \in Server, NEW s \in Server, NEW n \in 1 .. Len(net[a][s]),
         HandleHeart(a, s, n) \/ HandleHeartRe(a, s, n) \/ HandleRollRe(a, s, n)
  PROVE  CommandInv'
<1> DEFINE m  == net[a][s][n]
           nt == Taken(a, s, n)
           hr == HeartRe(store[s])
           r  == Recover(m.posi, LogAt(store[s], m.posi))
<1>1. a \in Node /\ \E t \in {"HEART", "HEARTRE", "ROLLRE"} : Receives(a, s, n, t)
  BY DEF Node, HandleHeart, HandleHeartRe, HandleRollRe
<1>2. PICK t \in {"HEART", "HEARTRE", "ROLLRE"} : Receives(a, s, n, t)
  BY <1>1
<1>3. /\ Harmless(nt) /\ nt \in Nets /\ m \in Message /\ m.type = t
      /\ s \in Node /\ store[s] \in Store /\ InRange(store[s])
  BY <1>1, <1>2, Took
<1>4. hr \in Message /\ hr.type = "HEARTRE"
  <2>1. hr.type = "HEARTRE" /\ 0 \in Nat
    BY DEF HeartRe
  <2> QED
    BY <1>3, <2>1, HeartType
<1>5. ASSUME m.type = "HEARTRE", HasLog(store[s], m.posi)
      PROVE  r \in Message /\ r.type = "RECOVER" /\ Fresh(r)
  <2>1. m.posi \in Nat
    BY <1>3, <1>5, MessageFields
  <2>2. LogAt(store[s], m.posi) \in Entry
    BY <1>3, <1>5, LogAtType
  <2>3. r.type = "RECOVER"
    BY DEF Recover
  <2> QED
    BY <1>5, <2>1, <2>2, <2>3, RecoverType DEF Fresh
<1>6. \/ net' \in {nt, With(nt, s, a, hr)}
      \/ m.type = "HEARTRE" /\ HasLog(store[s], m.posi) /\ net' = With(nt, s, a, r)
  BY DEF HandleHeart, HandleHeartRe, HandleRollRe, Receives
<1>7. /\ store' = store /\ acks' = acks /\ pending' = pending /\ issued' = issued
      /\ status' \in {status, [status EXCEPT ![s] = "wild"]}
  BY DEF HandleHeart, HandleHeartRe, HandleRollRe, data, env, users
<1>8. \A b \in Server : status'[b] = "up" => status[b] = "up"
  BY <1>7 DEF CommandInv, Inv, TypeOK
<1> HIDE DEF nt, hr, r, m
<1>9. hr.type \notin Tracked \cup {"RECOVER"}
  BY <1>4 DEF Tracked
<1>10. Harmless(With(nt, s, a, hr))
  BY <1>3, <1>4, <1>9, HarmlessSent
<1>11. ASSUME m.type = "HEARTRE", HasLog(store[s], m.posi)
       PROVE  Harmless(With(nt, s, a, r))
  <2>1. r.type \notin Tracked
    BY <1>5, <1>11 DEF Tracked
  <2> QED
    BY <1>3, <1>5, <1>11, <2>1, HarmlessSent
<1>12. Harmless(net')
  BY <1>3, <1>6, <1>10, <1>11
<1> QED
  BY <1>7, <1>8, <1>12, NoiseStep

\* Messages that are lost, and nodes that crash.
LEMMA FaultNoise ==
  ASSUME CommandInv, Inv',
         \/ \E a \in Node, b \in Server : \E n \in 1 .. Len(net[a][b]) : Lose(a, b, n)
         \/ \E s \in Server : Crash(s)
  PROVE  CommandInv'
<1>1. Inv /\ Single(net) /\ net \in Nets /\ status \in [Server -> {"up", "down", "terminated", "wild"}]
  BY DEF CommandInv, Inv, TypeOK, Nets
<1>2. \A a \in Node, b \in Server : \A n \in 1 .. Len(net[a][b]) : Harmless(Taken(a, b, n))
  BY <1>1, HarmlessTaken
<1>3. Harmless(net')
  BY <1>1, <1>2, HarmlessSame DEF Lose, Crash
<1>4. /\ store' = store /\ acks' = acks /\ pending' = pending /\ issued' = issued
      /\ \A b \in Server : status'[b] = "up" => status[b] = "up"
  BY <1>1 DEF Lose, Crash, data, users
<1> QED
  BY <1>3, <1>4, NoiseStep

-----------------------------------------------------------------------------
(***************************************************************************)
(* Recovery.  An entry may be written twice, but none that was not under   *)
(* way, and it is committed only if it is committed at the sender.         *)
(***************************************************************************)

\* A recovering node whose store st becomes t adds at most the entry it was
\* sent for a position.
Regained(st, t, posi, entry) ==
  /\ t.posi = Len(t.log)
  /\ Ids(st.log) \subseteq Ids(t.log) /\ Ids(t.log) \subseteq Ids(st.log) \cup {Id(entry)}
  /\ \A x \in Done(t.log) : x \in Done(st.log) \/ (x = Id(entry) /\ entry.state = "COMMIT")
  /\ Len(t.log) = Len(st.log) \/ Len(t.log) <= posi + 1

\* That is what it makes of its log.
LEMMA RestoredIds ==
  ASSUME NEW st \in Store, st.posi = Len(st.log), NEW posi \in Nat, NEW entry \in Sent
  PROVE  Regained(st, Restored(st, posi, entry).store, posi, entry)
<1> DEFINE t == Restored(st, posi, entry).store
           w == WriteLog(st, entry.index, entry.cmd)
           c == CommitLog(w).store
<1>1. /\ st.log \in Seq(Entry) /\ Len(st.log) \in Nat /\ InRange(st) /\ st.posi \in Nat
      /\ entry.index \in Nat /\ entry.cmd \in Command /\ entry.state \in {"PRE", "COMMIT"}
      /\ Id(entry) = <<entry.index, entry.cmd>>
  BY DEF Store, InRange, Sent, Id
<1>2. ASSUME posi < st.posi \/ ~CanWrite(st)
      PROVE  Regained(st, t, posi, entry)
  <2>1. t = st
    <3>1. ~(posi >= st.posi /\ CanWrite(st))
      BY <1>1, <1>2
    <3> QED
      BY <1>2, <3>1 DEF Restored
  <2> HIDE DEF t
  <2> QED
    BY <1>1, <2>1 DEF Regained
<1>3. ASSUME posi >= st.posi, CanWrite(st)
      PROVE  Regained(st, t, posi, entry)
  <2>1. /\ w \in Store /\ w.posi = Len(w.log) /\ Len(w.log) = Len(st.log) + 1
        /\ Ids(w.log) = Ids(st.log) \cup {Id(entry)}
        /\ Done(w.log) = Done(st.log)
        /\ Id(w.log[w.posi]) = Id(entry)
    BY <1>1, <1>3, WriteIds DEF Added
  <2>2. t = IF entry.state = "PRE" THEN w ELSE c
    <3>1. ~(posi < st.posi \/ ~CanWrite(st))
      BY <1>1, <1>3
    <3> QED
      BY <1>3, <3>1 DEF Restored
  <2> HIDE DEF w
  <2>3. InRange(w)
    BY <2>1 DEF InRange, Store
  <2>4. c \in Store /\ Alike(w, c)
    BY <2>1, <2>3, CommitLogType, CommitAlike DEF Result
  <2> HIDE DEF c
  <2>5. /\ Ids(c.log) = Ids(w.log) /\ Len(c.log) = Len(w.log) /\ c.posi = w.posi
        /\ w.posi \in 1 .. Len(w.log) => Done(c.log) \subseteq Done(w.log) \cup {Id(w.log[w.posi])}
        /\ w.posi \notin 1 .. Len(w.log) => Done(c.log) \subseteq Done(w.log)
    BY <2>1, <2>4, AlikeIds
  <2>6. Done(c.log) \subseteq Done(st.log) \cup {Id(entry)}
    BY <2>1, <2>5
  <2> HIDE DEF t
  <2>7. Len(w.log) <= posi + 1
    BY <1>1, <1>3, <2>1
  <2>8. CASE entry.state = "PRE"
    BY <2>1, <2>2, <2>7, <2>8 DEF Regained
  <2>9. CASE entry.state = "COMMIT"
    <3>1. t = c
      BY <2>2, <2>9
    <3> QED
      BY <2>1, <2>5, <2>6, <2>7, <2>9, <3>1 DEF Regained
  <2> QED
    BY <1>1, <2>8, <2>9
<1>4. Regained(st, t, posi, entry)
  BY <1>1, <1>2, <1>3
<1> QED
  BY <1>4

\* The handler of a [HEART] with an entry.
LEMMA RecoverNoise ==
  ASSUME CommandInv, Inv', NEW a \in Server, NEW s \in Server, NEW n \in 1 .. Len(net[a][s]),
         HandleRecover(a, s, n)
  PROVE  CommandInv'
<1> DEFINE m   == net[a][s][n]
           st  == store[s]
           nt  == Taken(a, s, n)
           res == IF dataState[s] = "INVALID" THEN Restored(st, m.posi, m.entry)
                  ELSE [ok |-> TRUE, store |-> st]
           new == res.store
           hr  == HeartRe(new)
<1>1. a \in Node /\ Receives(a, s, n, "RECOVER")
  BY DEF HandleRecover, Node
<1>2. /\ Inv /\ Harmless(nt) /\ nt \in Nets /\ m \in Message /\ m.type = "RECOVER"
      /\ s \in Node /\ st \in Store /\ InRange(st) /\ net \in Nets /\ Single(net)
  BY <1>1, Took
<1>3. m.posi \in Nat /\ m.entry \in Sent
  BY <1>2, MessageFields
<1>4. \A b \in Server : store[b].posi = Len(store[b].log)
  BY CourseFacts
<1>5. m \in Copies(net, a, s)
  BY <1>1, <1>2, MailTaken
<1>6. /\ Seen(Id(m.entry)) /\ (m.entry.state = "COMMIT" => Final(Id(m.entry))) /\ Reached(m.posi + 1)
  BY <1>1, <1>5 DEF Seen, Final, Reached
<1>7. new \in Store /\ InRange(new)
  BY <1>2, <1>3, RestoredType
<1>8. Regained(st, new, m.posi, m.entry)
  <2>1. CASE dataState[s] # "INVALID"
    <3>1. new = st
      BY <2>1
    <3> HIDE DEF new
    <3> QED
      BY <1>4, <3>1 DEF Regained
  <2>2. CASE dataState[s] = "INVALID"
    <3>1. new = Restored(st, m.posi, m.entry).store /\ st.posi = Len(st.log)
      BY <1>4, <2>2
    <3> HIDE DEF new, st, m
    <3> QED
      BY <1>2, <1>3, <3>1, RestoredIds
  <2> QED
    BY <2>1, <2>2
<1>9. /\ store' = [store EXCEPT ![s] = new] /\ net' \in {nt, With(nt, s, a, hr)}
      /\ status' = status /\ acks' = acks /\ pending' = pending /\ issued' = issued
  BY DEF HandleRecover, env, users
<1>10. hr \in Message /\ hr.type = "HEARTRE"
  <2>1. hr.type = "HEARTRE" /\ 0 \in Nat
    BY DEF HeartRe
  <2> HIDE DEF new
  <2> QED
    BY <1>7, <2>1, HeartType
<1> HIDE DEF nt, hr, new, st, m, res
<1>11. hr.type \notin Tracked \cup {"RECOVER"}
  BY <1>10 DEF Tracked
<1>12. Harmless(With(nt, s, a, hr))
  BY <1>2, <1>10, <1>11, HarmlessSent
<1>13. Harmless(net')
  BY <1>2, <1>9, <1>12
<1>14. /\ \A x : Seen(x)' => Seen(x) \/ x \in Ids(new.log)
       /\ \A x : Final(x)' => Final(x) \/ x \in Done(new.log)
       /\ \A k \in Nat : Reached(k)' => k = Len(new.log) \/ \E j \in Nat : k <= j /\ Reached(j)
  BY <1>2, <1>9, <1>13, SeenStep DEF Harmless
<1>15. \A x : Seen(x)' => Seen(x)
  BY <1>6, <1>8, <1>14 DEF Regained, Seen, st
<1>16. \A x : Final(x)' => Final(x)
  BY <1>6, <1>8, <1>14 DEF Regained, Final, st
<1>17. \A k \in Nat : Reached(k)' => \E j \in Nat : k <= j /\ Reached(j)
  <2> SUFFICES ASSUME NEW k \in Nat, Reached(k)'
               PROVE  \E j \in Nat : k <= j /\ Reached(j)
    OBVIOUS
  <2>1. CASE k = Len(new.log) /\ Len(new.log) = Len(st.log)
    <3>1. k <= k /\ Reached(k)
      BY <2>1 DEF Reached, st
    <3> QED
      BY <3>1
  <2>2. CASE k = Len(new.log) /\ Len(new.log) <= m.posi + 1
    <3>1. m.posi + 1 \in Nat
      BY <1>3
    <3> QED
      BY <1>6, <2>2, <3>1
  <2> QED
    BY <1>8, <1>14, <2>1, <2>2 DEF Regained
<1>18. \A b \in Server : store'[b] = IF b = s THEN new ELSE store[b]
  BY <1>2, <1>9 DEF Inv, TypeOK
<1>19. \A b \in Server : store'[b].posi = Len(store'[b].log)
  BY <1>4, <1>8, <1>18 DEF Regained
<1>20. \A b \in Server : Ids(store[b].log) \subseteq Ids(store'[b].log)
  BY <1>8, <1>18 DEF Regained, st
<1>21. \A x \in Node, b \in Server : Mail(net', x, b) \subseteq Mail(net, x, b)
  BY <1>13 DEF Harmless, NoNews
<1>22. \A b \in Server : Running(b)' => Running(b)
  BY <1>9 DEF Running
<1>23. Course'
  BY <1>9, <1>15, <1>16, <1>17, <1>19, <1>20, <1>21, <1>22, CourseKept
<1> QED
  BY <1>13, <1>23 DEF CommandInv, Harmless

-----------------------------------------------------------------------------
(***************************************************************************)
(* One phase: the LEADER asks, the followers answer, it counts.            *)
(***************************************************************************)
Phase(go, re) == (go = "PRE" /\ re = "PRERE") \/ (go = "COM" /\ re = "COMRE")

\* The types of a phase are tracked, and are not each other.
LEMMA PhaseTypes ==
  ASSUME NEW go, NEW re, Phase(go, re)
  PROVE  /\ go # re /\ go \in Tracked /\ re \in Tracked /\ re \in {"PRERE", "COMRE", "ROLLRE"}
         /\ go # "RECOVER" /\ re # "RECOVER"
BY DEF Phase, Tracked

\* Where the message of a command is found tells its phase.
LEMMA MailPhase ==
  ASSUME CommandInv, NEW a \in Node, NEW b \in Server, NEW m \in Mail(net, a, b)
  PROVE  /\ m.type = "CLIENT" => Free
         /\ m.type \in {"PRE", "PRERE"} =>
              \E L \in Server : \E C \in SUBSET Server : \E x \in Nat \X Command : Preparing(L, C, x)
         /\ m.type \in {"COM", "COMRE"} =>
              \E L \in Server : \E C \in SUBSET Server : Committing(L, C)
<1>1. Free => m.type = "CLIENT"
  BY DEF Free
<1>2. \A L, C, x : Preparing(L, C, x) => m.type \in {"PRE", "PRERE"}
  BY DEF Preparing, Polling
<1>3. \A L, C : Committing(L, C) => m.type \in {"COM", "COMRE"}
  BY DEF Committing, Polling
<1>4. Free \/ \E L \in Server : \E C \in SUBSET Server :
         Committing(L, C) \/ \E x \in Nat \X Command : Preparing(L, C, x)
  BY DEF CommandInv, Course
<1> QED
  BY <1>1, <1>2, <1>3, <1>4

\* To the network nt a message m has been added from L to every other node;
\* it is the only message about the command.
Asking(nt, w, L, m, re) ==
  /\ Single(w)
  /\ Polling(w, L, {}, m.type, re)
  /\ \A x \in Node, y \in Server :
       /\ Mail(w, x, y) \subseteq {m}
       /\ Mail(w, x, y) # {} => x = L /\ y # L
       /\ Copies(w, x, y) = Copies(nt, x, y)

\* A phase starts when no message about the command is on its way.
LEMMA Started ==
  ASSUME NEW nt \in Nets, Single(nt), \A x \in Node, y \in Server : Mail(nt, x, y) = {},
         NEW L \in Server, NEW m \in Message, NEW re, Phase(m.type, re)
  PROVE  Asking(nt, WithAll(nt, L, m), L, m, re)
<1> DEFINE w == WithAll(nt, L, m)
<1>1. L \in Node /\ m.type # "RECOVER" /\ m.type \in Tracked
  BY PhaseTypes DEF Node
<1>2. \A b \in Server \ {L} : \A o \in Mail(nt, L, b) : o.type # m.type
  BY <1>1
<1>3. /\ Single(w)
      /\ \A x \in Node, y \in Server :
           /\ Mail(w, x, y) = Mail(nt, x, y)
                  \cup (IF x = L /\ y # L /\ m.type \in Tracked THEN {m} ELSE {})
           /\ Copies(w, x, y) = Copies(nt, x, y)
  BY <1>1, <1>2, MailSentAll
<1> HIDE DEF w
<1>4. \A x \in Node, y \in Server : Mail(w, x, y) \subseteq {m} /\ (Mail(w, x, y) # {} => x = L /\ y # L)
  BY <1>3
<1>5. Polling(w, L, {}, m.type, re)
  BY <1>4 DEF Polling
<1> QED
  BY <1>3, <1>4, <1>5 DEF w, Asking

\* A follower answers.
LEMMA Answers ==
  ASSUME net \in Nets, Single(net), NEW L, NEW C, NEW go, NEW re, Phase(go, re), Polling(net, L, C, go, re),
         NEW a \in Node, NEW s \in Server, NEW n \in 1 .. Len(net[a][s]), net[a][s][n].type = go,
         NEW m \in Message, m.type = re, NEW nt, nt = With(Taken(a, s, n), s, a, m)
  PROVE  /\ a = L /\ s \notin C \cup {L} /\ net[a][s][n] \in Mail(net, L, s)
         /\ Single(nt)
         /\ \A x \in Node, y \in Server :
              /\ Mail(nt, x, y) \subseteq Mail(net, x, y) \cup (IF x = s /\ y = L THEN {m} ELSE {})
              /\ Copies(nt, x, y) \subseteq Copies(net, x, y)
         /\ \A o \in Mail(nt, L, s) : o.type # go
         /\ Polling(nt, L, C, go, re)
<1> DEFINE d == net[a][s][n]
           t == Taken(a, s, n)
<1>1. go # re /\ go \in Tracked /\ re \in Tracked /\ re # "RECOVER" /\ s \in Node
  BY PhaseTypes DEF Node
<1>2. /\ Single(t) /\ t \in Nets
      /\ \A x \in Node, y \in Server :
           Mail(t, x, y) \subseteq Mail(net, x, y) /\ Copies(t, x, y) \subseteq Copies(net, x, y)
      /\ d \in Mail(net, a, s) /\ \A o \in Mail(t, a, s) : o.type # go
  BY <1>1, MailTaken, TakenType
<1>3. a = L /\ s \notin C \cup {L} /\ L \in Server
  BY <1>1, <1>2 DEF Polling
<1>4. \A o \in Mail(net, s, L) : o.type # re
  BY <1>1, <1>2, <1>3 DEF Polling
<1> HIDE DEF t
<1>5. a \in Server /\ \A o \in Mail(net, s, a) : o.type # m.type
  BY <1>3, <1>4
<1>6. \A o \in Mail(t, s, a) : o.type # m.type
  <2>1. Mail(t, s, a) \subseteq Mail(net, s, a)
    BY <1>1, <1>2, <1>5
  <2> QED
    BY <1>5, <2>1
<1>7. /\ Single(nt)
      /\ \A x \in Node, y \in Server :
           /\ Mail(nt, x, y) = Mail(t, x, y)
                  \cup (IF x = s /\ y = a /\ m.type \in Tracked THEN {m} ELSE {})
           /\ Copies(nt, x, y) = Copies(t, x, y)
                  \cup (IF x = s /\ y = a /\ m.type = "RECOVER" THEN {m} ELSE {})
  BY <1>1, <1>2, <1>5, <1>6, MailSent DEF t
<1>8. \A x \in Node, y \in Server :
        /\ Mail(nt, x, y) \subseteq Mail(net, x, y) \cup (IF x = s /\ y = L THEN {m} ELSE {})
        /\ Copies(nt, x, y) \subseteq Copies(net, x, y)
  BY <1>1, <1>2, <1>3, <1>7
<1>9. Mail(nt, L, s) \subseteq Mail(t, L, s)
  BY <1>3, <1>7 DEF Node
<1>10. \A o \in Mail(nt, L, s) : o.type # go
  BY <1>2, <1>3, <1>9
<1>11. Polling(nt, L, C, go, re)
  <2> SUFFICES ASSUME NEW x \in Node, NEW y \in Server, NEW o \in Mail(nt, x, y)
               PROVE  \/ o.type = go /\ x = L /\ y \notin C \cup {L}
                      \/ /\ o.type = re /\ y = L /\ x \notin C \cup {L} /\ x \in Server
                         /\ \A e \in Mail(nt, L, x) : e.type # go
    BY DEF Polling
  <2>1. CASE o = m /\ x = s /\ y = L
    BY <1>3, <1>10, <2>1
  <2>2. CASE o \in Mail(net, x, y)
    <3>1. CASE o.type = go /\ x = L /\ y \notin C \cup {L}
      BY <3>1
    <3>2. CASE /\ o.type = re /\ y = L /\ x \notin C \cup {L} /\ x \in Server
               /\ \A e \in Mail(net, L, x) : e.type # go
      <4>1. \A e \in Mail(nt, L, x) : e \in Mail(net, L, x) \/ e = m
        BY <1>3, <1>8, <3>2 DEF Node
      <4> QED
        BY <1>1, <3>2, <4>1
    <3> QED
      BY <2>2, <3>1, <3>2 DEF Polling
  <2>3. o \in Mail(net, x, y) \/ (o = m /\ x = s /\ y = L)
    BY <1>8
  <2> QED
    BY <2>1, <2>2, <2>3
<1> QED
  BY <1>2, <1>3, <1>7, <1>8, <1>10, <1>11

\* The LEADER takes an answer.
LEMMA TakesAnswer ==
  ASSUME net \in Nets, Single(net), NEW L, NEW C, NEW go, NEW re, Phase(go, re), Polling(net, L, C, go, re),
         NEW a \in Node, NEW s \in Server, NEW n \in 1 .. Len(net[a][s]), net[a][s][n].type = re
  PROVE  /\ s = L /\ a \in Server \ (C \cup {L}) /\ net[a][s][n] \in Mail(net, a, L)
         /\ Polling(Taken(a, s, n), L, C \cup {a}, go, re)
<1> DEFINE d == net[a][s][n]
           t == Taken(a, s, n)
<1>1. go # re /\ go \in Tracked /\ re \in Tracked
  BY PhaseTypes
<1>2. /\ \A x \in Node, y \in Server : Mail(t, x, y) \subseteq Mail(net, x, y)
      /\ d \in Mail(net, a, s) /\ \A o \in Mail(t, a, s) : o.type # re
  BY <1>1, MailTaken
<1>3. /\ s = L /\ a \in Server \ (C \cup {L}) /\ \A o \in Mail(net, L, a) : o.type # go
      /\ L \in Server /\ C \in SUBSET (Server \ {L})
  BY <1>1, <1>2 DEF Polling
<1> HIDE DEF t
<1>4. Polling(t, L, C \cup {a}, go, re)
  <2>1. C \cup {a} \in SUBSET (Server \ {L})
    BY <1>3
  <2> SUFFICES ASSUME NEW x \in Node, NEW y \in Server, NEW o \in Mail(t, x, y)
               PROVE  \/ o.type = go /\ x = L /\ y \notin C \cup {a} \cup {L}
                      \/ /\ o.type = re /\ y = L /\ x \notin C \cup {a} \cup {L} /\ x \in Server
                         /\ \A e \in Mail(t, L, x) : e.type # go
    BY <1>3, <2>1 DEF Polling
  <2>2. o \in Mail(net, x, y)
    BY <1>2
  <2>3. CASE o.type = go /\ x = L /\ y \notin C \cup {L}
    BY <1>3, <2>2, <2>3
  <2>4. CASE /\ o.type = re /\ y = L /\ x \notin C \cup {L} /\ x \in Server
             /\ \A e \in Mail(net, L, x) : e.type # go
    <3>1. L \in Node /\ x # a
      BY <1>2, <1>3, <2>4 DEF Node
    <3> QED
      BY <1>2, <2>4, <3>1
  <2> QED
    BY <2>2, <2>3, <2>4 DEF Polling
<1> QED
  BY <1>2, <1>3, <1>4 DEF t

\* When a quorum has answered, all have: none of the messages is left.
LEMMA AllAnswered ==
  ASSUME Nodes <= 4, NEW nt, NEW L, NEW C, NEW go, NEW re, Polling(nt, L, C, go, re),
         Cardinality(C) >= Quorum
  PROVE  C = Server \ {L} /\ \A x \in Node, y \in Server : Mail(nt, x, y) = {}
<1>1. L \in Server /\ C \in SUBSET (Server \ {L})
  BY DEF Polling
<1>2. IsFiniteSet(Server) /\ Nodes \in Nat /\ Nodes > 0
  BY <1>1, Finite
<1>3. IsFiniteSet(Server \ {L}) /\ Cardinality(Server \ {L}) = Nodes - 1
  BY <1>1, <1>2, FS_RemoveElement DEF Nodes
<1>4. Cardinality(C) \in Nat /\ Cardinality(C) <= Nodes - 1
  BY <1>1, <1>3, FS_Subset, FS_CardinalityType
<1>5. Quorum >= Nodes - 1
  <2>1. Nodes \in {1, 2, 3, 4}
    BY <1>2
  <2> QED
    BY <2>1 DEF Quorum, Nodes
<1>6. Cardinality(C) = Cardinality(Server \ {L})
  <2>1. Quorum \in Int
    BY <1>2 DEF Quorum, Nodes
  <2> QED
    BY <1>2, <1>3, <1>4, <1>5, <2>1
<1>7. C = Server \ {L}
  BY <1>1, <1>3, <1>6, FS_Subset
<1>8. ASSUME NEW x \in Node, NEW y \in Server, NEW m \in Mail(nt, x, y)
      PROVE  FALSE
  BY <1>7, <1>8 DEF Polling
<1> QED
  BY <1>7, <1>8

-----------------------------------------------------------------------------
(***************************************************************************)
(* The second phase.                                                       *)
(***************************************************************************)

\* A step of one node whose log keeps its entries.
LEMMA AlikeStep ==
  ASSUME CommandInv, NEW s \in Server, NEW st \in Store, Alike(store[s], st),
         store' = [store EXCEPT ![s] = st], NoNews(net'), status' = status
  PROVE  /\ \A x : Seen(x)' => Seen(x)
         /\ \A x : Spread(x) => Spread(x)'
         /\ \A n \in Nat : Reached(n)' => \E k \in Nat : n <= k /\ Reached(k)
         /\ \A b \in Server : store'[b].posi = Len(store'[b].log)
<1>1. Inv /\ store[s] \in Store /\ \A b \in Server : store[b].posi = Len(store[b].log)
  BY CourseFacts DEF CommandInv, Inv, TypeOK
<1>2. Ids(st.log) = Ids(store[s].log) /\ Len(st.log) = Len(store[s].log) /\ st.posi = store[s].posi
  BY <1>1, AlikeIds
<1>3. /\ \A x : Seen(x)' => Seen(x) \/ x \in Ids(st.log)
      /\ \A n \in Nat : Reached(n)' => n = Len(st.log) \/ \E k \in Nat : n <= k /\ Reached(k)
  BY <1>1, SeenStep
<1>4. \A b \in Server : store'[b] = IF b = s THEN st ELSE store[b]
  BY <1>1 DEF Inv, TypeOK
<1>5. \A x : Seen(x)' => Seen(x)
  BY <1>2, <1>3 DEF Seen
<1>6. \A n \in Nat : Reached(n)' => \E k \in Nat : n <= k /\ Reached(k)
  <2>1. \A n \in Nat : n = Len(st.log) => n <= n /\ Reached(n)
    BY <1>2 DEF Reached
  <2> QED
    BY <1>3, <2>1
<1>7. \A x : Spread(x) => Spread(x)'
  <2>1. \A b \in Server : Ids(store[b].log) \subseteq Ids(store'[b].log)
    BY <1>2, <1>4
  <2>2. \A b \in Server : Running(b)' => Running(b)
    BY DEF Running
  <2> QED
    BY <2>1, <2>2, SpreadKept
<1>8. \A b \in Server : store'[b].posi = Len(store'[b].log)
  BY <1>1, <1>2, <1>4
<1> QED
  BY <1>5, <1>6, <1>7, <1>8

\* The slack of the logs, when none grows.
LEMMA FitsStill ==
  ASSUME NEW k \in Nat, NEW j \in Nat, j <= k, Fits(k), Inv, issued' = issued,
         \A n \in Nat : Reached(n)' => \E m \in Nat : n <= m /\ Reached(m),
         \A s \in Server : store'[s].posi = Len(store'[s].log)
  PROVE  Fits(j)'
<1>1. issued \in Nat /\ Nodes \in Nat
  BY Finite, ClusterConstants DEF Inv, TypeOK
<1>2. \A n \in Nat : Reached(n)' => \E m \in Nat : n + j <= m + k /\ Reached(m)
  <2> SUFFICES ASSUME NEW n \in Nat, Reached(n)'
               PROVE  \E m \in Nat : n + j <= m + k /\ Reached(m)
    OBVIOUS
  <2> PICK m \in Nat : n <= m /\ Reached(m)
    OBVIOUS
  <2>1. n + j <= m + k
    OBVIOUS
  <2> QED
    BY <2>1
<1> QED
  BY <1>1, <1>2, FitsLess

\* A node takes [COM].
LEMMA ComStep ==
  ASSUME CommandInv, Inv', NEW a \in Server, NEW s \in Server, NEW n \in 1 .. Len(net[a][s]),
         HandleCom(a, s, n)
  PROVE  CommandInv'
<1> DEFINE m   == net[a][s][n]
           res == CommitLog(store[s])
           st  == res.store
           ack == Ack("COMRE", res.ok)
<1>1. a \in Node /\ Receives(a, s, n, "COM")
  BY DEF HandleCom, Node
<1>2. /\ Inv /\ Single(net) /\ net \in Nets /\ m \in Message /\ m.type = "COM"
      /\ s \in Node /\ store[s] \in Store /\ InRange(store[s])
  BY <1>1, Took
<1>3. m \in Mail(net, a, s)
  BY <1>1, <1>2, MailTaken DEF Tracked
<1>4. PICK L \in Server, C \in SUBSET Server : Committing(L, C)
  BY <1>1, <1>2, <1>3, MailPhase
<1>5. /\ store' = [store EXCEPT ![s] = st] /\ net' = With(Taken(a, s, n), s, a, ack)
      /\ status' = status /\ acks' = acks /\ pending' = pending /\ issued' = issued
  BY DEF HandleCom, env, users
<1>6. st \in Store /\ Alike(store[s], st) /\ ack \in Message /\ ack.type = "COMRE"
  <2>1. st \in Store /\ res.ok \in BOOLEAN
    BY <1>2, CommitLogType DEF Result
  <2>2. Alike(store[s], st)
    BY <1>2, CommitAlike
  <2>3. ack \in Message /\ ack.type = "COMRE"
    BY <2>1 DEF Ack, Message
  <2> QED
    BY <2>1, <2>2, <2>3
<1>7. Phase("COM", "COMRE") /\ Polling(net, L, C, "COM", "COMRE")
  BY <1>4 DEF Phase, Committing
<1> HIDE DEF m, ack, st
<1>8. /\ Single(net') /\ Polling(net', L, C, "COM", "COMRE")
      /\ \A x \in Node, y \in Server : Copies(net', x, y) \subseteq Copies(net, x, y)
  <2>1. net[a][s][n].type = "COM"
    BY <1>2 DEF m
  <2> DEFINE nt == net'
  <2> HIDE DEF nt
  <2>2. nt = With(Taken(a, s, n), s, a, ack)
    BY <1>5 DEF nt
  <2>3. /\ Single(nt) /\ Polling(nt, L, C, "COM", "COMRE")
        /\ \A x \in Node, y \in Server : Copies(nt, x, y) \subseteq Copies(net, x, y)
    BY <1>1, <1>2, <1>6, <1>7, <2>1, <2>2, Answers
  <2> QED
    BY <2>3 DEF nt
<1>9. NoNews(net')
  BY <1>8 DEF NoNews
<1>10. /\ \A x : Seen(x)' => Seen(x)
       /\ \A x : Spread(x) => Spread(x)'
       /\ \A k \in Nat : Reached(k)' => \E j \in Nat : k <= j /\ Reached(j)
       /\ \A b \in Server : store'[b].posi = Len(store'[b].log)
  BY <1>5, <1>6, <1>9, AlikeStep
<1>11. Fits(0)'
  <2>1. 0 \in Nat /\ 0 <= 0
    OBVIOUS
  <2> QED
    BY <1>2, <1>4, <1>5, <1>10, <2>1, FitsStill DEF Committing
<1>12. Tally(L, 0, Cardinality(C))'
  BY <1>4, <1>5 DEF Committing, Tally
<1>13. Committing(L, C)'
  BY <1>4, <1>5, <1>8, <1>10, <1>11, <1>12 DEF Committing, Busy
<1> QED
  BY <1>8, <1>13 DEF CommandInv, Course

\* An answer counted: the tally of those in C and one more.
LEMMA CountMore ==
  ASSUME NEW C \in SUBSET Server, NEW a \in Server \ C
  PROVE  Cardinality(C \cup {a}) = Cardinality(C) + 1 /\ Cardinality(C) \in Nat
<1>1. IsFiniteSet(C)
  BY ClusterConstants, FS_Subset
<1> QED
  BY <1>1, FS_AddElement, FS_CardinalityType

\* An order to roll back would be on its way to another node.
LEMMA RollSent ==
  ASSUME NEW nt \in Nets, NEW s \in Server, NEW a \in Server \ {s}, NEW w, w = WithAll(nt, s, Order("ROLL"))
  PROVE  \E k \in 1 .. Len(w[s][a]) : w[s][a][k].type = "ROLL"
<1> DEFINE q == nt[s][a]
           m == Order("ROLL")
<1>1. s \in Node /\ m \in Message /\ m.type = "ROLL" /\ q \in Seq(Message)
  BY DEF Node, Order, Message, Nets
<1> HIDE DEF m, q
<1>2. w[s][a] = Append(q, m)
  <2>1. \A x \in Node, y \in Server :
          WithAll(nt, s, m)[x][y] = IF x = s /\ y # s THEN Append(nt[s][y], m) ELSE nt[x][y]
    BY <1>1, WithAllNet
  <2>2. w = WithAll(nt, s, m) /\ s \in Node /\ a \in Server /\ a # s
    BY <1>1 DEF m
  <2> QED
    BY <2>1, <2>2 DEF q
<1>3. Len(q) + 1 \in 1 .. Len(Append(q, m)) /\ Append(q, m)[Len(q) + 1] = m
  BY <1>1
<1> QED
  BY <1>1, <1>2, <1>3

\* A node takes [COMRE].
LEMMA ComReStep ==
  ASSUME Nodes <= 4, NoRollback', CommandInv, Inv',
         NEW a \in Server, NEW s \in Server, NEW n \in 1 .. Len(net[a][s]), HandleComRe(a, s, n)
  PROVE  CommandInv'
<1> DEFINE m  == net[a][s][n]
           k  == acks[s]
           nt == Taken(a, s, n)
           st == CommitRetried(store[s]).store
<1>1. a \in Node /\ Receives(a, s, n, "COMRE")
  BY DEF HandleComRe, Node
<1>2. /\ Inv /\ Single(net) /\ net \in Nets /\ m \in Message /\ m.type = "COMRE"
      /\ s \in Node /\ store[s] \in Store /\ InRange(store[s]) /\ k \in Counts
      /\ Harmless(nt) /\ nt \in Nets
  BY <1>1, Took
<1>3. m \in Mail(net, a, s)
  BY <1>1, <1>2, MailTaken DEF Tracked
<1>4. PICK L \in Server, C \in SUBSET Server : Committing(L, C)
  BY <1>1, <1>2, <1>3, MailPhase
<1>5. Phase("COM", "COMRE") /\ Polling(net, L, C, "COM", "COMRE") /\ Tally(L, 0, Cardinality(C))
  BY <1>4 DEF Phase, Committing
<1>6. s = L /\ a \in Server \ (C \cup {L}) /\ Polling(nt, L, C \cup {a}, "COM", "COMRE")
  <2>1. net[a][s][n].type = "COMRE"
    BY <1>2
  <2> HIDE DEF m, nt, k, st
  <2>2. PICK go, re : go = "COM" /\ re = "COMRE"
    OBVIOUS
  <2>3. Phase(go, re) /\ Polling(net, L, C, go, re) /\ net[a][s][n].type = re
    BY <1>5, <2>1, <2>2
  <2>4. s = L /\ a \in Server \ (C \cup {L}) /\ Polling(Taken(a, s, n), L, C \cup {a}, go, re)
    BY <1>1, <1>2, <2>3, TakesAnswer
  <2> QED
    BY <2>2, <2>4 DEF nt
<1>7. Cardinality(C \cup {a}) = Cardinality(C) + 1 /\ Cardinality(C) \in Nat
  BY <1>6, CountMore
<1>8. k.pOk = 0 /\ k.cOk = Cardinality(C) /\ acks \in [Server -> Counts]
      /\ \A b \in Server \ {L} : acks[b].pOk = 0 /\ acks[b].cOk = 0
  BY <1>2, <1>4, <1>5, <1>6, <1>7 DEF Tally, Inv, TypeOK
<1>9. \/ /\ net' = nt /\ UNCHANGED <<dataState, store, status, users>>
         /\ acks' = acks \/ \E e : acks' = [acks EXCEPT ![s] = CommitAcks(k, k.cOk, e)]
      \/ /\ net' = nt /\ UNCHANGED <<dataState, store, status, users>>
         /\ \E e : acks' = [acks EXCEPT ![s] = CommitAcks(k, k.cOk + 1, e)]
      \/ /\ net' = nt /\ store' = [store EXCEPT ![s] = st] /\ status' = status
         /\ k.cOk + 1 >= Quorum /\ acks' = [acks EXCEPT ![s] = CommitAcks(k, 0, 0)]
         /\ issued' = issued
      \/ net' = WithAll(nt, s, Order("ROLL"))
  BY DEF HandleComRe, Answer, users
<1> HIDE DEF m, nt, st, k
<1>10. CASE /\ net' = nt /\ UNCHANGED <<dataState, store, status, users>>
            /\ acks' = acks \/ \E e : acks' = [acks EXCEPT ![s] = CommitAcks(k, k.cOk, e)]
  <2>1. \A b \in Server : acks'[b].pOk = acks[b].pOk /\ acks'[b].cOk = acks[b].cOk
    BY <1>8, <1>10 DEF CommitAcks, k
  <2> QED
    BY <1>2, <1>10, <2>1, NoiseStep DEF users
<1>11. CASE /\ net' = nt /\ UNCHANGED <<dataState, store, status, users>>
            /\ \E e : acks' = [acks EXCEPT ![s] = CommitAcks(k, k.cOk + 1, e)]
  <2>1. \A b \in Server : /\ acks'[b].pOk = 0
                          /\ acks'[b].cOk = IF b = L THEN Cardinality(C) + 1 ELSE 0
    BY <1>6, <1>8, <1>11 DEF CommitAcks, k
  <2> DEFINE D == C \cup {a}
  <2>2. D \in SUBSET Server /\ Tally(L, 0, Cardinality(D))'
    BY <1>6, <1>7, <2>1 DEF Tally
  <2>3. Polling(net, L, D, "COM", "COMRE")'
    BY <1>6, <1>11
  <2> HIDE DEF D
  <2>4. store' = [store EXCEPT ![s] = store[s]] /\ NoNews(net') /\ Alike(store[s], store[s]) /\ status' = status
    BY <1>2, <1>11 DEF Inv, TypeOK, Alike, Harmless
  <2>5. /\ \A x : Seen(x)' => Seen(x)
        /\ \A x : Spread(x) => Spread(x)'
        /\ \A j \in Nat : Reached(j)' => \E i \in Nat : j <= i /\ Reached(i)
        /\ \A b \in Server : store'[b].posi = Len(store'[b].log)
    BY <1>2, <2>4, AlikeStep
  <2>6. Fits(0)'
    <3>1. 0 \in Nat /\ 0 <= 0 /\ Fits(0) /\ issued' = issued
      BY <1>4, <1>11 DEF Committing, users
    <3> QED
      BY <1>2, <2>5, <3>1, FitsStill
  <2>7. Busy'
    BY <1>4, <1>11 DEF Committing, Busy, users
  <2>8. \A x : Seen(x)' => Spread(x)'
    BY <1>4, <2>5 DEF Committing
  <2>9. Committing(L, D)'
    BY <2>2, <2>3, <2>6, <2>7, <2>8 DEF Committing
  <2>10. Single(net')
    BY <1>2, <1>11 DEF Harmless
  <2> QED
    BY <2>2, <2>9, <2>10 DEF CommandInv, Course
<1>12. CASE /\ net' = nt /\ store' = [store EXCEPT ![s] = st] /\ status' = status
            /\ k.cOk + 1 >= Quorum /\ acks' = [acks EXCEPT ![s] = CommitAcks(k, 0, 0)]
            /\ issued' = issued
  <2>1. \A x \in Node, y \in Server : Mail(net', x, y) = {}
    <3> DEFINE D == C \cup {a}
    <3>1. Cardinality(D) >= Quorum
      BY <1>7, <1>8, <1>12
    <3> HIDE DEF D
    <3>2. Polling(nt, L, D, "COM", "COMRE")
      BY <1>6 DEF D
    <3> QED
      BY <1>12, <3>1, <3>2, AllAnswered
  <2>2. st \in Store /\ Alike(store[s], st)
    BY <1>2, CommitRetriedType, CommitRetriedAlike DEF st, Result
  <2>3. NoNews(net') /\ Single(net')
    BY <1>2, <1>12 DEF Harmless
  <2>4. /\ \A x : Seen(x)' => Seen(x)
        /\ \A x : Spread(x) => Spread(x)'
        /\ \A j \in Nat : Reached(j)' => \E i \in Nat : j <= i /\ Reached(i)
        /\ \A b \in Server : store'[b].posi = Len(store'[b].log)
    BY <1>12, <2>2, <2>3, AlikeStep
  <2>5. Fits(0)'
    <3>1. 0 \in Nat /\ 0 <= 0 /\ Fits(0)
      BY <1>4 DEF Committing
    <3> QED
      BY <1>2, <1>12, <2>4, <3>1, FitsStill
  <2>6. ~Asked'
    BY <2>1 DEF Asked
  <2>7. Fits(IF Asked THEN Nodes ELSE 0)'
    BY <2>5, <2>6 DEF Fits
  <2>8. \A b \in Server : acks'[b].pOk = 0 /\ acks'[b].cOk = 0
    BY <1>6, <1>8, <1>12 DEF CommitAcks, k
  <2>9. \A b \in Server : Tally(b, 0, 0)'
    BY <2>8 DEF Tally
  <2>10. \A x : Seen(x)' => Spread(x)'
    BY <1>4, <2>4 DEF Committing
  <2>11. Free'
    BY <2>1, <2>6, <2>7, <2>9, <2>10 DEF Free
  <2> QED
    BY <2>3, <2>11 DEF CommandInv, Course
<1>13. CASE net' = WithAll(nt, s, Order("ROLL"))
  <2>1. a \in Server \ {s} /\ s \in Server
    BY <1>6
  <2>2. \E j \in 1 .. Len(net'[s][a]) : net'[s][a][j].type = "ROLL"
    BY <1>2, <1>13, <2>1, RollSent
  <2> QED
    BY <2>1, <2>2 DEF NoRollback
<1> QED
  BY <1>9, <1>10, <1>11, <1>12, <1>13

-----------------------------------------------------------------------------
(***************************************************************************)
(* The first phase.                                                        *)
(***************************************************************************)

\* Multiplication is monotonic.
LEMMA Times ==
  ASSUME NEW k \in Nat, NEW m \in Nat, NEW n \in Nat, m <= n
  PROVE  k * m \in Nat /\ k * m <= k * n /\ k * (m + 1) = k * m + k
OBVIOUS

\* While entries are still to be written, every log has room for one.
LEMMA Room ==
  ASSUME OneByOne, Inv, NEW k \in Nat, k > 0, Fits(k), NEW s \in Server
  PROVE  CanWrite(store[s])
<1> DEFINE l == Len(store[s].log)
<1>1. l \in Nat /\ issued \in Nat /\ Nodes \in Nat /\ MaxCmd \in Nat /\ MaxLog \in Nat
  BY Finite, ClusterConstants, LogConstants DEF Inv, TypeOK, Store
<1>2. issued <= MaxCmd
  BY DEF Fits
<1>3. Nodes * issued \in Nat /\ Nodes * issued <= Nodes * MaxCmd /\ Nodes * MaxCmd <= MaxLog
  BY <1>1, <1>2, Times DEF OneByOne
<1>4. Nodes * MaxCmd \in Nat
  BY <1>1
<1>5. l + k <= Nodes * issued
  BY <1>1 DEF Fits, Reached
<1> DEFINE p == Nodes * issued
           q == Nodes * MaxCmd
<1> HIDE DEF p, q, l
<1>6. p \in Nat /\ q \in Nat /\ p <= q /\ q <= MaxLog /\ l + k <= p
  BY <1>3, <1>4, <1>5 DEF p, q
<1>7. l < MaxLog
  BY <1>1, <1>6
<1> QED
  BY <1>7 DEF CanWrite, l

\* One node writes an entry.
LEMMA WriteStep ==
  ASSUME CommandInv, NEW s \in Server, NEW st, NEW i, NEW c, Added(store[s], st, i, c),
         store' = [store EXCEPT ![s] = st], NoNews(net'), status' = status
  PROVE  /\ \A y : Seen(y)' => Seen(y) \/ y = <<i, c>>
         /\ \A y : Final(y)' => Final(y)
         /\ \A y : Spread(y) => Spread(y)'
         /\ \A n \in Nat : Reached(n)' => \E k \in Nat : n <= k + 1 /\ Reached(k)
         /\ \A b \in Server : store'[b].posi = Len(store'[b].log)
         /\ \A b \in Server : Ids(store[b].log) \subseteq Ids(store'[b].log)
         /\ <<i, c>> \in Ids(store'[s].log)
<1>1. /\ Inv /\ store[s] \in Store /\ Len(store[s].log) \in Nat
      /\ \A b \in Server : store[b].posi = Len(store[b].log)
  <2>1. Inv /\ store[s] \in Store /\ \A b \in Server : store[b].posi = Len(store[b].log)
    BY CourseFacts DEF CommandInv, Inv, TypeOK
  <2> QED
    BY <2>1 DEF Store
<1>2. /\ \A x : Seen(x)' => Seen(x) \/ x \in Ids(st.log)
      /\ \A x : Final(x)' => Final(x) \/ x \in Done(st.log)
      /\ \A n \in Nat : Reached(n)' => n = Len(st.log) \/ \E k \in Nat : n <= k /\ Reached(k)
  BY <1>1, SeenStep
<1>3. \A b \in Server : store'[b] = IF b = s THEN st ELSE store[b]
  BY <1>1 DEF Inv, TypeOK
<1>4. \A y : Seen(y)' => Seen(y) \/ y = <<i, c>>
  BY <1>2 DEF Seen, Added
<1>5. \A y : Final(y)' => Final(y)
  BY <1>2 DEF Final, Added
<1>6. \A n \in Nat : Reached(n)' => \E k \in Nat : n <= k + 1 /\ Reached(k)
  <2> SUFFICES ASSUME NEW n \in Nat, Reached(n)'
               PROVE  \E k \in Nat : n <= k + 1 /\ Reached(k)
    OBVIOUS
  <2>1. CASE n = Len(st.log)
    <3>1. n <= Len(store[s].log) + 1 /\ Reached(Len(store[s].log))
      BY <1>1, <2>1 DEF Added, Reached
    <3> QED
      BY <1>1, <3>1
  <2>2. CASE \E k \in Nat : n <= k /\ Reached(k)
    BY <2>2
  <2> QED
    BY <1>2, <2>1, <2>2
<1>7. \A b \in Server : Ids(store[b].log) \subseteq Ids(store'[b].log)
  BY <1>3 DEF Added
<1>8. \A y : Spread(y) => Spread(y)'
  <2>1. \A b \in Server : Running(b)' => Running(b)
    BY DEF Running
  <2> QED
    BY <1>7, <2>1, SpreadKept
<1>9. \A b \in Server : store'[b].posi = Len(store'[b].log)
  BY <1>1, <1>3 DEF Added
<1>10. <<i, c>> \in Ids(store'[s].log)
  BY <1>3 DEF Added
<1> QED
  BY <1>4, <1>5, <1>6, <1>7, <1>8, <1>9, <1>10

\* The slack of the logs, when one entry is written.
LEMMA FitsGrown ==
  ASSUME NEW k \in Nat, NEW j \in Nat, j + 1 <= k, Fits(k), Inv, issued' = issued,
         \A n \in Nat : Reached(n)' => \E m \in Nat : n <= m + 1 /\ Reached(m),
         \A s \in Server : store'[s].posi = Len(store'[s].log)
  PROVE  Fits(j)'
<1>1. issued \in Nat /\ Nodes \in Nat /\ j <= k
  BY Finite, ClusterConstants DEF Inv, TypeOK
<1>2. \A n \in Nat : Reached(n)' => \E m \in Nat : n + j <= m + k /\ Reached(m)
  <2> SUFFICES ASSUME NEW n \in Nat, Reached(n)'
               PROVE  \E m \in Nat : n + j <= m + k /\ Reached(m)
    OBVIOUS
  <2> PICK m \in Nat : n <= m + 1 /\ Reached(m)
    OBVIOUS
  <2>1. n + j <= m + k
    OBVIOUS
  <2> QED
    BY <2>1
<1> QED
  BY <1>1, <1>2, FitsLess

\* A set without one of its elements is smaller.
LEMMA Smaller ==
  ASSUME NEW W \in SUBSET Server, NEW s \in W, NEW V \in SUBSET (W \ {s})
  PROVE  Cardinality(V) \in Nat /\ Cardinality(W) \in Nat /\ Cardinality(V) + 1 <= Cardinality(W)
<1>1. IsFiniteSet(W)
  BY ClusterConstants, FS_Subset
<1>2. IsFiniteSet(W \ {s}) /\ Cardinality(W \ {s}) = Cardinality(W) - 1
  BY <1>1, FS_RemoveElement
<1>3. Cardinality(V) <= Cardinality(W \ {s}) /\ IsFiniteSet(V)
  BY <1>2, FS_Subset
<1> QED
  BY <1>1, <1>2, <1>3, FS_CardinalityType

\* A node takes [PRE].
LEMMA PreStep ==
  ASSUME OneByOne, CommandInv, Inv', NEW a \in Server, NEW s \in Server, NEW n \in 1 .. Len(net[a][s]),
         HandlePre(a, s, n)
  PROVE  CommandInv'
<1> DEFINE m   == net[a][s][n]
           st  == WriteLog(store[s], m.index, m.cmd)
           ack == Ack("PRERE", CanWrite(store[s]))
<1>1. a \in Node /\ Receives(a, s, n, "PRE")
  BY DEF HandlePre, Node
<1>2. /\ Inv /\ Single(net) /\ net \in Nets /\ m \in Message /\ m.type = "PRE"
      /\ s \in Node /\ store[s] \in Store /\ InRange(store[s])
  BY <1>1, Took
<1>3. m \in Mail(net, a, s) /\ m.index \in Nat /\ m.cmd \in Command
  BY <1>1, <1>2, MailTaken, MessageFields DEF Tracked
<1>4. PICK L \in Server, C \in SUBSET Server, x \in Nat \X Command : Preparing(L, C, x)
  BY <1>1, <1>2, <1>3, MailPhase
<1>5. /\ store' = [store EXCEPT ![s] = st] /\ net' = With(Taken(a, s, n), s, a, ack)
      /\ status' = status /\ acks' = acks /\ pending' = pending /\ issued' = issued
  BY DEF HandlePre, env, users
<1>6. ack \in Message /\ ack.type = "PRERE"
  <2>1. CanWrite(store[s]) \in BOOLEAN
    BY DEF CanWrite
  <2> QED
    BY <2>1 DEF Ack, Message
<1>7. Phase("PRE", "PRERE") /\ Polling(net, L, C, "PRE", "PRERE")
  BY <1>4 DEF Phase, Preparing
<1> HIDE DEF ack, st
<1>8. /\ a = L /\ s \notin C \cup {L} /\ Single(net') /\ Polling(net', L, C, "PRE", "PRERE")
      /\ \A u \in Node, y \in Server :
           /\ Mail(net', u, y) \subseteq Mail(net, u, y) \cup (IF u = s /\ y = L THEN {ack} ELSE {})
           /\ Copies(net', u, y) \subseteq Copies(net, u, y)
      /\ \A o \in Mail(net', L, s) : o.type # "PRE"
  <2>1. PICK go, re : go = "PRE" /\ re = "PRERE"
    OBVIOUS
  <2>2. Phase(go, re) /\ Polling(net, L, C, go, re) /\ net[a][s][n].type = go /\ ack.type = re
    BY <1>2, <1>6, <1>7, <2>1
  <2> DEFINE nt == net'
  <2> HIDE DEF nt, m
  <2>3. nt = With(Taken(a, s, n), s, a, ack)
    BY <1>5 DEF nt
  <2>4. /\ a = L /\ s \notin C \cup {L} /\ Single(nt) /\ Polling(nt, L, C, go, re)
        /\ \A u \in Node, y \in Server :
             /\ Mail(nt, u, y) \subseteq Mail(net, u, y) \cup (IF u = s /\ y = L THEN {ack} ELSE {})
             /\ Copies(nt, u, y) \subseteq Copies(net, u, y)
        /\ \A o \in Mail(nt, L, s) : o.type # go
    BY <1>1, <1>2, <1>6, <2>2, <2>3, Answers
  <2> QED
    BY <2>1, <2>4 DEF nt
<1>9. s \in Waiting(L) /\ x = <<m.index, m.cmd>>
  BY <1>2, <1>3, <1>4, <1>8 DEF Waiting, Preparing
<1>10. Waiting(L) \in SUBSET Server /\ Waiting(L)' \in SUBSET (Waiting(L) \ {s})
  <2>1. L \in Node /\ L # s
    BY <1>8 DEF Node
  <2> QED
    BY <1>8, <2>1 DEF Waiting
<1> DEFINE W == Waiting(L)
           k == Cardinality(W)
<1>11. k \in Nat /\ Cardinality(W') \in Nat /\ Cardinality(W') + 1 <= k
  <2> DEFINE V == Waiting(L)'
  <2>1. W \in SUBSET Server /\ s \in W /\ V \in SUBSET (W \ {s})
    BY <1>9, <1>10
  <2> HIDE DEF W, V
  <2>2. Cardinality(V) \in Nat /\ Cardinality(W) \in Nat /\ Cardinality(V) + 1 <= Cardinality(W)
    BY <2>1, Smaller
  <2> QED
    BY <2>2 DEF V, W
<1>12. Fits(k)
  BY <1>4 DEF Preparing
<1>13. CanWrite(store[s])
  <2>1. k > 0
    BY <1>11
  <2> HIDE DEF k
  <2> QED
    BY <1>2, <1>11, <1>12, <2>1, Room
<1>14. Added(store[s], st, m.index, m.cmd)
  BY <1>2, <1>3, <1>13, CourseFacts, WriteIds DEF st
<1>15. NoNews(net')
  BY <1>8 DEF NoNews
<1> HIDE DEF m
<1>16. /\ \A y : Seen(y)' => Seen(y) \/ y = <<m.index, m.cmd>>
       /\ \A y : Final(y)' => Final(y)
       /\ \A y : Spread(y) => Spread(y)'
       /\ \A j \in Nat : Reached(j)' => \E i \in Nat : j <= i + 1 /\ Reached(i)
       /\ \A b \in Server : store'[b].posi = Len(store'[b].log)
       /\ \A b \in Server : Ids(store[b].log) \subseteq Ids(store'[b].log)
       /\ <<m.index, m.cmd>> \in Ids(store'[s].log)
  BY <1>5, <1>14, <1>15, WriteStep
<1>17. Fits(Cardinality(Waiting(L)))'
  <2>1. PICK j \in Nat : j = Cardinality(W')
    BY <1>11
  <2> HIDE DEF k
  <2>2. Fits(j)'
    BY <1>2, <1>5, <1>11, <1>12, <1>16, <2>1, FitsGrown
  <2> QED
    BY <2>1, <2>2 DEF Fits
<1>18. \A f \in Server : \A o \in Mail(net', L, f) : o.type = "PRE" => <<o.index, o.cmd>> = x
  <2> SUFFICES ASSUME NEW f \in Server, NEW o \in Mail(net', L, f), o.type = "PRE"
               PROVE  <<o.index, o.cmd>> = x
    OBVIOUS
  <2>1. o \in Mail(net, L, f)
    BY <1>6, <1>8 DEF Node
  <2> QED
    BY <1>4, <2>1 DEF Preparing
<1>19. \A f \in Server : Mail(net', f, L) # {} \/ f \in C \cup {L} => x \in Ids(store'[f].log)
  <2> SUFFICES ASSUME NEW f \in Server, Mail(net', f, L) # {} \/ f \in C \cup {L}
               PROVE  x \in Ids(store'[f].log)
    OBVIOUS
  <2>1. CASE f = s
    BY <1>9, <1>16, <2>1
  <2>2. CASE f # s
    <3>1. Mail(net', f, L) \subseteq Mail(net, f, L)
      BY <1>8, <2>2 DEF Node
    <3>2. x \in Ids(store[f].log)
      BY <1>4, <3>1 DEF Preparing
    <3> QED
      BY <1>16, <3>2
  <2> QED
    BY <2>1, <2>2
<1>20. Busy' /\ Tally(L, Cardinality(C), 0)'
  BY <1>4, <1>5 DEF Preparing, Busy, Tally
<1>21. (\A y : Seen(y)' => y = x \/ Spread(y)') /\ \A y : Final(y)' => Spread(y)'
  BY <1>4, <1>9, <1>16 DEF Preparing
<1>22. Preparing(L, C, x)'
  BY <1>8, <1>17, <1>18, <1>19, <1>20, <1>21 DEF Preparing
<1> QED
  BY <1>8, <1>22 DEF CommandInv, Course

\* A node takes [PRERE].
LEMMA PreReStep ==
  ASSUME Nodes <= 4, NoRollback', CommandInv, Inv',
         NEW a \in Server, NEW s \in Server, NEW n \in 1 .. Len(net[a][s]), HandlePreRe(a, s, n)
  PROVE  CommandInv'
<1> DEFINE m  == net[a][s][n]
           k  == acks[s]
           nt == Taken(a, s, n)
<1>1. a \in Node /\ Receives(a, s, n, "PRERE")
  BY DEF HandlePreRe, Node
<1>2. /\ Inv /\ Single(net) /\ net \in Nets /\ m \in Message /\ m.type = "PRERE"
      /\ s \in Node /\ k \in Counts /\ Harmless(nt) /\ nt \in Nets
  BY <1>1, Took
<1>3. m \in Mail(net, a, s)
  BY <1>1, <1>2, MailTaken DEF Tracked
<1>4. PICK L \in Server, C \in SUBSET Server, x \in Nat \X Command : Preparing(L, C, x)
  BY <1>1, <1>2, <1>3, MailPhase
<1>5. Phase("PRE", "PRERE") /\ Polling(net, L, C, "PRE", "PRERE") /\ Tally(L, Cardinality(C), 0)
  BY <1>4 DEF Phase, Preparing
<1> DEFINE D == C \cup {a}
<1>6. s = L /\ a \in Server \ (C \cup {L}) /\ Polling(nt, L, D, "PRE", "PRERE") /\ D \in SUBSET Server
  <2>1. net[a][s][n].type = "PRERE"
    BY <1>2
  <2> HIDE DEF m, nt, k, D
  <2>2. PICK go, re : go = "PRE" /\ re = "PRERE"
    OBVIOUS
  <2>3. Phase(go, re) /\ Polling(net, L, C, go, re) /\ net[a][s][n].type = re
    BY <1>5, <2>1, <2>2
  <2>4. s = L /\ a \in Server \ (C \cup {L}) /\ Polling(Taken(a, s, n), L, C \cup {a}, go, re)
    <3>1. net \in Nets /\ Single(net) /\ a \in Node
      BY <1>1, <1>2
    <3> QED
      BY <2>3, <3>1, TakesAnswer
  <2> QED
    BY <1>4, <2>2, <2>4 DEF nt, D
<1>7. Cardinality(D) = Cardinality(C) + 1 /\ Cardinality(C) \in Nat
  BY <1>6, CountMore
<1>8. k.cOk = 0 /\ k.pOk = Cardinality(C) /\ acks \in [Server -> Counts]
      /\ \A b \in Server \ {L} : acks[b].pOk = 0 /\ acks[b].cOk = 0
  BY <1>2, <1>4, <1>5, <1>6, <1>7 DEF Tally, Inv, TypeOK
<1>9. \/ /\ net' = nt /\ UNCHANGED <<dataState, store, status, users>>
         /\ acks' = acks \/ \E e : acks' = [acks EXCEPT ![s] = PrepareAcks(k, k.pOk, e)]
      \/ /\ net' = nt /\ UNCHANGED <<dataState, store, status, users>>
         /\ \E e : acks' = [acks EXCEPT ![s] = PrepareAcks(k, k.pOk + 1, e)]
      \/ /\ net' = WithAll(nt, s, Order("COM")) /\ UNCHANGED <<store, status, users>>
         /\ k.pOk + 1 >= Quorum /\ acks' = [acks EXCEPT ![s] = PrepareAcks(k, 0, 0)]
      \/ net' = WithAll(nt, s, Order("ROLL"))
  BY DEF HandlePreRe
<1> HIDE DEF m, nt, k
<1>10. \A f \in D \cup {L} : x \in Ids(store[f].log)
  <2>1. Mail(net, a, L) # {}
    BY <1>3, <1>6
  <2> QED
    BY <1>4, <1>6, <2>1 DEF Preparing
<1> HIDE DEF D
<1>11. CASE /\ net' = nt /\ UNCHANGED <<dataState, store, status, users>>
            /\ acks' = acks \/ \E e : acks' = [acks EXCEPT ![s] = PrepareAcks(k, k.pOk, e)]
  <2>1. \A b \in Server : acks'[b].pOk = acks[b].pOk /\ acks'[b].cOk = acks[b].cOk
    BY <1>8, <1>11 DEF PrepareAcks, k
  <2> QED
    BY <1>2, <1>11, <2>1, NoiseStep DEF users
<1>12. CASE /\ net' = nt /\ UNCHANGED <<dataState, store, status, users>>
            /\ \E e : acks' = [acks EXCEPT ![s] = PrepareAcks(k, k.pOk + 1, e)]
  <2>1. \A b \in Server : /\ acks'[b].cOk = 0
                          /\ acks'[b].pOk = IF b = L THEN Cardinality(C) + 1 ELSE 0
    BY <1>6, <1>8, <1>12 DEF PrepareAcks, k
  <2>2. Tally(L, Cardinality(D), 0)'
    BY <1>6, <1>7, <2>1 DEF Tally
  <2>3. Polling(net', L, D, "PRE", "PRERE")
    BY <1>6, <1>12
  <2>4. NoNews(net') /\ Single(net') /\ \A u \in Node, y \in Server : Mail(net', u, y) \subseteq Mail(net, u, y)
    BY <1>2, <1>12 DEF Harmless
  <2>5. /\ \A y : Seen(y)' => Seen(y)
        /\ \A y : Final(y)' => Final(y)
        /\ \A j \in Nat : Reached(j)' => \E i \in Nat : j <= i /\ Reached(i)
    BY <1>2, <1>12, <2>4, Still
  <2>6. \A y : Spread(y) => Spread(y)'
    <3>1. (\A b \in Server : Ids(store[b].log) \subseteq Ids(store'[b].log))
          /\ \A b \in Server : Running(b)' => Running(b)
      BY <1>12 DEF Running
    <3> QED
      BY <3>1, SpreadKept
  <2>7. \A b \in Server : store'[b].posi = Len(store'[b].log)
    BY <1>12, CourseFacts
  <2>8. Fits(Cardinality(Waiting(L)))'
    <3> DEFINE W == Waiting(L)
               V == Waiting(L)'
    <3>1. L \in Node /\ V \in SUBSET W
      BY <2>4 DEF Waiting, Node
    <3>2. IsFiniteSet(W) /\ Cardinality(W) \in Nat
      BY Finite
    <3> HIDE DEF W, V
    <3>3. Cardinality(V) \in Nat /\ Cardinality(V) <= Cardinality(W)
      BY <3>1, <3>2, FS_Subset, FS_CardinalityType
    <3>4. PICK j \in Nat, i \in Nat : j = Cardinality(V) /\ i = Cardinality(W)
      BY <3>2, <3>3
    <3>5. Fits(i) /\ issued' = issued
      BY <1>4, <1>12, <3>4 DEF Preparing, W, users
    <3>6. Fits(j)'
      BY <1>2, <2>5, <2>7, <3>3, <3>4, <3>5, FitsStill
    <3> QED
      BY <3>4, <3>6 DEF Fits, V
  <2>9. Busy' /\ \A f \in Server : \A o \in Mail(net', L, f) : o.type = "PRE" => <<o.index, o.cmd>> = x
    BY <1>4, <1>12, <2>4 DEF Preparing, Busy, users, Node
  <2>10. \A f \in Server : Mail(net', f, L) # {} \/ f \in D \cup {L} => x \in Ids(store'[f].log)
    <3> SUFFICES ASSUME NEW f \in Server, Mail(net', f, L) # {} \/ f \in D \cup {L}
                 PROVE  x \in Ids(store[f].log)
      BY <1>12
    <3>1. Mail(net, f, L) # {} \/ f \in D \cup {L}
      BY <2>4 DEF Node
    <3> QED
      BY <1>4, <1>10, <3>1 DEF Preparing
  <2>11. (\A y : Seen(y)' => y = x \/ Spread(y)') /\ \A y : Final(y)' => Spread(y)'
    BY <1>4, <2>5, <2>6 DEF Preparing
  <2>12. Preparing(L, D, x)'
    BY <2>2, <2>3, <2>8, <2>9, <2>10, <2>11 DEF Preparing
  <2> QED
    BY <1>6, <2>4, <2>12 DEF CommandInv, Course
<1>13. CASE /\ net' = WithAll(nt, s, Order("COM")) /\ UNCHANGED <<store, status, users>>
            /\ k.pOk + 1 >= Quorum /\ acks' = [acks EXCEPT ![s] = PrepareAcks(k, 0, 0)]
  <2>1. Cardinality(D) >= Quorum
    BY <1>7, <1>8, <1>13
  <2>2. D = Server \ {L} /\ \A u \in Node, y \in Server : Mail(nt, u, y) = {}
    <3>1. PICK go, re : go = "PRE" /\ re = "PRERE"
      OBVIOUS
    <3>2. Polling(nt, L, D, go, re)
      BY <1>6, <3>1
    <3> QED
      BY <2>1, <3>2, AllAnswered
  <2>3. Spread(x)
    BY <1>10, <2>2 DEF Spread
  <2> DEFINE o == Order("COM")
             w == WithAll(nt, L, o)
  <2>4. o \in Message /\ o.type = "COM" /\ Phase(o.type, "COMRE") /\ Single(nt)
    BY <1>2 DEF Order, Message, Phase, Harmless
  <2> HIDE DEF o
  <2>5. /\ Single(w) /\ Polling(w, L, {}, "COM", "COMRE")
        /\ \A u \in Node, y \in Server : Copies(w, u, y) = Copies(nt, u, y)
    <3>1. PICK re : re = "COMRE"
      OBVIOUS
    <3>2. Phase(o.type, re)
      BY <2>4, <3>1
    <3>3. Asking(nt, WithAll(nt, L, o), L, o, re)
      <4>1. nt \in Nets /\ Single(nt) /\ o \in Message
        BY <1>2, <2>4
      <4> HIDE DEF w
      <4> QED
        BY <2>2, <3>2, <4>1, Started
    <3> QED
      BY <2>4, <3>1, <3>3 DEF Asking
  <2>6. net' = w
    BY <1>6, <1>13 DEF o
  <2> HIDE DEF w
  <2>7. NoNews(net')
    BY <1>2, <2>5, <2>6 DEF Harmless, NoNews
  <2>8. /\ \A y : Seen(y)' => Seen(y)
        /\ \A j \in Nat : Reached(j)' => \E i \in Nat : j <= i /\ Reached(i)
    BY <1>2, <1>13, <2>7, Still
  <2>9. \A y : Spread(y) => Spread(y)'
    <3>1. (\A b \in Server : Ids(store[b].log) \subseteq Ids(store'[b].log))
          /\ \A b \in Server : Running(b)' => Running(b)
      BY <1>13 DEF Running
    <3> QED
      BY <3>1, SpreadKept
  <2>10. Fits(0)'
    <3>1. \A b \in Server : store'[b].posi = Len(store'[b].log)
      BY <1>13, CourseFacts
    <3>2. Cardinality(Waiting(L)) \in Nat
      BY Finite
    <3>3. PICK i \in Nat : i = Cardinality(Waiting(L))
      BY <3>2
    <3>4. Fits(i) /\ issued' = issued /\ 0 \in Nat /\ 0 <= i
      BY <1>4, <1>13, <3>3 DEF Preparing, users
    <3> QED
      BY <1>2, <2>8, <3>1, <3>4, FitsStill
  <2>11. Tally(L, 0, Cardinality({}))'
    <3>1. \A b \in Server : acks'[b].cOk = 0 /\ acks'[b].pOk = 0
      BY <1>6, <1>8, <1>13 DEF PrepareAcks, k
    <3>2. Cardinality({}) = 0
      BY FS_EmptySet
    <3> QED
      BY <3>1, <3>2 DEF Tally
  <2>12. Busy' /\ \A y : Seen(y)' => Spread(y)'
    BY <1>4, <1>13, <2>3, <2>8, <2>9 DEF Preparing, Busy, users
  <2>13. Committing(L, {})'
    BY <2>5, <2>6, <2>10, <2>11, <2>12 DEF Committing
  <2> QED
    BY <2>5, <2>6, <2>13 DEF CommandInv, Course
<1>14. CASE net' = WithAll(nt, s, Order("ROLL"))
  <2>1. a \in Server \ {s} /\ s \in Server
    BY <1>6
  <2>2. \E j \in 1 .. Len(net'[s][a]) : net'[s][a][j].type = "ROLL"
    BY <1>2, <1>14, <2>1, RollSent
  <2> QED
    BY <2>1, <2>2 DEF NoRollback
<1> QED
  BY <1>9, <1>11, <1>12, <1>13, <1>14

-----------------------------------------------------------------------------
(***************************************************************************)
(* The command itself: issued, passed on, and taken by a LEADER.           *)
(***************************************************************************)

\* The one client has no command under way when it issues one.
LEMMA SubmitStep ==
  ASSUME OneByOne, CommandInv, Inv', NEW c \in Client, Submit(c)
  PROVE  CommandInv'
<1>1. PICK cmd \in Workload :
        pending' = [pending EXCEPT ![c] = cmd] /\ net' = With(net, c, Boot, Ask(c, cmd))
  BY DEF Submit
<1>2. /\ Inv /\ Single(net) /\ net \in Nets /\ pending \in [Client -> Command \cup {Nil}]
      /\ issued \in Nat /\ c \in Node /\ Boot \in Server /\ cmd \in Command
      /\ pending[c] = Nil /\ cmd # Nil
  BY ClusterConstants DEF CommandInv, Inv, TypeOK, Nets, Node, Submit
<1>3. /\ store' = store /\ acks' = acks /\ status' = status
      /\ issued' = issued + 1 /\ issued < MaxCmd
  BY DEF Submit, data, env
<1>4. ~Busy
  BY <1>2 DEF Busy
<1>5. Free /\ ~Asked
  BY <1>4 DEF CommandInv, Course, Free, Preparing, Committing
<1>6. \A x \in Node, y \in Server : Mail(net, x, y) = {}
  BY <1>5 DEF Asked
<1> DEFINE m == Ask(c, cmd)
<1>7. m \in Message /\ m.type = "CLIENT"
  BY <1>2 DEF Ask, Message
<1> HIDE DEF m
<1>8. /\ Single(net')
      /\ \A x \in Node, y \in Server :
           /\ Mail(net', x, y) = Mail(net, x, y)
                  \cup (IF x = c /\ y = Boot /\ m.type \in Tracked THEN {m} ELSE {})
           /\ Copies(net', x, y) = Copies(net, x, y)
                  \cup (IF x = c /\ y = Boot /\ m.type = "RECOVER" THEN {m} ELSE {})
  <2>1. m.type \in Tracked => \A o \in Mail(net, c, Boot) : o.type # m.type
    BY <1>2, <1>6
  <2>2. net' = With(net, c, Boot, m)
    BY <1>1 DEF m
  <2>3. net \in Nets /\ Single(net) /\ c \in Node /\ Boot \in Server
    BY <1>2
  <2> DEFINE w == With(net, c, Boot, m)
  <2>4. /\ Single(w)
        /\ \A x \in Node, y \in Server :
             /\ Mail(w, x, y) = Mail(net, x, y)
                    \cup (IF x = c /\ y = Boot /\ m.type \in Tracked THEN {m} ELSE {})
             /\ Copies(w, x, y) = Copies(net, x, y)
                    \cup (IF x = c /\ y = Boot /\ m.type = "RECOVER" THEN {m} ELSE {})
    <3>1. PICK B \in Server, o \in Message, k \in Node : B = Boot /\ o = m /\ k = c
      BY <1>7, <2>3
    <3>2. o.type \in Tracked => \A e \in Mail(net, k, B) : e.type # o.type
      BY <2>1, <3>1
    <3>3. /\ Single(With(net, k, B, o))
          /\ \A x \in Node, y \in Server :
               /\ Mail(With(net, k, B, o), x, y) =
                    Mail(net, x, y) \cup (IF x = k /\ y = B /\ o.type \in Tracked THEN {o} ELSE {})
               /\ Copies(With(net, k, B, o), x, y) =
                    Copies(net, x, y) \cup (IF x = k /\ y = B /\ o.type = "RECOVER" THEN {o} ELSE {})
      BY <2>3, <3>2, MailSent
    <3> QED
      BY <3>1, <3>3
  <2> HIDE DEF w
  <2>5. net' = w
    BY <2>2 DEF w
  <2> QED
    BY <2>4, <2>5
<1>9. \A x \in Node, y \in Server :
        /\ Mail(net', x, y) \subseteq {m}
        /\ Mail(net', x, y) # {} => x = c /\ y = Boot
        /\ Copies(net', x, y) = Copies(net, x, y)
  BY <1>6, <1>7, <1>8
<1>10. NoNews(net')
  BY <1>9 DEF NoNews
<1>11. /\ \A y : Seen(y)' => Seen(y)
       /\ \A j \in Nat : Reached(j)' => \E i \in Nat : j <= i /\ Reached(i)
  BY <1>2, <1>3, <1>10, Still
<1>12. \A y : Spread(y) => Spread(y)'
  <2>1. (\A b \in Server : Ids(store[b].log) \subseteq Ids(store'[b].log))
        /\ \A b \in Server : Running(b)' => Running(b)
    BY <1>3 DEF Running
  <2> QED
    BY <2>1, SpreadKept
<1>13. Fits(Nodes)' /\ Fits(0)'
  <2>1. Nodes \in Nat /\ Nodes * issued \in Nat /\ Nodes * (issued + 1) = Nodes * issued + Nodes
    BY <1>2, Finite, Times
  <2>2. Fits(0)
    BY <1>5 DEF Free
  <2> DEFINE p == Nodes * issued
             q == Nodes * (issued + 1)
  <2>3. p \in Nat /\ q = p + Nodes /\ \A j \in Nat : Reached(j) => j <= p
    BY <2>1, <2>2 DEF Fits
  <2>4. Nodes' = Nodes /\ Nodes * issued' = q
    BY <1>3 DEF Nodes
  <2> HIDE DEF p, q
  <2>5. \A j \in Nat : Reached(j)' => j + Nodes <= q
    BY <1>11, <2>1, <2>3
  <2>6. \A j \in Nat : Reached(j)' => j + 0 <= q
    BY <2>1, <2>3, <2>5
  <2>7. issued' <= MaxCmd
    BY <1>2, <1>3, ClusterConstants
  <2>8. \A b \in Server : store'[b].posi = Len(store'[b].log)
    BY <1>3, CourseFacts
  <2> QED
    BY <2>4, <2>5, <2>6, <2>7, <2>8 DEF Fits
<1>14. Fits(IF Asked THEN Nodes ELSE 0)'
  <2>1. CASE Asked'
    BY <1>13, <2>1 DEF Fits
  <2>2. CASE ~Asked'
    BY <1>13, <2>2 DEF Fits
  <2> QED
    BY <2>1, <2>2
<1>15. Busy'
  BY <1>1, <1>2 DEF Busy, OneByOne
<1>16. \A b \in Server : Tally(b, 0, 0)'
  BY <1>3, <1>5 DEF Free, Tally
<1>17. \A y : Seen(y)' => Spread(y)'
  BY <1>5, <1>11, <1>12 DEF Free
<1>18. Free'
  BY <1>7, <1>9, <1>14, <1>15, <1>16, <1>17 DEF Free
<1> QED
  BY <1>8, <1>18 DEF CommandInv, Course

\* A node takes the command: it passes it on, or starts the first phase.
LEMMA ClientStep ==
  ASSUME OneByOne, CommandInv, Inv', NEW a \in Node, NEW s \in Server, NEW n \in 1 .. Len(net[a][s]),
         HandleClient(a, s, n)
  PROVE  CommandInv'
<1> DEFINE m  == net[a][s][n]
           nt == Taken(a, s, n)
           st == WriteLog(store[s], round[s], m.cmd)
           p  == Pre(st, m.cmd)
           x  == <<round[s], m.cmd>>
<1>1. Receives(a, s, n, "CLIENT")
  BY DEF HandleClient
<1>2. /\ Inv /\ Single(net) /\ net \in Nets /\ m \in Message /\ m.type = "CLIENT"
      /\ s \in Node /\ store[s] \in Store /\ InRange(store[s]) /\ round[s] \in Nat
      /\ Harmless(nt) /\ nt \in Nets
  BY <1>1, Took
<1>3. m \in Mail(net, a, s) /\ m.cmd \in Command /\ \A o \in Mail(nt, a, s) : o.type # "CLIENT"
  BY <1>1, <1>2, MailTaken, MessageFields DEF Tracked
<1>4. Free
  BY <1>2, <1>3, MailPhase
<1>5. Asked /\ Busy /\ Fits(Nodes)
  BY <1>3, <1>4 DEF Asked, Free
<1> HIDE DEF nt, p, st
<1>6. \A u \in Node, y \in Server : Mail(nt, u, y) = {}
  <2> SUFFICES ASSUME NEW u \in Node, NEW y \in Server, NEW o \in Mail(nt, u, y)
               PROVE  FALSE
    OBVIOUS
  <2>1. o \in Mail(net, u, y)
    BY <1>2 DEF Harmless
  <2>2. o.type = "CLIENT" /\ u = a /\ y = s
    BY <1>3, <1>4, <2>1 DEF Free
  <2> QED
    BY <1>3, <2>2
<1>7. /\ status' = status /\ acks' = acks /\ pending' = pending /\ issued' = issued
      /\ \/ net' = nt /\ store' = store
         \/ lea[s] # Nil /\ net' = With(nt, s, lea[s], m) /\ store' = store
         \/ /\ net' = WithAll(nt, s, p) /\ store' = [store EXCEPT ![s] = st]
  BY DEF HandleClient, users, env, data, nt, st, p
<1> HIDE DEF m
<1>8. CASE net' = nt /\ store' = store
  BY <1>2, <1>7, <1>8, NoiseStep
<1>9. CASE lea[s] # Nil /\ net' = With(nt, s, lea[s], m) /\ store' = store
  <2> DEFINE b == lea[s]
             w == With(nt, s, b, m)
  <2>1. b \in Server
    BY <1>2, <1>9 DEF Inv, TypeOK
  <2>2. m.type \in Tracked => \A o \in Mail(nt, s, b) : o.type # m.type
    BY <1>2, <1>6, <2>1
  <2>3. Single(nt)
    BY <1>2 DEF Harmless
  <2> HIDE DEF b, w
  <2>4. /\ Single(With(nt, s, b, m))
        /\ \A u \in Node, y \in Server :
             /\ Mail(With(nt, s, b, m), u, y) = Mail(nt, u, y)
                    \cup (IF u = s /\ y = b /\ m.type \in Tracked THEN {m} ELSE {})
             /\ Copies(With(nt, s, b, m), u, y) = Copies(nt, u, y)
                    \cup (IF u = s /\ y = b /\ m.type = "RECOVER" THEN {m} ELSE {})
    <3>1. nt \in Nets /\ s \in Node /\ m \in Message
      BY <1>2
    <3> QED
      BY <2>1, <2>2, <2>3, <3>1, MailSent
  <2>5. net' = w
    BY <1>9 DEF w, b
  <2>6. /\ Single(w)
        /\ \A u \in Node, y \in Server :
             /\ Mail(w, u, y) \subseteq {m} /\ (Mail(w, u, y) # {} => u = s /\ y = b)
             /\ Copies(w, u, y) = Copies(nt, u, y)
    BY <1>2, <1>6, <2>4 DEF w
  <2>7. NoNews(net')
    BY <1>2, <2>5, <2>6 DEF Harmless, NoNews
  <2>8. /\ \A y : Seen(y)' => Seen(y)
        /\ \A j \in Nat : Reached(j)' => \E i \in Nat : j <= i /\ Reached(i)
    BY <1>2, <1>9, <2>7, Still
  <2>9. \A y : Spread(y) => Spread(y)'
    <3>1. (\A v \in Server : Ids(store[v].log) \subseteq Ids(store'[v].log))
          /\ \A v \in Server : Running(v)' => Running(v)
      BY <1>7, <1>9 DEF Running
    <3> QED
      BY <3>1, SpreadKept
  <2>10. Fits(Nodes)' /\ Fits(0)'
    <3>1. \A v \in Server : store'[v].posi = Len(store'[v].log)
      BY <1>9, CourseFacts
    <3>2. Nodes \in Nat /\ 0 \in Nat /\ 0 <= Nodes /\ Nodes <= Nodes
      BY Finite
    <3>3. PICK i \in Nat : i = Nodes
      BY <3>2
    <3>4. Fits(i) /\ 0 <= i /\ i <= i
      BY <1>5, <3>3
    <3>5. Fits(i)' /\ Fits(0)'
      BY <1>2, <1>7, <2>8, <3>1, <3>2, <3>4, FitsStill
    <3> QED
      BY <3>3, <3>5 DEF Fits, Nodes
  <2>11. Fits(IF Asked THEN Nodes ELSE 0)'
    <3>1. CASE Asked'
      BY <2>10, <3>1 DEF Fits
    <3>2. CASE ~Asked'
      BY <2>10, <3>2 DEF Fits
    <3> QED
      BY <3>1, <3>2
  <2>12. Busy' /\ (\A v \in Server : Tally(v, 0, 0)') /\ \A y : Seen(y)' => Spread(y)'
    BY <1>4, <1>5, <1>7, <2>8, <2>9 DEF Free, Busy, Tally
  <2>13. Free'
    BY <1>2, <2>5, <2>6, <2>11, <2>12 DEF Free
  <2> QED
    BY <2>5, <2>6, <2>13 DEF CommandInv, Course
<1>10. CASE net' = WithAll(nt, s, p) /\ store' = [store EXCEPT ![s] = st]
  <2>1. CanWrite(store[s])
    <3>1. PICK i \in Nat : i = Nodes /\ i > 0
      BY Finite
    <3> QED
      BY <1>2, <1>5, <3>1, Room
  <2>2. Added(store[s], st, round[s], m.cmd)
    BY <1>2, <1>3, <2>1, CourseFacts, WriteIds DEF st, m
  <2>3. st \in Store /\ InRange(st) /\ NewLogIndex(st) = round[s]
    BY <2>2 DEF Added, InRange, Store
  <2>4. p \in Message /\ p.type = "PRE" /\ p.index = round[s] /\ p.cmd = m.cmd
    BY <1>2, <1>3, <2>3 DEF Pre, p, Message, m
  <2>5. Single(nt) /\ NoNews(nt) /\ Phase(p.type, "PRERE")
    BY <1>2, <2>4 DEF Harmless, Phase
  <2>6. PICK re : re = "PRERE"
    OBVIOUS
  <2> DEFINE w == WithAll(nt, s, p)
  <2>7. Asking(nt, w, s, p, re)
    <3>1. Phase(p.type, re) /\ p \in Message /\ nt \in Nets /\ Single(nt)
      BY <1>2, <2>4, <2>5, <2>6
    <3> HIDE DEF w
    <3>2. Asking(nt, WithAll(nt, s, p), s, p, re)
      BY <1>6, <3>1, Started
    <3> QED
      BY <3>2 DEF w
  <2>8. net' = w
    BY <1>10
  <2> HIDE DEF w
  <2>9. Polling(net', s, {}, "PRE", "PRERE")
    BY <2>4, <2>6, <2>7, <2>8 DEF Asking
  <2>10. NoNews(net') /\ Single(net')
    BY <2>5, <2>7, <2>8 DEF Asking, NoNews
  <2>11. /\ \A y : Seen(y)' => Seen(y) \/ y = <<round[s], m.cmd>>
         /\ \A y : Final(y)' => Final(y)
         /\ \A y : Spread(y) => Spread(y)'
         /\ \A j \in Nat : Reached(j)' => \E i \in Nat : j <= i + 1 /\ Reached(i)
         /\ \A b \in Server : store'[b].posi = Len(store'[b].log)
         /\ <<round[s], m.cmd>> \in Ids(store'[s].log)
    BY <1>7, <1>10, <2>2, <2>10, WriteStep
  <2>12. Fits(Cardinality(Waiting(s)))'
    <3> DEFINE V == Waiting(s)'
    <3>1. V \in SUBSET (Server \ {s})
      BY <1>2, <2>7, <2>8 DEF Asking, Waiting
    <3>2. Cardinality(V) \in Nat /\ Cardinality(V) + 1 <= Nodes /\ Nodes \in Nat
      <4> HIDE DEF V
      <4>1. Server \in SUBSET Server
        OBVIOUS
      <4> QED
        BY <3>1, <4>1, Smaller DEF Nodes
    <3> HIDE DEF V
    <3>3. PICK j \in Nat, i \in Nat : j = Cardinality(V) /\ i = Nodes
      BY <3>2
    <3>4. Fits(i) /\ j + 1 <= i
      BY <1>5, <3>2, <3>3
    <3>5. Fits(j)'
      BY <1>2, <1>7, <2>11, <3>4, FitsGrown
    <3> QED
      BY <3>3, <3>5 DEF Fits, V
  <2>13. \A f \in Server : \A o \in Mail(net', s, f) : o.type = "PRE" => <<o.index, o.cmd>> = x
    BY <1>2, <2>4, <2>7, <2>8 DEF Asking
  <2>14. \A f \in Server : Mail(net', f, s) # {} \/ f \in {} \cup {s} => x \in Ids(store'[f].log)
    <3> SUFFICES ASSUME NEW f \in Server, Mail(net', f, s) # {} \/ f = s
                 PROVE  x \in Ids(store'[f].log)
      OBVIOUS
    <3>1. f = s
      BY <2>7, <2>8 DEF Asking, Node
    <3> QED
      BY <2>11, <3>1
  <2>15. Tally(s, Cardinality({}), 0)' /\ Busy'
    <3>1. Cardinality({}) = 0
      BY FS_EmptySet
    <3> QED
      BY <1>4, <1>5, <1>7, <3>1 DEF Free, Tally, Busy
  <2>16. (\A y : Seen(y)' => y = x \/ Spread(y)') /\ \A y : Final(y)' => Spread(y)'
    BY <1>4, <2>11, CourseFacts DEF Free
  <2>17. x \in Nat \X Command /\ {} \in SUBSET Server
    BY <1>2, <1>3
  <2> HIDE DEF x
  <2>18. PICK z \in Nat \X Command : z = x
    BY <2>17
  <2>19. Preparing(s, {}, z)'
    BY <2>9, <2>12, <2>13, <2>14, <2>15, <2>16, <2>18 DEF Preparing
  <2> QED
    BY <2>10, <2>17, <2>19 DEF CommandInv, Course
<1> QED
  BY <1>7, <1>8, <1>9, <1>10

-----------------------------------------------------------------------------
(***************************************************************************)
(* The theorem.                                                            *)
(***************************************************************************)

\* At the start no command is under way.
LEMMA InitCommand == Init => CommandInv
<1> SUFFICES ASSUME Init
             PROVE  CommandInv
  OBVIOUS
<1>1. Inv
  BY InitInv
<1>2. \A a \in Node, b \in Server : net[a][b] = <<>>
  BY DEF Init
<1>3. \A a \in Node, b \in Server :
        Mail(net, a, b) = {} /\ Copies(net, a, b) = {} /\ Once(net[a][b], Tracked)
  BY <1>2 DEF Mail, Copies, OfKind, Once
<1>4. \A s \in Server : store[s].log = <<>> /\ store[s].posi = 0 /\ acks[s].pOk = 0 /\ acks[s].cOk = 0
  BY DEF Init, EmptyStore, NoAcks
<1>5. \A x : ~Seen(x)
  <2>1. Ids(<<>>) = {}
    BY DEF Ids
  <2> QED
    BY <1>3, <1>4, <2>1 DEF Seen
<1>6. Fits(0)
  <2>1. \A n \in Nat : Reached(n) => n = 0
    BY <1>3, <1>4 DEF Reached
  <2>2. issued = 0 /\ Nodes \in Nat /\ Nodes * 0 = 0 /\ MaxCmd \in Nat
    BY Finite, ClusterConstants DEF Init
  <2>3. \A n \in Nat : Reached(n) => n + 0 <= Nodes * issued
    BY <2>1, <2>2
  <2>4. \A s \in Server : store[s].posi = Len(store[s].log)
    BY <1>4
  <2> QED
    BY <2>2, <2>3, <2>4 DEF Fits
<1>7. ~Asked
  BY <1>3 DEF Asked
<1>8. Free
  BY <1>3, <1>4, <1>5, <1>6, <1>7 DEF Free, Tally
<1> QED
  BY <1>1, <1>3, <1>8 DEF CommandInv, Single, Course

\* Every step keeps the course of the command, as long as no process starts
\* again and no LEADER orders a rollback.
LEMMA CommandStep ==
  ASSUME OneByOne, NoRollback, NoRollback', CommandInv, Inv', Next, \A s \in Server : ~Restart(s)
  PROVE  CommandInv'
<1>1. Nodes <= 4
  BY DEF OneByOne
<1>2. ASSUME NEW s \in Server, Threads(s) \/ Crash(s) \/ Restart(s)
      PROVE  CommandInv'
  BY <1>2, TimerNoise, HeartNoise, FaultNoise DEF Threads
<1>3. ASSUME NEW c \in Client, Submit(c)
      PROVE  CommandInv'
  BY <1>3, SubmitStep
<1>4. ASSUME NEW a \in Node, NEW s \in Server, NEW n \in 1 .. Len(net[a][s]),
             HandleClient(a, s, n) \/ Lose(a, s, n)
      PROVE  CommandInv'
  BY <1>4, ClientStep, FaultNoise
<1>5. ASSUME NEW a \in Server, NEW s \in Server, NEW n \in 1 .. Len(net[a][s]), DropHeart(a, s, n)
      PROVE  CommandInv'
  BY <1>5, HeartNoise
<1>6. ASSUME NEW a \in Server, NEW s \in Server, NEW n \in 1 .. Len(net[a][s]), PerformComm(a, s, n)
      PROVE  CommandInv'
  <2>1. CASE HandleVote(a, s, n) \/ HandleVoteRe(a, s, n)
    BY <2>1, VoteNoise
  <2>2. CASE HandleHeart(a, s, n) \/ HandleHeartRe(a, s, n) \/ HandleRollRe(a, s, n)
    BY <2>2, BeatNoise
  <2>3. CASE HandleRecover(a, s, n)
    BY <2>3, RecoverNoise
  <2>4. CASE HandlePre(a, s, n)
    BY <2>4, PreStep
  <2>5. CASE HandlePreRe(a, s, n)
    BY <1>1, <2>5, PreReStep
  <2>6. CASE HandleCom(a, s, n)
    BY <2>6, ComStep
  <2>7. CASE HandleComRe(a, s, n)
    BY <1>1, <2>7, ComReStep
  <2>8. CASE HandleRoll(a, s, n)
    BY <2>8 DEF HandleRoll, Receives, NoRollback
  <2> QED
    BY <1>6, <2>1, <2>2, <2>3, <2>4, <2>5, <2>6, <2>7, <2>8 DEF PerformComm
<1> QED
  BY <1>2, <1>3, <1>4, <1>5, <1>6 DEF Next

\* An entry committed somewhere is in the log of every running node.
LEMMA FinalWritten ==
  ASSUME CommandInv
  PROVE  WrittenFirst
<1> SUFFICES ASSUME NEW s \in Server, NEW n \in 1 .. Len(store[s].log),
                    store[s].log[n].state = "COMMIT", NEW b \in Server, Running(b)
             PROVE  \E p \in 1 .. Len(store[b].log) : Holds(b, p, store[s].log[n])
  BY DEF WrittenFirst
<1> DEFINE e == store[s].log[n]
<1>1. Final(Id(e))
  BY DEF Final, Done
<1>2. Id(e) \in Ids(store[b].log)
  BY <1>1, CourseFacts DEF Spread
<1> HIDE DEF e
<1>3. PICK p \in 1 .. Len(store[b].log) : Id(e) = Id(store[b].log[p])
  BY <1>2 DEF Ids
<1>4. Len(store[b].log) \in Nat
  <2>1. store[b].log \in Seq(Entry)
    BY DEF CommandInv, Inv, TypeOK, Store
  <2> QED
    BY <2>1
<1>5. p <= Len(store[b].log)
  BY <1>4
<1>6. Holds(b, p, e)
  BY <1>3, <1>5 DEF Holds, Id
<1> QED
  BY <1>6 DEF e

\* While nodes time out and elect one another, messages are lost, doubled by
\* recovery or overtaken, and nodes crash, no node commits a command before
\* every running node has it in its log.  This holds of clusters of up to
\* four nodes whose clients wait for one another, as long as no process
\* starts again and no LEADER has ordered a rollback.
THEOREM CommandsAreWritten ==
  ASSUME OneByOne
  PROVE  Spec /\ [][\A s \in Server : ~Restart(s)]_vars /\ []NoRollback => []WrittenFirst
<1>1. Init => CommandInv
  BY InitCommand
<1>2. /\ Inv' /\ [Next]_vars /\ [\A s \in Server : ~Restart(s)]_vars
      /\ NoRollback /\ NoRollback' /\ CommandInv
      => CommandInv'
  <2> SUFFICES ASSUME Inv', [Next]_vars, [\A s \in Server : ~Restart(s)]_vars,
                      NoRollback, NoRollback', CommandInv
               PROVE  CommandInv'
    OBVIOUS
  <2>1. CASE UNCHANGED vars
    <3>1. /\ net' = net /\ store' = store /\ status' = status /\ acks' = acks
          /\ pending' = pending /\ issued' = issued
      BY <2>1 DEF vars, data, users, env
    <3>2. Harmless(net')
      BY <3>1, HarmlessSame DEF CommandInv
    <3> QED
      BY <3>1, <3>2, NoiseStep
  <2>2. CASE Next /\ \A s \in Server : ~Restart(s)
    BY <2>2, CommandStep
  <2> QED
    BY <2>1, <2>2
<1>3. CommandInv => WrittenFirst
  BY FinalWritten
<1> QED
  BY <1>1, <1>2, <1>3, Invariance, PTL DEF Spec
=============================================================================
