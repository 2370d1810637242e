-------------------------- MODULE Pipeline_proofs ---------------------------
(***************************************************************************)
(* Proofs about the receiving side of a node, for any number of            *)
(* connections and any batch.                                              *)
(***************************************************************************)
EXTENDS Pipeline, SequenceTheorems, FiniteSetTheorems, TLAPS

-----------------------------------------------------------------------------
\* Sequences.

\* A head and a tail make up the sequence.
LEMMA HeadAndTail ==
  ASSUME NEW S, NEW q \in Seq(S), q # <<>>
  PROVE  /\ Head(q) \in S
         /\ Tail(q) \in Seq(S)
         /\ Len(Tail(q)) = Len(q) - 1
         /\ Len(q) > 0
         /\ q[1] = Head(q)
         /\ \A n \in 1 .. Len(Tail(q)) : Tail(q)[n] = q[n + 1]
         /\ <<Head(q)>> \o Tail(q) = q
<1>1. /\ Head(q) \in S /\ Tail(q) \in Seq(S) /\ Len(Tail(q)) = Len(q) - 1
      /\ \A n \in 1 .. Len(Tail(q)) : Tail(q)[n] = q[n + 1]
  BY HeadTailProperties
<1>2. Len(q) > 0 /\ q[1] = Head(q)
  BY DEF Head
<1>3. <<Head(q)>> \in Seq(S) /\ Len(<<Head(q)>>) = 1 /\ <<Head(q)>>[1] = Head(q)
  BY <1>1
<1>4. /\ <<Head(q)>> \o Tail(q) \in Seq(S)
      /\ Len(<<Head(q)>> \o Tail(q)) = Len(q)
      /\ \A i \in 1 .. Len(q) : (<<Head(q)>> \o Tail(q))[i] =
           IF i <= 1 THEN <<Head(q)>>[i] ELSE Tail(q)[i - 1]
  <2> DEFINE h == <<Head(q)>>
  <2>1. h \in Seq(S) /\ Tail(q) \in Seq(S) /\ Len(h) = 1 /\ Len(Tail(q)) = Len(q) - 1
    BY <1>1, <1>3
  <2> HIDE DEF h
  <2>2. /\ h \o Tail(q) \in Seq(S)
        /\ Len(h \o Tail(q)) = Len(h) + Len(Tail(q))
        /\ \A i \in 1 .. Len(h) + Len(Tail(q)) : (h \o Tail(q))[i] =
             IF i <= Len(h) THEN h[i] ELSE Tail(q)[i - Len(h)]
    BY <2>1, ConcatProperties
  <2>3. Len(q) \in Nat
    OBVIOUS
  <2>4. /\ h \o Tail(q) \in Seq(S)
        /\ Len(h \o Tail(q)) = Len(q)
        /\ \A i \in 1 .. Len(q) : (h \o Tail(q))[i] = IF i <= 1 THEN h[i] ELSE Tail(q)[i - 1]
    BY <2>1, <2>2, <2>3
  <2> QED
    BY <2>4 DEF h
<1>5. \A i \in 1 .. Len(q) : (<<Head(q)>> \o Tail(q))[i] = q[i]
  <2> SUFFICES ASSUME NEW i \in 1 .. Len(q)
               PROVE  (<<Head(q)>> \o Tail(q))[i] = q[i]
    OBVIOUS
  <2>1. CASE i = 1
    BY <1>2, <1>3, <1>4, <2>1
  <2>2. CASE i # 1
    BY <1>1, <1>4, <2>2
  <2> QED
    BY <2>1, <2>2
<1>6. <<Head(q)>> \o Tail(q) = q
  BY <1>4, <1>5, SeqEqual
<1> QED
  BY <1>1, <1>2, <1>6

\* What First and Rest take apart belongs together.
LEMMA FirstAndRest ==
  ASSUME NEW S, NEW q \in Seq(S)
  PROVE  /\ First(q) \in Seq(S)
         /\ Rest(q) \in Seq(S)
         /\ First(q) \o Rest(q) = q
         /\ q = <<>> => First(q) = <<>> /\ Rest(q) = <<>>
         /\ q # <<>> => First(q) = <<Head(q)>> /\ Rest(q) = Tail(q)
<1>1. CASE q = <<>>
  <2>1. First(q) = <<>> /\ Rest(q) = <<>>
    BY <1>1, SubSeqEmpty DEF First, Rest
  <2> QED
    BY <1>1, <2>1, ConcatEmptySeq
<1>2. CASE q # <<>>
  <2>1. Rest(q) = Tail(q)
    BY <1>2, TailIsSubSeq DEF Rest
  <2>2. Len(q) \in Nat /\ Len(q) > 0
    BY <1>2, HeadAndTail
  <2>3. SubSeq(q, 1, 1) = <<q[1]>> \o SubSeq(q, 2, 1)
    BY <2>2, SubSeqRecursiveFirst, 1 \in 1 .. Len(q), 1 \in 1 .. 1
  <2>4. SubSeq(q, 2, 1) = <<>>
    BY SubSeqEmpty
  <2>5. First(q) = <<Head(q)>>
    <3>1. q[1] = Head(q) /\ Head(q) \in S
      BY <1>2, HeadAndTail
    <3>2. <<q[1]>> \in Seq(S)
      BY <3>1
    <3> QED
      BY <2>3, <2>4, <3>1, <3>2, ConcatEmptySeq DEF First
  <2>6. Head(q) \in S /\ Tail(q) \in Seq(S) /\ <<Head(q)>> \o Tail(q) = q
    BY <1>2, HeadAndTail
  <2> QED
    BY <1>2, <2>1, <2>5, <2>6
<1> QED
  BY <1>1, <1>2

\* The head of b moves to the end of a, behind y.
LEMMA HeadMovesBehind ==
  ASSUME NEW y \in Seq(Conn), NEW a \in Seq(Conn), NEW b \in Seq(Conn), b # <<>>
  PROVE  (y \o Append(a, Head(b))) \o Tail(b) = (y \o a) \o b
<1> DEFINE h == <<Head(b)>>
           t == Tail(b)
<1>1. h \in Seq(Conn) /\ t \in Seq(Conn)
  BY HeadAndTail
<1>0. h \o t = b
  BY HeadAndTail
<1>2. Append(a, Head(b)) = a \o h
  BY HeadAndTail, AppendIsConcat
<1> HIDE DEF h, t
<1>3. y \o a \in Seq(Conn)
  BY ConcatProperties
<1>4. (y \o a) \o h = y \o (a \o h)
  BY <1>1, ConcatAssociative
<1>5. ((y \o a) \o h) \o t = (y \o a) \o (h \o t)
  BY <1>1, <1>3, ConcatAssociative
<1> QED
  BY <1>2, <1>4, <1>5, <1>0 DEF t

\* The head of b moves into an empty hand behind y.
LEMMA HeadTaken ==
  ASSUME NEW y \in Seq(Conn), NEW b \in Seq(Conn), b # <<>>
  PROVE  (y \o <<Head(b)>>) \o Tail(b) = (y \o <<>>) \o b
<1>1. <<Head(b)>> \in Seq(Conn) /\ Tail(b) \in Seq(Conn)
  BY HeadAndTail
<1>2. (y \o <<Head(b)>>) \o Tail(b) = y \o (<<Head(b)>> \o Tail(b))
  BY <1>1, ConcatAssociative
<1>3. <<Head(b)>> \o Tail(b) = b
  BY HeadAndTail
<1>4. y \o <<>> = y
  BY ConcatEmptySeq
<1> QED
  BY <1>2, <1>3, <1>4

\* The first entry of b, when there is one, moves behind y.
LEMMA FirstTaken ==
  ASSUME NEW y \in Seq(Conn), NEW b \in Seq(Conn)
  PROVE  (y \o First(b)) \o Rest(b) = y \o b
<1>1. First(b) \in Seq(Conn) /\ Rest(b) \in Seq(Conn)
  BY FirstAndRest
<1>2. (y \o First(b)) \o Rest(b) = y \o (First(b) \o Rest(b))
  BY <1>1, ConcatAssociative
<1>3. First(b) \o Rest(b) = b
  BY FirstAndRest
<1> QED
  BY <1>2, <1>3

\* All of b moves to the end of a, behind y.
LEMMA AllMoved ==
  ASSUME NEW y \in Seq(Conn), NEW a \in Seq(Conn), NEW b \in Seq(Conn)
  PROVE  (y \o (a \o b)) \o <<>> = (y \o a) \o b
<1>1. a \o b \in Seq(Conn)
  BY ConcatProperties
<1>2. y \o (a \o b) \in Seq(Conn)
  BY <1>1, ConcatProperties
<1>3. (y \o (a \o b)) \o <<>> = y \o (a \o b)
  BY <1>2, ConcatEmptySeq
<1>4. (y \o a) \o b = y \o (a \o b)
  BY ConcatAssociative
<1> QED
  BY <1>3, <1>4

-----------------------------------------------------------------------------
\* The types.

\* TypeOK holds initially.
LEMMA InitTypes ==
  Init => TypeOK
BY DEF Init, TypeOK

\* A step of the acceptor keeps the types.
LEMMA AcceptorTypes ==
  ASSUME TypeOK, Acceptor \/ \E c \in Conn : Accept(c)
  PROVE  TypeOK'
<1>1. CASE \E c \in Conn : Accept(c)
  BY <1>1 DEF TypeOK, Accept, handling, getting, parsing, taking, closing, history
<1>2. CASE AcceptRead
  BY <1>2 DEF TypeOK, AcceptRead, handling, getting, parsing, taking, closing, history
<1>3. CASE AcceptWrite
  BY <1>3 DEF TypeOK, AcceptWrite, handling, getting, parsing, taking, closing, history
<1> QED
  BY <1>1, <1>2, <1>3 DEF Acceptor

\* A step of a Task keeps the types.
LEMMA TaskTypes ==
  ASSUME TypeOK, NEW c \in Conn, TaskRecv(c) \/ Queuer(c)
  PROVE  TypeOK'
<1>1. CASE TaskRecv(c)
  BY <1>1 DEF TypeOK, TaskRecv, counting, handling, getting, parsing, taking, closing, history
<1>2. CASE TaskPush(c)
  BY <1>2 DEF TypeOK, TaskPush, counting, getting, parsing, taking, closing
<1>3. CASE TaskPost(c)
  BY <1>3 DEF TypeOK, TaskPost, TaskToken, counting, getting, parsing, taking, closing, history
<1> QED
  BY <1>1, <1>2, <1>3 DEF Queuer

\* A step of handle_while keeps the types.
LEMMA HandlerTypes ==
  ASSUME TypeOK, Handler
  PROVE  TypeOK'
<1>1. CASE HandleWait
  BY <1>1 DEF TypeOK, HandleWait, Woken, counting, getting, parsing, taking, closing, history
<1>2. CASE HandleTake
  <2>1. Head(Message) \in Conn /\ Tail(Message) \in Seq(Conn)
    BY <1>2, HeadAndTail DEF HandleTake, TypeOK
  <2> QED
    BY <1>2, <2>1 DEF TypeOK, HandleTake, counting, getting, parsing, taking, closing, history
<1>3. CASE HandleTaken
  BY <1>3 DEF TypeOK, HandleTaken, counting, getting, parsing, taking, closing, history
<1>4. CASE HandlePush
  <2>1. Head(descT) \in Conn /\ Tail(descT) \in Seq(Conn)
    BY <1>4, HeadAndTail DEF HandlePush, TypeOK
  <2> QED
    BY <1>4, <2>1 DEF TypeOK, HandlePush, Front, counting, parsing, taking, closing, history
<1>5. CASE HandlePost
  BY <1>5 DEF TypeOK, HandlePost, HandleToken, counting, parsing, taking, closing, history
<1>6. CASE HandleEnd
  BY <1>6 DEF TypeOK, HandleEnd, counting, getting, parsing, taking, closing, history
<1> QED
  BY <1>1, <1>2, <1>3, <1>4, <1>5, <1>6 DEF Handler

\* A step of getCommand keeps the types.
LEMMA GetterTypes ==
  ASSUME TypeOK, Getter
  PROVE  TypeOK'
<1>1. CASE GetWait
  BY <1>1 DEF TypeOK, GetWait, counting, handling, parsing, taking, closing, history
<1>2. CASE GetPop
  <2>1. Head(message) \in Conn /\ Tail(message) \in Seq(Conn)
    BY <1>2, HeadAndTail DEF GetPop, TypeOK
  <2>2. <<Head(message)>> \in Seq(Conn)
    BY <2>1
  <2> QED
    BY <1>2, <2>1, <2>2 DEF TypeOK, GetPop, counting, handling, parsing, taking, history
<1>3. CASE GetPush
  <2>1. cmdQueue \o cmd \in Seq(Conn) /\ <<>> \in Seq(Conn)
    BY ConcatProperties DEF TypeOK
  <2> QED
    BY <1>3, <2>1 DEF TypeOK, GetPush, counting, handling, taking, closing, history
<1> QED
  BY <1>1, <1>2, <1>3 DEF Getter

\* A step of PCommandParser or performComm keeps the types.
LEMMA ParserTypes ==
  ASSUME TypeOK, Parser \/ PerformTake
  PROVE  TypeOK'
<1>1. CASE ParseTake
  <2>1. First(cmdQueue) \in Seq(Conn) /\ Rest(cmdQueue) \in Seq(Conn)
    BY FirstAndRest DEF TypeOK
  <2> QED
    BY <1>1, <2>1 DEF TypeOK, ParseTake, counting, handling, getting, taking, closing, history
<1>2. CASE ParsePush
  <2>1. comQueue \o com \in Seq(Conn) /\ <<>> \in Seq(Conn)
    BY ConcatProperties DEF TypeOK
  <2> QED
    BY <1>2, <2>1 DEF TypeOK, ParsePush, counting, handling, getting, closing, history
<1>3. CASE PerformTake
  <2>1. First(comQueue) \in Seq(Conn) /\ Rest(comQueue) \in Seq(Conn)
    BY FirstAndRest DEF TypeOK
  <2>2. received \o First(comQueue) \in Seq(Conn)
    BY <2>1, ConcatProperties DEF TypeOK
  <2> QED
    BY <1>3, <2>1, <2>2 DEF TypeOK, PerformTake, counting, handling, getting, parsing, closing
<1> QED
  BY <1>1, <1>2, <1>3 DEF Parser

\* A step of a closing thread keeps the types.
LEMMA CloserTypes ==
  ASSUME TypeOK, NEW c \in Conn, Closer(c)
  PROVE  TypeOK'
<1>1. CASE CloseLock(c)
  BY <1>1 DEF TypeOK, CloseLock, counting, handling, getting, parsing, taking, history
<1>2. CASE CloseRead(c)
  BY <1>2 DEF TypeOK, CloseRead, counting, handling, getting, parsing, taking, history
<1>3. CASE CloseWrite(c)
  BY <1>3 DEF TypeOK, CloseWrite, handling, getting, parsing, taking, history
<1> QED
  BY <1>1, <1>2, <1>3 DEF Closer

\* Every step keeps the types.
LEMMA StepTypes ==
  TypeOK /\ [Next]_vars => TypeOK'
<1> SUFFICES ASSUME TypeOK, [Next]_vars PROVE TypeOK'
  OBVIOUS
<1>1. CASE UNCHANGED vars
  BY <1>1 DEF TypeOK, vars, counting, handling, getting, parsing, taking, closing, history
<1>2. CASE Next
  BY <1>2, AcceptorTypes, TaskTypes, HandlerTypes, GetterTypes, ParserTypes, CloserTypes
     DEF Next
<1> QED
  BY <1>1, <1>2

\* The state of the threads and of their queues is well formed throughout.
THEOREM PipelineTyped ==
  Spec => []TypeOK
<1> QED
  BY InitTypes, StepTypes, PTL DEF Spec

-----------------------------------------------------------------------------
(***************************************************************************)
(* The count of the connections.  Only one thread at a time is between its *)
(* test of num_client and its write; the acceptor, which may write in      *)
(* between, never writes less than one.                                    *)
(***************************************************************************)
Counted ==
  /\ num_client >= 0
  /\ seen >= 0
  /\ \A c \in Conn : closer[c] = "read" => num_client > 0
  /\ \A c \in Conn : closer[c] = "write" => left[c] > 0
  /\ \A c, d \in Uncounting : c = d

\* Counted is inductive.
LEMMA StepCounted ==
  TypeOK /\ Counted /\ [Next]_vars => Counted'
<1> SUFFICES ASSUME TypeOK, Counted, [Next]_vars PROVE Counted'
  OBVIOUS
<1> USE DEF Counted, TypeOK, Uncounting
<1>1. CASE UNCHANGED <<seen, num_client, closer, left>>
  BY <1>1
<1>2. CASE AcceptRead
  BY <1>2 DEF AcceptRead, closing
<1>3. CASE AcceptWrite
  BY <1>3 DEF AcceptWrite, closing
<1>4. CASE GetPop
  <2>1. Head(message) \in Conn
    BY <1>4, HeadAndTail DEF GetPop
  <2> QED
    BY <1>4, <2>1 DEF GetPop, counting
<1>5. ASSUME NEW c \in Conn, CloseLock(c) PROVE Counted'
  BY <1>5 DEF CloseLock, counting
<1>6. ASSUME NEW c \in Conn, CloseRead(c) PROVE Counted'
  BY <1>6 DEF CloseRead, counting
<1>7. ASSUME NEW c \in Conn, CloseWrite(c) PROVE Counted'
  BY <1>7 DEF CloseWrite
<1>8. CASE \/ HandleWait \/ HandleTake \/ HandleTaken \/ HandlePush \/ HandlePost \/ HandleEnd
           \/ GetWait \/ GetPush \/ Parser \/ PerformTake
  BY <1>1, <1>8 DEF HandleWait, HandleTake, HandleTaken, HandlePush, HandlePost, HandleEnd,
     GetWait, GetPush, Parser, ParseTake, ParsePush, PerformTake, counting, closing
<1>9. ASSUME NEW c \in Conn, Accept(c) \/ TaskRecv(c) \/ Queuer(c) PROVE Counted'
  BY <1>1, <1>9 DEF Accept, TaskRecv, Queuer, TaskPush, TaskPost, counting, closing
<1>10. CASE UNCHANGED vars
  BY <1>1, <1>10 DEF vars, counting, closing
<1> QED
  BY <1>2, <1>3, <1>4, <1>5, <1>6, <1>7, <1>8, <1>9, <1>10
     DEF Next, Acceptor, Handler, Getter, Closer

\* num_client is never negative: serverThread is not written before its
\* beginning, whatever the acceptor and the closing threads undo.
THEOREM CountStaysNatural ==
  Spec => []CountNeverNegative
<1>1. Init => Counted
  BY DEF Init, Counted, Uncounting
<1>2. Counted => CountNeverNegative
  BY DEF Counted, CountNeverNegative
<1> QED
  BY <1>1, <1>2, StepCounted, PipelineTyped, PTL DEF Spec

-----------------------------------------------------------------------------
(***************************************************************************)
(* The tokens of message, cmdQueue and comQueue: there are as many as      *)
(* entries, but for the entry just pushed and the token just taken.        *)
(***************************************************************************)
Tokens ==
  /\ Len(message) = ROsem1 + (IF hpc = "post" THEN 1 ELSE 0) + (IF gpc = "pop" THEN 1 ELSE 0)
  /\ Len(cmdQueue) = psem0
  /\ Len(comQueue) = psem1
  /\ Len(cmd) = IF gpc = "push" THEN 1 ELSE 0
  /\ Len(com) = IF ppc = "push" THEN 1 ELSE 0

\* Tokens is inductive.
LEMMA StepTokens ==
  TypeOK /\ Tokens /\ [Next]_vars => Tokens'
<1> SUFFICES ASSUME TypeOK, Tokens, [Next]_vars PROVE Tokens'
  OBVIOUS
<1> USE DEF Tokens
<1>1. CASE UNCHANGED <<message, ROsem1, hpc, gpc, cmd, cmdQueue, psem0, ppc, com, comQueue, psem1>>
  BY <1>1
<1>2. CASE HandleWait \/ HandleTake \/ HandleTaken \/ HandleEnd
  BY <1>2 DEF HandleWait, HandleTake, HandleTaken, HandleEnd, getting, parsing, taking
<1>3. CASE HandlePush
  <2>1. Len(Append(message, Head(descT))) = Len(message) + 1
    BY <1>3, HeadAndTail, AppendProperties DEF HandlePush, TypeOK
  <2> QED
    BY <1>3, <2>1 DEF HandlePush, Front, parsing, taking, TypeOK
<1>4. CASE HandlePost
  BY <1>4 DEF HandlePost, HandleToken, parsing, taking, TypeOK
<1>5. CASE GetWait
  BY <1>5 DEF GetWait, handling, parsing, taking, TypeOK
<1>6. CASE GetPop
  <2>1. Len(Tail(message)) = Len(message) - 1 /\ Len(<<Head(message)>>) = 1
    BY <1>6, HeadAndTail DEF GetPop, TypeOK
  <2> QED
    BY <1>6, <2>1 DEF GetPop, handling, parsing, taking, TypeOK
<1>7. CASE GetPush
  <2>1. Len(cmdQueue \o cmd) = Len(cmdQueue) + Len(cmd) /\ Len(<<>>) = 0
    BY ConcatProperties DEF TypeOK
  <2> QED
    BY <1>7, <2>1 DEF GetPush, handling, taking, TypeOK
<1>8. CASE ParseTake
  <2>1. cmdQueue # <<>>
    BY <1>8 DEF ParseTake, TypeOK
  <2>2. First(cmdQueue) = <<Head(cmdQueue)>> /\ Rest(cmdQueue) = Tail(cmdQueue)
    BY <2>1, FirstAndRest DEF TypeOK
  <2>3. Len(Tail(cmdQueue)) = Len(cmdQueue) - 1 /\ Len(<<Head(cmdQueue)>>) = 1
    BY <2>1, HeadAndTail DEF TypeOK
  <2> QED
    BY <1>8, <2>1, <2>2, <2>3 DEF ParseTake, handling, getting, taking, TypeOK
<1>9. CASE ParsePush
  <2>1. Len(comQueue \o com) = Len(comQueue) + Len(com) /\ Len(<<>>) = 0
    BY ConcatProperties DEF TypeOK
  <2> QED
    BY <1>9, <2>1 DEF ParsePush, handling, getting, TypeOK
<1>10. CASE PerformTake
  <2>1. comQueue # <<>>
    BY <1>10 DEF PerformTake, TypeOK
  <2>2. Rest(comQueue) = Tail(comQueue)
    BY <2>1, FirstAndRest DEF TypeOK
  <2>3. Len(Tail(comQueue)) = Len(comQueue) - 1
    BY <2>1, HeadAndTail DEF TypeOK
  <2> QED
    BY <1>10, <2>2, <2>3 DEF PerformTake, handling, getting, parsing, TypeOK
<1>11. CASE Acceptor
  BY <1>1, <1>11 DEF Acceptor, AcceptRead, AcceptWrite, handling, getting, parsing, taking
<1>12. ASSUME NEW c \in Conn, Accept(c) \/ TaskRecv(c) \/ Queuer(c) \/ Closer(c)
       PROVE  Tokens'
  BY <1>1, <1>12 DEF Accept, TaskRecv, Queuer, TaskPush, TaskPost, Closer, CloseLock,
     CloseRead, CloseWrite, handling, getting, parsing, taking
<1>13. CASE UNCHANGED vars
  BY <1>1, <1>13 DEF vars, handling, getting, parsing, taking
<1> QED
  BY <1>2, <1>3, <1>4, <1>5, <1>6, <1>7, <1>8, <1>9, <1>10, <1>11, <1>12, <1>13
     DEF Next, Handler, Getter, Parser

\* Whoever has taken a token finds its queue filled: getCommand never returns
\* with RUSmt locked.
THEOREM TokensAreWorthIt ==
  Spec => []NeverEmptyHanded
<1>1. Init => Tokens
  BY DEF Init, Tokens
<1>2. TypeOK /\ Tokens => NeverEmptyHanded
  BY DEF TypeOK, Tokens, NeverEmptyHanded
<1> QED
  BY <1>1, <1>2, StepTokens, PipelineTyped, PTL DEF Spec

-----------------------------------------------------------------------------
(***************************************************************************)
(* The tokens of Message.  There may be more of them than messages, since  *)
(* handle_while also takes messages whose token it has not taken; one that *)
(* has just taken a token, and no message yet, still owes that token one.  *)
(***************************************************************************)
Owes == IF hpc = "drain" /\ descT = <<>> THEN 1 ELSE 0

Wakeups ==
  /\ \A c, d \in Posting : c = d
  /\ hpc = "wait" => descT = <<>>
  /\ Len(Message) <= ROsem0 + (IF Posting # {} THEN 1 ELSE 0) + Owes

\* Wakeups is inductive.
LEMMA StepWakeups ==
  TypeOK /\ Wakeups /\ [Next]_vars => Wakeups'
<1> SUFFICES ASSUME TypeOK, Wakeups, [Next]_vars PROVE Wakeups'
  OBVIOUS
<1> USE DEF Wakeups, Posting
<1>1. CASE UNCHANGED <<task, Message, ROsem0, hpc, descT>>
  BY <1>1 DEF Owes
<1>2. ASSUME NEW c \in Conn, Accept(c) \/ TaskRecv(c) PROVE Wakeups'
  <2>1. UNCHANGED <<Message, ROsem0, hpc, descT>>
    BY <1>2 DEF Accept, TaskRecv, handling
  <2>2. Posting' = Posting
    BY <1>2 DEF Accept, TaskRecv, TypeOK
  <2> QED
    BY <2>1, <2>2 DEF Owes
<1>3. ASSUME NEW c \in Conn, TaskPush(c) PROVE Wakeups'
  <2>1. Len(Append(Message, c)) = Len(Message) + 1
    BY AppendProperties DEF TypeOK
  <2>2. Posting = {} /\ Posting' = {c}
    BY <1>3 DEF TaskPush, TypeOK
  <2>3. UNCHANGED <<ROsem0, hpc, descT>> /\ Message' = Append(Message, c)
    BY <1>3 DEF TaskPush
  <2>4. Owes' = Owes /\ Owes \in Nat
    BY <2>3 DEF Owes
  <2>5. Len(Message) \in Nat /\ ROsem0 \in Nat /\ Len(Message) <= ROsem0 + 0 + Owes
    BY <2>2 DEF TypeOK
  <2>6. Len(Message') <= ROsem0' + (IF Posting' # {} THEN 1 ELSE 0) + Owes'
    BY <2>1, <2>2, <2>3, <2>4, <2>5
  <2> QED
    BY <2>2, <2>3, <2>6
<1>4. ASSUME NEW c \in Conn, TaskPost(c) PROVE Wakeups'
  <2>1. Posting = {c} /\ Posting' = {}
    BY <1>4 DEF TaskPost, TypeOK
  <2>2. UNCHANGED <<Message, hpc, descT>> /\ ROsem0' = ROsem0 + 1
    BY <1>4 DEF TaskPost, TaskToken
  <2> QED
    BY <2>1, <2>2 DEF Owes, TypeOK
<1>5. CASE HandleWait
  BY <1>5 DEF HandleWait, Woken, Owes, TypeOK
<1>6. CASE HandleTake
  <2>1. Len(Tail(Message)) = Len(Message) - 1 /\ Head(Message) \in Conn
    BY <1>6, HeadAndTail DEF HandleTake, TypeOK
  <2>2. descT \in Seq(Conn)
    BY DEF TypeOK
  <2>3. Append(descT, Head(Message)) # <<>>
    BY <2>1, <2>2, AppendProperties
  <2>4. descT' # <<>> /\ Message' = Tail(Message) /\ UNCHANGED <<task, ROsem0, hpc>> /\ hpc = "drain"
    BY <1>6, <2>3 DEF HandleTake
  <2>5. Posting' = Posting /\ Owes' = 0 /\ Owes \in 0 .. 1
    BY <2>4 DEF Owes
  <2>6. Len(Message) \in Nat /\ ROsem0 \in Nat
    BY DEF TypeOK
  <2>7. Len(Message') <= ROsem0' + (IF Posting' # {} THEN 1 ELSE 0) + Owes'
    BY <2>1, <2>4, <2>5, <2>6
  <2> QED
    BY <2>4, <2>5, <2>7
<1>7. CASE HandleTaken
  <2>1. Message = <<>> \/ descT # <<>>
    BY <1>7, PipelineConstants DEF HandleTaken, TypeOK
  <2> QED
    BY <1>7, <2>1 DEF HandleTaken, Owes, TypeOK
<1>8. CASE HandlePush \/ HandlePost \/ HandleEnd
  BY <1>8 DEF HandlePush, HandlePost, HandleEnd, Owes
<1>9. CASE Acceptor \/ Getter \/ Parser \/ PerformTake
  BY <1>1, <1>9 DEF Acceptor, AcceptRead, AcceptWrite, Getter, GetWait, GetPop, GetPush,
     Parser, ParseTake, ParsePush, PerformTake, handling
<1>10. ASSUME NEW c \in Conn, Closer(c) PROVE Wakeups'
  BY <1>1, <1>10 DEF Closer, CloseLock, CloseRead, CloseWrite, handling
<1>11. CASE UNCHANGED vars
  BY <1>1, <1>11 DEF vars, handling
<1> QED
  BY <1>2, <1>3, <1>4, <1>5, <1>6, <1>7, <1>8, <1>9, <1>10, <1>11 DEF Next, Handler, Queuer

\* While handle_while waits, every message in Message has its token: none is
\* left behind until the next one arrives.
THEOREM NoneLeftBehind ==
  Spec => []NoLostWakeup
<1>1. Init => Wakeups
  BY DEF Init, Wakeups, Posting, Owes
<1>2. TypeOK /\ Wakeups => NoLostWakeup
  <2> SUFFICES ASSUME TypeOK, Wakeups, hpc = "wait"
               PROVE  Len(Message) <= ROsem0 + Cardinality(Posting)
    BY DEF NoLostWakeup
  <2>1. CASE Posting = {}
    <3>1. Cardinality(Posting) = 0
      BY <2>1, FS_EmptySet
    <3> QED
      BY <2>1, <3>1 DEF Wakeups, Owes, TypeOK
  <2>2. CASE Posting # {}
    <3>1. PICK c \in Posting : Posting = {c}
      BY <2>2 DEF Wakeups
    <3>2. Cardinality(Posting) = 1
      BY <3>1, FS_Singleton
    <3> QED
      BY <2>2, <3>2 DEF Wakeups, Owes, TypeOK
  <2> QED
    BY <2>1, <2>2
<1> QED
  BY <1>1, <1>2, StepWakeups, PipelineTyped, PTL DEF Spec

-----------------------------------------------------------------------------
(***************************************************************************)
(* Order.                                                                  *)
(***************************************************************************)

\* InOrder is inductive as it stands, but for the two commands in hand.
LEMMA StepInOrder ==
  TypeOK /\ Tokens /\ InOrder /\ [Next]_vars => InOrder'
<1> SUFFICES ASSUME TypeOK, Tokens, InOrder, [Next]_vars PROVE InOrder'
  OBVIOUS
<1> DEFINE A == received \o comQueue
           B == A \o com
           C == B \o cmdQueue
           D == C \o cmd
           E == D \o message
           F == E \o descT
<1>1. arrived = F \o Message
  BY DEF InOrder
<1>2. /\ received \in Seq(Conn) /\ comQueue \in Seq(Conn) /\ com \in Seq(Conn)
      /\ cmdQueue \in Seq(Conn) /\ cmd \in Seq(Conn) /\ message \in Seq(Conn)
      /\ descT \in Seq(Conn) /\ Message \in Seq(Conn)
  BY DEF TypeOK
<1>3. A \in Seq(Conn)
  BY <1>2, ConcatProperties
<1>4. B \in Seq(Conn)
  BY <1>2, <1>3, ConcatProperties
<1>5. C \in Seq(Conn)
  BY <1>2, <1>4, ConcatProperties
<1>6. D \in Seq(Conn)
  BY <1>2, <1>5, ConcatProperties
<1>7. E \in Seq(Conn)
  BY <1>2, <1>6, ConcatProperties
<1>8. F \in Seq(Conn)
  BY <1>2, <1>7, ConcatProperties
<1>9. SUFFICES arrived' = (F \o Message)'
  BY DEF InOrder
<1>10. CASE UNCHANGED <<arrived, received, comQueue, com, cmdQueue, cmd, message, descT, Message>>
  BY <1>1, <1>10
<1>11. ASSUME NEW c \in Conn, TaskPush(c) PROVE arrived' = (F \o Message)'
  <2>1. /\ UNCHANGED <<received, comQueue, com, cmdQueue, cmd, message, descT>>
        /\ Message' = Append(Message, c)
        /\ arrived' = Append(arrived, c)
    BY <1>11 DEF TaskPush, getting, parsing, taking
  <2>2. F' = F
    BY <2>1
  <2> HIDE DEF F
  <2>3. Append(Message, c) = Message \o <<c>>
    BY <1>2, AppendIsConcat
  <2>4. Append(arrived, c) = arrived \o <<c>>
    BY AppendIsConcat DEF TypeOK
  <2>5. F \o (Message \o <<c>>) = (F \o Message) \o <<c>>
    <3>1. <<c>> \in Seq(Conn)
      OBVIOUS
    <3> QED
      BY <1>2, <1>8, <3>1, ConcatAssociative
  <2> QED
    BY <1>1, <2>1, <2>2, <2>3, <2>4, <2>5
<1>12. CASE HandleTake
  <2>1. /\ UNCHANGED <<arrived, received, comQueue, com, cmdQueue, cmd, message>>
        /\ Message # <<>>
        /\ descT' = Append(descT, Head(Message))
        /\ Message' = Tail(Message)
    BY <1>12 DEF HandleTake, getting, parsing, taking, history
  <2>2. E' = E
    BY <2>1
  <2>3. Message # <<>>
    BY <2>1
  <2> HIDE DEF E
  <2>4. (E \o Append(descT, Head(Message))) \o Tail(Message) = (E \o descT) \o Message
    BY <1>2, <1>7, <2>3, HeadMovesBehind
  <2> QED
    BY <1>1, <2>1, <2>2, <2>4
<1>13. CASE HandlePush
  <2>1. /\ UNCHANGED <<arrived, received, comQueue, com, cmdQueue, cmd, Message>>
        /\ descT # <<>>
        /\ message' = Append(message, Head(descT))
        /\ descT' = Tail(descT)
    BY <1>13 DEF HandlePush, Front, parsing, taking, history
  <2>2. D' = D
    BY <2>1
  <2>3. descT # <<>>
    BY <2>1
  <2> HIDE DEF D
  <2>4. (D \o Append(message, Head(descT))) \o Tail(descT) = (D \o message) \o descT
    BY <1>2, <1>6, <2>3, HeadMovesBehind
  <2> QED
    BY <1>1, <2>1, <2>2, <2>4
<1>14. CASE GetPop
  <2>1. /\ UNCHANGED <<arrived, received, comQueue, com, cmdQueue, descT, Message>>
        /\ message # <<>>
        /\ cmd = <<>>
        /\ cmd' = <<Head(message)>>
        /\ message' = Tail(message)
    BY <1>14 DEF GetPop, Tokens, TypeOK, handling, parsing, taking, history
  <2>2. C' = C
    BY <2>1
  <2> HIDE DEF C
  <2>4. (C \o <<Head(message)>>) \o Tail(message) = (C \o <<>>) \o message
    BY <1>2, <1>5, <2>1, HeadTaken
  <2> QED
    BY <1>1, <2>1, <2>2, <2>4
<1>15. CASE GetPush
  <2>1. /\ UNCHANGED <<arrived, received, comQueue, com, message, descT, Message>>
        /\ cmdQueue' = cmdQueue \o cmd
        /\ cmd' = <<>>
    BY <1>15 DEF GetPush, handling, taking, history
  <2>2. B' = B
    BY <2>1
  <2> HIDE DEF B
  <2>4. (B \o (cmdQueue \o cmd)) \o <<>> = (B \o cmdQueue) \o cmd
    BY <1>2, <1>4, AllMoved
  <2> QED
    BY <1>1, <2>1, <2>2, <2>4
<1>16. CASE ParseTake
  <2>1. /\ UNCHANGED <<arrived, received, comQueue, cmd, message, descT, Message>>
        /\ com = <<>>
        /\ com' = First(cmdQueue)
        /\ cmdQueue' = Rest(cmdQueue)
    BY <1>16 DEF ParseTake, Tokens, TypeOK, handling, getting, taking, history
  <2>2. A' = A
    BY <2>1
  <2>3. A \o <<>> = A
    BY <1>3, ConcatEmptySeq
  <2> HIDE DEF A
  <2>4. (A \o First(cmdQueue)) \o Rest(cmdQueue) = A \o cmdQueue
    BY <1>2, <1>3, FirstTaken
  <2> QED
    BY <1>1, <2>1, <2>2, <2>3, <2>4
<1>17. CASE ParsePush
  <2> DEFINE R == received
  <2>1. /\ UNCHANGED <<arrived, received, cmdQueue, cmd, message, descT, Message>>
        /\ comQueue' = comQueue \o com
        /\ com' = <<>>
    BY <1>17 DEF ParsePush, handling, getting, history
  <2>2. R' = R /\ R \in Seq(Conn)
    BY <1>2, <2>1
  <2> HIDE DEF R
  <2>3. (R \o (comQueue \o com)) \o <<>> = (R \o comQueue) \o com
    BY <1>2, <2>2, AllMoved
  <2> QED
    BY <1>1, <2>1, <2>3 DEF R
<1>18. CASE PerformTake
  <2>1. /\ UNCHANGED <<arrived, com, cmdQueue, cmd, message, descT, Message>>
        /\ received' = received \o First(comQueue)
        /\ comQueue' = Rest(comQueue)
    BY <1>18 DEF PerformTake, handling, getting, parsing
  <2>3. (received \o First(comQueue)) \o Rest(comQueue) = received \o comQueue
    BY <1>2, FirstTaken
  <2> QED
    BY <1>1, <2>1, <2>3
<1>19. CASE HandleWait \/ HandleTaken \/ HandlePost \/ HandleEnd \/ GetWait \/ Acceptor
  BY <1>10, <1>19 DEF HandleWait, HandleTaken, HandlePost, HandleEnd, GetWait, Acceptor,
     AcceptRead, AcceptWrite, handling, getting, parsing, taking, history
<1>20. ASSUME NEW c \in Conn, Accept(c) \/ TaskRecv(c) \/ TaskPost(c) \/ Closer(c)
       PROVE  arrived' = (F \o Message)'
  BY <1>10, <1>20 DEF Accept, TaskRecv, TaskPost, Closer, CloseLock, CloseRead, CloseWrite,
     handling, getting, parsing, taking, history
<1>21. CASE UNCHANGED vars
  BY <1>10, <1>21 DEF vars, handling, getting, parsing, taking, history
<1> QED
  BY <1>11, <1>12, <1>13, <1>14, <1>15, <1>16, <1>17, <1>18, <1>19, <1>20, <1>21
     DEF Next, Handler, Getter, Parser, Queuer

\* Nothing is lost, doubled or overtaken between Message and performComm.
THEOREM OrderKept ==
  Spec => []InOrder
<1>1. Init => Tokens /\ InOrder
  <2>1. <<>> \in Seq(Conn) /\ <<>> \o <<>> = <<>>
    BY ConcatEmptySeq
  <2> QED
    BY <2>1 DEF Init, Tokens, InOrder
<1> QED
  BY <1>1, StepTokens, StepInOrder, PipelineTyped, PTL DEF Spec

-----------------------------------------------------------------------------
(***************************************************************************)
(* Descriptors.  arrived without what lies in message, descT and Message   *)
(* are the first Past entries: only their connections are closed.          *)
(***************************************************************************)
Past == Len(arrived) - Len(message) - Len(descT) - Len(Message)

Owned ==
  /\ \A i, j \in 1 .. Len(arrived) : arrived[i] = arrived[j] => i = j
  /\ \A i \in 1 .. Len(arrived) : task[arrived[i]] \in {"post", "done"}
  /\ \A c \in Conn : closer[c] # "none" => \E n \in 1 .. Past : arrived[n] = c
  /\ hpc = "post" => desc = message[Len(message)]

\* Where the entries of three sequences are in their concatenation with a fourth.
LEMMA PlacesOf ==
  ASSUME NEW w \in Seq(Conn), NEW x \in Seq(Conn), NEW y \in Seq(Conn), NEW z \in Seq(Conn),
         NEW s, s = ((w \o x) \o y) \o z
  PROVE  /\ Len(s) = Len(w) + Len(x) + Len(y) + Len(z)
         /\ \A n \in 1 .. Len(x) : s[Len(w) + n] = x[n]
         /\ \A n \in 1 .. Len(y) : s[Len(w) + Len(x) + n] = y[n]
         /\ \A n \in 1 .. Len(z) : s[Len(w) + Len(x) + Len(y) + n] = z[n]
<1> DEFINE a == w \o x
           b == a \o y
<1>1. /\ a \in Seq(Conn) /\ Len(a) = Len(w) + Len(x)
      /\ \A i \in 1 .. Len(w) + Len(x) : a[i] = IF i <= Len(w) THEN w[i] ELSE x[i - Len(w)]
  BY ConcatProperties
<1> HIDE DEF a
<1>2. /\ b \in Seq(Conn) /\ Len(b) = Len(a) + Len(y)
      /\ \A i \in 1 .. Len(a) + Len(y) : b[i] = IF i <= Len(a) THEN a[i] ELSE y[i - Len(a)]
  BY <1>1, ConcatProperties
<1>3. s = b \o z
  BY DEF a
<1> HIDE DEF b
<1>4. /\ Len(s) = Len(b) + Len(z)
      /\ \A i \in 1 .. Len(b) + Len(z) : s[i] = IF i <= Len(b) THEN b[i] ELSE z[i - Len(b)]
  BY <1>2, <1>3, ConcatProperties
<1>5. Len(w) \in Nat /\ Len(x) \in Nat /\ Len(y) \in Nat /\ Len(z) \in Nat
  OBVIOUS
<1>6. Len(s) = Len(w) + Len(x) + Len(y) + Len(z)
  BY <1>1, <1>2, <1>4, <1>5
<1>7. ASSUME NEW n \in 1 .. Len(x) PROVE s[Len(w) + n] = x[n]
  <2>1. a[Len(w) + n] = x[n]
    BY <1>1, <1>5
  <2>2. b[Len(w) + n] = a[Len(w) + n]
    BY <1>1, <1>2, <1>5
  <2>3. s[Len(w) + n] = b[Len(w) + n]
    BY <1>1, <1>2, <1>4, <1>5
  <2> QED
    BY <2>1, <2>2, <2>3
<1>8. ASSUME NEW n \in 1 .. Len(y) PROVE s[Len(w) + Len(x) + n] = y[n]
  <2>1. b[Len(w) + Len(x) + n] = y[n]
    <3> DEFINE i == Len(w) + Len(x) + n
    <3>1. i \in 1 .. Len(a) + Len(y) /\ ~(i <= Len(a)) /\ i - Len(a) = n
      BY <1>1, <1>5
    <3> HIDE DEF i
    <3>2. b[i] = y[n]
      BY <1>2, <3>1
    <3> QED
      BY <3>2 DEF i
  <2>2. s[Len(w) + Len(x) + n] = b[Len(w) + Len(x) + n]
    BY <1>1, <1>2, <1>4, <1>5
  <2> QED
    BY <2>1, <2>2
<1>9. ASSUME NEW n \in 1 .. Len(z) PROVE s[Len(w) + Len(x) + Len(y) + n] = z[n]
  BY <1>1, <1>2, <1>4, <1>5
<1> QED
  BY <1>6, <1>7, <1>8, <1>9

\* The places of the queued connections in arrived.
LEMMA Places ==
  ASSUME TypeOK, InOrder
  PROVE  /\ Past \in Nat
         /\ \A n \in 1 .. Len(message) : arrived[Past + n] = message[n]
         /\ \A n \in 1 .. Len(descT) : arrived[Past + Len(message) + n] = descT[n]
         /\ \A n \in 1 .. Len(Message) :
              arrived[Past + Len(message) + Len(descT) + n] = Message[n]
<1> DEFINE w == received \o comQueue \o com \o cmdQueue \o cmd
<1>1. received \o comQueue \in Seq(Conn)
  BY ConcatProperties DEF TypeOK
<1>2. received \o comQueue \o com \in Seq(Conn)
  BY <1>1, ConcatProperties DEF TypeOK
<1>3. received \o comQueue \o com \o cmdQueue \in Seq(Conn)
  BY <1>2, ConcatProperties DEF TypeOK
<1>4. w \in Seq(Conn)
  BY <1>3, ConcatProperties DEF TypeOK
<1>5. arrived = ((w \o message) \o descT) \o Message
  BY DEF InOrder
<1> HIDE DEF w
<1>6. message \in Seq(Conn) /\ descT \in Seq(Conn) /\ Message \in Seq(Conn)
  BY DEF TypeOK
<1>7. /\ Len(arrived) = Len(w) + Len(message) + Len(descT) + Len(Message)
      /\ \A n \in 1 .. Len(message) : arrived[Len(w) + n] = message[n]
      /\ \A n \in 1 .. Len(descT) : arrived[Len(w) + Len(message) + n] = descT[n]
      /\ \A n \in 1 .. Len(Message) :
           arrived[Len(w) + Len(message) + Len(descT) + n] = Message[n]
  BY <1>4, <1>5, <1>6, PlacesOf
<1>8. Len(w) \in Nat /\ Len(message) \in Nat /\ Len(descT) \in Nat /\ Len(Message) \in Nat
  BY <1>4, <1>6
<1>9. Past = Len(w)
  BY <1>7, <1>8 DEF Past
<1> QED
  BY <1>7, <1>8, <1>9

\* Owned is inductive.
LEMMA StepOwned ==
  TypeOK /\ Tokens /\ InOrder /\ Owned /\ [Next]_vars => Owned'
<1> SUFFICES ASSUME TypeOK, Tokens, InOrder, Owned, [Next]_vars PROVE Owned'
  OBVIOUS
<1> USE DEF Owned
<1>a. /\ arrived \in Seq(Conn) /\ message \in Seq(Conn) /\ descT \in Seq(Conn)
      /\ Message \in Seq(Conn) /\ task \in [Conn -> {"none", "recv", "queue", "post", "done", "gone"}]
      /\ closer \in [Conn -> {"none", "lock", "read", "write", "freed"}]
  BY DEF TypeOK
<1>b. /\ Len(arrived) \in Nat /\ Len(message) \in Nat /\ Len(descT) \in Nat
      /\ Len(Message) \in Nat /\ Past \in Nat
      /\ \A n \in 1 .. Len(arrived) : arrived[n] \in Conn
  BY <1>a, Places
<1>1. CASE UNCHANGED <<arrived, task, closer, hpc, desc, message, descT, Message>>
  BY <1>1 DEF Past
<1>2. ASSUME NEW c \in Conn, Accept(c) \/ TaskRecv(c) \/ TaskPost(c) PROVE Owned'
  <2>1. UNCHANGED <<arrived, closer, hpc, desc, message, descT, Message>>
    BY <1>2 DEF Accept, TaskRecv, TaskPost, handling, getting, closing, history
  <2>2. \A i \in 1 .. Len(arrived) : task'[arrived[i]] \in {"post", "done"}
    BY <1>2, <1>a, <1>b DEF Accept, TaskRecv, TaskPost
  <2> QED
    BY <2>1, <2>2 DEF Past
<1>3. ASSUME NEW c \in Conn, TaskPush(c) PROVE Owned'
  <2>1. /\ UNCHANGED <<closer, hpc, desc, message, descT>>
        /\ Message' = Append(Message, c)
        /\ arrived' = Append(arrived, c)
        /\ task' = [task EXCEPT ![c] = "post"]
        /\ task[c] = "queue"
    BY <1>3 DEF TaskPush, getting, closing
  <2>2. /\ Len(arrived') = Len(arrived) + 1
        /\ arrived'[Len(arrived) + 1] = c
        /\ \A n \in 1 .. Len(arrived) : arrived'[n] = arrived[n]
        /\ Len(Message') = Len(Message) + 1
    BY <1>a, <2>1, AppendProperties
  <2>3. Past' = Past
    BY <1>b, <2>1, <2>2 DEF Past
  <2>4. \A n \in 1 .. Len(arrived) : arrived[n] # c
    BY <2>1
  <2>5. \A i, j \in 1 .. Len(arrived') : arrived'[i] = arrived'[j] => i = j
    BY <1>b, <2>2, <2>4
  <2>6. \A i \in 1 .. Len(arrived') : task'[arrived'[i]] \in {"post", "done"}
    BY <1>a, <1>b, <2>1, <2>2
  <2>7. \A d \in Conn : closer'[d] # "none" => \E n \in 1 .. Past' : arrived'[n] = d
    <3>1. Past <= Len(arrived)
      BY <1>b DEF Past
    <3> QED
      BY <1>b, <2>1, <2>2, <2>3, <3>1
  <2> QED
    BY <2>1, <2>5, <2>6, <2>7
<1>4. CASE HandleWait \/ HandleTaken \/ HandleEnd
  BY <1>4 DEF HandleWait, HandleTaken, HandleEnd, getting, closing, history, Past
<1>5. CASE HandleTake
  <2>1. /\ UNCHANGED <<arrived, task, closer, hpc, desc, message>>
        /\ Message # <<>>
        /\ Message' = Tail(Message)
        /\ descT' = Append(descT, Head(Message))
    BY <1>5 DEF HandleTake, getting, closing, history
  <2>2. Head(Message) \in Conn /\ Len(Message') = Len(Message) - 1
    BY <1>a, <2>1, HeadAndTail
  <2>3. Len(descT') = Len(descT) + 1
    BY <1>a, <2>1, <2>2, AppendProperties
  <2>4. Past' = Past
    BY <1>b, <2>1, <2>2, <2>3 DEF Past
  <2> QED
    BY <2>1, <2>4
<1>6. CASE HandlePush
  <2>1. /\ UNCHANGED <<arrived, task, closer, Message>>
        /\ descT # <<>>
        /\ desc' = Head(descT)
        /\ descT' = Tail(descT)
        /\ message' = Append(message, Head(descT))
    BY <1>6 DEF HandlePush, Front, closing, history
  <2>2. Head(descT) \in Conn /\ Len(descT') = Len(descT) - 1
    BY <1>a, <2>1, HeadAndTail
  <2>3. Len(message') = Len(message) + 1 /\ message'[Len(message) + 1] = Head(descT)
    BY <1>a, <2>1, <2>2, AppendProperties
  <2>4. Past' = Past
    BY <1>b, <2>1, <2>2, <2>3 DEF Past
  <2> QED
    BY <2>1, <2>3, <2>4
<1>7. CASE HandlePost
  BY <1>7 DEF HandlePost, closing, history, Past
<1>8. CASE GetPop
  <2>1. /\ UNCHANGED <<arrived, task, hpc, desc, descT, Message>>
        /\ gpc = "pop"
        /\ message # <<>>
        /\ message' = Tail(message)
        /\ closer' = [closer EXCEPT ![Head(message)] = "lock"]
    BY <1>8 DEF GetPop, handling, history
  <2>2. /\ Len(message') = Len(message) - 1
        /\ Len(message) > 0
        /\ message[1] = Head(message)
        /\ \A n \in 1 .. Len(message') : message'[n] = message[n + 1]
    BY <1>a, <2>1, HeadAndTail
  <2>3. Past' = Past + 1
    BY <1>b, <2>1, <2>2 DEF Past
  <2>4. arrived[Past + 1] = Head(message)
    BY <1>b, <2>2, Places
  <2>5. \A d \in Conn : closer'[d] # "none" => \E n \in 1 .. Past' : arrived'[n] = d
    BY <1>a, <1>b, <2>1, <2>3, <2>4
  <2>6. hpc' = "post" => desc' = message'[Len(message')]
    <3> SUFFICES ASSUME hpc' = "post" PROVE desc' = message'[Len(message')]
      OBVIOUS
    <3>1. Len(message) >= 2
      BY <2>1 DEF Tokens, TypeOK
    <3>2. Len(message') \in 1 .. Len(message')
      BY <1>b, <2>2, <3>1
    <3>3. message'[Len(message')] = message[Len(message)]
      BY <1>b, <2>2, <3>2
    <3> QED
      BY <2>1, <3>3
  <2> QED
    BY <2>1, <2>5, <2>6
<1>9. CASE GetWait \/ GetPush \/ Acceptor \/ Parser \/ PerformTake
  BY <1>1, <1>9 DEF GetWait, GetPush, Acceptor, AcceptRead, AcceptWrite, Parser, ParseTake,
     ParsePush, PerformTake, handling, getting, closing, history
<1>10. ASSUME NEW c \in Conn, Closer(c) PROVE Owned'
  <2>1. UNCHANGED <<arrived, task, hpc, desc, message, descT, Message>>
    BY <1>10 DEF Closer, CloseLock, CloseRead, CloseWrite, handling, getting, history
  <2>2. \A d \in Conn : closer'[d] # "none" => closer[d] # "none"
    BY <1>10, <1>a DEF Closer, CloseLock, CloseRead, CloseWrite
  <2> QED
    BY <2>1, <2>2 DEF Past
<1>11. CASE UNCHANGED vars
  BY <1>1, <1>11 DEF vars, handling, getting, closing, history
<1> QED
  BY <1>2, <1>3, <1>4, <1>5, <1>6, <1>7, <1>8, <1>9, <1>10, <1>11
     DEF Next, Handler, Getter, Queuer

\* No descriptor is closed and deleted while it is queued or written out.
THEOREM NoneFreedInUse ==
  Spec => []DescriptorsInUse
<1>1. Init => Tokens /\ InOrder /\ Owned
  <2>1. <<>> \in Seq(Conn) /\ <<>> \o <<>> = <<>>
    BY ConcatEmptySeq
  <2> QED
    BY <2>1 DEF Init, Tokens, InOrder, Owned
<1>2. TypeOK /\ Tokens /\ InOrder /\ Owned => DescriptorsInUse
  <2> SUFFICES ASSUME TypeOK, Tokens, InOrder, Owned PROVE DescriptorsInUse
    OBVIOUS
  <2>1. /\ Len(arrived) \in Nat /\ Len(message) \in Nat /\ Len(descT) \in Nat
        /\ Len(Message) \in Nat /\ Past \in Nat
        /\ Len(arrived) = Past + Len(message) + Len(descT) + Len(Message)
    <3>1. arrived \in Seq(Conn) /\ message \in Seq(Conn) /\ descT \in Seq(Conn) /\ Message \in Seq(Conn)
      BY DEF TypeOK
    <3> QED
      BY <3>1, Places DEF Past
  <2>2. ASSUME NEW k \in 1 .. Len(arrived), k > Past, arrived[k] \in Conn
        PROVE  closer[arrived[k]] = "none"
    BY <2>1, <2>2 DEF Owned
  <2>3. \A n \in 1 .. Len(message) : message[n] \in Conn /\ closer[message[n]] = "none"
    <3> SUFFICES ASSUME NEW n \in 1 .. Len(message)
                 PROVE  message[n] \in Conn /\ closer[message[n]] = "none"
      OBVIOUS
    <3>1. message[n] \in Conn /\ arrived[Past + n] = message[n]
      BY Places DEF TypeOK
    <3>2. Past + n \in 1 .. Len(arrived) /\ Past + n > Past
      BY <2>1
    <3> QED
      BY <2>2, <3>1, <3>2
  <2>4. \A n \in 1 .. Len(descT) : closer[descT[n]] = "none"
    <3> SUFFICES ASSUME NEW n \in 1 .. Len(descT) PROVE closer[descT[n]] = "none"
      OBVIOUS
    <3>1. descT[n] \in Conn /\ arrived[Past + Len(message) + n] = descT[n]
      BY Places DEF TypeOK
    <3>2. Past + Len(message) + n \in 1 .. Len(arrived) /\ Past + Len(message) + n > Past
      BY <2>1
    <3> QED
      BY <2>2, <3>1, <3>2
  <2>5. \A n \in 1 .. Len(Message) : closer[Message[n]] = "none"
    <3> SUFFICES ASSUME NEW n \in 1 .. Len(Message) PROVE closer[Message[n]] = "none"
      OBVIOUS
    <3>1. Message[n] \in Conn /\ arrived[Past + Len(message) + Len(descT) + n] = Message[n]
      BY Places DEF TypeOK
    <3>2. /\ Past + Len(message) + Len(descT) + n \in 1 .. Len(arrived)
          /\ Past + Len(message) + Len(descT) + n > Past
      BY <2>1
    <3> QED
      BY <2>2, <3>1, <3>2
  <2>6. hpc = "post" => closer[desc] = "none"
    <3> SUFFICES ASSUME hpc = "post" PROVE closer[desc] = "none"
      OBVIOUS
    <3>1. Len(message) >= 1
      BY DEF Tokens, TypeOK
    <3>2. desc = message[Len(message)]
      BY DEF Owned
    <3> QED
      BY <2>1, <2>3, <3>1, <3>2
  <2> QED
    BY <2>3, <2>4, <2>5, <2>6 DEF DescriptorsInUse, Elements
<1> QED
  BY <1>1, <1>2, StepTokens, StepInOrder, StepOwned, PipelineTyped, PTL DEF Spec

-----------------------------------------------------------------------------
(***************************************************************************)
(* The refinement.  A text arrives in the channel when its Task has read   *)
(* it and is handed over when performComm takes it; every other step of    *)
(* the node is invisible.                                                  *)
(***************************************************************************)

\* What a sequence begins with, it begins with after something is added.
LEMMA PrefixKept ==
  ASSUME NEW u \in Seq(Conn), NEW v \in Seq(Conn)
  PROVE  /\ u \o v \in Seq(Conn)
         /\ Len(u \o v) >= Len(u)
         /\ \A n \in 1 .. Len(u) : (u \o v)[n] = u[n]
<1>1. /\ u \o v \in Seq(Conn)
      /\ Len(u \o v) = Len(u) + Len(v)
      /\ \A i \in 1 .. Len(u) + Len(v) : (u \o v)[i] = IF i <= Len(u) THEN u[i] ELSE v[i - Len(u)]
  BY ConcatProperties
<1>2. Len(u) \in Nat /\ Len(v) \in Nat
  OBVIOUS
<1> QED
  BY <1>1, <1>2

\* arrived begins with received, and goes on with comQueue.
LEMMA FirstPlaces ==
  ASSUME TypeOK, InOrder
  PROVE  /\ Len(arrived) >= Len(received) + Len(comQueue)
         /\ \A n \in 1 .. Len(received) : arrived[n] = received[n]
         /\ \A n \in 1 .. Len(comQueue) : arrived[Len(received) + n] = comQueue[n]
<1> DEFINE A == received \o comQueue
           B == A \o com
           C == B \o cmdQueue
           D == C \o cmd
           E == D \o message
           F == E \o descT
<1>1. /\ received \in Seq(Conn) /\ comQueue \in Seq(Conn) /\ com \in Seq(Conn)
      /\ cmdQueue \in Seq(Conn) /\ cmd \in Seq(Conn) /\ message \in Seq(Conn)
      /\ descT \in Seq(Conn) /\ Message \in Seq(Conn)
  BY DEF TypeOK
<1>2. arrived = F \o Message
  BY DEF InOrder
<1>3. /\ A \in Seq(Conn) /\ Len(A) = Len(received) + Len(comQueue)
      /\ \A i \in 1 .. Len(received) + Len(comQueue) :
           A[i] = IF i <= Len(received) THEN received[i] ELSE comQueue[i - Len(received)]
  BY <1>1, ConcatProperties
<1> HIDE DEF A
<1>4. B \in Seq(Conn) /\ Len(B) >= Len(A) /\ \A n \in 1 .. Len(A) : B[n] = A[n]
  BY <1>1, <1>3, PrefixKept
<1> HIDE DEF B
<1>5. C \in Seq(Conn) /\ Len(C) >= Len(B) /\ \A n \in 1 .. Len(B) : C[n] = B[n]
  BY <1>1, <1>4, PrefixKept
<1> HIDE DEF C
<1>6. D \in Seq(Conn) /\ Len(D) >= Len(C) /\ \A n \in 1 .. Len(C) : D[n] = C[n]
  BY <1>1, <1>5, PrefixKept
<1> HIDE DEF D
<1>7. E \in Seq(Conn) /\ Len(E) >= Len(D) /\ \A n \in 1 .. Len(D) : E[n] = D[n]
  BY <1>1, <1>6, PrefixKept
<1> HIDE DEF E
<1>8. F \in Seq(Conn) /\ Len(F) >= Len(E) /\ \A n \in 1 .. Len(E) : F[n] = E[n]
  BY <1>1, <1>7, PrefixKept
<1> HIDE DEF F
<1>9. Len(arrived) >= Len(F) /\ \A n \in 1 .. Len(F) : arrived[n] = F[n]
  BY <1>1, <1>2, <1>8, PrefixKept
<1>a. \A q \in Seq(Conn) : Len(q) \in Nat
  OBVIOUS
<1>10. /\ Len(received) \in Nat /\ Len(comQueue) \in Nat /\ Len(A) \in Nat /\ Len(B) \in Nat
       /\ Len(C) \in Nat /\ Len(D) \in Nat /\ Len(E) \in Nat /\ Len(F) \in Nat
       /\ Len(arrived) \in Nat
  <2>1. arrived \in Seq(Conn)
    BY DEF TypeOK
  <2> QED
    BY <1>a, <1>1, <1>3, <1>4, <1>5, <1>6, <1>7, <1>8, <2>1
<1>11. Len(D) >= Len(A) /\ \A n \in 1 .. Len(A) : D[n] = A[n]
  <2>1. Len(C) >= Len(A) /\ \A n \in 1 .. Len(A) : C[n] = A[n]
    BY <1>4, <1>5, <1>10
  <2> QED
    BY <1>6, <1>10, <2>1
<1>12. Len(arrived) >= Len(A) /\ \A n \in 1 .. Len(A) : arrived[n] = A[n]
  <2>1. Len(E) >= Len(A) /\ \A n \in 1 .. Len(A) : E[n] = A[n]
    BY <1>7, <1>10, <1>11
  <2>2. Len(F) >= Len(A) /\ \A n \in 1 .. Len(A) : F[n] = A[n]
    BY <1>8, <1>10, <2>1
  <2> QED
    BY <1>9, <1>10, <2>2
<1>13. ASSUME NEW n \in 1 .. Len(received) PROVE arrived[n] = received[n]
  BY <1>3, <1>10, <1>12
<1>14. ASSUME NEW n \in 1 .. Len(comQueue) PROVE arrived[Len(received) + n] = comQueue[n]
  <2>1. A[Len(received) + n] = comQueue[n]
    BY <1>3, <1>10
  <2> QED
    BY <1>3, <1>10, <1>12, <2>1
<1> QED
  BY <1>3, <1>10, <1>12, <1>13, <1>14

\* The texts under way in the channel: the transit of ThroughChannel.
UnderWay == {c \in Conn : task[c] \in {"queue", "post", "done"}} \ Elements(received)

\* A step that hands nothing over and lets nothing arrive.
LEMMA Invisible ==
  ASSUME UNCHANGED received,
         \A c \in Conn : task'[c] \in {"queue", "post", "done"} <=> task[c] \in {"queue", "post", "done"}
  PROVE  UNCHANGED <<UnderWay, received>>
BY DEF UnderWay, Elements

\* A Task that reads a text lets it arrive.
LEMMA ArrivalSeen ==
  ASSUME TypeOK, InOrder, Owned, NEW c \in Conn, TaskRecv(c)
  PROVE  ThroughChannel!Arrive(c) \/ UNCHANGED <<UnderWay, received>>
<1>1. /\ UNCHANGED received /\ task[c] = "recv"
      /\ task' = [task EXCEPT ![c] = "queue"] \/ task' = [task EXCEPT ![c] = "gone"]
      /\ task \in [Conn -> {"none", "recv", "queue", "post", "done", "gone"}]
  BY DEF TaskRecv, history, TypeOK
<1>2. \A n \in 1 .. Len(received) : received[n] # c
  <2>1. \A n \in 1 .. Len(received) : n \in 1 .. Len(arrived) /\ arrived[n] = received[n]
    <3>1. Len(received) \in Nat /\ Len(comQueue) \in Nat /\ Len(arrived) \in Nat
      BY DEF TypeOK
    <3> QED
      BY <3>1, FirstPlaces
  <2> QED
    BY <1>1, <2>1 DEF Owned
<1>3. CASE task' = [task EXCEPT ![c] = "gone"]
  BY <1>1, <1>3, Invisible
<1>4. CASE task' = [task EXCEPT ![c] = "queue"]
  <2>1. c \notin Elements(received) /\ Elements(received)' = Elements(received)
    BY <1>1, <1>2 DEF Elements
  <2>2. {d \in Conn : task'[d] \in {"queue", "post", "done"}}
          = {d \in Conn : task[d] \in {"queue", "post", "done"}} \cup {c}
    BY <1>1, <1>4
  <2>3. UnderWay' = UnderWay \cup {c} /\ c \notin UnderWay
    BY <1>1, <2>1, <2>2 DEF UnderWay
  <2> QED
    BY <1>1, <1>2, <2>3 DEF ThroughChannel!Arrive, UnderWay
<1> QED
  BY <1>1, <1>3, <1>4

\* performComm takes a text that is under way, and that it has not had before.
LEMMA HandOverSeen ==
  ASSUME TypeOK, Tokens, InOrder, Owned, PerformTake
  PROVE  \E c \in Conn : ThroughChannel!HandOver(c)
<1> DEFINE c == Head(comQueue)
<1>1. /\ comQueue \in Seq(Conn) /\ received \in Seq(Conn) /\ arrived \in Seq(Conn)
      /\ comQueue # <<>> /\ UNCHANGED task /\ received' = received \o First(comQueue)
  BY DEF PerformTake, TypeOK, Tokens
<1>2. c \in Conn /\ Len(comQueue) > 0 /\ comQueue[1] = c /\ First(comQueue) = <<c>>
  BY <1>1, HeadAndTail, FirstAndRest
<1> HIDE DEF c
<1>3. received' = Append(received, c)
  BY <1>1, <1>2, AppendIsConcat
<1>4. /\ Len(received) \in Nat /\ Len(arrived) \in Nat /\ Len(comQueue) \in Nat
      /\ Len(arrived) >= Len(received) + 1
      /\ arrived[Len(received) + 1] = c
      /\ \A n \in 1 .. Len(received) : arrived[n] = received[n]
  BY <1>1, <1>2, FirstPlaces
<1>5. task[c] \in {"queue", "post", "done"}
  BY <1>4 DEF Owned
<1>6. c \notin Elements(received)
  BY <1>4 DEF Elements, Owned
<1>7. Elements(received') = Elements(received) \cup {c}
  <2>1. /\ Len(Append(received, c)) = Len(received) + 1
        /\ Append(received, c)[Len(received) + 1] = c
        /\ \A n \in 1 .. Len(received) : Append(received, c)[n] = received[n]
    BY <1>1, <1>2, AppendProperties
  <2> QED
    BY <1>3, <1>4, <2>1 DEF Elements
<1>8. c \in UnderWay /\ UnderWay' = UnderWay \ {c}
  BY <1>1, <1>2, <1>5, <1>6, <1>7 DEF UnderWay, Elements
<1> QED
  BY <1>2, <1>3, <1>8 DEF ThroughChannel!HandOver, UnderWay

\* Every step of the node is a step of the channel or invisible in it.
LEMMA StepThroughChannel ==
  TypeOK /\ Tokens /\ InOrder /\ Owned /\ [Next]_vars => [ThroughChannel!Next]_(ThroughChannel!vars)
<1> SUFFICES ASSUME TypeOK, Tokens, InOrder, Owned, [Next]_vars
             PROVE  ThroughChannel!Next \/ UNCHANGED <<UnderWay, received>>
  BY DEF ThroughChannel!vars, UnderWay
<1>1. ASSUME NEW c \in Conn, TaskRecv(c) PROVE ThroughChannel!Next \/ UNCHANGED <<UnderWay, received>>
  BY <1>1, ArrivalSeen DEF ThroughChannel!Next
<1>2. CASE PerformTake
  BY <1>2, HandOverSeen DEF ThroughChannel!Next
<1>3. ASSUME NEW c \in Conn, Accept(c) \/ TaskPush(c) \/ TaskPost(c)
      PROVE  UNCHANGED <<UnderWay, received>>
  BY <1>3, Invisible DEF Accept, TaskPush, TaskPost, TypeOK, history
<1>4. CASE Acceptor \/ Handler \/ Getter \/ Parser \/ UNCHANGED vars
  <2>1. UNCHANGED <<task, received>>
    BY <1>4 DEF Acceptor, AcceptRead, AcceptWrite, Handler, HandleWait, HandleTake, HandleTaken,
       HandlePush, HandlePost, HandleEnd, Getter, GetWait, GetPop, GetPush, Parser, ParseTake,
       ParsePush, vars, history
  <2> QED
    BY <2>1, Invisible
<1>5. ASSUME NEW c \in Conn, Closer(c) PROVE UNCHANGED <<UnderWay, received>>
  <2>1. UNCHANGED <<task, received>>
    BY <1>5 DEF Closer, CloseLock, CloseRead, CloseWrite, history
  <2> QED
    BY <2>1, Invisible
<1> QED
  BY <1>1, <1>2, <1>3, <1>4, <1>5 DEF Next, Queuer

\* The receiving side of a node implements the abstract channel: what it hands
\* to performComm has arrived, and is handed over once.
THEOREM PipelineIsChannel ==
  Spec => ThroughChannel!Spec
<1>1. Init => Tokens /\ InOrder /\ Owned
  <2>1. <<>> \in Seq(Conn) /\ <<>> \o <<>> = <<>>
    BY ConcatEmptySeq
  <2> QED
    BY <2>1 DEF Init, Tokens, InOrder, Owned
<1>2. Init => ThroughChannel!Init
  BY DEF Init, ThroughChannel!Init
<1> QED
  BY <1>1, <1>2, StepTokens, StepInOrder, StepOwned, StepThroughChannel, PipelineTyped,
     PTL DEF Spec, ThroughChannel!Spec
=============================================================================
