------------------------------ MODULE Pipeline ------------------------------
(***************************************************************************)
(* The receiving side of a node, thread by thread: TCPServer accepts a     *)
(* connection and starts a Task for it, the Task queues the text it        *)
(* receives in Message, handle_while moves it to message, getCommand to    *)
(* cmdQueue, PCommandParser to comQueue, and performComm takes it there.   *)
(* Each getCommand starts a thread that closes the connection.             *)
(*                                                                         *)
(* A connection stands for its descriptor and for the text it brings.  A   *)
(* push, a pop and a test of one queue are single steps: of the queues     *)
(* here each has one thread that pushes at a time and one that pops.       *)
(* mut[0], mutex1, mt and RUSmt are each taken by one thread only, and     *)
(* exclude nobody; enable_message_runtime is tested before it is ever set. *)
(***************************************************************************)
EXTENDS Integers, Sequences, FiniteSets

CONSTANTS
  Conn,        \* the connections other processes make
  NoConn,      \* no connection
  Batch        \* how many messages getMessage takes at most (10)

ASSUME PipelineConstants ==
  /\ IsFiniteSet(Conn)
  /\ NoConn \notin Conn
  /\ Batch \in Nat \ {0}

VARIABLES
  apc, seen,   \* RUaccept: what it does next, the num_client it has read
  num_client,
  task,        \* the Task of each connection
  Message,     \* TCPServer::Message
  ROsem0,
  hpc, descT, desc,   \* handle_while: what it does next, its two variables
  message,     \* RUSocket::message
  ROsem1,
  gpc, cmd,    \* getCommand: what it does next, the command it holds
  cmdQueue, psem0,
  ppc, com,    \* PCommandParser: the same
  comQueue, psem1,
  closer, left,       \* CloseConnection of each connection, what it has read
  arrived,     \* history: the texts in the order they entered Message
  received     \* history: the texts in the order performComm took them

counting == <<apc, seen, num_client>>
handling == <<Message, ROsem0, hpc, descT, desc>>
getting  == <<message, ROsem1, gpc, cmd>>
parsing  == <<cmdQueue, psem0, ppc, com>>
taking   == <<comQueue, psem1>>
closing  == <<closer, left>>
history  == <<arrived, received>>
vars == <<counting, task, handling, getting, parsing, taking, closing, history>>

TypeOK ==
  /\ apc \in {"accept", "read", "write"}
  /\ seen \in Int
  /\ num_client \in Int
  /\ task \in [Conn -> {"none", "recv", "queue", "post", "done", "gone"}]
  /\ Message \in Seq(Conn)
  /\ ROsem0 \in Nat
  /\ hpc \in {"wait", "drain", "next", "post"}
  /\ descT \in Seq(Conn)
  /\ desc \in Conn \cup {NoConn}
  /\ message \in Seq(Conn)
  /\ ROsem1 \in Nat
  /\ gpc \in {"wait", "pop", "push"}
  /\ cmd \in Seq(Conn)
  /\ cmdQueue \in Seq(Conn)
  /\ psem0 \in Nat
  /\ ppc \in {"wait", "push"}
  /\ com \in Seq(Conn)
  /\ comQueue \in Seq(Conn)
  /\ psem1 \in Nat
  /\ closer \in [Conn -> {"none", "lock", "read", "write", "freed"}]
  /\ left \in [Conn -> Int]
  /\ arrived \in Seq(Conn)
  /\ received \in Seq(Conn)

Init ==
  /\ apc = "accept" /\ seen = 0 /\ num_client = 0
  /\ task = [c \in Conn |-> "none"]
  /\ Message = <<>> /\ ROsem0 = 0
  /\ hpc = "wait" /\ descT = <<>> /\ desc = NoConn
  /\ message = <<>> /\ ROsem1 = 0
  /\ gpc = "wait" /\ cmd = <<>>
  /\ cmdQueue = <<>> /\ psem0 = 0
  /\ ppc = "wait" /\ com = <<>>
  /\ comQueue = <<>> /\ psem1 = 0
  /\ closer = [c \in Conn |-> "none"]
  /\ left = [c \in Conn |-> 0]
  /\ arrived = <<>> /\ received = <<>>

-----------------------------------------------------------------------------
(***************************************************************************)
(* RUaccept: accepted() in a loop.  num_client++ is a read and a write.    *)
(***************************************************************************)
Accept(c) ==
  /\ apc = "accept"
  /\ task[c] = "none"
  /\ task' = [task EXCEPT ![c] = "recv"]
  /\ apc' = "read"
  /\ UNCHANGED <<seen, num_client, handling, getting, parsing, taking, closing, history>>

AcceptRead ==
  /\ apc = "read"
  /\ seen' = num_client
  /\ apc' = "write"
  /\ UNCHANGED <<num_client, task, handling, getting, parsing, taking, closing, history>>

AcceptWrite ==
  /\ apc = "write"
  /\ num_client' = seen + 1
  /\ seen' = 0
  /\ apc' = "accept"
  /\ UNCHANGED <<task, handling, getting, parsing, taking, closing, history>>

-----------------------------------------------------------------------------
(***************************************************************************)
(* Task: one recv that brings a text, or the end of the connection, whose  *)
(* descriptor is then never closed nor counted off.  mut[2] is held from   *)
(* the push to the post.                                                   *)
(***************************************************************************)
TaskRecv(c) ==
  /\ task[c] = "recv"
  /\ \/ task' = [task EXCEPT ![c] = "queue"]
     \/ task' = [task EXCEPT ![c] = "gone"]
  /\ UNCHANGED <<counting, handling, getting, parsing, taking, closing, history>>

\* The Task that holds mut[2]
Posting == {c \in Conn : task[c] = "post"}

TaskPush(c) ==
  /\ task[c] = "queue"
  /\ Posting = {}
  /\ task' = [task EXCEPT ![c] = "post"]
  /\ Message' = Append(Message, c)
  /\ arrived' = Append(arrived, c)
  /\ UNCHANGED <<counting, ROsem0, hpc, descT, desc, getting, parsing, taking, closing, received>>

\* Mutant: a token only for the message that finds the queue empty.
TaskTokenFirst == IF Len(Message) = 1 THEN 1 ELSE 0

TaskToken == 1

TaskPost(c) ==
  /\ task[c] = "post"
  /\ ROsem0' = ROsem0 + TaskToken
  /\ task' = [task EXCEPT ![c] = "done"]
  /\ UNCHANGED <<counting, Message, hpc, descT, desc, getting, parsing, taking, closing, history>>

-----------------------------------------------------------------------------
(***************************************************************************)
(* handle_while: one token of ROsem0, up to Batch messages, and a token of *)
(* ROsem1 for each.                                                        *)
(***************************************************************************)

\* Mutant: it looks into the queue instead of waiting for a token.
WokenEarly == Message # <<>>

Woken == ROsem0 > 0

HandleWait ==
  /\ hpc = "wait"
  /\ Woken
  /\ ROsem0' = ROsem0 - 1
  /\ hpc' = "drain"
  /\ UNCHANGED <<counting, task, Message, descT, desc, getting, parsing, taking, closing, history>>

HandleTake ==
  /\ hpc = "drain"
  /\ Message # <<>>
  /\ Len(descT) < Batch
  /\ descT' = Append(descT, Head(Message))
  /\ Message' = Tail(Message)
  /\ UNCHANGED <<counting, task, ROsem0, hpc, desc, getting, parsing, taking, closing, history>>

HandleTaken ==
  /\ hpc = "drain"
  /\ Message = <<>> \/ Len(descT) >= Batch
  /\ hpc' = "next"
  /\ UNCHANGED <<counting, task, Message, ROsem0, descT, desc, getting, parsing, taking, closing, history>>

\* Mutant: the newest message first.
FrontNewest(q) == q[Len(q)]

Front(q) == Head(q)

HandlePush ==
  /\ hpc = "next"
  /\ descT # <<>>
  /\ desc' = Front(descT)
  /\ descT' = Tail(descT)
  /\ message' = Append(message, Front(descT))
  /\ hpc' = "post"
  /\ UNCHANGED <<counting, task, Message, ROsem0, ROsem1, gpc, cmd, parsing, taking, closing, history>>

\* Mutants: one token for all that was taken from Message; a token for every
\* entry of message, the ones announced before included.
HandleTokenLast  == IF descT = <<>> THEN 1 ELSE 0
HandleTokenEvery == Len(message)

HandleToken == 1

\* The text is written to the terminal between the push and the post.
HandlePost ==
  /\ hpc = "post"
  /\ ROsem1' = ROsem1 + HandleToken
  /\ desc' = NoConn
  /\ hpc' = "next"
  /\ UNCHANGED <<counting, task, Message, ROsem0, descT, message, gpc, cmd, parsing, taking, closing, history>>

HandleEnd ==
  /\ hpc = "next"
  /\ descT = <<>>
  /\ hpc' = "wait"
  /\ UNCHANGED <<counting, task, Message, ROsem0, descT, desc, getting, parsing, taking, closing, history>>

-----------------------------------------------------------------------------
(***************************************************************************)
(* getCommand: a token of ROsem1, a message, and a thread that closes its  *)
(* connection.  If there were no message RUSmt would stay locked, and the  *)
(* next call would wait for it for ever: the thread is stuck at "pop".     *)
(***************************************************************************)
GetWait ==
  /\ gpc = "wait"
  /\ ROsem1 > 0
  /\ ROsem1' = ROsem1 - 1
  /\ gpc' = "pop"
  /\ UNCHANGED <<counting, task, handling, message, cmd, parsing, taking, closing, history>>

GetPop ==
  /\ gpc = "pop"
  /\ message # <<>>
  /\ cmd' = <<Head(message)>>
  /\ message' = Tail(message)
  /\ closer' = [closer EXCEPT ![Head(message)] = "lock"]
  /\ gpc' = "push"
  /\ UNCHANGED <<counting, task, handling, ROsem1, parsing, taking, left, history>>

\* Push and post at once: without the token nobody looks into the queue.
GetPush ==
  /\ gpc = "push"
  /\ cmdQueue' = cmdQueue \o cmd
  /\ psem0' = psem0 + 1
  /\ cmd' = <<>>
  /\ gpc' = "wait"
  /\ UNCHANGED <<counting, task, handling, message, ROsem1, ppc, com, taking, closing, history>>

-----------------------------------------------------------------------------
(***************************************************************************)
(* PCommandParser, and the taking of a command by performComm.  A token    *)
(* that finds its queue empty is spent for nothing.                        *)
(***************************************************************************)
First(q) == SubSeq(q, 1, 1)
Rest(q)  == SubSeq(q, 2, Len(q))

ParseTake ==
  /\ ppc = "wait"
  /\ psem0 > 0
  /\ psem0' = psem0 - 1
  /\ com' = First(cmdQueue)
  /\ cmdQueue' = Rest(cmdQueue)
  /\ ppc' = IF cmdQueue = <<>> THEN "wait" ELSE "push"
  /\ UNCHANGED <<counting, task, handling, getting, taking, closing, history>>

ParsePush ==
  /\ ppc = "push"
  /\ comQueue' = comQueue \o com
  /\ psem1' = psem1 + 1
  /\ com' = <<>>
  /\ ppc' = "wait"
  /\ UNCHANGED <<counting, task, handling, getting, cmdQueue, psem0, closing, history>>

PerformTake ==
  /\ psem1 > 0
  /\ psem1' = psem1 - 1
  /\ received' = received \o First(comQueue)
  /\ comQueue' = Rest(comQueue)
  /\ UNCHANGED <<counting, task, handling, getting, parsing, closing, arrived>>

-----------------------------------------------------------------------------
(***************************************************************************)
(* CloseConnection, in a thread per connection.  Under mut[1], which the   *)
(* acceptor does not take, num_client is tested, read and written; then    *)
(* the descriptor is deleted.                                              *)
(***************************************************************************)

\* Mutant: without mut[1].
UncountingFree == {}

\* The thread that holds mut[1]
Uncounting == {c \in Conn : closer[c] \in {"read", "write"}}

CloseLock(c) ==
  /\ closer[c] = "lock"
  /\ Uncounting = {}
  /\ closer' = [closer EXCEPT ![c] = IF num_client > 0 THEN "read" ELSE "freed"]
  /\ UNCHANGED <<counting, task, handling, getting, parsing, taking, left, history>>

CloseRead(c) ==
  /\ closer[c] = "read"
  /\ left' = [left EXCEPT ![c] = num_client]
  /\ closer' = [closer EXCEPT ![c] = "write"]
  /\ UNCHANGED <<counting, task, handling, getting, parsing, taking, history>>

CloseWrite(c) ==
  /\ closer[c] = "write"
  /\ num_client' = left[c] - 1
  /\ left' = [left EXCEPT ![c] = 0]
  /\ closer' = [closer EXCEPT ![c] = "freed"]
  /\ UNCHANGED <<apc, seen, task, handling, getting, parsing, taking, history>>

-----------------------------------------------------------------------------
Acceptor  == AcceptRead \/ AcceptWrite
Handler   == HandleWait \/ HandleTake \/ HandleTaken \/ HandlePush \/ HandlePost \/ HandleEnd
Getter    == GetWait \/ GetPop \/ GetPush
Parser    == ParseTake \/ ParsePush
Queuer(c) == TaskPush(c) \/ TaskPost(c)
Closer(c) == CloseLock(c) \/ CloseRead(c) \/ CloseWrite(c)

Next ==
  \/ Acceptor \/ Handler \/ Getter \/ Parser \/ PerformTake
  \/ \E c \in Conn : Accept(c) \/ TaskRecv(c) \/ Queuer(c) \/ Closer(c)

Spec == Init /\ [][Next]_vars

\* Every thread of the node that can go on goes on.  Nothing is assumed of
\* those that connect: they need not come, nor send.
FairSpec ==
  /\ Spec
  /\ WF_vars(Acceptor) /\ WF_vars(Handler) /\ WF_vars(Getter)
  /\ WF_vars(Parser) /\ WF_vars(PerformTake)
  /\ \A c \in Conn : WF_vars(Queuer(c)) /\ WF_vars(Closer(c))

-----------------------------------------------------------------------------
\* A token is never posted before what it stands for has been queued, nor
\* twice: whoever has taken one finds its queue filled.  Otherwise getCommand
\* returns with RUSmt locked, and the node hears nothing any more.
NeverEmptyHanded ==
  /\ gpc = "pop" => message # <<>>
  /\ psem0 > 0 => cmdQueue # <<>>
  /\ psem1 > 0 => comQueue # <<>>

\* While handle_while waits, no more messages lie in Message than there are
\* tokens, posted or about to be: although it takes ten at a time, and may
\* take one before its token is posted, none is left behind unnoticed.
NoLostWakeup ==
  hpc = "wait" => Len(Message) <= ROsem0 + Cardinality(Posting)

\* The acceptor and the closing threads lock two different mutexes, so one
\* may undo the other's count; still num_client, the index under which the
\* next thread is stored in serverThread, never becomes negative.
CountNeverNegative == num_client >= 0

\* No message is lost, doubled or overtaken between Message and performComm.
InOrder ==
  arrived = received \o comQueue \o com \o cmdQueue \o cmd \o message \o descT \o Message

Elements(q) == {q[n] : n \in 1 .. Len(q)}

\* A descriptor is not closed and deleted while a thread still uses it: not
\* while it is queued, and not while handle_while writes its text out after
\* it has pushed it.
DescriptorsInUse ==
  /\ \A q \in {Message, descT, message} : \A c \in Elements(q) : closer[c] = "none"
  /\ hpc = "post" => closer[desc] = "none"

\* All of this implements the abstract channel: what has arrived is handed to
\* performComm exactly once, and eventually.
ThroughChannel ==
  INSTANCE Channel WITH
    transit <- {c \in Conn : task[c] \in {"queue", "post", "done"}} \ Elements(received)

ChannelSpec == ThroughChannel!FairSpec
=============================================================================
