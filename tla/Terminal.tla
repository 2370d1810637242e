------------------------------ MODULE Terminal ------------------------------
(***************************************************************************)
(* The client: the program without arguments.  For each line it is given,  *)
(* main sets the server side up anew, starts a thread that accepts answers *)
(* and one that prints them, and sends the command to port 8001.           *)
(*                                                                         *)
(* A socket, a pair of threads, a command and its answer bear the number   *)
(* of the line they stem from.  Of the system below, this much is used: a  *)
(* port on which a socket listens cannot be bound again (the option that   *)
(* setup sets is number opts.size() = 2, SO_REUSEADDR, which does not      *)
(* allow it), and accept fails on a socket that does not listen.           *)
(***************************************************************************)
EXTENDS Naturals, Sequences

CONSTANTS
  Lines,       \* how many lines are typed
  Batch        \* how many messages getMessage takes at most (10)

VARIABLES
  mpc, typed,  \* main: what it does next, the lines it has read
  sockfd,      \* the member of the one TCPServer, overwritten by setup
  listening,   \* the socket that listens on port 8010, or 0
  getMsg,      \* what each getMsg thread does next
  outMsg,      \* the outMsg threads that run
  asked,       \* commands a node has and has not answered
  backlog,     \* answers that wait to be accepted
  Message,     \* TCPServer::Message
  printed,     \* answers printed
  process      \* "up" or "ended"

main  == <<mpc, typed, sockfd, listening>>
data  == <<asked, backlog, Message, printed>>
vars  == <<main, getMsg, outMsg, data, process>>

Thread == 1 .. Lines

Init ==
  /\ mpc = "read" /\ typed = 0
  /\ sockfd = 0 /\ listening = 0
  /\ getMsg = [t \in Thread |-> "none"]
  /\ outMsg = {} /\ asked = {} /\ printed = {}
  /\ backlog = <<>> /\ Message = <<>>
  /\ process = "up"

\* tcp.setup: a new socket in sockfd in any case.  If bind fails, nobody looks
\* at the result.
Setup ==
  /\ mpc = "read"
  /\ typed < Lines
  /\ typed' = typed + 1
  /\ sockfd' = typed + 1
  /\ listening' = IF listening = 0 THEN typed + 1 ELSE listening
  /\ mpc' = "start"
  /\ UNCHANGED <<getMsg, outMsg, data, process>>

StartThreads ==
  /\ mpc = "start"
  /\ getMsg' = [getMsg EXCEPT ![typed] = "call"]
  /\ outMsg' = outMsg \cup {typed}
  /\ mpc' = "send"
  /\ UNCHANGED <<typed, sockfd, listening, data, process>>

\* The command reaches the node, or there is none.
SendCommand ==
  /\ mpc = "send"
  /\ asked' \in {asked, asked \cup {typed}}
  /\ mpc' = "read"
  /\ UNCHANGED <<typed, sockfd, listening, getMsg, outMsg, backlog, Message, printed, process>>

\* The node answers, on port 8010.
Answer(c) ==
  /\ c \in asked
  /\ asked' = asked \ {c}
  /\ backlog' = Append(backlog, c)
  /\ UNCHANGED <<main, getMsg, outMsg, Message, printed, process>>

\* accepted calls accept on the socket that sockfd names now, and if that
\* fails, exit(1).
CallAccept(t) ==
  /\ getMsg[t] = "call"
  /\ \/ /\ sockfd = listening
        /\ getMsg' = [getMsg EXCEPT ![t] = "accept"]
        /\ UNCHANGED process
     \/ /\ sockfd # listening
        /\ process' = "ended"
        /\ UNCHANGED getMsg
  /\ UNCHANGED <<main, outMsg, data>>

\* accept returns on the socket it was called for; a Task receives the answer.
Accepted(t) ==
  /\ getMsg[t] = "accept"
  /\ backlog # <<>>
  /\ Message' = Append(Message, Head(backlog))
  /\ backlog' = Tail(backlog)
  /\ getMsg' = [getMsg EXCEPT ![t] = "call"]
  /\ UNCHANGED <<main, outMsg, asked, printed, process>>

\* outMsg prints the first of the messages it has taken and drops the others.
PrintFirst(t) ==
  /\ t \in outMsg
  /\ Message # <<>>
  /\ printed' = printed \cup {Head(Message)}
  /\ Message' = IF Len(Message) <= Batch THEN <<>>
                ELSE SubSeq(Message, Batch + 1, Len(Message))
  /\ UNCHANGED <<main, getMsg, outMsg, asked, backlog, process>>

Next ==
  /\ process = "up"
  /\ \/ Setup \/ StartThreads \/ SendCommand
     \/ \E t \in Thread : Answer(t) \/ CallAccept(t) \/ Accepted(t) \/ PrintFirst(t)

Spec == Init /\ [][Next]_vars

\* README.md: "You can send the command", in the plural, and main reads lines
\* until there are none: the client goes on after each.
GoesOn == process = "up"
=============================================================================
