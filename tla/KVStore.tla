------------------------------ MODULE KVStore -------------------------------
(***************************************************************************)
(* What the database promises a client that waits for each answer: every   *)
(* command it is told has succeeded took effect once, on one map, between  *)
(* its request and its answer, and a command it is told has failed took    *)
(* no effect.                                                              *)
(***************************************************************************)
EXTENDS Sequences

CONSTANTS Client, Key, Absent, Empty, Nil, Workload

VARIABLES db, pending, replies

vars == <<db, pending, replies>>

Init ==
  /\ db = [k \in Key |-> Absent]
  /\ pending = [c \in Client |-> Nil]
  /\ replies = <<>>

Submit(c) ==
  /\ pending[c] = Nil
  /\ \E cmd \in Workload : pending' = [pending EXCEPT ![c] = cmd]
  /\ UNCHANGED <<db, replies>>

Answered(c, ok, val) ==
  /\ pending[c] # Nil
  /\ replies' = Append(replies, [client |-> c, cmd |-> pending[c], ok |-> ok, val |-> val])
  /\ pending' = [pending EXCEPT ![c] = Nil]

Named(c) == {pending[c].keys[n] : n \in DOMAIN pending[c].keys}

Set(c) ==
  /\ Answered(c, TRUE, Empty)
  /\ pending[c].op = "SET"
  /\ db' = [db EXCEPT ![pending[c].keys[1]] = pending[c].val]

Get(c) ==
  /\ pending[c] # Nil
  /\ pending[c].op = "GET"
  /\ db[pending[c].keys[1]] # Absent
  /\ Answered(c, TRUE, db[pending[c].keys[1]])
  /\ UNCHANGED db

Del(c) ==
  /\ Answered(c, TRUE, Empty)
  /\ pending[c].op = "DEL"
  /\ db' = [k \in Key |-> IF k \in Named(c) THEN Absent ELSE db[k]]

Refuse(c) ==
  /\ Answered(c, FALSE, Empty)
  /\ UNCHANGED db

Next == \E c \in Client : Submit(c) \/ Set(c) \/ Get(c) \/ Del(c) \/ Refuse(c)

Spec == Init /\ [][Next]_vars
=============================================================================
