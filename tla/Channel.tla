------------------------------ MODULE Channel -------------------------------
(***************************************************************************)
(* What the receiving side of a node promises: a text that has arrived is  *)
(* handed to performComm exactly once.  Texts that arrive on different     *)
(* connections may be handed over in any order.                            *)
(***************************************************************************)
EXTENDS Naturals, Sequences

CONSTANT Conn          \* the connections, each of which brings one text

VARIABLES transit,     \* texts that have arrived and were not handed over
          received     \* texts handed over, in order

vars == <<transit, received>>

Init == transit = {} /\ received = <<>>

Arrive(c) ==
  /\ c \notin transit
  /\ \A n \in 1 .. Len(received) : received[n] # c
  /\ transit' = transit \cup {c}
  /\ UNCHANGED received

HandOver(c) ==
  /\ c \in transit
  /\ transit' = transit \ {c}
  /\ received' = Append(received, c)

Next == \E c \in Conn : Arrive(c) \/ HandOver(c)

Spec == Init /\ [][Next]_vars

FairSpec == Spec /\ \A c \in Conn : WF_vars(HandOver(c))
=============================================================================
