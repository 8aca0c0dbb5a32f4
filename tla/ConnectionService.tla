------------------------- MODULE ConnectionService --------------------------
(***************************************************************************)
(* What a server promises to the users of its connections, with neither    *)
(* descriptors nor a loop: a connection comes up once and goes down once;  *)
(* a message that is accepted joins the end of what is to be delivered, as *)
(* a whole, and is delivered in that order; the end of the stream comes    *)
(* after everything accepted, unless the connection was lost, and after it *)
(* was asked for nothing is accepted.                                      *)
(***************************************************************************)
EXTENDS Naturals, Sequences

CONSTANTS
  Conns,
  Payloads   \* the messages, as sequences of bytes

VARIABLES
  phase,       \* "new", "up", "lost" (given up, the user not told) or "down"
  closing,     \* connections that accept nothing more
  ended,       \* connections whose stream was ended
  kept,        \* what is still to be delivered, in order
  delivered    \* what was delivered, in order

vars == <<phase, closing, ended, kept, delivered>>

Init ==
  /\ phase = [c \in Conns |-> "new"]
  /\ closing = {}
  /\ ended = {}
  /\ kept = [c \in Conns |-> <<>>]
  /\ delivered = [c \in Conns |-> <<>>]

Up(c) ==
  /\ phase[c] = "new"
  /\ phase' = [phase EXCEPT ![c] = "up"]
  /\ UNCHANGED <<closing, ended, kept, delivered>>

\* A message is accepted, and any part of what is kept is delivered.
Accept(c, p) ==
  /\ phase[c] \in {"up", "lost"}
  /\ c \notin closing
  /\ LET all == kept[c] \o p
     IN \E n \in 0..Len(all) :
          /\ delivered' = [delivered EXCEPT ![c] = @ \o SubSeq(all, 1, n)]
          /\ kept' = [kept EXCEPT ![c] = SubSeq(all, n + 1, Len(all))]
  /\ UNCHANGED <<phase, closing, ended>>

Close(c) ==
  /\ phase[c] \in {"up", "lost"}
  /\ c \notin closing
  /\ closing' = closing \cup {c}
  /\ \/ UNCHANGED ended
     \/ /\ kept[c] = <<>> \/ phase[c] = "lost"
        /\ ended' = ended \cup {c}
  /\ UNCHANGED <<phase, kept, delivered>>

Lose(c) ==
  /\ phase[c] = "up"
  /\ phase' = [phase EXCEPT ![c] = "lost"]
  /\ UNCHANGED <<closing, ended, kept, delivered>>

\* The user is told that the connection is down.
Down(c) ==
  /\ phase[c] = "lost"
  /\ phase' = [phase EXCEPT ![c] = "down"]
  /\ closing' = closing \cup {c}
  /\ UNCHANGED <<ended, kept, delivered>>

Next == \E c \in Conns :
  \/ Up(c) \/ Close(c) \/ Lose(c) \/ Down(c)
  \/ \E p \in Payloads : Accept(c, p)

Spec == Init /\ [][Next]_vars
=============================================================================
