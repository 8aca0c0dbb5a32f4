------------------------------ MODULE Registry ------------------------------
(***************************************************************************)
(* What the Poller and the channels agree on, without slots and indices.   *)
(* Spec is what the Poller promises: a descriptor has at most one owner;   *)
(* who asks for nothing is switched off; only owners that ask for          *)
(* something and are switched on get a report.  Whether one that asks      *)
(* again is switched on again is left open.  RemovalWaits is what the      *)
(* users owe: nobody leaves while reports of the same poll are still to be *)
(* handled, which the Poller itself does not ask.                          *)
(*                                                                         *)
(* A report and its handling may coincide with a change of the registry:   *)
(* a handler changes it.                                                   *)
(***************************************************************************)
CONSTANTS Fds, Channels, NoChannel

VARIABLES
  owner,      \* of a descriptor: a channel, or NoChannel
  interest,   \* what a channel asked for
  off,        \* the registered channels that are switched off
  active      \* the channels with a report to be handled

vars == <<owner, interest, off, active>>

Init ==
  /\ owner = [fd \in Fds |-> NoChannel]
  /\ interest = [c \in Channels |-> {}]
  /\ off = {}
  /\ active = {}

Registered(c) == \E fd \in Fds : owner[fd] = c

Register(c, fd) ==
  /\ ~Registered(c)
  /\ owner[fd] = NoChannel
  /\ owner' = [owner EXCEPT ![fd] = c]
  /\ interest'[c] # {}
  /\ interest' = [interest EXCEPT ![c] = interest'[c]]
  /\ UNCHANGED off

Update(c) ==
  /\ Registered(c)
  /\ interest' = [interest EXCEPT ![c] = interest'[c]]
  /\ \/ interest'[c] = {} /\ off' = off \cup {c}
     \/ interest'[c] # {} /\ off' \in {off, off \ {c}}
  /\ UNCHANGED owner

Unregister(c, fd) ==
  /\ owner[fd] = c
  /\ interest[c] = {}
  /\ owner' = [owner EXCEPT ![fd] = NoChannel]
  /\ off' = off \ {c}
  /\ UNCHANGED interest

Report ==
  /\ active = {}
  /\ \A c \in active' : Registered(c) /\ c \notin off /\ interest[c] # {}
  /\ UNCHANGED <<owner, interest, off>>

Handle(c) == c \in active /\ active' = active \ {c}

Change ==
  \/ \E c \in Channels : Update(c)
  \/ \E c \in Channels, fd \in Fds : Register(c, fd) \/ Unregister(c, fd)

Next ==
  \/ Report
  \/ /\ UNCHANGED active \/ \E c \in active : Handle(c)
     /\ UNCHANGED <<owner, interest, off>> \/ Change

Spec == Init /\ [][Next]_vars

RemovalWaits ==
  [][(\E fd \in Fds : owner[fd] # NoChannel /\ owner'[fd] = NoChannel)
       => active = {}]_vars
=============================================================================
