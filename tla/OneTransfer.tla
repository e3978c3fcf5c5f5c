----------------------------- MODULE OneTransfer -----------------------------
(***************************************************************************)
(* What the coroutine programs promise: the server takes one client for    *)
(* good, only that client says it sent, the server says once how many      *)
(* bytes it received, and whoever returns from main said so before.        *)
(***************************************************************************)
EXTENDS Naturals

CONSTANTS Clients, Server, MsgLen

VARIABLES
  session,   \* the client the server took, a set of at most one
  reported,  \* processes that logged what they sent or received
  received,  \* bytes the server logged
  left       \* processes that returned from main

vars == <<session, reported, received, left>>

Init == session = {} /\ reported = {} /\ received = 0 /\ left = {}

\* Once the server has reported it takes nobody.
Connect(c) ==
  /\ session = {}
  /\ Server \notin reported
  /\ session' = {c}
  /\ UNCHANGED <<reported, received, left>>

\* The client may say so before the server does: its bytes only left.
ClientReports(c) ==
  /\ session = {c}
  /\ c \notin reported
  /\ reported' = reported \cup {c}
  /\ UNCHANGED <<session, received, left>>

ServerReports ==
  /\ session # {}
  /\ Server \notin reported
  /\ \E n \in 1..MsgLen : received' = n
  /\ reported' = reported \cup {Server}
  /\ UNCHANGED <<session, left>>

Leave(p) ==
  /\ p \in reported \ left
  /\ left' = left \cup {p}
  /\ UNCHANGED <<session, reported, received>>

Next ==
  \/ ServerReports \/ Leave(Server)
  \/ \E c \in Clients : Connect(c) \/ ClientReports(c) \/ Leave(c)

Spec == Init /\ [][Next]_vars
=============================================================================
