---------------------------- MODULE SerialService ----------------------------
(***************************************************************************)
(* What ucp_client_server promises its users: clients are served one at a  *)
(* time, a client is turned away only while another one is held, and a     *)
(* client that is told so had all its messages delivered.                  *)
(***************************************************************************)
EXTENDS Naturals

CONSTANTS Clients, NoClient, NumIterations

VARIABLES
  holding,    \* the client the service holds, or NoClient
  status,     \* what became of each client
  delivered   \* messages of each client the service took

vars == <<holding, status, delivered>>

Init ==
  /\ holding = NoClient
  /\ status = [c \in Clients |-> "idle"]
  /\ delivered = [c \in Clients |-> 0]

Ask(c) ==
  /\ status[c] = "idle"
  /\ status' = [status EXCEPT ![c] = "asking"]
  /\ UNCHANGED <<holding, delivered>>

Admit(c) ==
  /\ holding = NoClient
  /\ holding' = c
  /\ status' = [status EXCEPT ![c] = IF @ = "asking" THEN "admitted" ELSE @]
  /\ UNCHANGED delivered

Refuse(c) ==
  /\ status[c] = "asking"
  /\ holding \notin {NoClient, c}
  /\ status' = [status EXCEPT ![c] = "refused"]
  /\ UNCHANGED <<holding, delivered>>

Deliver(c) ==
  /\ holding = c
  /\ delivered[c] < NumIterations
  /\ delivered' = [delivered EXCEPT ![c] = @ + 1]
  /\ UNCHANGED <<holding, status>>

\* The client learns that everything it sent was taken.
Acknowledge(c) ==
  /\ holding = c
  /\ status[c] = "admitted"
  /\ delivered[c] = NumIterations
  /\ status' = [status EXCEPT ![c] = "served"]
  /\ UNCHANGED <<holding, delivered>>

\* A client gives up or dies.
Lose(c) ==
  /\ status[c] \in {"asking", "admitted", "refused"}
  /\ status' = [status EXCEPT ![c] = "lost"]
  /\ UNCHANGED <<holding, delivered>>

\* The service lets go of a client that is served or lost.
Release(c) ==
  /\ holding = c
  /\ status[c] \in {"served", "lost"}
  /\ holding' = NoClient
  /\ UNCHANGED <<status, delivered>>

Next ==
  \E c \in Clients :
    \/ Ask(c) \/ Admit(c) \/ Refuse(c)
    \/ Deliver(c) \/ Acknowledge(c) \/ Lose(c) \/ Release(c)

Spec == Init /\ [][Next]_vars
=============================================================================
