------------------------- MODULE ClientServer_proofs -------------------------
(***************************************************************************)
(* What holds of ucp_client_server for every number of clients and of      *)
(* iterations, every communication type, either protocol, with and without *)
(* crashes.                                                                *)
(***************************************************************************)
EXTENDS ClientServer, TLAPS

ClientStates == {"start", "sending", "receiving", "done", "failed", "crashed"}
LinkStates == {"none", "queued", "held", "open", "rejected", "closed"}
FinStates == {"none", "flight", "arrived", "taken", "dropped"}

-----------------------------------------------------------------------------
(***************************************************************************)
(* The connection request.  A client that has not started has no request:  *)
(* without it, a step of such a client could touch the link the server     *)
(* holds.                                                                  *)
(***************************************************************************)
LinkType ==
  /\ client \in [Clients -> ClientStates]
  /\ link \in [Clients -> LinkStates]
  /\ conn_request \in Clients \cup {NoClient}

LinkInv ==
  /\ LinkType
  /\ \A c \in Clients : client[c] = "start" => link[c] = "none"
  /\ conn_request # NoClient => client[conn_request] # "start"
  /\ server = "listening" /\ conn_request # NoClient => link[conn_request] = "held"
  /\ OneClientAtATime

(***************************************************************************)
(* LinkInv is inductive.                                                   *)
(***************************************************************************)
LEMMA LinkInvHolds == Spec => []LinkInv
<1> USE ServerAssumption DEF LinkInv, LinkType, ClientStates, LinkStates,
                             OneClientAtATime, Serving
<1>1. Init => LinkInv
  BY DEF Init
<1>2. LinkInv /\ [Next]_vars => LinkInv'
  <2> SUFFICES ASSUME LinkInv, [Next]_vars
               PROVE  LinkInv'
    OBVIOUS
  <2> USE DEF options, clientVars, serverVars, epVars, netVars
  <2>1. ASSUME NEW c \in Clients, ClientSteps(c)
        PROVE  LinkInv'
    <3>1. CASE start_client(c)
      BY <3>1 DEF start_client
    <3>2. CASE client_transmit(c)
      BY <3>2 DEF client_transmit
    <3>3. CASE client_send_cb(c)
      BY <3>3 DEF client_send_cb
    <3>4. CASE client_next(c)
      BY <3>4 DEF client_next
    <3>5. CASE client_am_arrives(c)
      BY <3>5 DEF client_am_arrives
    <3>6. CASE client_receives_fin(c)
      BY <3>6 DEF client_receives_fin
    <3>7. CASE client_err_cb(c)
      BY <3>7 DEF client_err_cb
    <3>8. CASE client_fails(c)
      BY <3>8 DEF client_fails
    <3> QED BY <2>1, <3>1, <3>2, <3>3, <3>4, <3>5, <3>6, <3>7, <3>8 DEF ClientSteps
  <2>2. ASSUME NEW c \in Clients, server_conn_handle_cb(c)
        PROVE  LinkInv'
    BY <2>2 DEF server_conn_handle_cb
  <2>3. ASSUME NEW c \in Clients, client_crashes(c)
        PROVE  LinkInv'
    BY <2>3 DEF client_crashes
  <2>4. CASE server_create_ep
    BY <2>4 DEF server_create_ep
  <2>5. CASE server_recv_cb
    BY <2>5 DEF server_recv_cb
  <2>6. CASE ucp_am_data_cb
    BY <2>6 DEF ucp_am_data_cb
  <2>7. CASE server_am_wait_ends
    BY <2>7 DEF server_am_wait_ends
  <2>8. CASE server_am_recv_cb
    BY <2>8 DEF server_am_recv_cb
  <2>9. CASE server_next
    BY <2>9 DEF server_next
  <2>10. CASE server_transmit
    BY <2>10 DEF server_transmit
  <2>11. CASE server_send_cb
    BY <2>11 DEF server_send_cb
  <2>12. CASE server_sent_fin
    BY <2>12 DEF server_sent_fin
  <2>13. CASE err_cb
    BY <2>13 DEF err_cb
  <2>14. CASE server_op_fails
    BY <2>14 DEF server_op_fails
  <2>15. CASE server_next_client
    BY <2>15 DEF server_next_client
  <2>16. CASE server_fails
    BY <2>16 DEF server_fails
  <2>17. CASE server_create_ep_fails
    BY <2>17 DEF server_create_ep_fails
  <2>18. CASE UNCHANGED vars
    BY <2>18 DEF vars
  <2> QED BY <2>1, <2>2, <2>3, <2>4, <2>5, <2>6, <2>7, <2>8, <2>9, <2>10, <2>11,
             <2>12, <2>13, <2>14, <2>15, <2>16, <2>17, <2>18 DEF Next, ServerSteps
<1> QED BY <1>1, <1>2, PTL DEF Spec

(***************************************************************************)
(* server_conn_handle_cb keeps at most one request, and the server has an  *)
(* endpoint to nobody else, whatever arrives while it serves.              *)
(***************************************************************************)
THEOREM OneClient == Spec => []OneClientAtATime
<1>1. LinkInv => OneClientAtATime
  BY DEF LinkInv
<1> QED BY <1>1, LinkInvHolds, PTL

-----------------------------------------------------------------------------
(***************************************************************************)
(* Deliveries.  A request that was never granted an endpoint has nothing   *)
(* delivered, so a session starts from zero; the FIN message is only sent  *)
(* from the full count, and only a FIN message ends a client well.         *)
(***************************************************************************)
DeliveryType ==
  /\ arrived \in [Clients -> Nat]
  /\ buf \in Nat
  /\ shown \in [Clients -> Seq(Nat)]
  /\ fin \in [Clients -> FinStates]

DeliveryInv ==
  /\ DeliveryType
  /\ \A c \in Clients :
       /\ link[c] \in {"none", "queued", "held"} => Len(shown[c]) = 0
       /\ fin[c] # "none" => Len(shown[c]) = NumIterations
       /\ fin[c] # "none" => link[c] \in {"open", "closed"}
       /\ client[c] = "done" => fin[c] # "none"
  /\ server = "receiving" => Len(shown[conn_request]) < NumIterations
  /\ server = "receiving" => fin[conn_request] = "none"
  /\ server \in {"sending", "closing"} => Len(shown[conn_request]) = NumIterations

(***************************************************************************)
(* DeliveryInv is inductive relative to LinkInv.                           *)
(***************************************************************************)
LEMMA DeliveryInvHolds == Spec => []DeliveryInv
<1> USE ServerAssumption DEF DeliveryInv, DeliveryType, FinStates
<1>1. Init => DeliveryInv
  BY DEF Init, Unwritten
<1>2. LinkInv /\ DeliveryInv /\ [Next]_vars => DeliveryInv'
  <2> SUFFICES ASSUME LinkInv, DeliveryInv, [Next]_vars
               PROVE  DeliveryInv'
    OBVIOUS
  <2> USE DEF LinkInv, LinkType, ClientStates, LinkStates, OneClientAtATime, Serving,
              options, clientVars, serverVars, epVars, netVars
  <2>1. ASSUME NEW c \in Clients, ClientSteps(c)
        PROVE  DeliveryInv'
    <3>1. CASE start_client(c)
      BY <3>1 DEF start_client
    <3>2. CASE client_transmit(c)
      BY <3>2 DEF client_transmit
    <3>3. CASE client_send_cb(c)
      BY <3>3 DEF client_send_cb
    <3>4. CASE client_next(c)
      BY <3>4 DEF client_next
    <3>5. CASE client_am_arrives(c)
      BY <3>5 DEF client_am_arrives
    <3>6. CASE client_receives_fin(c)
      BY <3>6 DEF client_receives_fin
    <3>7. CASE client_err_cb(c)
      BY <3>7 DEF client_err_cb
    <3>8. CASE client_fails(c)
      BY <3>8 DEF client_fails
    <3> QED BY <2>1, <3>1, <3>2, <3>3, <3>4, <3>5, <3>6, <3>7, <3>8 DEF ClientSteps
  <2>2. ASSUME NEW c \in Clients, server_conn_handle_cb(c)
        PROVE  DeliveryInv'
    BY <2>2 DEF server_conn_handle_cb
  <2>3. ASSUME NEW c \in Clients, client_crashes(c)
        PROVE  DeliveryInv'
    BY <2>3 DEF client_crashes
  <2>4. CASE server_create_ep
    BY <2>4 DEF server_create_ep, post_receive, Unwritten
  <2>5. CASE server_recv_cb
    BY <2>5 DEF server_recv_cb, Incoming
  <2>6. CASE ucp_am_data_cb
    BY <2>6 DEF ucp_am_data_cb, Incoming
  <2>7. CASE server_am_wait_ends
    BY <2>7 DEF server_am_wait_ends
  <2>8. CASE server_am_recv_cb
    BY <2>8 DEF server_am_recv_cb
  <2>9. CASE server_next
    <3>1. /\ conn_request \in Clients
          /\ shown' \in [Clients -> Seq(Nat)]
          /\ Len(shown'[conn_request]) = Len(shown[conn_request]) + 1
          /\ \A c \in Clients \ {conn_request} : shown'[c] = shown[c]
      BY <2>9 DEF server_next
    <3> QED BY <2>9, <3>1 DEF server_next, post_receive, Unwritten
  <2>10. CASE server_transmit
    BY <2>10 DEF server_transmit
  <2>11. CASE server_send_cb
    BY <2>11 DEF server_send_cb
  <2>12. CASE server_sent_fin
    BY <2>12 DEF server_sent_fin
  <2>13. CASE err_cb
    BY <2>13 DEF err_cb
  <2>14. CASE server_op_fails
    BY <2>14 DEF server_op_fails
  <2>15. CASE server_next_client
    BY <2>15 DEF server_next_client
  <2>16. CASE server_fails
    BY <2>16 DEF server_fails
  <2>17. CASE server_create_ep_fails
    BY <2>17 DEF server_create_ep_fails
  <2>18. CASE UNCHANGED vars
    BY <2>18 DEF vars
  <2> QED BY <2>1, <2>2, <2>3, <2>4, <2>5, <2>6, <2>7, <2>8, <2>9, <2>10, <2>11,
             <2>12, <2>13, <2>14, <2>15, <2>16, <2>17, <2>18 DEF Next, ServerSteps
<1> QED BY <1>1, <1>2, LinkInvHolds, PTL DEF Spec

(***************************************************************************)
(* The FIN message acknowledges delivery: no client that received it has a *)
(* message the server did not finish, whatever crashes around it.          *)
(***************************************************************************)
THEOREM FinMeansDelivered == Spec => []FinAcknowledges
<1>1. DeliveryInv => FinAcknowledges
  BY DEF DeliveryInv, FinAcknowledges
<1> QED BY <1>1, DeliveryInvHolds, PTL

-----------------------------------------------------------------------------
(***************************************************************************)
(* Release.  While the server serves, connection_closed is about the       *)
(* endpoint it has: server_create_ep lowers it, err_cb alone raises it,    *)
(* when the endpoint's client has ended, and one that has ended stays so.  *)
(* An operation is pending only while its owner waits for it.              *)
(***************************************************************************)
ClosedInv ==
  /\ creq \in [Clients -> {"none", "posted", "left", "ok", "error"}]
  /\ Serving => ep_failed = connection_closed
  /\ Serving /\ connection_closed => Gone(conn_request)
  /\ sreq = "error" => server \in {"receiving", "sending"}
  /\ \A c \in Clients :
       /\ creq[c] # "none" => client[c] \in {"sending", "receiving"}
       /\ link[c] = "closed" => Gone(c) \/ conn_request = c

(***************************************************************************)
(* ClosedInv is inductive relative to LinkInv.                             *)
(***************************************************************************)
LEMMA ClosedInvHolds == Spec => []ClosedInv
<1> USE ServerAssumption DEF ClosedInv, Serving, Gone
<1>1. Init => ClosedInv
  BY DEF Init
<1>2. LinkInv /\ ClosedInv /\ [Next]_vars => ClosedInv'
  <2> SUFFICES ASSUME LinkInv, ClosedInv, [Next]_vars
               PROVE  ClosedInv'
    OBVIOUS
  <2> USE DEF LinkInv, LinkType, ClientStates, LinkStates, OneClientAtATime,
              options, clientVars, serverVars, epVars, netVars
  <2>1. ASSUME NEW c \in Clients, ClientSteps(c)
        PROVE  ClosedInv'
    <3>1. CASE start_client(c)
      BY <3>1 DEF start_client
    <3>2. CASE client_transmit(c)
      BY <3>2 DEF client_transmit
    <3>3. CASE client_send_cb(c)
      BY <3>3 DEF client_send_cb
    <3>4. CASE client_next(c)
      BY <3>4 DEF client_next
    <3>5. CASE client_am_arrives(c)
      BY <3>5 DEF client_am_arrives
    <3>6. CASE client_receives_fin(c)
      BY <3>6 DEF client_receives_fin
    <3>7. CASE client_err_cb(c)
      BY <3>7 DEF client_err_cb
    <3>8. CASE client_fails(c)
      BY <3>8 DEF client_fails
    <3> QED BY <2>1, <3>1, <3>2, <3>3, <3>4, <3>5, <3>6, <3>7, <3>8 DEF ClientSteps
  <2>2. ASSUME NEW c \in Clients, server_conn_handle_cb(c)
        PROVE  ClosedInv'
    BY <2>2 DEF server_conn_handle_cb
  <2>3. ASSUME NEW c \in Clients, client_crashes(c)
        PROVE  ClosedInv'
    BY <2>3 DEF client_crashes
  <2>4. CASE server_create_ep
    BY <2>4 DEF server_create_ep, post_receive, Unwritten
  <2>5. CASE server_recv_cb
    BY <2>5 DEF server_recv_cb, Incoming
  <2>6. CASE ucp_am_data_cb
    BY <2>6 DEF ucp_am_data_cb, Incoming
  <2>7. CASE server_am_wait_ends
    BY <2>7 DEF server_am_wait_ends
  <2>8. CASE server_am_recv_cb
    BY <2>8 DEF server_am_recv_cb
  <2>9. CASE server_next
    BY <2>9 DEF server_next, post_receive
  <2>10. CASE server_transmit
    BY <2>10 DEF server_transmit
  <2>11. CASE server_send_cb
    BY <2>11 DEF server_send_cb
  <2>12. CASE server_sent_fin
    BY <2>12 DEF server_sent_fin
  <2>13. CASE err_cb
    BY <2>13 DEF err_cb
  <2>14. CASE server_op_fails
    BY <2>14 DEF server_op_fails
  <2>15. CASE server_next_client
    BY <2>15 DEF server_next_client
  <2>16. CASE server_fails
    BY <2>16 DEF server_fails
  <2>17. CASE server_create_ep_fails
    BY <2>17 DEF server_create_ep_fails
  <2>18. CASE UNCHANGED vars
    BY <2>18 DEF vars
  <2> QED BY <2>1, <2>2, <2>3, <2>4, <2>5, <2>6, <2>7, <2>8, <2>9, <2>10, <2>11,
             <2>12, <2>13, <2>14, <2>15, <2>16, <2>17, <2>18 DEF Next, ServerSteps
<1> QED BY <1>1, <1>2, LinkInvHolds, PTL DEF Spec

(***************************************************************************)
(* The server lets go only of a client that has ended: connection_closed   *)
(* is never a left-over of an earlier session.                             *)
(***************************************************************************)
THEOREM ReleasesOnlyGone == Spec => ReleasedWhenGone
<1>1. LinkInv /\ ClosedInv /\ [Next]_vars
        => [conn_request # NoClient /\ conn_request' # conn_request => Gone(conn_request)]_vars
  <2> SUFFICES ASSUME LinkInv, ClosedInv, Next,
                      conn_request # NoClient, conn_request' # conn_request
               PROVE  Gone(conn_request)
    OBVIOUS
  <2>1. server = "closing" /\ connection_closed
    BY DEF Next, ServerSteps, ClientSteps, options, clientVars, serverVars, epVars, netVars,
           start_client, client_transmit, client_send_cb, client_next, client_am_arrives,
           client_receives_fin, client_err_cb, client_fails, server_conn_handle_cb,
           client_crashes, server_create_ep, server_recv_cb, ucp_am_data_cb,
           server_am_wait_ends, server_am_recv_cb, server_next, server_transmit,
           server_send_cb, server_sent_fin, err_cb, server_op_fails, server_next_client,
           server_fails, server_create_ep_fails
  <2> QED BY <2>1 DEF ClosedInv, Serving
<1> QED BY <1>1, LinkInvHolds, ClosedInvHolds, PTL DEF Spec, ReleasedWhenGone

-----------------------------------------------------------------------------
(***************************************************************************)
(* Refinement, from the three invariants together.                         *)
(***************************************************************************)
RefineInv == LinkInv /\ DeliveryInv /\ ClosedInv

(***************************************************************************)
(* A step that touches neither the request, nor where a client stands, nor *)
(* a finished iteration, is invisible.                                     *)
(***************************************************************************)
LEMMA Invisible ==
  ASSUME conn_request' = conn_request, status' = status, shown' = shown
  PROVE  UNCHANGED Service!vars
BY DEF Service!vars

(***************************************************************************)
(* Every step of ucp_client_server is one of SerialService or invisible.   *)
(***************************************************************************)
LEMMA StepRefines == RefineInv /\ [Next]_vars => [Service!Next]_(Service!vars)
<1> SUFFICES ASSUME RefineInv, [Next]_vars
             PROVE  [Service!Next]_(Service!vars)
  OBVIOUS
<1> USE ServerAssumption DEF RefineInv, LinkInv, LinkType, ClientStates, LinkStates,
        OneClientAtATime, Serving, options, clientVars, serverVars, epVars, netVars
<1>1. ASSUME NEW c \in Clients, start_client(c)
      PROVE  Service!Ask(c)
  BY <1>1 DEF start_client, Service!Ask, status, Gone
<1>2. ASSUME NEW c \in Clients, client_transmit(c) \/ client_send_cb(c) \/ client_next(c)
                                \/ client_am_arrives(c) \/ client_err_cb(c)
      PROVE  UNCHANGED Service!vars
  <2>1. conn_request' = conn_request /\ shown' = shown /\ link' = link
    BY <1>2 DEF client_transmit, client_send_cb, client_next, client_am_arrives, client_err_cb
  <2>2. \A d \in Clients : client'[d] = client[d]
                           \/ (client[d] = "sending" /\ client'[d] = "receiving")
    BY <1>2 DEF client_transmit, client_send_cb, client_next, client_am_arrives, client_err_cb
  <2>3. status' = status
    BY <2>1, <2>2 DEF status, Gone
  <2> QED BY <2>1, <2>3, Invisible
<1>3. ASSUME NEW c \in Clients, client_receives_fin(c)
      PROVE  Service!Acknowledge(c)
  <2>1. /\ fin[c] # "none" /\ client[c] = "receiving"
        /\ client' = [client EXCEPT ![c] = "done"]
        /\ UNCHANGED <<link, conn_request, shown>>
    BY <1>3 DEF client_receives_fin
  <2>2. conn_request = c /\ Len(shown[c]) = NumIterations
    BY <2>1 DEF DeliveryInv, ClosedInv, Gone
  <2>3. link[c] \in {"open", "closed"}
    BY <2>1 DEF DeliveryInv
  <2>4. status[c] = "admitted" /\ status' = [status EXCEPT ![c] = "served"]
    BY <2>1, <2>3 DEF status, Gone
  <2> QED BY <2>1, <2>2, <2>4 DEF Service!Acknowledge
<1>4. ASSUME NEW c \in Clients, client_fails(c) \/ client_crashes(c)
      PROVE  Service!Lose(c)
  <2>1. /\ client[c] \in {"sending", "receiving"}
        /\ UNCHANGED <<link, conn_request, shown>>
        /\ client' = [client EXCEPT ![c] = "failed"] \/ client' = [client EXCEPT ![c] = "crashed"]
    BY <1>4 DEF client_fails, client_crashes, ClosedInv
  <2>2. status[c] \in {"asking", "admitted", "refused"}
    BY <2>1 DEF status, Gone
  <2>3. status' = [status EXCEPT ![c] = "lost"]
    BY <2>1 DEF status, Gone
  <2> QED BY <2>1, <2>2, <2>3 DEF Service!Lose
<1>5. ASSUME NEW c \in Clients, server_conn_handle_cb(c)
      PROVE  Service!Admit(c) \/ Service!Refuse(c) \/ UNCHANGED Service!vars
  <2> USE DEF server_conn_handle_cb
  <2>1. CASE conn_request = NoClient
    BY <1>5, <2>1 DEF Service!Admit, status, Gone
  <2>2. CASE conn_request # NoClient /\ Gone(c)
    BY <1>5, <2>2, Invisible DEF status, Gone
  <2>3. CASE conn_request # NoClient /\ ~Gone(c)
    <3>1. status[c] = "asking" /\ status' = [status EXCEPT ![c] = "refused"]
      BY <1>5, <2>3 DEF status, Gone
    <3> QED BY <1>5, <2>3, <3>1 DEF Service!Refuse
  <2> QED BY <2>1, <2>2, <2>3
<1>6. CASE server_create_ep \/ server_fails
  <2>1. /\ conn_request \in Clients /\ client[conn_request] # "start"
        /\ link[conn_request] \in {"held", "open"}
        /\ link'[conn_request] \in {"open", "closed"}
        /\ \A d \in Clients \ {conn_request} : link'[d] = link[d]
        /\ UNCHANGED <<client, conn_request, shown>>
    BY <1>6 DEF server_create_ep, server_fails, ClosedInv
  <2>2. status' = status
    BY <2>1 DEF status, Gone
  <2> QED BY <2>1, <2>2, Invisible
<1>7. CASE \/ server_recv_cb \/ ucp_am_data_cb \/ server_am_wait_ends
           \/ server_am_recv_cb \/ server_transmit \/ server_send_cb
           \/ server_sent_fin \/ err_cb \/ server_op_fails
           \/ server_create_ep_fails \/ UNCHANGED vars
  <2>1. UNCHANGED <<client, link, conn_request, shown>>
    BY <1>7 DEF server_recv_cb, ucp_am_data_cb, server_am_wait_ends, server_am_recv_cb,
                server_transmit, server_send_cb, server_sent_fin, err_cb, server_op_fails,
                server_create_ep_fails, vars
  <2>2. status' = status
    BY <2>1 DEF status, Gone
  <2> QED BY <2>1, <2>2, Invisible
<1>8. CASE server_next
  <2>1. /\ conn_request \in Clients
        /\ Len(shown[conn_request]) < NumIterations
        /\ UNCHANGED <<client, link, conn_request>>
    BY <1>8 DEF server_next, DeliveryInv
  <2>2. /\ Len(shown'[conn_request]) = Len(shown[conn_request]) + 1
        /\ \A d \in Clients \ {conn_request} : shown'[d] = shown[d]
    BY <1>8, <2>1 DEF server_next, DeliveryInv, DeliveryType
  <2>3. status' = status
    BY <2>1 DEF status, Gone
  <2>4. [c \in Clients |-> Len(shown[c])]'
          = [[c \in Clients |-> Len(shown[c])] EXCEPT ![conn_request] = @ + 1]
    BY <2>1, <2>2
  <2>5. PICK c \in Clients : c = conn_request
    BY <2>1
  <2>6. Service!Deliver(c)
    BY <2>1, <2>3, <2>4, <2>5 DEF Service!Deliver
  <2> QED BY <2>6 DEF Service!Next
<1>9. CASE server_next_client
  <2>1. /\ conn_request \in Clients /\ Gone(conn_request)
        /\ client[conn_request] # "start"
        /\ conn_request' = NoClient
        /\ \A d \in Clients \ {conn_request} : link'[d] = link[d]
        /\ UNCHANGED <<client, shown>>
    BY <1>9 DEF server_next_client, ClosedInv
  <2>2. status' = status
    BY <2>1 DEF status, Gone
  <2>3. status[conn_request] \in {"served", "lost"}
    BY <2>1 DEF status, Gone
  <2>4. Service!Release(conn_request)
    BY <2>1, <2>2, <2>3 DEF Service!Release
  <2> QED BY <2>1, <2>4 DEF Service!Next
<1> QED
  BY <1>1, <1>2, <1>3, <1>4, <1>5, <1>6, <1>7, <1>8, <1>9
     DEF Next, ServerSteps, ClientSteps, Service!Next

(***************************************************************************)
(* ucp_client_server implements SerialService: whatever crashes, clients   *)
(* are served one after the other, refused only while another one is held, *)
(* and told they are served only when they are.                            *)
(***************************************************************************)
THEOREM Implements == Spec => ServesSerially
<1>1. Init => Service!Init
  BY ServerAssumption DEF Init, Service!Init, status, Gone
<1> QED BY <1>1, StepRefines, LinkInvHolds, DeliveryInvHolds, ClosedInvHolds, PTL
        DEF Spec, Service!Spec, ServesSerially, RefineInv

-----------------------------------------------------------------------------
(***************************************************************************)
(* The flow of messages.  The server has taken from its worker what it     *)
(* finished, what its current iteration holds, and what the AM counter has *)
(* not given out; a client is never more than one rendezvous ahead.        *)
(***************************************************************************)
Taken ==
  Len(shown[conn_request]) + unseen
    + (IF server = "receiving" /\ (sreq = "ok" \/ (send_recv_type = "am" /\ sreq = "posted"))
       THEN 1 ELSE 0)

CountInv ==
  \A c \in Clients :
    /\ fetched[c] <= arrived[c] /\ arrived[c] <= sent[c] /\ sent[c] <= NumIterations
    /\ client[c] = "start" => sent[c] = 0 /\ iter[c] = 0
    /\ creq[c] # "none" => client[c] \in {"sending", "receiving"}
    /\ client[c] = "sending" => iter[c] < NumIterations
    /\ client[c] = "sending" /\ creq[c] = "posted" => sent[c] = iter[c]
    /\ client[c] = "sending" /\ creq[c] \in {"left", "ok"} => sent[c] = iter[c] + 1
    /\ rndv => sent[c] <= fetched[c] + 1
    /\ rndv /\ client[c] = "sending" /\ creq[c] \in {"posted", "ok"} => sent[c] = fetched[c]
    /\ link[c] \in {"none", "queued", "held"} => arrived[c] = 0
    /\ link[c] = "closed" => arrived[c] = NumIterations \/ server = "exited"

SessionInv ==
  /\ server = "listening" => unseen = 0
  /\ send_recv_type # "am" => unseen = 0
  /\ server = "receiving" => sreq \in {"waiting", "posted", "ok", "error"}
  /\ sreq = "error" => server \in {"receiving", "sending"} /\ ep_failed
  /\ sreq = "waiting" => server = "receiving" /\ send_recv_type = "am"
  /\ Serving /\ sreq # "error" => arrived[conn_request] = Taken
  /\ server = "receiving" /\ sreq \in {"waiting", "posted"} /\ (send_recv_type = "am" => rndv)
       => fetched[conn_request] = Len(shown[conn_request])
  /\ server = "receiving" /\ sreq = "ok" /\ (send_recv_type = "am" => rndv)
       => /\ buf = Len(shown[conn_request]) + 1
          /\ fetched[conn_request] = Len(shown[conn_request]) + 1

FlowInv == TypeOK /\ CountInv /\ SessionInv /\ InOrder

(***************************************************************************)
(* FlowInv is inductive relative to LinkInv and DeliveryInv.               *)
(***************************************************************************)
LEMMA FlowInvHolds == Spec => []FlowInv
<1> USE ServerAssumption DEF FlowInv
<1>1. Init => FlowInv
  <2> SUFFICES ASSUME Init PROVE FlowInv
    OBVIOUS
  <2>1. TypeOK
    <3>1. shown \in [Clients -> Seq(0..NumIterations)] /\ \A c \in Clients : Len(shown[c]) = 0
      BY DEF Init
    <3>2. connection_closed \in BOOLEAN /\ ep_failed \in BOOLEAN
      BY Zenon DEF Init
    <3> QED BY <3>1, <3>2 DEF Init, Unwritten, TypeOK
  <2>2. CountInv /\ SessionInv /\ InOrder
    BY DEF Init, Unwritten, Serving, CountInv, SessionInv, InOrder, Taken
  <2> QED BY <2>1, <2>2
<1>2. LinkInv /\ DeliveryInv /\ FlowInv /\ [Next]_vars => FlowInv'
  <2> SUFFICES ASSUME LinkInv, DeliveryInv, FlowInv, [Next]_vars
               PROVE  FlowInv'
    OBVIOUS
  <2> USE DEF TypeOK, LinkInv, LinkType, ClientStates, LinkStates, OneClientAtATime, Serving,
              DeliveryInv, DeliveryType, FinStates,
              options, clientVars, serverVars, epVars, netVars
  <2>1. ASSUME NEW c \in Clients, ClientSteps(c)
        PROVE  FlowInv'
    <3>1. CASE start_client(c)
      <4>1. TypeOK'
        BY <3>1 DEF start_client
      <4>2. CountInv'
        BY <3>1 DEF start_client, CountInv
      <4>3. SessionInv'
        BY <3>1 DEF start_client, CountInv, SessionInv, Taken
      <4>4. InOrder'
        BY <3>1 DEF start_client, InOrder, SessionInv
      <4> QED BY <4>1, <4>2, <4>3, <4>4
    <3>2. CASE client_transmit(c)
      <4>1. TypeOK'
        BY <3>2 DEF client_transmit, CountInv
      <4>2. CountInv'
        BY <3>2 DEF client_transmit, CountInv
      <4>3. SessionInv'
        BY <3>2 DEF client_transmit, CountInv, SessionInv, Taken
      <4>4. InOrder'
        BY <3>2 DEF client_transmit, InOrder, SessionInv
      <4> QED BY <4>1, <4>2, <4>3, <4>4
    <3>3. CASE client_send_cb(c)
      <4>1. TypeOK'
        BY <3>3 DEF client_send_cb
      <4>2. CountInv'
        BY <3>3 DEF client_send_cb, CountInv
      <4>3. SessionInv'
        BY <3>3 DEF client_send_cb, CountInv, SessionInv, Taken
      <4>4. InOrder'
        BY <3>3 DEF client_send_cb, InOrder, SessionInv
      <4> QED BY <4>1, <4>2, <4>3, <4>4
    <3>4. CASE client_next(c)
      <4>1. TypeOK'
        BY <3>4 DEF client_next, CountInv
      <4>2. CountInv'
        BY <3>4 DEF client_next, CountInv
      <4>3. SessionInv'
        BY <3>4 DEF client_next, CountInv, SessionInv, Taken
      <4>4. InOrder'
        BY <3>4 DEF client_next, InOrder, SessionInv
      <4> QED BY <4>1, <4>2, <4>3, <4>4
    <3>5. CASE client_am_arrives(c)
      <4>1. TypeOK'
        BY <3>5 DEF client_am_arrives
      <4>2. CountInv'
        BY <3>5 DEF client_am_arrives, CountInv
      <4>3. SessionInv'
        BY <3>5 DEF client_am_arrives, CountInv, SessionInv, Taken
      <4>4. InOrder'
        BY <3>5 DEF client_am_arrives, InOrder, SessionInv
      <4> QED BY <4>1, <4>2, <4>3, <4>4
    <3>6. CASE client_receives_fin(c)
      <4>1. TypeOK'
        BY <3>6 DEF client_receives_fin
      <4>2. CountInv'
        BY <3>6 DEF client_receives_fin, CountInv
      <4>3. SessionInv'
        BY <3>6 DEF client_receives_fin, CountInv, SessionInv, Taken
      <4>4. InOrder'
        BY <3>6 DEF client_receives_fin, InOrder, SessionInv
      <4> QED BY <4>1, <4>2, <4>3, <4>4
    <3>7. CASE client_err_cb(c)
      <4>1. TypeOK'
        BY <3>7 DEF client_err_cb
      <4>2. CountInv'
        BY <3>7 DEF client_err_cb, CountInv
      <4>3. SessionInv'
        BY <3>7 DEF client_err_cb, CountInv, SessionInv, Taken
      <4>4. InOrder'
        BY <3>7 DEF client_err_cb, InOrder, SessionInv
      <4> QED BY <4>1, <4>2, <4>3, <4>4
    <3>8. CASE client_fails(c)
      <4>1. TypeOK'
        BY <3>8 DEF client_fails
      <4>2. CountInv'
        BY <3>8 DEF client_fails, CountInv
      <4>3. SessionInv'
        BY <3>8 DEF client_fails, CountInv, SessionInv, Taken
      <4>4. InOrder'
        BY <3>8 DEF client_fails, InOrder, SessionInv
      <4> QED BY <4>1, <4>2, <4>3, <4>4
    <3> QED BY <2>1, <3>1, <3>2, <3>3, <3>4, <3>5, <3>6, <3>7, <3>8 DEF ClientSteps
  <2>2. ASSUME NEW c \in Clients, server_conn_handle_cb(c)
        PROVE  FlowInv'
    <3>1. /\ link[c] = "queued" /\ server = "listening"
          /\ UNCHANGED <<options, clientVars, server, sreq, epVars, buf, shown,
                         sent, arrived, fetched, fin, unseen>>
      BY <2>2 DEF server_conn_handle_cb
    <3>2. /\ conn_request' \in Clients \cup {NoClient}
          /\ \E l \in {"held", "rejected"} : link' = [link EXCEPT ![c] = l]
      BY <2>2 DEF server_conn_handle_cb
    <3>3. TypeOK'
      BY <3>1, <3>2
    <3>4. CountInv'
      BY <3>1, <3>2 DEF CountInv
    <3>5. SessionInv'
      BY <3>1, <3>2 DEF SessionInv, Taken
    <3>6. InOrder'
      BY <3>1 DEF InOrder
    <3> QED BY <3>3, <3>4, <3>5, <3>6
  <2>3. ASSUME NEW c \in Clients, client_crashes(c)
        PROVE  FlowInv'
    <3>1. TypeOK'
      BY <2>3 DEF client_crashes
    <3>2. CountInv'
      BY <2>3 DEF client_crashes, CountInv
    <3>3. SessionInv'
      BY <2>3 DEF client_crashes, CountInv, SessionInv, Taken
    <3>4. InOrder'
      BY <2>3 DEF client_crashes, InOrder, SessionInv
    <3> QED BY <3>1, <3>2, <3>3, <3>4
  <2>4. CASE server_create_ep
    <3>1. /\ server = "listening"
          /\ conn_request \in Clients /\ link[conn_request] = "held"
          /\ arrived[conn_request] = 0 /\ fetched[conn_request] = 0
          /\ Len(shown[conn_request]) = 0 /\ unseen = 0
          /\ server' = "receiving" /\ buf' = 0 /\ connection_closed' = FALSE /\ ep_failed' = FALSE
          /\ sreq' \in {"waiting", "posted"}
          /\ sreq' = "waiting" <=> send_recv_type = "am"
          /\ link' = [link EXCEPT ![conn_request] = "open"]
          /\ UNCHANGED <<options, clientVars, conn_request, shown, sent, arrived,
                         fetched, fin, unseen>>
      BY <2>4 DEF server_create_ep, post_receive, Unwritten, CountInv, SessionInv
    <3>2. TypeOK'
      BY <3>1
    <3>3. CountInv'
      BY <3>1 DEF CountInv
    <3>4. SessionInv'
      BY <3>1 DEF SessionInv, Taken
    <3>5. InOrder'
      BY <3>1 DEF InOrder
    <3> QED BY <3>2, <3>3, <3>4, <3>5
  <2>5. CASE server_recv_cb
    <3>1. TypeOK'
      BY <2>5 DEF server_recv_cb, Incoming
    <3>2. CountInv'
      BY <2>5 DEF server_recv_cb, Incoming, CountInv
    <3>3. SessionInv'
      BY <2>5 DEF server_recv_cb, Incoming, CountInv, SessionInv, Taken
    <3>4. InOrder'
      BY <2>5 DEF server_recv_cb, Incoming, InOrder, SessionInv
    <3> QED BY <3>1, <3>2, <3>3, <3>4
  <2>6. CASE ucp_am_data_cb
    <3>1. /\ send_recv_type = "am" /\ sreq # "error" /\ conn_request \in Clients
          /\ arrived[conn_request] < sent[conn_request]
          /\ sent[conn_request] <= NumIterations
          /\ arrived[conn_request] = Taken
      BY <2>6 DEF ucp_am_data_cb, Incoming, CountInv, SessionInv
    <3>2. unseen + 1 <= NumIterations /\ arrived[conn_request] + 1 <= NumIterations
      BY <3>1 DEF Taken
    <3>3. /\ arrived' = [arrived EXCEPT ![conn_request] = @ + 1]
          /\ unseen' = unseen + 1
          /\ \/ rndv /\ UNCHANGED <<fetched, buf>>
             \/ ~rndv /\ fetched' = arrived' /\ buf' = arrived[conn_request] + 1
          /\ UNCHANGED <<options, clientVars, server, sreq, conn_request, epVars,
                         shown, link, sent, fin>>
      BY <2>6, <3>1 DEF ucp_am_data_cb
    <3>4. TypeOK'
      <4>1. arrived' \in [Clients -> 0..NumIterations] /\ unseen' \in 0..NumIterations
        BY <3>1, <3>2, <3>3
      <4>2. fetched' \in [Clients -> 0..NumIterations] /\ buf' \in 0..NumIterations
        BY <3>1, <3>2, <3>3, <4>1
      <4> QED BY <3>3, <4>1, <4>2
    <3>5. CountInv'
      <4> SUFFICES ASSUME NEW d \in Clients
                   PROVE  CountInv!(d)'
        BY DEF CountInv
      <4>1. CountInv!(d)
        BY DEF CountInv
      <4>2. UNCHANGED <<client, iter, creq, link, sent, server, rndv>>
        BY <3>3
      <4>3. CASE d # conn_request
        <5>1. arrived'[d] = arrived[d] /\ (fetched'[d] = fetched[d] \/ fetched'[d] = arrived[d])
          BY <3>1, <3>3, <4>3
        <5>2. rndv => fetched'[d] = fetched[d]
          BY <3>3
        <5> QED BY <4>1, <4>2, <5>1, <5>2
      <4>4. CASE d = conn_request
        <5>1. /\ arrived'[d] = arrived[d] + 1 /\ link[d] = "open"
              /\ fetched'[d] = fetched[d] \/ fetched'[d] = arrived'[d]
          BY <2>6, <3>1, <3>3, <4>4 DEF ucp_am_data_cb, Incoming
        <5>2. rndv => fetched'[d] = fetched[d]
          BY <3>3
        <5> QED BY <3>1, <4>1, <4>2, <4>4, <5>1, <5>2
      <4> QED BY <4>3, <4>4
    <3>6. SessionInv'
      BY <2>6, <3>1, <3>3 DEF SessionInv, Taken, Incoming, ucp_am_data_cb
    <3>7. InOrder'
      BY <3>3 DEF InOrder
    <3> QED BY <3>4, <3>5, <3>6, <3>7
  <2>7. CASE server_am_wait_ends
    <3>1. TypeOK'
      BY <2>7 DEF server_am_wait_ends
    <3>2. CountInv'
      BY <2>7 DEF server_am_wait_ends, CountInv
    <3>3. SessionInv'
      BY <2>7 DEF server_am_wait_ends, CountInv, SessionInv, Taken
    <3>4. InOrder'
      BY <2>7 DEF server_am_wait_ends, InOrder, SessionInv
    <3> QED BY <3>1, <3>2, <3>3, <3>4
  <2>8. CASE server_am_recv_cb
    <3>1. TypeOK'
      BY <2>8 DEF server_am_recv_cb
    <3>2. CountInv'
      BY <2>8 DEF server_am_recv_cb, CountInv
    <3>3. SessionInv'
      BY <2>8 DEF server_am_recv_cb, CountInv, SessionInv, Taken
    <3>4. InOrder'
      BY <2>8 DEF server_am_recv_cb, InOrder, SessionInv
    <3> QED BY <3>1, <3>2, <3>3, <3>4
  <2>9. CASE server_next
    <3>1. /\ conn_request \in Clients /\ Len(shown[conn_request]) < NumIterations
          /\ buf \in 0..NumIterations
          /\ shown' = [shown EXCEPT ![conn_request] = Append(@, buf)]
          /\ UNCHANGED <<options, clientVars, conn_request, epVars, netVars>>
      BY <2>9 DEF server_next
    <3>2. /\ shown'[conn_request] \in Seq(0..NumIterations)
          /\ Len(shown'[conn_request]) = Len(shown[conn_request]) + 1
          /\ \A i \in 1..Len(shown[conn_request]) :
                shown'[conn_request][i] = shown[conn_request][i]
          /\ shown'[conn_request][Len(shown[conn_request]) + 1] = buf
          /\ \A d \in Clients \ {conn_request} : shown'[d] = shown[d]
      BY <3>1
    <3>3. \/ /\ server' = "receiving" /\ buf' = 0
             /\ sreq' = IF send_recv_type = "am" THEN "waiting" ELSE "posted"
             /\ Len(shown'[conn_request]) < NumIterations
          \/ server' = "sending" /\ sreq' = "posted" /\ buf' = buf
      BY <2>9, <3>1 DEF server_next, post_receive, Unwritten
    <3>4. TypeOK'
      <4>1. \A c \in Clients : /\ shown'[c] \in Seq(0..NumIterations)
                             /\ Len(shown'[c]) <= NumIterations
        <5> SUFFICES ASSUME NEW c \in Clients
                     PROVE  shown'[c] \in Seq(0..NumIterations) /\ Len(shown'[c]) <= NumIterations
          OBVIOUS
        <5>1. shown[c] \in Seq(0..NumIterations) /\ Len(shown[c]) <= NumIterations
          OBVIOUS
        <5>2. CASE c = conn_request
          BY <3>1, <3>2, <5>1, <5>2
        <5>3. CASE c # conn_request
          BY <3>2, <5>1, <5>3
        <5> QED BY <5>2, <5>3
      <4>2. /\ server' \in {"receiving", "sending"} /\ buf' \in 0..NumIterations
            /\ sreq' \in {"waiting", "posted"}
        BY <3>1, <3>3
      <4> QED BY <3>1, <4>1, <4>2
    <3>5. CountInv'
      BY <2>9, <3>1, <3>3 DEF CountInv, server_next
    <3>6. SessionInv'
      <4>1. /\ server = "receiving" /\ sreq = "ok"
            /\ arrived[conn_request] = Len(shown[conn_request]) + unseen + 1
        BY <2>9 DEF server_next, SessionInv, Taken
      <4>2. CASE server' = "receiving"
        <5>1. /\ sreq' = IF send_recv_type = "am" THEN "waiting" ELSE "posted"
              /\ Len(shown'[conn_request]) = Len(shown[conn_request]) + 1
          BY <3>2, <3>3, <4>2
        <5>2. arrived'[conn_request'] = Taken'
          BY <3>1, <4>1, <4>2, <5>1 DEF Taken
        <5>3. (send_recv_type = "am" => rndv) =>
                fetched'[conn_request'] = Len(shown'[conn_request'])
          BY <3>1, <4>1, <5>1 DEF SessionInv
        <5> QED BY <3>1, <4>1, <4>2, <5>1, <5>2, <5>3 DEF SessionInv
      <4>3. CASE server' = "sending"
        BY <3>1, <3>2, <3>3, <4>1, <4>3 DEF SessionInv, Taken
      <4> QED BY <3>3, <4>2, <4>3
    <3>7. InOrder'
      BY <2>9, <3>1, <3>2 DEF InOrder, SessionInv, server_next
    <3> QED BY <3>4, <3>5, <3>6, <3>7
  <2>10. CASE server_transmit
    <3>1. TypeOK'
      BY <2>10 DEF server_transmit
    <3>2. CountInv'
      BY <2>10 DEF server_transmit, CountInv
    <3>3. SessionInv'
      BY <2>10 DEF server_transmit, CountInv, SessionInv, Taken
    <3>4. InOrder'
      BY <2>10 DEF server_transmit, InOrder, SessionInv
    <3> QED BY <3>1, <3>2, <3>3, <3>4
  <2>11. CASE server_send_cb
    <3>1. TypeOK'
      BY <2>11 DEF server_send_cb
    <3>2. CountInv'
      BY <2>11 DEF server_send_cb, CountInv
    <3>3. SessionInv'
      BY <2>11 DEF server_send_cb, CountInv, SessionInv, Taken
    <3>4. InOrder'
      BY <2>11 DEF server_send_cb, InOrder, SessionInv
    <3> QED BY <3>1, <3>2, <3>3, <3>4
  <2>12. CASE server_sent_fin
    <3>1. TypeOK'
      BY <2>12 DEF server_sent_fin
    <3>2. CountInv'
      BY <2>12 DEF server_sent_fin, CountInv
    <3>3. SessionInv'
      BY <2>12 DEF server_sent_fin, CountInv, SessionInv, Taken
    <3>4. InOrder'
      BY <2>12 DEF server_sent_fin, InOrder, SessionInv
    <3> QED BY <3>1, <3>2, <3>3, <3>4
  <2>13. CASE err_cb
    <3>1. TypeOK'
      BY <2>13 DEF err_cb
    <3>2. CountInv'
      BY <2>13 DEF err_cb, CountInv
    <3>3. SessionInv'
      BY <2>13 DEF err_cb, CountInv, SessionInv, Taken
    <3>4. InOrder'
      BY <2>13 DEF err_cb, InOrder, SessionInv
    <3> QED BY <3>1, <3>2, <3>3, <3>4
  <2>14. CASE server_op_fails
    <3>1. TypeOK'
      BY <2>14 DEF server_op_fails
    <3>2. CountInv'
      BY <2>14 DEF server_op_fails, CountInv
    <3>3. SessionInv'
      BY <2>14 DEF server_op_fails, CountInv, SessionInv, Taken
    <3>4. InOrder'
      BY <2>14 DEF server_op_fails, InOrder, SessionInv
    <3> QED BY <3>1, <3>2, <3>3, <3>4
  <2>15. CASE server_next_client
    <3>1. /\ conn_request \in Clients /\ server = "closing" /\ sreq # "error"
          /\ arrived[conn_request] = NumIterations /\ unseen = 0
      <4>1. conn_request \in Clients /\ server = "closing"
        BY <2>15 DEF server_next_client
      <4>2. arrived[conn_request] <= NumIterations
        BY <4>1 DEF CountInv
      <4>3. Len(shown[conn_request]) = NumIterations
        BY <4>1
      <4>4. sreq # "error" /\ arrived[conn_request] = NumIterations + unseen
        BY <4>1, <4>3 DEF SessionInv, Taken
      <4> QED BY <4>1, <4>2, <4>4
    <3>2. TypeOK'
      BY <2>15 DEF server_next_client
    <3>3. CountInv'
      BY <2>15, <3>1 DEF server_next_client, CountInv
    <3>4. SessionInv'
      BY <2>15, <3>1 DEF server_next_client, SessionInv, Taken
    <3>5. InOrder'
      BY <2>15 DEF server_next_client, InOrder
    <3> QED BY <3>2, <3>3, <3>4, <3>5
  <2>16. CASE server_fails
    <3>1. TypeOK'
      BY <2>16 DEF server_fails
    <3>2. CountInv'
      BY <2>16 DEF server_fails, CountInv
    <3>3. SessionInv'
      BY <2>16 DEF server_fails, CountInv, SessionInv, Taken
    <3>4. InOrder'
      BY <2>16 DEF server_fails, InOrder, SessionInv
    <3> QED BY <3>1, <3>2, <3>3, <3>4
  <2>17. CASE server_create_ep_fails
    <3>1. TypeOK'
      BY <2>17 DEF server_create_ep_fails
    <3>2. CountInv'
      BY <2>17 DEF server_create_ep_fails, CountInv
    <3>3. SessionInv'
      BY <2>17 DEF server_create_ep_fails, CountInv, SessionInv, Taken
    <3>4. InOrder'
      BY <2>17 DEF server_create_ep_fails, InOrder, SessionInv
    <3> QED BY <3>1, <3>2, <3>3, <3>4
  <2>18. CASE UNCHANGED vars
    <3>1. TypeOK'
      BY <2>18 DEF vars
    <3>2. CountInv'
      BY <2>18 DEF vars, CountInv
    <3>3. SessionInv'
      BY <2>18 DEF vars, CountInv, SessionInv, Taken
    <3>4. InOrder'
      BY <2>18 DEF vars, InOrder, SessionInv
    <3> QED BY <3>1, <3>2, <3>3, <3>4
  <2> QED BY <2>1, <2>2, <2>3, <2>4, <2>5, <2>6, <2>7, <2>8, <2>9, <2>10, <2>11,
             <2>12, <2>13, <2>14, <2>15, <2>16, <2>17, <2>18 DEF Next, ServerSteps
<1> QED BY <1>1, <1>2, LinkInvHolds, DeliveryInvHolds, PTL DEF Spec

(***************************************************************************)
(* Every variable keeps to its values: counters to NumIterations.          *)
(***************************************************************************)
THEOREM TypeCorrect == Spec => []TypeOK
BY FlowInvHolds, PTL DEF FlowInv

(***************************************************************************)
(* Iteration i holds message i, but for eager active messages.             *)
(***************************************************************************)
THEOREM IterationsInOrder == Spec => []InOrder
BY FlowInvHolds, PTL DEF FlowInv

(***************************************************************************)
(* No session leaves a message or a count of one to the next.              *)
(***************************************************************************)
THEOREM SessionsClean == Spec => []SessionClean
<1>1. FlowInv => SessionClean
  BY DEF FlowInv, TypeOK, CountInv, SessionInv, SessionClean
<1> QED BY <1>1, FlowInvHolds, PTL

(***************************************************************************)
(* No eager active message is copied through a recv_buf whose iteration is *)
(* over: once the server sends the FIN message it has taken all there is.  *)
(***************************************************************************)
THEOREM AmBuffersLive == Spec => AmBufferLive
<1>1. LinkInv /\ DeliveryInv /\ FlowInv /\ [Next]_vars
        => [send_recv_type = "am" /\ ~rndv /\ arrived' # arrived => server = "receiving"]_vars
  <2> SUFFICES ASSUME LinkInv, DeliveryInv, FlowInv, Next,
                      send_recv_type = "am", ~rndv, arrived' # arrived
               PROVE  server = "receiving"
    OBVIOUS
  <2>1. ucp_am_data_cb
    BY DEF Next, ServerSteps, ClientSteps, options, clientVars, serverVars, epVars, netVars,
           start_client, client_transmit, client_send_cb, client_next, client_am_arrives,
           client_receives_fin, client_err_cb, client_fails, server_conn_handle_cb,
           client_crashes, server_create_ep, server_recv_cb,
           server_am_wait_ends, server_am_recv_cb, server_next, server_transmit,
           server_send_cb, server_sent_fin, err_cb, server_op_fails, server_next_client,
           server_fails, server_create_ep_fails
  <2>2. CASE server \in {"sending", "closing"}
    <3>1. /\ conn_request \in Clients /\ sreq # "error"
          /\ arrived[conn_request] < sent[conn_request]
      BY <2>1, <2>2 DEF ucp_am_data_cb, Incoming, Serving, LinkInv, LinkType,
                        OneClientAtATime, FlowInv, SessionInv
    <3>2. sent[conn_request] <= NumIterations
      BY <3>1 DEF FlowInv, CountInv
    <3>3. unseen \in Nat /\ NumIterations \in Nat
      BY ServerAssumption DEF FlowInv, TypeOK
    <3>4. Taken = NumIterations + unseen
      <4>1. Len(shown[conn_request]) = NumIterations /\ server # "receiving"
        BY <2>2 DEF DeliveryInv
      <4> QED BY <3>3, <4>1 DEF Taken
    <3>5. arrived[conn_request] = NumIterations + unseen
      BY <2>2, <3>1, <3>4 DEF FlowInv, SessionInv, Serving
    <3>6. arrived[conn_request] \in Nat /\ sent[conn_request] \in Nat
      BY <3>1 DEF FlowInv, TypeOK
    <3> QED BY <3>1, <3>2, <3>3, <3>5, <3>6
  <2> QED BY <2>1, <2>2 DEF ucp_am_data_cb, Incoming, Serving
<1> QED BY <1>1, LinkInvHolds, DeliveryInvHolds, FlowInvHolds, PTL DEF Spec, AmBufferLive
=============================================================================
