---------------------------- MODULE ClientServer ----------------------------
(***************************************************************************)
(* ucp_client_server.c: one server and several clients, over the Stream,   *)
(* Tag or Active Message API.                                              *)
(*                                                                         *)
(* A client connects, sends NumIterations messages and receives one FIN    *)
(* message back.  The server holds one connection request at a time.  It   *)
(* has two workers: the connection worker, progressed only while it waits  *)
(* for a request, and the data worker, progressed only while it serves.    *)
(* Callbacks run inside progress; one progress may run several, so a loop  *)
(* that polls a flag may see more than one of them at once.                *)
(*                                                                         *)
(* An operation is "posted" until its first byte leaves, "left" until its  *)
(* callback, then "ok" or "error" until request_wait sees it.  One that    *)
(* completes at once, request NULL, is the same without progress between.  *)
(***************************************************************************)
EXTENDS Naturals, FiniteSets, Sequences

CONSTANTS
  Clients,
  NoClient,       \* a NULL conn_request
  CommTypes,      \* values of the -c option, the same on both sides
  NumIterations,  \* the -i option, the same on both sides
  Rndvs,          \* are messages long enough for the rendezvous protocol?
  MayCrash        \* may clients crash?

ASSUME ServerAssumption ==
  /\ NoClient \notin Clients
  /\ CommTypes \subseteq {"stream", "tag", "am"}
  /\ NumIterations \in Nat \ {0}
  /\ Rndvs \subseteq BOOLEAN /\ MayCrash \in BOOLEAN

VARIABLES
  send_recv_type,    \* the API in use
  rndv,              \* is it used with the rendezvous protocol?
  client,            \* where each client's run_client is
  server,            \* where run_server is
  iter,              \* a client's current iteration
  creq,              \* a client's current operation
  sreq,              \* the server's
  link,              \* what became of each client's connection request
  conn_request,      \* the server's context.conn_request
  connection_closed, \* the server's flag
  ep_failed,         \* has UCX given up the endpoint to conn_request?
  sent,              \* messages of each client that left it
  arrived,           \* of those, how many the server's worker has seen
  fetched,           \* of those, how many hold their data at the server
  fin,               \* the FIN message to each client
  unseen,            \* am_data_desc.complete - last, at the server
  buf,               \* the message in the server's current receive buffer
  shown              \* history: what each finished iteration had in its buffer

options == <<send_recv_type, rndv>>
clientVars == <<client, iter, creq>>
epVars == <<connection_closed, ep_failed>>
serverVars == <<server, sreq, conn_request, epVars, buf, shown>>
netVars == <<link, sent, arrived, fetched, fin, unseen>>
vars == <<options, clientVars, serverVars, netVars>>

Unwritten == 0   \* a receive buffer just allocated

TypeOK ==
  /\ send_recv_type \in CommTypes /\ rndv \in Rndvs
  /\ client \in [Clients -> {"start", "sending", "receiving", "done", "failed", "crashed"}]
  /\ server \in {"listening", "receiving", "sending", "closing", "exited"}
  /\ iter \in [Clients -> 0..NumIterations]
  /\ creq \in [Clients -> {"none", "posted", "left", "ok", "error"}]
  /\ sreq \in {"none", "waiting", "posted", "left", "ok", "error"}
  /\ link \in [Clients -> {"none", "queued", "held", "open", "rejected", "closed"}]
  /\ conn_request \in Clients \cup {NoClient}
  /\ connection_closed \in BOOLEAN /\ ep_failed \in BOOLEAN
  /\ sent \in [Clients -> 0..NumIterations]
  /\ arrived \in [Clients -> 0..NumIterations]
  /\ fetched \in [Clients -> 0..NumIterations]
  /\ fin \in [Clients -> {"none", "flight", "arrived", "taken", "dropped"}]
  /\ unseen \in 0..NumIterations
  /\ buf \in 0..NumIterations
  /\ \A c \in Clients : shown[c] \in Seq(0..NumIterations) /\ Len(shown[c]) <= NumIterations

Init ==
  /\ send_recv_type \in CommTypes /\ rndv \in Rndvs
  /\ client = [c \in Clients |-> "start"]
  /\ server = "listening"
  /\ iter = [c \in Clients |-> 0]
  /\ creq = [c \in Clients |-> "none"]
  /\ sreq = "none"
  /\ link = [c \in Clients |-> "none"]
  /\ conn_request = NoClient
  /\ connection_closed = TRUE /\ ep_failed = FALSE
  /\ sent = [c \in Clients |-> 0]
  /\ arrived = [c \in Clients |-> 0]
  /\ fetched = [c \in Clients |-> 0]
  /\ fin = [c \in Clients |-> "none"]
  /\ unseen = 0
  /\ buf = Unwritten
  /\ shown = [c \in Clients |-> << >>]

Gone(c) == client[c] \in {"done", "failed", "crashed"}
Abandoned(c) == link[c] \in {"rejected", "closed"} \/ server = "exited"

-----------------------------------------------------------------------------
(* Clients.                                                                *)

\* run_client: connect and post the first message.
start_client(c) ==
  /\ client[c] = "start"
  /\ client' = [client EXCEPT ![c] = "sending"]
  /\ link' = [link EXCEPT ![c] = "queued"]
  /\ creq' = [creq EXCEPT ![c] = "posted"]
  /\ UNCHANGED <<options, iter, serverVars, sent, arrived, fetched, fin, unseen>>

\* UCX sends the posted message once the connection is up.
client_transmit(c) ==
  /\ client[c] = "sending" /\ creq[c] = "posted"
  /\ link[c] = "open" /\ server # "exited"
  /\ creq' = [creq EXCEPT ![c] = "left"]
  /\ sent' = [sent EXCEPT ![c] = @ + 1]
  /\ UNCHANGED <<options, client, iter, serverVars, link, arrived, fetched, fin,
                 unseen>>

\* send_cb: a rendezvous send ends when the receiver has the data.
client_send_cb(c) ==
  /\ client[c] = "sending" /\ creq[c] = "left"
  /\ rndv => fetched[c] = sent[c]
  /\ creq' = [creq EXCEPT ![c] = "ok"]
  /\ UNCHANGED <<options, client, iter, serverVars, netVars>>

\* Faulty variant: one iteration more.
client_next_late(c) ==
  /\ client[c] = "sending" /\ creq[c] = "ok"
  /\ iter' = [iter EXCEPT ![c] = @ + 1]
  /\ creq' = [creq EXCEPT ![c] = "posted"]
  /\ client' = [client EXCEPT ![c] = IF iter'[c] <= NumIterations THEN @ ELSE "receiving"]
  /\ UNCHANGED <<options, serverVars, netVars>>

\* request_wait returns UCS_OK; the next iteration posts the next message, the
\* last one registers the AM callback and posts the receive of the FIN message.
client_next(c) ==
  /\ client[c] = "sending" /\ creq[c] = "ok"
  /\ iter' = [iter EXCEPT ![c] = @ + 1]
  /\ creq' = [creq EXCEPT ![c] = "posted"]
  /\ client' = [client EXCEPT ![c] = IF iter'[c] < NumIterations THEN @ ELSE "receiving"]
  /\ UNCHANGED <<options, serverVars, netVars>>

\* ucp_am_data_cb on the FIN message; without a callback UCX drops it.
client_am_arrives(c) ==
  /\ send_recv_type = "am"
  /\ client[c] \in {"sending", "receiving"}
  /\ fin[c] = "flight"
  /\ fin' = [fin EXCEPT ![c] = IF client[c] = "receiving" THEN "arrived" ELSE "dropped"]
  /\ UNCHANGED <<options, clientVars, serverVars, link, sent, arrived, fetched, unseen>>

\* The receive of the FIN message ends; the client closes its endpoint.
client_receives_fin(c) ==
  /\ client[c] = "receiving"
  /\ fin[c] = IF send_recv_type = "am" THEN "arrived" ELSE "flight"
  /\ fin' = [fin EXCEPT ![c] = "taken"]
  /\ client' = [client EXCEPT ![c] = "done"]
  /\ creq' = [creq EXCEPT ![c] = "none"]
  /\ UNCHANGED <<options, iter, serverVars, link, sent, arrived, fetched, unseen>>

\* Faulty variant: the error does not complete the request.
client_err_ignored(c) == UNCHANGED vars

\* The connection is refused or lost: what is pending on the endpoint fails,
\* which the receives of the Tag and AM APIs are not.  err_cb itself changes
\* nothing a client looks at.
client_err_cb(c) ==
  /\ Abandoned(c)
  /\ creq[c] \in {"posted", "left"}
  /\ client[c] = "sending" \/ (client[c] = "receiving" /\ send_recv_type = "stream")
  /\ creq' = [creq EXCEPT ![c] = "error"]
  /\ UNCHANGED <<options, client, iter, serverVars, netVars>>

\* request_wait returns an error: the client closes its endpoint and exits.
client_fails(c) ==
  /\ creq[c] = "error"
  /\ client' = [client EXCEPT ![c] = "failed"]
  /\ creq' = [creq EXCEPT ![c] = "none"]
  /\ UNCHANGED <<options, iter, serverVars, netVars>>

client_crashes(c) ==
  /\ MayCrash
  /\ client[c] \in {"sending", "receiving"}
  /\ client' = [client EXCEPT ![c] = "crashed"]
  /\ creq' = [creq EXCEPT ![c] = "none"]
  /\ UNCHANGED <<options, iter, serverVars, netVars>>

-----------------------------------------------------------------------------
(* The server's connection worker.                                         *)

\* Faulty variant: a request is kept although another one is.
keep_last_request(c) ==
  /\ server = "listening"
  /\ link[c] = "queued"
  /\ conn_request' = c
  /\ link' = [link EXCEPT ![c] = "held"]
  /\ UNCHANGED <<options, clientVars, server, sreq, epVars, buf, shown,
                 sent, arrived, fetched, fin, unseen>>

\* Requests wait in the connection worker until it is progressed.
server_conn_handle_cb(c) ==
  /\ server = "listening"
  /\ link[c] = "queued"
  /\ IF conn_request = NoClient
     THEN /\ conn_request' = c
          /\ link' = [link EXCEPT ![c] = "held"]
     ELSE /\ link' = [link EXCEPT ![c] = "rejected"]
          /\ UNCHANGED conn_request
  /\ UNCHANGED <<options, clientVars, server, sreq, epVars, buf, shown,
                 sent, arrived, fetched, fin, unseen>>

\* A receive in send_recv_stream, send_recv_tag or send_recv_am: a new buffer.
post_receive ==
  /\ sreq' = IF send_recv_type = "am" THEN "waiting" ELSE "posted"
  /\ buf' = Unwritten

\* Faulty variant: the flag keeps what the last session left in it.
server_create_ep_stale ==
  /\ server = "listening"
  /\ conn_request # NoClient
  /\ server' = "receiving"
  /\ link' = [link EXCEPT ![conn_request] = "open"]
  /\ ep_failed' = FALSE
  /\ post_receive
  /\ UNCHANGED <<options, clientVars, conn_request, connection_closed, shown, sent, arrived,
                 fetched, fin, unseen>>

\* The wait loop ends: create the endpoint, start client_server_do_work, which
\* lowers the flag.
server_create_ep ==
  /\ server = "listening"
  /\ conn_request # NoClient
  /\ server' = "receiving"
  /\ link' = [link EXCEPT ![conn_request] = "open"]
  /\ connection_closed' = FALSE /\ ep_failed' = FALSE
  /\ post_receive
  /\ UNCHANGED <<options, clientVars, conn_request, shown, sent, arrived, fetched,
                 fin, unseen>>

\* The endpoint to a client that is no more cannot be created: run_server
\* destroys its listener and returns.
server_create_ep_fails ==
  /\ server = "listening"
  /\ conn_request # NoClient /\ Gone(conn_request)
  /\ server' = "exited"
  /\ UNCHANGED <<options, clientVars, sreq, conn_request, epVars, buf,
                 shown, netVars>>

-----------------------------------------------------------------------------
(* The server's data worker.                                               *)

Serving == server \in {"receiving", "sending", "closing"}

\* A message of the client is at the server's worker.
Incoming == Serving /\ ~ep_failed /\ arrived[conn_request] < sent[conn_request]

\* Faulty variant: the callback comes before the data.
server_recv_cb_early ==
  /\ send_recv_type # "am"
  /\ server = "receiving" /\ sreq = "posted"
  /\ Incoming
  /\ arrived' = [arrived EXCEPT ![conn_request] = @ + 1]
  /\ fetched' = arrived'
  /\ sreq' = "ok"
  /\ UNCHANGED <<options, clientVars, server, conn_request, epVars, buf,
                 shown, link, sent, fin, unseen>>

\* stream_recv_cb, tag_recv_cb
server_recv_cb ==
  /\ send_recv_type # "am"
  /\ server = "receiving" /\ sreq = "posted"
  /\ Incoming
  /\ arrived' = [arrived EXCEPT ![conn_request] = @ + 1]
  /\ fetched' = arrived'
  /\ buf' = arrived'[conn_request]
  /\ sreq' = "ok"
  /\ UNCHANGED <<options, clientVars, server, conn_request, epVars, shown,
                 link, sent, fin, unseen>>

\* ucp_am_data_cb runs in whichever loop progresses the data worker; none does
\* between the wait for an eager message and the next iteration.  An eager
\* message is copied to recv_buf, of a rendezvous the descriptor is kept.
ucp_am_data_cb ==
  /\ send_recv_type = "am"
  /\ rndv \/ server # "receiving" \/ sreq = "waiting"
  /\ Incoming
  /\ arrived' = [arrived EXCEPT ![conn_request] = @ + 1]
  /\ unseen' = unseen + 1
  /\ IF rndv
     THEN UNCHANGED <<fetched, buf>>
     ELSE /\ fetched' = arrived'
          /\ buf' = arrived'[conn_request]
  /\ UNCHANGED <<options, clientVars, server, sreq, conn_request, epVars,
                 shown, link, sent, fin>>

\* while (last == complete) ends; last++.
server_am_wait_ends ==
  /\ sreq = "waiting"
  /\ unseen > 0
  /\ unseen' = unseen - 1
  /\ sreq' = IF rndv THEN "posted" ELSE "ok"
  /\ UNCHANGED <<options, clientVars, server, conn_request, epVars, buf,
                 shown, link, sent, arrived, fetched, fin>>

\* am_recv_cb: the data of the rendezvous is in the buffer.
server_am_recv_cb ==
  /\ send_recv_type = "am"
  /\ server = "receiving" /\ sreq = "posted" /\ ~ep_failed
  /\ fetched' = [fetched EXCEPT ![conn_request] = arrived[conn_request]]
  /\ buf' = arrived[conn_request]
  /\ sreq' = "ok"
  /\ UNCHANGED <<options, clientVars, server, conn_request, epVars, shown,
                 link, sent, arrived, fin, unseen>>

\* Faulty variant: one iteration less.
server_next_early ==
  /\ server = "receiving" /\ sreq = "ok"
  /\ shown' = [shown EXCEPT ![conn_request] = Append(@, buf)]
  /\ IF Len(shown'[conn_request]) + 1 < NumIterations
     THEN post_receive /\ UNCHANGED server
     ELSE server' = "sending" /\ sreq' = "posted" /\ UNCHANGED buf
  /\ UNCHANGED <<options, clientVars, conn_request, epVars, netVars>>

\* request_finalize, then the next iteration or the FIN message.
server_next ==
  /\ server = "receiving" /\ sreq = "ok"
  /\ shown' = [shown EXCEPT ![conn_request] = Append(@, buf)]
  /\ IF Len(shown'[conn_request]) < NumIterations
     THEN post_receive /\ UNCHANGED server
     ELSE server' = "sending" /\ sreq' = "posted" /\ UNCHANGED buf
  /\ UNCHANGED <<options, clientVars, conn_request, epVars, netVars>>

server_transmit ==
  /\ server = "sending" /\ sreq = "posted"
  /\ ~ep_failed
  /\ sreq' = "left"
  /\ fin' = [fin EXCEPT ![conn_request] = "flight"]
  /\ UNCHANGED <<options, clientVars, server, conn_request, epVars, buf,
                 shown, link, sent, arrived, fetched, unseen>>

server_send_cb ==
  /\ server = "sending" /\ sreq = "left"
  /\ rndv => fin[conn_request] \in {"taken", "dropped"}
  /\ sreq' = "ok"
  /\ UNCHANGED <<options, clientVars, server, conn_request, epVars, buf,
                 shown, netVars>>

\* The FIN message is sent; wait for the client to close.
server_sent_fin ==
  /\ server = "sending" /\ sreq = "ok"
  /\ server' = "closing"
  /\ sreq' = "none"
  /\ UNCHANGED <<options, clientVars, conn_request, epVars, buf, shown,
                 netVars>>

\* Faulty variant: the flag is raised before the client is gone.
err_cb_early ==
  /\ Serving /\ ~connection_closed
  /\ connection_closed' = TRUE
  /\ UNCHANGED <<options, clientVars, server, sreq, conn_request, ep_failed, buf, shown, netVars>>

\* Faulty variant: the error handler only prints.
err_cb_prints ==
  /\ Serving /\ ~ep_failed
  /\ Gone(conn_request)
  /\ ep_failed' = TRUE
  /\ UNCHANGED <<options, clientVars, server, sreq, conn_request, connection_closed, buf, shown,
                 netVars>>

\* UCX gives up the endpoint when the client has closed or died; err_cb.
err_cb ==
  /\ Serving /\ ~ep_failed
  /\ Gone(conn_request)
  /\ ep_failed' = TRUE /\ connection_closed' = TRUE
  /\ UNCHANGED <<options, clientVars, server, sreq, conn_request, buf, shown, netVars>>

\* What is pending on the failed endpoint, or posted on it later, fails.  A tag
\* receive and the wait for an active message are not bound to the endpoint.
server_op_fails ==
  /\ ep_failed
  /\ \/ server = "receiving" /\ sreq = "posted" /\ send_recv_type # "tag"
     \/ server = "sending" /\ sreq = "posted"
     \/ server = "sending" /\ sreq = "left" /\ fin[conn_request] = "flight"
  /\ sreq' = "error"
  /\ UNCHANGED <<options, clientVars, server, conn_request, epVars, buf,
                 shown, netVars>>

\* ep_close, conn_request = NULL, listen again.
server_next_client ==
  /\ server = "closing" /\ connection_closed
  /\ server' = "listening"
  /\ link' = [link EXCEPT ![conn_request] = "closed"]
  /\ conn_request' = NoClient
  /\ UNCHANGED <<options, clientVars, sreq, epVars, buf, shown, sent,
                 arrived, fetched, fin, unseen>>

\* request_wait returns an error: err_ep, err_listener, err_worker and out.
server_fails ==
  /\ sreq = "error"
  /\ server' = "exited"
  /\ sreq' = "none"
  /\ link' = [link EXCEPT ![conn_request] = "closed"]
  /\ UNCHANGED <<options, clientVars, conn_request, epVars, buf, shown,
                 sent, arrived, fetched, fin, unseen>>

-----------------------------------------------------------------------------
ClientSteps(c) ==
  start_client(c) \/ client_transmit(c) \/ client_send_cb(c) \/ client_next(c)
    \/ client_am_arrives(c) \/ client_receives_fin(c) \/ client_err_cb(c) \/ client_fails(c)

ServerSteps ==
  \/ server_create_ep \/ server_recv_cb \/ ucp_am_data_cb \/ server_am_wait_ends
  \/ server_am_recv_cb \/ server_next \/ server_transmit \/ server_send_cb
  \/ server_sent_fin \/ err_cb \/ server_op_fails \/ server_next_client \/ server_fails

Next ==
  \/ \E c \in Clients : ClientSteps(c) \/ server_conn_handle_cb(c) \/ client_crashes(c)
  \/ ServerSteps
  \/ server_create_ep_fails

\* Every process keeps polling and UCX delivers, connects and detects the loss
\* of a peer.  Crashes and failed endpoints need not happen.
Fairness ==
  /\ \A c \in Clients : WF_vars(ClientSteps(c))
  /\ WF_vars(ServerSteps)
  /\ WF_vars(\E c \in Clients : server_conn_handle_cb(c))

Spec == Init /\ [][Next]_vars
FairSpec == Spec /\ Fairness

-----------------------------------------------------------------------------
(* Properties.                                                             *)

(***************************************************************************)
(* However many requests one progress of the connection worker reports,    *)
(* and whatever piled up in it while the server served, the server has one *)
(* client: the one in context.conn_request is the only one it keeps        *)
(* waiting or has an endpoint to.                                          *)
(***************************************************************************)
OneClientAtATime ==
  /\ \A c \in Clients : link[c] \in {"held", "open"} => conn_request = c
  /\ Serving => conn_request # NoClient /\ link[conn_request] = "open"

(***************************************************************************)
(* "FIN message in reverse direction to acknowledge delivery": a client    *)
(* that received it had the server finish every iteration, although its    *)
(* sends complete long before the server receives.                         *)
(***************************************************************************)
FinAcknowledges ==
  \A c \in Clients : client[c] = "done" => Len(shown[c]) = NumIterations

(***************************************************************************)
(* Iteration i of the server has the client's message i in its buffer,     *)
(* neither another one nor none.  The AM path owes it to the rendezvous;   *)
(* eager messages overwrite each other.                                    *)
(***************************************************************************)
InOrder ==
  send_recv_type # "am" \/ rndv =>
    \A c \in Clients : \A i \in DOMAIN shown[c] : shown[c][i] = i

(***************************************************************************)
(* The server lets go of a client only when the client has ended: the      *)
(* connection_closed it waits for is never the one of an earlier session,  *)
(* nor the initial one, which is TRUE.                                     *)
(***************************************************************************)
ReleasedWhenGone ==
  [][conn_request # NoClient /\ conn_request' # conn_request => Gone(conn_request)]_vars

(***************************************************************************)
(* A session leaves nothing to the next one on the data worker: no count   *)
(* of am_data_desc that the next client's first wait would take for its    *)
(* message, no unexpected message the next tag receive would match.        *)
(***************************************************************************)
SessionClean ==
  server = "listening" =>
    /\ unseen = 0
    /\ \A c \in Clients : link[c] = "closed" => arrived[c] = sent[c]

(***************************************************************************)
(* ucp_am_data_cb never copies an eager message through the recv_buf of an *)
(* iteration that is over: iov is on the frame of send_recv_am and its     *)
(* buffers are freed by request_finalize.                                  *)
(***************************************************************************)
AmBufferLive ==
  [][send_recv_type = "am" /\ ~rndv /\ arrived' # arrived => server = "receiving"]_vars

(***************************************************************************)
(* ucp_client_server implements SerialService.                             *)
(***************************************************************************)
status ==
  [c \in Clients |->
     IF client[c] = "start" THEN "idle"
     ELSE IF client[c] = "done" THEN "served"
     ELSE IF Gone(c) THEN "lost"
     ELSE IF link[c] = "queued" THEN "asking"
     ELSE IF link[c] = "rejected" THEN "refused"
     ELSE "admitted"]

Service ==
  INSTANCE SerialService
    WITH holding <- conn_request, delivered <- [c \in Clients |-> Len(shown[c])]

ServesSerially == Service!Spec

SomeoneCrashed == \E c \in Clients : client[c] = "crashed"

(***************************************************************************)
(* Every client ends, whether it is served, rejected, waits for the server *)
(* to come back to its listener or loses it: over streams always, over     *)
(* tags unless one crashes and holds the server.                           *)
(***************************************************************************)
EveryClientEnds ==
  \A c \in Clients :
    send_recv_type # "am" /\ client[c] = "sending"
      ~> Gone(c) \/ (send_recv_type = "tag" /\ SomeoneCrashed)

(***************************************************************************)
(* The client whose request is kept gets all its messages delivered and    *)
(* its FIN message, unless a client crashes.                               *)
(***************************************************************************)
KeptIsServed ==
  \A c \in Clients :
    send_recv_type # "am" /\ link[c] = "held" ~> client[c] = "done" \/ SomeoneCrashed

(***************************************************************************)
(* Over streams a client that dies does not keep the server: it comes back *)
(* to its listener or run_server returns.                                  *)
(***************************************************************************)
NotHeldForEver ==
  \A c \in Clients :
    send_recv_type = "stream" /\ conn_request = c
      ~> conn_request # c \/ server = "exited"

(***************************************************************************)
(* "Server is always up listening": it comes back to its listener after    *)
(* every client.  It does not: the failure of one session ends run_server, *)
(* or, over tags, a client that crashed is waited for without end.         *)
(***************************************************************************)
AlwaysListens == []<>(server = "listening")

(***************************************************************************)
(* "Register recv callback on the client side to receive FIN message": the *)
(* FIN message is received.  It is not when it arrives while the client    *)
(* still progresses its last send.                                         *)
(***************************************************************************)
FinIsReceived == \A c \in Clients : fin[c] = "flight" ~> fin[c] = "taken"

(***************************************************************************)
(* "Data has arrived eagerly and is ready for use": an iteration over the  *)
(* AM API has its own message in its buffer.  It has not when two messages *)
(* arrive in one progress.                                                 *)
(***************************************************************************)
EagerDataIsReady ==
  \A c \in Clients : \A i \in DOMAIN shown[c] : shown[c][i] = i
=============================================================================
