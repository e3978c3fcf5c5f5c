----------------------------- MODULE AsyncStream -----------------------------
(***************************************************************************)
(* The coroutine programs: src/client.cpp, run by several processes, and   *)
(* src/server.cpp, over UcpEndPoint, UcpListener and the events of         *)
(* src/async.                                                              *)
(*                                                                         *)
(* Each process is one thread.  main starts one coroutine and then only    *)
(* calls ucp_worker_progress, which makes the callbacks.  A callback sets  *)
(* an event; a set_or with a waiter runs the coroutine on top of its own   *)
(* frame, so what a callback does after set_or (delete the handle, free    *)
(* the request) comes after everything the coroutine does.                 *)
(*                                                                         *)
(* UCX is external: it connects, sends and completes requests as its       *)
(* callers in this repository rely on.                                     *)
(***************************************************************************)
EXTENDS EventOps, Naturals, FiniteSets

CONSTANTS
  Clients,  \* processes running client.cpp
  Server,   \* the process running server.cpp
  MsgLen,   \* bytes of a message, as the transport may split it
  InPlace,  \* may ucp_stream_send_nbx complete a send at once, returning NULL?
  MayFail   \* may UCX operations and connections fail?

ASSUME StreamAssumption ==
  /\ Server \notin Clients
  /\ MsgLen \in Nat \ {0}
  /\ InPlace \in BOOLEAN /\ MayFail \in BOOLEAN
  /\ NoValue \notin Clients \cup Nat
  /\ NoHandle \notin Clients \cup {Server}

Procs == Clients \cup {Server}

VARIABLES
  main,       \* where each main() is
  completed,  \* the flag each main() polls
  co,         \* state of each process' coroutine
  setOr,      \* the event whose set_or is on the stack, inside resume()
  accepting,  \* the listener's event
  event,      \* the event of each process' stream operation
  handle,     \* the heap handle each stream operation's user_data points at
  req,        \* the stream operation
  conn,       \* the connection of each client, as the server sees it
  wire,       \* what the bytes a client sends hold
  arrived,    \* bytes of a client's message that reached the server
  buf         \* bytes in the server's buffer, and what they hold

procVars == <<main, completed, co, setOr>>
eventVars == <<accepting, event, handle, req>>
netVars == <<conn, wire, arrived, buf>>
vars == <<procVars, eventVars, netVars>>

\* "closing": in a UcpEndPoint destructor, which progresses the worker.
MainStates == {"start", "looping", "closing", "returned", "terminated", "exited"}
CoStates == {"created", "accept", "event", "resumed", "closing", "ended"}
Contents == {"none", "data", "pointer", "stale"}

Ended(p) == main[p] \in {"returned", "terminated", "exited"}

TypeOK ==
  /\ main \in [Procs -> MainStates]
  /\ completed \in [Procs -> BOOLEAN]
  /\ co \in [Procs -> CoStates]
  /\ setOr \in [Procs -> {"none", "accepting", "event"}]
  /\ accepting \in Event(Clients, {Server})
  /\ \A c \in Clients : event[c] \in Event({c}, {c})
  /\ event[Server] \in Event(1..MsgLen, {Server})
  /\ handle \in [Procs -> {"none", "live", "deleted"}]
  /\ req \in [Procs -> {"none", "posted", "inplace", "error", "done"}]
  /\ conn \in [Clients -> {"none", "requested", "delivered", "open", "closed"}]
  /\ wire \in [Clients -> Contents]
  /\ arrived \in [Clients -> 0..MsgLen]
  /\ buf \in [len : 0..MsgLen, holds : Contents]

Init ==
  /\ main = [p \in Procs |-> "start"]
  /\ completed = [p \in Procs |-> FALSE]
  /\ co = [p \in Procs |-> "created"]
  /\ setOr = [p \in Procs |-> "none"]
  /\ accepting = fresh_event
  /\ event = [p \in Procs |-> fresh_event]
  /\ handle = [p \in Procs |-> "none"]
  /\ req = [p \in Procs |-> "none"]
  /\ conn = [c \in Clients |-> "none"]
  /\ wire = [c \in Clients |-> "none"]
  /\ arrived = [c \in Clients |-> 0]
  /\ buf = [len |-> 0, holds |-> "none"]

\* The worker makes callbacks one after the other, and never from within one:
\* the exception is the progress loop of ucp_ep_destroy.
InLoop(p) == main[p] = "looping" /\ setOr[p] = "none"

Kind == "auto_reset_event"

-----------------------------------------------------------------------------
(* The stream operation common to both sides.                              *)

\* A stream operation that was posted, with its event, and the co_await on it.
post(p) ==
  /\ event' = [event EXCEPT ![p] = await_suspend(Kind, fresh_event, p)]
  /\ handle' = [handle EXCEPT ![p] = "live"]
  /\ co' = [co EXCEPT ![p] = "event"]

\* Faulty variant: the handle is deleted before set_or.
delete_then_set(p, v) ==
  /\ event' = [event EXCEPT ![p] = set_enter(Kind, event[p], v)]
  /\ setOr' = [setOr EXCEPT ![p] = "event"]
  /\ co' = [co EXCEPT ![p] = "resumed"]
  /\ handle' = [handle EXCEPT ![p] = "deleted"]
  /\ UNCHANGED req

\* event->set_or in a completion callback, up to and into resume(); with no
\* coroutine to resume, the whole callback.
set_or(p, v) ==
  /\ event' = [event EXCEPT ![p] = set_enter(Kind, event[p], v)]
  /\ IF calls_resume(Kind, event[p])
     THEN /\ setOr' = [setOr EXCEPT ![p] = "event"]
          /\ co' = [co EXCEPT ![event[p].waiter] = "resumed"]
          /\ UNCHANGED <<handle, req>>
     ELSE /\ handle' = [handle EXCEPT ![p] = "deleted"]
          /\ req' = [req EXCEPT ![p] = "done"]
          /\ UNCHANGED <<setOr, co>>

\* resume() returned: the rest of set_or, delete event, ucp_request_free.
callback_return(p) ==
  /\ setOr[p] = "event"
  /\ co[p] = "ended"
  /\ event' = [event EXCEPT ![p] = set_leave(Kind, event[p])]
  /\ setOr' = [setOr EXCEPT ![p] = "none"]
  /\ handle' = [handle EXCEPT ![p] = "deleted"]
  /\ req' = [req EXCEPT ![p] = "done"]
  /\ UNCHANGED <<main, completed, co, accepting, netVars>>

-----------------------------------------------------------------------------
(* client.cpp                                                              *)

\* main connects (a request sent before the server listens stays under way)
\* and starts start_client_worker, which sends and awaits.
\* send_stream(T) spans its by-value parameter: the bytes are the pointer
\* &data for as long as the call lasts.  The result of ucp_stream_send_nbx is
\* not looked at.
client_main(c) ==
  /\ main[c] = "start"
  /\ main' = [main EXCEPT ![c] = "looping"]
  /\ conn' = [conn EXCEPT ![c] = "requested"]
  /\ post(c)
  /\ \/ /\ req' = [req EXCEPT ![c] = "posted"]
        /\ UNCHANGED wire
     \/ /\ InPlace
        /\ req' = [req EXCEPT ![c] = "inplace"]
        /\ wire' = [wire EXCEPT ![c] = "pointer"]
     \/ /\ MayFail
        /\ req' = [req EXCEPT ![c] = "error"]
        /\ UNCHANGED wire
  /\ UNCHANGED <<completed, setOr, accepting, arrived, buf>>

\* Faulty variant: the completion of a send that left nothing.
complete_unsent(c) ==
  /\ InLoop(c)
  /\ req[c] = "posted"
  /\ set_or(c, c)
  /\ UNCHANGED <<main, completed, accepting, netVars>>

\* The send callback with status UCS_OK.
send_callback(c) ==
  /\ InLoop(c)
  /\ req[c] = "posted"
  /\ wire[c] # "none"
  /\ set_or(c, c)
  /\ UNCHANGED <<main, completed, accepting, netVars>>

\* The send callback with an error: it logs and returns, the event is not set
\* and its handle not deleted.
send_callback_error(c) ==
  /\ MayFail
  /\ InLoop(c)
  /\ req[c] = "posted"
  /\ req' = [req EXCEPT ![c] = "error"]
  /\ UNCHANGED <<procVars, accepting, event, handle, netVars>>

\* start_client_worker from its co_await to its end.
start_client_worker(c) ==
  /\ co[c] = "resumed"
  /\ completed' = [completed EXCEPT ![c] = TRUE]
  /\ co' = [co EXCEPT ![c] = "ended"]
  /\ UNCHANGED <<main, setOr, eventVars, netVars>>

\* The server's side of the connection is gone, orderly or not.
ServerLeft(c) == conn[c] = "closed" \/ Ended(Server)

\* Faulty variant: the error handler only logs.
err_handler_logs(c) == UNCHANGED vars

\* The endpoint's error handler throws through ucp_worker_progress: the
\* process ends in std::terminate.
err_handler(c) ==
  /\ MayFail \/ ServerLeft(c)
  /\ InLoop(c)
  /\ main' = [main EXCEPT ![c] = "terminated"]
  /\ UNCHANGED <<completed, co, setOr, eventVars, netVars>>

\* The loop ends and ~UcpEndPoint starts flushing the endpoint.
client_close(c) ==
  /\ InLoop(c)
  /\ completed[c]
  /\ main' = [main EXCEPT ![c] = "closing"]
  /\ UNCHANGED <<completed, co, setOr, eventVars, netVars>>

\* The flush ends, with an error when there is no peer.
client_return(c) ==
  /\ main[c] = "closing"
  /\ arrived[c] = MsgLen \/ MayFail \/ ServerLeft(c)
  /\ main' = [main EXCEPT ![c] = "returned"]
  /\ UNCHANGED <<completed, co, setOr, eventVars, netVars>>

-----------------------------------------------------------------------------
(* The network.                                                            *)

\* UCX reads the bytes of a pending send once the connection is up.  The frame
\* of send_stream(T) is gone: they are the pointer still, or what took its
\* place on the stack.
transmit(c) ==
  /\ conn[c] = "open"
  /\ ~Ended(c)
  /\ req[c] = "posted" /\ wire[c] = "none"
  /\ \E w \in {"pointer", "stale"} : wire' = [wire EXCEPT ![c] = w]
  /\ UNCHANGED <<procVars, eventVars, conn, arrived, buf>>

\* A fragment of the stream arrives.
arrive(c) ==
  /\ conn[c] = "open"
  /\ wire[c] # "none"
  /\ \E n \in (arrived[c] + 1)..MsgLen : arrived' = [arrived EXCEPT ![c] = n]
  /\ UNCHANGED <<procVars, eventVars, conn, wire, buf>>

-----------------------------------------------------------------------------
(* server.cpp                                                              *)

\* main creates the listener and starts start_server, which awaits accept().
server_main ==
  /\ main[Server] = "start"
  /\ main' = [main EXCEPT ![Server] = "looping"]
  /\ accepting' = await_suspend(Kind, accepting, Server)
  /\ co' = [co EXCEPT ![Server] = "accept"]
  /\ UNCHANGED <<completed, setOr, event, handle, req, netVars>>

\* A connection request reaches the listener.  Only the first resumes the
\* coroutine; the next is latched in the event and those after it are dropped.
\* ucp_ep_destroy progresses the worker too, on top of the request's set_or.
listener_callback(c) ==
  /\ conn[c] = "requested"
  /\ InLoop(Server) \/ co[Server] = "closing"
  /\ conn' = [conn EXCEPT ![c] = "delivered"]
  /\ accepting' = set_enter(Kind, accepting, c)
  /\ IF calls_resume(Kind, accepting)
     THEN /\ setOr' = [setOr EXCEPT ![Server] = "accepting"]
          /\ co' = [co EXCEPT ![Server] = "resumed"]
     ELSE UNCHANGED <<setOr, co>>
  /\ UNCHANGED <<main, completed, event, handle, req, wire, arrived, buf>>

\* Faulty variant: completed is raised before the message is awaited.
start_server_hurries(c) ==
  /\ setOr[Server] = "accepting" /\ co[Server] = "resumed" /\ ~Ended(Server)
  /\ accepting.data = c
  /\ conn' = [conn EXCEPT ![c] = "open"]
  /\ req' = [req EXCEPT ![Server] = "posted"]
  /\ post(Server)
  /\ completed' = [completed EXCEPT ![Server] = TRUE]
  /\ UNCHANGED <<main, setOr, accepting, wire, arrived, buf>>

\* start_server from accept() to the co_await on the message.
start_server_accepts(c) ==
  /\ setOr[Server] = "accepting" /\ co[Server] = "resumed" /\ ~Ended(Server)
  /\ accepting.data = c
  /\ conn' = [conn EXCEPT ![c] = "open"]
  /\ req' = [req EXCEPT ![Server] = "posted"]
  /\ post(Server)
  /\ UNCHANGED <<main, completed, setOr, accepting, wire, arrived, buf>>

\* ucp_conn_request_query or ucp_ep_create fails: the coroutine throws, task's
\* unhandled_exception drops the exception and the frame is destroyed.
start_server_throws ==
  /\ MayFail
  /\ setOr[Server] = "accepting" /\ co[Server] = "resumed" /\ ~Ended(Server)
  /\ co' = [co EXCEPT ![Server] = "ended"]
  /\ UNCHANGED <<main, completed, setOr, eventVars, netVars>>

\* ucp_stream_recv_nbx fails: exit(1).
recv_stream_exits(c) ==
  /\ MayFail
  /\ setOr[Server] = "accepting" /\ co[Server] = "resumed" /\ ~Ended(Server)
  /\ accepting.data = c
  /\ main' = [main EXCEPT ![Server] = "exited"]
  /\ conn' = [conn EXCEPT ![c] = "open"]
  /\ handle' = [handle EXCEPT ![Server] = "live"]
  /\ req' = [req EXCEPT ![Server] = "error"]
  /\ UNCHANGED <<completed, co, setOr, accepting, event, wire, arrived, buf>>

\* resume() returns to the listener's set_or.
listener_callback_return ==
  /\ setOr[Server] = "accepting"
  /\ co[Server] \in {"event", "ended"}
  /\ ~Ended(Server)
  /\ accepting' = set_leave(Kind, accepting)
  /\ setOr' = [setOr EXCEPT ![Server] = "none"]
  /\ UNCHANGED <<main, completed, co, event, handle, req, netVars>>

\* Faulty variant: the callback reports a byte more than arrived.
recv_callback_long(c) ==
  /\ InLoop(Server)
  /\ req[Server] = "posted"
  /\ conn[c] = "open" /\ arrived[c] > 0
  /\ buf' = [len |-> arrived[c] + 1, holds |-> wire[c]]
  /\ set_or(Server, arrived[c] + 1)
  /\ UNCHANGED <<main, completed, accepting, conn, wire, arrived>>

\* The receive callback with status UCS_OK: without UCP_STREAM_RECV_FLAG_WAITALL
\* the bytes at hand complete the request.
recv_callback(c) ==
  /\ InLoop(Server)
  /\ req[Server] = "posted"
  /\ conn[c] = "open" /\ arrived[c] > 0
  /\ buf' = [len |-> arrived[c], holds |-> wire[c]]
  /\ set_or(Server, arrived[c])
  /\ UNCHANGED <<main, completed, accepting, conn, wire, arrived>>

\* The receive callback with an error throws through ucp_worker_progress.
recv_callback_error ==
  /\ MayFail
  /\ InLoop(Server)
  /\ req[Server] = "posted"
  /\ main' = [main EXCEPT ![Server] = "terminated"]
  /\ UNCHANGED <<completed, co, setOr, eventVars, netVars>>

\* start_server from the message to the end of its body.
start_server_receives ==
  /\ setOr[Server] = "event" /\ co[Server] = "resumed"
  /\ completed' = [completed EXCEPT ![Server] = TRUE]
  /\ co' = [co EXCEPT ![Server] = "closing"]
  /\ UNCHANGED <<main, setOr, eventVars, netVars>>

\* The frame's locals are destroyed, ~UcpEndPoint among them, from inside the
\* receive callback.
start_server_ends(c) ==
  /\ co[Server] = "closing"
  /\ conn[c] = "open"
  /\ conn' = [conn EXCEPT ![c] = "closed"]
  /\ co' = [co EXCEPT ![Server] = "ended"]
  /\ UNCHANGED <<main, completed, setOr, eventVars, wire, arrived, buf>>

\* The loop ends; listener, worker and context are destroyed in this order.
server_return ==
  /\ InLoop(Server)
  /\ completed[Server]
  /\ main' = [main EXCEPT ![Server] = "returned"]
  /\ UNCHANGED <<completed, co, setOr, eventVars, netVars>>

-----------------------------------------------------------------------------
ClientRuns(c) ==
  client_main(c) \/ send_callback(c) \/ start_client_worker(c) \/ callback_return(c)
    \/ client_close(c) \/ client_return(c) \/ (ServerLeft(c) /\ err_handler(c))

ServerRuns ==
  \/ server_main \/ listener_callback_return \/ start_server_receives
  \/ callback_return(Server) \/ server_return
  \/ \E c \in Clients :
       start_server_accepts(c) \/ recv_callback(c) \/ start_server_ends(c)

NetworkRuns(c) == transmit(c) \/ arrive(c)

Failures ==
  \/ start_server_throws \/ recv_callback_error
  \/ \E c \in Clients :
       send_callback_error(c) \/ recv_stream_exits(c) \/ err_handler(c)

Next ==
  \/ ServerRuns
  \/ \E c \in Clients : ClientRuns(c) \/ NetworkRuns(c) \/ listener_callback(c)
  \/ Failures

\* A main loop keeps polling, the network keeps delivering and the listener
\* reports requests.  Nothing makes a failure happen.
Fairness ==
  /\ WF_vars(ServerRuns)
  /\ \A c \in Clients :
       WF_vars(ClientRuns(c)) /\ WF_vars(NetworkRuns(c)) /\ WF_vars(listener_callback(c))

Spec == Init /\ [][Next]_vars
FairSpec == Spec /\ Fairness

-----------------------------------------------------------------------------
(* Properties.                                                             *)

(***************************************************************************)
(* The heap handle a completion callback gets as user_data is alive until  *)
(* the callback has returned from set_or, whatever the coroutine destroys  *)
(* in between, and is deleted once.                                        *)
(***************************************************************************)
HandleOutlivesCallback ==
  \A p \in Procs : req[p] = "posted" \/ setOr[p] = "event" => handle[p] = "live"

(***************************************************************************)
(* A handle an event would resume belongs to a coroutine that sleeps on    *)
(* this very event.  start_server sleeps on two events in turn: a second   *)
(* connection request must not wake it while it awaits the message.        *)
(***************************************************************************)
WaitersSleep ==
  /\ accepting.waiter # NoHandle /\ setOr[Server] # "accepting" => co[Server] = "accept"
  /\ \A p \in Procs :
       event[p].waiter # NoHandle /\ setOr[p] # "event" /\ ~Ended(p) => co[p] = "event"

(***************************************************************************)
(* The server talks to one client: however many connection requests the    *)
(* listener reports, and whenever it does, only the first one gets an      *)
(* endpoint.                                                               *)
(***************************************************************************)
OneSession ==
  \A c, d \in Clients :
    conn[c] \in {"open", "closed"} /\ conn[d] \in {"open", "closed"} => c = d

(***************************************************************************)
(* completed is raised for a transfer: a client's only once the server     *)
(* accepted it and its bytes left, the server's only once bytes of the     *)
(* client it accepted are in its buffer.                                   *)
(***************************************************************************)
CompletedMeansTransfer ==
  /\ \A c \in Clients : completed[c] => conn[c] \in {"open", "closed"} /\ wire[c] # "none"
  /\ completed[Server] =>
       \E c \in Clients : /\ conn[c] \in {"open", "closed"}
                         /\ buf.len \in 1..arrived[c]
                         /\ buf.holds = wire[c]

(***************************************************************************)
(* main destroys endpoint, worker and context only when the coroutine is   *)
(* over, its operation's callback has returned and, in the server, the     *)
(* endpoint is closed: nothing is left that could touch them.              *)
(***************************************************************************)
TeardownOrder ==
  \A p \in Procs :
    main[p] \in {"closing", "returned"} =>
      /\ co[p] = "ended" /\ setOr[p] = "none" /\ req[p] = "done" /\ handle[p] = "deleted"
      /\ p = Server => \A c \in Clients : conn[c] # "open"

(***************************************************************************)
(* Without failures the server's main returns: the chain from the          *)
(* listener's callback through accept, the message and completed does not  *)
(* break, whatever other clients do.                                       *)
(***************************************************************************)
ServerReturns == <>(main[Server] = "returned")

(***************************************************************************)
(* Without failures no client polls for ever, the ones whose connection    *)
(* request is latched or dropped included: their error handler ends them   *)
(* when the server goes away.                                              *)
(***************************************************************************)
ClientsEnd == \A c \in Clients : <>Ended(c)

(***************************************************************************)
(* What the client logs as sent is what the server receives.  It is not:   *)
(* the bytes are those of send_stream(T)'s parameter, a pointer on a       *)
(* frame that has returned.                                                *)
(***************************************************************************)
PayloadIsData == completed[Server] => buf.holds = "data"

(***************************************************************************)
(* The programs implement one transfer: the session never changes once it  *)
(* is made, its client alone raises completed, and main returns only to a  *)
(* process whose coroutine raised it, whoever else asks or fails.          *)
(***************************************************************************)
Transfer == INSTANCE OneTransfer WITH
  session <- {c \in Clients : conn[c] \in {"open", "closed"}},
  reported <- {p \in Procs : completed[p]},
  received <- IF completed[Server] THEN buf.len ELSE 0,
  left <- {p \in Procs : main[p] = "returned"}

TransfersOnce == Transfer!Spec
=============================================================================
