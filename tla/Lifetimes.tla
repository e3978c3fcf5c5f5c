----------------------------- MODULE Lifetimes -----------------------------
(***************************************************************************)
(* The UCX objects one process creates and destroys, on every path through *)
(* the three programs: ucp_client_server.c (C labels), server.cpp and      *)
(* client.cpp (constructors, exceptions, destructors), ucp_hello_world.c   *)
(* (C labels).  "at" is the next call; it may succeed or fail, and either  *)
(* outcome has its place to go on.                                         *)
(*                                                                         *)
(* An object is live from the call that returns it until the one that      *)
(* gives it back.  To give back what is not live is undefined: the process *)
(* ends there, or goes on.  What the processes say to each other is in     *)
(* AsyncStream, ClientServer and HelloWorld.                               *)
(***************************************************************************)
EXTENDS Naturals, FiniteSets

CONSTANTS
  Programs,  \* which of the programs may run
  IovCnt     \* iov_cnt, the -v option of ucp_client_server

Cs == {"cs_server", "cs_client"}
Coro == {"server", "client"}
Hello == {"hello_server", "hello_client"}

ASSUME LifetimesAssumption ==
  /\ Programs \subseteq Cs \cup Coro \cup Hello
  /\ IovCnt \in Nat \ {0}

VARIABLES
  program,
  at,        \* the next call, or how the process ended
  live,      \* the objects that exist
  buffers,   \* the entries of the iov that hold a buffer
  pending,   \* does UCX have an operation on those buffers?
  fin,       \* client_server_do_work: is it the turn of the FIN message?
  failed,    \* has a call failed, or UCX reported an error?
  misused    \* was something given back that was not live?

workVars == <<buffers, pending, fin>>
vars == <<program, at, live, workVars, failed, misused>>

Objects ==
  {"config", "context", "worker", "data_worker", "listener", "ep", "address",
   "oob_sock", "peer_addr", "peer_addr_copy", "msg"}

Calls ==
  {"parse_cmd", "init_context", "init_worker", "main_err", "main_worker", "main_context",
   "init_data_worker", "register_am", "start_server", "query_listener", "query_failed",
   "wait_request", "session_over", "err_ep", "err_listener", "err_worker",
   "start_client", "client_close", "do_work", "fill_buffer", "post", "request_wait",
   "release_iov", "release_failed", "register_fin"}
  \cup
  {"UcpContext", "ucp_init", "context_failed", "release_config", "UcpWorker", "worker_failed",
   "getenv_or_throw", "UcpListener", "ucp_listener_query", "listener_failed", "UcpEndPoint",
   "client_loop", "start_server_accepts", "start_server_receives", "frame_ends",
   "destroy_listener", "destroy_ep", "destroy_worker", "destroy_context"}
  \cup
  {"ucp_config_read", "ucp_config_release", "no_context", "ucp_worker_create",
   "ucp_worker_query", "connect_common", "recv_length", "malloc_addr", "recv_addr",
   "send_addr", "client_ep", "client_msg", "client_send", "sent_msg", "client_probe",
   "client_malloc", "client_recv", "server_msg", "server_recv", "server_copy",
   "free_received", "copied_msg", "server_ep", "server_malloc", "server_send", "free_msg",
   "ep_close", "close_sock", "err_peer_addr", "err_addr", "hello_worker", "hello_context"}

\* "exit": main returned; "exited": exit() was called below main, whose
\* variables are not destroyed; "terminated": by an exception nobody catches,
\* or by undefined behaviour; "stuck": main polls a flag that nobody will raise.
Ends == {"exit", "exited", "terminated", "stuck"}

TypeOK ==
  /\ program \in Programs /\ at \in Calls \cup Ends
  /\ live \subseteq Objects
  /\ buffers \subseteq 1..IovCnt
  /\ {pending, fin, failed, misused} \subseteq BOOLEAN
  /\ at \in Ends => ~pending

Init ==
  /\ program \in Programs
  /\ at = IF program \in Coro THEN "UcpContext" ELSE "parse_cmd"
  /\ live = {} /\ buffers = {}
  /\ pending = FALSE /\ fin = FALSE /\ failed = FALSE /\ misused = FALSE

\* A call that may fail.
Try(from, ok, err) ==
  /\ at = from
  /\ \/ at' = ok /\ UNCHANGED failed
     \/ at' = err /\ failed' = TRUE
  /\ UNCHANGED <<program, live, workVars, misused>>

\* A call that returns an object, or fails.
Create(from, object, ok, err) ==
  /\ at = from
  /\ \/ at' = ok /\ live' = live \cup {object} /\ UNCHANGED failed
     \/ at' = err /\ failed' = TRUE /\ UNCHANGED live
  /\ UNCHANGED <<program, workVars, misused>>

\* A call that gives an object back.
Destroy(from, object, next) ==
  /\ at = from
  /\ live' = live \ {object}
  /\ misused' = (misused \/ object \notin live)
  /\ at' \in IF object \in live THEN {next} ELSE {next, "terminated"}
  /\ UNCHANGED <<program, workVars, failed>>

\* free(NULL) is legal.
Free(from, object, next) ==
  /\ at = from
  /\ live' = live \ {object}
  /\ at' = next
  /\ UNCHANGED <<program, workVars, failed, misused>>

-----------------------------------------------------------------------------
(* ucp_client_server.c                                                     *)

cs_init_context ==
  /\ program \in Cs
  /\ \/ Try("parse_cmd", "init_context", "exit")
     \/ Create("init_context", "context", "init_worker", "exit")
     \/ Create("init_worker", "worker",
               IF program = "cs_server" THEN "init_data_worker" ELSE "start_client", "main_err")
     \/ Destroy("main_err", "context", "exit")

cs_main_cleanup ==
  \/ Destroy("main_worker", "worker", "main_context")
  \/ Destroy("main_context", "context", "exit")

\* Faulty variant: a failed query leaves through err_listener.
cs_start_server_twice ==
  \/ Create("start_server", "listener", "query_listener", "err_worker")
  \/ Try("query_listener", "wait_request", "query_failed")
  \/ Destroy("query_failed", "listener", "err_listener")

\* Creates the listener, and queries it for its port.
cs_start_server ==
  \/ Create("start_server", "listener", "query_listener", "err_worker")
  \/ Try("query_listener", "wait_request", "query_failed")
  \/ Destroy("query_failed", "listener", "err_worker")

\* Faulty variant: a failed registration leaves through the wrong label.
run_server_leaks ==
  \/ Create("init_data_worker", "data_worker", "register_am", "main_worker")
  \/ Try("register_am", "start_server", "main_worker")
  \/ Destroy("err_worker", "data_worker", "main_worker")

run_server ==
  \/ Create("init_data_worker", "data_worker", "register_am", "main_worker")
  \/ Try("register_am", "start_server", "err_worker")
  \/ Create("wait_request", "ep", "do_work", "err_listener")
  \/ Destroy("session_over", "ep", "wait_request")
  \/ Destroy("err_ep", "ep", "err_listener")
  \/ Destroy("err_listener", "listener", "err_worker")
  \/ Destroy("err_worker", "data_worker", "main_worker")

run_client ==
  \/ Create("start_client", "ep", "do_work", "main_worker")
  \/ Destroy("client_close", "ep", "main_worker")

WorkDone == IF program = "cs_server" THEN "session_over" ELSE "client_close"
WorkFailed == IF program = "cs_server" THEN "err_ep" ELSE "client_close"

\* The FIN message goes the other way.
IsSender == (program = "cs_client") # fin

\* Faulty variant: one entry too many.
buffer_malloc_more ==
  /\ at = "do_work"
  /\ buffers' = buffers \cup {Cardinality(buffers) + 1}
  /\ at' = IF Cardinality(buffers) = IovCnt THEN "fill_buffer" ELSE at
  /\ UNCHANGED <<program, live, pending, fin, failed, misused>>

\* Allocates one entry of the iov after the other; a failure frees them all,
\* and the ones that are still NULL.
buffer_malloc ==
  /\ at = "do_work"
  /\ \/ /\ buffers' = buffers \cup {Cardinality(buffers) + 1}
        /\ at' = IF Cardinality(buffers') = IovCnt THEN "fill_buffer" ELSE at
        /\ UNCHANGED failed
     \/ at' = WorkFailed /\ buffers' = {} /\ failed' = TRUE
  /\ UNCHANGED <<program, live, pending, fin, misused>>

\* Every entry of the iov that was filled is given back: one that was given
\* back before keeps its pointer, and would be freed twice.
buffer_free ==
  /\ buffers' = {}
  /\ misused' = (misused \/ buffers # 1..IovCnt)

\* Faulty variant: a failure frees the buffers and leaves them to be finalized.
fill_request_param_twice ==
  /\ at = "fill_buffer"
  /\ \/ at' = "post" /\ UNCHANGED <<buffers, failed, misused>>
     \/ IsSender /\ at' = "release_failed" /\ buffer_free /\ failed' = TRUE
  /\ UNCHANGED <<program, live, pending, fin>>

\* The sender fills its buffers; a failure frees them.
fill_request_param ==
  /\ at = "fill_buffer"
  /\ \/ at' = "post" /\ UNCHANGED <<buffers, failed, misused>>
     \/ IsSender /\ at' = WorkFailed /\ buffer_free /\ failed' = TRUE
  /\ UNCHANGED <<program, live, pending, fin>>

post ==
  /\ at = "post"
  /\ at' = "request_wait" /\ pending' = TRUE
  /\ UNCHANGED <<program, live, buffers, fin, failed, misused>>

\* Faulty variant: one progress instead of a loop.
request_wait_once ==
  /\ at = "request_wait" /\ pending
  /\ pending' \in BOOLEAN
  /\ at' = "release_iov"
  /\ UNCHANGED <<program, live, buffers, fin, failed, misused>>

\* The operation ends, well or with an error.
request_wait ==
  /\ at = "request_wait" /\ pending
  /\ pending' = FALSE
  /\ \/ at' = "release_iov" /\ UNCHANGED failed
     \/ at' = "release_failed" /\ failed' = TRUE
  /\ UNCHANGED <<program, live, buffers, fin, misused>>

\* Releases the buffers; client_server_do_work goes on with the next
\* iteration, the FIN message, or the end of the session.
request_finalize ==
  /\ at \in {"release_iov", "release_failed"}
  /\ buffer_free
  /\ \/ at = "release_failed" /\ at' = WorkFailed /\ UNCHANGED fin
     \/ at = "release_iov" /\ fin /\ at' = WorkDone /\ fin' = FALSE
     \/ at = "release_iov" /\ ~fin /\ at' = "do_work" /\ UNCHANGED fin
     \/ /\ at = "release_iov" /\ ~fin /\ fin' = TRUE
        /\ at' = IF program = "cs_client" THEN "register_fin" ELSE "do_work"
  /\ UNCHANGED <<program, live, pending, failed>>

\* The client of the AM API registers its callback before the FIN message.
register_fin == Try("register_fin", "do_work", WorkFailed)

client_server_do_work ==
  buffer_malloc \/ fill_request_param \/ post \/ request_wait \/ request_finalize \/ register_fin

-----------------------------------------------------------------------------
(* server.cpp and client.cpp.  An exception of a constructor reaches main,  *)
(* which has no handler: the process is terminated.                         *)

\* What ucp_config_read returns is not looked at.  When ucp_init fails the
\* constructor cleans up a context it does not have.
UcpContext ==
  \/ Create("UcpContext", "config", "ucp_init", "ucp_init")
  \/ Create("ucp_init", "context", "release_config", "context_failed")
  \/ Destroy("context_failed", "context", "terminated")
  \/ Destroy("release_config", "config", "UcpWorker")

UcpWorker ==
  \/ Create("UcpWorker", "worker", "getenv_or_throw", "worker_failed")
  \/ Destroy("worker_failed", "worker", "terminated")

\* SERVER_IP and SERVER_PORT, before either constructor.
getenv_or_throw ==
  Try("getenv_or_throw", IF program = "server" THEN "UcpListener" ELSE "UcpEndPoint", "terminated")

UcpListener ==
  \/ Create("UcpListener", "listener", "ucp_listener_query", "terminated")
  \/ Try("ucp_listener_query", "start_server_accepts", "listener_failed")
  \/ Destroy("listener_failed", "listener", "terminated")

UcpEndPoint == Create("UcpEndPoint", "ep", "client_loop", "terminated")

\* In main's loop.  A failed send is logged or not looked at, and one that is
\* complete in place has no callback: the client polls on.
start_client_worker == Try("client_loop", "destroy_ep", "stuck") \/ Try("client_loop", "stuck", "stuck")

\* The error handler of the client's endpoint throws through main's loop.
err_handler ==
  /\ program = "client" /\ at \in {"client_loop", "stuck"}
  /\ at' = "terminated" /\ failed' = TRUE
  /\ UNCHANGED <<program, live, workVars, misused>>

\* An exception of the coroutine, thrown when there is no endpoint, is dropped.
\* A receive that cannot be posted calls exit(1), one that ends with an error
\* throws through ucp_worker_progress.
start_server ==
  \/ Create("start_server_accepts", "ep", "start_server_receives", "stuck")
  \/ Try("start_server_receives", "frame_ends", "exited")
  \/ Try("start_server_receives", "frame_ends", "terminated")
  \/ Destroy("frame_ends", "ep", "destroy_listener")

\* Faulty variant: the context is declared after the worker.
worker_outlives_context ==
  \/ Destroy("destroy_listener", "listener", "destroy_context")
  \/ Destroy("destroy_ep", "ep", "destroy_context")
  \/ Destroy("destroy_context", "context", "destroy_worker")
  \/ Destroy("destroy_worker", "worker", "exit")

\* Destructors of main's variables, in reverse order of their declaration.
main_returns ==
  \/ Destroy("destroy_listener", "listener", "destroy_worker")
  \/ Destroy("destroy_ep", "ep", "destroy_worker")
  \/ Destroy("destroy_worker", "worker", "destroy_context")
  \/ Destroy("destroy_context", "context", "exit")

-----------------------------------------------------------------------------
(* ucp_hello_world.c                                                       *)

\* The configuration is released whatever ucp_init returned.
hello_main_init ==
  /\ program \in Hello
  /\ \/ Try("parse_cmd", "ucp_config_read", "exit")
     \/ Create("ucp_config_read", "config", "ucp_init", "exit")
     \/ Create("ucp_init", "context", "ucp_config_release", "no_context")
     \/ Destroy("ucp_config_release", "config", "ucp_worker_create")
     \/ Destroy("no_context", "config", "exit")
     \/ Create("ucp_worker_create", "worker", "ucp_worker_query", "hello_context")
     \/ Create("ucp_worker_query", "address", "connect_common", "hello_worker")

\* A failed send or receive of an address leaves below close(oob_sock).
hello_main_exchange ==
  \/ /\ program = "hello_client"
     /\ \/ Create("connect_common", "oob_sock", "recv_length", "err_addr")
        \/ Try("recv_length", "malloc_addr", "err_addr")
        \/ Create("malloc_addr", "peer_addr", "recv_addr", "err_addr")
        \/ Try("recv_addr", "client_ep", "err_peer_addr")
  \/ /\ program = "hello_server"
     /\ \/ Create("connect_common", "oob_sock", "send_addr", "err_peer_addr")
        \/ Try("send_addr", "server_msg", "err_peer_addr")

run_ucx_client ==
  \/ Create("client_ep", "ep", "client_msg", "close_sock")
  \/ Create("client_msg", "msg", "client_send", "ep_close")
  \/ Try("client_send", "sent_msg", "free_msg")
  \/ Free("sent_msg", "msg", "client_probe")
  \/ Try("client_probe", "client_malloc", "ep_close")
  \/ Create("client_malloc", "msg", "client_recv", "ep_close")
  \/ Try("client_recv", "free_msg", "free_msg")

\* The copy of the client's address is never freed.
run_ucx_server ==
  \/ Create("server_msg", "msg", "server_recv", "close_sock")
  \/ Try("server_recv", "server_copy", "free_received")
  \/ Create("server_copy", "peer_addr_copy", "copied_msg", "free_received")
  \/ Free("free_received", "msg", "close_sock")
  \/ Free("copied_msg", "msg", "server_ep")
  \/ Create("server_ep", "ep", "server_malloc", "close_sock")
  \/ Create("server_malloc", "msg", "server_send", "ep_close")
  \/ Try("server_send", "free_msg", "free_msg")

run_ucx_returns ==
  \/ Free("free_msg", "msg", "ep_close")
  \/ Destroy("ep_close", "ep", "close_sock")

hello_main_cleanup ==
  \/ Destroy("close_sock", "oob_sock", "err_peer_addr")
  \/ Free("err_peer_addr", "peer_addr", "err_addr")
  \/ Destroy("err_addr", "address", "hello_worker")
  \/ Destroy("hello_worker", "worker", "hello_context")
  \/ Destroy("hello_context", "context", "exit")

-----------------------------------------------------------------------------

Next ==
  \/ cs_init_context \/ cs_start_server \/ run_server \/ run_client
  \/ client_server_do_work \/ cs_main_cleanup
  \/ program \in Coro /\ (UcpContext \/ UcpWorker)
  \/ getenv_or_throw \/ UcpListener \/ UcpEndPoint
  \/ start_server \/ start_client_worker \/ err_handler \/ main_returns
  \/ hello_main_init \/ hello_main_exchange \/ run_ucx_client \/ run_ucx_server
  \/ run_ucx_returns \/ hello_main_cleanup

Spec == Init /\ [][Next]_vars

-----------------------------------------------------------------------------
(* Properties.                                                             *)

\* What an object was created from.
Parent(o) ==
  CASE o = "worker" -> "context"
    [] o = "data_worker" -> "context"
    [] o = "address" -> "worker"
    [] o = "listener" -> "worker"
    [] o = "ep" -> IF program = "cs_server" THEN "data_worker" ELSE "worker"
    [] OTHER -> o

\* On every path, through whichever label, constructor or destructor, no
\* worker, listener, endpoint or address is there without the context or the
\* worker it was created from (the order of the labels and of main's variables).
ParentsOutlive == \A o \in live : Parent(o) \in live

\* The C programs give back only what they have, on every error path.  The
\* classes give back what they do not have only after a failed call, whose
\* result UcpContext ignores or whose handle the constructor cleans up although
\* it was not written (UcpContext, UcpWorker).
MisuseOnlyAfterFailure == misused => failed /\ program \in Coro

\* UCX never reads or writes buffers that were freed, and a session starts
\* with none (request_finalize after request_wait, buffer_free).
BuffersHeld ==
  /\ pending => buffers = 1..IovCnt
  /\ at \in {"wait_request", "session_over", "client_close", "err_ep"} => buffers = {}

\* What a process leaves behind, however it ends.
\* A main that returns leaves nothing, whichever call failed, but for what
\* ucp_hello_world forgets: the socket after a failed exchange of addresses, and
\* the server's copy of the client's address.
\* The C programs end no other way.
\* The exit(1) of recv_stream runs no destructor of main: all that server.cpp
\* ever made is left.  A server that polls for ever has no endpoint, since its
\* frame was destroyed with the exception, a client has its own.
NothingLeft ==
  at \in Ends =>
    /\ buffers = {}
    /\ program \notin Coro => at = "exit"
    /\ program \in Cs \cup Coro /\ at = "exit" => live = {}
    /\ program = "hello_client" => live \subseteq {"oob_sock"}
    /\ program = "hello_server" => live \subseteq {"oob_sock", "peer_addr_copy"}
    /\ program \in Hello /\ ~failed => live \subseteq {"peer_addr_copy"}
    /\ at = "exited" => program = "server" /\ live = {"context", "worker", "listener", "ep"}
    /\ at = "stuck" =>
         live = {"context", "worker"} \cup IF program = "server" THEN {"listener"} ELSE {"ep"}
    /\ at \in {"exited", "terminated"} => failed
    /\ at = "stuck" /\ program = "server" => failed
=============================================================================
