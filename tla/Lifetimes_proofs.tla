-------------------------- MODULE Lifetimes_proofs --------------------------
(***************************************************************************)
(* What holds of the objects of every process, and of the buffers of       *)
(* ucp_client_server for every length of the iov.                          *)
(***************************************************************************)
EXTENDS Lifetimes, FiniteSetTheorems, TLAPS

\* Between the first allocation and request_finalize.
AtWork == {"do_work", "fill_buffer", "post", "request_wait", "release_iov", "release_failed"}

(***************************************************************************)
(* The iov is filled from its first entry, is full from the filling to the *)
(* release, and is empty wherever client_server_do_work is not at work.    *)
(***************************************************************************)
BufferInv ==
  /\ at \notin AtWork => buffers = {}
  /\ at = "do_work" => \E k \in 0..IovCnt-1 : buffers = 1..k
  /\ at \in AtWork \ {"do_work"} => buffers = 1..IovCnt
  /\ pending => at = "request_wait"

(***************************************************************************)
(* A call outside client_server_do_work touches neither buffers nor        *)
(* operations, and starts the work only with an empty iov.                 *)
(***************************************************************************)
LEMMA Elsewhere ==
  ASSUME BufferInv, at \notin AtWork, at' \notin AtWork \ {"do_work"}, UNCHANGED workVars
  PROVE  BufferInv'
<1>1. buffers = {} /\ 1..0 = {} /\ 0 \in 0..IovCnt-1
  BY LifetimesAssumption DEF BufferInv
<1> QED BY <1>1 DEF BufferInv, AtWork, workVars

(***************************************************************************)
(* BufferInv is inductive.                                                 *)
(***************************************************************************)
LEMMA BufferInvHolds == Spec => []BufferInv
<1> USE LifetimesAssumption
<1>1. Init => BufferInv
  BY DEF Init, BufferInv, AtWork
<1>2. BufferInv /\ [Next]_vars => BufferInv'
  <2> SUFFICES ASSUME BufferInv, [Next]_vars
               PROVE  BufferInv'
    OBVIOUS
  <2>1. CASE cs_init_context \/ cs_start_server \/ run_server \/ run_client \/ cs_main_cleanup
    BY <2>1, Elsewhere DEF cs_init_context, cs_start_server, run_server, run_client,
       cs_main_cleanup, Try, Create, Destroy, AtWork
  <2>2. CASE buffer_malloc
    <3>1. PICK k \in 0..IovCnt-1 : buffers = 1..k
      BY <2>2 DEF buffer_malloc, BufferInv
    <3>2. Cardinality(buffers) = k
      BY <3>1, FS_Interval
    <3>3. buffers \cup {Cardinality(buffers) + 1} = 1..(k + 1)
      BY <3>1, <3>2
    <3>4. Cardinality(1..(k + 1)) = k + 1
      BY <3>1, FS_Interval
    <3>5. CASE buffers' = buffers \cup {Cardinality(buffers) + 1} /\ k + 1 = IovCnt
      BY <2>2, <3>1, <3>3, <3>4, <3>5 DEF buffer_malloc, BufferInv, AtWork
    <3>6. CASE buffers' = buffers \cup {Cardinality(buffers) + 1} /\ k + 1 # IovCnt
      <4>1. k + 1 \in 0..IovCnt-1 /\ buffers' = 1..(k + 1)
        BY <3>1, <3>3, <3>6
      <4>2. at = "do_work" /\ pending' = pending
        BY <2>2 DEF buffer_malloc
      <4>3. at' = "do_work" \/ (at' = WorkFailed /\ buffers' = {})
        <5>1. Cardinality(buffers') # IovCnt
          BY <3>1, <3>4, <3>6, <4>1
        <5> QED BY <2>2, <4>2, <5>1 DEF buffer_malloc
      <4>4. CASE at' = "do_work"
        BY <4>1, <4>2, <4>4 DEF BufferInv, AtWork
      <4>5. CASE at' = WorkFailed /\ buffers' = {}
        BY <4>2, <4>5 DEF BufferInv, AtWork, WorkFailed
      <4> QED BY <4>3, <4>4, <4>5
    <3>7. CASE at' = WorkFailed /\ buffers' = {}
      BY <2>2, <3>7 DEF buffer_malloc, BufferInv, AtWork, WorkFailed
    <3> QED BY <2>2, <3>5, <3>6, <3>7 DEF buffer_malloc
  <2>3. CASE fill_request_param
    BY <2>3 DEF fill_request_param, buffer_free, BufferInv, AtWork, WorkFailed
  <2>4. CASE post
    BY <2>4 DEF post, BufferInv, AtWork
  <2>5. CASE request_wait
    BY <2>5 DEF request_wait, BufferInv, AtWork
  <2>6. CASE request_finalize
    <3>1. buffers' = {} /\ ~pending' /\ at' \notin AtWork \ {"do_work"}
      BY <2>6 DEF request_finalize, buffer_free, BufferInv, AtWork, WorkFailed, WorkDone
    <3>2. {} = 1..0 /\ 0 \in 0..IovCnt-1
      OBVIOUS
    <3> QED BY <3>1, <3>2 DEF BufferInv, AtWork
  <2>7. CASE register_fin
    BY <2>7, Elsewhere DEF register_fin, Try, AtWork, WorkFailed
  <2>8. CASE UcpContext \/ UcpWorker \/ getenv_or_throw \/ UcpListener \/ UcpEndPoint
    BY <2>8, Elsewhere DEF UcpContext, UcpWorker, getenv_or_throw, UcpListener, UcpEndPoint,
       Try, Create, Destroy, AtWork
  <2>9. CASE start_server \/ start_client_worker \/ err_handler \/ main_returns
    BY <2>9, Elsewhere DEF start_server, start_client_worker, err_handler, main_returns,
       Try, Create, Destroy, AtWork
  <2>10. CASE hello_main_init \/ hello_main_exchange
    BY <2>10, Elsewhere DEF hello_main_init, hello_main_exchange, Try, Create, Destroy, AtWork
  <2>11. CASE run_ucx_client \/ run_ucx_server
    BY <2>11, Elsewhere DEF run_ucx_client, run_ucx_server, Try, Create, Destroy, Free, AtWork
  <2>12. CASE run_ucx_returns \/ hello_main_cleanup
    BY <2>12, Elsewhere DEF run_ucx_returns, hello_main_cleanup, Destroy, Free, AtWork
  <2>13. CASE UNCHANGED vars
    BY <2>13 DEF vars, workVars, BufferInv
  <2> QED BY <2>1, <2>2, <2>3, <2>4, <2>5, <2>6, <2>7, <2>8, <2>9, <2>10, <2>11, <2>12, <2>13
          DEF Next, client_server_do_work
<1> QED BY <1>1, <1>2, PTL DEF Spec

(***************************************************************************)
(* Buffers are freed only when UCX is done with them, however many there   *)
(* are and whichever call fails (request_finalize after request_wait).     *)
(***************************************************************************)
THEOREM BuffersAreHeld == Spec => []BuffersHeld
<1>1. BufferInv => BuffersHeld
  BY DEF BufferInv, BuffersHeld, AtWork
<1> QED BY <1>1, BufferInvHolds, PTL

-----------------------------------------------------------------------------
(***************************************************************************)
(* The inductive invariant of all six processes: what is live at each      *)
(* call, a table with a row for the calls that find the same objects.      *)
(***************************************************************************)
Row(calls, objects) == at \in calls /\ live = objects

\* The same, for calls that may find some more.
RowWith(calls, objects, more) ==
  at \in calls /\ objects \subseteq live /\ live \subseteq objects \cup more

CW == {"context", "worker"}

CsAt ==
  /\ program \in Cs /\ ~misused
  /\ \/ Row({"parse_cmd", "init_context", "exit"}, {})
     \/ Row({"init_worker", "main_err", "main_context"}, {"context"})
     \/ Row({"main_worker"}, CW)
     \/ /\ program = "cs_client"
        /\ \/ Row({"start_client"}, CW)
           \/ Row({"register_fin", "client_close"} \cup AtWork, CW \cup {"ep"})
     \/ /\ program = "cs_server"
        /\ \/ Row({"init_data_worker"}, CW)
           \/ Row({"register_am", "start_server", "err_worker"}, CW \cup {"data_worker"})
           \/ Row({"query_listener", "query_failed", "wait_request", "err_listener"},
                  CW \cup {"data_worker", "listener"})
           \/ Row({"session_over", "err_ep"} \cup AtWork, CW \cup {"data_worker", "listener", "ep"})

\* A configuration or a context that could not be made is given back all the
\* same.
CoroAt ==
  /\ program \in Coro
  /\ misused => failed
  /\ \/ Row({"UcpContext", "exit"}, {})
     \/ RowWith({"ucp_init"}, {}, {"config"}) /\ ("config" \in live \/ failed)
     \/ RowWith({"context_failed"}, {}, {"config"}) /\ failed
     \/ RowWith({"release_config"}, {"context"}, {"config"}) /\ ("config" \in live \/ failed)
     \/ Row({"UcpWorker", "destroy_context"}, {"context"})
     \/ Row({"worker_failed"}, {"context"}) /\ failed
     \/ Row({"getenv_or_throw", "destroy_worker"}, CW)
     \/ /\ program = "client"
        /\ \/ Row({"UcpEndPoint"}, CW)
           \/ Row({"client_loop", "destroy_ep", "stuck"}, CW \cup {"ep"})
     \/ /\ program = "server"
        /\ \/ Row({"UcpListener"}, CW)
           \/ Row({"ucp_listener_query", "start_server_accepts", "destroy_listener"},
                  CW \cup {"listener"})
           \/ Row({"listener_failed", "stuck"}, CW \cup {"listener"}) /\ failed
           \/ Row({"start_server_receives", "frame_ends"}, CW \cup {"listener", "ep"})
           \/ Row({"exited"}, CW \cup {"listener", "ep"}) /\ failed
     \/ /\ at = "terminated" /\ failed
        /\ \/ live = {} \/ live = {"config"} \/ live = {"context"}
           \/ RowWith({at}, CW, {"listener", "ep"})

\* What hello_main_cleanup may find left behind.
Behind == IF program = "hello_client" THEN {"oob_sock"} ELSE {"oob_sock", "peer_addr_copy"}
Cleanup == {"err_peer_addr", "err_addr", "hello_worker", "hello_context", "exit"}

HelloAt ==
  /\ program \in Hello /\ ~misused
  /\ at \in Cleanup /\ "oob_sock" \in live => failed
  /\ \/ Row({"parse_cmd", "ucp_config_read"}, {})
     \/ Row({"ucp_init", "no_context"}, {"config"})
     \/ Row({"ucp_config_release"}, {"context", "config"})
     \/ Row({"ucp_worker_create"}, {"context"})
     \/ Row({"ucp_worker_query"}, CW)
     \/ Row({"connect_common"}, CW \cup {"address"})
     \/ /\ program = "hello_client"
        /\ \/ Row({"recv_length", "malloc_addr"}, CW \cup {"address", "oob_sock"})
           \/ Row({"recv_addr", "client_ep", "close_sock"},
                  CW \cup {"address", "oob_sock", "peer_addr"})
           \/ Row({"client_msg", "client_probe", "client_malloc", "ep_close"},
                  CW \cup {"address", "oob_sock", "peer_addr", "ep"})
           \/ Row({"client_send", "sent_msg", "client_recv", "free_msg"},
                  CW \cup {"address", "oob_sock", "peer_addr", "ep", "msg"})
           \/ RowWith({"err_peer_addr"}, CW \cup {"address", "peer_addr"}, Behind)
     \/ /\ program = "hello_server"
        /\ \/ Row({"send_addr", "server_msg", "close_sock"}, CW \cup {"address", "oob_sock"})
           \/ Row({"server_recv", "server_copy", "free_received"},
                  CW \cup {"address", "oob_sock", "msg"})
           \/ Row({"copied_msg"}, CW \cup {"address", "oob_sock", "msg", "peer_addr_copy"})
           \/ Row({"server_ep", "close_sock"}, CW \cup {"address", "oob_sock", "peer_addr_copy"})
           \/ Row({"server_malloc", "ep_close"},
                  CW \cup {"address", "oob_sock", "peer_addr_copy", "ep"})
           \/ Row({"server_send", "free_msg"},
                  CW \cup {"address", "oob_sock", "peer_addr_copy", "ep", "msg"})
           \/ RowWith({"err_peer_addr"}, CW \cup {"address"}, Behind)
     \/ RowWith({"err_addr"}, CW \cup {"address"}, Behind)
     \/ RowWith({"hello_worker"}, CW, Behind)
     \/ RowWith({"hello_context"}, {"context"}, Behind)
     \/ RowWith({"exit"}, {}, Behind)

LifeInv == CsAt \/ CoroAt \/ HelloAt

(***************************************************************************)
(* ucp_client_server keeps to its rows.  A full iov at each buffer_free is *)
(* what keeps it from freeing a buffer twice.                              *)
(***************************************************************************)
LEMMA CsKeeps == CsAt /\ BufferInv /\ [Next]_vars => CsAt'
<1> SUFFICES ASSUME CsAt, BufferInv, [Next]_vars
             PROVE  CsAt'
  OBVIOUS
<1> USE DEF CsAt, Row, CW, AtWork, Cs, Try, Create, Destroy, Free
<1>1. CASE cs_init_context
  <2>1. CASE Try("parse_cmd", "init_context", "exit")
    BY <1>1, <2>1 DEF cs_init_context
  <2>2. CASE Create("init_context", "context", "init_worker", "exit")
    BY <1>1, <2>2 DEF cs_init_context
  <2>3. CASE Create("init_worker", "worker",
                    IF program = "cs_server" THEN "init_data_worker" ELSE "start_client",
                    "main_err")
    BY <1>1, <2>3 DEF cs_init_context
  <2>4. CASE Destroy("main_err", "context", "exit")
    BY <1>1, <2>4 DEF cs_init_context
  <2> QED BY <1>1, <2>1, <2>2, <2>3, <2>4 DEF cs_init_context
<1>2. CASE cs_start_server
  <2>1. CASE Create("start_server", "listener", "query_listener", "err_worker")
    BY <1>2, <2>1 DEF cs_start_server
  <2>2. CASE Try("query_listener", "wait_request", "query_failed")
    BY <1>2, <2>2 DEF cs_start_server
  <2>3. CASE Destroy("query_failed", "listener", "err_worker")
    BY <1>2, <2>3 DEF cs_start_server
  <2> QED BY <1>2, <2>1, <2>2, <2>3 DEF cs_start_server
<1>3. CASE run_server
  <2>1. CASE Create("init_data_worker", "data_worker", "register_am", "main_worker")
    BY <1>3, <2>1 DEF run_server
  <2>2. CASE Try("register_am", "start_server", "err_worker")
    BY <1>3, <2>2 DEF run_server
  <2>3. CASE Create("wait_request", "ep", "do_work", "err_listener")
    BY <1>3, <2>3 DEF run_server
  <2>4. CASE Destroy("session_over", "ep", "wait_request")
    BY <1>3, <2>4 DEF run_server
  <2>5. CASE Destroy("err_ep", "ep", "err_listener")
    BY <1>3, <2>5 DEF run_server
  <2>6. CASE Destroy("err_listener", "listener", "err_worker")
    BY <1>3, <2>6 DEF run_server
  <2>7. CASE Destroy("err_worker", "data_worker", "main_worker")
    BY <1>3, <2>7 DEF run_server
  <2> QED BY <1>3, <2>1, <2>2, <2>3, <2>4, <2>5, <2>6, <2>7 DEF run_server
<1>4. CASE run_client
  <2>1. CASE Create("start_client", "ep", "do_work", "main_worker")
    BY <1>4, <2>1 DEF run_client
  <2>2. CASE Destroy("client_close", "ep", "main_worker")
    BY <1>4, <2>2 DEF run_client
  <2> QED BY <1>4, <2>1, <2>2 DEF run_client
<1>9. CASE cs_main_cleanup
  <2>1. CASE Destroy("main_worker", "worker", "main_context")
    BY <1>9, <2>1 DEF cs_main_cleanup
  <2>2. CASE Destroy("main_context", "context", "exit")
    BY <1>9, <2>2 DEF cs_main_cleanup
  <2> QED BY <1>9, <2>1, <2>2 DEF cs_main_cleanup
<1>5. CASE client_server_do_work
  <2>1. ~misused'
    BY <1>5 DEF client_server_do_work, buffer_malloc, fill_request_param, post, request_wait,
                request_finalize, register_fin, buffer_free, BufferInv
  <2> QED BY <1>5, <2>1 DEF client_server_do_work, buffer_malloc, fill_request_param, post,
                 request_wait, request_finalize, register_fin, WorkDone, WorkFailed
<1>6. CASE \/ program \in Coro /\ (UcpContext \/ UcpWorker)
           \/ getenv_or_throw \/ UcpListener \/ UcpEndPoint
           \/ start_server \/ start_client_worker \/ err_handler \/ main_returns
  BY <1>6 DEF Coro, getenv_or_throw, UcpListener, UcpEndPoint, start_server,
              start_client_worker, err_handler, main_returns
<1>7. CASE \/ hello_main_init \/ hello_main_exchange \/ run_ucx_client \/ run_ucx_server
           \/ run_ucx_returns \/ hello_main_cleanup
  BY <1>7 DEF Hello, hello_main_init, hello_main_exchange, run_ucx_client, run_ucx_server,
              run_ucx_returns, hello_main_cleanup
<1>8. CASE UNCHANGED vars
  BY <1>8 DEF vars
<1> QED BY <1>1, <1>2, <1>3, <1>4, <1>5, <1>6, <1>7, <1>8, <1>9 DEF Next

(***************************************************************************)
(* The coroutine programs keep to theirs.                                  *)
(***************************************************************************)
LEMMA CoroKeeps == CoroAt /\ [Next]_vars => CoroAt'
<1> SUFFICES ASSUME CoroAt, [Next]_vars
             PROVE  CoroAt'
  OBVIOUS
<1> USE DEF CoroAt, Row, RowWith, CW, Coro, Try, Create, Destroy, Free
<1>1. CASE UcpContext
  <2>1. CASE Create("UcpContext", "config", "ucp_init", "ucp_init")
    BY <1>1, <2>1 DEF UcpContext
  <2>2. CASE Create("ucp_init", "context", "release_config", "context_failed")
    BY <1>1, <2>2 DEF UcpContext
  <2>3. CASE Destroy("context_failed", "context", "terminated")
    BY <1>1, <2>3 DEF UcpContext
  <2>4. CASE Destroy("release_config", "config", "UcpWorker")
    BY <1>1, <2>4 DEF UcpContext
  <2> QED BY <1>1, <2>1, <2>2, <2>3, <2>4 DEF UcpContext
<1>2. CASE UcpWorker
  BY <1>2 DEF UcpWorker
<1>3. CASE getenv_or_throw \/ UcpEndPoint \/ start_client_worker \/ err_handler
  BY <1>3 DEF getenv_or_throw, UcpEndPoint, start_client_worker, err_handler
<1>4. CASE UcpListener
  <2>1. CASE Create("UcpListener", "listener", "ucp_listener_query", "terminated")
    BY <1>4, <2>1 DEF UcpListener
  <2>2. CASE Try("ucp_listener_query", "start_server_accepts", "listener_failed")
    BY <1>4, <2>2 DEF UcpListener
  <2>3. CASE Destroy("listener_failed", "listener", "terminated")
    BY <1>4, <2>3 DEF UcpListener
  <2> QED BY <1>4, <2>1, <2>2, <2>3 DEF UcpListener
<1>5. CASE start_server
  <2>1. CASE Create("start_server_accepts", "ep", "start_server_receives", "stuck")
    BY <1>5, <2>1 DEF start_server
  <2>2. CASE \/ Try("start_server_receives", "frame_ends", "exited")
             \/ Try("start_server_receives", "frame_ends", "terminated")
    BY <1>5, <2>2 DEF start_server
  <2>3. CASE Destroy("frame_ends", "ep", "destroy_listener")
    BY <1>5, <2>3 DEF start_server
  <2> QED BY <1>5, <2>1, <2>2, <2>3 DEF start_server
<1>6. CASE main_returns
  BY <1>6 DEF main_returns
<1>7. CASE \/ cs_init_context \/ cs_start_server \/ run_server \/ run_client
           \/ client_server_do_work \/ cs_main_cleanup
  BY <1>7 DEF Cs, cs_init_context, cs_start_server, run_server, run_client, cs_main_cleanup,
              client_server_do_work, buffer_malloc, fill_request_param, post, request_wait,
              request_finalize, register_fin
<1>8. CASE \/ hello_main_init \/ hello_main_exchange \/ run_ucx_client \/ run_ucx_server
           \/ run_ucx_returns \/ hello_main_cleanup
  BY <1>8 DEF Hello, hello_main_init, hello_main_exchange, run_ucx_client, run_ucx_server,
              run_ucx_returns, hello_main_cleanup
<1>9. CASE UNCHANGED vars
  BY <1>9 DEF vars
<1> QED BY <1>1, <1>2, <1>3, <1>4, <1>5, <1>6, <1>7, <1>8, <1>9 DEF Next

(***************************************************************************)
(* ucp_hello_world keeps to its own.                                       *)
(***************************************************************************)
LEMMA HelloKeeps == HelloAt /\ [Next]_vars => HelloAt'
<1> SUFFICES ASSUME HelloAt, [Next]_vars
             PROVE  HelloAt'
  OBVIOUS
<1> USE DEF HelloAt, Row, RowWith, CW, Behind, Cleanup, Hello, Try, Create, Destroy, Free
<1>1. CASE hello_main_init
  <2>1. CASE Try("parse_cmd", "ucp_config_read", "exit")
    BY <1>1, <2>1 DEF hello_main_init
  <2>2. CASE Create("ucp_config_read", "config", "ucp_init", "exit")
    BY <1>1, <2>2 DEF hello_main_init
  <2>3. CASE Create("ucp_init", "context", "ucp_config_release", "no_context")
    BY <1>1, <2>3 DEF hello_main_init
  <2>4. CASE Destroy("ucp_config_release", "config", "ucp_worker_create")
    BY <1>1, <2>4 DEF hello_main_init
  <2>5. CASE Destroy("no_context", "config", "exit")
    BY <1>1, <2>5 DEF hello_main_init
  <2>6. CASE Create("ucp_worker_create", "worker", "ucp_worker_query", "hello_context")
    BY <1>1, <2>6 DEF hello_main_init
  <2>7. CASE Create("ucp_worker_query", "address", "connect_common", "hello_worker")
    BY <1>1, <2>7 DEF hello_main_init
  <2> QED BY <1>1, <2>1, <2>2, <2>3, <2>4, <2>5, <2>6, <2>7 DEF hello_main_init
<1>2. CASE hello_main_exchange
  BY <1>2 DEF hello_main_exchange
<1>3. CASE run_ucx_client
  BY <1>3 DEF run_ucx_client
<1>4. CASE run_ucx_server
  BY <1>4 DEF run_ucx_server
<1>5. CASE run_ucx_returns
  <2>1. CASE Free("free_msg", "msg", "ep_close")
    BY <1>5, <2>1 DEF run_ucx_returns
  <2>2. CASE Destroy("ep_close", "ep", "close_sock")
    BY <1>5, <2>2 DEF run_ucx_returns
  <2> QED BY <1>5, <2>1, <2>2 DEF run_ucx_returns
<1>6. CASE hello_main_cleanup
  <2>1. CASE Destroy("close_sock", "oob_sock", "err_peer_addr")
    BY <1>6, <2>1 DEF hello_main_cleanup
  <2>2. CASE Free("err_peer_addr", "peer_addr", "err_addr")
    BY <1>6, <2>2 DEF hello_main_cleanup
  <2>3. CASE Destroy("err_addr", "address", "hello_worker")
    BY <1>6, <2>3 DEF hello_main_cleanup
  <2>4. CASE Destroy("hello_worker", "worker", "hello_context")
    BY <1>6, <2>4 DEF hello_main_cleanup
  <2>5. CASE Destroy("hello_context", "context", "exit")
    BY <1>6, <2>5 DEF hello_main_cleanup
  <2> QED BY <1>6, <2>1, <2>2, <2>3, <2>4, <2>5 DEF hello_main_cleanup
<1>7. CASE \/ cs_init_context \/ cs_start_server \/ run_server \/ run_client
           \/ client_server_do_work \/ cs_main_cleanup
  BY <1>7 DEF Cs, cs_init_context, cs_start_server, run_server, run_client, cs_main_cleanup,
              client_server_do_work, buffer_malloc, fill_request_param, post, request_wait,
              request_finalize, register_fin
<1>8. CASE \/ program \in Coro /\ (UcpContext \/ UcpWorker)
           \/ getenv_or_throw \/ UcpListener \/ UcpEndPoint
           \/ start_server \/ start_client_worker \/ err_handler \/ main_returns
  BY <1>8 DEF Coro, getenv_or_throw, UcpListener, UcpEndPoint, start_server,
              start_client_worker, err_handler, main_returns
<1>9. CASE UNCHANGED vars
  BY <1>9 DEF vars
<1> QED BY <1>1, <1>2, <1>3, <1>4, <1>5, <1>6, <1>7, <1>8, <1>9 DEF Next

(***************************************************************************)
(* The table is inductive.                                                 *)
(***************************************************************************)
LEMMA LifeInvHolds == Spec => []LifeInv
<1>1. Init => LifeInv
  BY LifetimesAssumption DEF Init, LifeInv, CsAt, CoroAt, HelloAt, Row, Cs, Coro, Hello, Cleanup
<1>2. LifeInv /\ BufferInv /\ [Next]_vars => LifeInv'
  BY CsKeeps, CoroKeeps, HelloKeeps DEF LifeInv
<1> QED BY <1>1, <1>2, BufferInvHolds, PTL DEF Spec

(***************************************************************************)
(* Types, and no operation outlives its process (the last call of each     *)
(* program that posts one is request_wait).                                *)
(***************************************************************************)
THEOREM TypeCorrect == Spec => []TypeOK
<1> DEFINE Typed == /\ program \in Programs /\ pending \in BOOLEAN /\ fin \in BOOLEAN
                    /\ failed \in BOOLEAN /\ misused \in BOOLEAN
<1>1. Init => Typed
  BY DEF Init
<1>2. Typed /\ [Next]_vars => Typed'
  <2> SUFFICES ASSUME Typed, [Next]_vars PROVE Typed'
    OBVIOUS
  <2> USE DEF Try, Create, Destroy, Free, workVars
  <2>1. CASE cs_init_context \/ cs_start_server \/ run_server \/ run_client \/ cs_main_cleanup
    BY <2>1 DEF cs_init_context, cs_start_server, run_server, run_client, cs_main_cleanup
  <2>2. CASE client_server_do_work
    BY <2>2 DEF client_server_do_work, buffer_malloc, fill_request_param, post, request_wait,
                request_finalize, register_fin, buffer_free
  <2>3. CASE \/ UcpContext \/ UcpWorker \/ getenv_or_throw \/ UcpListener \/ UcpEndPoint
             \/ start_server \/ start_client_worker \/ err_handler \/ main_returns
    BY <2>3 DEF UcpContext, UcpWorker, getenv_or_throw, UcpListener, UcpEndPoint, start_server,
                start_client_worker, err_handler, main_returns
  <2>4. CASE \/ hello_main_init \/ hello_main_exchange \/ run_ucx_client \/ run_ucx_server
             \/ run_ucx_returns \/ hello_main_cleanup
    BY <2>4 DEF hello_main_init, hello_main_exchange, run_ucx_client, run_ucx_server,
                run_ucx_returns, hello_main_cleanup
  <2>5. CASE UNCHANGED vars
    BY <2>5 DEF vars
  <2> QED BY <2>1, <2>2, <2>3, <2>4, <2>5 DEF Next
<1>3. Typed /\ LifeInv /\ BufferInv => TypeOK
  <2> SUFFICES ASSUME Typed, LifeInv, BufferInv PROVE TypeOK
    OBVIOUS
  <2>1. live \subseteq Objects
    <3>1. CASE CsAt
      BY <3>1 DEF CsAt, Row, CW, Objects
    <3>2. CASE CoroAt
      BY <3>2 DEF CoroAt, Row, RowWith, CW, Objects
    <3>3. CASE HelloAt
      BY <3>3 DEF HelloAt, Row, RowWith, CW, Objects, Behind
    <3> QED BY <3>1, <3>2, <3>3 DEF LifeInv
  <2>2. at \in Calls \cup Ends
    <3>1. CASE CsAt
      BY <3>1 DEF CsAt, Row, AtWork, Calls, Ends
    <3>2. CASE CoroAt
      BY <3>2 DEF CoroAt, Row, RowWith, Calls, Ends
    <3>3. CASE HelloAt
      BY <3>3 DEF HelloAt, Row, RowWith, Calls, Ends
    <3> QED BY <3>1, <3>2, <3>3 DEF LifeInv
  <2>3. buffers \subseteq 1..IovCnt
    <3>1. CASE at = "do_work"
      <4>1. PICK k \in 0..IovCnt-1 : buffers = 1..k
        BY <3>1 DEF BufferInv
      <4> QED BY <4>1, LifetimesAssumption
    <3>2. CASE at # "do_work"
      BY <3>2 DEF BufferInv, AtWork
    <3> QED BY <3>1, <3>2
  <2>4. at \in Ends => ~pending
    BY DEF BufferInv, Ends
  <2> QED BY <2>1, <2>2, <2>3, <2>4 DEF TypeOK
<1> QED BY <1>1, <1>2, <1>3, LifeInvHolds, BufferInvHolds, PTL DEF Spec

(***************************************************************************)
(* No context or worker goes before what was made from it.                 *)
(***************************************************************************)
THEOREM ParentsAreLive == Spec => []ParentsOutlive
<1>1. LifeInv => ParentsOutlive
  <2> SUFFICES ASSUME LifeInv PROVE ParentsOutlive
    OBVIOUS
  <2>1. CASE CsAt
    BY <2>1 DEF CsAt, Row, CW, Cs, ParentsOutlive, Parent
  <2>2. CASE CoroAt
    BY <2>2 DEF CoroAt, Row, RowWith, CW, Coro, ParentsOutlive, Parent
  <2>3. CASE HelloAt
    BY <2>3 DEF HelloAt, Row, RowWith, CW, Hello, Behind, ParentsOutlive, Parent
  <2> QED BY <2>1, <2>2, <2>3 DEF LifeInv
<1> QED BY <1>1, LifeInvHolds, PTL

(***************************************************************************)
(* The C programs never give back what they do not have.                   *)
(***************************************************************************)
THEOREM MisuseFollowsFailure == Spec => []MisuseOnlyAfterFailure
<1>1. LifeInv => MisuseOnlyAfterFailure
  BY DEF LifeInv, CsAt, CoroAt, HelloAt, MisuseOnlyAfterFailure
<1> QED BY <1>1, LifeInvHolds, PTL

(***************************************************************************)
(* What is left behind is the row of the end the process came to: of a     *)
(* main that returned, of the exit(1) below main, of an exception, of a    *)
(* main that polls for ever.                                               *)
(***************************************************************************)
THEOREM LittleLeft == Spec => []NothingLeft
<1>1. LifeInv /\ BufferInv => NothingLeft
  <2> SUFFICES ASSUME LifeInv, BufferInv, at \in Ends PROVE NothingLeft
    BY DEF NothingLeft
  <2>1. buffers = {}
    BY DEF BufferInv, AtWork, Ends
  <2>2. CASE CsAt
    BY <2>1, <2>2 DEF CsAt, Row, Cs, Coro, Hello, AtWork, Ends, NothingLeft
  <2>3. CASE CoroAt
    BY <2>1, <2>3 DEF CoroAt, Row, RowWith, CW, Cs, Coro, Hello, Ends, NothingLeft
  <2>4. CASE HelloAt
    BY <2>1, <2>4 DEF HelloAt, Row, RowWith, Cs, Coro, Hello, Behind, Cleanup, Ends, NothingLeft
  <2> QED BY <2>2, <2>3, <2>4 DEF LifeInv
<1> QED BY <1>1, LifeInvHolds, BufferInvHolds, PTL
=============================================================================
