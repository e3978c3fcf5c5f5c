----------------------------- MODULE HelloWorld -----------------------------
(***************************************************************************)
(* ucp_hello_world.c: a client and a server exchange worker addresses over *)
(* a TCP socket (out of band), then one tagged message each way over UCX:  *)
(* the client's address, the server's test string.                         *)
(*                                                                         *)
(* The -e option kills one of the two at a chosen point, and selects the   *)
(* error handling mode in which UCX detects the loss of a peer.  The       *)
(* client waits for the string by polling, or asleep on the worker's file  *)
(* descriptor (-w, -f).                                                    *)
(*                                                                         *)
(* Whatever a library call may report, it may report only in a "faulty"    *)
(* run; refused connections, closed sockets and lost peers are real.       *)
(***************************************************************************)
EXTENDS Naturals, Sequences

CONSTANTS
  TestModes,      \* ucp_test_mode: subset of {"probe", "wait", "eventfd"}
  FailureModes,   \* failure_mode: subset of {"none", "send", "recv", "keepalive"}
  Rndvs,          \* is the test string long enough for the rendezvous protocol?
  Faults          \* may library calls fail?

ASSUME HelloAssumption ==
  /\ TestModes \subseteq {"probe", "wait", "eventfd"}
  /\ FailureModes \subseteq {"none", "send", "recv", "keepalive"}
  /\ Rndvs \subseteq BOOLEAN /\ Faults \subseteq BOOLEAN

Procs == {"client", "server"}
Peer(p) == IF p = "client" THEN "server" ELSE "client"

VARIABLES
  test_mode, failure_mode, rndv, faulty,  \* chosen once
  step,       \* where each process is
  ret,        \* what its main will return
  oob_sock,   \* its end of the TCP connection
  inbox,      \* what its end has to read
  worker,
  ep,
  ep_status,  \* what failure_handler wrote
  req,        \* the request ucx_wait waits for
  msg,        \* the tagged message on its way to each process
  loss,       \* UCX's detection of the loss of the peer, per process
  efd         \* the client's worker file descriptor

options == <<test_mode, failure_mode, rndv, faulty>>
oobVars == <<oob_sock, inbox>>
ucxVars == <<worker, ep, ep_status, req, msg, loss, efd>>
vars == <<options, step, ret, oobVars, ucxVars>>

\* Loops of ucx_wait, run_ucx_server, flush_ep, ep_close and barrier: all call
\* ucp_worker_progress until what they wait for is there.
Spinning ==
  {"sending", "receiving", "probing", "await_handler", "flush", "ep_close", "barrier"}
Steps ==
  {"init", "connect", "exchange", "create_ep", "probe", "progress", "arm", "asleep",
   "leave", "cleanup", "ended", "killed"} \cup Spinning

TypeOK ==
  /\ test_mode \in TestModes /\ failure_mode \in FailureModes
  /\ rndv \in Rndvs /\ faulty \in Faults
  /\ step \in [Procs -> Steps]
  /\ ret \in [Procs -> {"zero", "nonzero"}]
  /\ oob_sock \in [Procs -> {"none", "open", "closed"}]
  /\ \A p \in Procs : inbox[p] \in Seq({"length", "address", "dummy"}) /\ Len(inbox[p]) <= 2
  /\ worker \in [Procs -> {"none", "live", "gone"}]
  /\ ep \in [Procs -> {"none", "open", "closed"}]
  /\ ep_status \in [Procs -> {"ok", "lost"}]
  /\ req \in [Procs -> {"none", "send", "recv", "ok", "error"}]
  /\ msg \in [Procs -> {"none", "posted", "left", "arrived", "unexpected", "taken"}]
  /\ loss \in [Procs -> {"none", "pending", "handled"}]
  /\ efd \in {"idle", "armed", "signaled"}

Init ==
  /\ test_mode \in TestModes /\ failure_mode \in FailureModes
  /\ rndv \in Rndvs /\ faulty \in Faults
  /\ step = [p \in Procs |-> "init"]
  /\ ret = [p \in Procs |-> "nonzero"]
  /\ oob_sock = [p \in Procs |-> "none"]
  /\ inbox = [p \in Procs |-> << >>]
  /\ worker = [p \in Procs |-> "none"]
  /\ ep = [p \in Procs |-> "none"]
  /\ ep_status = [p \in Procs |-> "ok"]
  /\ req = [p \in Procs |-> "none"]
  /\ msg = [p \in Procs |-> "none"]
  /\ loss = [p \in Procs |-> "none"]
  /\ efd = "idle"

\* -e also selects UCP_ERR_HANDLING_MODE_PEER.
PeerMode == failure_mode # "none"

GoTo(p, s) == step' = [step EXCEPT ![p] = s]
Return(p, s, r) == GoTo(p, s) /\ ret' = [ret EXCEPT ![p] = r]

\* SIGKILL, or SIGPIPE: the kernel closes what the process had open.
Dies(p) ==
  /\ GoTo(p, "killed")
  /\ oob_sock' = [oob_sock EXCEPT ![p] = "closed"]
  /\ worker' = [worker EXCEPT ![p] = "gone"]
  /\ ep' = [ep EXCEPT ![p] = IF @ = "open" THEN "closed" ELSE @]

-----------------------------------------------------------------------------
(* UCX.                                                                    *)

\* An event on an armed worker makes its descriptor readable.
Event(p) == efd' = IF p = "client" /\ efd = "armed" THEN "signaled" ELSE efd

\* The posted message leaves its sender.
transmit(p) ==
  /\ msg[p] = "posted"
  /\ msg' = [msg EXCEPT ![p] = "left"]
  /\ UNCHANGED <<options, step, ret, oobVars, worker, ep, ep_status, req, loss, efd>>

\* It reaches the worker of its receiver, the sender dead or alive.
arrive(p) ==
  /\ msg[p] = "left" /\ worker[p] = "live"
  /\ msg' = [msg EXCEPT ![p] = "arrived"]
  /\ Event(p)
  /\ UNCHANGED <<options, step, ret, oobVars, worker, ep, ep_status, req, loss>>

\* The transport or the keepalive timer finds the peer gone.
detect(p) ==
  /\ PeerMode
  /\ ep[p] = "open" /\ loss[p] = "none"
  /\ worker[Peer(p)] = "gone" \/ ep[Peer(p)] = "closed"
  /\ loss' = [loss EXCEPT ![p] = "pending"]
  /\ Event(p)
  /\ UNCHANGED <<options, step, ret, oobVars, worker, ep, ep_status, req, msg>>

\* UCX's own traffic wakes the worker as well.
other_event ==
  /\ efd = "armed"
  /\ efd' = "signaled"
  /\ UNCHANGED <<options, step, ret, oobVars, worker, ep, ep_status, req, msg, loss>>

\* A call fails for a reason of its own.
request_fails(p) ==
  /\ faulty
  /\ req[p] \in {"send", "recv"}
  /\ req' = [req EXCEPT ![p] = "error"]
  /\ msg' = [q \in Procs |-> IF q = Peer(p) /\ msg[q] = "posted" THEN "none" ELSE msg[q]]
  /\ UNCHANGED <<options, step, ret, oobVars, worker, ep, ep_status, loss, efd>>

\* What one call of ucp_worker_progress may find to do.
FoundMessage(p) ==
  /\ msg[p] = "arrived"
  /\ msg' = [msg EXCEPT ![p] = "unexpected"]
  /\ UNCHANGED <<ep_status, req, loss>>

\* Faulty variant: the status is not written.
failure_handler_prints(p) == UNCHANGED ep_status

\* UCX passes user_data, which is &ep_status.
failure_handler(p) == ep_status' = [ep_status EXCEPT ![p] = "lost"]

FoundLoss(p) ==
  /\ loss[p] = "pending" /\ ep[p] = "open"
  /\ failure_handler(p)
  /\ loss' = [loss EXCEPT ![p] = "handled"]
  /\ req' = [req EXCEPT ![p] = IF @ \in {"send", "recv"} THEN "error" ELSE @]
  /\ UNCHANGED msg

\* send_handler: an eager send ends once it left, a rendezvous send when the
\* receiver has the data.  The address message is always eager.
FoundSent(p) ==
  /\ req[p] = "send"
  /\ \/ msg[Peer(p)] = "taken"
     \/ msg[Peer(p)] \in {"left", "arrived", "unexpected"} /\ ~(rndv /\ p = "server")
  /\ req' = [req EXCEPT ![p] = "ok"]
  /\ UNCHANGED <<ep_status, msg, loss>>

\* recv_handler: the data of a rendezvous message is fetched from its sender.
FoundReceived(p) ==
  /\ req[p] = "recv"
  /\ rndv /\ p = "client" => worker["server"] = "live"
  /\ msg' = [msg EXCEPT ![p] = "taken"]
  /\ req' = [req EXCEPT ![p] = "ok"]
  /\ UNCHANGED <<ep_status, loss>>

Found(p) == FoundMessage(p) \/ FoundLoss(p) \/ FoundSent(p) \/ FoundReceived(p)
Pending(p) == msg[p] = "arrived" \/ (loss[p] = "pending" /\ ep[p] = "open")

\* ucp_worker_progress in a loop that ignores what it returns.
progress_worker(p) ==
  /\ step[p] \in Spinning
  /\ Found(p)
  /\ UNCHANGED <<options, step, ret, oobVars, worker, ep, efd>>

-----------------------------------------------------------------------------
(* Setup and out-of-band exchange.                                         *)

\* UCP initialization; on failure everything is released again.
main_init(p) ==
  /\ step[p] = "init"
  /\ \/ GoTo(p, "connect") /\ worker' = [worker EXCEPT ![p] = "live"]
     \/ faulty /\ GoTo(p, "ended") /\ UNCHANGED worker
  /\ UNCHANGED <<options, ret, oobVars, ep, ep_status, req, msg, loss, efd>>

\* connect_common on both sides: accept takes the connection and stops listening.
connect_common ==
  /\ step["server"] = "connect" /\ step["client"] = "connect"
  /\ step' = [p \in Procs |-> "exchange"]
  /\ oob_sock' = [p \in Procs |-> "open"]
  /\ UNCHANGED <<options, ret, inbox, ucxVars>>

\* The client finds nobody listening; any other failure is a fault.
connect_common_fails(p) ==
  /\ step[p] = "connect"
  /\ faulty \/ (p = "client" /\ step["server"] # "connect")
  /\ GoTo(p, "cleanup")
  /\ UNCHANGED <<options, ret, oobVars, ucxVars>>

\* The server sends its address length and its address.
server_sends_address ==
  /\ step["server"] = "exchange"
  /\ \/ GoTo("server", "probing") /\ inbox' = [inbox EXCEPT !["client"] = <<"length", "address">>]
     \/ \E sent \in {<< >>, <<"length">>} :
          /\ faulty \/ oob_sock["client"] = "closed"
          /\ inbox' = [inbox EXCEPT !["client"] = sent]
          /\ GoTo("server", "cleanup")
  /\ UNCHANGED <<options, ret, oob_sock, ucxVars>>

\* Faulty variant: recv leaves the bytes in the socket.
client_peeks_address ==
  /\ step["client"] = "exchange"
  /\ inbox["client"] = <<"length", "address">>
  /\ GoTo("client", "create_ep")
  /\ UNCHANGED <<options, ret, oobVars, ucxVars>>

client_receives_address ==
  /\ step["client"] = "exchange"
  /\ inbox["client"] = <<"length", "address">>
  /\ inbox' = [inbox EXCEPT !["client"] = << >>]
  /\ GoTo("client", "create_ep")
  /\ UNCHANGED <<options, ret, oob_sock, ucxVars>>

\* recv on a socket the server closed returns 0, and main returns what recv did.
client_receives_eof ==
  /\ step["client"] = "exchange"
  /\ oob_sock["server"] = "closed" /\ Len(inbox["client"]) < 2
  /\ \E r \in {"zero", "nonzero"} : Return("client", "cleanup", r)
  /\ UNCHANGED <<options, oobVars, ucxVars>>

\* ret is nonzero after a recv, too, whose successor malloc fails.
client_exchange_fails ==
  /\ step["client"] = "exchange" /\ faulty
  /\ GoTo("client", "cleanup")
  /\ UNCHANGED <<options, ret, oobVars, ucxVars>>

-----------------------------------------------------------------------------
(* run_ucx_client and run_ucx_server.                                      *)

\* ucp_ep_create and ucp_tag_send_nbx of the process's one message.
PostsSend(p) ==
  /\ ep' = [ep EXCEPT ![p] = "open"]
  /\ msg' = [msg EXCEPT ![Peer(p)] = "posted"]
  /\ req' = [req EXCEPT ![p] = "send"]
  /\ GoTo(p, "sending")

\* ucp_ep_create fails; with -e the server counts it as a success.
create_ep_fails(p) ==
  /\ step[p] = "create_ep"
  /\ faulty \/ (PeerMode /\ worker[Peer(p)] = "gone")
  /\ Return(p, "leave", IF PeerMode /\ p = "server" THEN "zero" ELSE "nonzero")
  /\ UNCHANGED <<options, oobVars, ucxVars>>

\* Allocations of the message to send, the one to receive, and the server's
\* copy of the client's address.
allocation_fails(p) ==
  /\ faulty
  /\ \/ step[p] = "create_ep" /\ ep' = [ep EXCEPT ![p] = "open"] /\ Return(p, "ep_close", "nonzero")
     \/ p = "client" /\ step[p] = "receiving" /\ req[p] = "none"
        /\ UNCHANGED ep /\ Return(p, "ep_close", "nonzero")
     \/ p = "server" /\ (step[p] = "create_ep" \/ (step[p] = "receiving" /\ req[p] = "none"))
        /\ UNCHANGED ep /\ Return(p, "leave", "nonzero")
  /\ UNCHANGED <<options, oobVars, worker, ep_status, req, msg, loss, efd>>

create_ep(p) ==
  /\ step[p] = "create_ep"
  /\ PostsSend(p)
  /\ UNCHANGED <<options, ret, oobVars, worker, ep_status, loss, efd>>

\* ucx_wait returns for the address message; -e recv kills the client.
client_sent(c) ==
  /\ c = "client" /\ step[c] = "sending"
  /\ req[c] \in {"ok", "error"}
  /\ req' = [req EXCEPT ![c] = "none"]
  /\ IF req[c] = "error" THEN Return(c, "ep_close", "nonzero") /\ UNCHANGED <<oob_sock, worker, ep>>
     ELSE IF failure_mode = "recv" THEN Dies(c) /\ UNCHANGED ret
     ELSE GoTo(c, "probe") /\ UNCHANGED <<ret, oob_sock, worker, ep>>
  /\ UNCHANGED <<options, inbox, ep_status, msg, loss, efd>>

\* The head of the client's loop: disconnected, a message, or on.  The probe
\* takes the message out of the queue; -e keepalive kills the client then.
client_probes(c) ==
  /\ c = "client" /\ step[c] = "probe"
  /\ IF ep_status[c] # "ok" THEN Return(c, "ep_close", "nonzero") /\ UNCHANGED <<oob_sock, worker, ep>>
     ELSE IF msg[c] # "unexpected" THEN GoTo(c, "progress") /\ UNCHANGED <<ret, oob_sock, worker, ep>>
     ELSE IF failure_mode = "keepalive" THEN Dies(c) /\ UNCHANGED ret
     ELSE GoTo(c, "receiving") /\ UNCHANGED <<ret, oob_sock, worker, ep>>
  /\ UNCHANGED <<options, inbox, ep_status, req, msg, loss, efd>>

\* Faulty variant: what progress returned is ignored.
client_progress_once ==
  /\ step["client"] = "progress"
  /\ GoTo("client", "arm")
  /\ (FoundMessage("client") \/ FoundLoss("client"))
     \/ (~Pending("client") /\ UNCHANGED <<ep_status, req, msg, loss>>)
  /\ UNCHANGED <<options, ret, oobVars, worker, ep, efd>>

\* ucp_worker_progress returned nonzero: probe again; zero: go to sleep.
client_progress ==
  /\ step["client"] = "progress"
  /\ \/ GoTo("client", "probe") /\ (FoundMessage("client") \/ FoundLoss("client"))
     \/ /\ ~Pending("client")
        /\ GoTo("client", IF test_mode = "probe" THEN "probe" ELSE "arm")
        /\ UNCHANGED <<ep_status, req, msg, loss>>
  /\ UNCHANGED <<options, ret, oobVars, worker, ep, efd>>

\* Faulty variant: epoll_wait without ucp_worker_arm's answer.
sleep_unasked ==
  /\ step["client"] = "arm"
  /\ GoTo("client", "asleep") /\ efd' = "armed"
  /\ UNCHANGED <<options, ret, oobVars, worker, ep, ep_status, req, msg, loss>>

\* ucp_worker_arm, in test_poll_wait or inside ucp_worker_wait: BUSY returns
\* to the loop, any other error leaves it.
test_poll_wait ==
  /\ step["client"] = "arm"
  /\ \/ Pending("client") /\ GoTo("client", "probe") /\ UNCHANGED <<ret, efd>>
     \/ ~Pending("client") /\ GoTo("client", "asleep") /\ efd' = "armed" /\ UNCHANGED ret
     \/ faulty /\ Return("client", "ep_close", "nonzero") /\ UNCHANGED efd
  /\ UNCHANGED <<options, oobVars, worker, ep, ep_status, req, msg, loss>>

\* epoll_wait returns.
client_wakes ==
  /\ step["client"] = "asleep" /\ efd = "signaled"
  /\ GoTo("client", "probe") /\ efd' = "idle"
  /\ UNCHANGED <<options, ret, oobVars, worker, ep, ep_status, req, msg, loss>>

\* The server's loop ends when it probes a message.
server_probes ==
  /\ step["server"] = "probing" /\ msg["server"] = "unexpected"
  /\ GoTo("server", "receiving")
  /\ UNCHANGED <<options, ret, oobVars, ucxVars>>

\* ucp_tag_msg_recv_nbx.
posts_receive(p) ==
  /\ step[p] = "receiving" /\ req[p] = "none"
  /\ req' = [req EXCEPT ![p] = "recv"]
  /\ UNCHANGED <<options, step, ret, oobVars, worker, ep, ep_status, msg, loss, efd>>

\* The string is received; the calloc that prints it may still fail.
client_received ==
  /\ step["client"] = "receiving" /\ req["client"] \in {"ok", "error"}
  /\ req' = [req EXCEPT !["client"] = "none"]
  /\ \/ req["client"] = "ok" /\ Return("client", "ep_close", "zero")
     \/ (req["client"] = "error" \/ faulty) /\ Return("client", "ep_close", "nonzero")
  /\ UNCHANGED <<options, oobVars, worker, ep, ep_status, msg, loss, efd>>

\* -e send kills the server once it has the client's address.
server_received ==
  /\ step["server"] = "receiving" /\ req["server"] \in {"ok", "error"}
  /\ req' = [req EXCEPT !["server"] = "none"]
  /\ IF req["server"] = "error" THEN GoTo("server", "leave") /\ UNCHANGED <<oob_sock, worker, ep>>
     ELSE IF failure_mode = "send" THEN Dies("server")
     ELSE GoTo("server", "create_ep") /\ UNCHANGED <<oob_sock, worker, ep>>
  /\ UNCHANGED <<options, ret, inbox, ep_status, msg, loss, efd>>

\* ucx_wait returns for the test string.  After an error the server returns
\* -1 under -e, and without it waits for failure_handler to return 0.
server_sent ==
  /\ step["server"] = "sending" /\ req["server"] \in {"ok", "error"}
  /\ req' = [req EXCEPT !["server"] = "none"]
  /\ IF req["server"] = "error"
     THEN IF PeerMode THEN Return("server", "ep_close", "nonzero")
          ELSE Return("server", "await_handler", "zero")
     ELSE IF failure_mode = "keepalive" THEN Return("server", "await_handler", "zero")
     ELSE Return("server", "flush", "zero")
  /\ UNCHANGED <<options, oobVars, worker, ep, ep_status, msg, loss, efd>>

\* failure_handler ran: the loop without -e closes, the one of -e keepalive flushes.
server_handler_ran ==
  /\ step["server"] = "await_handler" /\ ep_status["server"] # "ok"
  /\ GoTo("server", IF PeerMode THEN "flush" ELSE "ep_close")
  /\ UNCHANGED <<options, ret, oobVars, ucxVars>>

\* What p sent is delivered, or never will be.
Flushed(p) == msg[Peer(p)] \notin {"posted", "left"} \/ ep_status[p] # "ok"

\* flush_ep; its status is only printed.
flush_ep ==
  /\ step["server"] = "flush" /\ Flushed("server")
  /\ GoTo("server", "ep_close")
  /\ UNCHANGED <<options, ret, oobVars, ucxVars>>

-----------------------------------------------------------------------------
(* Disconnecting.                                                          *)

\* ep_close_err_mode: forced under -e; otherwise the two workers flush and
\* disconnect, which takes the peer's.
ep_close_err_mode(p) ==
  /\ step[p] = "ep_close"
  /\ PeerMode \/ (Flushed(p) /\ worker[Peer(p)] = "live")
  /\ ep' = [ep EXCEPT ![p] = "closed"]
  /\ GoTo(p, "leave")
  /\ UNCHANGED <<options, ret, oobVars, worker, ep_status, req, msg, loss, efd>>

\* Faulty variant: no barrier.
skip_barrier(p) ==
  /\ step[p] = "leave"
  /\ GoTo(p, "cleanup")
  /\ UNCHANGED <<options, ret, oobVars, ucxVars>>

\* main: only a run without failure takes part in the barrier, whose send to
\* a socket the peer closed goes nowhere, fails, or raises SIGPIPE.
main_leaves(p) ==
  /\ step[p] = "leave"
  /\ IF ret[p] = "nonzero" \/ PeerMode
     THEN GoTo(p, "cleanup") /\ UNCHANGED <<ret, oobVars, worker, ep>>
     ELSE \/ /\ GoTo(p, "barrier")
             /\ inbox' = [inbox EXCEPT ![Peer(p)] = Append(@, "dummy")]
             /\ UNCHANGED <<ret, oob_sock, worker, ep>>
          \/ /\ oob_sock[Peer(p)] = "closed"
             /\ Return(p, "cleanup", "nonzero")
             /\ UNCHANGED <<oobVars, worker, ep>>
          \/ /\ oob_sock[Peer(p)] = "closed"
             /\ Dies(p)
             /\ UNCHANGED <<ret, inbox>>
  /\ UNCHANGED <<options, ep_status, req, msg, loss, efd>>

\* Faulty variant: what recv returned is not looked at.
barrier_trusts(p) ==
  /\ step[p] = "barrier"
  /\ inbox[p] # << >> \/ oob_sock[Peer(p)] = "closed"
  /\ Return(p, "cleanup", "zero")
  /\ UNCHANGED <<options, oobVars, ucxVars>>

\* poll found something to read: the dummy, or that the peer closed.
barrier_ends(p) ==
  /\ step[p] = "barrier"
  /\ inbox[p] # << >> \/ oob_sock[Peer(p)] = "closed"
  /\ inbox' = [inbox EXCEPT ![p] = << >>]
  /\ Return(p, "cleanup", IF inbox[p] # << >> THEN "zero" ELSE "nonzero")
  /\ UNCHANGED <<options, oob_sock, ucxVars>>

\* The labels at the end of main.
main_cleanup(p) ==
  /\ step[p] = "cleanup"
  /\ GoTo(p, "ended")
  /\ oob_sock' = [oob_sock EXCEPT ![p] = "closed"]
  /\ worker' = [worker EXCEPT ![p] = "gone"]
  /\ UNCHANGED <<options, ret, inbox, ep, ep_status, req, msg, loss, efd>>

-----------------------------------------------------------------------------

ProcStep(p) ==
  \/ main_init(p) \/ connect_common_fails(p)
  \/ create_ep(p) \/ create_ep_fails(p) \/ allocation_fails(p)
  \/ client_sent(p) \/ client_probes(p) \/ posts_receive(p)
  \/ ep_close_err_mode(p) \/ main_leaves(p) \/ barrier_ends(p) \/ main_cleanup(p)

ClientStep ==
  \/ ProcStep("client")
  \/ client_receives_address \/ client_receives_eof \/ client_exchange_fails
  \/ client_progress \/ test_poll_wait \/ client_wakes \/ client_received

ServerStep ==
  \/ ProcStep("server")
  \/ connect_common \/ server_sends_address
  \/ server_probes \/ server_received \/ server_sent \/ server_handler_ran \/ flush_ep

Ucx(p) == transmit(p) \/ arrive(p) \/ detect(p)

Next ==
  \/ ClientStep \/ ServerStep \/ other_event
  \/ \E p \in Procs : Ucx(p) \/ progress_worker(p) \/ request_fails(p)

Spec == Init /\ [][Next]_vars

\* Both processes run; a loop that calls ucp_worker_progress finds what is
\* there to find; a message under way arrives and a lost peer is detected.
\* Nothing is fair about faults and UCX's own events.
FairSpec ==
  /\ Spec
  /\ WF_vars(ClientStep) /\ WF_vars(ServerStep)
  /\ \A p \in Procs :
       /\ WF_vars(progress_worker(p))
       /\ WF_vars(transmit(p)) /\ WF_vars(arrive(p)) /\ WF_vars(detect(p))

-----------------------------------------------------------------------------
(* Properties.                                                             *)

\* The client never sleeps on what it waits for: neither on a message it
\* could probe nor on a lost peer it knows of, and whatever the worker has
\* still to process has made the descriptor readable (the order of
\* ucp_worker_progress, ucp_worker_arm and epoll_wait in run_ucx_client).
NoLostWakeup ==
  step["client"] = "asleep" =>
    /\ msg["client"] # "unexpected" /\ ep_status["client"] = "ok"
    /\ Pending("client") => efd = "signaled"

\* "Make sure remote is disconnected before destroying local worker": a
\* process that ends well without -e leaves no endpoint to the worker it
\* destroyed (main's call of barrier).
RemoteDisconnected ==
  \A p \in Procs :
    failure_mode = "none" /\ ret[p] = "zero" /\ worker[p] = "gone" => ep[Peer(p)] # "open"

\* Without -e the exit status of either side tells of both: who ends well
\* after the address exchange knows that the client has the test string
\* (run_ucx_client's ret, main's barrier).
ZeroMeansDelivered ==
  \A p \in Procs :
    failure_mode = "none" /\ step[p] = "ended" /\ ret[p] = "zero" /\ ep[p] # "none" =>
      msg["client"] = "taken"

Over(p) == step[p] \in {"ended", "killed"}
Connected == \A p \in Procs : oob_sock[p] = "open"

\* -e: whichever side is killed, and wherever the other is then (waiting in a
\* loop, for a request, or asleep), the other comes to its end, told by
\* failure_handler.
SurvivorEnds ==
  PeerMode /\ ~faulty /\ Connected ~> \A p \in Procs : Over(p)

\* Without failures both sides end with 0 once connected, in every test mode
\* and with both protocols: nobody sleeps through the message, and nobody
\* takes away the worker the other needs for disconnecting.
BothEndWell ==
  ~PeerMode /\ ~faulty /\ Connected ~>
    \A p \in Procs : step[p] = "ended" /\ ret[p] = "zero"

\* "If peer failure testing was requested, set `ret = 0` to report success from
\* the application" (run_ucx_server, after a failed send): without other
\* faults the server of an -e run does not end with an error.
FailureTestSucceeds ==
  PeerMode /\ ~faulty /\ step["server"] = "ended" /\ oob_sock["server"] # "none" =>
    ret["server"] = "zero"
=============================================================================
