--------------------------- MODULE HelloWorld_proofs ---------------------------
(***************************************************************************)
(* What holds of ucp_hello_world under all of its options, with and        *)
(* without failing calls.                                                  *)
(***************************************************************************)
EXTENDS HelloWorld, TLAPS

-----------------------------------------------------------------------------
(* The inductive invariant.                                                *)

\* What one end of the socket may have to read.
Inboxes == {<< >>, <<"length">>, <<"length", "address">>, <<"dummy">>}

Typed ==
  /\ test_mode \in TestModes /\ failure_mode \in FailureModes
  /\ rndv \in Rndvs /\ faulty \in Faults
  /\ step \in [Procs -> Steps]
  /\ ret \in [Procs -> {"zero", "nonzero"}]
  /\ oob_sock \in [Procs -> {"none", "open", "closed"}]
  /\ inbox \in [Procs -> Inboxes]
  /\ worker \in [Procs -> {"none", "live", "gone"}]
  /\ ep \in [Procs -> {"none", "open", "closed"}]
  /\ ep_status \in [Procs -> {"ok", "lost"}]
  /\ req \in [Procs -> {"none", "send", "recv", "ok", "error"}]
  /\ msg \in [Procs -> {"none", "posted", "left", "arrived", "unexpected", "taken"}]
  /\ loss \in [Procs -> {"none", "pending", "handled"}]
  /\ efd \in {"idle", "armed", "signaled"}

\* Where a process has not sent its tagged message yet, where it has an
\* endpoint, and where it is done with the other's.
Unsent(p) ==
  step[p] \in {"init", "connect", "exchange", "create_ep"}
              \cup (IF p = "server" THEN {"probing", "receiving"} ELSE {})
HasEp(p) ==
  step[p] \in {"sending", "probe", "progress", "arm", "asleep", "await_handler", "flush",
               "ep_close"} \cup (IF p = "client" THEN {"receiving"} ELSE {})
Past(p) == step[p] \in {"barrier", "cleanup", "ended", "killed"}

\* From the probe that found nothing to the sleep.
ClientSleeps ==
  /\ step["client"] \in {"progress", "arm", "asleep"} =>
       msg["client"] # "unexpected" /\ ep_status["client"] = "ok"
  /\ step["client"] = "asleep" => efd # "idle" /\ (Pending("client") => efd = "signaled")

\* What a process holds, by where it is.
Holds(p) ==
  /\ Unsent(p) => ep[p] = "none" /\ ret[p] = "nonzero" /\ msg[Peer(p)] = "none"
  /\ ep[p] = "open" <=> HasEp(p)
  /\ worker[p] = "gone" \/ oob_sock[p] = "closed" => step[p] \in {"ended", "killed"}
  /\ req[p] = "send" => step[p] = "sending"
  /\ req[p] = "recv" => step[p] = "receiving"
  /\ req[p] # "none" => step[p] \in {"sending", "receiving"}
  /\ step[p] = "barrier" => ret[p] = "zero" /\ ~PeerMode

\* A server that went on has the client's message, hence the client its
\* addresses.
ServerHasMessage ==
  /\ step["server"] \in {"receiving", "create_ep", "sending", "await_handler", "flush"} =>
       msg["server"] \in {"unexpected", "taken"}
  /\ ret["server"] = "zero" => msg["server"] \in {"unexpected", "taken"}
  /\ msg["server"] # "none" => ep["client"] # "none"

\* What each socket holds tells where the other process is.
InboxInv ==
  /\ step["server"] = "exchange" =>
       /\ step["client"] \in {"exchange", "cleanup", "ended"} /\ ep["client"] = "none"
       /\ inbox["client"] = << >>
  /\ \/ inbox["client"] = << >>
     \/ inbox["client"] = <<"dummy">> /\ Past("server")
     \/ /\ inbox["client"] \in {<<"length">>, <<"length", "address">>}
        /\ step["client"] \in {"exchange", "cleanup", "ended"} /\ ep["client"] = "none"
  /\ inbox["server"] # << >> =>
       inbox["server"] = <<"dummy">> /\ Past("client") /\ msg["client"] = "taken"

\* The client's one receive, and what its exit status tells.
ClientReceives ==
  /\ step["client"] = "receiving" =>
       /\ msg["client"] \in {"unexpected", "taken"}
       /\ req["client"] = "ok" => msg["client"] = "taken"
  /\ ret["client"] = "zero" =>
       IF ep["client"] = "none" THEN step["client"] \in {"cleanup", "ended"}
                                ELSE msg["client"] = "taken"

\* Who ends with 0 has seen the other one past its endpoint.
ZeroAtEnd ==
  ~PeerMode =>
    /\ \A p \in Procs :
         step[p] \in {"cleanup", "ended", "killed"} /\ ret[p] = "zero" => Past(Peer(p))
    /\ step["server"] \in {"cleanup", "ended"} /\ ret["server"] = "zero" =>
         msg["client"] = "taken"

HelloInv ==
  /\ ClientSleeps /\ (\A p \in Procs : Holds(p)) /\ ServerHasMessage
  /\ InboxInv /\ ClientReceives /\ ZeroAtEnd

-----------------------------------------------------------------------------
(* Lemmas.                                                                 *)

(***************************************************************************)
(* The four contents differ, and the barrier's byte makes the fourth of    *)
(* the first.                                                              *)
(***************************************************************************)
LEMMA InboxFacts ==
  /\ << >> # <<"dummy">> /\ <<"length">> # << >> /\ <<"length", "address">> # << >>
  /\ <<"length", "address">> # <<"dummy">> /\ <<"length">> # <<"dummy">>
  /\ <<"length", "address">> # <<"length">>
  /\ Append(<< >>, "dummy") = <<"dummy">>
OBVIOUS

LEMMA PeerFacts ==
  /\ "client" \in Procs /\ "server" \in Procs
  /\ Peer("client") = "server" /\ Peer("server") = "client"
BY DEF Procs, Peer

(***************************************************************************)
(* Initially nothing is there.                                             *)
(***************************************************************************)
LEMMA InitHello == Init => Typed /\ HelloInv
<1> SUFFICES ASSUME Init PROVE Typed /\ HelloInv
  OBVIOUS
<1>1. Typed
  BY DEF Init, Typed, Inboxes, Steps, Spinning
<1>2. ClientSleeps /\ ServerHasMessage /\ InboxInv /\ ClientReceives /\ ZeroAtEnd
  BY PeerFacts DEF Init, ClientSleeps, ServerHasMessage, InboxInv, ClientReceives, ZeroAtEnd
<1>3. \A p \in Procs : Holds(p)
  BY PeerFacts DEF Init, Holds, HasEp, Procs
<1> QED BY <1>1, <1>2, <1>3 DEF HelloInv

(***************************************************************************)
(* What UCX does on its own.                                               *)
(***************************************************************************)
LEMMA UcxKeeps ==
  ASSUME Typed, HelloInv, NEW p \in Procs, Ucx(p) \/ request_fails(p) \/ other_event
  PROVE  Typed' /\ HelloInv'
<1> USE PeerFacts DEF Procs
<1>1. CASE transmit(p)
  <2>1. Typed'
    BY <1>1 DEF transmit, options, oobVars, Typed
  <2>2. ClientSleeps' /\ ServerHasMessage' /\ InboxInv' /\ ClientReceives' /\ ZeroAtEnd'
    BY <1>1 DEF transmit, options, oobVars, Typed, HelloInv, ClientSleeps, ServerHasMessage,
                InboxInv, ClientReceives, ZeroAtEnd, Pending, PeerMode, Past
  <2>3. \A q \in Procs : Holds(q)'
    BY <1>1 DEF transmit, options, oobVars, Typed, HelloInv, Holds, HasEp, Unsent, PeerMode
  <2> QED BY <2>1, <2>2, <2>3 DEF HelloInv
<1>2. CASE arrive(p)
  <2>1. Typed'
    BY <1>2 DEF arrive, Event, options, oobVars, Typed
  <2>2. ClientSleeps'
    BY <1>2 DEF arrive, Event, options, oobVars, Typed, HelloInv, ClientSleeps, Pending
  <2>3. ServerHasMessage' /\ InboxInv' /\ ClientReceives' /\ ZeroAtEnd'
    BY <1>2 DEF arrive, options, oobVars, Typed, HelloInv, ServerHasMessage,
                InboxInv, ClientReceives, ZeroAtEnd, PeerMode, Past
  <2>4. \A q \in Procs : Holds(q)'
    BY <1>2 DEF arrive, options, oobVars, Typed, HelloInv, Holds, HasEp, Unsent, PeerMode
  <2> QED BY <2>1, <2>2, <2>3, <2>4 DEF HelloInv
<1>3. CASE detect(p) \/ other_event
  <2>1. Typed'
    BY <1>3 DEF detect, other_event, Event, options, oobVars, Typed
  <2>2. ClientSleeps'
    BY <1>3 DEF detect, other_event, Event, options, oobVars, Typed, HelloInv, ClientSleeps, Pending
  <2>3. UNCHANGED <<options, step, ret, oobVars, worker, ep, ep_status, req, msg>>
    BY <1>3 DEF detect, other_event
  <2>4. ServerHasMessage' /\ InboxInv' /\ ClientReceives' /\ ZeroAtEnd'
    BY <2>3 DEF options, oobVars, HelloInv, ServerHasMessage, InboxInv, ClientReceives, ZeroAtEnd,
                PeerMode, Past
  <2>5. \A q \in Procs : Holds(q)'
    BY <2>3 DEF options, oobVars, HelloInv, Holds, HasEp, Unsent, PeerMode
  <2> QED BY <2>1, <2>2, <2>4, <2>5 DEF HelloInv
<1>4. CASE request_fails(p)
  <2>1. Typed'
    BY <1>4 DEF request_fails, options, oobVars, Typed
  <2>2. ClientSleeps' /\ ServerHasMessage' /\ InboxInv' /\ ClientReceives' /\ ZeroAtEnd'
    BY <1>4 DEF request_fails, options, oobVars, Typed, HelloInv, ClientSleeps, ServerHasMessage,
                InboxInv, ClientReceives, ZeroAtEnd, Pending, PeerMode, Past
  <2>3. \A q \in Procs : Holds(q)'
    BY <1>4 DEF request_fails, options, oobVars, Typed, HelloInv, Holds, HasEp, Unsent, PeerMode
  <2> QED BY <2>1, <2>2, <2>3 DEF HelloInv
<1> QED BY <1>1, <1>2, <1>3, <1>4 DEF Ucx

(***************************************************************************)
(* What a process finds when it spins in ucp_worker_progress.              *)
(***************************************************************************)
LEMMA ProgressKeeps ==
  ASSUME Typed, HelloInv, NEW p \in Procs, progress_worker(p)
  PROVE  Typed' /\ HelloInv'
<1> USE PeerFacts DEF Procs
<1>1. step[p] \in Spinning /\ UNCHANGED <<options, step, ret, oobVars, worker, ep, efd>>
  BY DEF progress_worker
<1>2. \A q \in Procs : Holds(q)
  BY DEF HelloInv
<1>3. Typed'
  BY <1>1 DEF progress_worker, Found, FoundMessage, FoundLoss, failure_handler, FoundSent,
              FoundReceived, options, oobVars, Typed
<1>4. ClientSleeps'
  BY <1>1 DEF progress_worker, Found, FoundMessage, FoundLoss, failure_handler, FoundSent,
              FoundReceived, Spinning, Typed, HelloInv, ClientSleeps, Pending
<1>5. ServerHasMessage' /\ InboxInv' /\ ZeroAtEnd'
  BY <1>1, <1>2
     DEF Holds, progress_worker, Found, FoundMessage, FoundLoss, failure_handler, FoundSent,
         FoundReceived, options, oobVars, Typed, HelloInv, ServerHasMessage, InboxInv,
              ZeroAtEnd, PeerMode, Past
<1>6. ClientReceives'
  BY <1>1, <1>2
     DEF Holds, progress_worker, Found, FoundMessage, FoundLoss, failure_handler, FoundSent,
         FoundReceived, Typed, HelloInv, ClientReceives
<1>7. \A q \in Procs : Holds(q)'
  <2>1. ClientReceives /\ ServerHasMessage
    BY DEF HelloInv
  <2>2. UNCHANGED <<options, step, ret, oob_sock, worker, ep>>
    BY <1>1 DEF oobVars
  <2>3. ASSUME NEW q \in Procs, Unsent(q) PROVE msg'[Peer(q)] = "none"
    <3>1. msg[Peer(q)] = "none" /\ (req[p] = "recv" => step[p] = "receiving")
      BY <1>2, <2>3 DEF Holds
    <3> QED BY <1>1, <2>1, <2>3, <3>1 DEF Unsent, ClientReceives, ServerHasMessage, progress_worker,
          Found, FoundMessage, FoundLoss, failure_handler, FoundSent, FoundReceived, Typed
  <2>4. \A q \in Procs : req'[q] = req[q] \/ (req[q] # "none" /\ req'[q] \in {"ok", "error"})
    BY <1>1 DEF progress_worker, Found, FoundMessage, FoundLoss, FoundSent, FoundReceived, Typed
  <2> QED BY <1>2, <2>2, <2>3, <2>4 DEF Holds, HasEp, Unsent, options, PeerMode
<1> QED BY <1>3, <1>4, <1>5, <1>6, <1>7 DEF HelloInv

(***************************************************************************)
(* Who is about to enter the barrier sends its byte to an empty socket.    *)
(***************************************************************************)
LEMMA BarrierByte ==
  ASSUME HelloInv, NEW p \in Procs, step[p] = "leave", ret[p] = "zero"
  PROVE  inbox[Peer(p)] = << >> /\ Append(inbox[Peer(p)], "dummy") = <<"dummy">>
<1>1. CASE p = "client"
  <2>1. inbox["server"] = << >>
    BY <1>1 DEF HelloInv, InboxInv, Past
  <2> QED BY <1>1, <2>1, PeerFacts, InboxFacts
<1>2. CASE p = "server"
  <2>1. ep["client"] # "none"
    BY <1>2 DEF HelloInv, ServerHasMessage
  <2>2. inbox["client"] = << >>
    BY <1>2, <2>1 DEF HelloInv, InboxInv, Past
  <2> QED BY <1>2, <2>2, PeerFacts, InboxFacts
<1> QED BY <1>1, <1>2 DEF Procs

(***************************************************************************)
(* Setup and the exchange of addresses.                                    *)
(***************************************************************************)
LEMMA StartKeeps ==
  ASSUME Typed, HelloInv, NEW p \in Procs,
         \/ main_init(p) \/ connect_common \/ connect_common_fails(p) \/ server_sends_address
         \/ client_receives_address \/ client_receives_eof \/ client_exchange_fails
  PROVE  Typed' /\ HelloInv'
<1> USE PeerFacts, InboxFacts DEF Procs, GoTo, Return, Dies, PeerMode, options, oobVars, ucxVars
<1> USE DEF Holds, Unsent, HasEp, Past, Typed, HelloInv, ClientSleeps,
       ServerHasMessage, InboxInv, ClientReceives, ZeroAtEnd
<1>1. CASE main_init(p)
  <2>1. Typed'
    BY <1>1 DEF main_init, Inboxes, Steps, Spinning
  <2>2. HelloInv'
    BY <1>1 DEF main_init, Pending
  <2> QED BY <2>1, <2>2
<1>2. CASE connect_common
  <2>1. Typed'
    BY <1>2 DEF connect_common, Inboxes, Steps, Spinning
  <2>2. HelloInv'
    BY <1>2 DEF connect_common, Pending
  <2> QED BY <2>1, <2>2
<1>3. CASE connect_common_fails(p)
  <2>1. Typed'
    BY <1>3 DEF connect_common_fails, Inboxes, Steps, Spinning
  <2>2. HelloInv'
    BY <1>3 DEF connect_common_fails, Pending
  <2> QED BY <2>1, <2>2
<1>4. CASE server_sends_address
  <2>1. Typed'
    BY <1>4 DEF server_sends_address, Inboxes, Steps, Spinning
  <2>2. HelloInv'
    BY <1>4 DEF server_sends_address, Pending
  <2> QED BY <2>1, <2>2
<1>5. CASE client_receives_address
  <2>1. Typed'
    BY <1>5 DEF client_receives_address, Inboxes, Steps, Spinning
  <2>2. HelloInv'
    BY <1>5 DEF client_receives_address, Pending
  <2> QED BY <2>1, <2>2
<1>6. CASE client_receives_eof
  <2>1. Typed'
    BY <1>6 DEF client_receives_eof, Inboxes, Steps, Spinning
  \* Only a server that is over has closed its socket.
  <2>2. Past("server")
    BY <1>6 DEF client_receives_eof
  <2>3. ClientReceives' /\ ZeroAtEnd'
    BY <1>6, <2>2 DEF client_receives_eof
  <2>4. ClientSleeps' /\ ServerHasMessage' /\ InboxInv'
    BY <1>6 DEF client_receives_eof, Pending
  <2>5. Holds("client")' /\ Holds("server")'
    BY <1>6 DEF client_receives_eof
  <2> QED BY <2>1, <2>3, <2>4, <2>5
<1>7. CASE client_exchange_fails
  <2>1. Typed'
    BY <1>7 DEF client_exchange_fails, Inboxes, Steps, Spinning
  <2>2. HelloInv'
    BY <1>7 DEF client_exchange_fails, Pending
  <2> QED BY <2>1, <2>2
<1> QED BY <1>1, <1>2, <1>3, <1>4, <1>5, <1>6, <1>7

(***************************************************************************)
(* The endpoint and the two messages.                                      *)
(***************************************************************************)
LEMMA EpKeeps ==
  ASSUME Typed, HelloInv, NEW p \in Procs,
         \/ create_ep(p) \/ create_ep_fails(p) \/ allocation_fails(p) \/ posts_receive(p)
         \/ client_sent(p) \/ client_received \/ server_probes \/ server_received
         \/ server_sent \/ server_handler_ran \/ flush_ep
  PROVE  Typed' /\ HelloInv'
<1> USE PeerFacts, InboxFacts DEF Procs, GoTo, Return, Dies, PeerMode, options, oobVars, ucxVars
<1> USE DEF Holds, Unsent, HasEp, Past, Typed, HelloInv, ClientSleeps,
       ServerHasMessage, InboxInv, ClientReceives, ZeroAtEnd
<1>1. CASE create_ep(p)
  <2>1. Typed'
    BY <1>1 DEF create_ep, PostsSend, Inboxes, Steps, Spinning
  <2>2. HelloInv'
    BY <1>1 DEF create_ep, PostsSend, Pending
  <2> QED BY <2>1, <2>2
<1>2. CASE create_ep_fails(p)
  <2>1. Typed'
    BY <1>2 DEF create_ep_fails, Inboxes, Steps, Spinning
  <2>2. HelloInv'
    BY <1>2 DEF create_ep_fails, Pending
  <2> QED BY <2>1, <2>2
<1>3. CASE allocation_fails(p)
  <2>1. Typed'
    <3>1. ep' \in [Procs -> {"none", "open", "closed"}]
      BY <1>3 DEF allocation_fails
    <3>2. step' \in [Procs -> Steps] /\ ret' \in [Procs -> {"zero", "nonzero"}]
      BY <1>3 DEF allocation_fails, Steps, Spinning
    <3> QED BY <1>3, <3>1, <3>2 DEF allocation_fails
  <2>2. HelloInv'
    BY <1>3 DEF allocation_fails, Pending
  <2> QED BY <2>1, <2>2
<1>4. CASE posts_receive(p)
  <2>1. Typed'
    BY <1>4 DEF posts_receive, Inboxes, Steps, Spinning
  <2>2. HelloInv'
    BY <1>4 DEF posts_receive, Pending
  <2> QED BY <2>1, <2>2
<1>5. CASE client_sent(p)
  <2>1. Typed'
    BY <1>5 DEF client_sent, Inboxes, Steps, Spinning
  <2>2. HelloInv'
    BY <1>5 DEF client_sent, Pending
  <2> QED BY <2>1, <2>2
<1>6. CASE client_received
  <2>1. Typed'
    BY <1>6 DEF client_received, Inboxes, Steps, Spinning
  <2>2. HelloInv'
    BY <1>6 DEF client_received, Pending
  <2> QED BY <2>1, <2>2
<1>7. CASE server_probes
  <2>1. Typed'
    BY <1>7 DEF server_probes, Inboxes, Steps, Spinning
  <2>2. HelloInv'
    BY <1>7 DEF server_probes, Pending
  <2> QED BY <2>1, <2>2
<1>8. CASE server_received
  <2>1. Typed'
    BY <1>8 DEF server_received, Inboxes, Steps, Spinning
  <2>2. HelloInv'
    BY <1>8 DEF server_received, Pending
  <2> QED BY <2>1, <2>2
<1>9. CASE server_sent
  <2>1. Typed'
    BY <1>9 DEF server_sent, Inboxes, Steps, Spinning
  <2>2. HelloInv'
    BY <1>9 DEF server_sent, Pending
  <2> QED BY <2>1, <2>2
<1>10. CASE server_handler_ran
  <2>1. Typed'
    BY <1>10 DEF server_handler_ran, Inboxes, Steps, Spinning
  <2>2. HelloInv'
    BY <1>10 DEF server_handler_ran, Pending
  <2> QED BY <2>1, <2>2
<1>11. CASE flush_ep
  <2>1. Typed'
    BY <1>11 DEF flush_ep, Inboxes, Steps, Spinning
  <2>2. HelloInv'
    BY <1>11 DEF flush_ep, Pending
  <2> QED BY <2>1, <2>2
<1> QED BY <1>1, <1>2, <1>3, <1>4, <1>5, <1>6, <1>7, <1>8, <1>9, <1>10, <1>11

(***************************************************************************)
(* The client's loop until its message is there.                           *)
(***************************************************************************)
LEMMA LoopKeeps ==
  ASSUME Typed, HelloInv, NEW p \in Procs,
         client_probes(p) \/ client_progress \/ test_poll_wait \/ client_wakes
  PROVE  Typed' /\ HelloInv'
<1> USE PeerFacts, InboxFacts DEF Procs, GoTo, Return, Dies, PeerMode, options, oobVars, ucxVars
<1> USE DEF Holds, Unsent, HasEp, Past, Typed, HelloInv, ClientSleeps,
       ServerHasMessage, InboxInv, ClientReceives, ZeroAtEnd
<1>1. CASE client_probes(p)
  <2>1. Typed'
    BY <1>1 DEF client_probes, Inboxes, Steps, Spinning
  <2>2. HelloInv'
    BY <1>1 DEF client_probes, Pending
  <2> QED BY <2>1, <2>2
<1>2. CASE client_progress
  <2>1. Typed'
    BY <1>2 DEF client_progress, FoundMessage, FoundLoss, failure_handler, Pending, Inboxes,
                Steps, Spinning
  <2>2. HelloInv'
    BY <1>2 DEF client_progress, FoundMessage, FoundLoss, failure_handler, Pending
  <2> QED BY <2>1, <2>2
<1>3. CASE test_poll_wait
  <2>1. Typed'
    BY <1>3 DEF test_poll_wait, Pending, Inboxes, Steps, Spinning
  <2>2. HelloInv'
    BY <1>3 DEF test_poll_wait, Pending
  <2> QED BY <2>1, <2>2
<1>4. CASE client_wakes
  <2>1. Typed'
    BY <1>4 DEF client_wakes, Inboxes, Steps, Spinning
  <2>2. HelloInv'
    BY <1>4 DEF client_wakes, Pending
  <2> QED BY <2>1, <2>2
<1> QED BY <1>1, <1>2, <1>3, <1>4

(***************************************************************************)
(* Disconnecting, the barrier and the end of main.                         *)
(***************************************************************************)
LEMMA EndKeeps ==
  ASSUME Typed, HelloInv, NEW p \in Procs,
         ep_close_err_mode(p) \/ main_leaves(p) \/ barrier_ends(p) \/ main_cleanup(p)
  PROVE  Typed' /\ HelloInv'
<1> USE PeerFacts, InboxFacts DEF Procs, GoTo, Return, Dies, PeerMode, options, oobVars, ucxVars
<1> USE DEF Holds, Unsent, HasEp, Past, Typed, HelloInv, ClientSleeps,
       ServerHasMessage, InboxInv, ClientReceives, ZeroAtEnd
<1>1. CASE ep_close_err_mode(p)
  <2>1. Typed'
    BY <1>1 DEF ep_close_err_mode, Inboxes, Steps, Spinning
  <2>2. HelloInv'
    BY <1>1 DEF ep_close_err_mode, Pending
  <2> QED BY <2>1, <2>2
<1>2. CASE main_leaves(p)
  <2>1. Typed'
    <3>1. inbox' \in [Procs -> Inboxes]
      <4>1. \/ inbox' = inbox
            \/ /\ step[p] = "leave" /\ ret[p] = "zero"
               /\ inbox' = [inbox EXCEPT ![Peer(p)] = Append(inbox[Peer(p)], "dummy")]
        BY <1>2 DEF main_leaves
      <4>2. inbox' = inbox \/ inbox' = [inbox EXCEPT ![Peer(p)] = <<"dummy">>]
        BY <4>1, BarrierByte
      <4> QED BY <4>2 DEF Inboxes
    <3>2. /\ step' \in [Procs -> Steps] /\ ret' \in [Procs -> {"zero", "nonzero"}]
          /\ oob_sock' \in [Procs -> {"none", "open", "closed"}]
          /\ worker' \in [Procs -> {"none", "live", "gone"}]
          /\ ep' \in [Procs -> {"none", "open", "closed"}]
      BY <1>2 DEF main_leaves, Steps, Spinning
    <3> QED BY <1>2, <3>1, <3>2 DEF main_leaves
  \* SIGPIPE comes from a socket that a process which is over has closed; the
  \* client enters the barrier with its string, the server with the client's
  \* message.
  <2>2. /\ oob_sock[Peer(p)] = "closed" => Past(Peer(p))
        /\ p = "client" /\ ret[p] = "zero" => msg["client"] = "taken"
    BY <1>2 DEF main_leaves
  <2>3. InboxInv'
    BY <1>2, <2>2, BarrierByte DEF main_leaves
  <2>4. ZeroAtEnd'
    BY <1>2, <2>2 DEF main_leaves
  <2>5. ClientSleeps' /\ ServerHasMessage' /\ ClientReceives'
    BY <1>2 DEF main_leaves, Pending
  <2>6. Holds("client")' /\ Holds("server")'
    BY <1>2 DEF main_leaves
  <2> QED BY <2>1, <2>3, <2>4, <2>5, <2>6
<1>3. CASE barrier_ends(p)
  <2>1. Typed'
    BY <1>3 DEF barrier_ends, Inboxes, Steps, Spinning
  \* What there is to read is the byte of the other's barrier.
  <2>2. inbox[p] # << >> => Past(Peer(p)) /\ (p = "server" => msg["client"] = "taken")
    <3>1. CASE p = "client"
      <4>1. ep["client"] # "none"
        BY <1>3, <3>1 DEF barrier_ends
      <4> QED BY <3>1, <4>1
    <3>2. CASE p = "server"
      BY <1>3, <3>2 DEF barrier_ends
    <3> QED BY <3>1, <3>2
  <2>3. ZeroAtEnd'
    BY <1>3, <2>2 DEF barrier_ends
  <2>4. ClientSleeps' /\ ServerHasMessage' /\ InboxInv' /\ ClientReceives'
    BY <1>3 DEF barrier_ends, Pending
  <2>5. Holds("client")' /\ Holds("server")'
    BY <1>3 DEF barrier_ends
  <2> QED BY <2>1, <2>3, <2>4, <2>5
<1>4. CASE main_cleanup(p)
  <2>1. Typed'
    BY <1>4 DEF main_cleanup, Inboxes, Steps, Spinning
  <2>2. HelloInv'
    BY <1>4 DEF main_cleanup, Pending
  <2> QED BY <2>1, <2>2
<1> QED BY <1>1, <1>2, <1>3, <1>4

-----------------------------------------------------------------------------
(* The theorems.                                                           *)

(***************************************************************************)
(* The invariant is inductive.                                             *)
(***************************************************************************)
LEMMA HelloInvHolds == Spec => [](Typed /\ HelloInv)
<1>1. Init => Typed /\ HelloInv
  BY InitHello
<1>2. (Typed /\ HelloInv) /\ [Next]_vars => (Typed /\ HelloInv)'
  <2> SUFFICES ASSUME Typed, HelloInv, [Next]_vars
               PROVE  Typed' /\ HelloInv'
    OBVIOUS
  <2>1. CASE ClientStep
    BY <2>1, PeerFacts, StartKeeps, EpKeeps, LoopKeeps, EndKeeps DEF ClientStep, ProcStep
  <2>2. CASE ServerStep
    BY <2>2, PeerFacts, StartKeeps, EpKeeps, LoopKeeps, EndKeeps DEF ServerStep, ProcStep
  <2>3. CASE other_event \/ \E p \in Procs : Ucx(p) \/ progress_worker(p) \/ request_fails(p)
    BY <2>3, PeerFacts, UcxKeeps, ProgressKeeps
  <2>4. CASE UNCHANGED vars
    BY <2>4 DEF vars, options, oobVars, ucxVars, Typed, HelloInv, ClientSleeps, Pending, Holds,
                Unsent, HasEp, Past, ServerHasMessage, InboxInv, ClientReceives, ZeroAtEnd,
                PeerMode
  <2> QED BY <2>1, <2>2, <2>3, <2>4 DEF Next
<1> QED BY <1>1, <1>2, PTL DEF Spec

(***************************************************************************)
(* Neither end of the socket ever holds more than an address with its      *)
(* length, or the byte of the barrier.                                     *)
(***************************************************************************)
THEOREM TypeCorrect == Spec => []TypeOK
<1>1. Typed => TypeOK
  <2> DEFINE S == {"length", "address", "dummy"}
  <2>1. /\ << >> \in Seq(S) /\ <<"length">> \in Seq(S) /\ <<"dummy">> \in Seq(S)
        /\ <<"length", "address">> \in Seq(S)
    OBVIOUS
  <2>2. /\ Len(<< >>) <= 2 /\ Len(<<"length">>) <= 2 /\ Len(<<"dummy">>) <= 2
        /\ Len(<<"length", "address">>) <= 2
    OBVIOUS
  <2> HIDE DEF S
  <2>3. \A i \in Inboxes : i \in Seq(S) /\ Len(i) <= 2
    BY <2>1, <2>2 DEF Inboxes
  <2> QED BY <2>3 DEF Typed, TypeOK, S
<1> QED BY <1>1, HelloInvHolds, PTL

(***************************************************************************)
(* The client of test modes wait and eventfd sleeps only when there is     *)
(* nothing to do, and wakes up for whatever comes.                         *)
(***************************************************************************)
THEOREM WakeupsKept == Spec => []NoLostWakeup
<1>1. HelloInv => NoLostWakeup
  BY DEF HelloInv, ClientSleeps, NoLostWakeup
<1> QED BY <1>1, HelloInvHolds, PTL

(***************************************************************************)
(* The barrier keeps the worker that the other side's endpoint needs.      *)
(***************************************************************************)
THEOREM RemoteFirst == Spec => []RemoteDisconnected
<1>1. HelloInv => RemoteDisconnected
  <2> SUFFICES ASSUME HelloInv, NEW p \in Procs,
                      failure_mode = "none", ret[p] = "zero", worker[p] = "gone"
               PROVE  ep[Peer(p)] # "open"
    BY DEF RemoteDisconnected
  <2>1. step[p] \in {"ended", "killed"}
    BY DEF HelloInv, Holds
  <2>2. Past(Peer(p))
    BY <2>1 DEF HelloInv, ZeroAtEnd, PeerMode
  <2>3. Peer(p) \in Procs
    BY DEF Procs, Peer
  <2> QED BY <2>2, <2>3 DEF HelloInv, Holds, HasEp, Past
<1> QED BY <1>1, HelloInvHolds, PTL

(***************************************************************************)
(* Exit status 0 of either side, without -e, is a delivery.                *)
(***************************************************************************)
THEOREM ZeroIsDelivery == Spec => []ZeroMeansDelivered
<1>1. HelloInv => ZeroMeansDelivered
  <2> SUFFICES ASSUME HelloInv, NEW p \in Procs, failure_mode = "none", step[p] = "ended",
                      ret[p] = "zero", ep[p] # "none"
               PROVE  msg["client"] = "taken"
    BY DEF ZeroMeansDelivered
  <2>1. CASE p = "client"
    BY <2>1 DEF HelloInv, ClientReceives
  <2>2. CASE p = "server"
    BY <2>2 DEF HelloInv, ZeroAtEnd, PeerMode
  <2> QED BY <2>1, <2>2 DEF Procs
<1> QED BY <1>1, HelloInvHolds, PTL
=============================================================================
