-------------------------- MODULE AsyncStream_proofs --------------------------
(***************************************************************************)
(* What holds of the coroutine programs for any number of clients and any  *)
(* length of the message, with and without failures and sends that         *)
(* complete at once.                                                       *)
(***************************************************************************)
EXTENDS AsyncStream, EventOps_proofs, TLAPS

-----------------------------------------------------------------------------
(***************************************************************************)
(* Types.  TypeOK says what each event holds; Typed adds that every        *)
(* process has one.                                                        *)
(***************************************************************************)
Vals(p) == IF p = Server THEN 1..MsgLen ELSE {p}

EventsTyped ==
  /\ DOMAIN event = Procs
  /\ \A p \in Procs : event[p] \in Event(Vals(p), {p})

Typed ==
  /\ main \in [Procs -> MainStates]
  /\ completed \in [Procs -> BOOLEAN]
  /\ co \in [Procs -> CoStates]
  /\ setOr \in [Procs -> {"none", "accepting", "event"}]
  /\ accepting \in Event(Clients, {Server})
  /\ EventsTyped
  /\ handle \in [Procs -> {"none", "live", "deleted"}]
  /\ req \in [Procs -> {"none", "posted", "inplace", "error", "done"}]
  /\ conn \in [Clients -> {"none", "requested", "delivered", "open", "closed"}]
  /\ wire \in [Clients -> Contents]
  /\ arrived \in [Clients -> 0..MsgLen]
  /\ buf \in [len : 0..MsgLen, holds : Contents]

(***************************************************************************)
(* A posted operation has a new event, on which its coroutine sleeps.      *)
(***************************************************************************)
LEMMA Post ==
  ASSUME Typed, NEW p \in Procs, post(p)
  PROVE  /\ event'[p].waiter = p /\ ~event'[p].signaled
         /\ EventsTyped'
         /\ \A q \in Procs \ {p} : event'[q] = event[q]
         /\ handle' = [handle EXCEPT ![p] = "live"]
         /\ co' = [co EXCEPT ![p] = "event"]
<1>1. await_suspend(Kind, fresh_event, p) \in Event(Vals(p), {p})
  BY FreshEvent, AwaitSuspend DEF Kind
<1>2. LET new == await_suspend(Kind, fresh_event, p) IN new.waiter = p /\ ~new.signaled
  BY DEF await_suspend, suspends, fresh_event
<1> QED BY <1>1, <1>2 DEF post, Typed, EventsTyped

(***************************************************************************)
(* A completion callback sets the event of its own operation only.         *)
(***************************************************************************)
LEMMA SetOr ==
  ASSUME Typed, NEW p \in Procs, NEW v \in Vals(p), set_or(p, v)
  PROVE  /\ event'[p].waiter = event[p].waiter
         /\ EventsTyped'
         /\ \A q \in Procs \ {p} : event'[q] = event[q]
         /\ \/ /\ setOr' = [setOr EXCEPT ![p] = "event"]
               /\ co' = [co EXCEPT ![p] = "resumed"]
               /\ UNCHANGED <<handle, req>>
            \/ /\ handle' = [handle EXCEPT ![p] = "deleted"]
               /\ req' = [req EXCEPT ![p] = "done"]
               /\ event[p].signaled \/ event[p].waiter = NoHandle
               /\ UNCHANGED <<setOr, co>>
<1>1. /\ set_enter(Kind, event[p], v) \in Event(Vals(p), {p})
      /\ set_enter(Kind, event[p], v).waiter = event[p].waiter
  BY SetEnter DEF Typed, EventsTyped, Kind
<1>2. event' = [event EXCEPT ![p] = set_enter(Kind, event[p], v)]
  BY DEF set_or
<1>3. calls_resume(Kind, event[p]) <=> ~event[p].signaled /\ event[p].waiter = p
  BY StreamAssumption DEF calls_resume, takes_value, Kind, Typed, EventsTyped, Event, Procs
<1>4. CASE calls_resume(Kind, event[p])
  BY <1>1, <1>2, <1>3, <1>4 DEF set_or, Typed, EventsTyped
<1>5. CASE ~calls_resume(Kind, event[p])
  <2>1. event[p].signaled \/ event[p].waiter = NoHandle
    BY <1>3, <1>5 DEF Typed, EventsTyped, Event
  <2> QED BY <1>1, <1>2, <1>5, <2>1 DEF set_or, Typed, EventsTyped
<1> QED BY <1>4, <1>5

(***************************************************************************)
(* When resume() has returned nobody is registered with the event.         *)
(***************************************************************************)
LEMMA CallbackReturn ==
  ASSUME Typed, NEW p \in Procs, callback_return(p)
  PROVE  /\ event'[p].waiter = NoHandle
         /\ EventsTyped'
         /\ \A q \in Procs \ {p} : event'[q] = event[q]
<1>1. /\ set_leave(Kind, event[p]) \in Event(Vals(p), {p})
      /\ set_leave(Kind, event[p]).waiter = NoHandle
  BY SetLeave DEF Typed, EventsTyped, Kind
<1> QED BY <1>1 DEF callback_return, Typed, EventsTyped

(***************************************************************************)
(* What the listener's callback leaves in its event.                       *)
(***************************************************************************)
LEMMA Listener ==
  ASSUME Typed, NEW c \in Clients, listener_callback(c)
  PROVE  /\ accepting' \in Event(Clients, {Server})
         /\ accepting'.waiter = accepting.waiter
         /\ \/ /\ setOr' = [setOr EXCEPT ![Server] = "accepting"]
               /\ co' = [co EXCEPT ![Server] = "resumed"]
               /\ accepting.waiter # NoHandle /\ accepting'.data = c
            \/ /\ accepting.signaled \/ accepting.waiter = NoHandle
               /\ UNCHANGED <<setOr, co>>
<1>1. /\ accepting' \in Event(Clients, {Server})
      /\ accepting'.waiter = accepting.waiter
      /\ accepting'.data = IF accepting.signaled THEN accepting.data ELSE c
  BY SetEnter DEF Typed, Kind, listener_callback
<1>2. calls_resume(Kind, accepting) <=> ~accepting.signaled /\ accepting.waiter # NoHandle
  BY DEF calls_resume, takes_value, Kind, Typed, Event
<1> QED BY <1>1, <1>2 DEF listener_callback, Typed, Event

(***************************************************************************)
(* Typed is inductive.                                                     *)
(***************************************************************************)
LEMMA TypedHolds == Spec => []Typed
<1> USE StreamAssumption DEF MainStates, CoStates, Contents, procVars, eventVars, netVars
<1>1. Init => Typed
  <2> SUFFICES ASSUME Init PROVE Typed
    OBVIOUS
  <2>1. \A V, H : fresh_event \in Event(V, H)
    BY FreshEvent
  <2> QED BY <2>1 DEF Init, Typed, EventsTyped
<1>2. Typed /\ [Next]_vars => Typed'
  <2> SUFFICES ASSUME Typed, [Next]_vars
               PROVE  Typed'
    OBVIOUS
  <2> Server \in Procs /\ Clients \subseteq Procs
    BY DEF Procs
  <2>1. ASSUME NEW c \in Clients, client_main(c)
        PROVE  Typed'
    <3>1. /\ EventsTyped'
          /\ handle' = [handle EXCEPT ![c] = "live"]
          /\ co' = [co EXCEPT ![c] = "event"]
      BY <2>1, Post DEF client_main
    <3>2. /\ req' \in [Procs -> {"none", "posted", "inplace", "error", "done"}]
          /\ wire' \in [Clients -> Contents]
      BY <2>1 DEF client_main, Typed
    <3> QED BY <2>1, <3>1, <3>2 DEF client_main, Typed
  <2>2. ASSUME NEW p \in Procs, NEW v \in Vals(p), set_or(p, v)
        PROVE  /\ EventsTyped'
               /\ co' \in [Procs -> CoStates]
               /\ setOr' \in [Procs -> {"none", "accepting", "event"}]
               /\ handle' \in [Procs -> {"none", "live", "deleted"}]
               /\ req' \in [Procs -> {"none", "posted", "inplace", "error", "done"}]
    <3>1. EventsTyped'
      BY <2>2, SetOr
    <3>2. \/ /\ setOr' = [setOr EXCEPT ![p] = "event"]
             /\ co' = [co EXCEPT ![p] = "resumed"]
             /\ UNCHANGED <<handle, req>>
          \/ /\ handle' = [handle EXCEPT ![p] = "deleted"]
             /\ req' = [req EXCEPT ![p] = "done"]
             /\ UNCHANGED <<setOr, co>>
      BY <2>2, SetOr
    <3> QED BY <3>1, <3>2 DEF Typed
  <2>3. ASSUME NEW c \in Clients, send_callback(c)
        PROVE  Typed'
    <3>1. c \in Vals(c) /\ set_or(c, c)
      BY <2>3 DEF send_callback, Vals
    <3> QED BY <2>2, <2>3, <3>1 DEF send_callback, Typed
  <2>4. ASSUME NEW c \in Clients, send_callback_error(c)
        PROVE  Typed'
    BY <2>4 DEF send_callback_error, Typed, EventsTyped
  <2>5. ASSUME NEW c \in Clients,
               err_handler(c) \/ client_close(c) \/ client_return(c)
        PROVE  Typed'
    BY <2>5 DEF err_handler, client_close, client_return, Typed, EventsTyped
  <2>6. ASSUME NEW c \in Clients, NetworkRuns(c)
        PROVE  Typed'
    BY <2>6 DEF NetworkRuns, transmit, arrive, Typed, EventsTyped
  <2>7. ASSUME NEW p \in Procs, callback_return(p)
        PROVE  Typed'
    BY <2>7, CallbackReturn DEF callback_return, Typed
  <2>8. CASE server_main
    <3>1. accepting' \in Event(Clients, {Server})
      BY <2>8, AwaitSuspend DEF server_main, Typed, Kind
    <3> QED BY <2>8, <3>1 DEF server_main, Typed, EventsTyped
  <2>9. ASSUME NEW c \in Clients, listener_callback(c)
        PROVE  Typed'
    <3>1. accepting' \in Event(Clients, {Server})
      BY <2>9, Listener
    <3>2. \/ /\ setOr' = [setOr EXCEPT ![Server] = "accepting"]
             /\ co' = [co EXCEPT ![Server] = "resumed"]
          \/ UNCHANGED <<setOr, co>>
      BY <2>9, Listener
    <3> QED BY <2>9, <3>1, <3>2 DEF listener_callback, Typed, EventsTyped
  <2>10. ASSUME NEW c \in Clients, start_server_accepts(c)
         PROVE  Typed'
    <3>1. /\ EventsTyped'
          /\ handle' = [handle EXCEPT ![Server] = "live"]
          /\ co' = [co EXCEPT ![Server] = "event"]
      BY <2>10, Post DEF start_server_accepts
    <3> QED BY <2>10, <3>1 DEF start_server_accepts, Typed
  <2>11. ASSUME NEW c \in Clients, recv_stream_exits(c)
         PROVE  Typed'
    BY <2>11 DEF recv_stream_exits, Typed, EventsTyped
  <2>12. CASE listener_callback_return
    <3>1. accepting' \in Event(Clients, {Server})
      BY <2>12, SetLeave DEF listener_callback_return, Typed, Kind
    <3> QED BY <2>12, <3>1 DEF listener_callback_return, Typed, EventsTyped
  <2>13. ASSUME NEW c \in Clients, recv_callback(c)
         PROVE  Typed'
    <3>1. arrived[c] \in Vals(Server) /\ set_or(Server, arrived[c])
      BY <2>13 DEF recv_callback, Vals, Typed
    <3>2. buf' \in [len : 0..MsgLen, holds : Contents]
      BY <2>13 DEF recv_callback, Typed
    <3> QED BY <2>2, <2>13, <3>1, <3>2 DEF recv_callback, Typed
  <2>14. CASE start_server_throws
    BY <2>14 DEF start_server_throws, Typed, EventsTyped
  <2>15. CASE recv_callback_error \/ server_return
    BY <2>15 DEF recv_callback_error, server_return, Typed, EventsTyped
  <2>16. ASSUME NEW c \in Clients, start_server_ends(c)
         PROVE  Typed'
    BY <2>16 DEF start_server_ends, Typed, EventsTyped
  <2>17. ASSUME NEW p \in Procs,
                start_server_receives \/ start_client_worker(p)
         PROVE  Typed'
    <3>1. completed' \in [Procs -> BOOLEAN]
      BY <2>17 DEF start_server_receives, start_client_worker, Typed
    <3>2. co' \in [Procs -> CoStates]
      BY <2>17 DEF start_server_receives, start_client_worker, Typed
    <3> QED BY <2>17, <3>1, <3>2 DEF start_server_receives, start_client_worker, Typed, EventsTyped
  <2>18. CASE UNCHANGED vars
    BY <2>18 DEF vars, Typed, EventsTyped
  <2> QED BY <2>1, <2>3, <2>4, <2>5, <2>6, <2>7, <2>8, <2>9, <2>10, <2>11,
             <2>12, <2>13, <2>14, <2>15, <2>16, <2>17, <2>18
          DEF Next, ServerRuns, ClientRuns, Failures
<1> QED BY <1>1, <1>2, PTL DEF Spec

(***************************************************************************)
(* Every event holds what its own operation may put there, and counters    *)
(* keep to the length of the message.                                      *)
(***************************************************************************)
THEOREM TypeCorrect == Spec => []TypeOK
<1>1. Typed => TypeOK
  BY StreamAssumption DEF Typed, EventsTyped, TypeOK, Vals, Procs
<1> QED BY <1>1, TypedHolds, PTL

-----------------------------------------------------------------------------
(***************************************************************************)
(* The inductive invariant: how far each process is, read off all of its   *)
(* variables at once.                                                      *)
(***************************************************************************)
Accepted(c) == conn[c] \in {"open", "closed"}
NoSession == \A c \in Clients : ~Accepted(c)

\* The stream operation of a process and the coroutine that awaits it.
Unposted(p) == handle[p] = "none" /\ req[p] = "none" /\ event[p].waiter = NoHandle
Pending(p) ==
  co[p] = "event" /\ handle[p] = "live" /\ event[p].waiter = p /\ ~event[p].signaled
InCallback(p) ==
  main[p] = "looping" /\ setOr[p] = "event" /\ handle[p] = "live" /\ req[p] = "posted"
Done(p) ==
  /\ co[p] = "ended" /\ setOr[p] = "none" /\ handle[p] = "deleted" /\ req[p] = "done"
  /\ event[p].waiter = NoHandle

\* Where a client is.
ClientAt(c) ==
  \/ /\ main[c] = "start" /\ co[c] = "created" /\ setOr[c] = "none" /\ Unposted(c)
     /\ wire[c] = "none" /\ conn[c] = "none"
  \/ /\ main[c] \in {"looping", "terminated"} /\ setOr[c] = "none" /\ Pending(c)
     /\ req[c] \in {"posted", "inplace", "error"}
  \/ InCallback(c) /\ co[c] \in {"resumed", "ended"}
  \/ main[c] # "start" /\ Done(c)

ClientInv(c) ==
  /\ ClientAt(c)
  /\ main[c] \in {"closing", "returned"} => Done(c)
  /\ completed[c] <=> co[c] = "ended"
  /\ wire[c] # "none" => Accepted(c) \/ req[c] = "inplace"
  /\ co[c] \in {"resumed", "ended"} => wire[c] # "none"
  /\ arrived[c] > 0 => wire[c] # "none"

\* The server has bytes of the client it accepted.
Received ==
  \E c \in Clients :
    Accepted(c) /\ buf.len \in 1..arrived[c] /\ buf.holds = wire[c] /\ wire[c] # "none"

\* The listener's event would resume nobody.
Forgotten == accepting.waiter = NoHandle

\* Where the server is: before and in accept(), the endpoint made or failed,
\* the message awaited and received.
Listening ==
  \/ /\ main[Server] = "start" /\ co[Server] = "created" /\ setOr[Server] = "none"
     /\ Unposted(Server) /\ NoSession /\ Forgotten /\ ~accepting.signaled
  \/ /\ main[Server] = "looping" /\ co[Server] = "accept" /\ setOr[Server] = "none"
     /\ Unposted(Server) /\ NoSession
     /\ accepting.waiter = Server /\ ~accepting.signaled

Accepting ==
  \/ /\ main[Server] = "looping" /\ co[Server] \in {"resumed", "ended"}
     /\ setOr[Server] = "accepting" /\ Unposted(Server) /\ NoSession
  \/ /\ main[Server] = "looping" /\ setOr[Server] = "accepting"
     /\ Pending(Server) /\ req[Server] = "posted"

Failed ==
  \/ /\ main[Server] = "exited" /\ co[Server] = "resumed" /\ setOr[Server] = "accepting"
     /\ req[Server] = "error" /\ event[Server].waiter = NoHandle
  \/ /\ main[Server] = "looping" /\ co[Server] = "ended" /\ setOr[Server] = "none"
     /\ Unposted(Server) /\ NoSession /\ Forgotten

Awaiting ==
  /\ main[Server] \in {"looping", "terminated"} /\ setOr[Server] = "none"
  /\ Pending(Server) /\ req[Server] = "posted" /\ Forgotten

Receiving ==
  /\ Forgotten /\ Received
  /\ \/ InCallback(Server) /\ co[Server] \in {"resumed", "closing", "ended"}
     \/ main[Server] \in {"looping", "returned"} /\ Done(Server)

ServerInv ==
  /\ Listening \/ Accepting \/ Failed \/ Awaiting \/ Receiving
  /\ completed[Server] <=> co[Server] \in {"closing", "ended"} /\ ~Unposted(Server)
  /\ co[Server] = "ended" => \A c \in Clients : conn[c] # "open"
  /\ setOr[Server] = "accepting" =>
       accepting.data \in Clients /\ conn[accepting.data] # "none"

StreamInv == Typed /\ (\A c \in Clients : ClientInv(c)) /\ ServerInv /\ OneSession

-----------------------------------------------------------------------------
(***************************************************************************)
(* What a process does leaves the others' part of the invariant alone.     *)
(***************************************************************************)
Own(p) == <<main[p], completed[p], co[p], setOr[p], event[p], handle[p], req[p]>>

(***************************************************************************)
(* A client can be accepted behind its back.                               *)
(***************************************************************************)
LEMMA ClientFrame ==
  ASSUME NEW c \in Clients, ClientInv(c),
         UNCHANGED <<Own(c), wire[c], arrived[c]>>,
         conn[c] = "none" => conn'[c] = "none",
         Accepted(c) => Accepted(c)'
  PROVE  ClientInv(c)'
BY DEF ClientInv, ClientAt, Own, Unposted, Pending, InCallback, Done

(***************************************************************************)
(* The server sees of its clients only their connections and what they     *)
(* sent.                                                                   *)
(***************************************************************************)
LEMMA ServerFrame ==
  ASSUME Typed, Typed', ServerInv,
         UNCHANGED <<Own(Server), accepting, buf>>,
         \A c \in Clients :
           /\ Accepted(c)' <=> Accepted(c)
           /\ conn[c] # "none" => conn'[c] # "none"
           /\ conn'[c] = "open" => conn[c] = "open"
           /\ wire[c] # "none" => wire'[c] = wire[c]
           /\ arrived'[c] >= arrived[c]
  PROVE  ServerInv'
<1>1. NoSession' <=> NoSession
  BY DEF NoSession
<1>2. ASSUME Received
      PROVE  Received'
  <2>1. PICK c \in Clients : /\ Accepted(c) /\ wire[c] # "none"
                             /\ buf.len \in 1..arrived[c] /\ buf.holds = wire[c]
    BY <1>2 DEF Received
  <2>2. Accepted(c)' /\ wire'[c] # "none" /\ buf'.holds = wire'[c]
    BY <2>1
  <2>3. buf'.len \in 1..arrived'[c]
    <3>1. arrived[c] \in Nat /\ arrived'[c] \in Nat /\ buf'.len = buf.len
      BY StreamAssumption DEF Typed
    <3>2. arrived'[c] >= arrived[c]
      OBVIOUS
    <3> QED BY <2>1, <3>1, <3>2
  <2> QED BY <2>2, <2>3 DEF Received
<1>3. (Listening \/ Accepting \/ Failed \/ Awaiting \/ Receiving)'
  BY <1>1, <1>2 DEF ServerInv, Listening, Accepting, Failed, Awaiting, Receiving, Own,
                    Unposted, Pending, InCallback, Done, Forgotten
<1>4. completed'[Server] <=> co'[Server] \in {"closing", "ended"} /\ ~Unposted(Server)'
  BY DEF ServerInv, Own, Unposted
<1>5. co'[Server] = "ended" => \A c \in Clients : conn'[c] # "open"
  BY DEF ServerInv, Own
<1>6. setOr'[Server] = "accepting" =>
        accepting'.data \in Clients /\ conn'[accepting'.data] # "none"
  <2> SUFFICES ASSUME setOr'[Server] = "accepting"
               PROVE  accepting'.data \in Clients /\ conn'[accepting'.data] # "none"
    OBVIOUS
  <2>1. PICK c \in Clients : c = accepting.data /\ conn[c] # "none"
    BY DEF ServerInv, Own
  <2> QED BY <2>1
<1> QED BY <1>3, <1>4, <1>5, <1>6 DEF ServerInv

(***************************************************************************)
(* A step of one client, or of the network on its behalf.                  *)
(***************************************************************************)
LEMMA ClientActs ==
  ASSUME StreamInv, Typed', NEW c \in Clients, ClientInv(c)',
         \A p \in Procs \ {c} : UNCHANGED Own(p),
         UNCHANGED <<accepting, buf>>,
         \A d \in Clients \ {c} : UNCHANGED <<conn[d], wire[d], arrived[d]>>,
         conn'[c] = conn[c] \/ (conn[c] = "none" /\ conn'[c] = "requested"),
         wire[c] # "none" => wire'[c] = wire[c],
         arrived'[c] >= arrived[c]
  PROVE  StreamInv'
<1>1. \A d \in Clients : Accepted(d)' <=> Accepted(d)
  BY DEF Accepted
<1>2. \A d \in Clients : ClientInv(d)'
  <2> SUFFICES ASSUME NEW d \in Clients \ {c} PROVE ClientInv(d)'
    OBVIOUS
  <2>1. UNCHANGED <<Own(d), wire[d], arrived[d]>> /\ conn'[d] = conn[d]
    BY DEF Procs
  <2>2. ClientInv(d)
    BY DEF StreamInv
  <2> QED BY <1>1, <2>1, <2>2, ClientFrame
<1>3. ServerInv'
  <2>1. UNCHANGED <<Own(Server), accepting, buf>>
    BY StreamAssumption DEF Procs
  <2>2. \A d \in Clients : /\ conn[d] # "none" => conn'[d] # "none"
                           /\ conn'[d] = "open" => conn[d] = "open"
                           /\ wire[d] # "none" => wire'[d] = wire[d]
    OBVIOUS
  <2>3. \A d \in Clients : arrived'[d] >= arrived[d]
    <3> SUFFICES ASSUME NEW d \in Clients PROVE arrived'[d] >= arrived[d]
      OBVIOUS
    <3>1. arrived[d] \in Nat
      BY StreamAssumption DEF StreamInv, Typed
    <3>2. d # c => arrived'[d] = arrived[d]
      OBVIOUS
    <3> QED BY <3>1, <3>2
  <2> QED BY <1>1, <2>1, <2>2, <2>3, ServerFrame DEF StreamInv
<1>4. OneSession'
  BY <1>1 DEF StreamInv, OneSession, Accepted
<1> QED BY <1>2, <1>3, <1>4 DEF StreamInv

(***************************************************************************)
(* A step of the server.                                                   *)
(***************************************************************************)
LEMMA ServerActs ==
  ASSUME StreamInv, Typed', ServerInv', OneSession',
         \A c \in Clients : UNCHANGED <<Own(c), wire[c], arrived[c]>>,
         \A c \in Clients : /\ conn[c] = "none" => conn'[c] = "none"
                            /\ Accepted(c) => Accepted(c)'
  PROVE  StreamInv'
<1>1. ASSUME NEW c \in Clients
      PROVE  ClientInv(c)'
  <2>1. ClientInv(c)
    BY DEF StreamInv
  <2> QED BY <2>1, ClientFrame
<1> QED BY <1>1 DEF StreamInv

(***************************************************************************)
(* The invariant holds initially, and each action keeps it.                *)
(***************************************************************************)
LEMMA InitStream == Init /\ Typed => StreamInv
<1> SUFFICES ASSUME Init, Typed PROVE StreamInv
  OBVIOUS
<1>1. \A p \in Procs : event[p] = fresh_event
  BY DEF Init
<1>2. fresh_event.waiter = NoHandle /\ ~fresh_event.signaled
  BY FreshEvent
<1>3. \A p \in Procs : Unposted(p)
  BY <1>1, <1>2 DEF Init, Unposted
<1>4. \A c \in Clients : ClientInv(c)
  BY <1>3 DEF Init, ClientInv, ClientAt, Procs
<1>5. Listening
  BY <1>2, <1>3 DEF Init, Listening, Procs, NoSession, Accepted, Forgotten
<1> QED BY <1>3, <1>4, <1>5 DEF Init, StreamInv, ServerInv, OneSession, Procs

(***************************************************************************)
(* main of a client: its operation is posted, or failed.                   *)
(***************************************************************************)
LEMMA ClientMain ==
  ASSUME StreamInv, Typed', NEW c \in Clients, client_main(c)
  PROVE  StreamInv'
<1> USE DEF Procs
<1>1. ClientInv(c) /\ Typed
  BY DEF StreamInv
<1>2. main[c] = "start" /\ conn[c] = "none" /\ wire[c] = "none" /\ arrived[c] = 0 /\ ~completed[c]
  BY <1>1, StreamAssumption DEF ClientInv, ClientAt, client_main, InCallback, Pending, Done, Typed
<1>3. post(c)
  BY DEF client_main
<1>4. /\ event'[c].waiter = c /\ ~event'[c].signaled
      /\ \A q \in Procs \ {c} : event'[q] = event[q]
      /\ handle' = [handle EXCEPT ![c] = "live"]
      /\ co' = [co EXCEPT ![c] = "event"]
  BY <1>1, <1>3, Post
<1>5. /\ main' = [main EXCEPT ![c] = "looping"]
      /\ conn' = [conn EXCEPT ![c] = "requested"]
      /\ UNCHANGED <<completed, setOr, accepting, arrived, buf>>
  BY DEF client_main
<1>6. /\ req'[c] \in {"posted", "inplace", "error"}
      /\ wire'[c] # "none" => req'[c] = "inplace"
      /\ \A q \in Procs \ {c} : req'[q] = req[q]
      /\ \A d \in Clients \ {c} : wire'[d] = wire[d]
  BY <1>1, <1>2 DEF client_main, Typed
<1>7. setOr[c] = "none"
  BY <1>1, <1>2 DEF ClientInv, ClientAt, InCallback, Pending, Done
<1>8. ClientAt(c)' /\ co'[c] = "event" /\ main'[c] = "looping"
  BY <1>1, <1>4, <1>5, <1>6, <1>7 DEF ClientAt, Pending, Typed
<1>9. ClientInv(c)'
  BY <1>2, <1>5, <1>6, <1>8 DEF ClientInv
<1>10. \A p \in Procs \ {c} : UNCHANGED Own(p)
  BY <1>1, <1>4, <1>5, <1>6 DEF Own, Typed
<1>11. \A d \in Clients \ {c} : UNCHANGED <<conn[d], wire[d], arrived[d]>>
  BY <1>1, <1>5, <1>6 DEF Typed
<1>12. conn'[c] = "requested" /\ arrived'[c] >= arrived[c]
  BY <1>1, <1>2, <1>5 DEF Typed
<1> QED BY <1>2, <1>5, <1>9, <1>10, <1>11, <1>12, ClientActs

(***************************************************************************)
(* A client's callback finds its coroutine asleep on the event, so set_or  *)
(* never gets to delete the handle before resume().                        *)
(***************************************************************************)
LEMMA SendCallback ==
  ASSUME StreamInv, Typed', NEW c \in Clients, send_callback(c)
  PROVE  StreamInv'
<1> USE DEF Procs
<1>1. ClientInv(c) /\ Typed
  BY DEF StreamInv
<1>2. main[c] = "looping" /\ setOr[c] = "none" /\ req[c] = "posted" /\ wire[c] # "none"
  BY DEF send_callback, InLoop
<1>3. Pending(c)
  BY <1>1, <1>2 DEF ClientInv, ClientAt, InCallback, Done
<1>4. c \in Vals(c) /\ set_or(c, c)
  BY StreamAssumption DEF send_callback, Vals
<1>5. event[c].waiter # NoHandle /\ ~event[c].signaled
  BY <1>3, StreamAssumption DEF Pending
<1>6. /\ setOr' = [setOr EXCEPT ![c] = "event"]
      /\ co' = [co EXCEPT ![c] = "resumed"]
      /\ UNCHANGED <<handle, req>>
      /\ \A q \in Procs \ {c} : event'[q] = event[q]
  BY <1>1, <1>4, <1>5, SetOr
<1>7. UNCHANGED <<main, completed, accepting, netVars>>
  BY DEF send_callback
<1>8. InCallback(c)' /\ co'[c] = "resumed"
  BY <1>1, <1>2, <1>3, <1>6, <1>7 DEF InCallback, Pending, Typed
<1>9. ClientInv(c)'
  BY <1>1, <1>2, <1>3, <1>6, <1>7, <1>8
  DEF ClientInv, ClientAt, Pending, Accepted, InCallback, netVars
<1>10. \A p \in Procs \ {c} : UNCHANGED Own(p)
  BY <1>1, <1>6, <1>7 DEF Own, Typed
<1>11. arrived'[c] >= arrived[c]
  BY <1>1, <1>7 DEF Typed, netVars
<1> QED BY <1>7, <1>9, <1>10, <1>11, ClientActs DEF netVars

(***************************************************************************)
(* The other actions of a client and of its connection.                    *)
(***************************************************************************)
LEMMA ClientRest ==
  ASSUME StreamInv, Typed', NEW c \in Clients,
         \/ send_callback_error(c) \/ start_client_worker(c) \/ callback_return(c)
         \/ err_handler(c) \/ client_close(c) \/ client_return(c) \/ NetworkRuns(c)
  PROVE  StreamInv'
<1> USE DEF Procs
<1>1. ClientInv(c) /\ Typed
  BY DEF StreamInv
<1>2. arrived[c] \in Nat /\ arrived[c] >= arrived[c]
  BY <1>1 DEF Typed
<1>3. CASE send_callback_error(c)
  <2>1. ClientInv(c)'
    BY <1>1, <1>3 DEF send_callback_error, procVars, netVars, InLoop, ClientInv, ClientAt,
                      Unposted, Pending, InCallback, Done, Accepted, Typed
  <2>2. \A p \in Procs \ {c} : UNCHANGED Own(p)
    BY <1>1, <1>3 DEF send_callback_error, procVars, Own, Typed
  <2> QED BY <1>2, <1>3, <2>1, <2>2, ClientActs DEF send_callback_error, netVars
<1>4. CASE start_client_worker(c)
  <2>1. InCallback(c) /\ wire[c] # "none"
    BY <1>1, <1>4 DEF start_client_worker, ClientInv, ClientAt, Unposted, Pending, Done
  <2>2. completed'[c] /\ co'[c] = "ended"
    BY <1>1, <1>4 DEF start_client_worker, Typed
  <2>3. UNCHANGED <<main, setOr, eventVars, netVars>>
    BY <1>4 DEF start_client_worker
  <2>4. ClientInv(c)'
    BY <1>1, <2>1, <2>2, <2>3 DEF ClientInv, ClientAt, InCallback, Accepted, eventVars, netVars
  <2>5. \A p \in Procs \ {c} : UNCHANGED Own(p)
    BY <1>1, <1>4 DEF start_client_worker, eventVars, Own, Typed
  <2> QED BY <1>2, <2>3, <2>4, <2>5, ClientActs DEF eventVars, netVars
<1>5. CASE callback_return(c)
  <2>1. /\ InCallback(c) /\ wire[c] # "none" /\ completed[c]
    BY <1>1, <1>5 DEF callback_return, ClientInv, ClientAt, Unposted, Pending, Done
  <2>2. event'[c].waiter = NoHandle /\ \A q \in Procs \ {c} : event'[q] = event[q]
    BY <1>1, <1>5, CallbackReturn
  <2>3. Done(c)' /\ main'[c] = "looping"
    BY <1>1, <1>5, <2>1, <2>2 DEF callback_return, Done, InCallback, Typed
  <2>4. ClientInv(c)'
    BY <1>1, <1>5, <2>1, <2>3
       DEF callback_return, netVars, ClientInv, ClientAt, InCallback, Accepted, Done
  <2>5. \A p \in Procs \ {c} : UNCHANGED Own(p)
    BY <1>1, <1>5, <2>2 DEF callback_return, Own, Typed
  <2> QED BY <1>2, <1>5, <2>4, <2>5, ClientActs DEF callback_return, netVars
<1>6. CASE err_handler(c) \/ client_close(c) \/ client_return(c)
  <2>1. /\ UNCHANGED <<completed, co, setOr, eventVars, netVars>>
        /\ \A p \in Procs \ {c} : main'[p] = main[p]
    BY <1>1, <1>6 DEF err_handler, client_close, client_return, Typed
  <2>2. \/ main[c] = "looping" /\ setOr[c] = "none" /\ main'[c] = "terminated"
        \/ main[c] = "looping" /\ setOr[c] = "none" /\ completed[c] /\ main'[c] = "closing"
        \/ main[c] = "closing" /\ main'[c] = "returned"
    BY <1>1, <1>6 DEF err_handler, client_close, client_return, InLoop, Typed
  <2>3. ClientInv(c)'
    BY <1>1, <2>1, <2>2 DEF ClientInv, ClientAt, Unposted, Pending, InCallback, Done, Accepted,
                            eventVars, netVars
  <2>4. \A p \in Procs \ {c} : UNCHANGED Own(p)
    BY <2>1 DEF Own, eventVars
  <2> QED BY <1>2, <2>1, <2>3, <2>4, ClientActs DEF eventVars, netVars
<1>7. CASE transmit(c)
  <2>1. /\ conn[c] = "open" /\ wire[c] = "none" /\ req[c] = "posted"
        /\ wire'[c] # "none" /\ \A d \in Clients \ {c} : wire'[d] = wire[d]
        /\ UNCHANGED <<procVars, eventVars, conn, arrived, buf>>
    BY <1>1, <1>7 DEF transmit, Typed
  <2>2. ClientInv(c)'
    BY <1>1, <2>1 DEF procVars, eventVars, ClientInv, ClientAt, Unposted, Pending, InCallback,
                      Done, Accepted
  <2>3. \A p \in Procs \ {c} : UNCHANGED Own(p)
    BY <2>1 DEF procVars, eventVars, Own
  <2> QED BY <1>2, <2>1, <2>2, <2>3, ClientActs DEF eventVars
<1>8. CASE arrive(c)
  <2>1. /\ wire[c] # "none" /\ arrived'[c] >= arrived[c]
        /\ \A d \in Clients \ {c} : arrived'[d] = arrived[d]
        /\ UNCHANGED <<procVars, eventVars, conn, wire, buf>>
    BY <1>1, <1>2, <1>8 DEF arrive, Typed
  <2>2. ClientInv(c)'
    BY <1>1, <2>1 DEF procVars, eventVars, ClientInv, ClientAt, Unposted, Pending, InCallback,
                      Done, Accepted
  <2>3. \A p \in Procs \ {c} : UNCHANGED Own(p)
    BY <2>1 DEF procVars, eventVars, Own
  <2> QED BY <2>1, <2>2, <2>3, ClientActs DEF eventVars
<1> QED BY <1>3, <1>4, <1>5, <1>6, <1>7, <1>8 DEF NetworkRuns

(***************************************************************************)
(* A connection request: it resumes start_server in accept(), and after    *)
(* that finds no one to resume.                                            *)
(***************************************************************************)
LEMMA ListenerCallback ==
  ASSUME StreamInv, Typed', NEW c \in Clients, listener_callback(c)
  PROVE  StreamInv'
<1> USE DEF Procs
<1>1. Typed /\ ServerInv
  BY DEF StreamInv
<1>2. /\ conn[c] = "requested" /\ conn' = [conn EXCEPT ![c] = "delivered"]
      /\ UNCHANGED <<main, completed, event, handle, req, wire, arrived, buf>>
      /\ InLoop(Server) \/ co[Server] = "closing"
  BY DEF listener_callback
<1>3. \A d \in Clients : /\ conn[d] = "none" <=> conn'[d] = "none"
                         /\ Accepted(d) <=> Accepted(d)'
                         /\ conn'[d] = "open" <=> conn[d] = "open"
  BY <1>1, <1>2 DEF Accepted, Typed
<1>4. NoSession' <=> NoSession
  BY <1>3 DEF NoSession
<1>5. Received' <=> Received
  BY <1>2, <1>3 DEF Received
<1>6. /\ accepting'.waiter = accepting.waiter
      /\ \/ /\ setOr' = [setOr EXCEPT ![Server] = "accepting"]
            /\ co' = [co EXCEPT ![Server] = "resumed"]
            /\ accepting.waiter # NoHandle /\ accepting'.data = c
         \/ /\ accepting.signaled \/ accepting.waiter = NoHandle
            /\ UNCHANGED <<setOr, co>>
  BY <1>1, Listener
<1>7. CASE /\ setOr' = [setOr EXCEPT ![Server] = "accepting"]
           /\ co' = [co EXCEPT ![Server] = "resumed"]
           /\ accepting.waiter # NoHandle /\ accepting'.data = c
  <2>1. /\ main[Server] = "looping" /\ co[Server] = "accept"
        /\ Unposted(Server) /\ NoSession
    BY <1>1, <1>2, <1>7 DEF ServerInv, Listening, Accepting, Failed, Awaiting, Receiving,
                            Forgotten, InLoop, Pending
  <2>2. setOr'[Server] = "accepting" /\ co'[Server] = "resumed" /\ Unposted(Server)'
    BY <1>1, <1>2, <1>7, <2>1 DEF Unposted, Typed
  <2>3. Accepting'
    BY <1>2, <1>4, <2>1, <2>2 DEF Accepting
  <2>4. conn'[c] = "delivered"
    BY <1>1, <1>2 DEF Typed
  <2>5. ~completed'[Server]
    BY <1>1, <1>2, <2>1 DEF ServerInv
  <2>6. ServerInv'
    BY <1>7, <2>2, <2>3, <2>4, <2>5 DEF ServerInv
  <2> QED BY <1>1, <1>2, <1>3, <1>7, <2>6, ServerActs, StreamAssumption
          DEF StreamInv, OneSession, Own, Accepted, Typed
<1>8. CASE /\ accepting.signaled \/ accepting.waiter = NoHandle
           /\ UNCHANGED <<setOr, co>>
  <2>1. Failed \/ Awaiting \/ Receiving
    BY <1>1, <1>2, <1>8, StreamAssumption
       DEF ServerInv, Listening, Accepting, InLoop, Pending
  <2>2. (Failed \/ Awaiting \/ Receiving)'
    BY <1>2, <1>4, <1>5, <1>6, <1>8, <2>1
       DEF Failed, Awaiting, Receiving, Forgotten, Unposted, Pending, InCallback, Done
  <2>3. setOr[Server] # "accepting"
    BY <1>2, <1>1 DEF InLoop, ServerInv, Listening, Accepting, Failed, Awaiting, Receiving,
                InCallback, Done, Pending
  <2>4. ServerInv'
    BY <1>1, <1>2, <1>3, <1>8, <2>2, <2>3 DEF ServerInv, Unposted
  <2> QED BY <1>1, <1>2, <1>3, <1>8, <2>4, ServerActs, StreamAssumption
          DEF StreamInv, OneSession, Own, Accepted
<1> QED BY <1>6, <1>7, <1>8

(***************************************************************************)
(* Steps of the server up to the co_await on the message.                  *)
(***************************************************************************)
LEMMA ServerConnects ==
  ASSUME StreamInv, Typed',
         \/ server_main \/ start_server_throws \/ listener_callback_return
         \/ \E c \in Clients : start_server_accepts(c) \/ recv_stream_exits(c)
  PROVE  StreamInv'
<1> USE DEF Procs
<1>1. Typed /\ ServerInv /\ OneSession
  BY DEF StreamInv
<1>2. CASE server_main
  <2>1. Listening /\ main[Server] = "start"
    BY <1>1, <1>2 DEF server_main, ServerInv, Listening, Accepting, Failed, Awaiting, Receiving,
                      InCallback
  <2>2. accepting'.waiter = Server /\ ~accepting'.signaled
    BY <1>1, <1>2, <2>1, AwaitSuspend DEF server_main, Listening, Typed, Kind
  <2>3. Listening'
    BY <1>1, <1>2, <2>1, <2>2 DEF server_main, netVars, Listening, Unposted, NoSession, Accepted,
                                  Typed
  <2>4. ServerInv'
    BY <1>1, <1>2, <2>1, <2>3 DEF server_main, Listening, ServerInv, Typed
  <2> QED BY <1>1, <1>2, <2>4, ServerActs, StreamAssumption
          DEF server_main, netVars, OneSession, Own, Accepted, Typed
<1>3. ASSUME setOr[Server] = "accepting", co[Server] = "resumed", ~Ended(Server)
      PROVE  main[Server] = "looping" /\ Unposted(Server) /\ NoSession /\ ~completed[Server]
  BY <1>1, <1>3 DEF ServerInv, Listening, Accepting, Failed, Awaiting, Receiving, InCallback,
                    Done, Pending, Ended
<1>4. CASE start_server_throws
  <2>1. main[Server] = "looping" /\ Unposted(Server) /\ NoSession /\ ~completed[Server]
    BY <1>3, <1>4 DEF start_server_throws
  <2>2. /\ setOr[Server] = "accepting" /\ co' = [co EXCEPT ![Server] = "ended"]
        /\ UNCHANGED <<main, completed, setOr, eventVars, netVars>>
    BY <1>4 DEF start_server_throws
  <2>3. Accepting'
    BY <1>1, <2>1, <2>2 DEF Accepting, Unposted, NoSession, Accepted, eventVars, netVars, Typed
  <2>4. Unposted(Server)'
    BY <2>1, <2>2 DEF Unposted, eventVars
  <2>5. ServerInv'
    BY <1>1, <2>1, <2>2, <2>3, <2>4 DEF ServerInv, NoSession, Accepted, eventVars, netVars
  <2> QED BY <1>1, <2>2, <2>5, ServerActs, StreamAssumption
          DEF OneSession, Own, Accepted, eventVars, netVars, Typed
<1>5. CASE listener_callback_return
  <2>1. /\ setOr[Server] = "accepting" /\ co[Server] \in {"event", "ended"} /\ ~Ended(Server)
        /\ setOr' = [setOr EXCEPT ![Server] = "none"]
        /\ UNCHANGED <<main, completed, co, event, handle, req, netVars>>
    BY <1>5 DEF listener_callback_return
  <2>2. Forgotten'
    BY <1>1, <1>5, SetLeave DEF listener_callback_return, Forgotten, Kind, Typed
  <2>3. Accepting
    BY <1>1, <2>1 DEF ServerInv, Listening, Accepting, Failed, Awaiting, Receiving, InCallback,
                      Done
  <2>4. setOr'[Server] = "none"
    BY <1>1, <2>1 DEF Typed
  <2>5. (Failed \/ Awaiting)'
    BY <2>1, <2>2, <2>3, <2>4 DEF Accepting, Failed, Awaiting, Unposted, Pending, NoSession,
                                  Accepted, netVars
  <2>6. ServerInv'
    BY <1>1, <2>1, <2>4, <2>5 DEF ServerInv, Unposted, netVars
  <2> QED BY <1>1, <2>1, <2>6, ServerActs, StreamAssumption
          DEF OneSession, Own, Accepted, netVars, Typed
<1>6. ASSUME NEW c \in Clients, start_server_accepts(c) \/ recv_stream_exits(c)
      PROVE  StreamInv'
  <2>1. /\ setOr[Server] = "accepting" /\ co[Server] = "resumed" /\ ~Ended(Server)
        /\ accepting.data = c
        /\ conn' = [conn EXCEPT ![c] = "open"]
        /\ UNCHANGED <<completed, setOr, accepting, wire, arrived, buf>>
    BY <1>6 DEF start_server_accepts, recv_stream_exits
  <2>2. main[Server] = "looping" /\ Unposted(Server) /\ NoSession /\ ~completed[Server]
    BY <1>3, <2>1
  <2>3. conn[c] # "none" /\ conn'[c] = "open" /\ \A d \in Clients \ {c} : conn'[d] = conn[d]
    BY <1>1, <2>1 DEF ServerInv, Typed
  <2>4. OneSession'
    BY <2>2, <2>3 DEF OneSession, NoSession, Accepted
  <2>5. \A d \in Clients : /\ conn[d] = "none" => conn'[d] = "none"
                           /\ Accepted(d) => Accepted(d)'
    BY <2>2, <2>3 DEF NoSession, Accepted
  <2>6. /\ (Accepting \/ Failed)' /\ co'[Server] # "ended" /\ co'[Server] # "closing"
        /\ \A d \in Clients : UNCHANGED <<Own(d), wire[d], arrived[d]>>
    <3>1. CASE start_server_accepts(c)
      <4>1. /\ event'[Server].waiter = Server /\ ~event'[Server].signaled
            /\ \A q \in Procs \ {Server} : event'[q] = event[q]
            /\ handle' = [handle EXCEPT ![Server] = "live"]
            /\ co' = [co EXCEPT ![Server] = "event"]
        BY <1>1, <3>1, Post DEF start_server_accepts
      <4>2. req' = [req EXCEPT ![Server] = "posted"] /\ UNCHANGED main
        BY <3>1 DEF start_server_accepts
      <4>3. Accepting' /\ co'[Server] = "event"
        BY <1>1, <2>1, <2>2, <4>1, <4>2 DEF Accepting, Pending, Typed
      <4>4. \A d \in Clients : UNCHANGED Own(d)
        BY <1>1, <2>1, <4>1, <4>2, StreamAssumption DEF Own, Typed
      <4> QED BY <2>1, <4>3, <4>4
    <3>2. CASE recv_stream_exits(c)
      <4>1. /\ main' = [main EXCEPT ![Server] = "exited"]
            /\ handle' = [handle EXCEPT ![Server] = "live"]
            /\ req' = [req EXCEPT ![Server] = "error"]
            /\ UNCHANGED <<co, event>>
        BY <3>2 DEF recv_stream_exits
      <4>2. Failed'
        BY <1>1, <2>1, <2>2, <4>1 DEF Failed, Unposted, Typed
      <4>3. \A d \in Clients : UNCHANGED Own(d)
        BY <1>1, <2>1, <4>1, StreamAssumption DEF Own, Typed
      <4> QED BY <2>1, <4>1, <4>2, <4>3
    <3> QED BY <1>6, <3>1, <3>2
  <2>7. ServerInv'
    BY <1>1, <2>1, <2>2, <2>3, <2>6 DEF ServerInv
  <2> QED BY <2>4, <2>5, <2>6, <2>7, ServerActs
<1> QED BY <1>2, <1>4, <1>5, <1>6

(***************************************************************************)
(* Steps of the server from the message on.                                *)
(***************************************************************************)
LEMMA ServerReceives ==
  ASSUME StreamInv, Typed',
         \/ start_server_receives \/ callback_return(Server)
         \/ server_return \/ recv_callback_error
         \/ \E c \in Clients : recv_callback(c) \/ start_server_ends(c)
  PROVE  StreamInv'
<1> USE DEF Procs
<1>1. Typed /\ ServerInv /\ OneSession
  BY DEF StreamInv
<1>2. ASSUME InLoop(Server), req[Server] = "posted"
      PROVE  Awaiting
  BY <1>1, <1>2 DEF InLoop, ServerInv, Listening, Accepting, Failed, Receiving, InCallback, Done,
                    Unposted
<1>3. ASSUME NEW c \in Clients, recv_callback(c)
      PROVE  StreamInv'
  <2>1. /\ conn[c] = "open" /\ arrived[c] > 0 /\ buf' = [len |-> arrived[c], holds |-> wire[c]]
        /\ set_or(Server, arrived[c])
        /\ UNCHANGED <<main, completed, accepting, conn, wire, arrived>>
    BY <1>3 DEF recv_callback
  <2>2. Awaiting /\ main[Server] = "looping"
    BY <1>2, <1>3 DEF recv_callback, InLoop
  <2>3. arrived[c] \in Vals(Server)
    BY <1>1, <2>1 DEF Vals, Typed
  <2>4. event[Server].waiter # NoHandle /\ ~event[Server].signaled
    BY <2>2, StreamAssumption DEF Awaiting, Pending
  <2>5. /\ setOr' = [setOr EXCEPT ![Server] = "event"]
        /\ co' = [co EXCEPT ![Server] = "resumed"]
        /\ UNCHANGED <<handle, req>>
        /\ \A q \in Procs \ {Server} : event'[q] = event[q]
    BY <1>1, <2>1, <2>3, <2>4, SetOr
  <2>6. wire[c] # "none"
    BY <2>1 DEF StreamInv, ClientInv
  <2>7. Received'
    <3>1. buf'.len \in 1..arrived'[c]
      BY <1>1, <2>1 DEF Typed
    <3>2. Accepted(c)' /\ buf'.holds = wire'[c] /\ wire'[c] # "none"
      BY <2>1, <2>6 DEF Accepted
    <3> QED BY <3>1, <3>2 DEF Received
  <2>8. InCallback(Server)' /\ co'[Server] = "resumed"
    BY <1>1, <2>1, <2>2, <2>5 DEF InCallback, Awaiting, Pending, Typed
  <2>9. Receiving'
    BY <2>1, <2>2, <2>7, <2>8 DEF Receiving, Awaiting, Forgotten
  <2>10. ServerInv'
    BY <1>1, <2>1, <2>2, <2>8, <2>9 DEF ServerInv, Awaiting, Pending, InCallback
  <2>11. \A d \in Clients : UNCHANGED Own(d)
    BY <1>1, <2>1, <2>5, StreamAssumption DEF Own, Typed
  <2> QED BY <1>1, <2>1, <2>10, <2>11, ServerActs DEF OneSession, Accepted
<1>4. CASE recv_callback_error
  <2>1. Awaiting /\ main[Server] = "looping"
    BY <1>2, <1>4 DEF recv_callback_error, InLoop
  <2>2. /\ main' = [main EXCEPT ![Server] = "terminated"]
        /\ UNCHANGED <<completed, co, setOr, eventVars, netVars>>
    BY <1>4 DEF recv_callback_error
  <2>3. Awaiting'
    BY <1>1, <2>1, <2>2 DEF Awaiting, Pending, Forgotten, eventVars, Typed
  <2>4. ServerInv'
    BY <1>1, <2>2, <2>3 DEF ServerInv, Unposted, eventVars, netVars
  <2> QED BY <1>1, <2>2, <2>4, ServerActs, StreamAssumption
          DEF OneSession, Own, Accepted, eventVars, netVars, Typed
<1>5. CASE start_server_receives
  <2>1. /\ Receiving /\ InCallback(Server) /\ co[Server] = "resumed"
    BY <1>1, <1>5 DEF start_server_receives, ServerInv, Listening, Accepting, Failed, Awaiting,
                      Receiving, Done
  <2>2. completed'[Server] /\ \A d \in Clients : completed'[d] = completed[d]
    BY <1>1, <1>5, StreamAssumption DEF start_server_receives, Typed
  <2>3. /\ co' = [co EXCEPT ![Server] = "closing"]
        /\ UNCHANGED <<main, setOr, eventVars, netVars>>
    BY <1>5 DEF start_server_receives
  <2>4. Received'
    BY <2>1, <2>3 DEF Receiving, Received, Accepted, netVars
  <2>5. co'[Server] = "closing" /\ InCallback(Server)'
    BY <1>1, <2>1, <2>3 DEF InCallback, eventVars, Typed
  <2>6. Receiving'
    BY <2>1, <2>3, <2>4, <2>5 DEF Receiving, Forgotten, eventVars
  <2>7. ServerInv'
    BY <2>2, <2>5, <2>6 DEF ServerInv, InCallback, Unposted
  <2>8. \A d \in Clients : UNCHANGED <<Own(d), wire[d], arrived[d]>>
    BY <1>1, <2>2, <2>3, StreamAssumption DEF Own, eventVars, netVars, Typed
  <2> QED BY <1>1, <2>3, <2>7, <2>8, ServerActs DEF OneSession, Accepted, netVars
<1>6. ASSUME NEW c \in Clients, start_server_ends(c)
      PROVE  StreamInv'
  <2>1. /\ co[Server] = "closing" /\ conn[c] = "open"
        /\ conn' = [conn EXCEPT ![c] = "closed"]
        /\ co' = [co EXCEPT ![Server] = "ended"]
        /\ UNCHANGED <<main, completed, setOr, eventVars, wire, arrived, buf>>
    BY <1>6 DEF start_server_ends
  <2>2. Receiving /\ InCallback(Server)
    BY <1>1, <2>1 DEF ServerInv, Listening, Accepting, Failed, Awaiting, Receiving, Pending, Done
  <2>3. \A d \in Clients : /\ Accepted(d)' <=> Accepted(d)
                           /\ conn'[d] # "none" <=> conn[d] # "none"
    BY <1>1, <2>1 DEF Accepted, Typed
  <2>4. \A d \in Clients : conn'[d] # "open"
    BY <1>1, <2>1 DEF OneSession, Typed
  <2>5. Received'
    BY <2>1, <2>2, <2>3 DEF Receiving, Received
  <2>6. InCallback(Server)' /\ co'[Server] = "ended"
    BY <1>1, <2>1, <2>2 DEF InCallback, eventVars, Typed
  <2>7. Receiving'
    BY <2>1, <2>2, <2>5, <2>6 DEF Receiving, Forgotten, eventVars
  <2>8. ServerInv'
    BY <1>1, <2>1, <2>2, <2>4, <2>6, <2>7 DEF ServerInv, InCallback, Unposted
  <2>9. OneSession'
    BY <1>1, <2>3 DEF OneSession, Accepted
  <2>10. \A d \in Clients : UNCHANGED <<Own(d), wire[d], arrived[d]>>
    BY <1>1, <2>1, StreamAssumption DEF Own, eventVars, Typed
  <2> QED BY <2>3, <2>8, <2>9, <2>10, ServerActs
<1>7. CASE callback_return(Server)
  <2>1. /\ Receiving /\ InCallback(Server) /\ co[Server] = "ended"
    BY <1>1, <1>7 DEF callback_return, ServerInv, Listening, Accepting, Failed, Awaiting,
                      Receiving, Done
  <2>2. event'[Server].waiter = NoHandle /\ \A q \in Procs \ {Server} : event'[q] = event[q]
    BY <1>1, <1>7, CallbackReturn
  <2>3. /\ setOr' = [setOr EXCEPT ![Server] = "none"]
        /\ handle' = [handle EXCEPT ![Server] = "deleted"]
        /\ req' = [req EXCEPT ![Server] = "done"]
        /\ UNCHANGED <<main, completed, co, accepting, netVars>>
    BY <1>7 DEF callback_return
  <2>4. Done(Server)'
    BY <1>1, <2>1, <2>2, <2>3 DEF Done, Typed
  <2>5. Received'
    BY <2>1, <2>3 DEF Receiving, Received, Accepted, netVars
  <2>6. Receiving'
    BY <2>1, <2>3, <2>4, <2>5 DEF Receiving, InCallback, Forgotten
  <2>7. ServerInv'
    BY <1>1, <2>1, <2>3, <2>4, <2>6 DEF ServerInv, InCallback, Done, Unposted, netVars
  <2>8. \A d \in Clients : UNCHANGED <<Own(d), wire[d], arrived[d]>>
    BY <1>1, <2>2, <2>3, StreamAssumption DEF Own, netVars, Typed
  <2> QED BY <1>1, <2>3, <2>7, <2>8, ServerActs DEF OneSession, Accepted, netVars
<1>8. CASE server_return
  <2>1. /\ InLoop(Server) /\ completed[Server]
        /\ main' = [main EXCEPT ![Server] = "returned"]
        /\ UNCHANGED <<completed, co, setOr, eventVars, netVars>>
    BY <1>8 DEF server_return
  <2>2. Receiving /\ Done(Server)
    BY <1>1, <2>1 DEF InLoop, ServerInv, Listening, Accepting, Failed, Awaiting, Receiving,
                      InCallback, Pending
  <2>3. Receiving'
    BY <1>1, <2>1, <2>2 DEF Receiving, Received, Accepted, Done, Forgotten, eventVars, netVars,
                            Typed
  <2>4. ServerInv'
    BY <1>1, <2>1, <2>3 DEF ServerInv, Unposted, eventVars, netVars
  <2> QED BY <1>1, <2>1, <2>4, ServerActs, StreamAssumption
          DEF OneSession, Own, Accepted, eventVars, netVars, Typed
<1> QED BY <1>3, <1>4, <1>5, <1>6, <1>7, <1>8

-----------------------------------------------------------------------------
(* The theorems.                                                           *)

(***************************************************************************)
(* The invariant is inductive.                                             *)
(***************************************************************************)
LEMMA StreamInvHolds == Spec => []StreamInv
<1>1. Init /\ Typed => StreamInv
  BY InitStream
<1>2. StreamInv /\ Typed' /\ [Next]_vars => StreamInv'
  <2> SUFFICES ASSUME StreamInv, Typed', [Next]_vars
               PROVE  StreamInv'
    OBVIOUS
  <2>1. ASSUME NEW c \in Clients,
               \/ ClientRuns(c) \/ NetworkRuns(c) \/ listener_callback(c)
               \/ send_callback_error(c) \/ err_handler(c)
        PROVE  StreamInv'
    BY <2>1, ClientMain, SendCallback, ClientRest, ListenerCallback DEF ClientRuns
  <2>2. CASE ServerRuns
    BY <2>2, ServerConnects, ServerReceives DEF ServerRuns
  <2>3. CASE Failures
    BY <2>1, <2>3, ServerConnects, ServerReceives DEF Failures
  <2>4. CASE UNCHANGED vars
    <3>1. \A p \in Procs : UNCHANGED Own(p)
      BY <2>4 DEF vars, procVars, eventVars, netVars, Own
    <3>2. ServerInv'
      BY <2>4 DEF vars, procVars, eventVars, netVars, StreamInv, ServerInv, Listening, Accepting,
                  Failed, Awaiting, Receiving, Received, Accepted, NoSession, Unposted, Pending,
                  InCallback, Done, Forgotten
    <3> QED BY <2>4, <3>1, <3>2, ServerActs
            DEF vars, procVars, eventVars, netVars, StreamInv, OneSession, Accepted, Procs
  <2> QED BY <2>1, <2>2, <2>3, <2>4 DEF Next
<1> QED BY <1>1, <1>2, TypedHolds, PTL DEF Spec

(***************************************************************************)
(* A completion callback touches a live handle, whatever ran on top of it. *)
(***************************************************************************)
THEOREM HandlesOutlive == Spec => []HandleOutlivesCallback
<1>1. StreamInv => HandleOutlivesCallback
  <2> SUFFICES ASSUME StreamInv, NEW p \in Procs, req[p] = "posted" \/ setOr[p] = "event"
               PROVE  handle[p] = "live"
    BY DEF HandleOutlivesCallback
  <2>1. CASE p \in Clients
    BY <2>1 DEF StreamInv, ClientInv, ClientAt, Unposted, Pending, InCallback, Done
  <2>2. CASE p = Server
    BY <2>2 DEF StreamInv, ServerInv, Listening, Accepting, Failed, Awaiting, Receiving,
                Unposted, Pending, InCallback, Done
  <2> QED BY <2>1, <2>2 DEF Procs
<1> QED BY <1>1, StreamInvHolds, PTL

(***************************************************************************)
(* No event holds the handle of a coroutine that sleeps elsewhere or is    *)
(* over, so no set_or resumes one.                                         *)
(***************************************************************************)
THEOREM WaitersAsleep == Spec => []WaitersSleep
<1>1. StreamInv => WaitersSleep
  <2> SUFFICES ASSUME StreamInv
               PROVE  WaitersSleep
    OBVIOUS
  <2>1. accepting.waiter # NoHandle /\ setOr[Server] # "accepting" => co[Server] = "accept"
    BY DEF StreamInv, ServerInv, Listening, Accepting, Failed, Awaiting, Receiving, Forgotten
  <2>2. ASSUME NEW p \in Procs, event[p].waiter # NoHandle, setOr[p] # "event", ~Ended(p)
        PROVE  co[p] = "event"
    <3>1. CASE p \in Clients
      BY <2>2, <3>1 DEF StreamInv, ClientInv, ClientAt, Unposted, Pending, InCallback, Done
    <3>2. CASE p = Server
      BY <2>2, <3>2 DEF StreamInv, ServerInv, Listening, Accepting, Failed, Awaiting, Receiving,
                        Unposted, Pending, InCallback, Done
    <3> QED BY <3>1, <3>2 DEF Procs
  <2> QED BY <2>1, <2>2 DEF WaitersSleep
<1> QED BY <1>1, StreamInvHolds, PTL

(***************************************************************************)
(* The server makes one endpoint, for the request that resumed it.         *)
(***************************************************************************)
THEOREM SingleSession == Spec => []OneSession
<1>1. StreamInv => OneSession
  BY DEF StreamInv
<1> QED BY <1>1, StreamInvHolds, PTL

(***************************************************************************)
(* A raised completed flag means bytes left the client and reached the     *)
(* server; nothing is said of what they hold.                              *)
(***************************************************************************)
THEOREM CompletedTransferred == Spec => []CompletedMeansTransfer
<1>1. StreamInv => CompletedMeansTransfer
  <2> SUFFICES ASSUME StreamInv
               PROVE  CompletedMeansTransfer
    OBVIOUS
  <2>1. ASSUME NEW c \in Clients, completed[c]
        PROVE  conn[c] \in {"open", "closed"} /\ wire[c] # "none"
    <3>1. ClientInv(c)
      BY DEF StreamInv
    <3>2. co[c] = "ended" /\ wire[c] # "none"
      BY <2>1, <3>1 DEF ClientInv
    <3>3. req[c] # "inplace"
      BY <3>1, <3>2 DEF ClientInv, ClientAt, Unposted, Pending, InCallback, Done
    <3> QED BY <3>1, <3>2, <3>3 DEF ClientInv, Accepted
  <2>2. ASSUME completed[Server]
        PROVE  Received
    <3>1. co[Server] \in {"closing", "ended"} /\ ~Unposted(Server)
      BY <2>2 DEF StreamInv, ServerInv
    <3> QED BY <3>1 DEF StreamInv, ServerInv, Listening, Accepting, Failed, Awaiting, Receiving,
                        Pending
  <2> QED BY <2>1, <2>2 DEF CompletedMeansTransfer, Received, Accepted
<1> QED BY <1>1, StreamInvHolds, PTL

(***************************************************************************)
(* What main destroys is no longer in use by a coroutine or a callback.    *)
(***************************************************************************)
THEOREM TeardownOrdered == Spec => []TeardownOrder
<1>1. StreamInv => TeardownOrder
  <2> SUFFICES ASSUME StreamInv, NEW p \in Procs, main[p] \in {"closing", "returned"}
               PROVE  Done(p) /\ (p = Server => \A c \in Clients : conn[c] # "open")
    BY DEF TeardownOrder, Done
  <2>1. CASE p \in Clients
    BY <2>1, StreamAssumption DEF StreamInv, ClientInv
  <2>2. CASE p = Server
    BY <2>2 DEF StreamInv, ServerInv, Listening, Accepting, Failed, Awaiting, Receiving,
                InCallback, Done
  <2> QED BY <2>1, <2>2 DEF Procs
<1> QED BY <1>1, StreamInvHolds, PTL

-----------------------------------------------------------------------------
(* The refinement of OneTransfer.                                          *)

(***************************************************************************)
(* A step that leaves alone what OneTransfer sees of a state stutters.     *)
(***************************************************************************)
LEMMA Stutters ==
  ASSUME completed' = completed,
         \A c \in Clients : Accepted(c)' <=> Accepted(c),
         completed[Server] => buf' = buf,
         \A p \in Procs : main'[p] = "returned" <=> main[p] = "returned"
  PROVE  UNCHANGED Transfer!vars
<1>1. {c \in Clients : conn[c] \in {"open", "closed"}}'
        = {c \in Clients : conn[c] \in {"open", "closed"}}
  BY DEF Accepted
<1>2. {p \in Procs : main[p] = "returned"}' = {p \in Procs : main[p] = "returned"}
  OBVIOUS
<1>3. {p \in Procs : completed[p]}' = {p \in Procs : completed[p]}
  OBVIOUS
<1>4. (IF completed[Server] THEN buf.len ELSE 0)' = IF completed[Server] THEN buf.len ELSE 0
  OBVIOUS
<1> QED BY <1>1, <1>2, <1>3, <1>4 DEF Transfer!vars

(***************************************************************************)
(* The endpoint the server makes is the first, and made before it reports. *)
(***************************************************************************)
LEMMA RefinesConnect ==
  ASSUME StreamInv, NEW c \in Clients, start_server_accepts(c) \/ recv_stream_exits(c)
  PROVE  Transfer!Connect(c)
<1>1. /\ setOr[Server] = "accepting" /\ co[Server] = "resumed" /\ ~Ended(Server)
      /\ conn' = [conn EXCEPT ![c] = "open"]
      /\ UNCHANGED <<completed, buf>>
      /\ \A p \in Procs : main'[p] = "returned" <=> main[p] = "returned"
  BY StreamAssumption DEF start_server_accepts, recv_stream_exits, StreamInv, Typed, Ended, Procs
<1>2. NoSession /\ ~completed[Server]
  BY <1>1 DEF StreamInv, ServerInv, Listening, Accepting, Failed, Awaiting, Receiving, Pending,
              InCallback, Done, Ended
<1>3. {d \in Clients : conn[d] \in {"open", "closed"}} = {}
  BY <1>2 DEF NoSession, Accepted
<1>4. {d \in Clients : conn[d] \in {"open", "closed"}}' = {c}
  BY <1>1, <1>2 DEF NoSession, Accepted, StreamInv, Typed
<1>5. {p \in Procs : completed[p]}' = {p \in Procs : completed[p]}
  BY <1>1
<1>6. {p \in Procs : main[p] = "returned"}' = {p \in Procs : main[p] = "returned"}
  BY <1>1
<1>7. (IF completed[Server] THEN buf.len ELSE 0)' = IF completed[Server] THEN buf.len ELSE 0
  BY <1>1
<1>8. Server \notin {p \in Procs : completed[p]}
  BY <1>2
<1> QED BY <1>3, <1>4, <1>5, <1>6, <1>7, <1>8 DEF Transfer!Connect

(***************************************************************************)
(* A client raises completed once, and is the one the server took.         *)
(***************************************************************************)
LEMMA RefinesClientReports ==
  ASSUME StreamInv, NEW c \in Clients, start_client_worker(c)
  PROVE  Transfer!ClientReports(c)
<1>1. /\ co[c] = "resumed"
      /\ completed' = [completed EXCEPT ![c] = TRUE]
      /\ UNCHANGED <<main, conn, buf>>
  BY DEF start_client_worker, netVars
<1>2. ~completed[c] /\ Accepted(c)
  <2>1. ClientInv(c)
    BY DEF StreamInv
  <2>2. wire[c] # "none" /\ req[c] # "inplace" /\ ~completed[c]
    BY <1>1, <2>1 DEF ClientInv, ClientAt, Unposted, Pending, InCallback, Done
  <2> QED BY <2>1, <2>2 DEF ClientInv
<1>3. c # Server /\ completed'[Server] = completed[Server]
  BY <1>1, StreamAssumption DEF StreamInv, Typed, Procs
<1>4. {d \in Clients : conn[d] \in {"open", "closed"}} = {c}
  BY <1>2 DEF StreamInv, OneSession, Accepted
<1>5. {p \in Procs : completed[p]}' = {p \in Procs : completed[p]} \cup {c}
  BY <1>1 DEF StreamInv, Typed, Procs
<1>6. /\ {d \in Clients : conn[d] \in {"open", "closed"}}'
           = {d \in Clients : conn[d] \in {"open", "closed"}}
      /\ {p \in Procs : main[p] = "returned"}' = {p \in Procs : main[p] = "returned"}
      /\ (IF completed[Server] THEN buf.len ELSE 0)' = IF completed[Server] THEN buf.len ELSE 0
  BY <1>1, <1>3
<1>7. c \notin {p \in Procs : completed[p]}
  BY <1>2
<1> QED BY <1>4, <1>5, <1>6, <1>7 DEF Transfer!ClientReports

(***************************************************************************)
(* The server raises completed once, with the bytes of its client.         *)
(***************************************************************************)
LEMMA RefinesServerReports ==
  ASSUME StreamInv, start_server_receives
  PROVE  Transfer!ServerReports
<1>1. /\ setOr[Server] = "event" /\ co[Server] = "resumed"
      /\ completed' = [completed EXCEPT ![Server] = TRUE]
      /\ UNCHANGED <<main, conn, buf>>
  BY DEF start_server_receives, netVars
<1>2. Received /\ ~completed[Server]
  BY <1>1 DEF StreamInv, ServerInv, Listening, Accepting, Failed, Awaiting, Receiving, Done
<1>3. buf.len \in 1..MsgLen
  BY <1>2 DEF Received, StreamInv, Typed
<1>4. {c \in Clients : conn[c] \in {"open", "closed"}} # {}
  BY <1>2 DEF Received, Accepted
<1>5. {p \in Procs : completed[p]}' = {p \in Procs : completed[p]} \cup {Server}
  BY <1>1 DEF StreamInv, Typed, Procs
<1>6. /\ {c \in Clients : conn[c] \in {"open", "closed"}}'
           = {c \in Clients : conn[c] \in {"open", "closed"}}
      /\ {p \in Procs : main[p] = "returned"}' = {p \in Procs : main[p] = "returned"}
  BY <1>1
<1>7. (IF completed[Server] THEN buf.len ELSE 0)' = buf.len
  BY <1>1 DEF StreamInv, Typed, Procs
<1>8. Server \notin {p \in Procs : completed[p]}
  BY <1>2
<1> QED BY <1>3, <1>4, <1>5, <1>6, <1>7, <1>8 DEF Transfer!ServerReports

(***************************************************************************)
(* main returns once, after completed was raised.                          *)
(***************************************************************************)
LEMMA RefinesLeave ==
  ASSUME StreamInv, NEW p \in Procs,
         \/ p \in Clients /\ client_return(p)
         \/ p = Server /\ server_return
  PROVE  Transfer!Leave(p)
<1>1. /\ main[p] # "returned" /\ main' = [main EXCEPT ![p] = "returned"]
      /\ UNCHANGED <<completed, conn, buf>>
  BY DEF client_return, server_return, InLoop, netVars
<1>2. completed[p]
  <2>1. CASE p \in Clients /\ client_return(p)
    BY <2>1 DEF StreamInv, ClientInv, Done, client_return
  <2>2. CASE p = Server /\ server_return
    BY <2>2 DEF server_return
  <2> QED BY <2>1, <2>2
<1>3. {q \in Procs : main[q] = "returned"}' = {q \in Procs : main[q] = "returned"} \cup {p}
  BY <1>1 DEF StreamInv, Typed
<1>4. /\ {c \in Clients : conn[c] \in {"open", "closed"}}'
           = {c \in Clients : conn[c] \in {"open", "closed"}}
      /\ {q \in Procs : completed[q]}' = {q \in Procs : completed[q]}
      /\ (IF completed[Server] THEN buf.len ELSE 0)' = IF completed[Server] THEN buf.len ELSE 0
  BY <1>1
<1>5. p \in {q \in Procs : completed[q]} \ {q \in Procs : main[q] = "returned"}
  BY <1>1, <1>2
<1> QED BY <1>3, <1>4, <1>5 DEF Transfer!Leave

(***************************************************************************)
(* Every step of the programs is a step of OneTransfer or a stutter.       *)
(***************************************************************************)
LEMMA StepTransfers ==
  ASSUME StreamInv, [Next]_vars
  PROVE  [Transfer!Next]_(Transfer!vars)
<1> USE StreamAssumption DEF StreamInv, Typed, Accepted, eventVars, netVars, procVars
<1>1. ASSUME NEW c \in Clients, client_main(c)
      PROVE  UNCHANGED Transfer!vars
  <2>1. main[c] = "start" /\ conn' = [conn EXCEPT ![c] = "requested"]
        /\ main' = [main EXCEPT ![c] = "looping"] /\ UNCHANGED <<completed, buf>>
    BY <1>1 DEF client_main
  <2>2. conn[c] = "none"
    BY <2>1 DEF ClientInv, ClientAt, InCallback
  <2>3. \A d \in Clients : Accepted(d)' <=> Accepted(d)
    BY <2>1, <2>2
  <2>4. \A p \in Procs : main'[p] = "returned" <=> main[p] = "returned"
    BY <2>1
  <2> QED BY <2>1, <2>3, <2>4, Stutters
<1>2. ASSUME NEW c \in Clients, send_callback(c)
      PROVE  UNCHANGED Transfer!vars
  BY <1>2, Stutters DEF send_callback
<1>3. ASSUME NEW c \in Clients,
             send_callback_error(c) \/ err_handler(c) \/ client_close(c) \/ NetworkRuns(c)
      PROVE  UNCHANGED Transfer!vars
  BY <1>3, Stutters DEF send_callback_error, err_handler, client_close, NetworkRuns, transmit,
                        arrive, InLoop, Procs
<1>4. ASSUME NEW p \in Procs, callback_return(p)
      PROVE  UNCHANGED Transfer!vars
  BY <1>4, Stutters DEF callback_return
<1>5. ASSUME NEW c \in Clients, listener_callback(c)
      PROVE  UNCHANGED Transfer!vars
  BY <1>5, Stutters DEF listener_callback
<1>6. CASE server_main \/ listener_callback_return \/ start_server_throws \/ recv_callback_error
  BY <1>6, Stutters DEF server_main, listener_callback_return, start_server_throws,
                        recv_callback_error, InLoop, Procs
<1>7. ASSUME NEW c \in Clients, recv_callback(c)
      PROVE  UNCHANGED Transfer!vars
  \* The buffer changes, but nothing was reported of it.
  <2>1. ~completed[Server]
    BY <1>7 DEF recv_callback, InLoop, ServerInv, Listening, Accepting, Failed, Awaiting,
                Receiving, Unposted, Pending, InCallback, Done
  <2> QED BY <1>7, <2>1, Stutters DEF recv_callback
<1>8. ASSUME NEW c \in Clients, start_server_ends(c)
      PROVE  UNCHANGED Transfer!vars
  BY <1>8, Stutters DEF start_server_ends
<1>9. CASE UNCHANGED vars
  BY <1>9, Stutters DEF vars
<1> QED
  BY <1>1, <1>2, <1>3, <1>4, <1>5, <1>6, <1>7, <1>8, <1>9, RefinesConnect, RefinesClientReports,
     RefinesServerReports, RefinesLeave
     DEF Next, ServerRuns, ClientRuns, Failures, Transfer!Next, Procs

(***************************************************************************)
(* The coroutine programs implement OneTransfer, for any number of clients *)
(* and any failures.                                                       *)
(***************************************************************************)
THEOREM ImplementsTransfer == Spec => TransfersOnce
<1>1. Init => Transfer!Init
  BY DEF Init, Transfer!Init, Procs
<1> QED BY <1>1, StepTransfers, StreamInvHolds, PTL DEF Spec, Transfer!Spec, TransfersOnce
=============================================================================
