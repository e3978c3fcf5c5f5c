# A verification project for ucx-playground

The repository holds two generations of programs over UCX:

* a small C++ coroutine layer (`src/async`, `UcpContext`, `UcpWorker`,
  `UcpListener`, `UcpEndPoint`) with the executables `client` and `server`;
* two C programs, `ucp_client_server` and `ucp_hello_world`.

This directory holds TLA+ modules translated from them, TLC configurations that
check the modules on small instances, and TLAPS proofs of some of the results
for every instance. Paths below are relative to the repository root, so
`src/client.cpp` is what `PROJECT.json` calls `src/src/client.cpp`.

## Inventory

| component | state | operations | interacts through |
|---|---|---|---|
| awaitable events (`src/async/*_event.hpp`, `ucp_task.hpp`) | flag, one value, one coroutine handle | set (resumes the waiter inside the call), await_ready, await_suspend, await_resume, reset | callbacks set, coroutines await |
| `task` (`src/async/task.hpp`) | coroutine frame | starts at once, ends without suspending, drops exceptions | |
| client (`src/client.cpp`) | `completed`, one coroutine | connect, send, await, poll loop | endpoint, worker |
| server (`src/server.cpp`) | `completed`, one coroutine, receive buffer | accept, create endpoint, receive, await, poll loop | listener, endpoint, worker |
| `UcpEndPoint` | UCX endpoint | send_stream, recv_stream and their completion callbacks, error handler, destructor | heap handle of an event as `user_data` |
| `UcpListener` | UCX listener, one event | listener_callback, accept | |
| `UcpContext`, `UcpWorker` | UCX handles | construct, progress, destroy; constructors throw | |
| `ucx_helper`, `helper.hpp` | none | `getenv_or_throw`, `throw_with_stacktrace`; address formatting; `init_context`, `init_worker` (no caller) | constructors of the above |
| `ucp_client_server.c` (`ucp_util.h`) | `conn_request`, `connection_closed`, `am_data_desc`, `last`, `ctx.complete` | listen, keep or reject requests, receive iterations, FIN message, wait for close; connect, send iterations, receive FIN | Stream, Tag or Active Message API |
| `ucp_hello_world.c`, `hello_world_util.h` | `ep_status`, request contexts, out-of-band socket | address exchange, tag probe, three test modes, failure injection, barrier | TCP and UCX |

Everything is single-threaded per process. The concurrency is between processes,
and between a process' code and the callbacks that run inside
`ucp_worker_progress`. What is hard:

* a set resumes a coroutine in the middle of a callback; the coroutine may run
  to its end and destroy endpoint, buffer and event references before the
  callback goes on;
* a coroutine sleeps on different events in turn, while callbacks of both can come;
* one progress may run several callbacks, so loops that poll a flag or a
  counter see several events at once;
* sends complete before the peer receives, peers crash, requests queue up
  while nobody progresses the worker they wait in;
* globals (`connection_closed`, `am_data_desc`, `last`) live across sessions;
* a process goes to sleep on a file descriptor while messages arrive;
* one of two processes is killed, and the other has to hear of it wherever it is;
* two processes leave together, each needing the other's worker to disconnect;
* any call fails, and constructors, labels and destructors release what is there.

`PROJECT.json` lists each hazard at its line with the properties that would
catch it.

## Modules

| module | models | state and actions |
|---|---|---|
| `EventOps` | the three awaitables as operators on a record | `signaled`, `data`, `waiter` are `signaled_`, `data`, `waiter_handle`. `set_or` is `set_enter` before `resume()` and `set_leave` after it |
| `AwaitableEvent` | one event under every use of its interface | `Run`, `Suspend`, `AwaitReady`, `GiveUp` are what coroutines do; `Set`, `SetReturns`, `Reset` what callbacks do. `kind` chooses the awaitable |
| `AsyncStream` | several `client` processes and one `server` | one action per callback and per stretch of a coroutine between suspensions; named after the source functions. Uses `EventOps` for the listener's and the operations' events |
| `OneTransfer` | what the coroutine programs promise | the server takes one client, that client and the server report once each, and only who reported returns from main |
| `SerialService` | what `ucp_client_server` promises | clients ask, one is admitted at a time, others are refused only meanwhile, an acknowledgement follows all deliveries |
| `ClientServer` | `ucp_client_server.c`: several clients, one server | client: `start_client` to `client_receives_fin`; server: `server_conn_handle_cb` on the connection worker, the others on the data worker |
| `HelloWorld` | `ucp_hello_world.c` with `connect_common` and `barrier` of `hello_world_util.h`: one client, one server | `step[p]` is where a process is; one action per stretch of main, `run_ucx_client`, `run_ucx_server` between calls that wait, one per kind of thing a progress call finds |
| `Lifetimes` | what each of the six programs creates and destroys, on every error path | `at` is the next call, `live` the objects that exist; `Create`, `Try`, `Destroy`, `Free` are the kinds of call |
| `EventOps_proofs` | lemmas about the operators of `EventOps` | used by `AsyncStream_proofs` |
| `AwaitableEvent_proofs`, `AsyncStream_proofs`, `ClientServer_proofs`, `HelloWorld_proofs`, `Lifetimes_proofs` | theorems about the module each extends | |
| `MC...` | symmetry sets for TLC | |

Definitions called *faulty variant* are bugs the code does not have. Each
replaces the definition after it to show that a property notices; nothing else
uses them.

### AwaitableEvent

`setting` says that a set is on the stack inside `resume()`, `running` which
coroutine has the thread. Callbacks come only from main's progress call
(`MainRuns`). `kind` is chosen once. `sets` counts calls of `set_or`, `set` and
`register_callback`, up to `MaxSets`. A `single_use_event` and a `ucp_task` keep their
handle after `resume()` and take every value: a further set resumes whoever the
handle names, asleep there, elsewhere, or destroyed (which is undefined; the call
returns). `ResumesOnlySuspended` is therefore about the sets these two are made
for, the first (`Settable`), and about every set of an auto-reset event.
`suspends` is the second look at the flag in `await_suspend`; nothing can come between
the two looks of one await on one thread.

### AsyncStream

`setOr[p]` is the event whose `set_or` frame is on the stack of process `p`;
while it is there, callbacks do not run, except in `~UcpEndPoint`, because
`ucp_ep_destroy` progresses the worker: `listener_callback` is enabled there.
`handle[p]` is the heap object passed as `user_data`. A process ends by
returning, by `std::terminate` (an exception thrown through the C frames of
UCX) or by `exit(1)`; nothing of it runs afterwards, which is why the stretches
of `start_server` inside the listener's callback ask for `~Ended(Server)`.

`OneTransfer` sees of this state the accepted clients (`session`), the raised
`completed` flags (`reported`), the length the server logs (`received`) and who
returned (`left`).

UCX is external. What is assumed of it: a connection is up once the server has
created its endpoint; a pending send reads its buffer when it leaves, possibly
after `nbx` returned; a receive without WAITALL may complete with any non-empty
part of the message; the client's endpoint, created with
`UCP_ERR_HANDLING_MODE_PEER`, gets its error handler when the peer goes away and
not after it was closed. `InPlace` allows `ucp_stream_send_nbx` to complete at
once, as the API permits and `ucp_client_server.c:327` expects, although a
first send on a new endpoint usually does not. `MayFail` allows failures.
A client that connects before the server listens keeps its request under way;
its refusal is one of the failures.

### ClientServer

`creq` and `sreq` are the operation a process waits for: "posted", "left" (its
bytes are gone), "ok" or "error" once the callback ran, and "waiting" in the
loop on `am_data_desc.complete`. `unseen` is `complete - last`. Message `i` of a
client is the number `i`; `sent`, `arrived` and `fetched` count how far the
messages got; `buf` is what the current receive buffer holds and `shown` what
each finished iteration had in it. Requests stay "queued" while the connection
worker is not progressed, and while it is, several callbacks may run before the
wait loop ends. `ep_failed` is UCX's state of the server's endpoint, `connection_closed` the
program's flag: `err_cb` raises both, only the loop behind the FIN message reads the
flag, and only `server_create_ep` lowers it for the next client. With `rndv` a send completes only when
the receiver has the data. `send_recv_type` and `rndv` never change; the sets
`CommTypes` and `Rndvs` say which values a run explores.

Assumed of UCX: messages of one client arrive in order; an active message
without a callback is dropped; requests on a failed endpoint, pending or posted
later, end with an error, except tag receives, which belong to the worker;
a send that was delivered completes without error; `err_cb` is called after the
peer closed or died.

### HelloWorld

The TCP connection is `oob_sock` and `inbox`; a process that ends or is killed
closes its end. `msg[p]` follows the one tagged message to `p`: "posted", "left"
its sender, "arrived" at the worker, "unexpected" once a progress call put it in
the queue the probe looks at, "taken" when the receive has it. `req[p]` is what
`ucx_wait` waits for. `loss[p]` is UCX's detection of the lost peer: under way
("pending"), or reported to `failure_handler` ("handled"), which writes `ep_status`
through the `user_data` UCX passes. `efd` is the client's worker descriptor:
`ucp_worker_arm` refuses while something is `Pending`, and an event on an armed
worker makes it readable; `ucp_worker_wait` of `-w` does the same inside UCX.

The options are chosen in `Init`, the same for both processes: test mode,
`-e` with its kill points, and whether the string goes by rendezvous. `faulty`
lets any library call and allocation fail; without it only what follows from the other
process' end fails. `-e` selects `UCP_ERR_HANDLING_MODE_PEER` as well (`PeerMode`).

Assumed of UCX: a send that completed is delivered although its sender dies; a
lost peer is detected in PEER mode only (by the transport or by keepalive); a
request pending on a lost endpoint ends with an error; a forced close ends at
once, a flushing one needs the worker of the peer.

### Lifetimes

One process at a time, chosen in `program`; what processes say to each other is
in the other modules, so a wait ends well or with an error. `failed` and
`misused` are history: whether a call failed or UCX reported an error, and whether
something was given back that was not live. Giving back an unwritten handle is
undefined behaviour: the process ends or goes on. `buffers` and `pending` are the iov of
`client_server_do_work` and UCX's use of it; `buffer_free` of anything but a full iov
would free pointers a second time and counts as `misused`.

A process has four ends: main returned ("exit"), `exit(1)` was called in `recv_stream`
("exited", no destructor ran), an exception nobody catches or undefined behaviour
("terminated"), or main polls a flag that nobody will raise ("stuck": a dropped
exception of `start_server`, a failed send or one complete in place; the error
handler of the client's endpoint may still end that one). `NothingLeft` says what is left at each.

## Runs

| run | instance | shows |
|---|---|---|
| `event` | each awaitable, 3 coroutines, 2 values, 4 sets | no missed signal, only sleepers are resumed, a lone coroutine is not forgotten |
| `stream_safety` | 3 clients, 2-byte messages, failures, immediate completions | lifetimes, one session, honest `completed`, teardown order; the programs implement `OneTransfer` |
| `stream_progress` | 3 clients, no failures, fair | the server returns, every client ends |
| `cs_safety` | 3 clients, 3 iterations, all APIs, both protocols, crashes | one client at a time, order, acknowledgement, release, nothing left over for the next session, live AM buffers |
| `hello` | every test mode, every `-e`, both protocols, with and without failing calls, fair | the client never sleeps on an event, workers outlive the peer's endpoint, exit status 0 means delivered, the survivor of a kill ends, without failures both end with 0 |
| `lifetimes` | all six programs, 3 iov entries, any call fails | parents outlive children, misuse only in the classes and only after a failed call, buffers stay while UCX has them and are freed once, what is left at each of the four ends |
| `cs_progress` | 2 clients, 2 iterations, all APIs, both protocols, crashes, fair | `ClientServer` implements `SerialService`; clients end, the kept one is served, a crashed one does not hold a Stream server |

Some properties name the API they are promised for: `InOrder` leaves out eager
active messages, for which `cs_am_overwrite` shows the opposite; `EveryClientEnds`
and `KeptIsServed` leave out active messages, where the FIN message can be lost
(`cs_am_fin`); `NotHeldForEver` is about streams, and `cs_always_listens` shows
what happens over tags.

Bounds. Three coroutines allow one asleep, one overwritten and one running. Three
clients are the one served, the one whose request is latched (or queued) and
the one whose request is dropped (or rejected); two already are a served and a
waiting or rejected one, which is what the liveness properties tell apart. A
message of two bytes can be split. Three iterations have a first, a middle and
a last one. The counters are bounded by `MaxSets`, `MsgLen` and `NumIterations`.
`HelloWorld` has two processes and two messages, as the program does: its run is
the whole of it. Three iov entries have a first, a middle and a last one to fail at.
Deadlock is not checked: programs end, and a server may wait for clients that
are all gone. Symmetry under permutations of clients (coroutines, values) is
used in the safety runs only.

Fairness. A main loop calls progress until its flag is up, so a process that can
step does (`WF` per process); the network delivers and detects lost peers (`WF`);
failures and crashes have none. In `HelloWorld` there is `WF` for each process'
own steps, for the progress calls of its loops finding what is there
(`progress_worker`), for a message leaving and arriving, and for detecting a lost peer, which
is what the keepalive of PEER mode is for; events of UCX's own have none, so a
sleeper may not count on them.

### Findings

Runs expected to be violated; `PROJECT.json` quotes the lines.

* `stream_payload`: `send_stream(&data)` sends the bytes of a by-value pointer
  parameter whose frame is gone; `client.cpp:29` logs the data as sent.
* `cs_always_listens`: with the Tag API a client that crashes is waited for
  without end; with the others the failed session ends `run_server`.
  `ucp_client_server.c:989` says the server is always up listening.
* `cs_am_fin`: the FIN message is lost when it arrives before its callback is
  registered (`ucp_client_server.c:923`).
* `cs_am_overwrite`: of two eager active messages that arrive in one progress the
  first is overwritten, and the second iteration has a buffer nothing was copied
  to (`ucp_client_server.c:511`, `565`).

* `hello_peer_failure`: after a failed send `run_ucx_server` returns -1 when a
  failure mode was requested and 0 when none was; the comment at
  `ucp_hello_world.c:491` says the opposite of the condition at 488.

Behaviour the models contain that no property promises against:

* An await that finds an auto-reset event signaled leaves the flag up, so later
  values are refused although the one in the slot was taken (`AwaitReady`).
* WAITALL is commented out and the length ignored: a receive may end with a part
  of the message (`recv_callback`). `CompletedMeansTransfer` says what is left.
* The result of `ucp_stream_send_nbx` is ignored: a send that completes at once is
  never reported, and its client waits until its error handler ends it (`client_main`).
* An exception of a coroutine is dropped, and main polls for ever
  (`start_server_throws`).
* The client of `ucp_hello_world` exits with 0 when the server closes the socket
  during the address exchange, because `recv` returned 0 (`client_receives_eof`);
  `ZeroMeansDelivered` therefore starts after the exchange.
* Without `-e` a server whose send fails waits for a `failure_handler` that error
  mode NONE does not call (`server_sent`), and a server whose client fails before its
  send waits for the message (`server_probes`). Progress is claimed without such failures.
* After a failed address exchange `oob_sock` is not closed, and `run_ucx_server`
  never frees its copy of the client's address; `NothingLeft` names both.
* `UcpContext` and `UcpWorker` clean up a handle that was not written when its
  creation failed, and `UcpContext` ignores what `ucp_config_read` returned;
  `MisuseOnlyAfterFailure` says that this is all.

## Proofs

`AwaitableEvent_proofs`, for every set of coroutines and values and any
`MaxSets`, from `EventAssumption`, for all three kinds:

* `TypeCorrect`: `TypeOK`.
* `NeverMissesSignal`, `ResumeIsSafe` from `EventInvHolds`. The properties are
  not inductive: a handle may name a coroutine in any state while `resume()` is
  on the stack. `HandleFresh` adds that the flag is up then, so nobody reads
  the handle, and that otherwise the handle of an event that can still be set
  (`Settable`) names a sleeper under a lowered flag.
* `OwnerNeverStranded`: a coroutine that is the only one started does not sleep
  while `resume()` of an auto-reset event is on the stack (`Own`), so clearing the
  handle forgets nobody.

`ClientServer_proofs`, for every set of clients, number of iterations, API and
protocol, with crashes, from `ServerAssumption`. None of the properties is
inductive; four invariants build on each other:

* `LinkInv` (about `conn_request`): a client that has not started has no request,
  and the request a listening server holds is marked held. It gives `OneClient`.
* `DeliveryInv` (about `shown` and `fin`): sessions start from an empty history,
  the FIN message leaves at the full count. It gives `FinMeansDelivered`.
* `ClosedInv` (about `connection_closed`): while the server serves, the flag agrees
  with `ep_failed` and is about the client it serves, and a client that has ended stays so. It gives
  `ReleasesOnlyGone`.
* `FlowInv` (about `sent`, `arrived`, `fetched`, `unseen`, `buf`): what left the
  worker is what was finished, what the current iteration holds and what the AM
  counter has not given out (`Taken`); with the rendezvous protocol a client is at
  most one message ahead, which is why an iteration cannot see a later message. It gives
  `TypeCorrect`, `IterationsInOrder`, `SessionsClean` and `AmBuffersLive`. The last two
  hold of eager active messages too: they overwrite each other, but are all counted
  when the server sends the FIN message.

`Implements` is the refinement `Spec => Service!Spec`: from the first three
invariants, `StepRefines` maps each action to the step of `SerialService` it is
(`start_client` asks, `server_conn_handle_cb` admits or refuses, `server_next`
delivers, `client_receives_fin` acknowledges, `client_fails` and `client_crashes`
lose, `server_next_client` releases) or shows it invisible.

`AsyncStream_proofs`, for every set of clients, `MsgLen`, `InPlace` and `MayFail`,
from `StreamAssumption`. One inductive invariant, `StreamInv`, gives all theorems.
No property is inductive: each speaks of one or two variables, and what a callback
finds depends on where its coroutine, the operation, the handle and main are at
once. `StreamInv` therefore reads a process' progress off all of them:

* `Typed` is `TypeOK` with the domain of `event`; `TypedHolds` proves it first.
* `ClientInv`: a client is before its send, has the send pending (the coroutine
  registered under a lowered flag, the handle live), is inside the send's
  callback, or is done; `completed` is up exactly when its coroutine has ended, and a
  coroutine that was resumed means bytes on the wire, hence an accepted connection.
* `ServerInv`: the server is `Listening`, `Accepting`, `Failed`, `Awaiting` or
  `Receiving`. From `Awaiting` on, the listener's event is `Forgotten`, so further
  requests are latched or dropped and resume nobody; before the endpoint is made
  there is `NoSession`; from `Receiving` on, the buffer holds bytes of the
  accepted client (`Received`).
* `OneSession` itself, which `start_server_ends` needs: the connection it closes is
  the only open one.

`ClientFrame` and `ServerFrame` say what of the other processes' state each part
depends on, so that the proof of a step deals with the process that takes it. The theorems:
`TypeCorrect`, `HandlesOutlive`, `WaitersAsleep`, `SingleSession`,
`CompletedTransferred`, `TeardownOrdered`. `ImplementsTransfer` is the refinement
`Spec => Transfer!Spec`: `start_server_accepts` and `recv_stream_exits` connect,
`start_client_worker` and `start_server_receives` report, `client_return` and
`server_return` leave, and every other action stutters. `recv_callback` is the one that
needs the invariant for it: it writes the buffer, and may only because the
server has not reported.

`HelloWorld_proofs`, for every choice of options, from `HelloAssumption`. `HelloInv` is

* `ClientSleeps`: from `progress_worker` to `epoll_wait` the client has found
  neither its message nor a loss. It gives `WakeupsKept`.
* `Holds`: endpoint, worker, socket and request against where the process is: the
  worker goes at the very end, and the barrier is for a process without PEER mode that
  succeeded so far.
* `InboxInv`: what is on the TCP connection; the dummy byte of the barrier is there only
  from a process that has closed its endpoint (`Past`).
* `ServerHasMessage`, `ClientReceives`: who has which message at which step.
* `ZeroAtEnd`: without PEER mode, who ends with 0 has a peer that is `Past`, and the
  server's 0 means the client has the string. With `Holds` it gives `RemoteFirst`,
  with `ClientReceives` `ZeroIsDelivery`.

`TypeCorrect` is `TypeOK`. TLC explores all of these instances too; the proofs
show why the properties hold, step by step.

`Lifetimes_proofs`, for every `IovCnt`, from `LifetimesAssumption`. `LifeInv` is a
table: for each program (`CsAt`, `CoroAt`, `HelloAt`) and each call, exactly which
objects are live, or, at labels several paths lead to, between which bounds
(`RowWith`); for each end, too. `misused` stays down in the C programs and implies `failed` in the classes. The table
gives `ParentsAreLive`, `MisuseFollowsFailure` and `LittleLeft`. `BufferInv` adds how
far the iov is filled at each call of an iteration and that an operation is pending
at `request_wait` only; it gives `BuffersAreHeld`, that an iov of any length is freed only
when UCX is done with it, and `TypeCorrect` with the table.

Every invariant and every action property of the passing runs is thus proved, and
both refinements. Only model-checked are the liveness properties, which are out of the
prover's reach: `ServerReturns` and `ClientsEnd` of `AsyncStream`, `EveryClientEnds`,
`KeptIsServed` and `NotHeldForEver` of `ClientServer`, `SurvivorEnds` and `BothEndWell` of
`HelloWorld`. The properties of the runs that are expected to be violated have no theorem.

## Not modelled

`parse_cmd`, address formatting and printing, filling and comparing payloads, the
memory-type wrappers (`malloc` or CUDA): no behaviour a property is about.
`init_context` and `init_worker` of `ucx_helper.cpp`, and `recv_stream(T&)` have no caller.
Different options on the two sides: usage asks for the same `-i`, and the models
give both sides the same values of all others too; a server of the AM API that
gets a message of another length waits for ever (`ucp_client_server.c:482`).
The `sleep(5)` before an injected kill is timing. `AsyncStream` assumes the
constructors of client and server succeed; `Lifetimes` has what happens otherwise.

## Plan

1. Done: all modules, runs and proofs above.
2. Proofs: the safety half of what the liveness properties rest on, for any number of
   clients: a server that waits in a loop has an action of its own, of its client
   or of the network that ends the wait (`ClientServer`, without crashes), and a
   client asleep in `HelloWorld` has a message or a loss under way.
3. Different message lengths on the two sides in `ClientServer` (the ignored active
   message).
