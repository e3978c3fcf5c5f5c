--------------------------- MODULE AwaitableEvent ---------------------------
(***************************************************************************)
(* One awaitable event of src/async under every use its interface allows:  *)
(* coroutines that await it, leave and come back, and callbacks that set   *)
(* it.  Everything runs on one thread: a callback is made by               *)
(* ucp_worker_progress, which only main calls, and a set resumes the       *)
(* waiting coroutine on top of its own frame.                              *)
(***************************************************************************)
EXTENDS EventOps, Naturals

CONSTANTS
  Coroutines,  \* the coroutines that may await the event
  Values,      \* what callbacks set
  MaxSets      \* bound on the sets

ASSUME EventAssumption ==
  /\ MaxSets \in Nat \ {0}
  /\ NoValue \notin Values
  /\ NoHandle \notin Coroutines

VARIABLES
  kind,     \* which awaitable of src/async; it never changes
  ev,       \* the event
  co,       \* state of each coroutine
  running,  \* the coroutine on the thread, NoHandle when main is
  setting,  \* is a set on the stack, inside resume()?
  sets      \* sets made so far

vars == <<kind, ev, co, running, setting, sets>>

\* "away": suspended on some other awaitable; "done": frame destroyed.
CoStates == {"created", "running", "suspended", "away", "done"}

TypeOK ==
  /\ kind \in Kinds
  /\ ev \in Event(Values, Coroutines)
  /\ co \in [Coroutines -> CoStates]
  /\ running \in Coroutines \cup {NoHandle}
  /\ setting \in BOOLEAN
  /\ sets \in 0..MaxSets

Init ==
  /\ kind \in Kinds
  /\ ev = fresh_event
  /\ co = [c \in Coroutines |-> "created"]
  /\ running = NoHandle
  /\ setting = FALSE
  /\ sets = 0

MainRuns == running = NoHandle /\ ~setting

-----------------------------------------------------------------------------
(* Coroutines.                                                             *)

\* main calls the coroutine (initial_suspend never suspends), or another
\* awaitable's callback resumes it.
Run(c) ==
  /\ MainRuns
  /\ co[c] \in {"created", "away"}
  /\ co' = [co EXCEPT ![c] = "running"]
  /\ running' = c
  /\ UNCHANGED <<kind, ev, setting, sets>>

\* co_await on an unsignaled event: the handle is registered, control returns
\* to whoever started or resumed the coroutine.
Suspend(c) ==
  /\ running = c
  /\ ~await_ready(ev) /\ suspends(kind, ev)
  /\ ev' = await_suspend(kind, ev, c)
  /\ co' = [co EXCEPT ![c] = "suspended"]
  /\ running' = NoHandle
  /\ UNCHANGED <<kind, setting, sets>>

\* co_await on a signaled event returns its value at once.  Nothing lowers the
\* flag: signaled_ is const here.
AwaitReady(c) ==
  /\ running = c
  /\ await_ready(ev) \/ ~suspends(kind, ev)
  /\ UNCHANGED vars

\* The coroutine awaits something else, or runs to its end (final_suspend
\* never suspends, so its frame is destroyed).
GiveUp(c, s) ==
  /\ running = c
  /\ co' = [co EXCEPT ![c] = s]
  /\ running' = NoHandle
  /\ UNCHANGED <<kind, ev, setting, sets>>

-----------------------------------------------------------------------------
(* Callbacks.                                                              *)

\* Faulty variant: one call more than the bound.
OneSetTooMany(v) ==
  /\ MainRuns
  /\ sets <= MaxSets
  /\ sets' = sets + 1
  /\ UNCHANGED <<kind, ev, co, running, setting>>

\* A callback sets the event.  With a handle, resume() puts its coroutine on
\* the thread, at whatever it is suspended on.  A single_use_event and a
\* ucp_task keep the handle: the coroutine may have ended long ago, and then
\* resume() is undefined; the run goes on with what a call that returns leaves.
Set(v) ==
  /\ MainRuns
  /\ sets < MaxSets
  /\ sets' = sets + 1
  /\ ev' = set_enter(kind, ev, v)
  /\ IF calls_resume(kind, ev)
     THEN /\ setting' = TRUE
          /\ IF co[ev.waiter] = "done"
             THEN UNCHANGED <<co, running>>
             ELSE /\ co' = [co EXCEPT ![ev.waiter] = "running"]
                  /\ running' = ev.waiter
     ELSE UNCHANGED <<co, running, setting>>
  /\ UNCHANGED kind

\* resume() returns: the coroutine suspended again or ended.
SetReturns ==
  /\ setting
  /\ running = NoHandle
  /\ ev' = set_leave(kind, ev)
  /\ setting' = FALSE
  /\ UNCHANGED <<kind, co, running, sets>>

\* single_use_event::reset is public; auto_reset_event's is out of reach
\* behind its handle and ucp_task has none.
Reset ==
  /\ kind = "single_use_event"
  /\ ev.signaled
  /\ ev' = [ev EXCEPT !.signaled = FALSE]
  /\ UNCHANGED <<kind, co, running, setting, sets>>

Next ==
  \/ \E c \in Coroutines :
       Run(c) \/ Suspend(c) \/ AwaitReady(c) \/ \E s \in {"away", "done"} : GiveUp(c, s)
  \/ \E v \in Values : Set(v)
  \/ SetReturns
  \/ Reset

Spec == Init /\ [][Next]_vars

-----------------------------------------------------------------------------
(* Properties.                                                             *)

\* An auto-reset event may be set again and again; the other two keep the
\* handle, and are safe to set once.
Settable == kind = "auto_reset_event" \/ sets = 0

(***************************************************************************)
(* resume() is only ever called on a coroutine suspended on this event:    *)
(* never on one that runs below on the stack, waits elsewhere or whose     *)
(* frame is destroyed.  set_or owes it, for every set, to the two          *)
(* assignments after resume(); set and register_callback for the first.    *)
(***************************************************************************)
ResumesOnlySuspended ==
  [][~setting /\ setting' /\ Settable => co[ev.waiter] = "suspended"]_vars

(***************************************************************************)
(* No wake-up is missed: when no set is in progress, a signal that is up   *)
(* and a coroutine that still sleeps on it do not coexist.  await_ready    *)
(* looks at the flag and await_suspend registers with no callback in       *)
(* between, and set_or looks at waiter_handle after it raised the flag.    *)
(***************************************************************************)
NoMissedSignal ==
  ~setting /\ ev.signaled => \A c \in Coroutines : ev.waiter = c => co[c] # "suspended"

(***************************************************************************)
(* While only one coroutine was ever started on the event, as every event  *)
(* of client.cpp and server.cpp has it, a coroutine asleep on the event is *)
(* the one the next set resumes: no interleaving of co_await and set_or    *)
(* strands it.  A second co_await would overwrite the only handle          *)
(* (await_suspend).                                                        *)
(***************************************************************************)
NoneStranded ==
  \A c \in Coroutines :
    co[c] = "suspended" /\ (\A d \in Coroutines \ {c} : co[d] = "created") => ev.waiter = c
=============================================================================
