------------------------------ MODULE EventOps ------------------------------
(***************************************************************************)
(* The awaitable one-slot events of src/async as operators on a record.    *)
(*                                                                         *)
(* An event holds a flag (signaled_), the value of the set_or that raised  *)
(* it (data) and at most one suspended coroutine (waiter_handle).  A set   *)
(* resumes the coroutine from inside the call, so set_or is two operators: *)
(* what it does before resume() and what it does once resume() returns.    *)
(* Between the two the coroutine runs on top of set_or's frame.            *)
(***************************************************************************)

CONSTANTS
  NoValue,   \* an empty std::optional
  NoHandle   \* a null std::coroutine_handle

(***************************************************************************)
(* The three awaitables.  They differ in what a second set does and in     *)
(* whether the handle is cleared after resume().                           *)
(***************************************************************************)
Kinds == {"auto_reset_event", "single_use_event", "ucp_task"}

Event(values, handles) ==
  [signaled : BOOLEAN, data : values \cup {NoValue}, waiter : handles \cup {NoHandle}]

fresh_event == [signaled |-> FALSE, data |-> NoValue, waiter |-> NoHandle]

-----------------------------------------------------------------------------
(* Faulty variants, one for each of the next operators a property guards:  *)
(* the flag is lowered too early or not looked at, the handle is kept or   *)
(* not called.                                                             *)
lower_before_resume(kind, ev, v) ==
  [ev EXCEPT !.data = v, !.signaled = ev.waiter = NoHandle]

never_resume(kind, ev) == FALSE

keep_handle(kind, ev) == [ev EXCEPT !.signaled = FALSE]

never_ready(ev) == FALSE

-----------------------------------------------------------------------------
\* An auto-reset event that is already signaled drops the value; the other two
\* kinds take every value.
takes_value(kind, ev) == kind = "auto_reset_event" => ~ev.signaled

set_enter(kind, ev, v) ==
  IF takes_value(kind, ev) THEN [ev EXCEPT !.data = v, !.signaled = TRUE] ELSE ev

calls_resume(kind, ev) == takes_value(kind, ev) /\ ev.waiter # NoHandle

\* Only the auto-reset event forgets the handle and lowers the flag.
set_leave(kind, ev) ==
  IF kind = "auto_reset_event"
  THEN [ev EXCEPT !.waiter = NoHandle, !.signaled = FALSE]
  ELSE ev

await_ready(ev) == ev.signaled

\* await_suspend looks at the flag again: a raised one lets the coroutine go on.
\* ucp_task's does not look.
suspends(kind, ev) == kind = "ucp_task" \/ ~ev.signaled

await_suspend(kind, ev, h) == IF suspends(kind, ev) THEN [ev EXCEPT !.waiter = h] ELSE ev
=============================================================================
