--------------------------- MODULE EventOps_proofs ---------------------------
(***************************************************************************)
(* What the operators of the auto-reset event return, for any event.       *)
(***************************************************************************)
EXTENDS EventOps, TLAPS

(***************************************************************************)
(* set_or up to resume(): the flag is up, the waiter is the same, and only *)
(* a lowered flag lets the value in.                                       *)
(***************************************************************************)
LEMMA SetEnter ==
  ASSUME NEW V, NEW H, NEW ev \in Event(V, H), NEW v \in V
  PROVE  LET new == set_enter("auto_reset_event", ev, v)
         IN  /\ new \in Event(V, H)
             /\ new.waiter = ev.waiter /\ new.signaled
             /\ new.data = IF ev.signaled THEN ev.data ELSE v
BY DEF Event, set_enter, takes_value

(***************************************************************************)
(* set_or after resume(): the event is as good as new, but for the value.  *)
(***************************************************************************)
LEMMA SetLeave ==
  ASSUME NEW V, NEW H, NEW ev \in Event(V, H)
  PROVE  LET new == set_leave("auto_reset_event", ev)
         IN  new \in Event(V, H) /\ new.waiter = NoHandle /\ ~new.signaled
BY DEF Event, set_leave

(***************************************************************************)
(* A co_await that finds the flag lowered registers the coroutine, and     *)
(* leaves flag and value alone.                                            *)
(***************************************************************************)
LEMMA AwaitSuspend ==
  ASSUME NEW V, NEW H, NEW ev \in Event(V, H), NEW h \in H
  PROVE  LET new == await_suspend("auto_reset_event", ev, h)
         IN  new \in Event(V, H) /\ (~ev.signaled => new.waiter = h /\ ~new.signaled)
BY DEF Event, await_suspend, suspends

(***************************************************************************)
(* A new event is not signaled and nobody waits for it.                    *)
(***************************************************************************)
LEMMA FreshEvent ==
  ASSUME NEW V, NEW H
  PROVE  /\ fresh_event \in Event(V, H)
         /\ fresh_event.waiter = NoHandle /\ ~fresh_event.signaled
BY DEF Event, fresh_event
=============================================================================
