----------------------- MODULE AwaitableEvent_proofs -----------------------
(***************************************************************************)
(* What holds of the three awaitables for every set of coroutines and      *)
(* values and every number of sets.                                        *)
(***************************************************************************)
EXTENDS AwaitableEvent, TLAPS

(***************************************************************************)
(* Every operation keeps the event, the coroutines and the thread within   *)
(* their types, whichever the kind: an action per coroutine step and per   *)
(* callback.                                                               *)
(***************************************************************************)
THEOREM TypeCorrect == Spec => []TypeOK
<1> USE EventAssumption DEF EventAssumption, TypeOK, Event, CoStates
<1>1. Init => TypeOK
  <2> SUFFICES ASSUME Init PROVE TypeOK
    OBVIOUS
  <2>1. ev \in Event(Values, Coroutines) /\ co \in [Coroutines -> CoStates]
    BY DEF Init, fresh_event
  <2>2. kind \in Kinds /\ running \in Coroutines \cup {NoHandle} /\ setting \in BOOLEAN
    BY DEF Init
  <2>3. sets \in 0..MaxSets
    BY DEF Init
  <2> QED BY <2>1, <2>2, <2>3
<1>2. TypeOK /\ [Next]_vars => TypeOK'
  <2> SUFFICES ASSUME TypeOK, [Next]_vars
               PROVE  TypeOK'
    OBVIOUS
  <2>1. ASSUME NEW c \in Coroutines, Run(c)
        PROVE  TypeOK'
    BY <2>1 DEF Run
  <2>2. ASSUME NEW c \in Coroutines, Suspend(c)
        PROVE  TypeOK'
    BY <2>2 DEF Suspend, await_suspend, suspends
  <2>3. ASSUME NEW c \in Coroutines, AwaitReady(c)
        PROVE  TypeOK'
    BY <2>3 DEF AwaitReady, vars
  <2>4. ASSUME NEW c \in Coroutines, NEW s \in {"away", "done"}, GiveUp(c, s)
        PROVE  TypeOK'
    BY <2>4 DEF GiveUp
  <2>5. ASSUME NEW v \in Values, Set(v)
        PROVE  TypeOK'
    <3>1. ev' \in Event(Values, Coroutines)
      BY <2>5 DEF Set, set_enter
    <3>2. co' \in [Coroutines -> CoStates] /\ running' \in Coroutines \cup {NoHandle}
      BY <2>5 DEF Set, calls_resume
    <3>3. sets' \in 0..MaxSets
      BY <2>5 DEF Set
    <3>4. kind' \in Kinds /\ setting' \in BOOLEAN
      BY <2>5, Zenon DEF Set
    <3> QED BY <3>1, <3>2, <3>3, <3>4
  <2>6. CASE SetReturns
    BY <2>6 DEF SetReturns, set_leave
  <2>7. CASE Reset
    BY <2>7 DEF Reset
  <2>8. CASE UNCHANGED vars
    BY <2>8 DEF vars
  <2> QED BY <2>1, <2>2, <2>3, <2>4, <2>5, <2>6, <2>7, <2>8 DEF Next
<1> QED BY <1>1, <1>2, PTL DEF Spec

-----------------------------------------------------------------------------
(***************************************************************************)
(* The inductive invariant.  While the event is safe to set, its handle    *)
(* names a coroutine asleep on it, except inside resume(), where nobody    *)
(* reads the handle; flag and handle are otherwise never up together.  An  *)
(* auto-reset event is always safe to set again because set_or clears the  *)
(* handle; the other two keep it, and resume whatever it names.            *)
(***************************************************************************)
HandleFresh ==
  /\ ~setting /\ Settable /\ ev.waiter # NoHandle
       => co[ev.waiter] = "suspended" /\ ~ev.signaled
  /\ ev.signaled /\ ev.waiter # NoHandle => co[ev.waiter] # "suspended"
  /\ setting /\ kind = "auto_reset_event" => ev.signaled
  /\ setting \/ ev.signaled => sets # 0
  /\ running # NoHandle => co[running] = "running"

EventInv == TypeOK /\ HandleFresh

(***************************************************************************)
(* EventInv is inductive, for each of the three awaitables.                *)
(***************************************************************************)
LEMMA EventInvHolds == Spec => []EventInv
<1> USE EventAssumption DEF EventAssumption, HandleFresh, Settable
<1>1. Init => HandleFresh
  BY DEF Init, fresh_event
<1>2. TypeOK /\ HandleFresh /\ [Next]_vars => HandleFresh'
  <2> SUFFICES ASSUME TypeOK, HandleFresh, [Next]_vars
               PROVE  HandleFresh'
    OBVIOUS
  <2> USE DEF TypeOK, Event
  <2>1. ASSUME NEW c \in Coroutines, Run(c)
        PROVE  HandleFresh'
    BY <2>1 DEF Run, MainRuns
  <2>2. ASSUME NEW c \in Coroutines, Suspend(c)
        PROVE  HandleFresh'
    BY <2>2 DEF Suspend, await_suspend, suspends, await_ready
  <2>3. ASSUME NEW c \in Coroutines, AwaitReady(c)
        PROVE  HandleFresh'
    BY <2>3 DEF AwaitReady, vars
  <2>4. ASSUME NEW c \in Coroutines, NEW s \in {"away", "done"}, GiveUp(c, s)
        PROVE  HandleFresh'
    BY <2>4 DEF GiveUp
  <2>5. ASSUME NEW v \in Values, Set(v)
        PROVE  HandleFresh'
    <3>1. sets' # 0 /\ kind' = kind /\ ~setting
      BY <2>5 DEF Set, MainRuns
    <3>2. CASE calls_resume(kind, ev)
      BY <2>5, <3>1, <3>2 DEF Set, set_enter, calls_resume
    <3>3. CASE ~calls_resume(kind, ev)
      BY <2>5, <3>1, <3>3 DEF Set, set_enter, calls_resume, takes_value, MainRuns
    <3> QED BY <3>2, <3>3
  <2>6. CASE SetReturns
    BY <2>6 DEF SetReturns, set_leave
  <2>7. CASE Reset
    BY <2>7 DEF Reset
  <2>8. CASE UNCHANGED vars
    BY <2>8 DEF vars
  <2> QED BY <2>1, <2>2, <2>3, <2>4, <2>5, <2>6, <2>7, <2>8 DEF Next
<1> QED BY <1>1, <1>2, TypeCorrect, PTL DEF Spec, EventInv

(***************************************************************************)
(* No awaitable leaves a coroutine asleep under a raised flag: set_or      *)
(* either resumes the waiter or finds none.                                *)
(***************************************************************************)
THEOREM NeverMissesSignal == Spec => []NoMissedSignal
<1>1. EventInv => NoMissedSignal
  BY EventAssumption DEF EventAssumption, EventInv, HandleFresh, NoMissedSignal
<1> QED BY <1>1, EventInvHolds, PTL

(***************************************************************************)
(* Under any interleaving of awaits and callbacks, set_or resumes only a   *)
(* coroutine that sleeps on the event; set and register_callback do so the *)
(* first time.                                                             *)
(***************************************************************************)
THEOREM ResumeIsSafe == Spec => ResumesOnlySuspended
<1>1. EventInv /\ [Next]_vars
        => [~setting /\ setting' /\ Settable => co[ev.waiter] = "suspended"]_vars
  <2> SUFFICES ASSUME EventInv, Next, ~setting, setting', Settable
               PROVE  co[ev.waiter] = "suspended"
    OBVIOUS
  <2>1. PICK v \in Values : Set(v)
    BY DEF Next, Run, Suspend, AwaitReady, GiveUp, SetReturns, Reset, vars
  <2>2. calls_resume(kind, ev)
    BY <2>1 DEF Set
  <2> QED BY <2>2 DEF EventInv, HandleFresh, calls_resume
<1> QED BY <1>1, EventInvHolds, PTL DEF Spec, ResumesOnlySuspended

-----------------------------------------------------------------------------
(***************************************************************************)
(* NoneStranded is not inductive: it does not say that a lone coroutine is *)
(* awake while set_or is about to clear the handle.  It is, because inside *)
(* resume() the flag is up and await_ready sends nobody to sleep.          *)
(***************************************************************************)
Alone(c) == \A d \in Coroutines \ {c} : co[d] = "created"

Own ==
  \A c \in Coroutines :
    co[c] = "suspended" /\ Alone(c)
      => ev.waiter = c /\ (kind = "auto_reset_event" => ~setting)

(***************************************************************************)
(* A coroutine that is the only one started on an event, as in client.cpp  *)
(* and server.cpp, is never asleep on an event that has forgotten it.      *)
(***************************************************************************)
THEOREM OwnerNeverStranded == Spec => []NoneStranded
<1> USE EventAssumption DEF EventAssumption, Own, Alone
<1>1. Init => Own
  BY DEF Init
<1>2. EventInv /\ Own /\ [Next]_vars => Own'
  <2> SUFFICES ASSUME EventInv, Own, [Next]_vars
               PROVE  Own'
    OBVIOUS
  <2> USE DEF EventInv, HandleFresh, Settable, TypeOK, Event
  <2>1. ASSUME NEW c \in Coroutines, Run(c)
        PROVE  Own'
    BY <2>1 DEF Run
  <2>2. ASSUME NEW c \in Coroutines, Suspend(c)
        PROVE  Own'
    BY <2>2 DEF Suspend, await_suspend, suspends, await_ready
  <2>3. ASSUME NEW c \in Coroutines, AwaitReady(c)
        PROVE  Own'
    BY <2>3 DEF AwaitReady, vars
  <2>4. ASSUME NEW c \in Coroutines, NEW s \in {"away", "done"}, GiveUp(c, s)
        PROVE  Own'
    BY <2>4 DEF GiveUp
  <2>5. ASSUME NEW v \in Values, Set(v)
        PROVE  Own'
    <3>1. kind' = kind /\ ~setting /\ ev'.waiter = ev.waiter
      BY <2>5 DEF Set, MainRuns, set_enter
    <3>2. CASE calls_resume(kind, ev)
      BY <2>5, <3>1, <3>2 DEF Set, calls_resume
    <3>3. CASE ~calls_resume(kind, ev)
      BY <2>5, <3>1, <3>3 DEF Set
    <3> QED BY <3>2, <3>3
  <2>6. CASE SetReturns
    BY <2>6 DEF SetReturns, set_leave
  <2>7. CASE Reset
    BY <2>7 DEF Reset
  <2>8. CASE UNCHANGED vars
    BY <2>8 DEF vars
  <2> QED BY <2>1, <2>2, <2>3, <2>4, <2>5, <2>6, <2>7, <2>8 DEF Next
<1>3. Own => NoneStranded
  BY DEF NoneStranded
<1> QED BY <1>1, <1>2, <1>3, EventInvHolds, PTL DEF Spec
=============================================================================
