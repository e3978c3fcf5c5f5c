-------------------------- MODULE MCAwaitableEvent --------------------------
(***************************************************************************)
(* AwaitableEvent on small sets.                                           *)
(***************************************************************************)
EXTENDS AwaitableEvent, TLC

\* Coroutines and values are only ever stored and compared.
Symmetry == Permutations(Coroutines) \cup Permutations(Values)
=============================================================================
