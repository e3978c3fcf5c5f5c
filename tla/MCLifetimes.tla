---------------------------- MODULE MCLifetimes -----------------------------
(***************************************************************************)
(* Lifetimes of all six processes.                                         *)
(***************************************************************************)
EXTENDS Lifetimes

AllPrograms == Cs \cup Coro \cup Hello
=============================================================================
