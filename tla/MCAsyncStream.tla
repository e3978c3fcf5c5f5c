--------------------------- MODULE MCAsyncStream ---------------------------
(***************************************************************************)
(* AsyncStream with a few clients, one cfg per question.                   *)
(***************************************************************************)
EXTENDS AsyncStream, TLC

\* Clients run the same program and are only compared.  Sound for the safety
\* runs; the liveness runs do without.
Symmetry == Permutations(Clients)
=============================================================================
