---------------------------- MODULE MCArrangement ----------------------------
(* A small instance of Arrangement. *)
EXTENDS Arrangement

\* Files with one and with two tracks.
MCImports == {[tracks |-> n, length |-> 1] : n \in 1..2}
=============================================================================
