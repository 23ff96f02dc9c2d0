---------------------------- MODULE MCAudition ---------------------------
(* A small instance of Audition: two presses that differ in pitch and in   *)
(* velocity, so that a mixture of the two is told from either.             *)
EXTENDS Audition

MCPresses == {<<1, 3>>, <<2, 4>>}
=============================================================================
