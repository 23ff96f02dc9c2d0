--------------------------- MODULE MCTransport ---------------------------
(* A small instance of Transport: two seeks, so that one can be torn       *)
(* between its two stores while another is pending; a loop longer and one  *)
(* shorter than the largest quantum, and an empty one given backwards.     *)
EXTENDS Transport

MCFrames == {1, 2}
MCSeekRequests == {-1, 3}
MCLoopRequests == {<<0, 3>>, <<1, 2>>, <<2, -1>>}
MCMaxSeeks == 2
MCMaxPos == 4
=============================================================================
