---------------------------- MODULE MCEditHistory ----------------------------
(* Instances of EditHistory for TLC.                                       *)
EXTENDS EditHistory

\* A clip with one note (that was imported with a release velocity), or none.
MCOpened == {Empty, 1 :> [pos |-> 0, dur |-> 1, vel |-> 1, rel |-> 1]}
=============================================================================
