----------------------------- MODULE MCSession -----------------------------
(* A small instance of Session: two project files, which hold projects, a  *)
(* project without a lane or something else, and perhaps a recovery file   *)
(* of an earlier session.                                                  *)
EXTENDS Session, TLC

CONSTANTS a, b

Earlier == [n |-> MaxEdits + 1, lane |-> TRUE]
Laneless == [n |-> MaxEdits + 2, lane |-> FALSE]
MCDisks ==
  {a :> x @@ b :> y @@ Recovery :> z :
     x \in {Nothing, Earlier}, y \in {Earlier, Laneless, Unreadable},
     z \in {Nothing, Earlier, Unreadable}}
=============================================================================
