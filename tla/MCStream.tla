------------------------------ MODULE MCStream ------------------------------
(* TLC instance of ModelStream: a call without arguments, a good one, a     *)
(* broken one and one without a name.                                       *)
EXTENDS ModelStream

Shape(named, pieces, broken) == [named |-> named, pieces |-> pieces, broken |-> broken]
SomeShapes == {Shape(TRUE, 0, FALSE), Shape(TRUE, 2, FALSE), Shape(TRUE, 2, TRUE), Shape(FALSE, 1, FALSE)}
=============================================================================
