----------------------------- MODULE MCWeightPacker ----------------------------
(***************************************************************************)
(* Four lanes, two biases a row.  A tensor of dimension 3 does not fill the     *)
(* lanes, one of 8 takes two tiles; the graphs of the run give every tensor    *)
(* every place.  Dimension 6 takes two tiles of three lanes.                  *)
(***************************************************************************)
EXTENDS WeightPacker

RegularWidths == {[t \in Tensors |-> CASE t = 1 -> 3 [] t = 2 -> 8 [] OTHER -> 4]}

WidthsWithThreeLanes == {[t \in Tensors |-> IF t = 1 THEN 6 ELSE 4]}
===============================================================================
