------------------------------ MODULE MCAccelTop ------------------------------
(***************************************************************************)
(* Instances of AccelTop for TLC.  A tile fills a bank, as in a model whose  *)
(* widest layer has Parallelism outputs; layer inputs are full tiles and     *)
(* shorter ones.                                                            *)
(***************************************************************************)
EXTENDS AccelTop, TLC

MCTwoLayers   == (0 :> 4) @@ (1 :> 3)
MCFourLayers  == (0 :> 7) @@ (1 :> 8) @@ (2 :> 1) @@ (3 :> 5)

(* The entry past the end of LAYER_IN_DIM is whatever the build makes of    *)
(* it: another layer's where the index is truncated, 0 or anything else.    *)
MCStrayDims == 0 .. 8
===============================================================================
