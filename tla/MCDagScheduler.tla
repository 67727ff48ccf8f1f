---------------------------- MODULE MCDagScheduler ----------------------------
(* Networks for the DAG scheduler and the stages after it: images through      *)
(* convolutions, pooling and a classifier; vectors through linear layers and   *)
(* attention; operators that cost nothing between expensive ones; widths that  *)
(* fit a tile's ROM, need two, or exceed it with one output; a layer as wide as *)
(* the lanes.                                                              *)
EXTENDS FabricLowering

Network(use, width, input) == [use |-> use, width |-> width, input |-> input]

MCNetworks ==
  {Network(<<"weights", "gelu", "weights", "flat">>, <<2, 1, 4, 1>>, <<2, 2, 2>>),
   Network(<<"reduce", "weights", "flat", "weights">>, <<1, 4, 1, 6>>, <<3, 2, 2>>),
   Network(<<"norm", "weights", "reduce", "flat">>, <<1, 3, 1, 1>>, <<2, 2, 1>>),
   Network(<<"weights", "norm", "weights", "reduce">>, <<8, 1, 6, 1>>, <<6>>),
   Network(<<"flat", "gelu", "weights", "weights">>, <<1, 1, 4, 3>>, <<4>>)}
===============================================================================
