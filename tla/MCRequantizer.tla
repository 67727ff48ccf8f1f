------------------------------ MODULE MCRequantizer ----------------------------
(* Layers of two inputs, calibrated on symmetric inputs, on the pixels of an     *)
(* image, which are never negative, and on others.                           *)
EXTENDS Requantizer

Samples == {{<<-3, -3>>, <<3, 1>>, <<0, 2>>},
            {<<0, 0>>, <<4, 1>>, <<2, 3>>},
            {<<-1, 3>>, <<2, 0>>, <<1, -1>>}}

AllLayers ==
  {l \in [w : [1 .. 2 -> {-3, 1, 2}], b : {-1, 0, 5}, act : {"none", "relu", "relu6"}, xs : Samples] :
     Cardinality(Results(l)) > 1}

OtherLayers ==
  {[w |-> <<1, -2>>, b |-> 1, act |-> a, xs |-> s] :
     a \in {"none", "relu6"}, s \in {{<<-3, 3>>, <<3, 0>>}, {<<2, 0>>, <<5, 1>>}}}

(* A layer of pixels whose results lie on both sides of 0. *)
PixelLayers ==
  {[w |-> <<1, -2>>, b |-> 0, act |-> "none", xs |-> {<<0, 0>>, <<4, 1>>, <<1, 4>>}]}
===============================================================================
