------------------------------- MODULE Geometry -------------------------------
(***************************************************************************)
(* The dimensions the RTL modules share: the parameters of mac_array,       *)
(* fused_linear_relu and the generated accelerator_top.  The checked        *)
(* instances scale 128 lanes, 8-byte words and 16 words per tile down.      *)
(***************************************************************************)
EXTENDS Naturals

CONSTANTS
  Parallelism,   (* lanes of the MAC array: 128                             *)
  WordBytes,     (* bytes of an activation word: 8                          *)
  WordsPerTile,  (* write cycles per tile: 16                               *)
  CountMod,      (* range of the 16-bit counters: 2^16                      *)
  ActDepth       (* words of an activation bank, and beats of a packet      *)

(* One tile fills its write cycles exactly, and a lane can be counted.      *)
ASSUME GeometryAssumption ==
  /\ Parallelism \in Nat \ {0}
  /\ WordBytes \in Nat \ {0}
  /\ WordsPerTile \in Nat \ {0}
  /\ CountMod \in Nat \ {0}
  /\ ActDepth \in Nat \ {0}
  /\ Parallelism = WordsPerTile * WordBytes
  /\ Parallelism < CountMod

(* x - 1 in 16-bit arithmetic: it wraps when x is 0. *)
Minus1(x) == (x + CountMod - 1) % CountMod
===============================================================================
