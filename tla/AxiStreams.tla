------------------------------ MODULE AxiStreams ------------------------------
(***************************************************************************)
(* The stream endpoints, each with one clock edge given its input wires.      *)
(*                                                                         *)
(* rtl/interface/axi_stream_in.sv (si, SiClk) takes the beats of one packet   *)
(* and writes each to the activation word of its number.                    *)
(* rtl/interface/axi_stream_out.sv (so, SoClk) spends a clock on the read of  *)
(* every word of an activation bank and then offers the word until it is       *)
(* taken.  enable only starts it: once started it runs to the end.           *)
(***************************************************************************)
EXTENDS Geometry

VARIABLES
  siReceiving,       (* receiving: a packet is being taken                  *)
  siBeat,            (* beat_cnt                                            *)
  siDone             (* done: the packet is complete, until enable falls    *)

siVars == <<siReceiving, siBeat, siDone>>

SiTypeOK ==
  /\ siReceiving \in BOOLEAN
  /\ siBeat \in 0 .. ActDepth
  /\ siDone \in BOOLEAN

SiInit == siReceiving = FALSE /\ siBeat = 0 /\ siDone = FALSE

SiReady(enable)         == enable /\ siReceiving
SiTakes(enable, tvalid) == SiReady(enable) /\ tvalid
SiAddr                  == siBeat % ActDepth

SiLast(tlast)     == siBeat = ActDepth - 1 \/ tlast

SiClk(enable, tvalid, tlast) ==
  IF enable /\ ~siReceiving /\ ~siDone
  THEN siReceiving' = TRUE /\ siBeat' = 0 /\ UNCHANGED siDone
  ELSE IF SiTakes(enable, tvalid)
  THEN /\ siBeat' = siBeat + 1
       /\ siReceiving' = ~SiLast(tlast)
       /\ siDone' = (siDone \/ SiLast(tlast))
  ELSE IF ~enable
  THEN siReceiving' = FALSE /\ siBeat' = 0 /\ siDone' = FALSE
  ELSE UNCHANGED siVars

-------------------------------------------------------------------------------
VARIABLES
  soState,           (* state of the FSM                                    *)
  soBeat             (* beat_cnt                                            *)

soVars == <<soState, soBeat>>

SoTypeOK ==
  /\ soState \in {"IDLE", "READ", "TRANSMIT", "DONE"}
  /\ soBeat \in 0 .. ActDepth

SoInit == soState = "IDLE" /\ soBeat = 0

SoValid == soState = "TRANSMIT"
SoLast  == SoValid /\ soBeat = ActDepth - 1
SoDone  == soState = "DONE"

SoAddr  == soBeat % ActDepth

SoNextState(enable, tready) ==
  CASE soState = "IDLE"     -> IF enable THEN "READ" ELSE "IDLE"
    [] soState = "READ"     -> "TRANSMIT"
    [] soState = "TRANSMIT" -> IF ~tready THEN "TRANSMIT"
                               ELSE IF SoLast THEN "DONE" ELSE "READ"
    [] soState = "DONE"     -> "IDLE"

SoClk(enable, tready) ==
  /\ soState' = SoNextState(enable, tready)
  /\ soBeat' = IF soState = "IDLE" THEN 0
               ELSE IF SoValid /\ tready THEN soBeat + 1 ELSE soBeat
===============================================================================
