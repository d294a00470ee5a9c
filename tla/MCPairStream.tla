---------------------------- MODULE MCPairStream ----------------------------
(***************************************************************************)
(* PairStream for TLC.  The constants differ from run to run and are given *)
(* in the configurations; see README.md for the bounds.                    *)
(***************************************************************************)
EXTENDS PairStreamInv
=============================================================================
