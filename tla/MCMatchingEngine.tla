-------------------------- MODULE MCMatchingEngine --------------------------
(***************************************************************************)
(* The matching engine for TLC.  Three levels let a taker sweep two levels *)
(* and rest at the third; quantities from 1 to 3 let a fill leave either   *)
(* party, both or none with a rest, and an order take two fills; three     *)
(* slots let a level queue two orders, lose one to a cancel or a sweep,    *)
(* and be met by a later one.                                              *)
(***************************************************************************)
EXTENDS MatchingEngine
=============================================================================
