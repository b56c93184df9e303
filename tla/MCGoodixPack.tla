---------------------------- MODULE MCGoodixPack ----------------------------
(***************************************************************************)
(* Payloads for GoodixPack: none, and one of the largest length that      *)
(* begins and ends like padding.                                           *)
(***************************************************************************)
EXTENDS GoodixPack

MCPayloads == {<<>>, <<0, 1, 0>>}
=============================================================================
