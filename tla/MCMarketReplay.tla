---------------------------- MODULE MCMarketReplay ----------------------------
(***************************************************************************)
(* MarketReplay on small instances.                                        *)
(***************************************************************************)
EXTENDS MarketReplay

CONSTANTS s1, s2

\* One neutral candle; the first symbol has more decisions than the cap of two.
OneNeutral == Row \ {<<s2, 1>>}
=============================================================================
