--------------------------- MODULE MCMarketStreams ---------------------------
(* Small instances of MarketStreams for TLC. *)
EXTENDS MarketStreams

CONSTANTS c1, c2, kline, trade, bad, s1, s2

MCEntries == 1..3
=============================================================================
