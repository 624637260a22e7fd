----------------------------- MODULE MCEventFeed -----------------------------
(* Small instances of EventFeed for TLC. *)
EXTENDS EventFeed

CONSTANTS liq, news

MCFeeds == <<{news}>>
=============================================================================
