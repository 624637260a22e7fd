--------------------------- MODULE MemberServices ---------------------------
(***************************************************************************)
(* Services of the API server beside its memberships: the record of a      *)
(* transaction, the limit on a client's requests, the market brief and the *)
(* levels it is made from.  They share the server but no state, so a step  *)
(* of one leaves the others as they are.                                   *)
(***************************************************************************)
EXTENDS Memberships, Sequences

CONSTANTS
    Requests, Posts, ChainIds, None,                \* ChainOrders
    Limit, Window, MaxAsked, MaxRestarts, ClientMaxTime, \* RateLimit
    Keys, BriefRequests, Readings,                  \* MarketBrief
    Radius, MaxLevels, Inputs, NoLevel              \* PriceLevels

VARIABLES
    chainOrder, posts,                              \* ChainOrders
    clientTime, counter, life, asked, passed, refused, \* RateLimit
    briefs, lights, builds,                         \* MarketBrief
    bars, side, todo, bucket, merged, levels        \* PriceLevels

Chain == INSTANCE ChainOrders WITH Ids <- ChainIds, row <- chainOrder, requests <- posts

Limiter == INSTANCE RateLimit WITH
    MaxTime <- ClientMaxTime, now <- clientTime, bucket <- counter

Brief == INSTANCE MarketBrief WITH
    Requests <- BriefRequests, cache <- briefs, requests <- builds

Levels == INSTANCE PriceLevels

\* The frontend posts a transaction in two forms, when it is sent and when its receipt is
\* known, and null is no row.
ASSUME PostsAssumption ==
    /\ Posts \subseteq Chain!Post
    /\ \E sent, settled \in Chain!Post : Posts \subseteq {sent, settled}
    /\ None \notin Chain!Row

ASSUME LimitAssumption ==
    /\ Limit \in Nat /\ Window \in Nat \ {0}
    /\ MaxAsked \in Nat /\ MaxRestarts \in Nat /\ ClientMaxTime \in Nat

\* What the sources answer: the factors that a failure may take away are there to take.
Reading ==
    [price : Int, supports : SUBSET Int, resistances : SUBSET Int,
     last : Int \cup {None}, fast : Int \cup {None}, slow : Int \cup {None},
     change : Int, funding : Int, fearGreed : Int, bullishEvents : Nat, bearishEvents : Nat]

\* No brief and no light is null.
ASSUME ReadingsAssumption ==
    /\ None \notin Brief!Brief /\ None \notin Brief!Light
    /\ Readings \subseteq Reading

\* Prices are positive.
Positive == Nat \ {0}

ASSUME InputsAssumption ==
    /\ NoLevel \notin Int /\ Radius \in Nat
    /\ Inputs \subseteq Seq([high : Positive, low : Positive, close : Positive])

chainVars == <<chainOrder, posts>>

clientVars == <<clientTime, counter, life, asked, passed, refused>>

briefVars == <<briefs, lights, builds>>

levelVars == <<bars, side, todo, bucket, merged, levels>>

servicesVars == <<vars, chainVars, clientVars, briefVars, levelVars>>

ServicesInit == Init /\ Chain!Init /\ Limiter!Init /\ Brief!Init /\ Levels!Init

\* Beside a step of the memberships the others rest.
ServicesRest == UNCHANGED <<chainVars, clientVars, briefVars, levelVars>>

MembersStep == Next /\ ServicesRest

ChainStep == Chain!Next /\ UNCHANGED <<vars, clientVars, briefVars, levelVars>>

ClientStep == Limiter!Next /\ UNCHANGED <<vars, chainVars, briefVars, levelVars>>

BriefStep == Brief!Next /\ UNCHANGED <<vars, chainVars, clientVars, levelVars>>

LevelStep == Levels!Next /\ UNCHANGED <<vars, chainVars, clientVars, briefVars>>

ServicesNext == MembersStep \/ ChainStep \/ ClientStep \/ BriefStep \/ LevelStep

ServicesSpec == ServicesInit /\ [][ServicesNext]_servicesVars

\* The variables keep their types.
MembersTypeOK ==
    TypeOK /\ Chain!TypeOK /\ Limiter!TypeOK /\ Brief!TypeOK /\ Levels!TypeOK

\* A chain order keeps its owner and id and says of the transaction what one post of it
\* said, however posts are repeated, reordered and overlapped (upsertFromChainTx).
OrderSaysOnePost == Chain!OrderSaysOnePost

\* No stretch as long as a window sees more of a client's requests pass than twice the limit
\* and once the limit for each restart in it, and only who asked one process more than the
\* limit in a window is refused (rate-limit.middleware.ts).
PassedIsLimited == Limiter!PassedIsLimited

\* A green or red light has three factors for it in what the sources would all have said:
\* a source that fails casts no vote (buildBrief).
ColourIsEarned == Brief!ColourIsEarned

\* signalChange compares a brief with the one readers were shown last, unless another build
\* was stored in between (getBrief).
LightsChain == Brief!LightsChain

\* No two levels of a side are within the merging ratio, and each is near a pivot
\* (mergeCloseLevels).
LevelsAreReal == Levels!LevelsAreReal
=============================================================================
