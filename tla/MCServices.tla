----------------------------- MODULE MCServices -----------------------------
(* The smaller services, each by itself on a small instance, beside the      *)
(* orders of a treasury address: the initial state picks the part of a       *)
(* behaviour, and the others rest.  A behaviour is one of Services.          *)
EXTENDS MCPaymentOrders, Services

CONSTANTS
    ann, bob,               \* accounts
    secret1, secret2,       \* passwords
    btc, eth, sol           \* pairs of the dictionary

VARIABLE part

\* Logins beside the calls that need a token, memberships, the seeding script.
MCAdminCalls ==
    {{"login", "status"}, {"login", "role"}, {"role", "membership", "ensure"}, {"create", "role"}}

MCIds == 1..3

\* Updates that make a pair the default, active, or another one, and creations.
MCBodies ==
    [name : {NoName}, default : {"on"}, active : {"keep"}]
    \cup [name : {NoName}, default : {"keep"}, active : {"on"}]
    \cup [name : {eth, sol}, default : {"on"}, active : {"keep"}]

\* The three pairs are interchangeable.
InOrder ==
    pairs[1].name \in {NoName, btc} /\ pairs[2].name \in {NoName, eth}

\* A part that rests keeps one initial state.
PartInit ==
    /\ part \in {"orders", "administration", "accounts", "pairs"}
    /\ ServicesInit /\ InOrder
    /\ part # "administration" =>
            calls = {"login", "status"} /\ \A u \in DOMAIN users : users[u].role = "admin"
    /\ part # "accounts" => account = NoAccount
    /\ part # "pairs" => \A i \in DOMAIN pairs : pairs[i].name = NoName

PartNext ==
    /\ UNCHANGED part
    /\ \/ part = "orders" /\ OrdersStep
       \/ part = "administration" /\ AdminStep
       \/ part = "accounts" /\ AccountStep
       \/ part = "pairs" /\ PairStep

PartSpec == PartInit /\ [][PartNext]_<<part, servicesVars>>
=============================================================================
