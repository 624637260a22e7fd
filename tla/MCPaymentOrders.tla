--------------------------- MODULE MCPaymentOrders ---------------------------
(* Small instances of PaymentOrders for TLC. *)
EXTENDS PaymentOrders, TLC

CONSTANTS u1, monthly, r1, r2

MCPrice == [p \in Plans |-> 10]

MCOrders1 == 1..1

MCOrders2 == 1..2

Production(deposit, vip) == [deposit |-> deposit, dev |-> FALSE, vip |-> vip]

Development == [deposit |-> "none", dev |-> TRUE, vip |-> FALSE]

MCXpub == {Production("xpub", FALSE)}

MCXpubVip == {Production("xpub", TRUE)}

MCXpubOrDev == {Production("xpub", FALSE), Development}

MCTreasury == {Production("treasury", TRUE)}

MCOrders3 == 1..3

\* Requests are interchangeable; no liveness property is checked with this.
RequestSymmetry == Permutations(Requests)
=============================================================================
