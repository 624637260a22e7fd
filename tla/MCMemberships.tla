---------------------------- MODULE MCMemberships ----------------------------
(* Small instances of Memberships for TLC. *)
EXTENDS Memberships, TLC

CONSTANTS ann, bob

MCOrders == 1..4

\* ann renews twice, bob buys once.
MCOwner == [o \in OrderIds |-> IF o = 4 THEN bob ELSE ann]

MCDuration == [o \in OrderIds |-> 1]

Quiet == [orders |-> OrderIds, managed |-> Users, assigns |-> {},
          disable |-> FALSE, crash |-> FALSE]

Disturbed == [orders |-> {1, 2}, managed |-> {ann}, assigns |-> {"admin"},
              disable |-> TRUE, crash |-> TRUE]

MCConfigs == {Quiet, Disturbed}

MCDisabling == {[Quiet EXCEPT !.disable = TRUE]}
=============================================================================
