----------------------------- MODULE MCMembers -----------------------------
(* Small parts, each by itself on a small instance, beside the memberships:  *)
(* the initial state picks the part of a behaviour, and the others rest.  A  *)
(* behaviour is one of MemberServices.                                       *)
EXTENDS MCMemberships, MemberServices

CONSTANTS
    r1, r2, r3,         \* requests
    first, second,      \* order ids
    chart               \* the key of a brief

VARIABLE part

\* The post of a transaction that was sent, and the one of its receipt.
MCPosts ==
    {[txStatus |-> "submitted", receipt |-> None, block |-> None],
     [txStatus |-> None, receipt |-> "0x1", block |-> 1]}

\* A quiet market, a rising and a falling one, and what pushes each to either side.
Calm ==
    [price |-> 1000, supports |-> {950}, resistances |-> {1050}, last |-> 1000, fast |-> 1000,
     slow |-> None, change |-> 0, funding |-> 0, fearGreed |-> 50, bullishEvents |-> 0,
     bearishEvents |-> 0]

Rising == [Calm EXCEPT !.supports = {900, 990}, !.resistances = {1012}, !.fast = 990, !.slow = 980]

Falling == [Calm EXCEPT !.resistances = {1010}, !.fast = 1010, !.slow = 1020]

MCReadings ==
    {Calm, Rising, [Rising EXCEPT !.change = 3],
     [Rising EXCEPT !.bullishEvents = 2, !.bearishEvents = 1, !.fearGreed = 65],
     [Falling EXCEPT !.funding = 300],
     [Falling EXCEPT !.change = -3, !.fearGreed = 35, !.bearishEvents = 1]}

\* Four troughs, or four peaks, in turn, of levels that may be met again, near enough to
\* chain and multiples of 8, so that three means are exact; and no bars.
Troughs ==
    {[i \in 1..10 |->
        [high |-> 16200,
         low |-> IF i = 10 THEN 16060 ELSE IF i % 2 = 0 THEN s[i \div 2] ELSE 16200,
         close |-> IF i = 10 THEN 16060 ELSE 16200]] :
        s \in [1..4 -> {16000, 16032, 16048, 16072}]}

Peaks ==
    {[i \in 1..10 |->
        [high |-> IF i = 10 THEN 16060 ELSE IF i % 2 = 0 THEN s[i \div 2] ELSE 16000,
         low |-> 16000,
         close |-> IF i = 10 THEN 16060 ELSE 16000]] :
        s \in [1..4 -> {16048, 16080, 16112, 16128}]}

MCInputs == Troughs \cup Peaks \cup {<<>>}

\* A part that rests keeps one initial state.
PartInit ==
    /\ part \in {"memberships", "chain orders", "rate limit", "brief", "levels"}
    /\ ServicesInit
    /\ part # "memberships" => config = Quiet
    /\ part # "levels" => bars = <<>>

\* Beside a step of the memberships the other parts rest.
Rest == part = "memberships" /\ UNCHANGED part /\ ServicesRest

PartNext ==
    \/ Next /\ Rest
    \/ /\ UNCHANGED part
       /\ \/ part = "chain orders" /\ ChainStep
          \/ part = "rate limit" /\ ClientStep
          \/ part = "brief" /\ BriefStep
          \/ part = "levels" /\ LevelStep

\* The fairness of FairSpec, where memberships are the part at work.
PartSpec ==
    /\ PartInit /\ [][PartNext]_<<part, servicesVars>>
    /\ WF_vars(Tick /\ Rest)
    /\ WF_vars(SweepStep /\ Rest)
    /\ WF_vars(RoleStep(Admin) /\ Rest)
    /\ \A o \in OrderIds : WF_vars(ActivateStep(o) /\ Rest)
=============================================================================
