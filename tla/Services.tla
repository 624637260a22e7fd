------------------------------ MODULE Services ------------------------------
(***************************************************************************)
(* Services of the API server beside its payment orders: administration,   *)
(* the codes and passwords of an address, and the dictionary of pairs.     *)
(* They share the server but no state, so a step of one leaves the others  *)
(* as they are.                                                            *)
(***************************************************************************)
EXTENDS PaymentOrders

CONSTANTS
    AdminUsers, Nobody, AdminCalls,                                     \* Administration
    Passwords, NoAccount, CodeTtl, Cooldown, MaxCodes, CodesMaxTime,    \* Accounts
    PairIds, PairNames, NoName, PairBodies                              \* TradingSymbols

VARIABLES
    calls, users, roleRows, tokens, adminRequests,          \* Administration
    accountTime, codes, account, history, unsure, mails,    \* Accounts
    pairs, pairRequests                                     \* TradingSymbols

Admins == INSTANCE Administration WITH
    Users <- AdminUsers, Scenarios <- AdminCalls, requests <- adminRequests

Codes == INSTANCE Accounts WITH
    MaxTime <- CodesMaxTime, now <- accountTime, requests <- mails

Symbols == INSTANCE TradingSymbols WITH
    Ids <- PairIds, Names <- PairNames, Bodies <- PairBodies,
    rows <- pairs, requests <- pairRequests

\* Scripts and the billing watcher are no account.
ASSUME AdminAssumption == Nobody \notin AdminUsers /\ AdminCalls \subseteq SUBSET Admins!Calls

\* The source has one minute for both: a code does not outlive its cooldown.
ASSUME CodesAssumption ==
    /\ CodeTtl \in Nat /\ Cooldown \in Nat /\ CodeTtl <= Cooldown
    /\ MaxCodes \in Nat /\ CodesMaxTime \in Nat
    /\ NoAccount \notin Passwords

ASSUME PairsAssumption == NoName \notin PairNames /\ PairBodies \subseteq Symbols!Body

adminVars == <<calls, users, roleRows, tokens, adminRequests>>

accountVars == <<accountTime, codes, account, history, unsure, mails>>

pairVars == <<pairs, pairRequests>>

servicesVars == <<vars, adminVars, accountVars, pairVars>>

ServicesInit == Init /\ Admins!Init /\ Codes!Init /\ Symbols!Init

OrdersStep == Next /\ UNCHANGED <<adminVars, accountVars, pairVars>>

AdminStep == Admins!Next /\ UNCHANGED <<vars, accountVars, pairVars>>

AccountStep == Codes!Next /\ UNCHANGED <<vars, adminVars, pairVars>>

PairStep == Symbols!Next /\ UNCHANGED <<vars, adminVars, accountVars>>

ServicesNext == OrdersStep \/ AdminStep \/ AccountStep \/ PairStep

ServicesSpec == ServicesInit /\ [][ServicesNext]_servicesVars

\* The variables of the services keep their types (those of the orders in orders_xpub).
ServicesTypeOK == Admins!TypeOK /\ Codes!TypeOK /\ Symbols!TypeOK

\* The last active administrator is lost only to a membership or to an actor who is no
\* active administrator any more (updateRole, updateStatus).
LastAdminExplained == Admins!LastAdminExplained

\* A role change with no other of the user beside it leaves one primary role, his own
\* (syncPrimaryUserRole).
LoneChangeHeals == Admins!LoneChangeHeals

\* A code stored by itself is accepted until it expires or is entered (sendCode,
\* verifyAndConsume).
LoneCodeLives == Codes!LoneCodeLives

\* A reset to the current password passes only beside another one, or after its record
\* was lost or overtaken (resetPassword).
ReuseExplained == Codes!ReuseExplained

\* No more default pairs than requests that run at once, over any sequence of calls
\* (TradingSymbolService.create, update).
DefaultsPerRequest == Symbols!DefaultsPerRequest

\* A request that makes its pair the default with no other beside it leaves exactly that
\* one, whatever was left behind (TradingSymbolService.create, update).
LoneSetterWins == Symbols!LoneSetterWins
=============================================================================
