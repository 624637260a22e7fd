---------------------------- MODULE ChainOrders ----------------------------
(***************************************************************************)
(* The record of one on-chain transaction                                  *)
(* (services/chain-order/chain-order.service.ts, upsertFromChainTx).  The  *)
(* frontend posts it twice, when the transaction is sent and when its      *)
(* receipt is known (docs/CHAIN_ORDERS.md); posts may be repeated, delayed *)
(* past each other and answered at once, and another user may post the     *)
(* same hash.                                                              *)
(*                                                                         *)
(* An action is the code from one await to the next.  The columns that the *)
(* two posts have in common are left out.  Sequelize's update writes the   *)
(* columns that differ from what the instance read.                        *)
(***************************************************************************)
EXTENDS FiniteSets

CONSTANTS
    Users,      \* who posts
    Posts,      \* the request bodies for this transaction
    Ids,        \* order ids that bodies bring or generateOrderId makes
    Requests,   \* posts that may be answered at once
    None        \* null, and no row

VARIABLES
    row,        \* the row of this transaction in t_chain_order, or None
    requests    \* posts being answered

vars == <<row, requests>>

Status == {"submitted", "confirmed", "failed", "closed", "cancelled"}

Receipt == {"0x1", "0x0", None}

Post == [txStatus : Status \cup {None}, receipt : Receipt, block : {1, None}]

Values == [txStatus : Status, receipt : Receipt, block : {1, None}]

Row == [user : Users, id : Ids, values : Values]

Request ==
    [pc : {"idle"}]
    \cup [pc : {"find", "create"}, user : Users, id : Ids, values : Values]
    \cup [pc : {"update"}, user : Users, read : Row, values : Values]

Idle == [pc |-> "idle"]

Init ==
    /\ row = None
    /\ requests = [r \in Requests |-> Idle]

\* deriveStatus
StatusOf(p) ==
    IF p.txStatus # None THEN p.txStatus
    ELSE IF p.receipt = "0x1" THEN "confirmed"
    ELSE IF p.receipt = "0x0" THEN "failed"
    ELSE "submitted"

\* buildOrderValues
ValuesOf(p) == [txStatus |-> StatusOf(p), receipt |-> p.receipt, block |-> p.block]

Receive(r) ==
    /\ requests[r].pc = "idle"
    /\ \E u \in Users, p \in Posts, id \in Ids :
        requests' = [requests EXCEPT ![r] = [pc |-> "find", user |-> u, id |-> id,
                                             values |-> ValuesOf(p)]]
    /\ UNCHANGED row

Owns(u) == IF row = None THEN FALSE ELSE row.user = u

Find(r) ==
    LET q == requests[r] IN
    /\ q.pc = "find"
    /\ requests' = [requests EXCEPT ![r] =
            IF Owns(q.user)
            THEN [pc |-> "update", user |-> q.user, read |-> row, values |-> q.values]
            ELSE [q EXCEPT !.pc = "create"]]
    /\ UNCHANGED row

\* The hash is unique whoever posts it: a second row is refused.
Create(r) ==
    LET q == requests[r] IN
    /\ q.pc = "create"
    /\ row' = IF row = None THEN [user |-> q.user, id |-> q.id, values |-> q.values] ELSE row
    /\ requests' = [requests EXCEPT ![r] = Idle]

\* MUTANT: what a post does not say is kept.
KnownKept(read, values) == [values EXCEPT !.block = IF @ = None THEN read.values.block ELSE @]

\* Every column takes the value of the post, null where the post says nothing.
Overwritten(read, values) == values

Merged(stored, read, new) == IF new = read THEN stored ELSE new

\* The order id stays.
Update(r) ==
    LET q == requests[r]
        old == q.read.values
        new == Overwritten(q.read, q.values)
    IN /\ q.pc = "update"
       /\ row' = [row EXCEPT !.values =
                    [txStatus |-> Merged(@.txStatus, old.txStatus, new.txStatus),
                     receipt |-> Merged(@.receipt, old.receipt, new.receipt),
                     block |-> Merged(@.block, old.block, new.block)]]
       /\ requests' = [requests EXCEPT ![r] = Idle]

RequestFails(r) ==
    /\ requests[r].pc # "idle"
    /\ requests' = [requests EXCEPT ![r] = Idle]
    /\ UNCHANGED row

Next ==
    \E r \in Requests :
        Receive(r) \/ Find(r) \/ Create(r) \/ Update(r) \/ RequestFails(r)

Spec == Init /\ [][Next]_vars

(***************************************************************************)
(* Properties.                                                             *)
(***************************************************************************)

TypeOK ==
    /\ row \in Row \cup {None}
    /\ requests \in [Requests -> Request]

\* A step as OrderSaysOnePost has it.
OrderSaysOnePostStep ==
    row' # row =>
        /\ row # None => row'.user = row.user /\ row'.id = row.id
        /\ \E p \in Posts : row'.values = ValuesOf(p)

\* However posts are repeated, reordered and overlapped, the row keeps its owner and its
\* order id, and what it says of the transaction is what one single post said: the
\* receipt and block of one are never shown with the status of another.  This is for the
\* two posts of a transaction that docs/CHAIN_ORDERS.md names; a third one, different in
\* some columns from both, could be merged with either, for stale updates write columns.
OrderSaysOnePost == [][OrderSaysOnePostStep]_vars
=============================================================================
