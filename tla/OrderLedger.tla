----------------------------- MODULE OrderLedger -----------------------------
(***************************************************************************)
(* What a user, and the receiver of the webhooks, may rely on of a payment *)
(* order, whatever the handlers, the watcher and their failures do to its  *)
(* row: the row is opened once; it becomes paid only together with the     *)
(* record of a payment that no other paid order holds; a recorded payment  *)
(* is never changed or lost; a notice follows it at most once; and nothing *)
(* returns to pending.  A row may still be withdrawn, paid or not: the     *)
(* writes of cancelOrder and of the lazy expiry carry no condition.        *)
(***************************************************************************)
CONSTANTS
    OrderIds,   \* ids of orders
    Payments,   \* what may be recorded as the payment of an order
    NoPayment   \* nothing recorded

VARIABLES
    ledger,     \* the orders opened so far: their status and payment
    notices     \* payment notices sent, by order

\* What becomes of an order that nobody pays, or that a stale write overwrites.
Withdrawn == {"expired", "cancelled"}

Entry == [status : {"pending", "paid"} \cup Withdrawn,
          payment : Payments \cup {NoPayment}]

Init ==
    /\ ledger = [id \in {} |-> NoPayment]
    /\ notices = [id \in OrderIds |-> 0]

Opened == [status |-> "pending", payment |-> NoPayment]

Open(id) ==
    /\ id \notin DOMAIN ledger
    /\ ledger' = [j \in DOMAIN ledger \cup {id} |->
                    IF j = id THEN Opened ELSE ledger[j]]
    /\ UNCHANGED notices

\* The sweep takes every pending order that is due at once.
Expire(due) ==
    /\ \A id \in due : ledger[id].status = "pending"
    /\ ledger' = [id \in DOMAIN ledger |->
                    IF id \in due THEN [ledger[id] EXCEPT !.status = "expired"]
                    ELSE ledger[id]]
    /\ UNCHANGED notices

Withdraw(id, status) ==
    /\ ledger' = [ledger EXCEPT ![id].status = status]
    /\ UNCHANGED notices

\* The payments that answer an order which reads paid.
Spent == {ledger[id].payment : id \in {j \in DOMAIN ledger : ledger[j].status = "paid"}}

Pay(id, payment) ==
    /\ ledger[id].payment = NoPayment
    /\ payment \notin Spent
    /\ ledger' = [ledger EXCEPT ![id] = [status |-> "paid", payment |-> payment]]
    /\ UNCHANGED notices

Notify(id) ==
    /\ ledger[id].payment # NoPayment
    /\ notices[id] = 0
    /\ notices' = [notices EXCEPT ![id] = 1]
    /\ UNCHANGED ledger

Next ==
    \/ \E id \in OrderIds : Open(id)
    \/ \E due \in SUBSET DOMAIN ledger : Expire(due)
    \/ \E id \in DOMAIN ledger :
        \/ \E status \in Withdrawn : Withdraw(id, status)
        \/ \E payment \in Payments : Pay(id, payment)
        \/ Notify(id)

Spec == Init /\ [][Next]_<<ledger, notices>>
=============================================================================
