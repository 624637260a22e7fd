---------------------------- MODULE PaymentOrders ----------------------------
(***************************************************************************)
(* Membership payment orders: the order handlers of the API process        *)
(* (services/billing/order.service.ts), the scan and confirmation run by   *)
(* the payment-watch process (scripts/payment-watch.ts), and the TRC20     *)
(* transfers it reads (billing/tron-grid.ts).                              *)
(*                                                                         *)
(* Every await of a handler separates two steps.  A handler that changes   *)
(* an order reads a row, decides on that snapshot and on the clock, and    *)
(* then writes by primary key: Sequelize's instance.update is              *)
(* UPDATE ... WHERE id with the changed columns and no other condition, so *)
(* a write lands whatever happened to the row since it was read.           *)
(***************************************************************************)
EXTENDS Integers, Sequences, FiniteSets

CONSTANTS
    OrderIds,       \* ids the order table may assign, in increasing order
    Users,          \* logged-in users
    Plans,          \* active membership plans
    Price,          \* Price[p]: list price of plan p, in micro-USDT
    Requests,       \* concurrent API requests
    MaxPending,     \* pending orders a user may have (3 in the source)
    ExpireAfter,    \* orderExpireMinutes, in clock ticks
    Grace,          \* a transfer may precede its order by this much (60 s)
    TailModulus,    \* modulus of the treasury tail (10000 in the source)
    ScanLimit,      \* pending orders read by one scan (50 in the source)
    FetchLimit,     \* transfers in one TronGrid page (50 in the source)
    Configs,        \* environments in which the processes may be started
    MaxTime,        \* bound: the clock stops here
    MaxIndex,       \* bound: deposit addresses derived
    MaxTransfers,   \* bound: transfers made on the chain
    Amounts         \* bound: amounts that payers send

ASSUME OrderIdsAssumption == OrderIds \subseteq Nat \ {0}

ASSUME PriceAssumption == Price \in [Plans -> Nat] /\ Amounts \subseteq Nat

ASSUME LimitsAssumption ==
    /\ MaxPending \in Nat \ {0} /\ ScanLimit \in Nat \ {0}
    /\ FetchLimit \in Nat \ {0} /\ TailModulus \in Nat \ {0}

ASSUME RequestsAssumption == IsFiniteSet(Requests)

ASSUME TimeAssumption ==
    ExpireAfter \in Nat \ {0} /\ Grace \in Nat /\ MaxTime \in Nat

ASSUME BoundAssumption == MaxTransfers \in Nat

\* deposit: TRON_DEPOSIT_XPUB is set; else TRON_TREASURY_ADDRESS; else neither.
\* dev: BILLING_DEV_AUTO_CONFIRM, of a development build.
\* vip: BILLING_AUTO_UPGRADE_VIP.
ASSUME ConfigAssumption ==
    Configs \subseteq [deposit : {"xpub", "treasury", "none"},
                       dev : BOOLEAN, vip : BOOLEAN]

VARIABLES
    config,     \* the environment, read once when a process starts
    now,        \* the clock, shared by the processes, the chain and the database
    orders,     \* t_payment_order: the rows created so far, by id
    nextIndex,  \* t_payment_address_index row 1
    chain,      \* TRC20 transfers in timestamp order
    requests,   \* API request handlers, by request
    timers,     \* armed dev auto-confirm timers, by order id
    watcher,    \* the payment-watch loop
    confirm,    \* confirmOrderPaid in progress, by order id
    webhooks,   \* completed-payment webhooks delivered, by order id
    activation  \* what activateFromOrder did, by order id

\* What the handlers of one process change together.
world == <<config, now, chain>>

api == <<nextIndex, requests, timers>>

scan == <<watcher, confirm>>

effects == <<webhooks, activation>>

vars == <<world, orders, api, scan, effects>>

-----------------------------------------------------------------------------
(* Values *)

FixedAddress == -1      \* addressIndex null: the treasury or the dev address

Index == Nat \cup {FixedAddress}

NoTx == <<"none", 0>>

ChainTx(n) == <<"chain", n>>    \* the hash of the n-th transfer

DevTx(id) == <<"dev", id>>      \* `dev_auto_${id}`

TxHash == {NoTx} \cup ({"chain", "dev"} \X Nat)

Status == {"pending", "paid", "expired", "cancelled"}

Order == [status : Status, user : Users, plan : Plans, amount : Nat,
          index : Index, createdAt : Nat, expireAt : Nat,
          tx : TxHash, paidAt : Nat]

Transfer == [to : Index, amount : Nat, ts : Nat]

\* The awaits at which a request can be suspended.
Request ==
    [pc : {"idle"}]
    \cup [pc : {"allocate"}, user : Users, plan : Plans]
    \cup [pc : {"insert"}, user : Users, plan : Plans, index : Index]
    \cup [pc : {"exact", "get", "cancel", "expireWrite", "cancelWrite"},
          id : OrderIds]

\* What a scan keeps of an order it has read: its id and the amount as read.
Snapshot == [id : OrderIds, amount : Nat]

Watcher ==
    [pc : {"sleep", "scan"}]
    \cup [pc : {"next"}, todo : SUBSET Snapshot]
    \cup [pc : {"match"}, todo : SUBSET Snapshot, row : Snapshot,
          found : SUBSET Nat]
    \cup [pc : {"confirm"}, todo : SUBSET Snapshot, id : OrderIds]

Confirm ==
    [pc : {"idle"}]
    \cup [pc : {"read", "decide", "expireWrite"}, tx : TxHash]
    \cup [pc : {"payWrite"}, tx : TxHash, at : Nat]
    \cup [pc : {"reload"}]
    \cup [pc : {"activate"}, saw : Status]

TypeOK ==
    /\ config \in Configs
    /\ now \in Nat
    /\ orders \in [DOMAIN orders -> Order]
    /\ DOMAIN orders \subseteq OrderIds
    /\ nextIndex \in Nat
    /\ chain \in Seq(Transfer)
    /\ requests \in [Requests -> Request]
    /\ timers \subseteq OrderIds
    /\ watcher \in Watcher
    /\ confirm \in [OrderIds -> Confirm]
    /\ webhooks \in [OrderIds -> Nat]
    /\ activation \in [OrderIds -> {"none", "skipped", "begun"}]

-----------------------------------------------------------------------------
(* Guards and small computations of the handlers *)

UseXpub == config.deposit = "xpub"

IsTreasury == config.deposit = "treasury"

DevAutoConfirm == config.dev

AutoUpgradeVip == config.vip

\* Mutant of Due: an order is still alive at its expiry time.
DueStrict(id) == orders[id].expireAt < now

Due(id) == orders[id].expireAt <= now

\* Mutant of IsPending: whatever is not paid may still be.
NotPaid(id) == orders[id].status # "paid"

IsPending(id) == orders[id].status = "pending"

\* Orders the pending queries select: status pending and expireTime > now.
Open == {id \in DOMAIN orders : IsPending(id) /\ ~Due(id)}

OpenOf(u) == {id \in Open : orders[id].user = u}

\* Mutant of UnderLimit: off by one.
UnderLimitOff(u) == Cardinality(OpenOf(u)) <= MaxPending

UnderLimit(u) == Cardinality(OpenOf(u)) < MaxPending

TreasuryPayAmount(base, id) == base + (id % TailModulus)

\* Mutant of AmountOk: an underpayment by the last digit is accepted.
AmountOkFloor(expected, received) == received + 1 >= expected

AmountOk(expected, received) ==
    IF IsTreasury THEN received = expected ELSE received >= expected

\* Mutant of Claimed: the lookup is dropped.
NeverClaimed(n) == FALSE

\* An order already marked paid with this transaction hash.
Claimed(n) ==
    \E j \in DOMAIN orders : orders[j].status = "paid" /\ orders[j].tx = ChainTx(n)

\* The k least elements of a set of numbers: ORDER BY ... ASC LIMIT k.
FirstK(S, k) == {x \in S : Cardinality({y \in S : y < x}) < k}

\* Mutant of Incoming: the minimum timestamp is exclusive.
IncomingAfter(address, since) ==
    FirstK({n \in DOMAIN chain : chain[n].to = address /\ chain[n].ts > since},
           FetchLimit)

\* fetchTrc20IncomingTransfers: one page, oldest first, never the next page.
Incoming(address, since) ==
    FirstK({n \in DOMAIN chain : chain[n].to = address /\ chain[n].ts >= since},
           FetchLimit)

Idle == [pc |-> "idle"]

SetRequest(r, state) == requests' = [requests EXCEPT ![r] = state]

SetConfirm(id, state) == confirm' = [confirm EXCEPT ![id] = state]

SetStatus(id, s) == orders' = [orders EXCEPT ![id].status = s]

-----------------------------------------------------------------------------
Init ==
    /\ config \in Configs
    /\ now = 0
    /\ orders = [id \in {} |-> NoTx]
    /\ nextIndex = 0
    /\ chain = <<>>
    /\ requests = [r \in Requests |-> Idle]
    /\ timers = {}
    /\ watcher = [pc |-> "sleep"]
    /\ confirm = [id \in OrderIds |-> Idle]
    /\ webhooks = [id \in OrderIds |-> 0]
    /\ activation = [id \in OrderIds |-> "none"]

-----------------------------------------------------------------------------
(* createOrder *)

\* The plan is looked up and the user's open orders are counted.
CreateCount(r, u, p) ==
    /\ requests[r].pc = "idle"
    /\ UnderLimit(u)
    /\ SetRequest(r, [pc |-> "allocate", user |-> u, plan |-> p])
    /\ UNCHANGED <<world, orders, nextIndex, timers, scan, effects>>

\* Mutant of Allocated: the row is not incremented.
AllocatedStuck(old) == old

\* The row lock makes read-and-increment of the next index one step.
Allocated(old) == old + 1

AllocateDepositAddress(r) ==
    /\ requests[r].pc = "allocate"
    /\ LET req == requests[r]
           insert(i) == [pc |-> "insert", user |-> req.user, plan |-> req.plan,
                         index |-> i]
       IN  \/ /\ UseXpub
              /\ nextIndex < MaxIndex
              /\ nextIndex' = Allocated(nextIndex)
              /\ SetRequest(r, insert(nextIndex))
           \/ /\ ~UseXpub
              /\ IsTreasury \/ DevAutoConfirm
              /\ SetRequest(r, insert(FixedAddress))
              /\ UNCHANGED nextIndex
    /\ UNCHANGED <<world, orders, timers, scan, effects>>

\* The row createOrder inserts: pending, at the list price.
Inserted(req) ==
    [status |-> "pending", user |-> req.user, plan |-> req.plan,
     amount |-> Price[req.plan], index |-> req.index,
     createdAt |-> now, expireAt |-> now + ExpireAfter,
     tx |-> NoTx, paidAt |-> 0]

\* INSERT assigns the next id.  With a treasury address the exact amount is a
\* second statement; otherwise the handler is done, and arms the dev timer.
InsertOrder(r, id) ==
    /\ requests[r].pc = "insert"
    /\ id \notin DOMAIN orders
    /\ \A j \in OrderIds : j < id => j \in DOMAIN orders
    /\ now + ExpireAfter <= MaxTime
    /\ orders' = [j \in DOMAIN orders \cup {id} |->
                    IF j = id THEN Inserted(requests[r]) ELSE orders[j]]
    /\ IF IsTreasury
       THEN SetRequest(r, [pc |-> "exact", id |-> id]) /\ UNCHANGED timers
       ELSE /\ SetRequest(r, Idle)
            /\ timers' = IF DevAutoConfirm THEN timers \cup {id} ELSE timers
    /\ UNCHANGED <<world, nextIndex, scan, effects>>

SetExactAmount(r) ==
    /\ requests[r].pc = "exact"
    /\ LET id == requests[r].id IN
        /\ orders' = [orders EXCEPT ![id].amount =
                        TreasuryPayAmount(Price[orders[id].plan], id)]
        /\ timers' = IF DevAutoConfirm THEN timers \cup {id} ELSE timers
    /\ SetRequest(r, Idle)
    /\ UNCHANGED <<world, nextIndex, scan, effects>>

-----------------------------------------------------------------------------
(* getOrderForUser and cancelOrder *)

\* Both read the row; on one that is not pending they return or raise.
ReadOrder(r, id, op) ==
    /\ requests[r].pc = "idle"
    /\ IsPending(id)
    /\ SetRequest(r, [pc |-> op, id |-> id])
    /\ UNCHANGED <<world, orders, nextIndex, timers, scan, effects>>

\* The snapshot is pending: an overdue order is to be expired, a live one is
\* shown as it is (get) or is to be cancelled (cancel).
DecideOnOrder(r) ==
    /\ requests[r].pc \in {"get", "cancel"}
    /\ LET id == requests[r].id IN
        \/ Due(id) /\ SetRequest(r, [pc |-> "expireWrite", id |-> id])
        \/ /\ ~Due(id)
           /\ SetRequest(r, IF requests[r].pc = "get" THEN Idle
                            ELSE [pc |-> "cancelWrite", id |-> id])
    /\ UNCHANGED <<world, orders, nextIndex, timers, scan, effects>>

WriteOrder(r) ==
    /\ requests[r].pc \in {"expireWrite", "cancelWrite"}
    /\ SetStatus(requests[r].id,
                 IF requests[r].pc = "expireWrite" THEN "expired" ELSE "cancelled")
    /\ SetRequest(r, Idle)
    /\ UNCHANGED <<world, nextIndex, timers, scan, effects>>

\* A statement of a handler fails: the handler ends with an error response.
RequestFails(r) ==
    /\ requests[r].pc # "idle"
    /\ SetRequest(r, Idle)
    /\ UNCHANGED <<world, orders, nextIndex, timers, scan, effects>>

-----------------------------------------------------------------------------
(* confirmOrderPaid, called by the scan or by a dev timer *)

\* findByPk: an order that is missing or no longer pending is left alone.
ConfirmRead(id) ==
    /\ confirm[id].pc = "read"
    /\ IF IsPending(id)
       THEN SetConfirm(id, [pc |-> "decide", tx |-> confirm[id].tx])
       ELSE SetConfirm(id, Idle)
    /\ UNCHANGED <<world, orders, api, watcher, effects>>

\* The clock is read once the row has arrived.
ConfirmDecide(id) ==
    /\ confirm[id].pc = "decide"
    /\ LET tx == confirm[id].tx IN
        IF Due(id)
        THEN SetConfirm(id, [pc |-> "expireWrite", tx |-> tx])
        ELSE SetConfirm(id, [pc |-> "payWrite", tx |-> tx, at |-> now])
    /\ UNCHANGED <<world, orders, api, watcher, effects>>

ConfirmExpire(id) ==
    /\ confirm[id].pc = "expireWrite"
    /\ SetStatus(id, "expired")
    /\ SetConfirm(id, Idle)
    /\ UNCHANGED <<world, api, watcher, effects>>

\* Mutants of Paid: the status is left out of the update, or is the name that
\* mapOrder shows to clients.
PaidKeepsStatus(o, tx, at) == [o EXCEPT !.tx = tx, !.paidAt = at]

PaidAsCompleted(o, tx, at) ==
    [o EXCEPT !.status = "completed", !.tx = tx, !.paidAt = at]

\* The columns confirmOrderPaid writes.
Paid(o, tx, at) == [o EXCEPT !.status = "paid", !.tx = tx, !.paidAt = at]

ConfirmPay(id) ==
    /\ confirm[id].pc = "payWrite"
    /\ orders' = [orders EXCEPT ![id] = Paid(@, confirm[id].tx, confirm[id].at)]
    /\ SetConfirm(id, [pc |-> "reload"])
    /\ UNCHANGED <<world, api, watcher, effects>>

\* The row is reloaded and the webhook posted: delivered, or not (there is no
\* URL, or the call failed and the error was swallowed).
ConfirmNotify(id) ==
    /\ confirm[id].pc = "reload"
    /\ \E delivered \in {0, 1} :
        webhooks' = [webhooks EXCEPT ![id] = @ + delivered]
    /\ SetConfirm(id, IF AutoUpgradeVip
                      THEN [pc |-> "activate", saw |-> orders[id].status]
                      ELSE Idle)
    /\ UNCHANGED <<world, orders, api, watcher, activation>>

\* activateFromOrder begins by returning when the order it is given is paid.
ConfirmActivate(id) ==
    /\ confirm[id].pc = "activate"
    /\ activation' = [activation EXCEPT ![id] =
                        IF confirm[id].saw = "paid" THEN "skipped" ELSE "begun"]
    /\ SetConfirm(id, Idle)
    /\ UNCHANGED <<world, orders, api, watcher, webhooks>>

\* A statement of confirmOrderPaid fails; its caller logs the error and goes on.
ConfirmFails(id) ==
    /\ confirm[id].pc # "idle"
    /\ SetConfirm(id, Idle)
    /\ UNCHANGED <<world, orders, api, watcher, effects>>

\* setTimeout callback of createOrder.
TimerFires(id) ==
    /\ id \in timers
    /\ timers' = timers \ {id}
    /\ SetConfirm(id, [pc |-> "read", tx |-> DevTx(id)])
    /\ UNCHANGED <<world, orders, nextIndex, requests, watcher, effects>>

-----------------------------------------------------------------------------
(* The payment-watch loop: expirePendingOrders, then scanPendingOrders *)

\* Mutant of SweepDue: WHERE expireTime < now.
SweepLate(id) == DueStrict(id)

\* expirePendingOrders: WHERE expireTime <= now.
SweepDue(id) == Due(id)

\* One UPDATE ... WHERE status pending AND expireTime <= now.
WatchSweep ==
    /\ watcher.pc = "sleep"
    /\ orders' = [id \in DOMAIN orders |->
                    IF IsPending(id) /\ SweepDue(id)
                    THEN [orders[id] EXCEPT !.status = "expired"]
                    ELSE orders[id]]
    /\ watcher' = [pc |-> "scan"]
    /\ UNCHANGED <<world, api, confirm, effects>>

\* The scan reads a page of open orders; with dev auto-confirm it returns.
WatchScan ==
    /\ watcher.pc = "scan"
    /\ watcher' = IF DevAutoConfirm THEN [pc |-> "sleep"]
                  ELSE [pc |-> "next",
                        todo |-> {[id |-> id, amount |-> orders[id].amount] :
                                    id \in FirstK(Open, ScanLimit)}]
    /\ UNCHANGED <<world, orders, api, confirm, effects>>

\* The order the scan takes next: orders were read by ascending id.
IsNext(row) == row \in watcher.todo /\ \A other \in watcher.todo : row.id <= other.id

\* matchIncomingPayment fetches the transfers to the order's address.
WatchFetch(row) ==
    /\ watcher.pc = "next"
    /\ IsNext(row)
    /\ watcher' = [pc |-> "match", todo |-> watcher.todo \ {row}, row |-> row,
                   found |-> Incoming(orders[row.id].index,
                                      orders[row.id].createdAt - Grace)]
    /\ UNCHANGED <<world, orders, api, confirm, effects>>

\* TronGrid answers with an error: the scan logs it and takes the next order.
WatchFetchFails(row) ==
    /\ watcher.pc = "next"
    /\ IsNext(row)
    /\ watcher' = [pc |-> "next", todo |-> watcher.todo \ {row}]
    /\ UNCHANGED <<world, orders, api, confirm, effects>>

\* Fetched transfers whose amount answers the order's.
Payable == {n \in watcher.found : AmountOk(watcher.row.amount, chain[n].amount)}

\* The oldest payable transfer: one that a paid order claims is passed over,
\* any other confirms the order.
WatchMatch(n) ==
    /\ watcher.pc = "match"
    /\ n \in Payable
    /\ \A m \in Payable : n <= m
    /\ IF Claimed(n)
       THEN /\ watcher' = [watcher EXCEPT !.found = @ \ {n}]
            /\ UNCHANGED confirm
       ELSE /\ watcher' = [pc |-> "confirm", todo |-> watcher.todo,
                           id |-> watcher.row.id]
            /\ SetConfirm(watcher.row.id, [pc |-> "read", tx |-> ChainTx(n)])
    /\ UNCHANGED <<world, orders, api, effects>>

\* Nothing matched, or the confirmation has returned.
WatchOrderDone ==
    /\ \/ watcher.pc = "match" /\ Payable = {}
       \/ watcher.pc = "confirm" /\ confirm[watcher.id].pc = "idle"
    /\ watcher' = [pc |-> "next", todo |-> watcher.todo]
    /\ UNCHANGED <<world, orders, api, confirm, effects>>

\* The lookup of an order with the same hash fails, and ends this order's turn.
WatchMatchFails ==
    /\ watcher.pc = "match"
    /\ watcher' = [pc |-> "next", todo |-> watcher.todo]
    /\ UNCHANGED <<world, orders, api, confirm, effects>>

\* The tick ends (its last part, expireDueSubscriptions, leaves orders alone).
WatchTickDone ==
    /\ watcher.pc = "next"
    /\ watcher.todo = {}
    /\ watcher' = [pc |-> "sleep"]
    /\ UNCHANGED <<world, orders, api, confirm, effects>>

-----------------------------------------------------------------------------
(* Crashes, the chain and the clock *)

\* The scan's confirmations die with the payment-watch process, those of the
\* dev timers with the API process: each keeps nothing but the database.
WatcherCrash ==
    /\ watcher.pc # "sleep"
    /\ watcher' = [pc |-> "sleep"]
    /\ confirm' = IF DevAutoConfirm THEN confirm
                  ELSE [id \in OrderIds |-> Idle]
    /\ UNCHANGED <<world, orders, api, effects>>

ApiCrash ==
    /\ requests' = [r \in Requests |-> Idle]
    /\ timers' = {}
    /\ confirm' = IF DevAutoConfirm THEN [id \in OrderIds |-> Idle]
                  ELSE confirm
    /\ UNCHANGED <<world, orders, nextIndex, watcher, effects>>

\* Somebody pays any amount to an address the site has given out (the one that
\* development gives out is nobody's).
Pay(to, amount) ==
    /\ config.deposit # "none"
    /\ Len(chain) < MaxTransfers
    /\ chain' = Append(chain, [to |-> to, amount |-> amount, ts |-> now])
    /\ UNCHANGED <<config, now, orders, api, scan, effects>>

Tick ==
    /\ now < MaxTime
    /\ now' = now + 1
    /\ UNCHANGED <<config, chain, orders, api, scan, effects>>

-----------------------------------------------------------------------------
RequestStep(r) ==
    \/ \E u \in Users, p \in Plans : CreateCount(r, u, p)
    \/ AllocateDepositAddress(r)
    \/ \E id \in OrderIds : InsertOrder(r, id)
    \/ SetExactAmount(r)
    \/ \E id \in DOMAIN orders, op \in {"get", "cancel"} : ReadOrder(r, id, op)
    \/ DecideOnOrder(r)
    \/ WriteOrder(r)
    \/ RequestFails(r)

ConfirmStep(id) ==
    \/ ConfirmRead(id) \/ ConfirmDecide(id) \/ ConfirmExpire(id)
    \/ ConfirmPay(id) \/ ConfirmNotify(id) \/ ConfirmActivate(id)

ScannedRows == IF watcher.pc = "next" THEN watcher.todo ELSE {}

WatchStep ==
    \/ WatchSweep \/ WatchScan \/ WatchOrderDone \/ WatchTickDone
    \/ \E row \in ScannedRows : WatchFetch(row)
    \/ \E n \in DOMAIN chain : WatchMatch(n)

\* The watcher dies, or one of its statements or calls fails.
Failure ==
    \/ WatcherCrash \/ WatchMatchFails
    \/ \E row \in ScannedRows : WatchFetchFails(row)
    \/ \E id \in OrderIds : ConfirmFails(id)

Next ==
    \/ \E r \in Requests : RequestStep(r)
    \/ \E id \in OrderIds : ConfirmStep(id) \/ TimerFires(id)
    \/ WatchStep
    \/ Failure
    \/ ApiCrash
    \/ \E to \in {orders[id].index : id \in DOMAIN orders}, amount \in Amounts :
        Pay(to, amount)
    \/ Tick

Spec == Init /\ [][Next]_vars

\* A failure that is not also what the watcher would have done (a crash at the
\* end of a tick, say, leaves what the end of the tick leaves).
Setback == Failure /\ ~WatchStep /\ \A id \in OrderIds : ~ConfirmStep(id)

\* After failures in any number and order the watcher gets through its ticks.
\* The clock need not advance.
RecoverySpec ==
    /\ Spec
    /\ WF_vars(WatchStep) /\ \A id \in OrderIds : WF_vars(ConfirmStep(id))
    /\ <>[][~Setback]_vars

-----------------------------------------------------------------------------
(* Properties *)

\* With an xpub every order has a deposit address of its own: the index row is
\* read and incremented under its lock, so crashes and failed inserts may leave
\* gaps but no two orders, nor an order and a creation in flight, share one.
DepositIndexUnique ==
    UseXpub =>
        /\ \A i, j \in DOMAIN orders :
            i # j => orders[i].index # orders[j].index
        /\ \A r \in Requests, j \in DOMAIN orders :
            requests[r].pc = "insert" => requests[r].index # orders[j].index
        /\ \A r, q \in Requests :
            r # q /\ requests[r].pc = "insert" /\ requests[q].pc = "insert"
                => requests[r].index # requests[q].index

\* Of the orders that record one transfer at most one reads paid: the scan's
\* lookup of a paid order with the same hash and the confirmation it guards are
\* separate statements, and only the scan, which takes the orders one after
\* another, confirms with it.  It is about orders that read paid at one time: once
\* a stale write has withdrawn the status of the first, the lookup, which asks for
\* paid orders, misses it and the same transfer may confirm a second.
PaidTransfersDiffer ==
    \A i, j \in DOMAIN orders :
        /\ i # j /\ orders[i].status = "paid" /\ orders[j].status = "paid"
        => orders[i].tx # orders[j].tx

\* Whatever a stale write later makes of its status, an order that carries a
\* transaction hash was confirmed before it expired; by a transfer to its own
\* address, of at least the plan's price, made no earlier than the grace period
\* before the order; or, in development, by its own timer.
PaidIsBacked ==
    \A id \in DOMAIN orders : orders[id].tx # NoTx =>
        LET o == orders[id]
            n == o.tx[2]
        IN  /\ o.paidAt < o.expireAt
            /\ \/ /\ ~DevAutoConfirm
                  /\ o.tx = ChainTx(n) /\ n \in DOMAIN chain
                  /\ chain[n].to = o.index
                  /\ chain[n].amount >= Price[o.plan]
                  /\ chain[n].ts >= o.createdAt - Grace
                  /\ chain[n].ts <= o.paidAt
               \/ DevAutoConfirm /\ o.tx = DevTx(id)

\* The completed-payment webhook carries no idempotency key: it is delivered at
\* most once for an order, and only when the payment is already in the database,
\* through crashes of the watcher, failed calls and rescans.
NotifyAtMostOnce ==
    \A id \in OrderIds : webhooks[id] > 0 =>
        /\ webhooks[id] = 1
        /\ id \in DOMAIN orders
        /\ orders[id].tx # NoTx

\* createOrder counts before it inserts, so concurrent requests can exceed the
\* limit of pending orders, but by no more than the requests in flight.
PendingOvershootBounded ==
    \A u \in Users :
        Cardinality(OpenOf(u)) <= MaxPending - 1 + Cardinality(Requests)

Waits(id) == id \in DOMAIN orders /\ IsPending(id)

\* An order that is due does not stay pending: the sweep that opens every tick,
\* a confirmation, or the user's own reading takes it out, after any failures.
\* The clock need not advance past the very moment at which the order expires.
OverdueResolves ==
    \A id \in OrderIds : (Waits(id) /\ Due(id)) ~> ~Waits(id)

\* Transfers of an order's exact amount that no paid order claims.
Unclaimed(id) ==
    {n \in DOMAIN chain :
        /\ chain[n].to = orders[id].index
        /\ chain[n].ts >= orders[id].createdAt
        /\ chain[n].amount = orders[id].amount
        /\ \A j \in DOMAIN orders :
            orders[j].status = "paid" => orders[j].tx # ChainTx(n)}

\* A transfer that answers an open order is found: while the order is not due,
\* the scan retries after crashes and failed calls until the order is paid.
\* The clock need not advance, so expiry alone does not make this true.
PaymentDetected ==
    \A id \in OrderIds :
        (Waits(id) /\ Unclaimed(id) # {})
            ~> (~Waits(id) \/ Due(id) \/ Unclaimed(id) = {})

-----------------------------------------------------------------------------
(* The ledger that the rows keep *)

\* What may stand as an order's payment: a transfer, or the order's own timer.
Payments == {ChainTx(n) : n \in 1..MaxTransfers} \cup {DevTx(id) : id \in OrderIds}

Recorded == [id \in DOMAIN orders |->
                [status |-> orders[id].status, payment |-> orders[id].tx]]

Ledger == INSTANCE OrderLedger WITH
    NoPayment <- NoTx, ledger <- Recorded, notices <- webhooks

\* Every interleaving of the handlers, the timers and the watcher, with their
\* crashes and failures, is a history of the ledger: a payment is recorded once,
\* for an order without one, by a transfer that answers no paid order; it is
\* never lost; a notice follows it once; nothing becomes pending again.
KeepsLedger == Ledger!Spec

-----------------------------------------------------------------------------
(* What the repository says of the program, and the code does not keep *)

\* cancelOrder's own refusal: only a pending order can be cancelled.
OnlyPendingCancelled ==
    [][\A id \in DOMAIN orders :
        orders'[id].status = "cancelled" /\ orders[id].status # "cancelled"
            => orders[id].status = "pending"]_vars

\* With auto-upgrade on, a confirmed payment begins the subscription.
PaidOrderActivates == \A id \in OrderIds : activation[id] # "skipped"
=============================================================================
