------------------------- MODULE PaymentOrdersProofs -------------------------
(***************************************************************************)
(* Proofs about PaymentOrders, for every set of orders, users, plans and   *)
(* requests, every configuration and every bound: the types, the webhooks, *)
(* the deposit addresses, the ledger it implements, what backs a payment   *)
(* and how far the limit of pending orders can be overshot.                *)
(***************************************************************************)
EXTENDS PaymentOrders, TLAPS, FiniteSetTheorems

USE DEF world, api, scan, effects

\* What the handlers refer to exists: ids held by a request, a timer, a
\* confirmation or the scan are ids of rows.
RequestRefs ==
    \A r \in Requests :
        requests[r].pc \in {"exact", "get", "cancel", "expireWrite", "cancelWrite"}
            => requests[r].id \in DOMAIN orders

TimerRefs == timers \subseteq DOMAIN orders

ConfirmRefs ==
    \A id \in OrderIds : confirm[id].pc # "idle" => id \in DOMAIN orders

WatcherRefs ==
    /\ watcher.pc \in {"next", "match", "confirm"} =>
        \A row \in watcher.todo : row.id \in DOMAIN orders
    /\ watcher.pc = "match" => watcher.row.id \in DOMAIN orders
    /\ watcher.pc = "confirm" => watcher.id \in DOMAIN orders

RefsExist == RequestRefs /\ TimerRefs /\ ConfirmRefs /\ WatcherRefs

TypeInv == TypeOK /\ RefsExist

-----------------------------------------------------------------------------
(* The variants of the handlers' states *)

\* A request that is to allocate, or to insert, knows its user and its plan.
LEMMA RequestVariants ==
    ASSUME NEW x \in Request
    PROVE  /\ x.pc \in {"allocate", "insert"} => x.user \in Users /\ x.plan \in Plans
           /\ x.pc = "insert" => x.index \in Index
           /\ x.pc \in {"exact", "get", "cancel", "expireWrite", "cancelWrite"}
                => x.id \in OrderIds
  BY DEF Request

\* What the watcher keeps at each await.
LEMMA WatcherVariants ==
    ASSUME NEW x \in Watcher
    PROVE  /\ x.pc \in {"sleep", "scan", "next", "match", "confirm"}
           /\ x.pc \in {"next", "match", "confirm"} => x.todo \subseteq Snapshot
           /\ x.pc = "match" => x.row \in Snapshot /\ x.found \subseteq Nat
           /\ x.pc = "match" => x = [pc |-> "match", todo |-> x.todo,
                                     row |-> x.row, found |-> x.found]
           /\ x.pc = "confirm" => x.id \in OrderIds
  BY DEF Watcher

\* What a confirmation keeps at each await.
LEMMA ConfirmVariants ==
    ASSUME NEW x \in Confirm
    PROVE  /\ x.pc \in {"idle", "read", "decide", "expireWrite", "payWrite",
                        "reload", "activate"}
           /\ x.pc \in {"read", "decide", "expireWrite", "payWrite"} => x.tx \in TxHash
           /\ x.pc = "payWrite" => x.at \in Nat
           /\ x.pc = "activate" => x.saw \in Status
  BY DEF Confirm

-----------------------------------------------------------------------------
(* Typed updates of the order table *)

\* A row changed within its type leaves a table of the same ids.
LEMMA RowUpdate ==
    ASSUME NEW f, NEW g, NEW id, f \in [DOMAIN f -> Order],
           id \in DOMAIN f => g \in Order
    PROVE  /\ [f EXCEPT ![id] = g] \in [DOMAIN f -> Order]
           /\ DOMAIN [f EXCEPT ![id] = g] = DOMAIN f
  OBVIOUS

\* Writing a status, by id, keeps the table typed.
LEMMA StatusUpdate ==
    ASSUME TypeOK, NEW id, NEW st \in Status, SetStatus(id, st)
    PROVE  /\ DOMAIN orders' = DOMAIN orders
           /\ orders' \in [DOMAIN orders' -> Order]
<1>1. orders' = [orders EXCEPT ![id] = [orders[id] EXCEPT !.status = st]]
  BY DEF SetStatus
<1>2. id \in DOMAIN orders => [orders[id] EXCEPT !.status = st] \in Order
  BY DEF TypeOK, Order
<1>3. QED
  BY <1>1, <1>2, RowUpdate DEF TypeOK

-----------------------------------------------------------------------------
(* TypeInv is inductive: one lemma per process *)

LEMMA TypeInvInit == Init => TypeInv
<1> SUFFICES ASSUME Init PROVE TypeInv
  OBVIOUS
<1>1. orders \in [DOMAIN orders -> Order] /\ DOMAIN orders = {}
  BY DEF Init
<1>2. chain \in Seq(Transfer)
  BY DEF Init
<1>3. requests \in [Requests -> Request] /\ watcher \in Watcher
      /\ confirm \in [OrderIds -> Confirm]
  BY DEF Init, Idle, Request, Watcher, Confirm
<1>4. QED
  BY <1>1, <1>2, <1>3 DEF Init, TypeInv, TypeOK, RefsExist,
        RequestRefs, TimerRefs, ConfirmRefs, WatcherRefs, Idle

\* Moving one request on, and adding rows, leaves every reference in place.
LEMMA RequestMoved ==
    ASSUME TypeInv, NEW r \in Requests, NEW state \in Request,
           SetRequest(r, state),
           DOMAIN orders \subseteq DOMAIN orders',
           state.pc \in {"exact", "get", "cancel", "expireWrite", "cancelWrite"}
              => state.id \in DOMAIN orders',
           timers' \subseteq DOMAIN orders',
           UNCHANGED <<watcher, confirm>>
    PROVE  requests' \in [Requests -> Request] /\ RefsExist'
<1>1. requests' = [requests EXCEPT ![r] = state] /\ requests \in [Requests -> Request]
  BY DEF SetRequest, TypeInv, TypeOK
<1>2. RequestRefs'
  BY <1>1 DEF RequestRefs, TypeInv, RefsExist
<1>3. TimerRefs' /\ ConfirmRefs' /\ WatcherRefs'
  BY DEF TimerRefs, ConfirmRefs, WatcherRefs, TypeInv, RefsExist
<1>4. QED
  BY <1>1, <1>2, <1>3 DEF RefsExist

\* The handlers of createOrder, getOrderForUser and cancelOrder.
LEMMA TypeInvRequest ==
    ASSUME TypeInv, NEW r \in Requests, RequestStep(r)
    PROVE  TypeInv'
<1>r. requests[r] \in Request
  BY DEF TypeInv, TypeOK
<1>i. Idle \in Request /\ Idle.pc = "idle"
  BY DEF Idle, Request
<1>1. ASSUME NEW u \in Users, NEW p \in Plans, CreateCount(r, u, p)
      PROVE  TypeInv'
  <2> DEFINE state == [pc |-> "allocate", user |-> u, plan |-> p]
  <2>1. state \in Request /\ state.pc = "allocate" /\ SetRequest(r, state)
    BY <1>1 DEF CreateCount, Request
  <2> HIDE DEF state
  <2>2. requests' \in [Requests -> Request] /\ RefsExist'
    BY <1>1, <2>1, RequestMoved DEF CreateCount, TypeInv, RefsExist, TimerRefs
  <2>3. QED
    BY <1>1, <2>2 DEF CreateCount, TypeInv, TypeOK
<1>2. CASE AllocateDepositAddress(r)
  <2> DEFINE state(i) == [pc |-> "insert", user |-> requests[r].user,
                          plan |-> requests[r].plan, index |-> i]
  <2>1. requests[r].user \in Users /\ requests[r].plan \in Plans
    BY <1>2, <1>r, RequestVariants DEF AllocateDepositAddress
  <2>2. PICK i \in Index : SetRequest(r, state(i)) /\ nextIndex' \in Nat
    <3>1. nextIndex \in Index /\ FixedAddress \in Index /\ nextIndex \in Nat
      BY DEF TypeInv, TypeOK, Index, FixedAddress
    <3>2. \/ SetRequest(r, state(nextIndex)) /\ nextIndex' = nextIndex + 1
          \/ SetRequest(r, state(FixedAddress)) /\ nextIndex' = nextIndex
      BY <1>2 DEF AllocateDepositAddress, Allocated
    <3> HIDE DEF state
    <3>3. QED
      BY <3>1, <3>2
  <2>3. state(i) \in Request /\ state(i).pc = "insert"
    BY <2>1 DEF Request
  <2> HIDE DEF state
  <2>4. requests' \in [Requests -> Request] /\ RefsExist'
    BY <1>2, <2>2, <2>3, RequestMoved
    DEF AllocateDepositAddress, TypeInv, RefsExist, TimerRefs
  <2>5. QED
    BY <1>2, <2>2, <2>4 DEF AllocateDepositAddress, TypeInv, TypeOK
<1>3. ASSUME NEW id \in OrderIds, InsertOrder(r, id)
      PROVE  TypeInv'
  <2>1. requests[r].user \in Users /\ requests[r].plan \in Plans
        /\ requests[r].index \in Index
    BY <1>3, <1>r, RequestVariants DEF InsertOrder
  <2>2. NoTx \in TxHash /\ "pending" \in Status
    BY DEF TxHash, Status
  <2>3. Inserted(requests[r]) \in Order
    BY <2>1, <2>2, PriceAssumption, TimeAssumption DEF Inserted, Order, TypeInv, TypeOK
  <2>4. /\ DOMAIN orders' = DOMAIN orders \cup {id}
        /\ orders' \in [DOMAIN orders' -> Order]
    BY <1>3, <2>3 DEF InsertOrder, TypeInv, TypeOK
  <2>5. timers' \subseteq DOMAIN orders' /\ DOMAIN orders' \subseteq OrderIds
    BY <1>3, <2>4 DEF InsertOrder, TypeInv, TypeOK, RefsExist, TimerRefs
  <2>6. PICK state \in Request :
            /\ SetRequest(r, state)
            /\ state = Idle \/ state = [pc |-> "exact", id |-> id]
    <3>1. [pc |-> "exact", id |-> id] \in Request
      BY DEF Request
    <3>2. QED
      BY <1>3, <1>i, <3>1 DEF InsertOrder
  <2>7. state.pc \in {"exact", "get", "cancel", "expireWrite", "cancelWrite"}
            => state.id \in DOMAIN orders'
    BY <2>4, <2>6, <1>i
  <2>8. requests' \in [Requests -> Request] /\ RefsExist'
    BY <1>3, <2>4, <2>5, <2>6, <2>7, RequestMoved DEF InsertOrder
  <2>9. QED
    BY <1>3, <2>4, <2>5, <2>8 DEF InsertOrder, TypeInv, TypeOK
<1>4. CASE SetExactAmount(r)
  <2> DEFINE id == requests[r].id
             exact == TreasuryPayAmount(Price[orders[id].plan], id)
  <2>1. id \in OrderIds /\ id \in DOMAIN orders
    BY <1>4, <1>r, RequestVariants DEF SetExactAmount, TypeInv, RefsExist, RequestRefs
  <2>2. [orders[id] EXCEPT !.amount = exact] \in Order
    <3>1. orders[id] \in Order /\ Price[orders[id].plan] \in Nat
      BY <2>1, PriceAssumption DEF TypeInv, TypeOK, Order
    <3>2. id \in Nat /\ TailModulus \in Nat \ {0}
      BY <2>1, OrderIdsAssumption, LimitsAssumption
    <3>3. id % TailModulus \in Nat
      BY <3>2
    <3>4. exact \in Nat
      BY <3>1, <3>3 DEF TreasuryPayAmount
    <3>5. QED
      BY <3>1, <3>4 DEF Order
  <2>3. orders' = [orders EXCEPT ![id] = [orders[id] EXCEPT !.amount = exact]]
    BY <1>4 DEF SetExactAmount
  <2>4. DOMAIN orders' = DOMAIN orders /\ orders' \in [DOMAIN orders' -> Order]
    BY <2>2, <2>3, RowUpdate DEF TypeInv, TypeOK
  <2>5. timers' \subseteq DOMAIN orders' /\ timers' \subseteq OrderIds
    BY <1>4, <2>1, <2>4 DEF SetExactAmount, TypeInv, TypeOK, RefsExist, TimerRefs
  <2>6. requests' \in [Requests -> Request] /\ RefsExist'
    BY <1>4, <1>i, <2>4, <2>5, RequestMoved DEF SetExactAmount
  <2>7. QED
    BY <1>4, <2>4, <2>5, <2>6 DEF SetExactAmount, TypeInv, TypeOK
<1>5. ASSUME NEW id \in DOMAIN orders, NEW op \in {"get", "cancel"},
             ReadOrder(r, id, op)
      PROVE  TypeInv'
  <2> DEFINE state == [pc |-> op, id |-> id]
  <2>1. state \in Request /\ state.id \in DOMAIN orders' /\ SetRequest(r, state)
    BY <1>5 DEF ReadOrder, Request, TypeInv, TypeOK
  <2> HIDE DEF state
  <2>2. requests' \in [Requests -> Request] /\ RefsExist'
    BY <1>5, <2>1, RequestMoved DEF ReadOrder, TypeInv, RefsExist, TimerRefs
  <2>3. QED
    BY <1>5, <2>2 DEF ReadOrder, TypeInv, TypeOK
<1>6. CASE DecideOnOrder(r)
  <2> DEFINE id == requests[r].id
  <2>1. id \in OrderIds /\ id \in DOMAIN orders
    BY <1>6, <1>r, RequestVariants DEF DecideOnOrder, TypeInv, RefsExist, RequestRefs
  <2>2. PICK state \in Request :
            SetRequest(r, state) /\ (state = Idle \/ state.id \in DOMAIN orders)
    <3>1. [pc |-> "expireWrite", id |-> id] \in Request
          /\ [pc |-> "cancelWrite", id |-> id] \in Request
      BY <2>1 DEF Request
    <3>2. QED
      BY <1>6, <1>i, <2>1, <3>1 DEF DecideOnOrder
  <2>3. requests' \in [Requests -> Request] /\ RefsExist'
    BY <1>6, <1>i, <2>2, RequestMoved DEF DecideOnOrder, TypeInv, RefsExist, TimerRefs
  <2>4. QED
    BY <1>6, <2>3 DEF DecideOnOrder, TypeInv, TypeOK
<1>7. CASE WriteOrder(r)
  <2>1. DOMAIN orders' = DOMAIN orders /\ orders' \in [DOMAIN orders' -> Order]
    <3>1. PICK st \in Status : SetStatus(requests[r].id, st)
      BY <1>7 DEF WriteOrder, Status
    <3>2. QED
      BY <3>1, StatusUpdate DEF TypeInv
  <2>2. requests' \in [Requests -> Request] /\ RefsExist'
    BY <1>7, <1>i, <2>1, RequestMoved DEF WriteOrder, TypeInv, RefsExist, TimerRefs
  <2>3. QED
    BY <1>7, <2>1, <2>2 DEF WriteOrder, TypeInv, TypeOK
<1>8. CASE RequestFails(r)
  <2>1. requests' \in [Requests -> Request] /\ RefsExist'
    BY <1>8, <1>i, RequestMoved DEF RequestFails, TypeInv, RefsExist, TimerRefs
  <2>2. QED
    BY <1>8, <2>1 DEF RequestFails, TypeInv, TypeOK
<1>9. QED
  BY <1>1, <1>2, <1>3, <1>4, <1>5, <1>6, <1>7, <1>8 DEF RequestStep

\* The steps of confirmOrderPaid.
LEMMA TypeInvConfirm ==
    ASSUME TypeInv, NEW id \in OrderIds, ConfirmStep(id)
    PROVE  TypeInv'
<1>c. confirm[id] \in Confirm /\ confirm \in [OrderIds -> Confirm]
  BY DEF TypeInv, TypeOK
<1>1. confirm[id].pc # "idle"
  BY DEF ConfirmStep, ConfirmRead, ConfirmDecide, ConfirmExpire, ConfirmPay,
         ConfirmNotify, ConfirmActivate
<1>2. id \in DOMAIN orders
  BY <1>1 DEF TypeInv, RefsExist, ConfirmRefs
<1>3. PICK state \in Confirm : SetConfirm(id, state)
  <2>i. Idle \in Confirm
    BY DEF Idle, Confirm
  <2>1. CASE ConfirmRead(id)
    <3>1. confirm[id].tx \in TxHash
      BY <2>1, <1>c, ConfirmVariants DEF ConfirmRead
    <3>2. [pc |-> "decide", tx |-> confirm[id].tx] \in Confirm
      BY <3>1 DEF Confirm
    <3>3. QED
      BY <2>1, <2>i, <3>2 DEF ConfirmRead
  <2>2. CASE ConfirmDecide(id)
    <3>1. confirm[id].tx \in TxHash /\ now \in Nat
      BY <2>2, <1>c, ConfirmVariants DEF ConfirmDecide, TypeInv, TypeOK
    <3>2. /\ [pc |-> "expireWrite", tx |-> confirm[id].tx] \in Confirm
          /\ [pc |-> "payWrite", tx |-> confirm[id].tx, at |-> now] \in Confirm
      BY <3>1 DEF Confirm
    <3>3. QED
      BY <2>2, <3>2 DEF ConfirmDecide
  <2>3. CASE ConfirmExpire(id)
    BY <2>3, <2>i DEF ConfirmExpire
  <2>4. CASE ConfirmPay(id)
    <3>1. [pc |-> "reload"] \in Confirm
      BY DEF Confirm
    <3>2. QED
      BY <2>4, <3>1 DEF ConfirmPay
  <2>5. CASE ConfirmNotify(id)
    <3>1. orders[id].status \in Status
      BY <1>2 DEF TypeInv, TypeOK, Order
    <3>2. [pc |-> "activate", saw |-> orders[id].status] \in Confirm
      BY <3>1 DEF Confirm
    <3>3. QED
      BY <2>5, <2>i, <3>2 DEF ConfirmNotify
  <2>6. CASE ConfirmActivate(id)
    BY <2>6, <2>i DEF ConfirmActivate
  <2>7. QED
    BY <2>1, <2>2, <2>3, <2>4, <2>5, <2>6 DEF ConfirmStep
<1>4. DOMAIN orders' = DOMAIN orders /\ orders' \in [DOMAIN orders' -> Order]
  <2>1. CASE ConfirmExpire(id)
    BY <2>1, StatusUpdate DEF ConfirmExpire, Status, TypeInv
  <2>2. CASE ConfirmPay(id)
    <3>1. confirm[id].tx \in TxHash /\ confirm[id].at \in Nat
      BY <2>2, <1>c, ConfirmVariants DEF ConfirmPay
    <3>2. orders[id] \in Order
      BY <1>2 DEF TypeInv, TypeOK
    <3>3. Paid(orders[id], confirm[id].tx, confirm[id].at) \in Order
      BY <3>1, <3>2 DEF Paid, Order, Status
    <3>4. orders' = [orders EXCEPT ![id] =
                        Paid(orders[id], confirm[id].tx, confirm[id].at)]
      BY <2>2 DEF ConfirmPay
    <3>5. QED
      BY <3>3, <3>4, RowUpdate DEF TypeInv, TypeOK
  <2>3. CASE UNCHANGED orders
    BY <2>3 DEF TypeInv, TypeOK
  <2>4. QED
    BY <2>1, <2>2, <2>3 DEF ConfirmStep, ConfirmRead, ConfirmDecide,
       ConfirmNotify, ConfirmActivate
<1>5. /\ webhooks' \in [OrderIds -> Nat]
      /\ activation' \in [OrderIds -> {"none", "skipped", "begun"}]
  BY DEF ConfirmStep, ConfirmRead, ConfirmDecide, ConfirmExpire, ConfirmPay,
         ConfirmNotify, ConfirmActivate, TypeInv, TypeOK
<1>6. UNCHANGED <<config, now, nextIndex, chain, requests, timers, watcher>>
  BY DEF ConfirmStep, ConfirmRead, ConfirmDecide, ConfirmExpire, ConfirmPay,
         ConfirmNotify, ConfirmActivate
<1>7. confirm' \in [OrderIds -> Confirm] /\ ConfirmRefs'
  BY <1>2, <1>3, <1>4, <1>c DEF SetConfirm, ConfirmRefs, TypeInv, RefsExist
<1>8. RefsExist'
  BY <1>4, <1>6, <1>7 DEF TypeInv, RefsExist, RequestRefs, TimerRefs, WatcherRefs
<1>9. QED
  BY <1>4, <1>5, <1>6, <1>7, <1>8 DEF TypeInv, TypeOK

\* The sweep changes statuses only.
LEMMA TypeInvSweep ==
    ASSUME TypeInv, WatchSweep
    PROVE  TypeInv'
<1>1. \A id \in DOMAIN orders : [orders[id] EXCEPT !.status = "expired"] \in Order
  BY DEF TypeInv, TypeOK, Order, Status
<1>2. DOMAIN orders' = DOMAIN orders /\ orders' \in [DOMAIN orders' -> Order]
  BY <1>1 DEF WatchSweep, TypeInv, TypeOK
<1>3. watcher' \in Watcher
  BY DEF WatchSweep, Watcher
<1>4. RefsExist'
  BY <1>2 DEF WatchSweep, TypeInv, RefsExist, RequestRefs, TimerRefs,
              ConfirmRefs, WatcherRefs
<1>5. QED
  BY <1>2, <1>3, <1>4 DEF WatchSweep, TypeInv, TypeOK

\* The other steps of the loop, and their failures, move the watcher on
\* without touching the orders.
LEMMA WatcherMoved ==
    ASSUME TypeInv, NEW state \in Watcher, watcher' = state,
           state.pc \in {"next", "match", "confirm"} =>
                \A row \in state.todo : row.id \in DOMAIN orders,
           state.pc = "match" => state.row.id \in DOMAIN orders,
           state.pc = "confirm" => state.id \in DOMAIN orders,
           confirm' \in [OrderIds -> Confirm],
           \A id \in OrderIds :
                confirm'[id].pc # "idle" => id \in DOMAIN orders,
           UNCHANGED <<config, now, orders, nextIndex, chain, requests, timers,
                       webhooks, activation>>
    PROVE  TypeInv'
<1>1. RefsExist'
  BY DEF TypeInv, RefsExist, RequestRefs, TimerRefs, ConfirmRefs, WatcherRefs
<1>2. QED
  BY <1>1 DEF TypeInv, TypeOK

LEMMA TypeInvWatch ==
    ASSUME TypeInv, WatchStep \/ WatchMatchFails
                    \/ \E row \in ScannedRows : WatchFetchFails(row)
    PROVE  TypeInv'
<1>w. /\ watcher \in Watcher /\ confirm \in [OrderIds -> Confirm]
      /\ \A id \in OrderIds : confirm[id].pc # "idle" => id \in DOMAIN orders
      /\ WatcherRefs
  BY DEF TypeInv, TypeOK, RefsExist, ConfirmRefs
<1>n. ASSUME NEW T \in SUBSET Snapshot,
             \A row \in T : row.id \in DOMAIN orders,
             watcher' = [pc |-> "next", todo |-> T],
             UNCHANGED <<config, now, orders, nextIndex, chain, requests,
                         timers, confirm, webhooks, activation>>
      PROVE  TypeInv'
  <2> DEFINE state == [pc |-> "next", todo |-> T]
  <2>1. /\ state \in Watcher /\ state.pc = "next" /\ state.todo = T
        /\ watcher' = state
    BY <1>n DEF Watcher
  <2> HIDE DEF state
  <2>2. QED
    BY <1>n, <1>w, <2>1, WatcherMoved
<1>s. ASSUME NEW pc \in {"sleep", "scan"}, watcher' = [pc |-> pc],
             UNCHANGED <<config, now, orders, nextIndex, chain, requests,
                         timers, confirm, webhooks, activation>>
      PROVE  TypeInv'
  <2> DEFINE state == [pc |-> pc]
  <2>1. state \in Watcher /\ state.pc \in {"sleep", "scan"} /\ watcher' = state
    BY <1>s DEF Watcher
  <2> HIDE DEF state
  <2>2. QED
    BY <1>s, <1>w, <2>1, WatcherMoved
<1>1. CASE WatchSweep
  BY <1>1, TypeInvSweep
<1>2. CASE WatchScan
  <2> DEFINE T == {[id |-> id, amount |-> orders[id].amount] :
                      id \in FirstK(Open, ScanLimit)}
  <2>1. T \in SUBSET Snapshot /\ \A row \in T : row.id \in DOMAIN orders
    <3>1. FirstK(Open, ScanLimit) \subseteq DOMAIN orders
      BY DEF FirstK, Open
    <3>2. \A id \in DOMAIN orders : orders[id].amount \in Nat /\ id \in OrderIds
      BY DEF TypeInv, TypeOK, Order
    <3>3. QED
      BY <3>1, <3>2 DEF Snapshot
  <2>2. watcher' = [pc |-> "sleep"] \/ watcher' = [pc |-> "next", todo |-> T]
    BY <1>2 DEF WatchScan
  <2>3. UNCHANGED <<config, now, orders, nextIndex, chain, requests, timers,
                    confirm, webhooks, activation>>
    BY <1>2 DEF WatchScan
  <2> HIDE DEF T
  <2>4. QED
    BY <2>1, <2>2, <2>3, <1>n, <1>s
<1>3. ASSUME NEW row \in ScannedRows, WatchFetch(row)
      PROVE  TypeInv'
  <2> DEFINE T == watcher.todo \ {row}
             F == Incoming(orders[row.id].index, orders[row.id].createdAt - Grace)
             state == [pc |-> "match", todo |-> T, row |-> row, found |-> F]
  <2>1. watcher.pc = "next" /\ row \in watcher.todo /\ watcher' = state
    BY <1>3 DEF WatchFetch, IsNext
  <2>2. watcher.todo \subseteq Snapshot
        /\ \A other \in watcher.todo : other.id \in DOMAIN orders
    BY <2>1, <1>w, WatcherVariants DEF WatcherRefs
  <2>3. F \subseteq Nat
    BY DEF Incoming, FirstK, TypeInv, TypeOK
  <2>4. /\ state \in Watcher /\ state.pc = "match" /\ state.row = row
        /\ \A other \in state.todo : other.id \in DOMAIN orders
    <3>1. T \in SUBSET Snapshot /\ row \in Snapshot /\ F \in SUBSET Nat
      BY <2>1, <2>2, <2>3
    <3>2. \A other \in T : other.id \in DOMAIN orders
      BY <2>2
    <3> HIDE DEF T, F
    <3>3. QED
      BY <3>1, <3>2 DEF Watcher
  <2>5. UNCHANGED <<config, now, orders, nextIndex, chain, requests, timers,
                    confirm, webhooks, activation>>
    BY <1>3 DEF WatchFetch
  <2> HIDE DEF state
  <2>6. QED
    BY <1>w, <2>1, <2>2, <2>4, <2>5, WatcherMoved
<1>4. ASSUME NEW n \in DOMAIN chain, WatchMatch(n)
      PROVE  TypeInv'
  <2>1. /\ watcher.pc = "match" /\ n \in Payable
        /\ UNCHANGED <<config, now, orders, nextIndex, chain, requests, timers,
                       webhooks, activation>>
    BY <1>4 DEF WatchMatch
  <2>2. /\ watcher.todo \subseteq Snapshot /\ watcher.row \in Snapshot
        /\ watcher.found \subseteq Nat
        /\ watcher = [pc |-> "match", todo |-> watcher.todo,
                      row |-> watcher.row, found |-> watcher.found]
        /\ watcher.row.id \in DOMAIN orders
        /\ \A row \in watcher.todo : row.id \in DOMAIN orders
    BY <2>1, <1>w, WatcherVariants DEF WatcherRefs
  <2>3. CASE Claimed(n)
    <3> DEFINE state == [pc |-> "match", todo |-> watcher.todo,
                         row |-> watcher.row, found |-> watcher.found \ {n}]
    <3>1. watcher' = state /\ UNCHANGED confirm
      BY <1>4, <2>2, <2>3 DEF WatchMatch
    <3>2. /\ state \in Watcher /\ state.pc = "match"
          /\ state.row = watcher.row /\ state.todo = watcher.todo
      BY <2>2 DEF Watcher
    <3> HIDE DEF state
    <3>3. QED
      BY <1>w, <2>1, <2>2, <3>1, <3>2, WatcherMoved
  <2>4. CASE ~Claimed(n)
    <3> DEFINE id == watcher.row.id
               state == [pc |-> "confirm", todo |-> watcher.todo, id |-> id]
               begun == [pc |-> "read", tx |-> ChainTx(n)]
    <3>1. watcher' = state /\ SetConfirm(id, begun)
      BY <1>4, <2>4 DEF WatchMatch
    <3>2. id \in OrderIds /\ id \in DOMAIN orders
      BY <2>2 DEF Snapshot
    <3>3. begun \in Confirm
      <4>1. n \in Nat
        BY DEF TypeInv, TypeOK
      <4>2. ChainTx(n) \in TxHash
        BY <4>1 DEF ChainTx, TxHash
      <4>3. QED
        BY <4>2 DEF Confirm
    <3>4. /\ state \in Watcher /\ state.pc = "confirm"
          /\ state.id = id /\ state.todo = watcher.todo
      BY <2>2, <3>2 DEF Watcher
    <3> HIDE DEF state, begun, id
    <3>5. /\ confirm' \in [OrderIds -> Confirm]
          /\ \A j \in OrderIds : confirm'[j].pc # "idle" => j \in DOMAIN orders
      BY <1>w, <3>1, <3>2, <3>3 DEF SetConfirm
    <3>6. QED
      BY <2>1, <2>2, <3>1, <3>2, <3>4, <3>5, WatcherMoved
  <2>5. QED
    BY <2>3, <2>4
<1>5. CASE WatchOrderDone \/ WatchMatchFails
  <2>1. watcher.pc \in {"match", "confirm"}
        /\ watcher' = [pc |-> "next", todo |-> watcher.todo]
        /\ UNCHANGED <<config, now, orders, nextIndex, chain, requests, timers,
                       confirm, webhooks, activation>>
    BY <1>5 DEF WatchOrderDone, WatchMatchFails
  <2>2. watcher.todo \in SUBSET Snapshot
        /\ \A row \in watcher.todo : row.id \in DOMAIN orders
    BY <2>1, <1>w, WatcherVariants DEF WatcherRefs
  <2>3. QED
    BY <2>1, <2>2, <1>n
<1>6. ASSUME NEW row \in ScannedRows, WatchFetchFails(row)
      PROVE  TypeInv'
  <2>1. watcher.pc = "next"
        /\ watcher' = [pc |-> "next", todo |-> watcher.todo \ {row}]
        /\ UNCHANGED <<config, now, orders, nextIndex, chain, requests, timers,
                       confirm, webhooks, activation>>
    BY <1>6 DEF WatchFetchFails
  <2>2. watcher.todo \ {row} \in SUBSET Snapshot
        /\ \A other \in watcher.todo : other.id \in DOMAIN orders
    BY <2>1, <1>w, WatcherVariants DEF WatcherRefs
  <2>3. QED
    BY <2>1, <2>2, <1>n
<1>7. CASE WatchTickDone
  BY <1>7, <1>s DEF WatchTickDone
<1>8. QED
  BY <1>1, <1>2, <1>3, <1>4, <1>5, <1>6, <1>7 DEF WatchStep

\* Crashes, failed confirmations and dev timers.
LEMMA TypeInvFailure ==
    ASSUME TypeInv, \/ WatcherCrash \/ ApiCrash
                    \/ \E id \in OrderIds : ConfirmFails(id) \/ TimerFires(id)
    PROVE  TypeInv'
<1>i. Idle \in Confirm /\ Idle \in Request /\ Idle.pc = "idle"
  BY DEF Idle, Confirm, Request
<1>1. CASE WatcherCrash
  <2> DEFINE state == [pc |-> "sleep"]
  <2>1. state \in Watcher /\ state.pc = "sleep" /\ watcher' = state
    BY <1>1 DEF WatcherCrash, Watcher
  <2>2. /\ confirm' \in [OrderIds -> Confirm]
        /\ \A id \in OrderIds : confirm'[id].pc # "idle" => id \in DOMAIN orders
    BY <1>1, <1>i DEF WatcherCrash, TypeInv, TypeOK, RefsExist, ConfirmRefs
  <2>3. UNCHANGED <<config, now, orders, nextIndex, chain, requests, timers,
                    webhooks, activation>>
    BY <1>1 DEF WatcherCrash
  <2> HIDE DEF state
  <2>4. QED
    BY <2>1, <2>2, <2>3, WatcherMoved
<1>2. CASE ApiCrash
  <2>1. /\ confirm' \in [OrderIds -> Confirm]
        /\ \A id \in OrderIds : confirm'[id].pc # "idle" => id \in DOMAIN orders
    BY <1>2, <1>i DEF ApiCrash, TypeInv, TypeOK, RefsExist, ConfirmRefs
  <2>2. requests' \in [Requests -> Request] /\ timers' = {}
    BY <1>2, <1>i DEF ApiCrash
  <2>3. \A r \in Requests : requests'[r].pc = "idle"
    BY <1>2, <1>i DEF ApiCrash
  <2>4. RefsExist'
    BY <1>2, <2>1, <2>2, <2>3 DEF ApiCrash, TypeInv, RefsExist, RequestRefs,
       TimerRefs, ConfirmRefs, WatcherRefs
  <2>5. QED
    BY <1>2, <2>1, <2>2, <2>4 DEF ApiCrash, TypeInv, TypeOK
<1>3. ASSUME NEW id \in OrderIds, ConfirmFails(id) \/ TimerFires(id)
      PROVE  TypeInv'
  <2>1. PICK state \in Confirm :
            SetConfirm(id, state) /\ (state.pc # "idle" => id \in DOMAIN orders)
    <3>1. [pc |-> "read", tx |-> DevTx(id)] \in Confirm
      <4>1. DevTx(id) \in TxHash
        BY OrderIdsAssumption DEF DevTx, TxHash
      <4>2. QED
        BY <4>1 DEF Confirm
    <3>2. id \in timers => id \in DOMAIN orders
      BY DEF TypeInv, RefsExist, TimerRefs
    <3>3. QED
      BY <1>3, <1>i, <3>1, <3>2 DEF ConfirmFails, TimerFires
  <2>2. confirm' \in [OrderIds -> Confirm]
        /\ \A j \in OrderIds : confirm'[j].pc # "idle" => j \in DOMAIN orders
    BY <2>1 DEF SetConfirm, TypeInv, TypeOK, RefsExist, ConfirmRefs
  <2>3. timers' \subseteq timers
        /\ UNCHANGED <<config, now, orders, nextIndex, chain, requests, watcher,
                       webhooks, activation>>
    BY <1>3 DEF ConfirmFails, TimerFires
  <2>4. RefsExist'
    BY <2>2, <2>3 DEF TypeInv, RefsExist, RequestRefs, TimerRefs, ConfirmRefs,
       WatcherRefs
  <2>5. QED
    BY <2>2, <2>3, <2>4 DEF TypeInv, TypeOK
<1>4. QED
  BY <1>1, <1>2, <1>3

\* The chain and the clock.
LEMMA TypeInvWorld ==
    ASSUME TypeInv,
           \/ \E to \in {orders[id].index : id \in DOMAIN orders},
                 amount \in Amounts : Pay(to, amount)
           \/ Tick
           \/ UNCHANGED vars
    PROVE  TypeInv'
<1>1. UNCHANGED <<config, orders, nextIndex, requests, timers, watcher, confirm,
                  webhooks, activation>>
  BY DEF Pay, Tick, vars
<1>2. RefsExist'
  BY <1>1 DEF TypeInv, RefsExist, RequestRefs, TimerRefs, ConfirmRefs, WatcherRefs
<1>3. chain' \in Seq(Transfer) /\ now' \in Nat
  <2>1. ASSUME NEW to \in {orders[id].index : id \in DOMAIN orders},
               NEW amount \in Amounts, Pay(to, amount)
        PROVE  chain' \in Seq(Transfer) /\ now' \in Nat
    <3>1. to \in Index
      BY DEF TypeInv, TypeOK, Order
    <3>2. [to |-> to, amount |-> amount, ts |-> now] \in Transfer
      BY <3>1, PriceAssumption DEF Transfer, TypeInv, TypeOK
    <3>3. QED
      BY <2>1, <3>2 DEF Pay, TypeInv, TypeOK
  <2>2. CASE Tick
    BY <2>2 DEF Tick, TypeInv, TypeOK
  <2>3. CASE UNCHANGED vars
    BY <2>3 DEF vars, TypeInv, TypeOK
  <2>4. QED
    BY <2>1, <2>2, <2>3
<1>4. QED
  BY <1>1, <1>2, <1>3 DEF TypeInv, TypeOK

LEMMA TypeInvNext == TypeInv /\ [Next]_vars => TypeInv'
  BY TypeInvRequest, TypeInvConfirm, TypeInvWatch, TypeInvFailure, TypeInvWorld
  DEF Next, Failure

LEMMA TypeInvariant == Spec => []TypeInv
  BY TypeInvInit, TypeInvNext, PTL DEF Spec

\* The variables keep their types: every row, snapshot and handler state is one
\* the code can write, in every configuration.
THEOREM TypeCorrect == Spec => []TypeOK
<1>1. TypeInv => TypeOK
  BY DEF TypeInv
<1>2. QED
  BY <1>1, TypeInvariant, PTL

-----------------------------------------------------------------------------
(* At most one webhook for an order.  NotifyAtMostOnce alone is not         *)
(* inductive: that a confirmation which is about to notify has not notified *)
(* before follows from the transaction hash, which is written once, while   *)
(* the order is pending, and never cleared.                                 *)

\* The order, its confirmation and its webhook agree.
NotifyInvOf(id) ==
    /\ webhooks[id] \in {0, 1}
    /\ webhooks[id] = 1 => id \in DOMAIN orders /\ orders[id].tx # NoTx
    /\ id \in DOMAIN orders /\ orders[id].tx # NoTx
        => orders[id].status # "pending"
    /\ confirm[id].pc \in {"decide", "payWrite"} => orders[id].tx = NoTx
    /\ confirm[id].pc \in {"read", "decide", "payWrite"} => confirm[id].tx # NoTx
    /\ confirm[id].pc = "reload" => webhooks[id] = 0 /\ orders[id].tx # NoTx

NotifyInv == \A id \in OrderIds : NotifyInvOf(id)

\* A step leaves the hash of an order alone and does not reopen it; a new order
\* has no hash.
HashKept(id) ==
    IF id \in DOMAIN orders
    THEN /\ id \in DOMAIN orders'
         /\ orders'[id].tx = orders[id].tx
         /\ orders'[id].status = "pending" => orders[id].status = "pending"
    ELSE id \in DOMAIN orders' => orders'[id].tx = NoTx

\* A confirmation stays where it is, gives up, or starts with a hash.
ConfirmationKept(id) ==
    \/ confirm'[id] = confirm[id]
    \/ confirm'[id].pc \in {"idle", "expireWrite", "activate"}
    \/ confirm'[id].pc = "read" /\ confirm'[id].tx # NoTx

LEMMA NotifyFrame ==
    ASSUME TypeInv, NEW id \in OrderIds, NotifyInvOf(id), HashKept(id),
           ConfirmationKept(id), webhooks'[id] = webhooks[id]
    PROVE  NotifyInvOf(id)'
<1>1. confirm[id].pc # "idle" => id \in DOMAIN orders
  BY DEF TypeInv, RefsExist, ConfirmRefs
<1>2. QED
  BY <1>1 DEF NotifyInvOf, HashKept, ConfirmationKept

LEMMA SomeTx == \A n : ChainTx(n) # NoTx /\ DevTx(n) # NoTx
  BY DEF ChainTx, DevTx, NoTx

LEMMA NotifyInvRequest ==
    ASSUME TypeInv, NotifyInv, NEW r \in Requests, RequestStep(r)
    PROVE  NotifyInv'
<1> SUFFICES ASSUME NEW id \in OrderIds PROVE NotifyInvOf(id)'
  BY DEF NotifyInv
<1>1. UNCHANGED <<confirm, webhooks>>
  BY DEF RequestStep, CreateCount, AllocateDepositAddress, InsertOrder,
         SetExactAmount, ReadOrder, DecideOnOrder, WriteOrder, RequestFails
<1>2. HashKept(id)
  <2>1. CASE UNCHANGED orders
    BY <2>1 DEF HashKept
  <2>2. ASSUME NEW j \in OrderIds, InsertOrder(r, j)
        PROVE  HashKept(id)
    BY <2>2 DEF InsertOrder, Inserted, HashKept
  <2>3. CASE SetExactAmount(r)
    <3>1. PICK exact : orders' = [orders EXCEPT ![requests[r].id] =
                                    [orders[requests[r].id] EXCEPT !.amount = exact]]
      BY <2>3 DEF SetExactAmount
    <3>2. orders[id] \in Order \/ id \notin DOMAIN orders
      BY DEF TypeInv, TypeOK
    <3>3. QED
      BY <3>1, <3>2 DEF HashKept, Order
  <2>4. CASE WriteOrder(r)
    <3>1. PICK s \in {"expired", "cancelled"} :
              orders' = [orders EXCEPT ![requests[r].id] =
                            [orders[requests[r].id] EXCEPT !.status = s]]
      BY <2>4 DEF WriteOrder, SetStatus
    <3>2. orders[id] \in Order \/ id \notin DOMAIN orders
      BY DEF TypeInv, TypeOK
    <3>3. QED
      BY <3>1, <3>2 DEF HashKept, Order
  <2>5. QED
    BY <2>1, <2>2, <2>3, <2>4 DEF RequestStep, CreateCount,
       AllocateDepositAddress, ReadOrder, DecideOnOrder, RequestFails
<1>3. QED
  BY <1>1, <1>2, NotifyFrame DEF NotifyInv, ConfirmationKept

LEMMA NotifyInvConfirm ==
    ASSUME TypeInv, NotifyInv, NEW j \in OrderIds, ConfirmStep(j)
    PROVE  NotifyInv'
<1> SUFFICES ASSUME NEW id \in OrderIds PROVE NotifyInvOf(id)'
  BY DEF NotifyInv
<1>c. confirm \in [OrderIds -> Confirm] /\ webhooks \in [OrderIds -> Nat]
      /\ NotifyInvOf(id) /\ NotifyInvOf(j)
  BY DEF TypeInv, TypeOK, NotifyInv
<1>d. j \in DOMAIN orders /\ orders[j] \in Order
  <2>1. confirm[j].pc # "idle"
    BY DEF ConfirmStep, ConfirmRead, ConfirmDecide, ConfirmExpire, ConfirmPay,
           ConfirmNotify, ConfirmActivate
  <2>2. QED
    BY <2>1 DEF TypeInv, TypeOK, RefsExist, ConfirmRefs
\* Another order's confirmation.
<1>1. CASE id # j
  <2>1. PICK state : confirm' = [confirm EXCEPT ![j] = state]
    BY DEF ConfirmStep, ConfirmRead, ConfirmDecide, ConfirmExpire, ConfirmPay,
           ConfirmNotify, ConfirmActivate, SetConfirm
  <2>2. ConfirmationKept(id)
    BY <1>1, <1>c, <2>1 DEF ConfirmationKept
  <2>3. PICK row : orders' = orders \/ orders' = [orders EXCEPT ![j] = row]
    BY DEF ConfirmStep, ConfirmRead, ConfirmDecide, ConfirmExpire, ConfirmPay,
           ConfirmNotify, ConfirmActivate, SetStatus
  <2>4. HashKept(id)
    BY <1>1, <2>3 DEF HashKept, TypeInv, TypeOK
  <2>5. webhooks'[id] = webhooks[id]
    BY <1>1, <1>c DEF ConfirmStep, ConfirmRead, ConfirmDecide, ConfirmExpire,
       ConfirmPay, ConfirmNotify, ConfirmActivate
  <2>6. QED
    BY <1>c, <2>2, <2>4, <2>5, NotifyFrame
<1>2. CASE id = j /\ ConfirmRead(j)
  <2>1. CASE IsPending(j)
    <3>1. confirm'[j] = [pc |-> "decide", tx |-> confirm[j].tx]
          /\ confirm[j].pc = "read" /\ UNCHANGED <<orders, webhooks>>
      BY <1>2, <1>c, <2>1 DEF ConfirmRead, SetConfirm
    <3>2. orders[j].tx = NoTx
      BY <1>c, <1>d, <2>1 DEF NotifyInvOf, IsPending
    <3>3. QED
      BY <1>2, <1>c, <3>1, <3>2 DEF NotifyInvOf
  <2>2. CASE ~IsPending(j)
    <3>1. confirm'[j] = Idle /\ UNCHANGED <<orders, webhooks>>
      BY <1>2, <1>c, <2>2 DEF ConfirmRead, SetConfirm
    <3>2. HashKept(j) /\ ConfirmationKept(j)
      BY <3>1 DEF HashKept, ConfirmationKept, Idle
    <3>3. QED
      BY <1>2, <1>c, <3>1, <3>2, NotifyFrame
  <2>3. QED
    BY <2>1, <2>2
<1>3. CASE id = j /\ ConfirmDecide(j)
  <2>1. confirm[j].pc = "decide" /\ UNCHANGED <<orders, webhooks>>
    BY <1>3 DEF ConfirmDecide
  <2>2. \/ confirm'[j] = [pc |-> "expireWrite", tx |-> confirm[j].tx]
        \/ confirm'[j] = [pc |-> "payWrite", tx |-> confirm[j].tx, at |-> now]
    BY <1>3, <1>c DEF ConfirmDecide, SetConfirm
  <2>3. QED
    BY <1>3, <1>c, <2>1, <2>2 DEF NotifyInvOf
<1>4. CASE id = j /\ ConfirmExpire(j)
  <2>1. /\ confirm'[j] = Idle /\ UNCHANGED webhooks
        /\ orders' = [orders EXCEPT ![j] = [orders[j] EXCEPT !.status = "expired"]]
    BY <1>4, <1>c DEF ConfirmExpire, SetConfirm, SetStatus
  <2>2. HashKept(j) /\ ConfirmationKept(j)
    BY <1>d, <2>1 DEF HashKept, ConfirmationKept, Idle, Order
  <2>3. QED
    BY <1>4, <1>c, <2>1, <2>2, NotifyFrame
<1>5. CASE id = j /\ ConfirmPay(j)
  <2>1. /\ confirm[j].pc = "payWrite" /\ confirm'[j] = [pc |-> "reload"]
        /\ UNCHANGED webhooks
        /\ orders' = [orders EXCEPT ![j] =
                        Paid(orders[j], confirm[j].tx, confirm[j].at)]
    BY <1>5, <1>c DEF ConfirmPay, SetConfirm
  <2>2. orders'[j].tx = confirm[j].tx /\ orders'[j].status = "paid"
        /\ j \in DOMAIN orders'
    BY <1>d, <2>1 DEF Paid, Order
  <2>3. confirm[j].tx # NoTx /\ webhooks[j] = 0
    BY <1>c, <2>1 DEF NotifyInvOf
  <2>4. QED
    BY <1>5, <2>1, <2>2, <2>3 DEF NotifyInvOf
<1>6. CASE id = j /\ ConfirmNotify(j)
  <2>1. /\ confirm[j].pc = "reload" /\ UNCHANGED orders
        /\ confirm'[j].pc \in {"activate", "idle"}
        /\ webhooks'[j] \in {webhooks[j], webhooks[j] + 1}
    BY <1>6, <1>c DEF ConfirmNotify, SetConfirm, Idle
  <2>2. webhooks[j] = 0 /\ orders[j].tx # NoTx /\ orders[j].status # "pending"
    BY <1>c, <1>d, <2>1 DEF NotifyInvOf
  <2>3. QED
    BY <1>6, <1>d, <2>1, <2>2 DEF NotifyInvOf
<1>7. CASE id = j /\ ConfirmActivate(j)
  <2>1. confirm'[j] = Idle /\ UNCHANGED <<orders, webhooks>>
    BY <1>7, <1>c DEF ConfirmActivate, SetConfirm
  <2>2. HashKept(j) /\ ConfirmationKept(j)
    BY <2>1 DEF HashKept, ConfirmationKept, Idle
  <2>3. QED
    BY <1>7, <1>c, <2>1, <2>2, NotifyFrame
<1>8. QED
  BY <1>1, <1>2, <1>3, <1>4, <1>5, <1>6, <1>7 DEF ConfirmStep

LEMMA NotifyInvOther ==
    ASSUME TypeInv, NotifyInv,
           \/ WatchStep \/ Failure \/ ApiCrash
           \/ \E id \in OrderIds : TimerFires(id)
           \/ \E to \in {orders[id].index : id \in DOMAIN orders},
                 amount \in Amounts : Pay(to, amount)
           \/ Tick
           \/ UNCHANGED vars
    PROVE  NotifyInv'
<1> SUFFICES ASSUME NEW id \in OrderIds PROVE NotifyInvOf(id)'
  BY DEF NotifyInv
<1>1. UNCHANGED webhooks
  BY DEF WatchStep, WatchSweep, WatchScan, WatchOrderDone, WatchTickDone,
         WatchFetch, WatchMatch, Failure, WatcherCrash, WatchMatchFails,
         WatchFetchFails, ConfirmFails, ApiCrash, TimerFires, Pay, Tick, vars
<1>2. HashKept(id)
  <2>1. CASE UNCHANGED orders
    BY <2>1 DEF HashKept
  <2>2. CASE WatchSweep
    <3>1. DOMAIN orders' = DOMAIN orders
          /\ (id \in DOMAIN orders =>
                orders'[id] \in {orders[id], [orders[id] EXCEPT !.status = "expired"]})
      BY <2>2 DEF WatchSweep
    <3>2. id \in DOMAIN orders => orders[id] \in Order
      BY DEF TypeInv, TypeOK
    <3>3. QED
      BY <3>1, <3>2 DEF HashKept, Order
  <2>3. QED
    BY <2>1, <2>2
    DEF WatchStep, WatchScan, WatchOrderDone, WatchTickDone, WatchFetch,
        WatchMatch, Failure, WatcherCrash, WatchMatchFails, WatchFetchFails,
        ConfirmFails, ApiCrash, TimerFires, Pay, Tick, vars
<1>3. ConfirmationKept(id)
  <2>c. confirm \in [OrderIds -> Confirm]
    BY DEF TypeInv, TypeOK
  <2>1. CASE UNCHANGED confirm
    BY <2>1 DEF ConfirmationKept
  <2>2. CASE WatcherCrash \/ ApiCrash
    BY <2>2 DEF WatcherCrash, ApiCrash, ConfirmationKept, Idle
  <2>3. ASSUME NEW j \in OrderIds, ConfirmFails(j) \/ TimerFires(j)
        PROVE  ConfirmationKept(id)
    <3>1. \/ confirm' = [confirm EXCEPT ![j] = Idle]
          \/ confirm' = [confirm EXCEPT ![j] = [pc |-> "read", tx |-> DevTx(j)]]
      BY <2>3 DEF ConfirmFails, TimerFires, SetConfirm
    <3>2. QED
      BY <2>c, <3>1, SomeTx DEF ConfirmationKept, Idle
  <2>4. ASSUME NEW n \in DOMAIN chain, WatchMatch(n)
        PROVE  ConfirmationKept(id)
    <3>1. PICK j : \/ UNCHANGED confirm
                   \/ confirm' = [confirm EXCEPT ![j] =
                                    [pc |-> "read", tx |-> ChainTx(n)]]
      BY <2>4 DEF WatchMatch, SetConfirm
    <3>2. QED
      BY <2>c, <3>1, SomeTx DEF ConfirmationKept
  <2>5. QED
    BY <2>1, <2>2, <2>3, <2>4
    DEF WatchStep, WatchSweep, WatchScan, WatchOrderDone, WatchTickDone,
        WatchFetch, Failure, WatchMatchFails, WatchFetchFails, Pay, Tick, vars
<1>4. QED
  BY <1>1, <1>2, <1>3, NotifyFrame DEF NotifyInv

LEMMA NotifyInvInit == Init => NotifyInv
  BY DEF Init, NotifyInv, NotifyInvOf, Idle

LEMMA NotifyInvNext == TypeInv /\ NotifyInv /\ [Next]_vars => NotifyInv'
  BY NotifyInvRequest, NotifyInvConfirm, NotifyInvOther DEF Next

\* The completed-payment webhook is delivered at most once for an order, and
\* only for one whose payment is in the database, whatever crashes, fails or is
\* rescanned, with any number of orders and requests.
THEOREM WebhookAtMostOnce == Spec => []NotifyAtMostOnce
<1>1. TypeInv /\ NotifyInv => NotifyAtMostOnce
  BY DEF NotifyInv, NotifyInvOf, NotifyAtMostOnce
<1>2. QED
  BY <1>1, NotifyInvInit, NotifyInvNext, TypeInvariant, PTL DEF Spec

-----------------------------------------------------------------------------
(* Deposit addresses.  The index row is above every index given out, to an  *)
(* order or to a creation that has yet to insert its row.                   *)

IndexBelow ==
    /\ \A j \in DOMAIN orders : orders[j].index < nextIndex
    /\ \A j \in DOMAIN orders : orders[j].index \in Nat
    /\ \A r \in Requests : requests[r].pc = "insert" =>
        requests[r].index \in Nat /\ requests[r].index < nextIndex

IndexInv == UseXpub => IndexBelow /\ DepositIndexUnique

\* A step gives out no index.
AddressesKept ==
    /\ DOMAIN orders' = DOMAIN orders
    /\ \A j \in DOMAIN orders : orders'[j].index = orders[j].index

IndexesKept ==
    /\ config' = config
    /\ nextIndex' = nextIndex
    /\ AddressesKept
    /\ \A r \in Requests : requests'[r].pc = "insert" => requests'[r] = requests[r]

LEMMA IndexFrame == IndexInv /\ IndexesKept => IndexInv'
  BY DEF IndexInv, IndexBelow, IndexesKept, AddressesKept, DepositIndexUnique,
     UseXpub

LEMMA IndexInvAllocate ==
    ASSUME TypeInv, IndexInv, NEW r \in Requests, AllocateDepositAddress(r)
    PROVE  IndexInv'
<1> SUFFICES ASSUME UseXpub PROVE IndexInv'
  BY DEF IndexInv, UseXpub, AllocateDepositAddress
<1>1. /\ nextIndex' = nextIndex + 1 /\ UNCHANGED orders
      /\ requests' = [requests EXCEPT ![r] =
            [pc |-> "insert", user |-> requests[r].user,
             plan |-> requests[r].plan, index |-> nextIndex]]
  BY DEF AllocateDepositAddress, Allocated, SetRequest
<1>2. nextIndex \in Nat /\ requests \in [Requests -> Request]
      /\ \A j \in DOMAIN orders : orders[j].index \in Nat
  BY DEF TypeInv, TypeOK, IndexInv, IndexBelow
<1>3. /\ requests'[r].pc = "insert" /\ requests'[r].index = nextIndex
      /\ \A q \in Requests : q # r => requests'[q] = requests[q]
  BY <1>1, <1>2
<1>4. IndexBelow'
  BY <1>1, <1>2, <1>3 DEF IndexInv, IndexBelow
<1>5. DepositIndexUnique'
  <2>1. \A i, j \in DOMAIN orders' :
            i # j => orders'[i].index # orders'[j].index
    BY <1>1 DEF IndexInv, DepositIndexUnique
  <2>2. \A q \in Requests, j \in DOMAIN orders' :
            requests'[q].pc = "insert" => requests'[q].index # orders'[j].index
    BY <1>1, <1>2, <1>3 DEF IndexInv, IndexBelow, DepositIndexUnique
  <2>3. \A p, q \in Requests :
            p # q /\ requests'[p].pc = "insert" /\ requests'[q].pc = "insert"
                => requests'[p].index # requests'[q].index
    BY <1>2, <1>3 DEF IndexInv, IndexBelow, DepositIndexUnique
  <2>4. QED
    BY <2>1, <2>2, <2>3 DEF DepositIndexUnique
<1>6. QED
  BY <1>4, <1>5 DEF IndexInv

LEMMA IndexInvInsert ==
    ASSUME TypeInv, IndexInv, NEW r \in Requests, NEW id \in OrderIds,
           InsertOrder(r, id)
    PROVE  IndexInv'
<1> SUFFICES ASSUME UseXpub PROVE IndexInv'
  BY DEF IndexInv, UseXpub, InsertOrder
<1>1. requests[r].pc = "insert" /\ nextIndex' = nextIndex
      /\ id \notin DOMAIN orders /\ DOMAIN orders' = DOMAIN orders \cup {id}
      /\ (\A j \in DOMAIN orders : orders'[j] = orders[j])
      /\ orders'[id].index = requests[r].index
  BY DEF InsertOrder, Inserted
<1>2. /\ requests'[r].pc # "insert"
      /\ \A q \in Requests : q # r => requests'[q] = requests[q]
  <2>1. \/ requests' = [requests EXCEPT ![r] = [pc |-> "exact", id |-> id]]
        \/ requests' = [requests EXCEPT ![r] = [pc |-> "idle"]]
    BY DEF InsertOrder, SetRequest, Idle
  <2>2. QED
    BY <2>1 DEF TypeInv, TypeOK
<1>3. IndexBelow'
  BY <1>1, <1>2 DEF IndexInv, IndexBelow
<1>4. DepositIndexUnique'
  BY <1>1, <1>2 DEF IndexInv, DepositIndexUnique
<1>5. QED
  BY <1>3, <1>4 DEF IndexInv

\* Every other step leaves the indexes where they are.
LEMMA IndexesKeptElsewhere ==
    ASSUME TypeInv, [Next]_vars,
           ~\E r \in Requests : AllocateDepositAddress(r)
                                \/ \E id \in OrderIds : InsertOrder(r, id)
    PROVE  IndexesKept
<1>t. requests \in [Requests -> Request] /\ orders \in [DOMAIN orders -> Order]
  BY DEF TypeInv, TypeOK
<1>1. config' = config /\ nextIndex' = nextIndex
  BY DEF Next, RequestStep, CreateCount, SetExactAmount, ReadOrder, DecideOnOrder,
     WriteOrder, RequestFails, ConfirmStep, ConfirmRead, ConfirmDecide,
     ConfirmExpire, ConfirmPay, ConfirmNotify, ConfirmActivate, TimerFires,
     WatchStep, WatchSweep, WatchScan, WatchOrderDone, WatchTickDone, WatchFetch,
     WatchMatch, Failure, WatcherCrash, WatchMatchFails, WatchFetchFails,
     ConfirmFails, ApiCrash, Pay, Tick, vars
<1>2. AddressesKept
  <2>1. CASE UNCHANGED orders
    BY <2>1 DEF AddressesKept
  <2>2. CASE WatchSweep
    <3>1. DOMAIN orders' = DOMAIN orders
          /\ \A j \in DOMAIN orders :
                orders'[j] \in {orders[j], [orders[j] EXCEPT !.status = "expired"]}
      BY <2>2 DEF WatchSweep
    <3>2. QED
      BY <1>t, <3>1 DEF AddressesKept, Order
  <2>3. ASSUME NEW r \in Requests, SetExactAmount(r)
        PROVE  AddressesKept
    <3>1. PICK exact : orders' = [orders EXCEPT ![requests[r].id] =
                                    [orders[requests[r].id] EXCEPT !.amount = exact]]
      BY <2>3 DEF SetExactAmount
    <3>2. QED
      BY <1>t, <3>1 DEF AddressesKept, Order
  <2>4. ASSUME NEW id, NEW s, SetStatus(id, s)
        PROVE  AddressesKept
    <3>1. orders' = [orders EXCEPT ![id] = [orders[id] EXCEPT !.status = s]]
      BY <2>4 DEF SetStatus
    <3>2. QED
      BY <1>t, <3>1 DEF AddressesKept, Order
  <2>5. ASSUME NEW id \in OrderIds, ConfirmPay(id)
        PROVE  AddressesKept
    <3>1. orders' = [orders EXCEPT ![id] =
                        Paid(orders[id], confirm[id].tx, confirm[id].at)]
      BY <2>5 DEF ConfirmPay
    <3>2. QED
      BY <1>t, <3>1 DEF AddressesKept, Paid, Order
  <2>6. QED
    BY <2>1, <2>2, <2>3, <2>4, <2>5
    DEF Next, RequestStep, CreateCount, ReadOrder, DecideOnOrder, WriteOrder,
     RequestFails, ConfirmStep, ConfirmRead, ConfirmDecide, ConfirmExpire,
     ConfirmNotify, ConfirmActivate, TimerFires, WatchStep, WatchScan,
     WatchOrderDone, WatchTickDone, WatchFetch, WatchMatch, Failure,
     WatcherCrash, WatchMatchFails, WatchFetchFails, ConfirmFails, ApiCrash,
     Pay, Tick, vars
<1>3. ASSUME NEW q \in Requests
      PROVE  requests'[q].pc = "insert" => requests'[q] = requests[q]
  <2>1. CASE UNCHANGED requests \/ ApiCrash
    BY <2>1 DEF ApiCrash, Idle
  <2>2. ASSUME NEW r \in Requests, RequestStep(r)
        PROVE  requests'[q].pc = "insert" => requests'[q] = requests[q]
    <3> DEFINE MovedOn(state) == /\ requests' = [requests EXCEPT ![r] = state]
                                 /\ state.pc # "insert"
    <3>1. \E state : MovedOn(state)
      <4>1. ASSUME NEW u \in Users, NEW p \in Plans, CreateCount(r, u, p)
            PROVE  \E state : MovedOn(state)
        <5>1. MovedOn([pc |-> "allocate", user |-> u, plan |-> p])
          BY <4>1 DEF CreateCount, SetRequest
        <5>2. QED
          BY <5>1
      <4>2. ASSUME NEW id \in DOMAIN orders, NEW op \in {"get", "cancel"},
                   ReadOrder(r, id, op)
            PROVE  \E state : MovedOn(state)
        <5>1. MovedOn([pc |-> op, id |-> id])
          BY <4>2 DEF ReadOrder, SetRequest
        <5>2. QED
          BY <5>1
      <4>3. CASE DecideOnOrder(r)
        <5>1. \/ MovedOn(Idle)
              \/ MovedOn([pc |-> "expireWrite", id |-> requests[r].id])
              \/ MovedOn([pc |-> "cancelWrite", id |-> requests[r].id])
          BY <4>3 DEF DecideOnOrder, SetRequest, Idle
        <5>2. QED
          BY <5>1
      <4>4. CASE SetExactAmount(r) \/ WriteOrder(r) \/ RequestFails(r)
        <5>1. MovedOn(Idle)
          BY <4>4 DEF SetExactAmount, WriteOrder, RequestFails, SetRequest, Idle
        <5>2. QED
          BY <5>1
      <4>5. QED
        BY <2>2, <4>1, <4>2, <4>3, <4>4 DEF RequestStep
    <3>2. QED
      BY <1>t, <3>1
  <2>3. QED
    BY <2>1, <2>2
    DEF Next, ConfirmStep, ConfirmRead, ConfirmDecide, ConfirmExpire,
     ConfirmPay, ConfirmNotify, ConfirmActivate, TimerFires, WatchStep,
     WatchSweep, WatchScan, WatchOrderDone, WatchTickDone, WatchFetch, WatchMatch,
     Failure, WatcherCrash, WatchMatchFails, WatchFetchFails, ConfirmFails, Pay,
     Tick, vars
<1>4. QED
  BY <1>1, <1>2, <1>3 DEF IndexesKept

LEMMA IndexInvInit == Init => IndexInv
  BY DEF Init, IndexInv, IndexBelow, DepositIndexUnique, Idle

LEMMA IndexInvNext == TypeInv /\ IndexInv /\ [Next]_vars => IndexInv'
  BY IndexInvAllocate, IndexInvInsert, IndexesKeptElsewhere, IndexFrame

\* With an xpub no two orders, nor an order and a creation in flight, ever
\* share a deposit index, however creations interleave, fail or crash.
THEOREM DepositIndexesDistinct == Spec => []DepositIndexUnique
<1>1. IndexInv => DepositIndexUnique
  BY DEF IndexInv, DepositIndexUnique
<1>2. QED
  BY <1>1, IndexInvInit, IndexInvNext, TypeInvariant, PTL DEF Spec

-----------------------------------------------------------------------------
(* Which confirmations may be in progress, and with which hash.  The scan    *)
(* confirms one order at a time, with a transfer that no paid order holds;   *)
(* a development timer confirms its own order, and then the scan is off.     *)

Confirming(id) == confirm[id].pc \in {"read", "decide", "payWrite"}

ScanHash(tx) == tx \in {ChainTx(n) : n \in 1..MaxTransfers}

Free(tx) == \A j \in DOMAIN orders : orders[j].status = "paid" => orders[j].tx # tx

ScanClaim(id) ==
    /\ confirm[id].pc # "idle" => watcher.pc = "confirm" /\ watcher.id = id
    /\ Confirming(id) => ScanHash(confirm[id].tx) /\ Free(confirm[id].tx)

TimerClaim(id) == Confirming(id) => confirm[id].tx = DevTx(id)

ChainBounded ==
    /\ Len(chain) <= MaxTransfers
    /\ watcher.pc = "match" => watcher.found \subseteq 1..MaxTransfers

OwnTimers == \A id \in DOMAIN orders : orders[id].tx \in {NoTx, DevTx(id)}

ClaimInv ==
    /\ ChainBounded
    /\ IF DevAutoConfirm
       THEN /\ watcher.pc \in {"sleep", "scan"}
            /\ OwnTimers
            /\ \A id \in OrderIds : TimerClaim(id)
       ELSE /\ timers = {}
            /\ \A id \in OrderIds : ScanClaim(id)

LEMMA ClaimInvInit == Init => ClaimInv
  BY BoundAssumption DEF Init, ClaimInv, ChainBounded, OwnTimers, TimerClaim, ScanClaim,
     Confirming, DevAutoConfirm, Idle

\* A step pays no order and records no payment.
NothingPaid ==
    \A j \in DOMAIN orders' :
        /\ orders'[j].status = "paid" => j \in DOMAIN orders /\ orders[j].status = "paid"
        /\ orders'[j].tx # NoTx => j \in DOMAIN orders
        /\ j \in DOMAIN orders => orders'[j].tx = orders[j].tx

LEMMA ClaimFrame ==
    ASSUME ClaimInv, NothingPaid, UNCHANGED <<config, chain, confirm, watcher>>,
           timers' \subseteq timers \/ DevAutoConfirm
    PROVE  ClaimInv'
<1>1. ChainBounded' /\ DevAutoConfirm' = DevAutoConfirm
  BY DEF ClaimInv, ChainBounded, DevAutoConfirm
<1>2. CASE DevAutoConfirm
  <2>1. OwnTimers'
    BY <1>2 DEF ClaimInv, OwnTimers, NothingPaid
  <2>2. QED
    BY <1>1, <1>2, <2>1 DEF ClaimInv, TimerClaim, Confirming
<1>3. CASE ~DevAutoConfirm
  <2>1. \A tx : Free(tx) => Free(tx)'
    BY DEF Free, NothingPaid
  <2>2. ASSUME NEW id \in OrderIds PROVE ScanClaim(id)'
    <3>1. ScanClaim(id)
      BY <1>3 DEF ClaimInv
    <3>2. QED
      BY <2>1, <3>1 DEF ScanClaim, Confirming, Free, NothingPaid, ScanHash
  <2>3. QED
    BY <1>1, <1>3, <2>2 DEF ClaimInv
<1>4. QED
  BY <1>2, <1>3

\* A request changes one row: its amount, or its status to one that is not paid;
\* or it adds a row.
LEMMA RequestRows ==
    ASSUME TypeInv, NEW r \in Requests, RequestStep(r)
    PROVE  \/ UNCHANGED orders
           \/ \E id \in OrderIds :
                /\ InsertOrder(r, id)
                /\ orders' = [j \in DOMAIN orders \cup {id} |->
                                IF j = id THEN Inserted(requests[r]) ELSE orders[j]]
           \/ \E id \in DOMAIN orders, exact \in Nat :
                orders' = [orders EXCEPT ![id] = [orders[id] EXCEPT !.amount = exact]]
           \/ \E id \in DOMAIN orders, s \in {"expired", "cancelled"} :
                orders' = [orders EXCEPT ![id] = [orders[id] EXCEPT !.status = s]]
<1>1. ASSUME NEW id \in OrderIds, InsertOrder(r, id)
      PROVE  orders' = [j \in DOMAIN orders \cup {id} |->
                          IF j = id THEN Inserted(requests[r]) ELSE orders[j]]
  BY <1>1 DEF InsertOrder
<1>2. ASSUME SetExactAmount(r)
      PROVE  \E id \in DOMAIN orders, exact \in Nat :
                orders' = [orders EXCEPT ![id] = [orders[id] EXCEPT !.amount = exact]]
  <2>1. requests[r].id \in DOMAIN orders /\ orders' \in [DOMAIN orders' -> Order]
    <3>1. TypeInv'
      BY TypeInvRequest
    <3>2. QED
      BY <1>2, <3>1 DEF SetExactAmount, TypeInv, TypeOK, RefsExist, RequestRefs
  <2>2. PICK exact : orders' = [orders EXCEPT ![requests[r].id] =
                                  [orders[requests[r].id] EXCEPT !.amount = exact]]
    BY <1>2 DEF SetExactAmount
  <2>3. exact \in Nat
    <3>1. orders[requests[r].id] \in Order /\ orders'[requests[r].id] \in Order
      BY <2>1, <2>2 DEF TypeInv, TypeOK
    <3>2. orders'[requests[r].id] = [orders[requests[r].id] EXCEPT !.amount = exact]
      BY <2>1, <2>2 DEF TypeInv, TypeOK
    <3>3. QED
      BY <3>1, <3>2 DEF Order
  <2>4. QED
    BY <2>1, <2>2, <2>3
<1>3. ASSUME WriteOrder(r)
      PROVE  \E id \in DOMAIN orders, s \in {"expired", "cancelled"} :
                orders' = [orders EXCEPT ![id] = [orders[id] EXCEPT !.status = s]]
  <2>1. requests[r].id \in DOMAIN orders
    BY <1>3 DEF WriteOrder, TypeInv, RefsExist, RequestRefs
  <2>2. QED
    BY <1>3, <2>1 DEF WriteOrder, SetStatus
<1>4. QED
  BY <1>1, <1>2, <1>3 DEF RequestStep, CreateCount, AllocateDepositAddress,
     ReadOrder, DecideOnOrder, RequestFails

LEMMA RequestPaysNothing ==
    ASSUME TypeInv, NEW r \in Requests, RequestStep(r)
    PROVE  NothingPaid
<1>1. CASE UNCHANGED orders
  BY <1>1 DEF NothingPaid
<1>2. ASSUME NEW id \in OrderIds, InsertOrder(r, id),
             orders' = [j \in DOMAIN orders \cup {id} |->
                          IF j = id THEN Inserted(requests[r]) ELSE orders[j]]
      PROVE  NothingPaid
  BY <1>2 DEF NothingPaid, Inserted, InsertOrder
<1>3. ASSUME NEW id \in DOMAIN orders, NEW exact \in Nat,
             orders' = [orders EXCEPT ![id] = [orders[id] EXCEPT !.amount = exact]]
      PROVE  NothingPaid
  <2>1. orders[id] \in Order
    BY DEF TypeInv, TypeOK
  <2>2. QED
    BY <1>3, <2>1 DEF NothingPaid, Order
<1>4. ASSUME NEW id \in DOMAIN orders, NEW s \in {"expired", "cancelled"},
             orders' = [orders EXCEPT ![id] = [orders[id] EXCEPT !.status = s]]
      PROVE  NothingPaid
  <2>1. orders[id] \in Order
    BY DEF TypeInv, TypeOK
  <2>2. QED
    BY <1>4, <2>1 DEF NothingPaid, Order
<1>5. QED
  BY RequestRows, <1>1, <1>2, <1>3, <1>4

LEMMA ClaimInvRequest ==
    ASSUME TypeInv, ClaimInv, NEW r \in Requests, RequestStep(r)
    PROVE  ClaimInv'
<1>1. UNCHANGED <<config, chain, confirm, watcher>>
  BY DEF RequestStep, CreateCount, AllocateDepositAddress, InsertOrder,
         SetExactAmount, ReadOrder, DecideOnOrder, WriteOrder, RequestFails
<1>2. timers' \subseteq timers \/ DevAutoConfirm
  BY DEF RequestStep, CreateCount, AllocateDepositAddress, InsertOrder,
         SetExactAmount, ReadOrder, DecideOnOrder, WriteOrder, RequestFails
<1>3. NothingPaid
  BY RequestPaysNothing
<1>4. QED
  BY <1>1, <1>2, <1>3, ClaimFrame

LEMMA HashesDiffer ==
    \A m, n : ChainTx(m) # NoTx /\ DevTx(m) # NoTx /\ (DevTx(m) = DevTx(n) => m = n)
  BY DEF ChainTx, DevTx, NoTx

\* The confirmation writes, with the hash it holds.
LEMMA ClaimInvPay ==
    ASSUME TypeInv, ClaimInv, NEW id \in OrderIds, ConfirmPay(id)
    PROVE  ClaimInv'
<1>1. id \in DOMAIN orders /\ orders[id] \in Order /\ confirm[id] \in Confirm
  BY DEF ConfirmPay, TypeInv, TypeOK, RefsExist, ConfirmRefs
<1>2. /\ orders' = [orders EXCEPT ![id] = Paid(orders[id], confirm[id].tx, confirm[id].at)]
      /\ confirm' = [confirm EXCEPT ![id] = [pc |-> "reload"]]
      /\ UNCHANGED <<config, chain, timers, watcher>>
      /\ Confirming(id)
  BY DEF ConfirmPay, SetConfirm, Confirming
<1>3. /\ DOMAIN orders' = DOMAIN orders
      /\ orders'[id].tx = confirm[id].tx
      /\ \A j \in DOMAIN orders : j # id => orders'[j] = orders[j]
  BY <1>1, <1>2 DEF Paid, Order
<1>4. /\ \A j \in OrderIds : j # id => confirm'[j] = confirm[j]
      /\ confirm'[id] = [pc |-> "reload"]
  BY <1>2 DEF TypeInv, TypeOK
<1>5. ChainBounded' /\ DevAutoConfirm' = DevAutoConfirm
  BY <1>2 DEF ClaimInv, ChainBounded, DevAutoConfirm
<1>6. CASE DevAutoConfirm
  <2>1. OwnTimers'
    BY <1>2, <1>3, <1>6 DEF ClaimInv, OwnTimers, TimerClaim
  <2>2. \A j \in OrderIds : TimerClaim(j)'
    BY <1>4, <1>6 DEF ClaimInv, TimerClaim, Confirming
  <2>3. QED
    BY <1>2, <1>5, <1>6, <2>1, <2>2 DEF ClaimInv
<1>7. CASE ~DevAutoConfirm
  <2>1. \A j \in OrderIds : ScanClaim(j)
    BY <1>7 DEF ClaimInv
  <2>2. watcher.pc = "confirm" /\ watcher.id = id
    BY <1>2, <2>1 DEF ScanClaim, Confirming
  <2>3. ASSUME NEW j \in OrderIds, j # id PROVE confirm[j].pc = "idle"
    BY <2>1, <2>2, <2>3 DEF ScanClaim
  <2>4. ASSUME NEW j \in OrderIds PROVE ScanClaim(j)'
    BY <1>2, <1>4, <2>2, <2>3 DEF ScanClaim, Confirming
  <2>5. QED
    BY <1>2, <1>5, <1>7, <2>4 DEF ClaimInv
<1>8. QED
  BY <1>6, <1>7

LEMMA ConfirmPaysNothing ==
    ASSUME TypeInv, NEW id \in OrderIds, ConfirmStep(id), ~ConfirmPay(id)
    PROVE  NothingPaid
<1>1. CASE ConfirmExpire(id)
  <2>1. id \in DOMAIN orders /\ orders[id] \in Order
    BY <1>1 DEF ConfirmExpire, TypeInv, TypeOK, RefsExist, ConfirmRefs
  <2>2. QED
    BY <1>1, <2>1 DEF ConfirmExpire, SetStatus, NothingPaid, Order
<1>2. CASE UNCHANGED orders
  BY <1>2 DEF NothingPaid
<1>3. QED
  BY <1>1, <1>2 DEF ConfirmStep, ConfirmRead, ConfirmDecide, ConfirmNotify,
     ConfirmActivate

\* Every other step of a confirmation keeps its hash or is done with it.
LEMMA ClaimInvConfirm ==
    ASSUME TypeInv, ClaimInv, NEW id \in OrderIds, ConfirmStep(id)
    PROVE  ClaimInv'
<1>1. CASE ConfirmPay(id)
  BY <1>1, ClaimInvPay
<1>2. CASE ~ConfirmPay(id)
  <2>1. id \in DOMAIN orders /\ orders[id] \in Order /\ confirm[id] \in Confirm
        /\ confirm[id].pc # "idle"
    BY <1>2 DEF ConfirmStep, ConfirmRead, ConfirmDecide, ConfirmExpire, ConfirmNotify,
       ConfirmActivate, TypeInv, TypeOK, RefsExist, ConfirmRefs
  <2>2. UNCHANGED <<config, chain, timers, watcher>>
    BY <1>2 DEF ConfirmStep, ConfirmRead, ConfirmDecide, ConfirmExpire, ConfirmNotify,
       ConfirmActivate
  <2>3. NothingPaid
    BY <1>2, ConfirmPaysNothing
  <2>4. /\ \A j \in OrderIds : j # id => confirm'[j] = confirm[j]
        /\ confirm'[id].pc \in {"decide", "payWrite"} =>
                Confirming(id) /\ confirm'[id].tx = confirm[id].tx
        /\ confirm'[id].pc # "read"
    BY <1>2 DEF ConfirmStep, ConfirmRead, ConfirmDecide, ConfirmExpire, ConfirmNotify,
       ConfirmActivate, SetConfirm, Idle, Confirming, TypeInv, TypeOK
  <2>5. ChainBounded' /\ DevAutoConfirm' = DevAutoConfirm
    BY <2>2 DEF ClaimInv, ChainBounded, DevAutoConfirm
  <2>6. CASE DevAutoConfirm
    <3>1. OwnTimers'
      BY <2>3, <2>6 DEF ClaimInv, OwnTimers, NothingPaid
    <3>2. \A j \in OrderIds : TimerClaim(j)'
      BY <2>4, <2>6 DEF ClaimInv, TimerClaim, Confirming
    <3>3. QED
      BY <2>2, <2>5, <2>6, <3>1, <3>2 DEF ClaimInv
  <2>7. CASE ~DevAutoConfirm
    <3>1. ASSUME NEW j \in OrderIds PROVE ScanClaim(j)'
      <4>1. ScanClaim(j) /\ ScanClaim(id)
        BY <2>7 DEF ClaimInv
      <4>4. Confirming(j)' => Confirming(j) /\ confirm'[j].tx = confirm[j].tx
        BY <2>4 DEF Confirming
      <4>5. confirm'[j].pc # "idle" => confirm[j].pc # "idle"
        BY <2>1, <2>4
      <4>6. Confirming(j)' => ScanHash(confirm[j].tx)' /\ Free(confirm[j].tx)'
        <5>1. Confirming(j)' => ScanHash(confirm[j].tx) /\ Free(confirm[j].tx)
          BY <4>1, <4>4 DEF ScanClaim
        <5>2. QED
          BY <2>3, <4>4, <5>1 DEF Free, ScanHash, NothingPaid
      <4>7. QED
        BY <2>2, <4>1, <4>5, <4>6 DEF ScanClaim
    <3>2. QED
      BY <2>2, <2>5, <2>7, <3>1 DEF ClaimInv
  <2>8. QED
    BY <2>6, <2>7
<1>3. QED
  BY <1>1, <1>2

\* Outside the confirmation of the scan's order, no confirmation of it runs.
LEMMA ScanIdle ==
    ASSUME ClaimInv, ~DevAutoConfirm, NEW id \in OrderIds,
           watcher.pc # "confirm" \/ confirm[watcher.id].pc = "idle"
    PROVE  confirm[id].pc = "idle"
  BY DEF ClaimInv, ScanClaim

LEMMA WatchPaysNothing ==
    ASSUME TypeInv, WatchStep
    PROVE  NothingPaid
<1>1. CASE WatchSweep
  <2>1. \A j \in DOMAIN orders : orders[j] \in Order
    BY DEF TypeInv, TypeOK
  <2>2. QED
    BY <1>1, <2>1 DEF WatchSweep, NothingPaid, Order
<1>2. CASE UNCHANGED orders
  BY <1>2 DEF NothingPaid
<1>3. QED
  BY <1>1, <1>2 DEF WatchStep, WatchScan, WatchOrderDone, WatchTickDone, WatchFetch,
     WatchMatch

LEMMA ClaimInvWatch ==
    ASSUME TypeInv, ClaimInv, WatchStep
    PROVE  ClaimInv'
<1>1. UNCHANGED <<config, chain, timers>>
  BY DEF WatchStep, WatchSweep, WatchScan, WatchOrderDone, WatchTickDone, WatchFetch,
         WatchMatch
<1>2. DevAutoConfirm' = DevAutoConfirm
  BY <1>1 DEF DevAutoConfirm
<1>3. NothingPaid
  BY WatchPaysNothing
<1>4. ASSUME DevAutoConfirm
      PROVE  watcher'.pc \in {"sleep", "scan"} /\ UNCHANGED confirm
  <2>1. watcher.pc \in {"sleep", "scan"}
    BY <1>4 DEF ClaimInv
  <2>2. WatchSweep \/ WatchScan
    BY <2>1 DEF WatchStep, WatchOrderDone, WatchTickDone, WatchFetch, WatchMatch
  <2>3. CASE WatchSweep
    BY <2>3 DEF WatchSweep
  <2>4. CASE WatchScan
    BY <1>4, <2>4 DEF WatchScan
  <2>5. QED
    BY <2>2, <2>3, <2>4
<1>5. ChainBounded'
  <2>1. ChainBounded /\ chain \in Seq(Transfer)
    BY DEF ClaimInv, TypeInv, TypeOK
  <2>2. ASSUME NEW row \in ScannedRows, WatchFetch(row)
        PROVE  watcher'.found \subseteq DOMAIN chain
    BY <2>2 DEF WatchFetch, Incoming, FirstK
  <2>3. DOMAIN chain \subseteq 1..MaxTransfers
    BY <2>1, BoundAssumption DEF ChainBounded
  <2>4. watcher'.pc = "match" => watcher'.found \subseteq 1..MaxTransfers
    <3>1. CASE \E row \in ScannedRows : WatchFetch(row)
      BY <2>2, <2>3, <3>1
    <3>2. ASSUME NEW n \in DOMAIN chain, WatchMatch(n), watcher'.pc = "match"
          PROVE  watcher'.found \subseteq 1..MaxTransfers
      <4>1. watcher' = [watcher EXCEPT !.found = watcher.found \ {n}]
            /\ watcher.pc = "match"
        BY <3>2 DEF WatchMatch
      <4>2. watcher \in [pc : {"match"}, todo : SUBSET Snapshot, row : Snapshot,
                         found : SUBSET Nat]
        BY <4>1 DEF TypeInv, TypeOK, Watcher
      <4>3. QED
        BY <2>1, <4>1, <4>2 DEF ChainBounded
    <3>3. CASE WatchSweep \/ WatchScan \/ WatchOrderDone \/ WatchTickDone
      BY <3>3 DEF WatchSweep, WatchScan, WatchOrderDone, WatchTickDone
    <3>4. QED
      BY <3>1, <3>2, <3>3 DEF WatchStep
  <2>5. QED
    BY <1>1, <2>1, <2>4 DEF ChainBounded
<1>6. CASE DevAutoConfirm
  <2>1. OwnTimers'
    BY <1>3, <1>6 DEF ClaimInv, OwnTimers, NothingPaid
  <2>2. QED
    BY <1>2, <1>4, <1>5, <1>6, <2>1 DEF ClaimInv, TimerClaim, Confirming
<1>7. CASE ~DevAutoConfirm
  <2>1. ASSUME NEW n \in DOMAIN chain, WatchMatch(n), ~Claimed(n),
               NEW id \in OrderIds
        PROVE  ScanClaim(id)'
    <3>1. /\ watcher.pc = "match" /\ watcher.row.id \in OrderIds
          /\ watcher' = [pc |-> "confirm", todo |-> watcher.todo,
                         id |-> watcher.row.id]
          /\ confirm' = [confirm EXCEPT ![watcher.row.id] =
                            [pc |-> "read", tx |-> ChainTx(n)]]
          /\ UNCHANGED orders
      BY <2>1 DEF WatchMatch, SetConfirm, TypeInv, TypeOK, RefsExist, WatcherRefs
    <3>2. confirm[id].pc = "idle"
      BY <1>7, <3>1, ScanIdle
    <3>3. ScanHash(ChainTx(n)) /\ Free(ChainTx(n))
      <4>1. n \in 1..MaxTransfers
        BY <2>1, <3>1 DEF ClaimInv, ChainBounded, WatchMatch, Payable
      <4>2. QED
        BY <2>1, <4>1 DEF ScanHash, Free, Claimed
    <3>4. IF id = watcher.row.id THEN confirm'[id] = [pc |-> "read", tx |-> ChainTx(n)]
          ELSE confirm'[id].pc = "idle"
      BY <3>1, <3>2 DEF TypeInv, TypeOK
    <3>5. QED
      BY <3>1, <3>3, <3>4 DEF ScanClaim, Confirming, ScanHash, Free
  <2>2. ASSUME NEW id \in OrderIds, UNCHANGED confirm,
               watcher.pc # "confirm" \/ WatchOrderDone
        PROVE  ScanClaim(id)'
    <3>1. confirm[id].pc = "idle"
      BY <1>7, <2>2, ScanIdle DEF WatchOrderDone
    <3>2. QED
      BY <2>2, <3>1 DEF ScanClaim, Confirming
  <2>3. ASSUME NEW id \in OrderIds PROVE ScanClaim(id)'
    <3>1. CASE \E n \in DOMAIN chain : WatchMatch(n) /\ ~Claimed(n)
      BY <2>1, <3>1
    <3>2. CASE ~\E n \in DOMAIN chain : WatchMatch(n) /\ ~Claimed(n)
      <4>1. UNCHANGED confirm /\ (watcher.pc # "confirm" \/ WatchOrderDone)
        BY <3>2 DEF WatchStep, WatchSweep, WatchScan, WatchOrderDone, WatchTickDone,
           WatchFetch, WatchMatch
      <4>2. QED
        BY <2>2, <4>1
    <3>3. QED
      BY <3>1, <3>2
  <2>4. QED
    BY <1>1, <1>2, <1>5, <1>7, <2>3 DEF ClaimInv
<1>8. QED
  BY <1>6, <1>7

\* A confirmation ends, or an own timer begins one; rows and chain stay.
LEMMA ClaimInvOne ==
    ASSUME TypeInv, ClaimInv, NEW id \in OrderIds, ConfirmFails(id) \/ TimerFires(id)
    PROVE  ClaimInv'
<1>1. UNCHANGED <<config, orders, chain, watcher>> /\ timers' \subseteq timers
  BY DEF ConfirmFails, TimerFires
<1>2. TimerFires(id) => DevAutoConfirm
  BY DEF TimerFires, ClaimInv
<1>3. /\ \A j \in OrderIds : j # id => confirm'[j] = confirm[j]
      /\ \/ confirm'[id] = Idle
         \/ TimerFires(id) /\ confirm'[id] = [pc |-> "read", tx |-> DevTx(id)]
  BY DEF ConfirmFails, TimerFires, SetConfirm, TypeInv, TypeOK
<1>4. ChainBounded' /\ DevAutoConfirm' = DevAutoConfirm
  BY <1>1 DEF ClaimInv, ChainBounded, DevAutoConfirm
<1>5. CASE DevAutoConfirm
  <2>1. \A j \in OrderIds : TimerClaim(j)'
    BY <1>3, <1>5 DEF ClaimInv, TimerClaim, Confirming, Idle, DevTx
  <2>2. QED
    BY <1>1, <1>4, <1>5, <2>1 DEF ClaimInv, OwnTimers, NoTx, DevTx
<1>6. CASE ~DevAutoConfirm
  <2>1. \A j \in OrderIds : ScanClaim(j)
    BY <1>6 DEF ClaimInv
  <2>2. ASSUME NEW j \in OrderIds PROVE ScanClaim(j)'
    BY <1>1, <1>2, <1>3, <1>6, <2>1 DEF ScanClaim, Confirming, Idle, ScanHash, Free
  <2>3. QED
    BY <1>1, <1>4, <1>6, <2>2 DEF ClaimInv
<1>7. QED
  BY <1>5, <1>6

LEMMA ClaimInvCrash ==
    ASSUME TypeInv, ClaimInv,
           WatcherCrash \/ WatchMatchFails \/ ApiCrash
           \/ \E row \in ScannedRows : WatchFetchFails(row)
    PROVE  ClaimInv'
<1>1. UNCHANGED <<config, orders, chain>> /\ timers' \subseteq timers
  <2>1. CASE ApiCrash
    BY <2>1 DEF ApiCrash
  <2>2. CASE ~ApiCrash
    BY <2>2 DEF WatcherCrash, WatchMatchFails, WatchFetchFails
  <2>3. QED
    BY <2>1, <2>2
<1>2. DevAutoConfirm' = DevAutoConfirm
  BY <1>1 DEF DevAutoConfirm
<1>3. UNCHANGED watcher \/ watcher'.pc \in {"sleep", "next"}
  BY DEF WatcherCrash, WatchMatchFails, WatchFetchFails, ApiCrash
<1>4. ChainBounded'
  BY <1>1, <1>3 DEF ClaimInv, ChainBounded
<1>5. CASE DevAutoConfirm
  <2>1. watcher.pc \in {"sleep", "scan"}
    BY <1>5 DEF ClaimInv
  <2>2. watcher'.pc \in {"sleep", "scan"}
    BY <2>1 DEF WatcherCrash, WatchMatchFails, WatchFetchFails, ApiCrash
  <2>3. \A id \in OrderIds : confirm'[id] = confirm[id] \/ confirm'[id] = Idle
    BY <1>5 DEF WatcherCrash, WatchMatchFails, WatchFetchFails, ApiCrash
  <2>4. \A id \in OrderIds : TimerClaim(id)'
    BY <1>5, <2>3 DEF ClaimInv, TimerClaim, Confirming, Idle, DevTx
  <2>5. OwnTimers'
    BY <1>1, <1>5 DEF ClaimInv, OwnTimers, NoTx, DevTx
  <2>6. QED
    BY <1>2, <1>4, <1>5, <2>2, <2>4, <2>5 DEF ClaimInv
<1>6. CASE ~DevAutoConfirm
  <2>1. ASSUME NEW id \in OrderIds PROVE ScanClaim(id)'
    <3>1. ScanClaim(id)
      BY <1>6 DEF ClaimInv
    <3>2. CASE UNCHANGED <<watcher, confirm>>
      BY <1>1, <3>1, <3>2 DEF ScanClaim, Confirming, ScanHash, Free
    <3>3. CASE confirm'[id].pc = "idle"
      BY <3>3 DEF ScanClaim, Confirming
    <3>4. CASE WatcherCrash
      BY <1>6, <3>3, <3>4 DEF WatcherCrash, Idle
    <3>5. CASE ApiCrash
      BY <1>6, <3>2, <3>5 DEF ApiCrash
    <3>6. CASE WatchMatchFails \/ \E row \in ScannedRows : WatchFetchFails(row)
      <4>1. watcher.pc # "confirm" /\ UNCHANGED confirm
        BY <3>6 DEF WatchMatchFails, WatchFetchFails
      <4>2. QED
        BY <1>6, <3>3, <4>1, ScanIdle
    <3>7. QED
      BY <3>4, <3>5, <3>6
  <2>2. timers' = {}
    BY <1>1, <1>6 DEF ClaimInv
  <2>3. QED
    BY <1>2, <1>4, <1>6, <2>1, <2>2 DEF ClaimInv
<1>7. QED
  BY <1>5, <1>6

LEMMA ClaimInvWorld ==
    ASSUME TypeInv, ClaimInv,
           \/ \E to \in {orders[id].index : id \in DOMAIN orders},
                 amount \in Amounts : Pay(to, amount)
           \/ Tick
           \/ UNCHANGED vars
    PROVE  ClaimInv'
<1>1. UNCHANGED <<config, orders, timers, watcher, confirm>>
  BY DEF Pay, Tick, vars
<1>2. Len(chain') <= MaxTransfers
  <2>1. chain \in Seq(Transfer) /\ Len(chain) <= MaxTransfers
    BY DEF ClaimInv, ChainBounded, TypeInv, TypeOK
  <2>2. ASSUME NEW to, NEW amount, Pay(to, amount)
        PROVE  Len(chain') <= MaxTransfers
    <3>1. Len(chain') = Len(chain) + 1
      BY <2>1, <2>2 DEF Pay
    <3>2. QED
      BY <2>1, <2>2, <3>1, BoundAssumption DEF Pay
  <2>3. CASE UNCHANGED chain
    BY <2>1, <2>3
  <2>4. QED
    BY <2>2, <2>3 DEF Tick, vars
<1>3. ChainBounded'
  BY <1>1, <1>2 DEF ClaimInv, ChainBounded
<1>4. \A id \in OrderIds : (ScanClaim(id) => ScanClaim(id)')
                          /\ (TimerClaim(id) => TimerClaim(id)')
  BY <1>1 DEF ScanClaim, TimerClaim, Confirming, ScanHash, Free
<1>5. QED
  BY <1>1, <1>3, <1>4 DEF ClaimInv, DevAutoConfirm, OwnTimers

LEMMA ClaimInvNext == TypeInv /\ ClaimInv /\ [Next]_vars => ClaimInv'
  BY ClaimInvRequest, ClaimInvConfirm, ClaimInvWatch, ClaimInvOne, ClaimInvCrash,
     ClaimInvWorld DEF Next, Failure

LEMMA ClaimInvariant == Spec => []ClaimInv
  BY ClaimInvInit, ClaimInvNext, TypeInvariant, PTL DEF Spec

-----------------------------------------------------------------------------
(* Of the orders of one transfer, one that reads paid *)

LEMMA OnlyPayPays ==
    ASSUME TypeInv, [Next]_vars, \A id \in OrderIds : ~ConfirmPay(id)
    PROVE  NothingPaid
<1>1. CASE UNCHANGED orders
  BY <1>1 DEF NothingPaid
<1>2. QED
  BY <1>1, RequestPaysNothing, ConfirmPaysNothing, WatchPaysNothing
  DEF Next, vars, Failure, WatcherCrash, WatchMatchFails, WatchFetchFails, ConfirmFails,
      TimerFires, ApiCrash, Pay, Tick

LEMMA PaidTransfersNext ==
    ASSUME TypeInv, ClaimInv, PaidTransfersDiffer, [Next]_vars
    PROVE  PaidTransfersDiffer'
<1>1. CASE \A id \in OrderIds : ~ConfirmPay(id)
  <2>1. NothingPaid
    BY <1>1, OnlyPayPays
  <2>2. QED
    BY <2>1 DEF NothingPaid, PaidTransfersDiffer
<1>2. ASSUME NEW id \in OrderIds, ConfirmPay(id)
      PROVE  PaidTransfersDiffer'
  <2>1. id \in DOMAIN orders /\ orders[id] \in Order /\ Confirming(id)
    BY <1>2 DEF ConfirmPay, Confirming, TypeInv, TypeOK, RefsExist, ConfirmRefs
  <2>2. /\ DOMAIN orders' = DOMAIN orders
        /\ orders'[id].tx = confirm[id].tx
        /\ \A j \in DOMAIN orders : j # id => orders'[j] = orders[j]
    BY <1>2, <2>1 DEF ConfirmPay, Paid, Order
  <2>3. ASSUME NEW j \in DOMAIN orders, orders[j].status = "paid", j # id
        PROVE  orders[j].tx # confirm[id].tx
    <3>1. CASE DevAutoConfirm
      <4>1. confirm[id].tx = DevTx(id) /\ orders[j].tx \in {NoTx, DevTx(j)}
        BY <2>1, <3>1 DEF ClaimInv, TimerClaim, OwnTimers
      <4>2. QED
        BY <2>3, <4>1, HashesDiffer
    <3>2. CASE ~DevAutoConfirm
      BY <2>1, <2>3, <3>2 DEF ClaimInv, ScanClaim, Free
    <3>3. QED
      BY <3>1, <3>2
  <2>4. QED
    BY <2>2, <2>3 DEF PaidTransfersDiffer
<1>3. QED
  BY <1>1, <1>2

\* Of the orders that record one transfer at most one reads paid at a time, on a treasury
\* address too: the scan looks the hash up among the paid orders and confirms in separate
\* statements, but one order at a time.
THEOREM PaidTransfersDistinct == Spec => []PaidTransfersDiffer
<1>1. Init => PaidTransfersDiffer
  BY DEF Init, PaidTransfersDiffer
<1>2. QED
  BY <1>1, PaidTransfersNext, TypeInvariant, ClaimInvariant, PTL DEF Spec

-----------------------------------------------------------------------------
(* Every step is a step of the ledger, or leaves it alone *)

LedgerStep == Ledger!Next \/ UNCHANGED <<Recorded, webhooks>>

LEMMA RecordedSame ==
    ASSUME UNCHANGED <<orders, webhooks>>
    PROVE  LedgerStep
  BY DEF LedgerStep, Recorded

\* A status is overwritten.
LEMMA WithdrawnStep ==
    ASSUME TypeInv, NEW id \in DOMAIN orders, NEW s \in {"expired", "cancelled"},
           orders' = [orders EXCEPT ![id] = [orders[id] EXCEPT !.status = s]],
           UNCHANGED webhooks
    PROVE  LedgerStep
<1>1. id \in DOMAIN Recorded /\ orders[id] \in Order /\ s \in Ledger!Withdrawn
  BY DEF TypeInv, TypeOK, Recorded, Ledger!Withdrawn
<1>2. Recorded' = [Recorded EXCEPT ![id].status = s]
  BY <1>1 DEF Recorded, Order
<1>3. Ledger!Withdraw(id, s)
  BY <1>2 DEF Ledger!Withdraw
<1>4. QED
  BY <1>1, <1>3 DEF LedgerStep, Ledger!Next

LEMMA LedgerRequest ==
    ASSUME TypeInv, NEW r \in Requests, RequestStep(r)
    PROVE  LedgerStep
<1>1. UNCHANGED webhooks
  BY DEF RequestStep, CreateCount, AllocateDepositAddress, InsertOrder,
         SetExactAmount, ReadOrder, DecideOnOrder, WriteOrder, RequestFails
<1>2. ASSUME NEW id \in OrderIds, InsertOrder(r, id),
             orders' = [j \in DOMAIN orders \cup {id} |->
                          IF j = id THEN Inserted(requests[r]) ELSE orders[j]]
      PROVE  LedgerStep
  <2>1. id \notin DOMAIN Recorded
    BY <1>2 DEF InsertOrder, Recorded
  <2>2. Recorded' = [j \in DOMAIN Recorded \cup {id} |->
                        IF j = id THEN Ledger!Opened ELSE Recorded[j]]
    BY <1>2 DEF Recorded, Inserted, Ledger!Opened
  <2>3. Ledger!Open(id)
    BY <1>1, <2>1, <2>2 DEF Ledger!Open
  <2>4. QED
    BY <2>3 DEF LedgerStep, Ledger!Next
<1>3. ASSUME NEW id \in DOMAIN orders, NEW exact \in Nat,
             orders' = [orders EXCEPT ![id] = [orders[id] EXCEPT !.amount = exact]]
      PROVE  LedgerStep
  <2>1. orders[id] \in Order
    BY DEF TypeInv, TypeOK
  <2>2. Recorded' = Recorded
    BY <1>3, <2>1 DEF Recorded, Order
  <2>3. QED
    BY <1>1, <2>2 DEF LedgerStep
<1>4. QED
  BY <1>1, <1>2, <1>3, RequestRows, RecordedSame, WithdrawnStep

LEMMA LedgerPay ==
    ASSUME TypeInv, ClaimInv, NotifyInv, NEW id \in OrderIds, ConfirmPay(id)
    PROVE  LedgerStep
<1>1. id \in DOMAIN orders /\ orders[id] \in Order /\ Confirming(id)
      /\ orders[id].tx = NoTx
  BY DEF ConfirmPay, Confirming, TypeInv, TypeOK, RefsExist, ConfirmRefs, NotifyInv,
         NotifyInvOf
<1>2. /\ orders' = [orders EXCEPT ![id] =
                        Paid(orders[id], confirm[id].tx, confirm[id].at)]
      /\ UNCHANGED webhooks
  BY DEF ConfirmPay
<1>3. Recorded' = [Recorded EXCEPT ![id] =
                      [status |-> "paid", payment |-> confirm[id].tx]]
  <2>1. /\ DOMAIN orders' = DOMAIN orders
        /\ orders'[id].tx = confirm[id].tx /\ orders'[id].status = "paid"
        /\ \A j \in DOMAIN orders : j # id => orders'[j] = orders[j]
    BY <1>1, <1>2 DEF Paid, Order
  <2>2. QED
    BY <1>1, <2>1 DEF Recorded
<1>4. confirm[id].tx \in Payments
      /\ \A j \in DOMAIN orders : orders[j].status = "paid"
                                    => orders[j].tx # confirm[id].tx
  <2>1. CASE DevAutoConfirm
    <3>1. confirm[id].tx = DevTx(id) /\ OwnTimers
      BY <1>1, <2>1 DEF ClaimInv, TimerClaim
    <3>2. \A j \in DOMAIN orders : j # id => orders[j].tx # DevTx(id)
      BY <3>1, HashesDiffer DEF OwnTimers
    <3>3. orders[id].tx # DevTx(id)
      BY <1>1, HashesDiffer
    <3>4. QED
      BY <3>1, <3>2, <3>3 DEF Payments
  <2>2. CASE ~DevAutoConfirm
    BY <1>1, <2>2 DEF ClaimInv, ScanClaim, ScanHash, Free, Payments
  <2>3. QED
    BY <2>1, <2>2
<1>5. confirm[id].tx \notin Ledger!Spent
  BY <1>4 DEF Ledger!Spent, Recorded
<1>6. Ledger!Pay(id, confirm[id].tx)
  BY <1>1, <1>2, <1>3, <1>5 DEF Ledger!Pay, Recorded
<1>7. \E payment \in Payments : Ledger!Pay(id, payment)
  BY <1>4, <1>6
<1>8. id \in DOMAIN Recorded
  BY <1>1 DEF Recorded
<1>9. QED
  BY <1>7, <1>8 DEF LedgerStep, Ledger!Next

LEMMA LedgerConfirm ==
    ASSUME TypeInv, ClaimInv, NotifyInv, NEW id \in OrderIds, ConfirmStep(id)
    PROVE  LedgerStep
<1>1. id \in DOMAIN orders /\ orders[id] \in Order
  BY DEF ConfirmStep, ConfirmRead, ConfirmDecide, ConfirmExpire, ConfirmPay,
         ConfirmNotify, ConfirmActivate, TypeInv, TypeOK, RefsExist, ConfirmRefs
<1>2. CASE ConfirmExpire(id)
  BY <1>1, <1>2, WithdrawnStep DEF ConfirmExpire, SetStatus
<1>3. CASE ConfirmNotify(id)
  <2>1. UNCHANGED Recorded /\ webhooks[id] = 0 /\ orders[id].tx # NoTx
    BY <1>3 DEF ConfirmNotify, Recorded, NotifyInv, NotifyInvOf
  <2>2. PICK delivered \in {0, 1} :
            webhooks' = [webhooks EXCEPT ![id] = webhooks[id] + delivered]
    BY <1>3 DEF ConfirmNotify
  <2>3. CASE delivered = 0
    <3>1. webhooks' = webhooks
      BY <2>1, <2>2, <2>3 DEF TypeInv, TypeOK
    <3>2. QED
      BY <2>1, <3>1 DEF LedgerStep
  <2>4. CASE delivered = 1
    <3>1. webhooks' = [webhooks EXCEPT ![id] = 1]
      BY <2>1, <2>2, <2>4 DEF TypeInv, TypeOK
    <3>2. Ledger!Notify(id)
      BY <1>1, <2>1, <3>1 DEF Ledger!Notify, Recorded
    <3>3. QED
      BY <1>1, <3>2 DEF LedgerStep, Ledger!Next, Recorded
  <2>5. QED
    BY <2>3, <2>4
<1>4. QED
  BY <1>2, <1>3, LedgerPay, RecordedSame
  DEF ConfirmStep, ConfirmRead, ConfirmDecide, ConfirmActivate

LEMMA LedgerSweep ==
    ASSUME TypeInv, WatchSweep
    PROVE  LedgerStep
<1> DEFINE due == {id \in DOMAIN orders : IsPending(id) /\ SweepDue(id)}
<1>1. due \in SUBSET DOMAIN Recorded
      /\ \A id \in due : Recorded[id].status = "pending"
  BY DEF Recorded, IsPending
<1>2. \A id \in DOMAIN orders : orders[id] \in Order
  BY DEF TypeInv, TypeOK
<1>3. Recorded' = [id \in DOMAIN Recorded |->
                    IF id \in due THEN [Recorded[id] EXCEPT !.status = "expired"]
                    ELSE Recorded[id]]
  BY <1>2 DEF WatchSweep, Recorded, Order
<1>4. Ledger!Expire(due)
  BY <1>1, <1>3 DEF Ledger!Expire, WatchSweep
<1>5. QED
  BY <1>1, <1>4 DEF LedgerStep, Ledger!Next

LEMMA LedgerNext ==
    ASSUME TypeInv, ClaimInv, NotifyInv, [Next]_vars
    PROVE  LedgerStep
  BY LedgerRequest, LedgerConfirm, LedgerSweep, RecordedSame
  DEF Next, vars, Failure, WatchStep, WatchScan, WatchOrderDone, WatchTickDone,
      WatchFetch, WatchMatch, WatcherCrash, WatchMatchFails, WatchFetchFails,
      ConfirmFails, TimerFires, ApiCrash, Pay, Tick

LEMMA LedgerInit == Init => Ledger!Init
  BY DEF Init, Ledger!Init, Recorded

\* The rows, with everything that reads and writes them and every crash, keep the
\* promises of OrderLedger.
THEOREM ImplementsLedger == Spec => KeepsLedger
<1>1. TypeInv /\ ClaimInv /\ NotifyInv /\ [Next]_vars
        => [Ledger!Next]_<<Recorded, webhooks>>
  BY LedgerNext DEF LedgerStep
<1>2. Spec => []NotifyInv
  BY NotifyInvInit, NotifyInvNext, TypeInvariant, PTL DEF Spec
<1>3. QED
  BY <1>1, <1>2, LedgerInit, TypeInvariant, ClaimInvariant, PTL
  DEF Spec, KeepsLedger, Ledger!Spec

-----------------------------------------------------------------------------
(* What an order's payment rests on *)

\* The n-th transfer answers an order, whatever became of its status.
Backs(n, id) ==
    /\ n \in DOMAIN chain
    /\ chain[n].to = orders[id].index
    /\ chain[n].amount >= Price[orders[id].plan]
    /\ chain[n].ts >= orders[id].createdAt - Grace

ChainPast == \A n \in DOMAIN chain : chain[n].ts <= now

\* The exact amount of a treasury order, which the scan may have read before or after it
\* was written, is no less than the price.
AmountsCover == \A id \in DOMAIN orders : orders[id].amount >= Price[orders[id].plan]

Covers(row) == row.amount >= Price[orders[row.id].plan]

ScanCovers ==
    /\ watcher.pc \in {"next", "match", "confirm"} => \A row \in watcher.todo : Covers(row)
    /\ watcher.pc = "match" =>
        /\ Covers(watcher.row)
        /\ \A n \in watcher.found :
            /\ n \in DOMAIN chain
            /\ chain[n].to = orders[watcher.row.id].index
            /\ chain[n].ts >= orders[watcher.row.id].createdAt - Grace

\* Between its reading of the clock and its write a confirmation keeps the time.
ConfirmBacked(id) ==
    /\ Confirming(id) /\ ~DevAutoConfirm =>
        \E n \in Nat : confirm[id].tx = ChainTx(n) /\ Backs(n, id)
    /\ confirm[id].pc = "payWrite" =>
        /\ confirm[id].at < orders[id].expireAt
        /\ ~DevAutoConfirm => \A n \in Nat :
                confirm[id].tx = ChainTx(n) => chain[n].ts <= confirm[id].at

BackInv ==
    /\ ChainPast /\ AmountsCover /\ ScanCovers
    /\ \A id \in OrderIds : ConfirmBacked(id)
    /\ PaidIsBacked

LEMMA BackInvInit == Init => BackInv
  BY DEF Init, Idle, BackInv, ChainPast, AmountsCover, ScanCovers, ConfirmBacked, Confirming,
     PaidIsBacked

LEMMA TxNumbers == \A m, n : ChainTx(m) = ChainTx(n) => m = n
  BY DEF ChainTx

\* Rows keep what their payment is judged by, and transfers stay as they are.
TermsKept ==
    /\ UNCHANGED config
    /\ \A n \in DOMAIN chain : n \in DOMAIN chain' /\ chain'[n] = chain[n]
    /\ \A id \in DOMAIN orders :
        /\ id \in DOMAIN orders'
        /\ orders'[id].index = orders[id].index
        /\ orders'[id].plan = orders[id].plan
        /\ orders'[id].createdAt = orders[id].createdAt
        /\ orders'[id].expireAt = orders[id].expireAt

\* The rows as a step of a request leaves them.
LEMMA RequestTerms ==
    ASSUME TypeInv, AmountsCover, NEW r \in Requests, RequestStep(r)
    PROVE  /\ TermsKept /\ AmountsCover' /\ UNCHANGED <<config, now, chain, watcher, confirm>>
           /\ \A id \in DOMAIN orders' :
                IF id \in DOMAIN orders
                THEN orders'[id].tx = orders[id].tx /\ orders'[id].paidAt = orders[id].paidAt
                ELSE orders'[id].tx = NoTx
<1>1. UNCHANGED <<config, now, chain, watcher, confirm>>
  BY DEF RequestStep, CreateCount, AllocateDepositAddress, InsertOrder,
         SetExactAmount, ReadOrder, DecideOnOrder, WriteOrder, RequestFails
<1>2. \A id \in DOMAIN orders : orders[id] \in Order
  BY DEF TypeInv, TypeOK
<1>3. CASE UNCHANGED orders
  BY <1>1, <1>3 DEF TermsKept, AmountsCover
<1>4. ASSUME NEW id \in OrderIds, InsertOrder(r, id)
      PROVE  /\ TermsKept /\ AmountsCover'
             /\ \A j \in DOMAIN orders' :
                  IF j \in DOMAIN orders
                  THEN orders'[j].tx = orders[j].tx /\ orders'[j].paidAt = orders[j].paidAt
                  ELSE orders'[j].tx = NoTx
  <2>1. /\ DOMAIN orders' = DOMAIN orders \cup {id}
        /\ orders'[id] = Inserted(requests[r])
        /\ \A j \in DOMAIN orders : orders'[j] = orders[j]
    BY <1>4 DEF InsertOrder
  <2>2. requests[r].plan \in Plans
    BY <1>4, RequestVariants DEF InsertOrder, TypeInv, TypeOK
  <2>3. /\ orders'[id].amount = Price[orders'[id].plan] /\ orders'[id].tx = NoTx
        /\ Price[orders'[id].plan] \in Nat
    BY <2>1, <2>2, PriceAssumption DEF Inserted
  <2>4. QED
    BY <1>1, <2>1, <2>3 DEF TermsKept, AmountsCover
<1>5. CASE SetExactAmount(r)
  <2> DEFINE id == requests[r].id
             exact == TreasuryPayAmount(Price[orders[id].plan], id)
  <2>1. id \in OrderIds /\ id \in DOMAIN orders
    BY <1>5, RequestVariants DEF SetExactAmount, TypeInv, TypeOK, RefsExist, RequestRefs
  <2>2. exact >= Price[orders[id].plan]
    <3>1. Price[orders[id].plan] \in Nat
      BY <1>2, <2>1, PriceAssumption DEF Order
    <3>2. id \in Nat /\ TailModulus \in Nat \ {0}
      BY <2>1, OrderIdsAssumption, LimitsAssumption
    <3>3. id % TailModulus \in Nat
      BY <3>2
    <3>4. QED
      BY <3>1, <3>3 DEF TreasuryPayAmount
  <2>3. orders' = [orders EXCEPT ![id] = [orders[id] EXCEPT !.amount = exact]]
    BY <1>5 DEF SetExactAmount
  <2> HIDE DEF id, exact
  <2>4. /\ DOMAIN orders' = DOMAIN orders
        /\ orders'[id] = [orders[id] EXCEPT !.amount = exact]
        /\ \A j \in DOMAIN orders : j # id => orders'[j] = orders[j]
    BY <2>1, <2>3
  <2>5. /\ orders'[id].amount = exact /\ orders'[id].plan = orders[id].plan
        /\ orders'[id].index = orders[id].index /\ orders'[id].createdAt = orders[id].createdAt
        /\ orders'[id].expireAt = orders[id].expireAt /\ orders'[id].tx = orders[id].tx
        /\ orders'[id].paidAt = orders[id].paidAt
    BY <1>2, <2>1, <2>4 DEF Order
  <2>6. QED
    BY <1>1, <2>1, <2>2, <2>4, <2>5 DEF TermsKept, AmountsCover
<1>6. CASE WriteOrder(r)
  <2>1. requests[r].id \in DOMAIN orders
    BY <1>6 DEF WriteOrder, TypeInv, RefsExist, RequestRefs
  <2>2. PICK s : orders' = [orders EXCEPT ![requests[r].id] =
                              [orders[requests[r].id] EXCEPT !.status = s]]
    BY <1>6 DEF WriteOrder, SetStatus
  <2>3. QED
    BY <1>1, <1>2, <2>1, <2>2 DEF TermsKept, AmountsCover, Order
<1>7. QED
  BY <1>1, <1>3, <1>4, <1>5, <1>6 DEF RequestStep, CreateCount, AllocateDepositAddress,
     ReadOrder, DecideOnOrder, RequestFails

LEMMA BacksKept ==
    ASSUME TermsKept, NEW id \in DOMAIN orders, NEW n \in Nat, Backs(n, id)
    PROVE  Backs(n, id)'
  BY DEF TermsKept, Backs

LEMMA ScanKept ==
    ASSUME TypeInv, ScanCovers, TermsKept, UNCHANGED watcher
    PROVE  ScanCovers'
<1>1. CASE watcher.pc \in {"next", "match", "confirm"}
  <2>1. ASSUME NEW row \in watcher.todo PROVE Covers(row)'
    BY <1>1, <2>1 DEF Covers, ScanCovers, TermsKept, TypeInv, RefsExist, WatcherRefs
  <2>2. CASE watcher.pc = "match"
    <3>1. watcher.row.id \in DOMAIN orders /\ Covers(watcher.row)
      BY <2>2 DEF ScanCovers, TypeInv, RefsExist, WatcherRefs
    <3>2. Covers(watcher.row)'
      BY <3>1 DEF Covers, TermsKept
    <3>3. \A n \in watcher.found :
            /\ n \in DOMAIN chain'
            /\ chain'[n].to = orders'[watcher.row.id].index
            /\ chain'[n].ts >= orders'[watcher.row.id].createdAt - Grace
      BY <2>2, <3>1 DEF ScanCovers, TermsKept
    <3>4. QED
      BY <2>1, <2>2, <3>2, <3>3 DEF ScanCovers
  <2>3. CASE watcher.pc # "match"
    BY <2>1, <2>3 DEF ScanCovers
  <2>4. QED
    BY <2>2, <2>3
<1>2. CASE watcher.pc \notin {"next", "match", "confirm"}
  BY <1>2 DEF ScanCovers
<1>3. QED
  BY <1>1, <1>2

\* A confirmation that stays where it is, or ends, has nothing new to rest on.
LEMMA ConfirmKept ==
    ASSUME TypeInv, NEW id \in OrderIds, ConfirmBacked(id), TermsKept,
           confirm'[id] = confirm[id]
           \/ confirm'[id].pc \notin {"read", "decide", "payWrite"}
    PROVE  ConfirmBacked(id)'
<1>1. CASE confirm'[id].pc \notin {"read", "decide", "payWrite"}
  BY <1>1 DEF ConfirmBacked, Confirming
<1>2. CASE Confirming(id) /\ confirm'[id] = confirm[id]
  <2>1. id \in DOMAIN orders
    BY <1>2 DEF Confirming, TypeInv, RefsExist, ConfirmRefs
  <2>2. DevAutoConfirm' = DevAutoConfirm /\ orders'[id].expireAt = orders[id].expireAt
    BY <2>1 DEF TermsKept, DevAutoConfirm
  <2>3. ASSUME ~DevAutoConfirm
        PROVE  \E n \in Nat : /\ confirm[id].tx = ChainTx(n) /\ Backs(n, id)
                              /\ Backs(n, id)' /\ chain'[n] = chain[n]
    <3>1. PICK n \in Nat : confirm[id].tx = ChainTx(n) /\ Backs(n, id)
      BY <1>2, <2>3 DEF ConfirmBacked
    <3>2. Backs(n, id)' /\ chain'[n] = chain[n]
      BY <2>1, <3>1, BacksKept DEF Backs, TermsKept
    <3>3. QED
      BY <3>1, <3>2
  <2>4. ASSUME confirm[id].pc = "payWrite", ~DevAutoConfirm, NEW m \in Nat,
               confirm[id].tx = ChainTx(m)
        PROVE  chain'[m].ts <= confirm[id].at
    BY <2>3, <2>4, TxNumbers DEF ConfirmBacked
  <2>5. QED
    BY <1>2, <2>2, <2>3, <2>4 DEF ConfirmBacked, Confirming
<1>3. QED
  BY <1>1, <1>2 DEF Confirming

LEMMA PaidKept ==
    ASSUME TypeInv, PaidIsBacked, TermsKept,
           \A id \in DOMAIN orders' :
                IF id \in DOMAIN orders
                THEN orders'[id].tx = orders[id].tx /\ orders'[id].paidAt = orders[id].paidAt
                ELSE orders'[id].tx = NoTx
    PROVE  PaidIsBacked'
<1>1. ASSUME NEW id \in DOMAIN orders', orders'[id].tx # NoTx
      PROVE  /\ orders'[id].paidAt < orders'[id].expireAt
             /\ \/ /\ ~DevAutoConfirm'
                   /\ orders'[id].tx = ChainTx(orders'[id].tx[2])
                   /\ orders'[id].tx[2] \in DOMAIN chain'
                   /\ chain'[orders'[id].tx[2]].to = orders'[id].index
                   /\ chain'[orders'[id].tx[2]].amount >= Price[orders'[id].plan]
                   /\ chain'[orders'[id].tx[2]].ts >= orders'[id].createdAt - Grace
                   /\ chain'[orders'[id].tx[2]].ts <= orders'[id].paidAt
                \/ DevAutoConfirm' /\ orders'[id].tx = DevTx(id)
  <2>1. /\ id \in DOMAIN orders /\ orders'[id].tx = orders[id].tx
        /\ orders'[id].paidAt = orders[id].paidAt
    BY <1>1
  <2>2. DevAutoConfirm' = DevAutoConfirm
    BY DEF TermsKept, DevAutoConfirm
  <2>3. QED
    BY <1>1, <2>1, <2>2 DEF PaidIsBacked, TermsKept
<1>2. QED
  BY <1>1 DEF PaidIsBacked

LEMMA BackInvRequest ==
    ASSUME TypeInv, BackInv, NEW r \in Requests, RequestStep(r)
    PROVE  BackInv'
<1>1. /\ TermsKept /\ AmountsCover' /\ UNCHANGED <<config, now, chain, watcher, confirm>>
      /\ \A id \in DOMAIN orders' :
            IF id \in DOMAIN orders
            THEN orders'[id].tx = orders[id].tx /\ orders'[id].paidAt = orders[id].paidAt
            ELSE orders'[id].tx = NoTx
  BY RequestTerms DEF BackInv
<1>2. ChainPast'
  BY <1>1 DEF BackInv, ChainPast
<1>3. ScanCovers' /\ PaidIsBacked'
  BY <1>1, ScanKept, PaidKept DEF BackInv
<1>4. \A id \in OrderIds : ConfirmBacked(id)'
  BY <1>1, ConfirmKept DEF BackInv
<1>5. QED
  BY <1>1, <1>2, <1>3, <1>4 DEF BackInv

\* The rows and the chain stay, and the clock may run.
LEMMA BackInvStill ==
    ASSUME TypeInv, BackInv, UNCHANGED <<config, orders, chain>>, now <= now', now' \in Nat,
           ScanCovers', \A id \in OrderIds : ConfirmBacked(id)'
    PROVE  BackInv'
<1>1. TermsKept
  BY DEF TermsKept
<1>2. PaidIsBacked'
  BY <1>1, PaidKept DEF BackInv
<1>3. \A n \in DOMAIN chain : chain[n] \in Transfer /\ now \in Nat
  BY DEF TypeInv, TypeOK
<1>4. ChainPast'
  BY <1>3 DEF BackInv, ChainPast, Transfer
<1>5. AmountsCover'
  BY DEF BackInv, AmountsCover
<1>6. QED
  BY <1>2, <1>4, <1>5 DEF BackInv

LEMMA ConfirmedAlone ==
    ASSUME TypeInv, NEW id \in OrderIds, NEW state, SetConfirm(id, state)
    PROVE  confirm'[id] = state /\ \A j \in OrderIds : j # id => confirm'[j] = confirm[j]
  BY DEF SetConfirm, TypeInv, TypeOK

LEMMA BackInvConfirmStill ==
    ASSUME TypeInv, BackInv, NEW id \in OrderIds,
           ConfirmRead(id) \/ ConfirmDecide(id) \/ ConfirmNotify(id) \/ ConfirmActivate(id)
    PROVE  BackInv'
<1>1. UNCHANGED <<config, now, chain, orders, watcher>>
  BY DEF ConfirmRead, ConfirmDecide, ConfirmNotify, ConfirmActivate
<1>2. TermsKept /\ now \in Nat /\ DevAutoConfirm' = DevAutoConfirm
  BY <1>1 DEF TermsKept, TypeInv, TypeOK, DevAutoConfirm
<1>3. ScanCovers'
  BY <1>1, <1>2, ScanKept DEF BackInv
<1>4. ConfirmBacked(id)'
  <2>0. ConfirmBacked(id) /\ confirm[id] \in Confirm
    BY DEF BackInv, TypeInv, TypeOK
  <2>1. CASE ConfirmRead(id)
    <3>1. \/ confirm'[id] = [pc |-> "decide", tx |-> confirm[id].tx]
          \/ confirm'[id] = Idle
      BY <2>1, ConfirmedAlone DEF ConfirmRead
    <3>2. CASE confirm'[id] = Idle
      BY <1>2, <2>0, <3>2, ConfirmKept DEF Idle
    <3>3. CASE confirm'[id] = [pc |-> "decide", tx |-> confirm[id].tx]
      BY <1>1, <1>2, <2>0, <2>1, <3>3 DEF ConfirmRead, ConfirmBacked, Confirming, Backs
    <3>4. QED
      BY <3>1, <3>2, <3>3
  <2>2. CASE ConfirmDecide(id)
    <3>1. CASE Due(id)
      <4>1. confirm'[id].pc = "expireWrite"
        BY <2>2, <3>1, ConfirmedAlone DEF ConfirmDecide
      <4>2. QED
        BY <1>2, <2>0, <4>1, ConfirmKept
    <3>2. CASE ~Due(id)
      <4>1. confirm'[id] = [pc |-> "payWrite", tx |-> confirm[id].tx, at |-> now]
            /\ confirm[id].pc = "decide"
        BY <2>2, <3>2, ConfirmedAlone DEF ConfirmDecide
      <4>2. id \in DOMAIN orders
        BY <4>1 DEF TypeInv, RefsExist, ConfirmRefs
      <4>3. now < orders[id].expireAt
        BY <1>2, <3>2, <4>2 DEF Due, TypeInv, TypeOK, Order
      <4>4. ~DevAutoConfirm => \E n \in Nat : confirm[id].tx = ChainTx(n) /\ Backs(n, id)
        BY <2>0, <4>1 DEF ConfirmBacked, Confirming
      <4>5. ASSUME ~DevAutoConfirm, NEW m \in Nat, confirm[id].tx = ChainTx(m)
            PROVE  chain[m].ts <= now
        <5>1. Backs(m, id)
          BY <4>4, <4>5, TxNumbers
        <5>2. QED
          BY <5>1 DEF Backs, BackInv, ChainPast
      <4>6. QED
        BY <1>1, <1>2, <4>1, <4>3, <4>4, <4>5 DEF ConfirmBacked, Confirming, Backs
    <3>3. QED
      BY <3>1, <3>2
  <2>3. CASE ConfirmNotify(id) \/ ConfirmActivate(id)
    <3>1. confirm'[id].pc \in {"idle", "activate"}
      BY <2>3, ConfirmedAlone DEF ConfirmNotify, ConfirmActivate, Idle
    <3>2. QED
      BY <1>2, <2>0, <3>1, ConfirmKept
  <2>4. QED
    BY <2>1, <2>2, <2>3
<1>5. \A j \in OrderIds : j # id => confirm'[j] = confirm[j]
  BY ConfirmedAlone DEF ConfirmRead, ConfirmDecide, ConfirmNotify, ConfirmActivate
<1>6. \A j \in OrderIds : ConfirmBacked(j)'
  BY <1>2, <1>4, <1>5, ConfirmKept DEF BackInv
<1>7. QED
  BY <1>1, <1>2, <1>3, <1>6, BackInvStill

LEMMA BackInvExpire ==
    ASSUME TypeInv, BackInv, NEW id \in OrderIds, ConfirmExpire(id)
    PROVE  BackInv'
<1>1. /\ id \in DOMAIN orders /\ UNCHANGED <<config, now, chain, watcher>>
      /\ orders' = [orders EXCEPT ![id] = [orders[id] EXCEPT !.status = "expired"]]
  BY DEF ConfirmExpire, SetStatus, TypeInv, RefsExist, ConfirmRefs
<1>2. \A j \in DOMAIN orders : orders[j] \in Order
  BY DEF TypeInv, TypeOK
<1>3. /\ TermsKept /\ AmountsCover'
      /\ \A j \in DOMAIN orders' :
            IF j \in DOMAIN orders
            THEN orders'[j].tx = orders[j].tx /\ orders'[j].paidAt = orders[j].paidAt
            ELSE orders'[j].tx = NoTx
  BY <1>1, <1>2 DEF TermsKept, BackInv, AmountsCover, Order
<1>4. ScanCovers' /\ PaidIsBacked'
  BY <1>1, <1>3, ScanKept, PaidKept DEF BackInv
<1>5. confirm'[id].pc = "idle" /\ \A j \in OrderIds : j # id => confirm'[j] = confirm[j]
  BY ConfirmedAlone DEF ConfirmExpire, Idle
<1>6. \A j \in OrderIds : ConfirmBacked(j)'
  BY <1>3, <1>5, ConfirmKept DEF BackInv
<1>7. QED
  BY <1>1, <1>3, <1>4, <1>6 DEF BackInv, ChainPast

\* The write takes the time and the hash that the decision left.
LEMMA BackInvPay ==
    ASSUME TypeInv, ClaimInv, BackInv, NEW id \in OrderIds, ConfirmPay(id)
    PROVE  BackInv'
<1>1. /\ id \in DOMAIN orders /\ UNCHANGED <<config, now, chain, watcher>>
      /\ orders' = [orders EXCEPT ![id] = Paid(orders[id], confirm[id].tx, confirm[id].at)]
      /\ confirm[id].pc = "payWrite" /\ Confirming(id)
  BY DEF ConfirmPay, TypeInv, RefsExist, ConfirmRefs, Confirming
<1>2. \A j \in DOMAIN orders : orders[j] \in Order
  BY DEF TypeInv, TypeOK
<1>3. /\ DOMAIN orders' = DOMAIN orders
      /\ \A j \in DOMAIN orders : j # id => orders'[j] = orders[j]
      /\ orders'[id].tx = confirm[id].tx /\ orders'[id].paidAt = confirm[id].at
      /\ orders'[id].index = orders[id].index /\ orders'[id].plan = orders[id].plan
      /\ orders'[id].createdAt = orders[id].createdAt
      /\ orders'[id].expireAt = orders[id].expireAt /\ orders'[id].amount = orders[id].amount
  BY <1>1, <1>2 DEF Paid, Order
<1>4. TermsKept /\ AmountsCover' /\ DevAutoConfirm' = DevAutoConfirm
  BY <1>1, <1>3 DEF TermsKept, BackInv, AmountsCover, DevAutoConfirm
<1>5. ScanCovers' /\ ChainPast'
  BY <1>1, <1>4, ScanKept DEF BackInv, ChainPast
<1>6. ConfirmBacked(id)
  BY DEF BackInv
<1>7. ASSUME NEW j \in DOMAIN orders', orders'[j].tx # NoTx
      PROVE  /\ orders'[j].paidAt < orders'[j].expireAt
             /\ \/ /\ ~DevAutoConfirm'
                   /\ orders'[j].tx = ChainTx(orders'[j].tx[2])
                   /\ orders'[j].tx[2] \in DOMAIN chain'
                   /\ chain'[orders'[j].tx[2]].to = orders'[j].index
                   /\ chain'[orders'[j].tx[2]].amount >= Price[orders'[j].plan]
                   /\ chain'[orders'[j].tx[2]].ts >= orders'[j].createdAt - Grace
                   /\ chain'[orders'[j].tx[2]].ts <= orders'[j].paidAt
                \/ DevAutoConfirm' /\ orders'[j].tx = DevTx(j)
  <2>1. CASE j # id
    BY <1>1, <1>3, <1>4, <1>7, <2>1 DEF BackInv, PaidIsBacked
  <2>2. CASE j = id /\ DevAutoConfirm
    BY <1>1, <1>3, <1>4, <1>6, <2>2 DEF ConfirmBacked, ClaimInv, TimerClaim
  <2>3. CASE j = id /\ ~DevAutoConfirm
    <3>1. PICK n \in Nat : confirm[id].tx = ChainTx(n) /\ Backs(n, id)
      BY <1>1, <1>6, <2>3 DEF ConfirmBacked
    <3>2. orders'[j].tx = ChainTx(n) /\ orders'[j].tx[2] = n
      BY <1>3, <2>3, <3>1 DEF ChainTx
    <3>3. chain[n].ts <= confirm[id].at /\ confirm[id].at < orders[id].expireAt
      BY <1>1, <1>6, <2>3, <3>1 DEF ConfirmBacked
    <3>4. QED
      BY <1>1, <1>3, <1>4, <2>3, <3>1, <3>2, <3>3 DEF Backs
  <2>4. QED
    BY <2>1, <2>2, <2>3
<1>8. PaidIsBacked'
  BY <1>7 DEF PaidIsBacked
<1>9. confirm'[id].pc = "reload" /\ \A j \in OrderIds : j # id => confirm'[j] = confirm[j]
  BY ConfirmedAlone DEF ConfirmPay
<1>10. \A j \in OrderIds : ConfirmBacked(j)'
  BY <1>4, <1>9, ConfirmKept DEF BackInv
<1>11. QED
  BY <1>4, <1>5, <1>8, <1>10 DEF BackInv

\* One UPDATE of the overdue rows: their status only.
LEMMA BackInvSweep ==
    ASSUME TypeInv, BackInv, WatchSweep
    PROVE  BackInv'
<1>1. \A id \in DOMAIN orders : orders[id] \in Order
  BY DEF TypeInv, TypeOK
<1>2. /\ TermsKept /\ AmountsCover' /\ UNCHANGED <<config, now, chain, confirm>>
      /\ \A id \in DOMAIN orders' :
            IF id \in DOMAIN orders
            THEN orders'[id].tx = orders[id].tx /\ orders'[id].paidAt = orders[id].paidAt
            ELSE orders'[id].tx = NoTx
  BY <1>1 DEF WatchSweep, TermsKept, BackInv, AmountsCover, Order
<1>3. ScanCovers' /\ ChainPast'
  BY <1>2 DEF WatchSweep, ScanCovers, BackInv, ChainPast
<1>4. PaidIsBacked'
  BY <1>2, PaidKept DEF BackInv
<1>5. \A id \in OrderIds : ConfirmBacked(id)'
  BY <1>2, ConfirmKept DEF BackInv
<1>6. QED
  BY <1>2, <1>3, <1>4, <1>5 DEF BackInv

\* The scan moves on without confirming.
LEMMA BackInvScan ==
    ASSUME TypeInv, BackInv, UNCHANGED <<config, now, orders, chain, confirm>>,
           ScanCovers'
    PROVE  BackInv'
<1>1. TermsKept /\ now \in Nat
  BY DEF TermsKept, TypeInv, TypeOK
<1>2. \A id \in OrderIds : ConfirmBacked(id)'
  BY <1>1, ConfirmKept DEF BackInv
<1>3. QED
  BY <1>1, <1>2, BackInvStill

LEMMA BackInvFetch ==
    ASSUME TypeInv, BackInv, NEW row \in ScannedRows, WatchFetch(row)
    PROVE  BackInv'
<1> DEFINE found == Incoming(orders[row.id].index, orders[row.id].createdAt - Grace)
<1>1. /\ watcher.pc = "next" /\ row \in watcher.todo
      /\ watcher' = [pc |-> "match", todo |-> watcher.todo \ {row}, row |-> row,
                     found |-> found]
      /\ UNCHANGED <<config, now, orders, chain, confirm>>
  BY DEF WatchFetch, IsNext
<1>2. \A n \in found :
        /\ n \in DOMAIN chain /\ chain[n].to = orders[row.id].index
        /\ chain[n].ts >= orders[row.id].createdAt - Grace
  BY DEF Incoming, FirstK
<1> HIDE DEF found
<1>3. /\ watcher'.pc = "match" /\ watcher'.todo = watcher.todo \ {row}
      /\ watcher'.row = row /\ watcher'.found = found
  BY <1>1
<1>4. \A other \in watcher.todo : Covers(other) /\ Covers(other)'
  BY <1>1 DEF BackInv, ScanCovers, Covers
<1>5. ScanCovers'
  BY <1>1, <1>2, <1>3, <1>4 DEF ScanCovers
<1>6. QED
  BY <1>1, <1>5, BackInvScan

\* A match that confirms does so with a transfer that backs the order.
LEMMA BackInvMatch ==
    ASSUME TypeInv, BackInv, NEW n \in DOMAIN chain, WatchMatch(n)
    PROVE  BackInv'
<1>1. /\ watcher.pc = "match" /\ n \in watcher.found
      /\ AmountOk(watcher.row.amount, chain[n].amount)
      /\ UNCHANGED <<config, now, orders, chain>>
  BY DEF WatchMatch, Payable
<1>2. /\ watcher = [pc |-> "match", todo |-> watcher.todo,
                    row |-> watcher.row, found |-> watcher.found]
      /\ watcher.row \in Snapshot /\ watcher.row.id \in DOMAIN orders
      /\ watcher.row.id \in OrderIds
  BY <1>1, WatcherVariants DEF TypeInv, TypeOK, RefsExist, WatcherRefs
<1>3. /\ \A row \in watcher.todo : Covers(row)
      /\ Covers(watcher.row)
      /\ \A m \in watcher.found :
            /\ m \in DOMAIN chain
            /\ chain[m].to = orders[watcher.row.id].index
            /\ chain[m].ts >= orders[watcher.row.id].createdAt - Grace
  BY <1>1 DEF BackInv, ScanCovers
<1>4. CASE Claimed(n)
  <2>1. watcher' = [pc |-> "match", todo |-> watcher.todo,
                    row |-> watcher.row, found |-> watcher.found \ {n}]
        /\ UNCHANGED confirm
    BY <1>2, <1>4 DEF WatchMatch
  <2>2. /\ watcher'.pc = "match" /\ watcher'.todo = watcher.todo
        /\ watcher'.row = watcher.row /\ watcher'.found = watcher.found \ {n}
    BY <2>1
  <2>3. ScanCovers'
    BY <1>1, <1>3, <2>2 DEF ScanCovers, Covers
  <2>4. QED
    BY <1>1, <2>1, <2>3, BackInvScan
<1>5. CASE ~Claimed(n)
  <2>0. PICK id \in OrderIds : id = watcher.row.id
    BY <1>2
  <2>1. /\ watcher' = [pc |-> "confirm", todo |-> watcher.todo, id |-> id]
        /\ SetConfirm(id, [pc |-> "read", tx |-> ChainTx(n)])
    BY <1>5, <2>0 DEF WatchMatch
  <2>2. watcher'.pc = "confirm" /\ watcher'.todo = watcher.todo
    BY <2>1
  <2>3. ScanCovers'
    BY <1>1, <1>3, <2>2 DEF ScanCovers, Covers
  <2>4. Backs(n, id)
    <3>1. /\ watcher.row.amount \in Nat /\ chain[n].amount \in Nat
          /\ Price[orders[id].plan] \in Nat
      <4>1. watcher.row.amount \in Nat
        BY <1>2 DEF Snapshot
      <4>2. chain[n] \in Transfer /\ orders[id] \in Order
        BY <1>2, <2>0 DEF TypeInv, TypeOK
      <4>3. QED
        BY <4>1, <4>2, PriceAssumption DEF Transfer, Order
    <3>2. chain[n].amount >= watcher.row.amount
      BY <1>1, <3>1 DEF AmountOk
    <3>3. QED
      BY <1>1, <1>3, <2>0, <3>1, <3>2 DEF Backs, Covers
  <2>5. n \in Nat /\ TermsKept /\ now \in Nat /\ DevAutoConfirm' = DevAutoConfirm
    BY <1>1 DEF TypeInv, TypeOK, TermsKept, DevAutoConfirm
  <2>6. confirm'[id] = [pc |-> "read", tx |-> ChainTx(n)]
        /\ \A j \in OrderIds : j # id => confirm'[j] = confirm[j]
    BY <2>1, ConfirmedAlone
  <2>7. ConfirmBacked(id)'
    <3>1. Backs(n, id)'
      BY <1>2, <2>0, <2>4, <2>5, BacksKept
    <3>2. confirm'[id].pc = "read" /\ confirm'[id].tx = ChainTx(n)
      BY <2>6
    <3>3. ChainTx(n)' = ChainTx(n)
      BY DEF ChainTx
    <3>4. QED
      BY <2>5, <3>1, <3>2, <3>3 DEF ConfirmBacked
  <2>8. ASSUME NEW j \in OrderIds PROVE ConfirmBacked(j)'
    <3>1. CASE j = id
      BY <2>7, <3>1
    <3>2. CASE j # id
      BY <2>5, <2>6, <3>2, ConfirmKept DEF BackInv
    <3>3. QED
      BY <3>1, <3>2
  <2>9. QED
    BY <1>1, <2>3, <2>5, <2>8, BackInvStill
<1>6. QED
  BY <1>4, <1>5

LEMMA BackInvWatch ==
    ASSUME TypeInv, BackInv,
           WatchStep \/ WatchMatchFails \/ \E row \in ScannedRows : WatchFetchFails(row)
    PROVE  BackInv'
<1>1. CASE WatchScan
  <2> DEFINE T == {[id |-> id, amount |-> orders[id].amount] :
                      id \in FirstK(Open, ScanLimit)}
  <2>1. FirstK(Open, ScanLimit) \subseteq DOMAIN orders
    BY DEF FirstK, Open
  <2>2. \A row \in T : Covers(row)
    BY <2>1 DEF Covers, BackInv, AmountsCover
  <2>3. UNCHANGED <<config, now, orders, chain, confirm>>
        /\ (watcher' = [pc |-> "sleep"] \/ watcher' = [pc |-> "next", todo |-> T])
    BY <1>1 DEF WatchScan
  <2> HIDE DEF T
  <2>4. ScanCovers'
    BY <2>2, <2>3 DEF ScanCovers, Covers
  <2>5. QED
    BY <2>3, <2>4, BackInvScan
<1>2. CASE \/ WatchOrderDone \/ WatchTickDone \/ WatchMatchFails
           \/ \E row \in ScannedRows : WatchFetchFails(row)
  <2>1. UNCHANGED <<config, now, orders, chain, confirm>>
    BY <1>2 DEF WatchOrderDone, WatchTickDone, WatchMatchFails, WatchFetchFails
  <2>2. \/ watcher' = [pc |-> "sleep"]
        \/ /\ watcher.pc \in {"next", "match", "confirm"}
           /\ \E T \in SUBSET watcher.todo : watcher' = [pc |-> "next", todo |-> T]
    <3>1. CASE WatchOrderDone \/ WatchMatchFails
      BY <3>1 DEF WatchOrderDone, WatchMatchFails
    <3>2. CASE WatchTickDone \/ \E row \in ScannedRows : WatchFetchFails(row)
      BY <3>2 DEF WatchTickDone, WatchFetchFails
    <3>3. QED
      BY <1>2, <3>1, <3>2
  <2>3. ScanCovers'
    BY <2>1, <2>2 DEF BackInv, ScanCovers, Covers
  <2>4. QED
    BY <2>1, <2>3, BackInvScan
<1>3. QED
  BY <1>1, <1>2, BackInvSweep, BackInvFetch, BackInvMatch DEF WatchStep

\* A timer arms only in development, where no transfer is asked for.
LEMMA BackInvFailure ==
    ASSUME TypeInv, ClaimInv, BackInv,
           \/ WatcherCrash \/ ApiCrash
           \/ \E id \in OrderIds : ConfirmFails(id) \/ TimerFires(id)
    PROVE  BackInv'
<1>1. UNCHANGED <<config, now, orders, chain>> /\ TermsKept /\ now \in Nat
  BY DEF WatcherCrash, ApiCrash, ConfirmFails, TimerFires, TermsKept, TypeInv, TypeOK
<1>2. ScanCovers'
  <2>1. CASE WatcherCrash
    BY <2>1 DEF WatcherCrash, ScanCovers
  <2>2. CASE UNCHANGED watcher
    BY <1>1, <2>2, ScanKept DEF BackInv
  <2>3. QED
    BY <2>1, <2>2 DEF ApiCrash, ConfirmFails, TimerFires
<1>3. ASSUME NEW id \in OrderIds PROVE ConfirmBacked(id)'
  <2>1. CASE WatcherCrash \/ ApiCrash
    <3>1. confirm'[id] = confirm[id] \/ confirm'[id].pc = "idle"
      BY <2>1 DEF WatcherCrash, ApiCrash, Idle
    <3>2. QED
      BY <1>1, <3>1, ConfirmKept DEF BackInv
  <2>2. ASSUME NEW j \in OrderIds, ConfirmFails(j) \/ TimerFires(j)
        PROVE  ConfirmBacked(id)'
    <3>1. \/ confirm'[id] = confirm[id] \/ confirm'[id].pc = "idle"
          \/ TimerFires(j) /\ confirm'[id].pc = "read"
      BY <2>2, ConfirmedAlone DEF ConfirmFails, TimerFires, Idle
    <3>2. CASE confirm'[id] = confirm[id] \/ confirm'[id].pc = "idle"
      BY <1>1, <3>2, ConfirmKept DEF BackInv
    <3>3. CASE TimerFires(j) /\ confirm'[id].pc = "read"
      <4>1. DevAutoConfirm'
        BY <1>1, <3>3 DEF TimerFires, ClaimInv, DevAutoConfirm
      <4>2. QED
        BY <3>3, <4>1 DEF ConfirmBacked
    <3>4. QED
      BY <3>1, <3>2, <3>3
  <2>3. QED
    BY <2>1, <2>2
<1>4. QED
  BY <1>1, <1>2, <1>3, BackInvStill

LEMMA BackInvWorld ==
    ASSUME TypeInv, BackInv,
           \/ \E to \in {orders[id].index : id \in DOMAIN orders},
                 amount \in Amounts : Pay(to, amount)
           \/ Tick
           \/ UNCHANGED vars
    PROVE  BackInv'
<1>1. UNCHANGED <<config, orders, watcher, confirm>> /\ now \in Nat /\ chain \in Seq(Transfer)
  BY DEF Pay, Tick, vars, TypeInv, TypeOK
<1>2. \/ /\ now' = now
         /\ \E transfer : chain' = Append(chain, transfer) /\ transfer.ts = now
      \/ UNCHANGED chain /\ now' \in {now, now + 1}
  <2>1. ASSUME NEW to, NEW amount, Pay(to, amount)
        PROVE  now' = now /\ \E transfer : chain' = Append(chain, transfer)
                                          /\ transfer.ts = now
    <3>1. [to |-> to, amount |-> amount, ts |-> now].ts = now
      OBVIOUS
    <3>2. QED
      BY <2>1, <3>1 DEF Pay
  <2>2. CASE Tick \/ UNCHANGED vars
    BY <2>2 DEF Tick, vars
  <2>3. QED
    BY <2>1, <2>2
<1>3. TermsKept
  BY <1>1, <1>2 DEF TermsKept
<1>4. ChainPast'
  <2>1. \A n \in DOMAIN chain : chain[n].ts \in Nat /\ chain[n].ts <= now
    <3>1. \A n \in DOMAIN chain : chain[n] \in Transfer
      BY <1>1
    <3>2. QED
      BY <3>1 DEF BackInv, ChainPast, Transfer
  <2>2. CASE UNCHANGED chain /\ now' \in {now, now + 1}
    BY <1>1, <2>1, <2>2 DEF ChainPast
  <2>3. ASSUME NEW transfer, chain' = Append(chain, transfer), transfer.ts = now, now' = now
        PROVE  ChainPast'
    <3>1. \A n \in DOMAIN chain' : \/ n \in DOMAIN chain /\ chain'[n] = chain[n]
                                   \/ chain'[n] = transfer
      BY <1>1, <2>3
    <3>2. QED
      BY <1>1, <2>1, <2>3, <3>1 DEF ChainPast
  <2>4. QED
    BY <1>2, <2>2, <2>3
<1>5. AmountsCover' /\ PaidIsBacked' /\ ScanCovers'
  BY <1>1, <1>3, PaidKept, ScanKept DEF BackInv, AmountsCover
<1>6. \A id \in OrderIds : ConfirmBacked(id)'
  BY <1>1, <1>3, ConfirmKept DEF BackInv
<1>7. QED
  BY <1>4, <1>5, <1>6 DEF BackInv

LEMMA BackInvNext == TypeInv /\ ClaimInv /\ BackInv /\ [Next]_vars => BackInv'
  BY BackInvRequest, BackInvConfirmStill, BackInvExpire, BackInvPay, BackInvWatch,
     BackInvFailure, BackInvWorld DEF Next, ConfirmStep, Failure

\* An order that carries a transaction hash was confirmed before it expired, by
\* a transfer of at least its price to its own address, no earlier than the
\* grace period before it; or, in development, by its own timer.  It holds for
\* every price list, page size and clock, whatever fails or crashes.
THEOREM PaymentsAreBacked == Spec => []PaidIsBacked
<1>1. BackInv => PaidIsBacked
  BY DEF BackInv
<1>2. QED
  BY <1>1, BackInvInit, BackInvNext, TypeInvariant, ClaimInvariant, PTL DEF Spec
-----------------------------------------------------------------------------
(* The limit of pending orders.  A creation that has counted but not yet      *)
(* inserted takes a place, so that open orders and creations in flight        *)
(* together stay within the bound: only the count lets one more begin.        *)

\* Creations of the user that have been counted and not yet inserted.
InFlight(u) ==
    {r \in Requests : requests[r].pc \in {"allocate", "insert"} /\ requests[r].user = u}

OvershootInv ==
    /\ IsFiniteSet(DOMAIN orders)
    /\ \A u \in Users :
        Cardinality(OpenOf(u)) + Cardinality(InFlight(u))
            <= MaxPending - 1 + Cardinality(Requests)

\* No order opens: rows are open, of a user, that were.
OpensNone ==
    /\ DOMAIN orders' = DOMAIN orders
    /\ \A u \in Users : OpenOf(u)' \subseteq OpenOf(u)

BeginsNone == \A u \in Users : InFlight(u)' \subseteq InFlight(u)

LEMMA Counts ==
    ASSUME IsFiniteSet(DOMAIN orders), NEW u
    PROVE  /\ IsFiniteSet(OpenOf(u)) /\ Cardinality(OpenOf(u)) \in Nat
           /\ IsFiniteSet(InFlight(u)) /\ Cardinality(InFlight(u)) \in Nat
           /\ Cardinality(InFlight(u)) <= Cardinality(Requests)
           /\ Cardinality(Requests) \in Nat /\ MaxPending \in Nat
<1>1. OpenOf(u) \in SUBSET DOMAIN orders /\ InFlight(u) \in SUBSET Requests
  BY DEF OpenOf, Open, InFlight
<1>2. QED
  BY <1>1, RequestsAssumption, LimitsAssumption, FS_Subset, FS_CardinalityType

LEMMA OvershootShrinks ==
    ASSUME OvershootInv, OpensNone, BeginsNone
    PROVE  OvershootInv'
<1>1. IsFiniteSet(DOMAIN orders)
  BY DEF OvershootInv
<1>2. ASSUME NEW u \in Users
      PROVE  (Cardinality(OpenOf(u)) + Cardinality(InFlight(u))
                <= MaxPending - 1 + Cardinality(Requests))'
  <2>1. OpenOf(u)' \in SUBSET OpenOf(u) /\ InFlight(u)' \in SUBSET InFlight(u)
    BY DEF OpensNone, BeginsNone
  <2>2. /\ Cardinality(OpenOf(u)') <= Cardinality(OpenOf(u))
        /\ Cardinality(InFlight(u)') <= Cardinality(InFlight(u))
        /\ Cardinality(OpenOf(u)') \in Nat /\ Cardinality(InFlight(u)') \in Nat
    BY <1>1, <2>1, Counts, FS_Subset, FS_CardinalityType
  <2>3. Cardinality(OpenOf(u)) + Cardinality(InFlight(u))
            <= MaxPending - 1 + Cardinality(Requests)
    BY DEF OvershootInv
  <2>4. QED
    BY <1>1, <2>2, <2>3, Counts
<1>3. QED
  BY <1>1, <1>2 DEF OvershootInv, OpensNone

\* The count lets a creation begin only below the limit.
LEMMA OvershootCount ==
    ASSUME TypeInv, OvershootInv, NEW r \in Requests, NEW u \in Users, NEW p \in Plans,
           CreateCount(r, u, p)
    PROVE  OvershootInv'
<1>1. /\ UNCHANGED <<now, orders>> /\ UnderLimit(u)
      /\ requests' = [requests EXCEPT ![r] = [pc |-> "allocate", user |-> u, plan |-> p]]
  BY DEF CreateCount, SetRequest
<1>2. IsFiniteSet(DOMAIN orders) /\ IsFiniteSet(DOMAIN orders)'
  BY <1>1 DEF OvershootInv
<1>3. \A v \in Users : OpenOf(v)' = OpenOf(v)
  BY <1>1 DEF OpenOf, Open, IsPending, Due
<1>4. ASSUME NEW v \in Users
      PROVE  Cardinality(OpenOf(v)') + Cardinality(InFlight(v)')
                <= MaxPending - 1 + Cardinality(Requests)
  <2>1. CASE v = u
    <3>1. Cardinality(OpenOf(u)') <= MaxPending - 1
      BY <1>1, <1>2, <1>3, Counts DEF UnderLimit
    <3>2. /\ Cardinality(InFlight(u)') <= Cardinality(Requests)
          /\ Cardinality(InFlight(u)') \in Nat
      <4>1. InFlight(u)' \in SUBSET Requests
        BY DEF InFlight
      <4>2. QED
        BY <4>1, RequestsAssumption, FS_Subset, FS_CardinalityType
    <3>3. QED
      BY <1>2, <1>3, <2>1, <3>1, <3>2, Counts
  <2>2. CASE v # u
    <3>1. InFlight(v)' \in SUBSET InFlight(v)
      BY <1>1, <2>2 DEF InFlight, TypeInv, TypeOK
    <3>2. /\ Cardinality(InFlight(v)') <= Cardinality(InFlight(v))
          /\ Cardinality(InFlight(v)') \in Nat
      BY <1>2, <3>1, Counts, FS_Subset, FS_CardinalityType
    <3>3. Cardinality(OpenOf(v)) + Cardinality(InFlight(v))
            <= MaxPending - 1 + Cardinality(Requests)
      BY DEF OvershootInv
    <3>4. QED
      BY <1>2, <1>3, <3>2, <3>3, Counts
  <2>3. QED
    BY <2>1, <2>2
<1>5. QED
  BY <1>2, <1>4 DEF OvershootInv

\* The insert turns a creation in flight into an open order.
LEMMA OvershootInsert ==
    ASSUME TypeInv, OvershootInv, NEW r \in Requests, NEW id \in OrderIds,
           InsertOrder(r, id)
    PROVE  OvershootInv'
<1>1. /\ requests[r].pc = "insert" /\ id \notin DOMAIN orders /\ now' = now
      /\ DOMAIN orders' = DOMAIN orders \cup {id}
      /\ orders'[id] = Inserted(requests[r])
      /\ \A j \in DOMAIN orders : orders'[j] = orders[j]
  BY DEF InsertOrder
<1>2. /\ requests'[r].pc \in {"idle", "exact"}
      /\ \A q \in Requests : q # r => requests'[q] = requests[q]
  BY DEF InsertOrder, SetRequest, Idle, TypeInv, TypeOK
<1>3. IsFiniteSet(DOMAIN orders) /\ IsFiniteSet(DOMAIN orders)'
  BY <1>1, FS_AddElement DEF OvershootInv
<1>4. orders'[id].user = requests[r].user
  BY <1>1 DEF Inserted
<1>5. ASSUME NEW v \in Users
      PROVE  Cardinality(OpenOf(v)') + Cardinality(InFlight(v)')
                <= MaxPending - 1 + Cardinality(Requests)
  <2>0. Cardinality(OpenOf(v)) + Cardinality(InFlight(v))
            <= MaxPending - 1 + Cardinality(Requests)
    BY DEF OvershootInv
  <2>1. CASE v = requests[r].user
    <3>1. OpenOf(v)' \in SUBSET (OpenOf(v) \cup {id})
      BY <1>1 DEF OpenOf, Open, IsPending, Due
    <3>2. InFlight(v)' = InFlight(v) \ {r} /\ r \in InFlight(v)
      BY <1>1, <1>2, <2>1 DEF InFlight
    <3>3. /\ Cardinality(OpenOf(v)') <= Cardinality(OpenOf(v)) + 1
          /\ Cardinality(OpenOf(v)') \in Nat
      <4>1. /\ IsFiniteSet(OpenOf(v) \cup {id})
            /\ Cardinality(OpenOf(v) \cup {id}) <= Cardinality(OpenOf(v)) + 1
            /\ Cardinality(OpenOf(v) \cup {id}) \in Nat
        BY <1>3, Counts, FS_AddElement
      <4>2. /\ Cardinality(OpenOf(v)') <= Cardinality(OpenOf(v) \cup {id})
            /\ Cardinality(OpenOf(v)') \in Nat
        BY <3>1, <4>1, FS_Subset, FS_CardinalityType
      <4>3. QED
        BY <1>3, <4>1, <4>2, Counts
    <3>4. Cardinality(InFlight(v)') = Cardinality(InFlight(v)) - 1
      BY <1>3, <3>2, Counts, FS_RemoveElement
    <3>5. QED
      BY <1>3, <2>0, <3>3, <3>4, Counts
  <2>2. CASE v # requests[r].user
    <3>1. OpenOf(v)' = OpenOf(v)
      BY <1>1, <1>4, <2>2 DEF OpenOf, Open, IsPending, Due
    <3>2. InFlight(v)' = InFlight(v)
      BY <1>1, <1>2, <2>2 DEF InFlight
    <3>3. QED
      BY <2>0, <3>1, <3>2
  <2>3. QED
    BY <2>1, <2>2
<1>6. QED
  BY <1>3, <1>5 DEF OvershootInv

\* Rows of which no more are open than before.
LEMMA NoneOpens ==
    ASSUME TypeInv, DOMAIN orders' = DOMAIN orders, now' \in {now, now + 1},
           \A id \in DOMAIN orders :
                /\ orders'[id].user = orders[id].user
                /\ orders'[id].expireAt = orders[id].expireAt
                /\ orders'[id].status = "pending" => orders[id].status = "pending"
    PROVE  OpensNone
<1>1. \A id \in DOMAIN orders : orders[id].expireAt \in Nat /\ now \in Nat
  BY DEF TypeInv, TypeOK, Order
<1>2. QED
  BY <1>1 DEF OpensNone, OpenOf, Open, IsPending, Due

LEMMA OpensRequest ==
    ASSUME TypeInv, NEW r \in Requests, RequestStep(r), ~\E id \in OrderIds : InsertOrder(r, id)
    PROVE  OpensNone
<1>1. now' = now /\ \A id \in DOMAIN orders : orders[id] \in Order
  BY DEF RequestStep, CreateCount, AllocateDepositAddress, SetExactAmount, ReadOrder,
         DecideOnOrder, WriteOrder, RequestFails, TypeInv, TypeOK
<1>2. CASE UNCHANGED orders
  BY <1>1, <1>2, NoneOpens
<1>3. ASSUME NEW id \in DOMAIN orders, NEW exact \in Nat,
             orders' = [orders EXCEPT ![id] = [orders[id] EXCEPT !.amount = exact]]
      PROVE  OpensNone
  <2>1. DOMAIN orders' = DOMAIN orders
        /\ \A j \in DOMAIN orders :
                /\ orders'[j].user = orders[j].user
                /\ orders'[j].expireAt = orders[j].expireAt
                /\ orders'[j].status = "pending" => orders[j].status = "pending"
    BY <1>1, <1>3 DEF Order
  <2>2. QED
    BY <1>1, <2>1, NoneOpens
<1>4. ASSUME NEW id \in DOMAIN orders, NEW s \in {"expired", "cancelled"},
             orders' = [orders EXCEPT ![id] = [orders[id] EXCEPT !.status = s]]
      PROVE  OpensNone
  <2>1. DOMAIN orders' = DOMAIN orders
        /\ \A j \in DOMAIN orders :
                /\ orders'[j].user = orders[j].user
                /\ orders'[j].expireAt = orders[j].expireAt
                /\ orders'[j].status = "pending" => orders[j].status = "pending"
    BY <1>1, <1>4 DEF Order
  <2>2. QED
    BY <1>1, <2>1, NoneOpens
<1>5. QED
  BY <1>2, <1>3, <1>4, RequestRows

LEMMA BeginsRequest ==
    ASSUME TypeInv, NEW r \in Requests, RequestStep(r),
           ~\E u \in Users, p \in Plans : CreateCount(r, u, p)
    PROVE  BeginsNone
<1>1. \A q \in Requests : q # r => requests'[q] = requests[q]
  BY DEF RequestStep, AllocateDepositAddress, InsertOrder, SetExactAmount, ReadOrder,
         DecideOnOrder, WriteOrder, RequestFails, SetRequest, TypeInv, TypeOK
<1>2. CASE AllocateDepositAddress(r)
  <2>1. PICK i : requests' = [requests EXCEPT ![r] =
            [pc |-> "insert", user |-> requests[r].user, plan |-> requests[r].plan,
             index |-> i]]
    BY <1>2 DEF AllocateDepositAddress, SetRequest
  <2>2. requests'[r].user = requests[r].user /\ requests[r].pc = "allocate"
    BY <1>2, <2>1 DEF AllocateDepositAddress, TypeInv, TypeOK
  <2>3. QED
    BY <1>1, <2>2 DEF BeginsNone, InFlight
<1>3. CASE ~AllocateDepositAddress(r)
  <2>1. requests'[r].pc \notin {"allocate", "insert"}
    <3>0. requests \in [Requests -> Request]
      BY DEF TypeInv, TypeOK
    <3>1. ASSUME NEW state, SetRequest(r, state)
          PROVE  requests'[r] = state
      BY <3>0, <3>1 DEF SetRequest
    <3>2. Idle.pc \notin {"allocate", "insert"}
      BY DEF Idle
    <3>3. ASSUME NEW id \in OrderIds, InsertOrder(r, id)
          PROVE  requests'[r].pc \notin {"allocate", "insert"}
      <4>1. [pc |-> "exact", id |-> id].pc = "exact"
        OBVIOUS
      <4>2. SetRequest(r, [pc |-> "exact", id |-> id]) \/ SetRequest(r, Idle)
        BY <3>3 DEF InsertOrder
      <4>3. QED
        BY <4>1, <4>2, <3>1, <3>2
    <3>4. CASE SetExactAmount(r) \/ WriteOrder(r) \/ RequestFails(r)
      <4>1. SetRequest(r, Idle)
        BY <3>4 DEF SetExactAmount, WriteOrder, RequestFails
      <4>2. QED
        BY <4>1, <3>1, <3>2
    <3>5. ASSUME NEW id, NEW op \in {"get", "cancel"}, ReadOrder(r, id, op)
          PROVE  requests'[r].pc \notin {"allocate", "insert"}
      <4>1. [pc |-> op, id |-> id].pc = op
        OBVIOUS
      <4>2. SetRequest(r, [pc |-> op, id |-> id])
        BY <3>5 DEF ReadOrder
      <4>3. QED
        BY <4>1, <4>2, <3>1
    <3>6. CASE DecideOnOrder(r)
      <4>1. PICK id : \/ SetRequest(r, [pc |-> "expireWrite", id |-> id])
                      \/ SetRequest(r, [pc |-> "cancelWrite", id |-> id])
                      \/ SetRequest(r, Idle)
        BY <3>6 DEF DecideOnOrder
      <4>2. /\ [pc |-> "expireWrite", id |-> id].pc = "expireWrite"
            /\ [pc |-> "cancelWrite", id |-> id].pc = "cancelWrite"
        OBVIOUS
      <4>3. QED
        BY <4>1, <4>2, <3>1, <3>2
    <3>7. QED
      BY <1>3, <3>3, <3>4, <3>5, <3>6 DEF RequestStep
  <2>2. QED
    BY <1>1, <2>1 DEF BeginsNone, InFlight
<1>4. QED
  BY <1>2, <1>3

LEMMA OpensElsewhere ==
    ASSUME TypeInv, [Next]_vars, ~\E r \in Requests : RequestStep(r)
    PROVE  OpensNone
<1>0. \A id \in DOMAIN orders : orders[id] \in Order
  BY DEF TypeInv, TypeOK
<1>1. CASE WatchSweep
  <2>1. now' = now /\ DOMAIN orders' = DOMAIN orders
        /\ \A j \in DOMAIN orders :
                /\ orders'[j].user = orders[j].user
                /\ orders'[j].expireAt = orders[j].expireAt
                /\ orders'[j].status = "pending" => orders[j].status = "pending"
    BY <1>0, <1>1 DEF WatchSweep, Order
  <2>2. QED
    BY <2>1, NoneOpens
<1>2. ASSUME NEW id \in OrderIds, ConfirmExpire(id) \/ ConfirmPay(id)
      PROVE  OpensNone
  <2>1. id \in DOMAIN orders /\ now' = now
    BY <1>2 DEF ConfirmExpire, ConfirmPay, TypeInv, RefsExist, ConfirmRefs
  <2>2. PICK row : orders' = [orders EXCEPT ![id] = row] /\ row.status # "pending"
                   /\ row.user = orders[id].user /\ row.expireAt = orders[id].expireAt
    <3>1. /\ [orders[id] EXCEPT !.status = "expired"].status = "expired"
          /\ [orders[id] EXCEPT !.status = "expired"].user = orders[id].user
          /\ [orders[id] EXCEPT !.status = "expired"].expireAt = orders[id].expireAt
      BY <1>0, <2>1 DEF Order
    <3>2. LET paid == Paid(orders[id], confirm[id].tx, confirm[id].at)
          IN  /\ paid.status = "paid" /\ paid.user = orders[id].user
              /\ paid.expireAt = orders[id].expireAt
      BY <1>0, <2>1 DEF Paid, Order
    <3>3. \/ orders' = [orders EXCEPT ![id] = [orders[id] EXCEPT !.status = "expired"]]
          \/ orders' = [orders EXCEPT ![id] = Paid(orders[id], confirm[id].tx, confirm[id].at)]
      BY <1>2 DEF ConfirmExpire, ConfirmPay, SetStatus
    <3>4. QED
      BY <3>1, <3>2, <3>3
  <2>3. DOMAIN orders' = DOMAIN orders
        /\ \A j \in DOMAIN orders :
                /\ orders'[j].user = orders[j].user
                /\ orders'[j].expireAt = orders[j].expireAt
                /\ orders'[j].status = "pending" => orders[j].status = "pending"
    BY <2>1, <2>2
  <2>4. QED
    BY <2>1, <2>3, NoneOpens
<1>3. CASE UNCHANGED orders /\ now' \in {now, now + 1}
  BY <1>3, NoneOpens
<1>4. CASE ~WatchSweep /\ ~\E id \in OrderIds : ConfirmExpire(id) \/ ConfirmPay(id)
  <2>1. UNCHANGED orders /\ now' \in {now, now + 1}
    BY <1>4 DEF Next, ConfirmStep, ConfirmRead, ConfirmDecide, ConfirmNotify, ConfirmActivate,
       TimerFires, WatchStep, WatchScan, WatchOrderDone, WatchTickDone, WatchFetch,
       WatchMatch, Failure, WatcherCrash, WatchMatchFails, WatchFetchFails, ConfirmFails,
       ApiCrash, Pay, Tick, vars
  <2>2. QED
    BY <1>3, <2>1
<1>5. QED
  BY <1>1, <1>2, <1>4

LEMMA BeginsElsewhere ==
    ASSUME TypeInv, [Next]_vars, ~\E r \in Requests : RequestStep(r)
    PROVE  BeginsNone
<1>1. CASE ApiCrash
  BY <1>1 DEF ApiCrash, Idle, BeginsNone, InFlight
<1>2. CASE ~ApiCrash
  <2>1. UNCHANGED requests
    BY <1>2 DEF Next, ConfirmStep, ConfirmRead, ConfirmDecide, ConfirmExpire, ConfirmPay,
       ConfirmNotify, ConfirmActivate,
       TimerFires, WatchStep, WatchSweep, WatchScan, WatchOrderDone, WatchTickDone, WatchFetch,
       WatchMatch, Failure, WatcherCrash, WatchMatchFails, WatchFetchFails, ConfirmFails,
       Pay, Tick, vars
  <2>2. QED
    BY <2>1 DEF BeginsNone, InFlight
<1>3. QED
  BY <1>1, <1>2

LEMMA OvershootInit == Init => OvershootInv
<1> SUFFICES ASSUME Init PROVE OvershootInv
  OBVIOUS
<1>1. /\ DOMAIN orders = {}
      /\ \A u \in Users : OpenOf(u) = {} /\ InFlight(u) = {}
  BY DEF Init, Idle, OpenOf, Open, InFlight
<1>2. QED
  BY <1>1, Counts, LimitsAssumption, FS_EmptySet, FS_CardinalityType, RequestsAssumption
  DEF OvershootInv

LEMMA OvershootNext == TypeInv /\ OvershootInv /\ [Next]_vars => OvershootInv'
<1> SUFFICES ASSUME TypeInv, OvershootInv, [Next]_vars PROVE OvershootInv'
  OBVIOUS
<1>1. ASSUME NEW r \in Requests, RequestStep(r) PROVE OvershootInv'
  <2>1. CASE \E u \in Users, p \in Plans : CreateCount(r, u, p)
    BY <2>1, OvershootCount
  <2>2. CASE \E id \in OrderIds : InsertOrder(r, id)
    BY <2>2, OvershootInsert
  <2>3. CASE /\ ~\E u \in Users, p \in Plans : CreateCount(r, u, p)
             /\ ~\E id \in OrderIds : InsertOrder(r, id)
    BY <1>1, <2>3, OpensRequest, BeginsRequest, OvershootShrinks
  <2>4. QED
    BY <2>1, <2>2, <2>3
<1>2. CASE ~\E r \in Requests : RequestStep(r)
  BY <1>2, OpensElsewhere, BeginsElsewhere, OvershootShrinks
<1>3. QED
  BY <1>1, <1>2

\* Creations that counted before others inserted can exceed the limit of pending
\* orders by no more than the requests in flight, for any number of requests and
\* users, however they interleave, fail and crash.
THEOREM OvershootIsBounded == Spec => []PendingOvershootBounded
<1>1. OvershootInv => PendingOvershootBounded
  <2>1. ASSUME OvershootInv, NEW u \in Users
        PROVE  Cardinality(OpenOf(u)) <= MaxPending - 1 + Cardinality(Requests)
    <3>1. IsFiniteSet(DOMAIN orders)
          /\ Cardinality(OpenOf(u)) + Cardinality(InFlight(u))
                <= MaxPending - 1 + Cardinality(Requests)
      BY <2>1 DEF OvershootInv
    <3>2. QED
      BY <3>1, Counts
  <2>2. QED
    BY <2>1 DEF PendingOvershootBounded
<1>2. QED
  BY <1>1, OvershootInit, OvershootNext, TypeInvariant, PTL DEF Spec
=============================================================================
