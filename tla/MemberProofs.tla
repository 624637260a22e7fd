---------------------------- MODULE MemberProofs ----------------------------
(***************************************************************************)
(* Proofs about the services beside the memberships, for any constants and *)
(* any number of calls in progress at once: the record of a transaction,   *)
(* support and resistance levels, the limit on a client's requests, and the *)
(* lights of the market brief.                                             *)
(***************************************************************************)
EXTENDS MemberServices, MembershipsProofs, FiniteSetTheorems, WellFoundedInduction

-----------------------------------------------------------------------------
-----------------------------------------------------------------------------
(* The record of a transaction *)

\* What a post in one of the two forms writes.
Said == {Chain!ValuesOf(p) : p \in Posts}

\* A post about to update read a row of its user, who still owns it.
Reads(q) ==
    /\ q.values \in Said
    /\ q.pc = "update" => /\ q.read.values \in Said
                          /\ chainOrder # None
                          /\ chainOrder.user = q.user

OrderInv ==
    /\ Chain!TypeOK
    /\ chainOrder # None => chainOrder.values \in Said
    /\ \A r \in Requests : posts[r].pc # "idle" => Reads(posts[r])

LEMMA SaidTyped == ASSUME NEW v \in Said PROVE v \in Chain!Values
<1>1. PICK p \in Posts : v = Chain!ValuesOf(p)
  BY DEF Said
<1>2. p \in Chain!Post /\ Chain!StatusOf(p) \in Chain!Status
  <2>1. p \in Chain!Post
    BY PostsAssumption
  <2>2. p.txStatus \in Chain!Status \cup {None}
    BY <2>1 DEF Chain!Post
  <2>3. QED
    BY <2>1, <2>2 DEF Chain!StatusOf, Chain!Status
<1>3. QED
  BY <1>1, <1>2 DEF Chain!ValuesOf, Chain!Values, Chain!Post

\* Of three values out of two, a stale update that writes the columns in which the last
\* differs from the second leaves the first or makes it the last.
LEMMA MergedIsOne ==
    ASSUME NEW stored \in Said, NEW read \in Said, NEW new \in Said
    PROVE  [txStatus |-> Chain!Merged(stored.txStatus, read.txStatus, new.txStatus),
            receipt |-> Chain!Merged(stored.receipt, read.receipt, new.receipt),
            block |-> Chain!Merged(stored.block, read.block, new.block)] \in {stored, new}
<1> DEFINE written == [txStatus |-> Chain!Merged(stored.txStatus, read.txStatus, new.txStatus),
                      receipt |-> Chain!Merged(stored.receipt, read.receipt, new.receipt),
                      block |-> Chain!Merged(stored.block, read.block, new.block)]
<1>1. stored \in Chain!Values /\ new \in Chain!Values
  BY SaidTyped
<1>2. new = read \/ stored = read \/ stored = new
  BY PostsAssumption DEF Said
<1>3. CASE new = read
  <2>1. written = [txStatus |-> stored.txStatus, receipt |-> stored.receipt, block |-> stored.block]
    BY <1>3 DEF Chain!Merged
  <2>2. written = stored
    BY <1>1, <2>1 DEF Chain!Values
  <2>3. QED
    BY <2>2
<1>4. CASE stored = read \/ stored = new
  <2>1. written = [txStatus |-> new.txStatus, receipt |-> new.receipt, block |-> new.block]
    BY <1>4 DEF Chain!Merged
  <2>2. written = new
    BY <1>1, <2>1 DEF Chain!Values
  <2>3. QED
    BY <2>2
<1>5. QED
  BY <1>2, <1>3, <1>4

LEMMA OrderInit == ASSUME Chain!Init PROVE OrderInv
<1>1. Chain!Idle \in Chain!Request /\ Chain!Idle.pc = "idle"
  BY DEF Chain!Idle, Chain!Request
<1>2. QED
  BY <1>1 DEF Chain!Init, OrderInv, Chain!TypeOK

\* An update of a request: the row that it makes.
LEMMA UpdatedRow ==
    ASSUME OrderInv, NEW r \in Requests, Chain!Update(r)
    PROVE  /\ chainOrder \in Chain!Row /\ chainOrder' \in Chain!Row
           /\ chainOrder'.user = chainOrder.user /\ chainOrder'.id = chainOrder.id
           /\ chainOrder'.values \in Said
<1> DEFINE q == posts[r]
<1>1. Reads(q) /\ chainOrder \in Chain!Row /\ chainOrder.values \in Said
  BY DEF Chain!Update, OrderInv, Chain!TypeOK, Reads
<1>2. q.values \in Said /\ q.read.values \in Said
  BY <1>1 DEF Reads, Chain!Update
<1> DEFINE written == [txStatus |-> Chain!Merged(chainOrder.values.txStatus, q.read.values.txStatus,
                                          q.values.txStatus),
                      receipt |-> Chain!Merged(chainOrder.values.receipt, q.read.values.receipt,
                                         q.values.receipt),
                      block |-> Chain!Merged(chainOrder.values.block, q.read.values.block,
                          q.values.block)]
<1>3. written \in Said
  BY <1>1, <1>2, MergedIsOne
<1>4. chainOrder' = [chainOrder EXCEPT !.values = written]
  BY <1>1 DEF Chain!Update, Chain!Overwritten, Chain!Row
<1>5. written \in Chain!Values
  BY <1>3, SaidTyped
<1> HIDE DEF written
<1>6. QED
  BY <1>1, <1>3, <1>4, <1>5 DEF Chain!Row

LEMMA OrderNext == ASSUME OrderInv, [Chain!Next]_(Chain!vars) PROVE OrderInv'
<1> USE DEF OrderInv, Chain!TypeOK
<1>1. Chain!Idle \in Chain!Request /\ Chain!Idle.pc = "idle"
  BY DEF Chain!Idle, Chain!Request
<1>2. ASSUME NEW r \in Requests, Chain!Receive(r) PROVE OrderInv'
  <2>1. PICK u \in Users, p \in Posts, id \in ChainIds :
          posts' = [posts EXCEPT ![r] = [pc |-> "find", user |-> u, id |-> id,
                                               values |-> Chain!ValuesOf(p)]]
    BY <1>2 DEF Chain!Receive
  <2> DEFINE q == [pc |-> "find", user |-> u, id |-> id, values |-> Chain!ValuesOf(p)]
  <2>2. Chain!ValuesOf(p) \in Said /\ Chain!ValuesOf(p) \in Chain!Values
    BY SaidTyped DEF Said
  <2>3. q \in Chain!Request
    BY <2>2 DEF Chain!Request
  <2>4. UNCHANGED chainOrder
    BY <1>2 DEF Chain!Receive
  <2>5. QED
    BY <2>1, <2>2, <2>3, <2>4 DEF Reads
<1>3. ASSUME NEW r \in Requests, Chain!Find(r) PROVE OrderInv'
  <2> DEFINE q == posts[r]
             update == [pc |-> "update", user |-> q.user, read |-> chainOrder, values |-> q.values]
             create == [q EXCEPT !.pc = "create"]
  <2>1. /\ q \in Chain!Request /\ q.pc = "find" /\ q.user \in Users /\ q.values \in Chain!Values
        /\ q.values \in Said /\ UNCHANGED chainOrder
    BY <1>3 DEF Chain!Find, Chain!Request, Reads
  <2>2. CASE Chain!Owns(q.user)
    <3>1. chainOrder \in Chain!Row /\ chainOrder.user = q.user
      BY <2>2 DEF Chain!Owns
    <3>2. update \in Chain!Request
      BY <2>1, <3>1 DEF Chain!Request
    <3>3. posts' = [posts EXCEPT ![r] = update]
      BY <1>3, <2>2 DEF Chain!Find
    <3>4. QED
      BY <2>1, <3>1, <3>2, <3>3, PostsAssumption DEF Reads
  <2>3. CASE ~Chain!Owns(q.user)
    <3>1. create \in Chain!Request /\ create.pc = "create" /\ create.values = q.values
      BY <2>1 DEF Chain!Request
    <3>2. posts' = [posts EXCEPT ![r] = create]
      BY <1>3, <2>3 DEF Chain!Find
    <3>3. QED
      BY <2>1, <3>1, <3>2 DEF Reads
  <2>4. QED
    BY <2>2, <2>3
<1>4. ASSUME NEW r \in Requests, Chain!Create(r) PROVE OrderInv'
  <2> DEFINE q == posts[r]
  <2>1. q.user \in Users /\ q.id \in ChainIds /\ q.values \in Chain!Values /\ q.values \in Said
    BY <1>4 DEF Chain!Create, Chain!Request, Reads
  <2>2. CASE chainOrder = None
    <3>1. chainOrder' = [user |-> q.user, id |-> q.id, values |-> q.values]
      BY <1>4, <2>2 DEF Chain!Create
    <3>2. chainOrder' \in Chain!Row /\ chainOrder'.values \in Said
      BY <2>1, <3>1 DEF Chain!Row
    <3>3. posts' = [posts EXCEPT ![r] = Chain!Idle]
      BY <1>4 DEF Chain!Create
    <3>4. \A p \in Requests : posts[p].pc # "idle" => posts[p].pc # "update"
      BY <2>2 DEF Reads
    <3>5. QED
      BY <1>1, <3>2, <3>3, <3>4 DEF Reads
  <2>3. CASE chainOrder # None
    BY <1>1, <1>4, <2>3 DEF Chain!Create, Reads
  <2>4. QED
    BY <2>2, <2>3
<1>5. ASSUME NEW r \in Requests, Chain!Update(r) PROVE OrderInv'
  <2>1. /\ chainOrder' \in Chain!Row /\ chainOrder'.user = chainOrder.user
        /\ chainOrder'.values \in Said
    BY <1>5, UpdatedRow
  <2>2. posts' = [posts EXCEPT ![r] = Chain!Idle]
    BY <1>5 DEF Chain!Update
  <2>3. chainOrder' # None
    BY <2>1, PostsAssumption
  <2>4. QED
    BY <1>1, <2>1, <2>2, <2>3 DEF Reads
<1>6. ASSUME NEW r \in Requests, Chain!RequestFails(r) PROVE OrderInv'
  BY <1>1, <1>6 DEF Chain!RequestFails, Reads
<1>7. CASE UNCHANGED Chain!vars
  BY <1>7 DEF Chain!vars, Reads
<1>8. QED
  BY <1>2, <1>3, <1>4, <1>5, <1>6, <1>7 DEF Chain!Next

LEMMA OrderStep ==
    ASSUME OrderInv, [Chain!Next]_(Chain!vars)
    PROVE  Chain!OrderSaysOnePostStep
<1> SUFFICES ASSUME chainOrder' # chainOrder
             PROVE  /\ chainOrder # None =>
                        chainOrder'.user = chainOrder.user /\ chainOrder'.id = chainOrder.id
                    /\ \E p \in Posts : chainOrder'.values = Chain!ValuesOf(p)
  BY DEF Chain!OrderSaysOnePostStep
<1>1. ASSUME NEW r \in Requests, Chain!Create(r)
      PROVE chainOrder = None /\ chainOrder'.values \in Said
  <2>1. chainOrder = None /\ chainOrder' = [user |-> posts[r].user, id |-> posts[r].id,
                                     values |-> posts[r].values]
    BY <1>1 DEF Chain!Create
  <2>2. posts[r].values \in Said
    BY <1>1 DEF Chain!Create, OrderInv, Reads
  <2>3. QED
    BY <2>1, <2>2
<1>2. ASSUME NEW r \in Requests, Chain!Update(r)
      PROVE chainOrder'.user = chainOrder.user /\ chainOrder'.id = chainOrder.id
            /\ chainOrder'.values \in Said
  BY <1>2, UpdatedRow
<1>3. \E r \in Requests : Chain!Create(r) \/ Chain!Update(r)
  BY DEF Chain!Next, Chain!vars, Chain!Receive, Chain!Find, Chain!RequestFails
<1>4. QED
  BY <1>1, <1>2, <1>3 DEF Said

LEMMA OrderInvariant == Chain!Spec => []OrderInv
<1>1. Chain!Init => OrderInv
  BY OrderInit
<1>2. OrderInv /\ [Chain!Next]_(Chain!vars) => OrderInv'
  BY OrderNext
<1>3. QED
  BY <1>1, <1>2, PTL DEF Chain!Spec

\* Posts of two forms may be repeated, overlapped and delivered in any order: the row never
\* mixes the columns of both, and keeps its owner and order id (upsertFromChainTx).
THEOREM RowSaysOnePost == Chain!Spec => Chain!OrderSaysOnePost
<1>1. OrderInv /\ [Chain!Next]_(Chain!vars) => Chain!OrderSaysOnePostStep
  BY OrderStep
<1>2. QED
  BY <1>1, OrderInvariant, PTL DEF Chain!Spec, Chain!OrderSaysOnePost

-----------------------------------------------------------------------------
-----------------------------------------------------------------------------
(* Support and resistance levels *)

LEMMA CloseSelf == \A a \in Positive : Levels!IsClose(a, a)
  BY DEF Levels!IsClose, Levels!Distance, Positive

LEMMA CloseSymmetric == \A a, b \in Positive : Levels!IsClose(a, b) <=> Levels!IsClose(b, a)
  BY DEF Levels!IsClose, Levels!Distance, Positive

\* What is too far from a level is too far from those below it.
LEMMA FartherApart ==
    ASSUME NEW l \in Positive, NEW b \in Positive, NEW c \in Positive, l <= b, b <= c,
           ~Levels!IsClose(l, b)
    PROVE  l < b /\ ~Levels!IsClose(l, c)
  BY DEF Levels!IsClose, Levels!Distance, Positive

\* The running average stays between the bucket and the level absorbed, and near it.
LEMMA MeanBetween ==
    ASSUME NEW b \in Positive, NEW n \in Positive, b <= n
    PROVE  /\ (b + n) \div 2 \in Positive
           /\ b <= (b + n) \div 2 /\ (b + n) \div 2 <= n
  BY DEF Positive

LEMMA MeanIsClose ==
    ASSUME NEW b \in Positive, NEW n \in Positive, NEW m \in Positive, b <= m, m <= n,
           Levels!IsClose(b, n)
    PROVE  Levels!IsClose(m, n)
  BY DEF Levels!IsClose, Levels!Distance, Positive

\* A pivot is one of the bars, and prices are positive.
LEMMA PivotsPositive ==
    ASSUME NEW b \in Inputs
    PROVE  /\ Levels!PivotLows(b) \subseteq DOMAIN b /\ Levels!PivotHighs(b) \subseteq DOMAIN b
           /\ \A i \in DOMAIN b : b[i].low \in Positive /\ b[i].high \in Positive
<1>1. b \in Seq([high : Positive, low : Positive, close : Positive])
  BY InputsAssumption
<1>2. Levels!Inner(b) \subseteq 1..Len(b)
  BY <1>1, InputsAssumption DEF Levels!Inner
<1>3. \A i \in 1..Len(b) : b[i].low \in Positive /\ b[i].high \in Positive
  <2> DEFINE Bar == [high : Positive, low : Positive, close : Positive]
  <2>1. \A x \in Bar : x.low \in Positive /\ x.high \in Positive
    OBVIOUS
  <2>2. b \in Seq(Bar)
    BY <1>1
  <2> HIDE DEF Bar
  <2>3. \A i \in 1..Len(b) : b[i] \in Bar
    BY <2>2
  <2>4. QED
    BY <2>1, <2>3
<1>4. DOMAIN b = 1..Len(b)
  BY <1>1
<1>5. QED
  BY <1>2, <1>3, <1>4 DEF Levels!PivotLows, Levels!PivotHighs

Pivots == IF side = "supports" THEN Levels!PivotLows(bars) ELSE Levels!PivotHighs(bars)

\* Near a pivot of the side being merged.
Near(l) == \E p \in Pivots : Levels!IsClose(l, Levels!Level(p))

\* The bucket is near a pivot and not above those not seen yet; what was pushed lies below
\* it, too far to be merged.
BucketInv ==
    /\ todo \subseteq Pivots
    /\ merged \subseteq Positive
    /\ bucket = NoLevel => merged = {}
    /\ bucket # NoLevel => /\ bucket \in Positive
                           /\ Near(bucket)
                           /\ \A i \in todo : bucket <= Levels!Level(i)
                           /\ \A l \in merged : l < bucket /\ ~Levels!IsClose(l, bucket)
    /\ Levels!Apart(merged)
    /\ \A l \in merged : Near(l)

LevelInv == Levels!TypeOK /\ BucketInv /\ Levels!LevelsAreReal

\* Once the bucket is pushed.
All == merged \cup ({bucket} \ {NoLevel})

LEMMA PivotsArePositive ==
    ASSUME LevelInv PROVE \A p \in Pivots : p \in DOMAIN bars /\ Levels!Level(p) \in Positive
  BY PivotsPositive DEF LevelInv, Levels!TypeOK, Pivots, Levels!Level

LEMMA AllReal ==
    ASSUME LevelInv
    PROVE  All \subseteq Positive /\ Levels!Apart(All) /\ \A l \in All : Near(l)
<1>1. All \subseteq Positive
  BY DEF LevelInv, BucketInv, All
<1>2. Levels!Apart(All)
  <2> SUFFICES ASSUME NEW l \in All, NEW m \in All, Levels!IsClose(l, m) PROVE l = m
    BY DEF Levels!Apart
  <2>1. CASE l \in merged /\ m \in merged
    BY <2>1 DEF LevelInv, BucketInv, Levels!Apart
  <2>2. CASE l \in merged /\ m \notin merged
    BY <2>2 DEF LevelInv, BucketInv, All
  <2>3. CASE l \notin merged /\ m \in merged
    <3>1. Levels!IsClose(m, l)
      BY <1>1, CloseSymmetric
    <3>2. QED
      BY <2>3, <3>1 DEF LevelInv, BucketInv, All
  <2>4. CASE l \notin merged /\ m \notin merged
    BY <2>4 DEF All
  <2>5. QED
    BY <2>1, <2>2, <2>3, <2>4
<1>3. \A l \in All : Near(l)
  BY DEF LevelInv, BucketInv, All
<1>4. QED
  BY <1>1, <1>2, <1>3

LEMMA LevelInit == ASSUME Levels!Init PROVE LevelInv
<1>1. bars \in Inputs /\ side = "supports" /\ todo = Pivots /\ bucket = NoLevel /\ merged = {}
      /\ levels = [supports |-> {}, resistances |-> {}]
  BY DEF Levels!Init, Pivots
<1>2. todo \subseteq DOMAIN bars
  BY <1>1, PivotsPositive DEF Pivots
<1>3. Levels!TypeOK
  BY <1>1, <1>2 DEF Levels!TypeOK
<1>4. BucketInv
  BY <1>1 DEF BucketInv, Levels!Apart
<1>5. Levels!LevelsAreReal
  BY <1>1 DEF Levels!LevelsAreReal, Levels!Apart
<1>6. QED
  BY <1>3, <1>4, <1>5 DEF LevelInv

\* While the bars and the side stay, so do the pivots and what is near them.
LEMMA SidePivots ==
    ASSUME bars' = bars, side' = side
    PROVE  /\ Pivots' = Pivots
           /\ \A i : Levels!Level(i)' = Levels!Level(i)
           /\ \A l : Near(l)' <=> Near(l)
<1>1. Pivots' = Pivots
  BY DEF Pivots, Levels!PivotLows, Levels!PivotHighs, Levels!Inner, Levels!IsLow, Levels!IsHigh
<1>2. \A i : Levels!Level(i)' = Levels!Level(i)
  BY DEF Levels!Level
<1>3. QED
  BY <1>1, <1>2 DEF Near

\* What a result says is about the bars and the result only.
LEMMA ResultStays ==
    ASSUME LevelInv, bars' = bars, levels' = levels
    PROVE  Levels!LevelsAreReal'
  BY DEF LevelInv, Levels!LevelsAreReal, Levels!Apart, Levels!NearLow, Levels!NearHigh,
     Levels!PivotLows, Levels!PivotHighs, Levels!Inner, Levels!IsLow, Levels!IsHigh

LEMMA TakeKeeps ==
    ASSUME LevelInv, NEW i \in todo, Levels!Take(i), Levels!IsNext(i)
    PROVE  /\ Levels!Level(i) \in Positive /\ i \in Pivots
           /\ bars' = bars /\ side' = side /\ todo' \subseteq Pivots
           /\ \A j \in todo' : Levels!Level(j) \in Positive
                               /\ Levels!Level(i) <= Levels!Level(j)
           /\ todo' \subseteq DOMAIN bars' /\ Levels!LevelsAreReal'
           /\ bars' \in Inputs /\ side' \in {"supports", "resistances", "done"}
           /\ levels' \in [supports : SUBSET Int, resistances : SUBSET Int]
<1>1. bars' = bars /\ side' = side /\ levels' = levels /\ todo' = todo \ {i}
  BY DEF Levels!Take
<1>2. Levels!LevelsAreReal'
  BY <1>1, ResultStays
<1>3. i \in Pivots /\ Levels!Level(i) \in Positive
  BY PivotsArePositive DEF LevelInv, BucketInv
<1>4. todo' \subseteq Pivots /\ \A j \in todo' : Levels!Level(j) \in Positive
  BY <1>1, PivotsArePositive DEF LevelInv, BucketInv
<1>5. \A j \in todo' : Levels!Level(i) <= Levels!Level(j)
  BY <1>1 DEF Levels!IsNext
<1>6. QED
  BY <1>1, <1>2, <1>3, <1>4, <1>5 DEF LevelInv, Levels!TypeOK

LEMMA AbsorbKeeps ==
    ASSUME LevelInv, NEW i \in todo, Levels!Absorb(i) PROVE LevelInv'
<1> DEFINE n == Levels!Level(i)
<1>1. /\ Levels!IsNext(i) /\ bucket # NoLevel /\ Levels!IsClose(bucket, n)
      /\ bucket' = (bucket + n) \div 2 /\ merged' = merged /\ Levels!Take(i)
  BY DEF Levels!Absorb
<1>2. /\ n \in Positive /\ i \in Pivots /\ bars' = bars /\ side' = side /\ todo' \subseteq Pivots
      /\ \A j \in todo' : Levels!Level(j) \in Positive /\ n <= Levels!Level(j)
      /\ todo' \subseteq DOMAIN bars' /\ Levels!LevelsAreReal'
      /\ bars' \in Inputs /\ side' \in {"supports", "resistances", "done"}
      /\ levels' \in [supports : SUBSET Int, resistances : SUBSET Int]
  BY <1>1, TakeKeeps
<1>3. bucket \in Positive /\ bucket <= n
  BY <1>1 DEF LevelInv, BucketInv
<1>4. /\ Pivots' = Pivots /\ \A j : Levels!Level(j)' = Levels!Level(j)
      /\ \A l : Near(l)' <=> Near(l)
  BY <1>2, SidePivots
<1> HIDE DEF n
<1>5. bucket' \in Positive /\ bucket <= bucket' /\ bucket' <= n
  BY <1>1, <1>2, <1>3, MeanBetween
<1>6. Levels!IsClose(bucket', n)
  BY <1>1, <1>2, <1>3, <1>5, MeanIsClose
<1>7. Near(bucket')
  BY <1>2, <1>6 DEF Near, n
<1>8. \A l \in merged : l < bucket' /\ ~Levels!IsClose(l, bucket')
  <2> TAKE l \in merged
  <2>1. l \in Positive /\ l < bucket /\ ~Levels!IsClose(l, bucket)
    BY <1>1 DEF LevelInv, BucketInv
  <2>2. l <= bucket
    BY <1>3, <2>1 DEF Positive
  <2>3. ~Levels!IsClose(l, bucket')
    BY <1>3, <1>5, <2>1, <2>2, FartherApart
  <2>4. l < bucket'
    BY <1>3, <1>5, <2>1 DEF Positive
  <2>5. QED
    BY <2>3, <2>4
<1>9. \A j \in todo' : bucket' <= Levels!Level(j)
  BY <1>2, <1>5 DEF Positive
<1>10. bucket' # NoLevel /\ bucket' \in Int
  BY <1>5, InputsAssumption DEF Positive
<1>11. BucketInv'
  <2>1. /\ todo' \subseteq Pivots' /\ merged' \subseteq Positive /\ Levels!Apart(merged)'
        /\ (\A l \in merged : Near(l))'
    BY <1>1, <1>2, <1>4 DEF LevelInv, BucketInv, Levels!Apart
  <2>2. Near(bucket)' /\ (\A j \in todo : bucket <= Levels!Level(j))'
    <3>1. Near(bucket)'
      BY <1>2, <1>4, <1>6 DEF Near, n
    <3>2. QED
      BY <3>1, <1>4, <1>9
  <2>3. (\A l \in merged : l < bucket /\ ~Levels!IsClose(l, bucket))'
    BY <1>1, <1>8 DEF Levels!IsClose, Levels!Distance
  <2>4. QED
    BY <1>5, <1>10, <2>1, <2>2, <2>3 DEF BucketInv
<1>12. Levels!TypeOK'
  BY <1>1, <1>2, <1>10 DEF LevelInv, Levels!TypeOK
<1>13. QED
  BY <1>2, <1>11, <1>12 DEF LevelInv

LEMMA PushKeeps ==
    ASSUME LevelInv, NEW i \in todo, Levels!Push(i) PROVE LevelInv'
<1> DEFINE n == Levels!Level(i)
<1>1. /\ Levels!IsNext(i) /\ (bucket # NoLevel => ~Levels!IsClose(bucket, n))
      /\ bucket' = n /\ merged' = All /\ Levels!Take(i)
  BY DEF Levels!Push, All
<1>2. /\ n \in Positive /\ i \in Pivots /\ bars' = bars /\ side' = side /\ todo' \subseteq Pivots
      /\ \A j \in todo' : Levels!Level(j) \in Positive /\ n <= Levels!Level(j)
      /\ todo' \subseteq DOMAIN bars' /\ Levels!LevelsAreReal'
      /\ bars' \in Inputs /\ side' \in {"supports", "resistances", "done"}
      /\ levels' \in [supports : SUBSET Int, resistances : SUBSET Int]
  BY <1>1, TakeKeeps
<1>3. bucket # NoLevel => bucket \in Positive /\ bucket <= n
  BY DEF LevelInv, BucketInv
<1>4. /\ Pivots' = Pivots /\ \A j : Levels!Level(j)' = Levels!Level(j)
      /\ \A l : Near(l)' <=> Near(l)
  BY <1>2, SidePivots
<1>5. All \subseteq Positive /\ Levels!Apart(All) /\ \A l \in All : Near(l)
  BY AllReal
<1> HIDE DEF n
<1>6. Levels!IsClose(n, n)
  BY <1>2, CloseSelf
<1>7. \A l \in All : l < n /\ ~Levels!IsClose(l, n)
  <2> TAKE l \in All
  <2>1. bucket # NoLevel /\ bucket \in Positive /\ bucket <= n /\ ~Levels!IsClose(bucket, n)
    BY <1>1, <1>3 DEF LevelInv, BucketInv, All
  <2>2. CASE l = bucket
    BY <1>2, <2>1, <2>2, FartherApart DEF Positive
  <2>3. CASE l \in merged
    <3>1. l \in Positive /\ l < bucket /\ ~Levels!IsClose(l, bucket)
      BY <2>1, <2>3 DEF LevelInv, BucketInv
    <3>2. l <= bucket /\ l < n
      BY <1>2, <2>1, <3>1 DEF Positive
    <3>3. QED
      BY <1>2, <2>1, <3>1, <3>2, FartherApart
  <2>4. QED
    BY <2>2, <2>3 DEF All
<1>8. n # NoLevel /\ n \in Int /\ All \subseteq Int
  BY <1>2, <1>5, InputsAssumption DEF Positive
<1>9. BucketInv'
  <2>1. /\ todo' \subseteq Pivots' /\ merged' \subseteq Positive /\ Levels!Apart(merged)'
        /\ (\A l \in merged : Near(l))'
    BY <1>1, <1>2, <1>4, <1>5 DEF Levels!Apart
  <2>2. Near(bucket)' /\ (\A j \in todo : bucket <= Levels!Level(j))'
    <3>1. Near(bucket)'
      BY <1>1, <1>2, <1>4, <1>6 DEF Near, n
    <3>2. QED
      BY <3>1, <1>1, <1>2, <1>4
  <2>3. (\A l \in merged : l < bucket /\ ~Levels!IsClose(l, bucket))'
    BY <1>1, <1>7 DEF Levels!IsClose, Levels!Distance
  <2>4. QED
    BY <1>1, <1>2, <1>8, <2>1, <2>2, <2>3 DEF BucketInv
<1>10. Levels!TypeOK'
  BY <1>1, <1>2, <1>8 DEF Levels!TypeOK
<1>11. QED
  BY <1>2, <1>9, <1>10 DEF LevelInv

LEMMA FinishKeeps == ASSUME LevelInv, Levels!Finish PROVE LevelInv'
<1>1. /\ side # "done" /\ bucket' = NoLevel /\ merged' = {} /\ bars' = bars
      /\ IF side = "supports"
         THEN /\ levels' = [levels EXCEPT !.supports =
                     Levels!Nearest({l \in All : l < Levels!Price})]
              /\ side' = "resistances" /\ todo' = Levels!PivotHighs(bars)
         ELSE /\ levels' = [levels EXCEPT !.resistances =
                     Levels!Nearest({l \in All : l > Levels!Price})]
              /\ side' = "done" /\ todo' = {}
  BY DEF Levels!Finish, All
<1>2. All \subseteq Positive /\ Levels!Apart(All) /\ \A l \in All : Near(l)
  BY AllReal
<1>3. /\ Levels!Nearest({l \in All : l < Levels!Price}) \subseteq All
      /\ Levels!Nearest({l \in All : l > Levels!Price}) \subseteq All
  BY DEF Levels!Nearest
<1>4. \A L \in SUBSET All : L \subseteq Int /\ Levels!Apart(L) /\ \A l \in L : Near(l)
  BY <1>2 DEF Levels!Apart, Positive
<1>5. /\ Levels!PivotLows(bars)' = Levels!PivotLows(bars)
      /\ Levels!PivotHighs(bars)' = Levels!PivotHighs(bars)
      /\ \A l : Levels!NearLow(l)' <=> Levels!NearLow(l)
      /\ \A l : Levels!NearHigh(l)' <=> Levels!NearHigh(l)
  BY <1>1 DEF Levels!PivotLows, Levels!PivotHighs, Levels!Inner, Levels!IsLow, Levels!IsHigh,
     Levels!NearLow, Levels!NearHigh
<1>6. /\ levels \in [supports : SUBSET Int, resistances : SUBSET Int]
      /\ bars \in Inputs /\ side \in {"supports", "resistances", "done"}
  BY DEF LevelInv, Levels!TypeOK
<1>7. /\ Levels!Apart(levels.supports) /\ \A l \in levels.supports : Levels!NearLow(l)
      /\ Levels!Apart(levels.resistances) /\ \A l \in levels.resistances : Levels!NearHigh(l)
  BY DEF LevelInv, Levels!LevelsAreReal
<1>8. CASE side = "supports"
  <2> DEFINE new == Levels!Nearest({l \in All : l < Levels!Price})
  <2>1. new \subseteq Int /\ Levels!Apart(new) /\ \A l \in new : Levels!NearLow(l)
    <3>1. \A l : Near(l) => Levels!NearLow(l)
      BY <1>8 DEF Near, Pivots, Levels!Level, Levels!NearLow
    <3>2. QED
      BY <1>3, <1>4, <3>1
  <2>2. levels' = [levels EXCEPT !.supports = new]
    BY <1>1, <1>8
  <2> HIDE DEF new
  <2>3. levels'.supports = new /\ levels'.resistances = levels.resistances
        /\ levels' \in [supports : SUBSET Int, resistances : SUBSET Int]
    BY <1>6, <2>1, <2>2
  <2>4. Levels!LevelsAreReal'
    BY <1>5, <1>7, <2>1, <2>3 DEF Levels!LevelsAreReal, Levels!Apart
  <2>5. todo' = Pivots' /\ todo' \subseteq DOMAIN bars'
    BY <1>1, <1>5, <1>6, <1>8, PivotsPositive DEF Pivots
  <2>6. BucketInv'
    BY <1>1, <2>5 DEF BucketInv, Levels!Apart
  <2>7. Levels!TypeOK'
    BY <1>1, <1>6, <1>8, <2>3, <2>5 DEF Levels!TypeOK
  <2>8. QED
    BY <2>4, <2>6, <2>7 DEF LevelInv
<1>9. CASE side # "supports"
  <2> DEFINE new == Levels!Nearest({l \in All : l > Levels!Price})
  <2>1. new \subseteq Int /\ Levels!Apart(new) /\ \A l \in new : Levels!NearHigh(l)
    <3>1. \A l : Near(l) => Levels!NearHigh(l)
      BY <1>9 DEF Near, Pivots, Levels!Level, Levels!NearHigh
    <3>2. QED
      BY <1>3, <1>4, <3>1
  <2>2. levels' = [levels EXCEPT !.resistances = new]
    BY <1>1, <1>9
  <2> HIDE DEF new
  <2>3. levels'.resistances = new /\ levels'.supports = levels.supports
        /\ levels' \in [supports : SUBSET Int, resistances : SUBSET Int]
    BY <1>6, <2>1, <2>2
  <2>4. Levels!LevelsAreReal'
    BY <1>5, <1>7, <2>1, <2>3 DEF Levels!LevelsAreReal, Levels!Apart
  <2>5. todo' = {}
    BY <1>1, <1>9
  <2>6. BucketInv'
    BY <1>1, <2>5 DEF BucketInv, Levels!Apart
  <2>7. Levels!TypeOK'
    BY <1>1, <1>6, <1>9, <2>3, <2>5 DEF Levels!TypeOK
  <2>8. QED
    BY <2>4, <2>6, <2>7 DEF LevelInv
<1>10. QED
  BY <1>8, <1>9

LEMMA LevelNext == ASSUME LevelInv, [Levels!Next]_(Levels!vars) PROVE LevelInv'
<1>1. CASE UNCHANGED Levels!vars
  <2>1. /\ bars' = bars /\ side' = side /\ todo' = todo /\ bucket' = bucket
        /\ merged' = merged /\ levels' = levels
    BY <1>1 DEF Levels!vars
  <2>2. /\ Pivots' = Pivots /\ \A j : Levels!Level(j)' = Levels!Level(j)
        /\ \A l : Near(l)' <=> Near(l)
    BY <2>1, SidePivots
  <2>3. BucketInv'
    BY <2>1, <2>2 DEF LevelInv, BucketInv, Levels!Apart, Levels!IsClose, Levels!Distance
  <2>4. QED
    BY <2>1, <2>3, ResultStays DEF LevelInv, Levels!TypeOK
<1>2. QED
  BY <1>1, AbsorbKeeps, PushKeeps, FinishKeeps DEF Levels!Next

LEMMA LevelInvariant == Levels!Spec => []LevelInv
<1>1. Levels!Init => LevelInv
  BY LevelInit
<1>2. LevelInv /\ [Levels!Next]_(Levels!vars) => LevelInv'
  BY LevelNext
<1>3. QED
  BY <1>1, <1>2, PTL DEF Levels!Spec

\* However pivots chain into one another, and however often a level is met again, the levels
\* of a result are apart by more than the merging ratio and each has a pivot within it, for
\* any bars of positive prices and any radius (mergeCloseLevels).
THEOREM LevelsReal == Levels!Spec => []Levels!LevelsAreReal
<1>1. LevelInv => Levels!LevelsAreReal
  BY DEF LevelInv
<1>2. QED
  BY <1>1, LevelInvariant, PTL

-----------------------------------------------------------------------------
-----------------------------------------------------------------------------
(* The limit on the requests of a client *)

\* What the counter of the running window has let pass, and what passed before it opened.
InWindow == IF counter.count <= Limit THEN counter.count ELSE Limit

Before == Len(passed) - InWindow

\* Of the first k that passed, the limit came after the i-th, and once more for each restart
\* since.
Long(i, k) == k - i >= (1 + life - passed[i].life) * Limit

\* While a window runs, what passed before it lies before its start; by a window, when it is
\* long ago.
RunsInv ==
    counter.resetAt > clientTime =>
        /\ counter.resetAt <= clientTime + Window
        /\ counter.count <= Len(asked) /\ Before >= 0
        /\ \A j \in DOMAIN asked : j > Len(asked) - counter.count =>
                asked[j].at + Window >= counter.resetAt /\ asked[j].life = life
        /\ \A j \in DOMAIN passed : j <= Before => passed[j].at + Window <= counter.resetAt
        /\ \A j \in DOMAIN passed : Long(j, Before) => passed[j].at + 2 * Window <= counter.resetAt

\* Once it has ended, or was lost, what is long ago is a window ago.
EndedInv ==
    counter.resetAt <= clientTime =>
        \A j \in DOMAIN passed : Long(j, Len(passed)) => passed[j].at + Window <= clientTime

LimitInv ==
    /\ Limiter!TypeOK
    /\ counter.count <= Len(asked)
    /\ \A j \in DOMAIN passed : passed[j].at <= clientTime /\ passed[j].life <= life
    /\ RunsInv /\ EndedInv
    /\ Limiter!PassedIsLimited

\* Of a multiple of the limit.
LEMMA OneMore ==
    ASSUME NEW d \in Nat
    PROVE  /\ (1 + d) * Limit \in Nat /\ (1 + d) * Limit >= Limit
           /\ (2 + d) * Limit = (1 + d) * Limit + Limit
<1>1. Limit \in Nat
  BY LimitAssumption
<1>2. d * Limit \in Nat
  BY <1>1
<1>3. (1 + d) * Limit = d * Limit + Limit /\ (2 + d) * Limit = d * Limit + 2 * Limit
  BY <1>1
<1>4. QED
  BY <1>1, <1>2, <1>3

LEMMA EventsTyped ==
    ASSUME NEW s \in Seq(Limiter!Event)
    PROVE  /\ Len(s) \in Nat /\ DOMAIN s = 1..Len(s)
           /\ \A j \in 1..Len(s) : s[j].at \in Nat /\ s[j].life \in Nat
<1>1. \A e \in Limiter!Event : e.at \in Nat /\ e.life \in Nat
  BY LimitAssumption DEF Limiter!Event, Limiter!Time, Limiter!Life
<1>2. Len(s) \in Nat /\ DOMAIN s = 1..Len(s) /\ \A j \in 1..Len(s) : s[j] \in Limiter!Event
  OBVIOUS
<1>3. QED
  BY <1>1, <1>2

LEMMA LimitTypes ==
    ASSUME LimitInv
    PROVE  /\ clientTime \in Nat /\ clientTime <= ClientMaxTime /\ life \in Nat
           /\ asked \in Seq(Limiter!Event) /\ passed \in Seq(Limiter!Event)
           /\ Len(asked) \in Nat /\ DOMAIN asked = 1..Len(asked)
           /\ \A j \in 1..Len(asked) : asked[j].at \in Nat /\ asked[j].life \in Nat
           /\ Len(passed) \in Nat /\ DOMAIN passed = 1..Len(passed)
           /\ \A j \in 1..Len(passed) : passed[j].at \in Nat /\ passed[j].life \in Nat
           /\ counter = [count |-> counter.count, resetAt |-> counter.resetAt]
           /\ counter.count \in Nat /\ counter.resetAt \in Nat
           /\ refused \subseteq 1..Len(asked)
<1>1. clientTime \in Nat /\ clientTime <= ClientMaxTime /\ life \in Nat
  BY LimitAssumption DEF LimitInv, Limiter!TypeOK, Limiter!Time, Limiter!Life
<1>2. asked \in Seq(Limiter!Event) /\ passed \in Seq(Limiter!Event)
      /\ refused \subseteq DOMAIN asked
  BY DEF LimitInv, Limiter!TypeOK
<1>3. /\ counter = [count |-> counter.count, resetAt |-> counter.resetAt]
      /\ counter.count \in 0..MaxAsked /\ counter.resetAt \in 0..(ClientMaxTime + Window)
  BY DEF LimitInv, Limiter!TypeOK, Limiter!Bucket
<1>4. QED
  BY <1>1, <1>2, <1>3, EventsTyped, LimitAssumption

\* The lives between an event and now.
LEMMA LivesSince ==
    ASSUME LimitInv, NEW i \in DOMAIN passed
    PROVE  /\ life - passed[i].life \in Nat /\ passed[i].at <= clientTime
           /\ (1 + life - passed[i].life) * Limit \in Nat
           /\ (1 + life - passed[i].life) * Limit >= Limit
           /\ (2 + life - passed[i].life) * Limit = (1 + life - passed[i].life) * Limit + Limit
<1> DEFINE d == life - passed[i].life
<1>1. d \in Nat /\ passed[i].at <= clientTime
  BY LimitTypes DEF LimitInv
<1>2. 1 + life - passed[i].life = 1 + d /\ 2 + life - passed[i].life = 2 + d
  BY LimitTypes
<1> HIDE DEF d
<1>3. QED
  BY <1>1, <1>2, OneMore DEF d

LEMMA LimitInit == ASSUME Limiter!Init PROVE LimitInv
<1>1. Limiter!TypeOK
  BY LimitAssumption
     DEF Limiter!Init, Limiter!TypeOK, Limiter!Bucket, Limiter!NoBucket, Limiter!Time,
         Limiter!Life
<1>2. Limiter!PassedIsLimited
  BY DEF Limiter!Init, Limiter!PassedIsLimited, Limiter!PassesApart, Limiter!RefusalsEarned
<1>3. RunsInv /\ EndedInv
  BY DEF Limiter!Init, RunsInv, EndedInv, Limiter!NoBucket
<1>4. QED
  BY <1>1, <1>2, <1>3 DEF LimitInv, Limiter!Init, Limiter!NoBucket

\* What is promised of the history is about the history only.
LEMMA HistoryStays ==
    ASSUME Limiter!PassedIsLimited, asked' = asked, passed' = passed, refused' = refused
    PROVE  Limiter!PassedIsLimited'
  BY DEF Limiter!PassedIsLimited, Limiter!PassesApart, Limiter!RefusalsEarned, Limiter!Allowed

\* A request that opens a window finds every earlier one ended.
LEMMA LimitRequest == ASSUME LimitInv, Limiter!Request PROVE LimitInv'
<1> DEFINE c == Limiter!Counted
           this == Limiter!ThisEvent
<1>1. /\ clientTime \in Nat /\ clientTime <= ClientMaxTime /\ life \in Nat
      /\ asked \in Seq(Limiter!Event) /\ passed \in Seq(Limiter!Event)
      /\ Len(asked) \in Nat /\ DOMAIN asked = 1..Len(asked)
      /\ \A j \in 1..Len(asked) : asked[j].at \in Nat /\ asked[j].life \in Nat
      /\ Len(passed) \in Nat /\ DOMAIN passed = 1..Len(passed)
      /\ \A j \in 1..Len(passed) : passed[j].at \in Nat /\ passed[j].life \in Nat
      /\ counter.count \in Nat /\ counter.resetAt \in Nat
      /\ refused \subseteq 1..Len(asked)
  BY LimitTypes
<1>2. /\ counter' = c /\ asked' = Append(asked, this) /\ Len(asked) < MaxAsked
      /\ clientTime' = clientTime /\ life' = life
      /\ c = [count |-> c.count, resetAt |-> c.resetAt]
      /\ c.count \in Nat /\ c.count >= 1 /\ c.count <= Len(asked) + 1
      /\ c.resetAt \in Nat /\ clientTime < c.resetAt
      /\ c.resetAt <= clientTime + Window
  <2>1. counter' = c /\ asked' = Append(asked, this) /\ Len(asked) < MaxAsked
        /\ clientTime' = clientTime /\ life' = life
    BY DEF Limiter!Request
  <2>2. CASE Limiter!Ended
    <3>1. c = [count |-> 1, resetAt |-> clientTime + Window]
      BY <2>2 DEF Limiter!Counted
    <3>2. QED
      BY <2>1, <3>1, <1>1, LimitAssumption
  <2>3. CASE ~Limiter!Ended
    <3>1. c = [count |-> counter.count + 1, resetAt |-> counter.resetAt]
      BY <2>3, LimitTypes DEF Limiter!Counted
    <3>2. counter.count <= Len(asked) /\ counter.resetAt <= clientTime + Window
      BY <2>3, <1>1 DEF LimitInv, RunsInv, Limiter!Ended
    <3>3. QED
      BY <2>1, <2>3, <3>1, <3>2, <1>1, LimitAssumption DEF Limiter!Ended
  <2>4. QED
    BY <2>2, <2>3
<1>3. c \in Limiter!Bucket
  BY <1>1, <1>2, LimitAssumption DEF Limiter!Bucket
<1>4. this \in Limiter!Event /\ this.at = clientTime /\ this.life = life
  BY DEF LimitInv, Limiter!TypeOK, Limiter!ThisEvent, Limiter!Event
<1> HIDE DEF this
<1>5. /\ asked' \in Seq(Limiter!Event) /\ Len(asked') = Len(asked) + 1
      /\ DOMAIN asked' = 1..(Len(asked) + 1)
      /\ \A j \in 1..Len(asked) : asked'[j] = asked[j]
      /\ asked'[Len(asked) + 1] = this
  BY <1>1, <1>2, <1>4
\* What asked in the window of the counter came after it opened, in this life.
<1>6. \A j \in DOMAIN asked' : j > Len(asked') - c.count =>
            asked'[j].at + Window >= c.resetAt /\ asked'[j].life = life
  <2> SUFFICES ASSUME NEW j \in DOMAIN asked', j > Len(asked') - c.count
               PROVE  asked'[j].at + Window >= c.resetAt /\ asked'[j].life = life
    OBVIOUS
  <2>1. CASE j = Len(asked) + 1
    BY <2>1, <1>1, <1>2, <1>4, <1>5, LimitAssumption
  <2>2. CASE j # Len(asked) + 1
    <3>1. j \in DOMAIN asked /\ asked'[j] = asked[j] /\ asked[j].at \in Nat
      BY <2>2, <1>1, <1>2, <1>5
    <3>2. j > Len(asked) + 1 - c.count
      BY <1>1, <1>2, <1>5
    <3>3. CASE Limiter!Ended
      BY <3>1, <3>2, <3>3, <1>1 DEF Limiter!Counted
    <3>4. CASE ~Limiter!Ended
      BY <3>1, <3>2, <3>4, <1>1 DEF Limiter!Counted, Limiter!Ended, LimitInv, RunsInv
    <3>5. QED
      BY <3>3, <3>4
  <2>3. QED
    BY <2>1, <2>2
\* What had passed when the window of the counter opened.
<1> DEFINE k == IF Limiter!Ended THEN Len(passed) ELSE Before
<1>7. /\ k \in Nat /\ k <= Len(passed)
      /\ Len(passed) - k = IF Limiter!Ended THEN 0 ELSE InWindow
      /\ \A j \in DOMAIN passed : j <= k => passed[j].at + Window <= c.resetAt
      /\ \A j \in DOMAIN passed : Long(j, k) => passed[j].at + 2 * Window <= c.resetAt
  <2>1. CASE Limiter!Ended
    <3>1. c.resetAt = clientTime + Window /\ k = Len(passed)
      BY <2>1 DEF Limiter!Counted
    <3>2. /\ \A j \in DOMAIN passed : passed[j].at <= clientTime
          /\ \A j \in DOMAIN passed : Long(j, k) => passed[j].at + Window <= clientTime
      BY <2>1, <3>1 DEF Limiter!Ended, LimitInv, EndedInv
    <3>3. \A j \in DOMAIN passed : passed[j].at \in Nat
      BY <1>1
    <3>4. QED
      BY <2>1, <3>1, <3>2, <3>3, <1>1, LimitAssumption
  <2>2. CASE ~Limiter!Ended
    <3>1. c.resetAt = counter.resetAt /\ k = Before
      BY <2>2, <1>1 DEF Limiter!Counted
    <3>2. /\ Before >= 0
          /\ \A j \in DOMAIN passed : j <= k => passed[j].at + Window <= c.resetAt
          /\ \A j \in DOMAIN passed : Long(j, k) => passed[j].at + 2 * Window <= c.resetAt
      BY <2>2, <3>1, <1>1 DEF Limiter!Ended, LimitInv, RunsInv
    <3>3. QED
      BY <2>2, <3>1, <3>2, <1>1, LimitAssumption DEF Before, InWindow
  <2>3. QED
    BY <2>1, <2>2
<1>8. CASE c.count > Limit
  <2>1. refused' = refused \cup {Len(asked) + 1} /\ passed' = passed
    BY <1>1, <1>2, <1>5, <1>8 DEF Limiter!Request
  <2>2. Limiter!TypeOK'
    BY <1>1, <1>2, <1>5, <1>3, <1>4, <2>1 DEF LimitInv, Limiter!TypeOK
  <2>3. Before' = k
    BY <1>1, <1>2, <1>5, <1>7, <1>8, <2>1, LimitAssumption DEF Before, InWindow, Limiter!Counted
  <2>4. RunsInv' /\ EndedInv'
    <3>1. \A j : Long(j, Before)' <=> Long(j, k)
      BY <1>2, <2>1, <2>3 DEF Long
    <3>2. QED
      BY <1>1, <1>2, <1>5, <1>6, <1>7, <2>1, <2>3, <3>1 DEF RunsInv, EndedInv
  <2>5. Limiter!PassesApart'
    BY <2>1 DEF LimitInv, Limiter!PassedIsLimited, Limiter!PassesApart, Limiter!Allowed
  <2>6. ASSUME NEW i \in refused'
        PROVE  /\ i > Limit /\ asked'[i - Limit].life = asked'[i].life
               /\ asked'[i].at < asked'[i - Limit].at + Window
    <3>1. CASE i \in refused
      <4>1. /\ i > Limit /\ asked[i - Limit].life = asked[i].life
            /\ asked[i].at < asked[i - Limit].at + Window /\ i \in DOMAIN asked
        BY <3>1, <1>1 DEF LimitInv, Limiter!PassedIsLimited, Limiter!RefusalsEarned
      <4>2. i \in 1..Len(asked) /\ i - Limit \in 1..Len(asked)
        BY <4>1, <1>1, LimitAssumption
      <4>3. asked'[i] = asked[i] /\ asked'[i - Limit] = asked[i - Limit]
        BY <4>2, <1>5
      <4>4. QED
        BY <4>1, <4>3
    <3>2. CASE i = Len(asked) + 1
      <4>1. i > Limit /\ i - Limit \in DOMAIN asked' /\ i - Limit > Len(asked') - c.count
        BY <3>2, <1>1, <1>2, <1>5, <1>8, LimitAssumption
      <4>2. asked'[i - Limit].at + Window >= c.resetAt /\ asked'[i - Limit].life = life
        BY <4>1, <1>6
      <4>3. asked'[i].at = clientTime /\ asked'[i].life = life
        BY <3>2, <1>1, <1>2, <1>4, <1>5
      <4>4. asked'[i - Limit].at \in Nat
        BY <4>1, <1>1, <1>2, <1>4, <1>5
      <4>5. clientTime \in Nat /\ c.resetAt \in Nat /\ clientTime < c.resetAt /\ Window \in Nat
        BY <1>1, <1>2, LimitAssumption
      <4>6. asked'[i].at < asked'[i - Limit].at + Window
        BY <4>2, <4>3, <4>4, <4>5
      <4>7. QED
        BY <4>1, <4>2, <4>3, <4>6
    <3>3. QED
      BY <2>1, <3>1, <3>2
  <2>7. QED
    BY <1>1, <1>2, <1>5, <2>1, <2>2, <2>4, <2>5, <2>6
       DEF LimitInv, Limiter!PassedIsLimited, Limiter!RefusalsEarned
<1>9. CASE c.count <= Limit
  <2>1. passed' = Append(passed, this) /\ refused' = refused
    BY <1>1, <1>2, <1>5, <1>9, LimitAssumption DEF Limiter!Request, this
  <2>2. Limiter!TypeOK'
    BY <1>1, <1>2, <1>5, <1>3, <1>4, <2>1 DEF LimitInv, Limiter!TypeOK
  <2>3. Before' = k /\ k = Len(passed) + 1 - c.count
    BY <1>1, <1>2, <1>5, <1>7, <1>9, <2>1, LimitAssumption DEF Before, InWindow, Limiter!Counted
  <2>4. /\ Len(passed') = Len(passed) + 1 /\ DOMAIN passed' = 1..(Len(passed) + 1)
        /\ passed'[Len(passed) + 1] = this
        /\ \A j \in 1..Len(passed) : passed'[j] = passed[j]
    BY <2>1, <1>1, <1>4
  <2>5. RunsInv' /\ EndedInv'
    <3>1. \A j \in DOMAIN passed' : j <= k => j \in DOMAIN passed
      BY <2>4, <1>1, <1>7
    <3>2. \A j \in DOMAIN passed' : j <= k => passed'[j].at + Window <= c.resetAt
      BY <3>1, <2>4, <1>1, <1>7
    <3>3. ASSUME NEW j \in DOMAIN passed', Long(j, Before)'
          PROVE  passed'[j].at + 2 * Window <= c.resetAt
      <4>1. k - j >= (1 + life - passed'[j].life) * Limit
        BY <3>3, <1>2, <2>3 DEF Long
      <4>2. CASE j = Len(passed) + 1
        <5>1. 1 + life - passed'[j].life = 1
          BY <4>2, <2>4, <1>1, <1>4
        <5>2. (1 + life - passed'[j].life) * Limit = Limit /\ Limit \in Nat
          BY <5>1, LimitAssumption
        <5>3. QED
          BY <4>1, <4>2, <5>2, <1>1, <1>7
      <4>3. CASE j \in DOMAIN passed
        <5>1. passed'[j] = passed[j]
          BY <4>3, <2>4, <1>1
        <5>2. Long(j, k)
          BY <4>1, <5>1 DEF Long
        <5>3. QED
          BY <4>3, <5>1, <5>2, <1>7
      <4>4. QED
        BY <4>2, <4>3, <2>4, <1>1
    <3>4. /\ counter'.resetAt = c.resetAt /\ counter'.count = c.count
          /\ c.resetAt > clientTime' /\ c.resetAt <= clientTime' + Window
          /\ c.count <= Len(asked') /\ Before' >= 0
      BY <1>1, <1>2, <1>5, <1>7, <2>3
    <3>5. RunsInv'
      BY <3>2, <3>3, <3>4, <1>2, <1>6, <2>3 DEF RunsInv
    <3>6. EndedInv'
      BY <3>4, <1>1, <1>2 DEF EndedInv
    <3>7. QED
      BY <3>5, <3>6
  <2>6. ASSUME NEW i \in DOMAIN passed', NEW j \in DOMAIN passed',
               i < j, j = i + Limiter!Allowed(i, j)'
        PROVE  passed'[j].at >= passed'[i].at + Window
    <3>1. CASE i \in DOMAIN passed /\ j \in DOMAIN passed
      <4>1. passed'[i] = passed[i] /\ passed'[j] = passed[j]
        BY <3>1, <2>4, <1>1
      <4>2. j = i + Limiter!Allowed(i, j)
        BY <4>1, <2>6 DEF Limiter!Allowed
      <4>3. QED
        BY <2>6, <3>1, <4>1, <4>2 DEF LimitInv, Limiter!PassedIsLimited, Limiter!PassesApart
    <3>2. CASE i \in DOMAIN passed /\ j = Len(passed) + 1
      <4>1. passed'[i] = passed[i] /\ passed[i].at \in Nat /\ passed'[j] = this
        BY <3>2, <2>4, <1>1
      <4> DEFINE more == (1 + life - passed[i].life) * Limit
      <4>2. /\ more \in Nat /\ (2 + life - passed[i].life) * Limit = more + Limit
        BY <3>2, LivesSince
      <4>3. j = i + (2 + life - passed[i].life) * Limit
        BY <4>1, <2>6, <1>4 DEF Limiter!Allowed
      <4>4. k - i >= more
        <5> HIDE DEF more
        <5>1. Len(passed) + 1 = i + more + Limit /\ i \in Nat /\ Limit \in Nat
          BY <3>2, <4>2, <4>3, <1>1, LimitAssumption
        <5>2. QED
          BY <5>1, <4>2, <2>3, <1>1, <1>2, <1>9
      <4>5. passed[i].at + 2 * Window <= c.resetAt
        BY <3>2, <4>4, <1>7 DEF Long
      <4>6. clientTime \in Nat /\ Window \in Nat /\ c.resetAt \in Nat
            /\ c.resetAt <= clientTime + Window
        BY <1>1, <1>2, LimitAssumption
      <4>7. clientTime >= passed[i].at + Window
        BY <4>1, <4>5, <4>6
      <4>8. QED
        BY <4>1, <4>7, <1>4
    <3>3. QED
      BY <3>1, <3>2, <2>6, <2>4, <1>1
  <2>7. ASSUME NEW i \in refused'
        PROVE  /\ i > Limit /\ asked'[i - Limit].life = asked'[i].life
               /\ asked'[i].at < asked'[i - Limit].at + Window
    <3>1. /\ i > Limit /\ asked[i - Limit].life = asked[i].life
          /\ asked[i].at < asked[i - Limit].at + Window /\ i \in DOMAIN asked
      BY <2>1, <1>1 DEF LimitInv, Limiter!PassedIsLimited, Limiter!RefusalsEarned
    <3>2. i \in 1..Len(asked) /\ i - Limit \in 1..Len(asked)
      BY <3>1, <1>1, LimitAssumption
    <3>3. asked'[i] = asked[i] /\ asked'[i - Limit] = asked[i - Limit]
      BY <3>2, <1>5
    <3>4. QED
      BY <3>1, <3>3
  <2>8. \A j \in DOMAIN passed' : passed'[j].at <= clientTime' /\ passed'[j].life <= life'
    BY <2>4, <1>1, <1>2, <1>4 DEF LimitInv
  <2>9. QED
    BY <1>1, <1>2, <1>5, <2>2, <2>5, <2>6, <2>7, <2>8
       DEF LimitInv, Limiter!PassedIsLimited, Limiter!PassesApart, Limiter!RefusalsEarned
<1>10. QED
  BY <1>2, <1>8, <1>9, LimitAssumption

LEMMA LimitNext == ASSUME LimitInv, [Limiter!Next]_(Limiter!vars) PROVE LimitInv'
<1>1. /\ clientTime \in Nat /\ clientTime <= ClientMaxTime /\ life \in Nat
      /\ asked \in Seq(Limiter!Event) /\ passed \in Seq(Limiter!Event)
      /\ Len(asked) \in Nat /\ DOMAIN asked = 1..Len(asked)
      /\ \A j \in 1..Len(asked) : asked[j].at \in Nat /\ asked[j].life \in Nat
      /\ Len(passed) \in Nat /\ DOMAIN passed = 1..Len(passed)
      /\ \A j \in 1..Len(passed) : passed[j].at \in Nat /\ passed[j].life \in Nat
      /\ counter.count \in Nat /\ counter.resetAt \in Nat
  BY LimitTypes
<1>2. CASE Limiter!Request
  BY <1>2, LimitRequest
<1>3. CASE Limiter!Sweep
  <2>1. /\ counter' = counter \/ (Limiter!Ended /\ counter' = Limiter!NoBucket)
        /\ clientTime' = clientTime /\ life' = life
        /\ asked' = asked /\ passed' = passed /\ refused' = refused
    BY <1>3, Zenon DEF Limiter!Sweep, Limiter!Swept
  <2>2. CASE counter' = counter
    BY <2>1, <2>2, HistoryStays DEF LimitInv, RunsInv, EndedInv, Before, InWindow, Long,
       Limiter!TypeOK
  <2>3. CASE Limiter!Ended /\ counter' = Limiter!NoBucket
    <3>1. Limiter!TypeOK'
      BY <2>1, <2>3, LimitAssumption
         DEF LimitInv, Limiter!TypeOK, Limiter!NoBucket, Limiter!Bucket
    <3>2. RunsInv' /\ EndedInv'
      BY <2>1, <2>3, <1>1
         DEF LimitInv, RunsInv, EndedInv, Long, Limiter!Ended, Limiter!NoBucket
    <3>3. QED
      BY <2>1, <2>3, <3>1, <3>2, <1>1, HistoryStays DEF LimitInv, Limiter!NoBucket
  <2>4. QED
    BY <2>1, <2>2, <2>3
<1>4. CASE Limiter!Restart
  <2>1. /\ life < MaxRestarts /\ life' = life + 1 /\ counter' = Limiter!NoBucket
        /\ clientTime' = clientTime /\ asked' = asked /\ passed' = passed /\ refused' = refused
    BY <1>4 DEF Limiter!Restart
  <2>2. Limiter!TypeOK'
    BY <2>1, <1>1, LimitAssumption
       DEF LimitInv, Limiter!TypeOK, Limiter!NoBucket, Limiter!Bucket, Limiter!Life
  <2>3. counter'.count = 0 /\ counter'.resetAt = 0
    BY <2>1 DEF Limiter!NoBucket
  <2>4. RunsInv'
    BY <2>1, <2>3, <1>1 DEF RunsInv
  \* What is long ago with one restart more was so before it.
  <2>5. EndedInv'
    <3> SUFFICES ASSUME NEW i \in DOMAIN passed, Long(i, Len(passed))'
                 PROVE  passed[i].at + Window <= clientTime
      BY <2>1 DEF EndedInv
    <3> DEFINE more == (1 + life - passed[i].life) * Limit
    <3>1. Len(passed) - i >= (2 + life - passed[i].life) * Limit
      <4>1. 1 + life' - passed[i].life = 2 + life - passed[i].life
        BY <2>1, <1>1
      <4>2. QED
        BY <2>1, <4>1 DEF Long
    <3>2. /\ more \in Nat /\ (2 + life - passed[i].life) * Limit = more + Limit
      BY LivesSince
    <3>3. Len(passed) - Limit - i >= more
      <4> HIDE DEF more
      <4>1. Len(passed) - i >= more + Limit
        BY <3>1, <3>2
      <4>2. QED
        BY <3>2, <4>1, <1>1, LimitAssumption
    <3>4. CASE counter.resetAt <= clientTime
      <4>1. Len(passed) - i >= more
        <5> HIDE DEF more
        <5>1. QED
          BY <3>2, <3>3, <1>1, LimitAssumption
      <4>2. QED
        BY <3>4, <4>1 DEF LimitInv, EndedInv, Long
    <3>5. CASE counter.resetAt > clientTime
      <4>1. Before - i >= more
        <5> HIDE DEF more
        <5>1. Before >= Len(passed) - Limit /\ Before \in Int
          BY <1>1, LimitAssumption DEF Before, InWindow
        <5>2. QED
          BY <3>2, <3>3, <5>1, <1>1, LimitAssumption
      <4>2. passed[i].at + 2 * Window <= counter.resetAt /\ counter.resetAt <= clientTime + Window
        BY <3>5, <4>1 DEF LimitInv, RunsInv, Long
      <4>3. QED
        BY <4>2, <1>1, LimitAssumption
    <3>6. QED
      BY <3>4, <3>5, <1>1
  <2>6. \A j \in DOMAIN passed' : passed'[j].at <= clientTime' /\ passed'[j].life <= life'
    BY <2>1, <1>1 DEF LimitInv
  <2>7. QED
    BY <2>1, <2>2, <2>3, <2>4, <2>5, <2>6, <1>1, HistoryStays DEF LimitInv
<1>5. CASE Limiter!Tick
  <2>1. /\ clientTime' = clientTime + 1 /\ clientTime < ClientMaxTime
        /\ counter' = counter /\ life' = life
        /\ asked' = asked /\ passed' = passed /\ refused' = refused
    BY <1>5 DEF Limiter!Tick
  <2>2. Limiter!TypeOK'
    BY <2>1, <1>1, LimitAssumption DEF LimitInv, Limiter!TypeOK, Limiter!Time
  <2>3. \A j \in DOMAIN passed : passed[j].at \in Nat /\ passed[j].at <= clientTime
    BY <1>1 DEF LimitInv
  <2>4. RunsInv'
    BY <2>1, <1>1, LimitAssumption DEF LimitInv, RunsInv, Before, InWindow, Long
  <2>5. EndedInv'
    <3>1. CASE counter.resetAt <= clientTime
      <4>1. \A j \in DOMAIN passed : Long(j, Len(passed)) => passed[j].at + Window <= clientTime
        BY <3>1 DEF LimitInv, EndedInv
      <4>2. \A j \in DOMAIN passed : Long(j, Len(passed)) => passed[j].at + Window <= clientTime + 1
        BY <4>1, <2>3, <1>1, LimitAssumption
      <4>3. \A j : Long(j, Len(passed))' <=> Long(j, Len(passed))
        BY <2>1 DEF Long
      <4>4. QED
        BY <4>2, <4>3, <2>1 DEF EndedInv
    <3>2. CASE counter.resetAt = clientTime + 1
      <4>1. Before >= Len(passed) - Limit /\ Before \in Int
        BY <1>1, LimitAssumption DEF InWindow, Before
      <4>2. \A j \in DOMAIN passed : j <= Before => passed[j].at + Window <= clientTime + 1
        BY <3>2, <1>1 DEF LimitInv, RunsInv
      <4>3. ASSUME NEW j \in DOMAIN passed, Long(j, Len(passed)) PROVE j <= Before
        <5> DEFINE more == (1 + life - passed[j].life) * Limit
        <5>1. more \in Nat /\ more >= Limit /\ Len(passed) - j >= more
          BY <4>3, LivesSince DEF Long
        <5> HIDE DEF more
        <5>2. QED
          BY <5>1, <4>1, <1>1, LimitAssumption
      <4>4. QED
        BY <3>2, <2>1, <4>2, <4>3 DEF EndedInv, Long
    <3>3. CASE counter.resetAt > clientTime + 1
      BY <3>3, <2>1, <1>1 DEF EndedInv
    <3>4. QED
      BY <3>1, <3>2, <3>3, <1>1
  <2>6. \A j \in DOMAIN passed' : passed'[j].at <= clientTime' /\ passed'[j].life <= life'
    BY <2>1, <2>3, <1>1 DEF LimitInv
  <2>7. QED
    BY <2>1, <2>2, <2>4, <2>5, <2>6, <1>1, HistoryStays DEF LimitInv
<1>6. CASE UNCHANGED Limiter!vars
  BY <1>6, HistoryStays
     DEF Limiter!vars, LimitInv, RunsInv, EndedInv, Before, InWindow, Long, Limiter!TypeOK
<1>7. QED
  BY <1>2, <1>3, <1>4, <1>5, <1>6 DEF Limiter!Next

LEMMA LimitInvariant == Limiter!Spec => []LimitInv
<1>1. Limiter!Init => LimitInv
  BY LimitInit
<1>2. LimitInv /\ [Limiter!Next]_(Limiter!vars) => LimitInv'
  BY LimitNext
<1>3. QED
  BY <1>1, <1>2, PTL DEF Limiter!Spec

\* No stretch as long as a window sees more pass than twice the limit and once the limit for
\* each restart in it, and nobody is refused who had not used the limit of one process up
\* within a window, for any limit, any window and however requests, sweeps and restarts fall
\* (marketRateLimitMiddleware).
THEOREM PassesLimited == Limiter!Spec => []Limiter!PassedIsLimited
<1>1. LimitInv => Limiter!PassedIsLimited
  BY DEF LimitInv
<1>2. QED
  BY <1>1, LimitInvariant, PTL

-----------------------------------------------------------------------------
(* The lights of the market brief *)

LEMMA LightType == ASSUME NEW m PROVE Brief!LightOf(m) \in Brief!Light
  BY DEF Brief!LightOf, Brief!Light

LEMMA ChangeType ==
    ASSUME NEW previous, NEW light
    PROVE  Brief!ChangeOf(previous, light) \in {"stronger", "weaker", "unchanged"}
  BY DEF Brief!ChangeOf

Factors == {"position", "trend", "change24h", "funding", "sentiment", "events"}

LEMMA VotesFields == ASSUME NEW m PROVE DOMAIN Brief!Votes(m) = Factors
  BY DEF Brief!Votes, Factors

LEMMA FactorsCount == IsFiniteSet(Factors) /\ Cardinality(Factors) = 6
<1> DEFINE A == {"position"}
           B == A \cup {"trend"}
           C == B \cup {"change24h"}
           D == C \cup {"funding"}
           E == D \cup {"sentiment"}
<1>1. IsFiniteSet(A) /\ Cardinality(A) = 1
  BY FS_Singleton
<1>2. IsFiniteSet(B) /\ Cardinality(B) = 2
  BY <1>1, FS_AddElement, "trend" \notin A
<1>3. IsFiniteSet(C) /\ Cardinality(C) = 3
  BY <1>2, FS_AddElement, "change24h" \notin B
<1>4. IsFiniteSet(D) /\ Cardinality(D) = 4
  BY <1>3, FS_AddElement, "funding" \notin C
<1>5. IsFiniteSet(E) /\ Cardinality(E) = 5
  BY <1>4, FS_AddElement, "sentiment" \notin D
<1>6. IsFiniteSet(E \cup {"events"}) /\ Cardinality(E \cup {"events"}) = 6
  BY <1>5, FS_AddElement, "events" \notin E
<1>7. Factors = E \cup {"events"}
  BY DEF Factors
<1>8. QED
  BY <1>6, <1>7

\* The count of the instance is the count.
LEMMA SameCount == \A S : Brief!Cardinality(S) = Cardinality(S)
  BY DEF Brief!Cardinality, Cardinality

LEMMA ScoreType == ASSUME NEW m, NEW vote PROVE Brief!Score(m, vote) \in 0..6
<1> DEFINE S == {f \in DOMAIN Brief!Votes(m) : Brief!Votes(m)[f] = vote}
<1>1. S \subseteq Factors
  BY VotesFields
<1>2. IsFiniteSet(S) /\ Cardinality(S) <= 6
  BY <1>1, FactorsCount, FS_Subset
<1>3. Cardinality(S) \in Nat
  BY <1>2, FS_CardinalityType
<1>4. Brief!Score(m, vote) = Cardinality(S)
  BY SameCount DEF Brief!Score
<1>5. QED
  BY <1>2, <1>3, <1>4

\* A source that fails takes a vote away and casts none.
LEMMA FailureIsNoVote ==
    ASSUME NEW m \in Reading, NEW lost, NEW vote \in {"bullish", "bearish"}
    PROVE  Brief!Score(Brief!Answered(m, lost), vote) <= Brief!Score(m, vote)
<1> DEFINE n == Brief!Answered(m, lost)
           S == {f \in DOMAIN Brief!Votes(m) : Brief!Votes(m)[f] = vote}
           T == {f \in DOMAIN Brief!Votes(n) : Brief!Votes(n)[f] = vote}
<1>1. /\ n.price = m.price /\ n.supports = m.supports /\ n.resistances = m.resistances
      /\ n.last = m.last /\ n.fast = m.fast /\ n.slow = m.slow /\ n.change = m.change
      /\ n.funding \in {None, m.funding} /\ n.fearGreed \in {None, m.fearGreed}
      /\ \/ n.bullishEvents = m.bullishEvents /\ n.bearishEvents = m.bearishEvents
         \/ n.bullishEvents = 0 /\ n.bearishEvents = 0
  BY DEF Brief!Answered, Reading
<1>2. Brief!PositionVote(n) = Brief!PositionVote(m) /\ Brief!TrendVote(n) = Brief!TrendVote(m)
      /\ Brief!ChangeVote(n) = Brief!ChangeVote(m)
  BY <1>1 DEF Brief!PositionVote, Brief!TrendVote, Brief!ChangeVote
<1>3. Brief!FundingVote(n) \in {"neutral", Brief!FundingVote(m)}
  BY <1>1 DEF Brief!FundingVote
<1>4. Brief!SentimentVote(n) \in {"neutral", Brief!SentimentVote(m)}
  BY <1>1 DEF Brief!SentimentVote
<1>5. Brief!EventsVote(n) \in {"neutral", Brief!EventsVote(m)}
  BY <1>1 DEF Brief!EventsVote
<1>6. T \subseteq S
  BY <1>2, <1>3, <1>4, <1>5 DEF Brief!Votes
<1>7. IsFiniteSet(S)
  <2>1. S \subseteq Factors
    BY VotesFields
  <2>2. QED
    BY <2>1, FactorsCount, FS_Subset
<1>8. Cardinality(T) <= Cardinality(S)
  BY <1>6, <1>7, FS_Subset
<1>9. QED
  BY <1>8, SameCount DEF Brief!Score

(***************************************************************************)
(* The invariant: the light remembered for a key is the one of the brief   *)
(* shown last, and a build that no other has overtaken compares with it.   *)
(***************************************************************************)

Compares ==
    \A r \in BriefRequests : builds[r].pc # "idle" =>
        (builds[r].latest => builds[r].previous = lights[builds[r].key])

BriefInv ==
    /\ Brief!TypeOK
    /\ \A k \in Keys : lights[k] = Brief!Shown(briefs[k])
    /\ Compares
    /\ Brief!ColourIsEarned

LEMMA BriefInit == Brief!Init => BriefInv
  BY DEF Brief!Init, BriefInv, Brief!TypeOK, Compares, Brief!ColourIsEarned, Brief!Idle,
         Brief!Request, Brief!Shown

\* Every action but a store leaves cached briefs and lights alone, or forgets them all.
LEMMA BriefNext ==
    ASSUME BriefInv, [Brief!Next]_(Brief!vars)
    PROVE  BriefInv'
<1>1. ASSUME NEW r \in BriefRequests, Brief!Begin(r) PROVE BriefInv'
  <2>1. PICK k \in Keys : builds' = [builds EXCEPT ![r] =
            [pc |-> "fetch", key |-> k, previous |-> Brief!LightBefore(k), latest |-> TRUE]]
    BY <1>1 DEF Brief!Begin
  <2>2. UNCHANGED <<briefs, lights>>
    BY <1>1 DEF Brief!Begin
  <2>3. Brief!LightBefore(k) \in Brief!Light \cup {None} /\ Brief!LightBefore(k) = lights[k]
    BY DEF BriefInv, Brief!TypeOK, Brief!LightBefore
  <2>4. Brief!TypeOK'
    BY <2>1, <2>2, <2>3 DEF BriefInv, Brief!TypeOK, Brief!Request
  <2>5. Compares'
    BY <2>1, <2>2, <2>3 DEF BriefInv, Brief!TypeOK, Compares
  <2>6. QED
    BY <2>2, <2>4, <2>5 DEF BriefInv, Brief!ColourIsEarned
<1>2. ASSUME NEW r \in BriefRequests, Brief!Fetched(r) PROVE BriefInv'
  <2> DEFINE q == builds[r]
  <2>1. PICK m \in Readings, lost \in SUBSET {"fearGreed", "funding"} :
            builds' = [builds EXCEPT ![r] =
                [pc |-> "events", key |-> q.key, previous |-> q.previous, latest |-> q.latest,
                 reading |-> m, lost |-> lost]]
    BY <1>2 DEF Brief!Fetched
  <2>2. q.pc = "fetch" /\ UNCHANGED <<briefs, lights>>
    BY <1>2 DEF Brief!Fetched
  <2>3. q.key \in Keys /\ q.previous \in Brief!Light \cup {None} /\ q.latest \in BOOLEAN
    BY <2>2 DEF BriefInv, Brief!TypeOK, Brief!Request
  <2>4. Brief!TypeOK'
    BY <2>1, <2>2, <2>3 DEF BriefInv, Brief!TypeOK, Brief!Request
  <2>5. Compares'
    BY <2>1, <2>2 DEF BriefInv, Brief!TypeOK, Compares
  <2>6. QED
    BY <2>2, <2>4, <2>5 DEF BriefInv, Brief!ColourIsEarned
<1>3. ASSUME NEW r \in BriefRequests, Brief!FetchFails(r) PROVE BriefInv'
  <2>1. builds' = [builds EXCEPT ![r] = Brief!Idle] /\ UNCHANGED <<briefs, lights>>
    BY <1>3 DEF Brief!FetchFails
  <2>2. Brief!TypeOK' /\ Compares'
    BY <2>1 DEF BriefInv, Brief!TypeOK, Compares, Brief!Idle, Brief!Request
  <2>3. QED
    BY <2>1, <2>2 DEF BriefInv, Brief!ColourIsEarned
<1>4. ASSUME NEW r \in BriefRequests, Brief!Store(r) PROVE BriefInv'
  <2> DEFINE q == builds[r]
             Kept(l) == Brief!LightOf(Brief!Answered(q.reading, l))
             Built(l) == [light |-> Kept(l), previous |-> q.previous,
                          change |-> Brief!ChangeOf(q.previous, Kept(l)),
                          bullish |-> Brief!Score(q.reading, "bullish"),
                          bearish |-> Brief!Score(q.reading, "bearish"), fresh |-> TRUE]
  <2>1. PICK lost : /\ lights' = [lights EXCEPT ![q.key] = Kept(lost)]
                    /\ briefs' = [briefs EXCEPT ![q.key] = Built(lost)]
    BY <1>4 DEF Brief!Store
  <2>2. builds' = [p \in BriefRequests |->
            IF p = r THEN Brief!Idle
            ELSE IF builds[p].pc # "idle" /\ builds[p].key = q.key
            THEN [builds[p] EXCEPT !.latest = FALSE]
            ELSE builds[p]]
    BY <1>4 DEF Brief!Store
  <2>3. /\ q.key \in Keys /\ q.previous \in Brief!Light \cup {None}
        /\ q.reading \in Reading
    BY <1>4, ReadingsAssumption DEF Brief!Store, BriefInv, Brief!TypeOK, Brief!Request
  <2>4. Built(lost) \in Brief!Brief
    <3>1. Kept(lost) \in Brief!Light
      BY LightType
    <3>2. QED
      BY <3>1, <2>3, ChangeType, ScoreType DEF Brief!Brief
  <2>5. briefs' \in [Keys -> Brief!Brief \cup {None}]
        /\ lights' \in [Keys -> Brief!Light \cup {None}]
    BY <2>1, <2>3, <2>4, LightType DEF BriefInv, Brief!TypeOK
  <2>6. ASSUME NEW p \in BriefRequests PROVE builds'[p] \in Brief!Request
    <3>1. builds[p] \in Brief!Request
      BY DEF BriefInv, Brief!TypeOK
    <3>2. CASE builds[p].pc # "idle"
      <4>1. [builds[p] EXCEPT !.latest = FALSE] \in Brief!Request
        BY <3>1, <3>2 DEF Brief!Request
      <4>2. QED
        BY <2>2, <3>1, <4>1 DEF Brief!Idle, Brief!Request
    <3>3. CASE builds[p].pc = "idle"
      BY <2>2, <3>1, <3>3 DEF Brief!Idle, Brief!Request
    <3>4. QED
      BY <3>2, <3>3
  <2>7. builds' \in [BriefRequests -> Brief!Request]
    BY <2>2, <2>6
  <2>8. ASSUME NEW k \in Keys PROVE lights'[k] = Brief!Shown(briefs'[k])
    <3>1. CASE k = q.key
      <4>1. lights'[k] = Kept(lost) /\ briefs'[k] = Built(lost)
        BY <2>1, <3>1 DEF BriefInv, Brief!TypeOK
      <4>2. Built(lost) # None
        BY <2>4, ReadingsAssumption
      <4>3. QED
        BY <4>1, <4>2 DEF Brief!Shown
    <3>2. CASE k # q.key
      BY <2>1, <3>2 DEF BriefInv, Brief!TypeOK
    <3>3. QED
      BY <3>1, <3>2
  <2>9. ASSUME NEW p \in BriefRequests, builds'[p].pc # "idle", builds'[p].latest
        PROVE  builds'[p].previous = lights'[builds'[p].key]
    <3>1. p # r
      BY <2>2, <2>9 DEF Brief!Idle
    <3>2. builds[p] \in Brief!Request
      BY DEF BriefInv, Brief!TypeOK
    <3>3. ~(builds[p].pc # "idle" /\ builds[p].key = q.key)
      <4>1. SUFFICES ASSUME builds[p].pc # "idle", builds[p].key = q.key PROVE FALSE
        OBVIOUS
      <4>2. builds'[p] = [builds[p] EXCEPT !.latest = FALSE]
        BY <2>2, <3>1, <4>1
      <4>3. builds'[p].latest = FALSE
        BY <3>2, <4>1, <4>2 DEF Brief!Request
      <4>4. QED
        BY <2>9, <4>3
    <3>4. builds'[p] = builds[p]
      BY <2>2, <3>1, <3>3
    <3>5. builds[p].key \in Keys /\ builds[p].key # q.key
      BY <2>9, <3>2, <3>3, <3>4 DEF Brief!Request
    <3>6. QED
      BY <2>1, <2>9, <3>4, <3>5 DEF BriefInv, Brief!TypeOK, Compares
  <2>10. ASSUME NEW k \in Keys, briefs'[k] # None
         PROVE  /\ briefs'[k].light = "green" => briefs'[k].bullish >= Brief!MinScore
                /\ briefs'[k].light = "red" => briefs'[k].bearish >= Brief!MinScore
    <3>1. CASE k = q.key
      <4> DEFINE n == Brief!Answered(q.reading, lost)
      <4>1. briefs'[k] = Built(lost)
        BY <2>1, <3>1 DEF BriefInv, Brief!TypeOK
      <4>2. Brief!LightOf(n) = "green" => Brief!Score(n, "bullish") >= Brief!MinScore
        BY DEF Brief!LightOf
      <4>3. Brief!LightOf(n) = "red" => Brief!Score(n, "bearish") >= Brief!MinScore
        BY DEF Brief!LightOf
      <4>4. Brief!Score(n, "bullish") <= Brief!Score(q.reading, "bullish")
        BY <2>3, FailureIsNoVote
      <4>5. Brief!Score(n, "bearish") <= Brief!Score(q.reading, "bearish")
        BY <2>3, FailureIsNoVote
      <4>6. /\ Brief!Score(n, "bullish") \in 0..6 /\ Brief!Score(n, "bearish") \in 0..6
            /\ Brief!Score(q.reading, "bullish") \in 0..6
            /\ Brief!Score(q.reading, "bearish") \in 0..6
        BY ScoreType
      <4>7. QED
        BY <4>1, <4>2, <4>3, <4>4, <4>5, <4>6 DEF Brief!MinScore
    <3>2. CASE k # q.key
      BY <2>1, <2>10, <3>2 DEF BriefInv, Brief!TypeOK, Brief!ColourIsEarned
    <3>3. QED
      BY <3>1, <3>2
  <2>11. QED
    BY <2>5, <2>7, <2>8, <2>9, <2>10 DEF BriefInv, Brief!TypeOK, Compares, Brief!ColourIsEarned
<1>5. ASSUME NEW k \in Keys, Brief!Expire(k) PROVE BriefInv'
  <2>1. briefs' = [briefs EXCEPT ![k].fresh = FALSE] /\ UNCHANGED <<lights, builds>>
    BY <1>5 DEF Brief!Expire
  <2>2. briefs[k] # None /\ briefs[k] \in Brief!Brief
    BY <1>5 DEF Brief!Expire, Brief!Fresh, BriefInv, Brief!TypeOK
  <2>3. [briefs[k] EXCEPT !.fresh = FALSE] \in Brief!Brief
    BY <2>2 DEF Brief!Brief
  <2>4. /\ [briefs[k] EXCEPT !.fresh = FALSE] # None
        /\ [briefs[k] EXCEPT !.fresh = FALSE].light = briefs[k].light
        /\ [briefs[k] EXCEPT !.fresh = FALSE].bullish = briefs[k].bullish
        /\ [briefs[k] EXCEPT !.fresh = FALSE].bearish = briefs[k].bearish
    BY <2>2, <2>3, ReadingsAssumption DEF Brief!Brief
  <2>5. briefs' = [briefs EXCEPT ![k] = [briefs[k] EXCEPT !.fresh = FALSE]]
    BY <2>1
  <2>6. Brief!TypeOK'
    BY <2>1, <2>3, <2>5 DEF BriefInv, Brief!TypeOK
  <2>7. \A j \in Keys : lights'[j] = Brief!Shown(briefs'[j])
    BY <2>1, <2>2, <2>4, <2>5 DEF BriefInv, Brief!TypeOK, Brief!Shown
  <2>8. Compares'
    BY <2>1 DEF BriefInv, Compares
  <2>9. Brief!ColourIsEarned'
    BY <2>2, <2>4, <2>5 DEF BriefInv, Brief!TypeOK, Brief!ColourIsEarned
  <2>10. QED
    BY <2>6, <2>7, <2>8, <2>9 DEF BriefInv
<1>6. CASE Brief!Restart
  BY <1>6
     DEF Brief!Restart, BriefInv, Brief!TypeOK, Compares, Brief!ColourIsEarned, Brief!Idle,
         Brief!Request, Brief!Shown
<1>7. CASE UNCHANGED Brief!vars
  BY <1>7 DEF Brief!vars, BriefInv, Brief!TypeOK, Compares, Brief!ColourIsEarned
<1>8. QED
  BY <1>1, <1>2, <1>3, <1>4, <1>5, <1>6, <1>7 DEF Brief!Next

\* Only a store ends a build that has its events and leaves a brief.
LEMMA OnlyStoreStores ==
    ASSUME BriefInv, [Brief!Next]_(Brief!vars), NEW r \in BriefRequests, NEW k \in Keys,
           Brief!Stores(r, k)
    PROVE  Brief!Store(r)
<1>1. builds[r].pc = "events" /\ builds'[r] = Brief!Idle /\ briefs'[k] # None
  BY DEF Brief!Stores
<1>2. ASSUME NEW p \in BriefRequests, Brief!Begin(p) \/ Brief!Fetched(p) \/ Brief!FetchFails(p)
             PROVE FALSE
  <2>1. builds[p].pc \in {"idle", "fetch"} /\ \A x \in BriefRequests : x # p
        => builds'[x] = builds[x]
    BY <1>2 DEF Brief!Begin, Brief!Fetched, Brief!FetchFails, BriefInv, Brief!TypeOK
  <2>2. QED
    BY <1>1, <2>1 DEF Brief!Idle
<1>3. ASSUME NEW p \in BriefRequests, Brief!Store(p), p # r PROVE FALSE
  <2>1. builds[r] \in Brief!Request
    BY DEF BriefInv, Brief!TypeOK
  <2>2. builds'[r] \in {builds[r], [builds[r] EXCEPT !.latest = FALSE]}
    BY <1>3 DEF Brief!Store
  <2>3. [builds[r] EXCEPT !.latest = FALSE].pc = builds[r].pc
    BY <1>1, <2>1 DEF Brief!Request
  <2>4. QED
    BY <1>1, <2>2, <2>3 DEF Brief!Idle
<1>4. ASSUME (\E j \in Keys : Brief!Expire(j)) \/ UNCHANGED Brief!vars PROVE FALSE
  BY <1>1, <1>4 DEF Brief!Expire, Brief!vars, Brief!Idle
<1>5. ~Brief!Restart
  BY <1>1 DEF Brief!Restart
<1>6. QED
  BY <1>2, <1>3, <1>4, <1>5 DEF Brief!Next

LEMMA LightsStep == ASSUME BriefInv, [Brief!Next]_(Brief!vars) PROVE Brief!LightsChainStep
<1> SUFFICES ASSUME NEW r \in BriefRequests, NEW k \in Keys, Brief!Stores(r, k), builds[r].latest
             PROVE  /\ briefs'[k].previous = Brief!Shown(briefs[k])
                    /\ briefs'[k].change = Brief!ChangeOf(Brief!Shown(briefs[k]), briefs'[k].light)
  BY DEF Brief!LightsChainStep
<1>1. Brief!Store(r) /\ builds[r].pc = "events" /\ builds[r].key = k
  BY OnlyStoreStores DEF Brief!Stores
<1>2. builds[r].previous = Brief!Shown(briefs[k])
  BY <1>1 DEF BriefInv, Compares
<1>3. briefs'[k].previous = builds[r].previous
      /\ briefs'[k].change = Brief!ChangeOf(builds[r].previous, briefs'[k].light)
  BY <1>1 DEF Brief!Store, BriefInv, Brief!TypeOK
<1>4. QED
  BY <1>2, <1>3

LEMMA BriefInvariant == Brief!Spec => []BriefInv
<1>1. BriefInv /\ [Brief!Next]_(Brief!vars) => BriefInv'
  BY BriefNext
<1>2. QED
  BY <1>1, BriefInit, PTL DEF Brief!Spec

\* A green or red light has three factors for it in what the sources would all have
\* answered, whichever of them failed (buildBrief, fundingTone, fearGreedTone).
THEOREM ColoursEarned == Brief!Spec => []Brief!ColourIsEarned
<1>1. BriefInv => Brief!ColourIsEarned
  BY DEF BriefInv
<1>2. QED
  BY <1>1, BriefInvariant, PTL

\* Unless another build of its key was stored since it began, a brief counts its change
\* from the light that readers were shown last (getBrief, previousLightCache).
THEOREM LightsFollow == Brief!Spec => Brief!LightsChain
<1>1. BriefInv /\ [Brief!Next]_(Brief!vars) => Brief!LightsChainStep
  BY LightsStep
<1>2. QED
  BY <1>1, BriefInvariant, PTL DEF Brief!Spec, Brief!LightsChain

-----------------------------------------------------------------------------
(* The services beside the memberships: a step of one is a step of its       *)
(* specification, and leaves the others as they are.                         *)

LEMMA MembershipsAreServed == ServicesSpec => Spec
<1>1. ServicesInit => Init
  BY DEF ServicesInit
<1>2. [ServicesNext]_servicesVars => [Next]_vars
  BY DEF ServicesNext, MembersStep, ChainStep, ClientStep, BriefStep, LevelStep, servicesVars
<1>3. QED
  BY <1>1, <1>2, PTL DEF ServicesSpec, Spec

LEMMA ChainOrdersAreServed == ServicesSpec => Chain!Spec
<1>1. ServicesInit => Chain!Init
  BY DEF ServicesInit
<1>2. [ServicesNext]_servicesVars => [Chain!Next]_(Chain!vars)
  BY DEF ServicesNext, MembersStep, ServicesRest, ChainStep, ClientStep, BriefStep, LevelStep,
         servicesVars, chainVars, Chain!vars
<1>3. QED
  BY <1>1, <1>2, PTL DEF ServicesSpec, Chain!Spec

LEMMA ClientsAreServed == ServicesSpec => Limiter!Spec
<1>1. ServicesInit => Limiter!Init
  BY DEF ServicesInit
<1>2. [ServicesNext]_servicesVars => [Limiter!Next]_(Limiter!vars)
  BY DEF ServicesNext, MembersStep, ServicesRest, ChainStep, ClientStep, BriefStep, LevelStep,
         servicesVars, clientVars, Limiter!vars
<1>3. QED
  BY <1>1, <1>2, PTL DEF ServicesSpec, Limiter!Spec

LEMMA BriefsAreServed == ServicesSpec => Brief!Spec
<1>1. ServicesInit => Brief!Init
  BY DEF ServicesInit
<1>2. [ServicesNext]_servicesVars => [Brief!Next]_(Brief!vars)
  BY DEF ServicesNext, MembersStep, ServicesRest, ChainStep, ClientStep, BriefStep, LevelStep,
         servicesVars, briefVars, Brief!vars
<1>3. QED
  BY <1>1, <1>2, PTL DEF ServicesSpec, Brief!Spec

LEMMA LevelsAreServed == ServicesSpec => Levels!Spec
<1>1. ServicesInit => Levels!Init
  BY DEF ServicesInit
<1>2. [ServicesNext]_servicesVars => [Levels!Next]_(Levels!vars)
  BY DEF ServicesNext, MembersStep, ServicesRest, ChainStep, ClientStep, BriefStep, LevelStep,
         servicesVars, levelVars, Levels!vars
<1>3. QED
  BY <1>1, <1>2, PTL DEF ServicesSpec, Levels!Spec

\* The variables of memberships, of a chain order, of the counter of a client, of the
\* briefs and of the levels keep their types.
THEOREM ServicesTyped == ServicesSpec => []MembersTypeOK
<1>1. OrderInv /\ LimitInv /\ BriefInv /\ LevelInv /\ TypeOK => MembersTypeOK
  BY DEF OrderInv, LimitInv, BriefInv, LevelInv, MembersTypeOK
<1>2. QED
  BY <1>1, MembershipsAreServed, ChainOrdersAreServed, ClientsAreServed, BriefsAreServed,
     LevelsAreServed, TypeCorrect, OrderInvariant, LimitInvariant, BriefInvariant, LevelInvariant,
     PTL

\* A chain order keeps its owner and id and says of the transaction what one post of it
\* said, however posts are repeated, reordered and overlapped (upsertFromChainTx).
THEOREM OnePostServed == ServicesSpec => OrderSaysOnePost
  BY ChainOrdersAreServed, RowSaysOnePost DEF OrderSaysOnePost

\* No stretch as long as a window sees more of a client's requests pass than twice the limit
\* and once the limit for each restart in it, and only who asked one process more than the
\* limit in a window is refused (rate-limit.middleware.ts).
THEOREM LimitServed == ServicesSpec => []PassedIsLimited
<1>1. Limiter!PassedIsLimited => PassedIsLimited
  BY DEF PassedIsLimited
<1>2. QED
  BY <1>1, ClientsAreServed, PassesLimited, PTL

\* A green or red light has three factors for it in what the sources would all have said
\* (buildBrief).
THEOREM ColourServed == ServicesSpec => []ColourIsEarned
<1>1. Brief!ColourIsEarned => ColourIsEarned
  BY DEF ColourIsEarned
<1>2. QED
  BY <1>1, BriefsAreServed, ColoursEarned, PTL

\* signalChange compares a brief with the one readers were shown last, unless another build
\* was stored in between (getBrief).
THEOREM LightsServed == ServicesSpec => LightsChain
  BY BriefsAreServed, LightsFollow DEF LightsChain

\* No two levels of a side are within the merging ratio, and each is near a pivot
\* (mergeCloseLevels).
THEOREM LevelsServed == ServicesSpec => []LevelsAreReal
<1>1. Levels!LevelsAreReal => LevelsAreReal
  BY DEF LevelsAreReal
<1>2. QED
  BY <1>1, LevelsAreServed, LevelsReal, PTL
=============================================================================
