--------------------------- MODULE KlineCacheProofs ---------------------------
(***************************************************************************)
(* Proofs about KlineCache, for every interval, limit, capacity and delay, *)
(* any number of requests and any queries: how fresh the bars of a         *)
(* response are, that none of its range is missing, and that the cache     *)
(* keeps its bounds and its order of use.                                  *)
(***************************************************************************)
EXTENDS KlineCache, FiniteSetTheorems, TLAPS

IsBar(b) == b.time \in Nat /\ b.seen \in Nat

\* A bar that lacks no more than Delay before its close.
NearlyClosed(b) == IsBar(b) /\ b.seen >= CloseTime(b) - Delay

\* What is known of the bars an answer brought, the first of them at `since`.
AnsweredSince(b, since) == IsBar(b) /\ (b.seen >= since \/ b.seen = CloseTime(b))

FetchInv(x) ==
    /\ x.asked \in Nat /\ x.since \in Nat
    /\ x.asked <= x.since /\ x.since <= now
    /\ x.got # {} => now <= x.since + Delay
    /\ \A b \in x.hits : NearlyClosed(b)
    /\ \A b \in x.got : AnsweredSince(b, x.since)

DoneInv(x) ==
    \A b \in x.bars : b.seen >= x.asked \/ b.seen >= CloseTime(b) - Delay

FreshInv ==
    /\ now \in Nat
    /\ request = [r \in Requests |-> request[r]]
    /\ \A c \in cache : NearlyClosed(c)
    /\ \A r \in Requests : request[r].pc = "fetch" => FetchInv(request[r])
    /\ \A r \in Requests : request[r].pc = "done" => DoneInv(request[r])

-----------------------------------------------------------------------------
\* Touching bars leaves in the cache what was there and what was touched.
LEMMA UsedNearlyClosed ==
    ASSUME NEW bars, \A b \in bars : NearlyClosed(b), \A c \in cache : NearlyClosed(c)
    PROVE  \A c \in Used(bars) : NearlyClosed(c)
<1> TAKE c \in Used(bars)
<1>1. \E b \in bars \cup cache : c.time = b.time /\ c.seen = b.seen
  <2>1. \E b \in bars \cup cache : \E n : c = Entry(b, n)
    BY Zenon DEF Used
  <2>2. QED
    BY <2>1 DEF Entry
<1>2. QED
  BY <1>1 DEF NearlyClosed, IsBar, CloseTime

\* The cache's answer to a lookup is made of its bars.
LEMMA HitsNearlyClosed ==
    ASSUME NEW start, NEW end, \A c \in cache : NearlyClosed(c)
    PROVE  \A b \in Hits(start, end) : NearlyClosed(b)
  BY DEF Hits, NearlyClosed, IsBar, CloseTime

\* The exchange knows every trade up to the time of its answer.
LEMMA AnswerSeen ==
    ASSUME NEW f, NEW t \in Nat
    PROVE  \A b \in Answer(f, t) : IsBar(b) /\ (b.seen = t \/ b.seen = CloseTime(b))
<1> TAKE b \in Answer(f, t)
<1>1. PICK o \in Opens(0, t) \cup Opens(f.from, AtMost(f.to, t)) :
          b = [time |-> o, seen |-> AtMost(t, o + Step)]
  BY DEF Answer, First, Last
<1>2. o \in Nat
  BY DEF Opens
<1>3. QED
  BY <1>1, <1>2, StepAssumption DEF AtMost, IsBar, CloseTime

\* A request that moves on with what it knows keeps the others as they are.
LEMMA RequestMoved ==
    ASSUME FreshInv, NEW r \in Requests, NEW state, SetRequest(r, state),
           now' = now, \A c \in cache' : NearlyClosed(c),
           state.pc = "fetch" => FetchInv(state),
           state.pc = "done" => DoneInv(state)
    PROVE  FreshInv'
<1>1. request' = [q \in Requests |-> IF q = r THEN state ELSE request[q]]
  BY DEF SetRequest, FreshInv
<1>2. \A c \in cache' : NearlyClosed(c)'
  BY DEF NearlyClosed, IsBar, CloseTime
<1>3. ASSUME NEW q \in Requests, request'[q].pc = "fetch" PROVE FetchInv(request[q])'
  <2>1. FetchInv(request'[q])
    BY <1>1, <1>3 DEF FreshInv
  <2>2. QED
    BY <2>1 DEF FetchInv, NearlyClosed, AnsweredSince, IsBar, CloseTime
<1>4. ASSUME NEW q \in Requests, request'[q].pc = "done" PROVE DoneInv(request[q])'
  <2>1. DoneInv(request'[q])
    BY <1>1, <1>4 DEF FreshInv
  <2>2. QED
    BY <2>1 DEF DoneInv, CloseTime
<1>5. QED
  BY <1>1, <1>2, <1>3, <1>4 DEF FreshInv

\* A request that is just beginning to fetch.
LEMMA FetchingInv ==
    ASSUME FreshInv, NEW q, NEW hits, NEW fetches, \A b \in hits : NearlyClosed(b)
    PROVE  /\ Fetching(q, hits, fetches).pc = "fetch"
           /\ FetchInv(Fetching(q, hits, fetches))
  BY DEF FreshInv, Fetching, FetchInv, Waiting

\* What a response holds was among the bars it was made of.
LEMMA DoneInvOf ==
    ASSUME NEW q, NEW asked, NEW bars,
           \A b \in bars : b.seen >= asked \/ b.seen >= CloseTime(b) - Delay
    PROVE  Done(q, asked, bars).pc = "done" /\ DoneInv(Done(q, asked, bars))
  BY DEF Done, DoneInv

LEMMA FreshInit == Init => FreshInv
  BY DEF Init, FreshInv, Idle

LEMMA FreshAsk ==
    ASSUME FreshInv, NEW r \in Requests, NEW q \in Queries,
           AskNewest(r, q) \/ AskOneSided(r, q) \/ AskRange(r, q)
    PROVE  FreshInv'
<1>1. CASE AskNewest(r, q)
  <2>1. PICK fetches : SetRequest(r, Fetching(q, {}, fetches)) /\ UNCHANGED <<now, cache>>
    BY <1>1 DEF AskNewest
  <2>2. QED
    BY <2>1, FetchingInv, RequestMoved DEF FreshInv
<1>2. CASE AskOneSided(r, q)
  <2>1. PICK fetches : SetRequest(r, Fetching(q, {}, fetches)) /\ UNCHANGED <<now, cache>>
    BY <1>2 DEF AskOneSided
  <2>2. QED
    BY <2>1, FetchingInv, RequestMoved DEF FreshInv
<1>3. CASE AskRange(r, q)
  <2> DEFINE hits == Hits(q.start, q.end)
             gaps == Gaps(q.start, q.end)
             state == IF gaps = {} THEN Done(q, now, hits) ELSE Fetching(q, hits, gaps)
  <2>1. SetRequest(r, state) /\ cache' = Used(hits) /\ now' = now
    BY <1>3 DEF AskRange
  <2>2. \A b \in hits : NearlyClosed(b)
    BY HitsNearlyClosed DEF FreshInv
  <2>3. \A c \in cache' : NearlyClosed(c)
    BY <2>1, <2>2, UsedNearlyClosed DEF FreshInv
  <2> HIDE DEF hits, gaps
  <2>4. CASE gaps = {}
    <3>1. state = Done(q, now, hits) /\ state.pc = "done" /\ DoneInv(state)
      BY <2>2, <2>4, DoneInvOf DEF NearlyClosed
    <3>2. QED
      BY <2>1, <2>3, <3>1, RequestMoved
  <2>5. CASE gaps # {}
    <3>1. state.pc = "fetch" /\ FetchInv(state)
      BY <2>2, <2>5, FetchingInv
    <3>2. QED
      BY <2>1, <2>3, <3>1, RequestMoved
  <2>6. QED
    BY <2>4, <2>5
<1>4. QED
  BY <1>1, <1>2, <1>3

LEMMA FreshFetch ==
    ASSUME FreshInv, NEW r \in Requests,
           FetchAnswered(r) \/ FetchFails(r) \/ FetchDone(r)
    PROVE  FreshInv'
<1>1. CASE FetchAnswered(r)
  <2> DEFINE x == request[r]
  <2>1. PICK f \in x.waits :
            SetRequest(r, Waiting(x.query, x.asked, x.hits, x.waits \ {f},
                                  x.got \cup Answer(f, now),
                                  IF x.got = {} THEN now ELSE x.since))
    BY <1>1 DEF FetchAnswered
  <2> DEFINE since == IF x.got = {} THEN now ELSE x.since
             state == Waiting(x.query, x.asked, x.hits, x.waits \ {f},
                              x.got \cup Answer(f, now), since)
  <2>2. FetchInv(x) /\ now' = now /\ cache' = cache /\ now \in Nat
    BY <1>1 DEF FetchAnswered, FreshInv
  <2>3. state.pc = "fetch" /\ FetchInv(state)
    <3>1. \A b \in Answer(f, now) : IsBar(b) /\ (b.seen = now \/ b.seen = CloseTime(b))
      BY <2>2, AnswerSeen
    <3> HIDE DEF x
    <3>2. \A b \in x.got \cup Answer(f, now) : AnsweredSince(b, since)
      BY <2>2, <3>1 DEF FetchInv, AnsweredSince, IsBar
    <3>3. QED
      BY <2>2, <3>2, LimitsAssumption DEF FetchInv, Waiting
  <2>4. SetRequest(r, state) /\ \A c \in cache' : NearlyClosed(c)
    BY <2>1, <2>2 DEF FreshInv
  <2> HIDE DEF state
  <2>5. QED
    BY <2>2, <2>3, <2>4, RequestMoved
<1>2. CASE FetchFails(r)
  BY <1>2, RequestMoved DEF FetchFails, FreshInv, Idle
<1>3. CASE FetchDone(r)
  <2> DEFINE x == request[r]
             bars == x.hits \cup x.got
  <2>1. /\ cache' = Used(Closed(x.got))
        /\ SetRequest(r, Done(x.query, x.asked, bars)) /\ now' = now
    BY <1>3 DEF FetchDone
  <2>2. FetchInv(x) /\ now \in Nat
    BY <1>3 DEF FetchDone, FreshInv
  <2>3. \A b \in Closed(x.got) : NearlyClosed(b)
    BY <2>2, StepAssumption, LimitsAssumption
       DEF Closed, FetchInv, AnsweredSince, NearlyClosed, IsBar, CloseTime
  <2>4. \A c \in cache' : NearlyClosed(c)
    BY <2>1, <2>3, UsedNearlyClosed DEF FreshInv
  <2>5. \A b \in bars : b.seen >= x.asked \/ b.seen >= CloseTime(b) - Delay
    BY <2>2, StepAssumption, LimitsAssumption
       DEF FetchInv, AnsweredSince, NearlyClosed, IsBar, CloseTime
  <2>6. QED
    BY <2>1, <2>4, <2>5, DoneInvOf, RequestMoved
<1>4. QED
  BY <1>1, <1>2, <1>3

\* The clock does not run past the delay of a request that has an answer.
LEMMA FreshTick == FreshInv /\ Tick => FreshInv'
<1> SUFFICES ASSUME FreshInv, Tick PROVE FreshInv'
  OBVIOUS
<1>1. now' = now + 1 /\ now \in Nat /\ cache' = cache /\ request' = request
  BY DEF Tick, FreshInv
<1>2. ASSUME NEW r \in Requests, request[r].pc = "fetch" PROVE FetchInv(request[r])'
  <2>1. FetchInv(request[r])
    BY <1>2 DEF FreshInv
  <2>2. request[r].got # {} => now < request[r].since + Delay
    BY <1>2 DEF Tick
  <2>3. QED
    BY <1>1, <2>1, <2>2, LimitsAssumption
       DEF FetchInv, NearlyClosed, AnsweredSince, IsBar, CloseTime
<1>3. QED
  BY <1>1, <1>2 DEF FreshInv, DoneInv, NearlyClosed, IsBar, CloseTime

LEMMA FreshNext == FreshInv /\ [Next]_vars => FreshInv'
<1> SUFFICES ASSUME FreshInv, [Next]_vars PROVE FreshInv'
  OBVIOUS
<1>1. CASE UNCHANGED vars
  BY <1>1 DEF vars, FreshInv, FetchInv, DoneInv, NearlyClosed, AnsweredSince, IsBar, CloseTime
<1>2. CASE Next
  BY <1>2, FreshAsk, FreshFetch, FreshTick DEF Next
<1>3. QED
  BY <1>1, <1>2

\* getKlines serves no bar that is older than the request, unless it was closed
\* but for what happened in the last Delay before its close: whatever was
\* cached, evicted or fetched by requests running at the same time.
THEOREM ServedFresh == Spec => []ServedIsFresh
<1>1. FreshInv => ServedIsFresh
  BY DEF FreshInv, ServedIsFresh, DoneInv
<1>2. QED
  BY FreshInit, FreshNext, <1>1, PTL DEF Spec
-----------------------------------------------------------------------------
(* Sets of times *)

Below(S, t) == {s \in S : s < t}

\* A set of times that is not empty has a first.
LEMMA FirstExists ==
    ASSUME NEW T \in SUBSET Nat, T # {}
    PROVE  \E x \in T : \A y \in T : x <= y
<1> DEFINE R == {p \in Nat \X Nat : p[1] < p[2]}
<1>1. OpToRel(<, Nat) = R
  BY DEF OpToRel
<1>2. IsWellFoundedOn(R, Nat)
  BY <1>1, NatLessThanWellFounded
<1> HIDE DEF R
<1>3. \E x \in T : \A y \in T : ~ (<<y, x>> \in R)
  BY <1>2, WFMin
<1>4. \A x, y \in Nat : y < x => <<y, x>> \in R
  BY DEF R
<1>5. ASSUME NEW x \in T, NEW y \in T, <<y, x>> \notin R PROVE x <= y
  <2>1. x \in Nat /\ y \in Nat
    OBVIOUS
  <2>2. ~(y < x)
    BY <1>4, <1>5, <2>1
  <2>3. QED
    BY <2>1, <2>2
<1>6. QED
  BY <1>3, <1>5, Zenon

\* The exchange has finitely many bars up to a time.
LEMMA OpensFinite ==
    ASSUME NEW from, NEW to \in Int
    PROVE  IsFiniteSet(Opens(from, to)) /\ Opens(from, to) \subseteq Nat
<1>1. IsFiniteSet(0..to)
  BY FS_Interval
<1>2. Opens(from, to) \in SUBSET (0..to)
  BY DEF Opens
<1>3. QED
  BY <1>1, <1>2, FS_Subset

LEMMA BelowFinite ==
    ASSUME NEW S, IsFiniteSet(S), NEW A \in SUBSET S, NEW t
    PROVE  /\ IsFiniteSet(Below(A, t)) /\ Cardinality(Below(A, t)) \in Nat
           /\ Cardinality(Below(A, t)) <= Cardinality(Below(S, t))
<1>1. Below(S, t) \in SUBSET S /\ Below(A, t) \in SUBSET Below(S, t)
  BY DEF Below
<1>2. IsFiniteSet(Below(S, t))
  BY <1>1, FS_Subset
<1>3. QED
  BY <1>1, <1>2, FS_Subset, FS_CardinalityType

\* The first n times are the same in a set and in a part of it, when what the
\* part lacks comes after n of its times.
LEMMA FirstCut ==
    ASSUME NEW B \in SUBSET Nat, IsFiniteSet(B), NEW A \in SUBSET B, NEW n \in Nat,
           \A y \in B \ A : Cardinality(Below(A, y)) >= n
    PROVE  First(A, n) = First(B, n)
<1>1. /\ First(A, n) = {x \in A : Cardinality(Below(A, x)) < n}
      /\ First(B, n) = {x \in B : Cardinality(Below(B, x)) < n}
  BY DEF First, Below
<1>2. ASSUME NEW x \in First(B, n) PROVE x \in First(A, n)
  <2>1. x \in B /\ Cardinality(Below(B, x)) < n
    BY <1>1
  <2>2. Cardinality(Below(A, x)) <= Cardinality(Below(B, x))
        /\ Cardinality(Below(A, x)) \in Nat /\ Cardinality(Below(B, x)) \in Nat
    BY BelowFinite
  <2>3. Cardinality(Below(A, x)) < n
    BY <2>1, <2>2
  <2>4. x \in A
    BY <2>1, <2>2, <2>3
  <2>5. QED
    BY <1>1, <2>3, <2>4
<1>3. ASSUME NEW x \in First(A, n) PROVE x \in First(B, n)
  <2>1. x \in A /\ Cardinality(Below(A, x)) < n
    BY <1>1
  <2>2. ASSUME NEW y \in B \ A, y < x PROVE FALSE
    <3>1. IsFiniteSet(A)
      BY FS_Subset
    <3>2. Below(A, y) \subseteq Below(A, x)
      <4>1. x \in Nat /\ y \in Nat /\ A \subseteq Nat
        BY <2>1
      <4>2. \A z \in A : z < y => z < x
        BY <2>2, <4>1
      <4>3. QED
        BY <4>2 DEF Below
    <3>3. IsFiniteSet(Below(A, x)) /\ Cardinality(Below(A, x)) \in Nat
          /\ Cardinality(Below(A, y)) \in Nat
      BY BelowFinite
    <3>4. Cardinality(Below(A, y)) <= Cardinality(Below(A, x))
      BY <3>2, <3>3, FS_Subset
    <3>5. Cardinality(Below(A, y)) >= n
      OBVIOUS
    <3>6. QED
      BY <2>1, <3>3, <3>4, <3>5
  <2>3. Below(B, x) = Below(A, x)
    BY <2>1, <2>2 DEF Below
  <2>4. QED
    BY <1>1, <2>1, <2>3
<1>4. QED
  BY <1>2, <1>3

\* What the first n times lack comes after n of them.
LEMMA FirstCounts ==
    ASSUME NEW B \in SUBSET Nat, IsFiniteSet(B), NEW n \in Nat, NEW y \in B \ First(B, n)
    PROVE  Cardinality(Below(First(B, n), y)) >= n
<1> DEFINE F == First(B, n)
<1>1. F = {x \in B : Cardinality(Below(B, x)) < n}
  BY DEF First, Below
<1>2. \A x \in B : Cardinality(Below(B, x)) \in Nat
  BY BelowFinite
<1>3. PICK z \in B \ F : \A x \in B \ F : z <= x
  <2>1. B \ F \in SUBSET Nat /\ B \ F # {}
    OBVIOUS
  <2>2. QED
    BY <2>1, FirstExists
<1>4. Cardinality(Below(B, z)) >= n
  BY <1>1, <1>2, <1>3
<1> HIDE DEF F
<1>5. Below(B, z) \subseteq Below(F, y)
  <2>1. z <= y /\ z \in Nat /\ y \in Nat
    BY <1>3 DEF F
  <2>2. \A x \in B : x \in Nat /\ (x < z => x \in F /\ x < y)
    BY <1>3, <2>1
  <2>3. QED
    BY <2>2 DEF Below
<1>6. IsFiniteSet(Below(F, y)) /\ Cardinality(Below(F, y)) \in Nat
  BY <1>1, BelowFinite
<1>7. Cardinality(Below(B, z)) <= Cardinality(Below(F, y))
  BY <1>5, <1>6, FS_Subset
<1>8. Cardinality(Below(F, y)) >= n
  BY <1>2, <1>3, <1>4, <1>6, <1>7
<1>9. QED
  BY <1>8 DEF F

\* The last n times are no more than n.
LEMMA FirstOfLast ==
    ASSUME NEW B \in SUBSET Nat, IsFiniteSet(B), NEW n \in Nat
    PROVE  First(Last(B, n), n) = Last(B, n)
<1> DEFINE L == Last(B, n)
           Above(S, t) == {s \in S : s > t}
<1>1. L = {x \in B : Cardinality(Above(B, x)) < n} /\ L \in SUBSET B
  BY DEF Last
<1>2. IsFiniteSet(L)
  BY <1>1, FS_Subset
<1> HIDE DEF L
<1>3. ASSUME NEW x \in L PROVE Cardinality(Below(L, x)) < n
  <2>1. PICK m \in L : \A y \in L : m <= y
    <3>1. L \in SUBSET Nat /\ L # {}
      BY <1>1
    <3>2. QED
      BY <3>1, FirstExists
  <2>2. Cardinality(Above(B, m)) < n
    BY <1>1
  <2>3. L \ {m} \subseteq Above(B, m)
    <3>1. \A y \in L : y \in B /\ y \in Nat /\ m <= y
      BY <1>1, <2>1
    <3>2. m \in Nat
      BY <3>1
    <3>3. QED
      BY <3>1, <3>2
  <2>4. Below(L, x) \subseteq L \ {x}
    BY <1>1 DEF Below
  <2>5. Above(B, m) \in SUBSET B
    OBVIOUS
  <2>6. IsFiniteSet(Above(B, m)) /\ Cardinality(Above(B, m)) \in Nat
    BY <2>5, FS_Subset, FS_CardinalityType
  <2>7. /\ IsFiniteSet(L \ {m}) /\ Cardinality(L \ {m}) = Cardinality(L) - 1
        /\ IsFiniteSet(L \ {x}) /\ Cardinality(L \ {x}) = Cardinality(L) - 1
        /\ Cardinality(L) \in Nat
    BY <1>2, <2>1, FS_RemoveElement, FS_CardinalityType
  <2>8. Cardinality(L \ {m}) <= Cardinality(Above(B, m))
    BY <2>3, <2>6, FS_Subset
  <2>9. Cardinality(Below(L, x)) <= Cardinality(L \ {x})
        /\ Cardinality(Below(L, x)) \in Nat
    BY <2>4, <2>7, FS_Subset, FS_CardinalityType
  <2> HIDE DEF Above
  <2>10. QED
    BY <2>2, <2>6, <2>7, <2>8, <2>9
<1>4. First(L, n) = {x \in L : Cardinality(Below(L, x)) < n}
  BY DEF First, Below
<1>5. First(L, n) = L
  BY <1>3, <1>4
<1>6. QED
  BY <1>5 DEF L

\* Division by the length of the interval.
LEMMA StepDivides ==
    ASSUME NEW x \in Nat
    PROVE  /\ x = Step * (x \div Step) + (x % Step)
           /\ x \div Step \in Nat /\ x % Step \in 0..(Step - 1)
<1>1. Step \in Nat \ {0}
  BY StepAssumption
<1>2. QED
  BY <1>1, Z3

LEMMA MultiplesApart ==
    ASSUME NEW a \in Int, NEW b \in Int, a > b
    PROVE  Step * a >= Step * b + Step
<1>1. Step \in Nat \ {0}
  BY StepAssumption
<1>2. PICK c \in Nat : a = b + 1 + c
  <2>1. a - b - 1 \in Nat /\ a = b + 1 + (a - b - 1)
    OBVIOUS
  <2>2. QED
    BY <2>1
<1>3. Step * a = Step * b + Step + Step * c /\ Step * c \in Nat
  BY <1>1, <1>2
<1>4. QED
  BY <1>1, <1>3

\* Two bars are at least one interval apart.
LEMMA BarsApart ==
    ASSUME NEW x \in Nat, NEW y \in Nat, x % Step = y % Step, x < y
    PROVE  x + Step <= y
<1>1. Step \in Nat \ {0}
  BY StepAssumption
<1> DEFINE p == x \div Step
           q == y \div Step
           m == x % Step
<1>2. x = Step * p + m /\ y = Step * q + m /\ p \in Nat /\ q \in Nat /\ m \in Nat
  BY StepDivides
<1> HIDE DEF p, q, m
<1>3. q > p
  <2>1. p > q => Step * p >= Step * q + Step
    BY <1>2, MultiplesApart
  <2>2. p = q => x = y
    BY <1>2
  <2>3. Step * p \in Nat /\ Step * q \in Nat
    BY <1>1, <1>2
  <2>4. QED
    BY <1>1, <1>2, <2>1, <2>2, <2>3
<1>4. Step * q >= Step * p + Step
  BY <1>2, <1>3, MultiplesApart
<1>5. Step * p \in Nat /\ Step * q \in Nat
  BY <1>1, <1>2
<1>6. QED
  BY <1>1, <1>2, <1>4, <1>5

LEMMA Remainder ==
    ASSUME NEW k \in Nat, NEW m \in 0..(Step - 1)
    PROVE  (Step * k + m) % Step = m
<1>1. Step \in Nat \ {0}
  BY StepAssumption
<1> DEFINE x == Step * k + m
           d == x \div Step
           r == x % Step
<1>2. x \in Nat /\ Step * k \in Nat /\ m \in Nat /\ m < Step
  BY <1>1
<1>3. x = Step * d + r /\ d \in Nat /\ r \in 0..(Step - 1) /\ Step * d \in Nat
  <2> HIDE DEF x
  <2>1. x = Step * d + r /\ d \in Nat /\ r \in 0..(Step - 1)
    BY <1>2, StepDivides
  <2>2. QED
    BY <1>1, <2>1
<1>4. x = Step * k + m
  OBVIOUS
<1> HIDE DEF x, d, r
<1>5. k > d => Step * k >= Step * d + Step
  BY <1>3, MultiplesApart
<1>6. d > k => Step * d >= Step * k + Step
  BY <1>3, MultiplesApart
<1>7. d = k
  BY <1>1, <1>2, <1>3, <1>4, <1>5, <1>6
<1>8. r = m
  BY <1>2, <1>3, <1>4, <1>7
<1>9. QED
  BY <1>8 DEF r, x

\* FetchLimit asks for as many bars as the range can hold.
LEMMA OpensCount ==
    ASSUME NEW from \in Nat, NEW to \in Int, from <= to
    PROVE  Cardinality(Opens(from, to)) <= (to - from + Step - 1) \div Step + 1
<1> DEFINE v == to - from + Step - 1
           K == v \div Step
           S == Opens(from, to)
           slot == [t \in S |-> (t - from) \div Step]
<1>1. Step \in Nat \ {0}
  BY StepAssumption
<1>2. \A t \in S : t \in Nat /\ from <= t /\ t <= to /\ t % Step = Offset
  BY DEF Opens
<1>3. v \in Nat /\ to - from <= v
  BY <1>1
<1>4. K \in Nat
  BY <1>3, StepDivides
<1>5. ASSUME NEW t \in S PROVE slot[t] \in 0..K
  <2> DEFINE u == t - from
  <2>1. u \in Nat /\ u <= v
    BY <1>2, <1>3
  <2> HIDE DEF v, u
  <2>2. u \div Step <= v \div Step /\ u \div Step \in Nat
    BY <1>1, <1>3, <2>1
  <2>3. slot[t] = u \div Step
    BY DEF u
  <2>4. QED
    BY <1>4, <2>2, <2>3
<1>6. ASSUME NEW t \in S, NEW u \in S, slot[t] = slot[u], t < u PROVE FALSE
  <2>1. t + Step <= u
    BY <1>2, <1>6, BarsApart
  <2> DEFINE a == t - from
             b == u - from
  <2>2. a \in Nat /\ b \in Nat /\ a + Step <= b
    BY <1>1, <1>2, <2>1
  <2>3. a \div Step = b \div Step
    BY <1>6
  <2> HIDE DEF a, b
  <2>4. /\ a = Step * (a \div Step) + (a % Step) /\ a % Step \in 0..(Step - 1)
        /\ b = Step * (b \div Step) + (b % Step) /\ b % Step \in 0..(Step - 1)
        /\ Step * (a \div Step) \in Nat
    BY <1>1, <2>2, StepDivides
  <2>5. QED
    BY <1>1, <2>2, <2>3, <2>4
<1>7. slot \in Injection(S, 0..K)
  <2>1. slot \in [S -> 0..K]
    BY <1>5
  <2>2. \A t, u \in S : slot[t] = slot[u] => t = u
    <3> HIDE DEF slot
    <3>1. \A t, u \in S : t < u \/ u < t \/ t = u
      BY <1>2
    <3>2. QED
      BY <3>1, <1>6
  <2>3. QED
    BY <2>1, <2>2 DEF Injection, IsInjective
<1>8. IsFiniteSet(0..K) /\ Cardinality(0..K) = K + 1
  BY <1>4, FS_Interval
<1> HIDE DEF K, S, slot
<1>9. Cardinality(S) <= K + 1
  BY <1>7, <1>8, FS_Injection
<1>10. QED
  BY <1>9 DEF K, S

-----------------------------------------------------------------------------
(* The bars of a response: what is known of one in the making.  The times of  *)
(* its answers are not part of the state, so that the invariant says: there   *)
(* is a time T to which the range is covered.                                 *)

Times(bars) == {b.time : b \in bars}

\* No two bars of the set open at the same time.
OncePerTime(bars) == \A b, c \in bars : b.time = c.time => b = c

IsOfRange(f, t) == f.from <= t /\ t <= f.to

\* The bars of the query's range, were they all there.
Wanted(x) == Opens(FirstTime(x.query), LastTime(x.query, x.asked))

\* A call of the exchange for a part of the range, whose limit cuts nothing that
\* the response would keep.
PartOf(x, f) ==
    /\ f.newest = FALSE /\ f.from \in Nat /\ f.to \in Int /\ f.limit \in Nat
    /\ FirstTime(x.query) <= f.from /\ f.to <= LastTime(x.query, x.asked)
    /\ f.limit >= Limit(x.query) \/ Cardinality(Opens(f.from, f.to)) <= f.limit

\* The parts awaited do not meet each other nor what is there, and all but one
\* of them end before the question.
PartsApart(x) ==
    /\ \A f, g \in x.waits : f # g =>
        /\ \A t \in Nat : ~(IsOfRange(f, t) /\ IsOfRange(g, t))
        /\ f.to <= x.asked \/ g.to <= x.asked
    /\ \A f \in x.waits, b \in x.hits \cup x.got : ~IsOfRange(f, b.time)

Awaited(x, t) == \E f \in x.waits : IsOfRange(f, t)

\* The response is full before the bar of time t.
CutBefore(x, t) == Cardinality(Below(Times(x.got), t)) >= Limit(x.query)

\* Every bar up to T is there, awaited or cut; one that opened later may be
\* missing only when the part of the range that reaches the present is answered.
CoveredTo(x, T) ==
    /\ \A b \in x.got : b.time \in Wanted(x) /\ b.time <= T
    /\ \A t \in Wanted(x) :
        \/ t \in Times(x.hits \cup x.got)
        \/ Awaited(x, t)
        \/ CutBefore(x, t)
        \/ t > T /\ \A f \in x.waits : f.to <= x.asked

\* A request for a range that is fetching its gaps, or all of it, at time t.
RangeInv(x, t) ==
    /\ x.query.end = None \/ x.query.start <= x.query.end
    /\ \A f \in x.waits : PartOf(x, f)
    /\ PartsApart(x)
    /\ OncePerTime(x.hits \cup x.got)
    /\ \A b \in x.hits : b.time \in Wanted(x) /\ b.time <= x.asked
    /\ \E T \in x.asked..t : CoveredTo(x, T)

\* A request for the newest bars, before and after its only answer.
NewestInv(x, t) ==
    /\ x.hits = {}
    /\ \/ x.waits = {[newest |-> TRUE, limit |-> Limit(x.query)]} /\ x.got = {}
       \/ /\ x.waits = {} /\ OncePerTime(x.got)
          /\ \E T \in x.asked..t : Times(x.got) = Last(Opens(0, T), Limit(x.query))

FetchingInvOf(x, t) ==
    /\ x.query \in Queries /\ x.asked \in Nat /\ x.asked <= t
    /\ IF x.query.start = None /\ x.query.end = None THEN NewestInv(x, t) ELSE RangeInv(x, t)

\* What ServedIsComplete says of one response.
Served(x) ==
    /\ OncePerTime(x.bars)
    /\ \E T \in x.asked..x.at : Times(x.bars) = Expected(x.query, x.asked, T)

\* The cache holds closed bars only, each of them once.
CacheInv ==
    /\ \A c \in cache : c.time \in Nat /\ c.time % Step = Offset /\ CloseTime(c) <= now
    /\ OncePerTime(cache)

CompleteInv ==
    /\ now \in Nat
    /\ request = [r \in Requests |-> request[r]]
    /\ CacheInv
    /\ \A r \in Requests : request[r].pc = "fetch" => FetchingInvOf(request[r], now)
    /\ \A r \in Requests : request[r].pc = "done" => Served(request[r])

-----------------------------------------------------------------------------
(* The gaps that a lookup leaves *)

Hit(start, end) == Slots(start, end) \ Missing(start, end)

IsGap(start, end, f) ==
    /\ f = [newest |-> FALSE, from |-> f.from, to |-> f.to,
            limit |-> FetchLimit(f.from, f.to)]
    /\ f.from \in Missing(start, end) /\ f.from - Step \notin Missing(start, end)
    /\ \/ f.to = end /\ \A h \in Hit(start, end) : h <= f.from
       \/ \E h \in Hit(start, end) :
            /\ f.from < h /\ f.to = h - 1
            /\ \A g \in Hit(start, end) : g > f.from => h <= g

LEMMA SlotStart ==
    ASSUME NEW start \in Nat
    PROVE  start - (start % Step) \in Nat /\ (start - (start % Step)) % Step = 0
           /\ start - (start % Step) <= start
<1>1. Step \in Nat \ {0}
  BY StepAssumption
<1> DEFINE k == start \div Step
           m == start % Step
<1>2. start = Step * k + m /\ k \in Nat /\ m \in 0..(Step - 1)
  BY StepDivides
<1> HIDE DEF k, m
<1>3. Step * k \in Nat
  BY <1>1, <1>2
<1>4. start - m = Step * k + 0 /\ start - m <= start
  BY <1>1, <1>2, <1>3
<1>5. (Step * k + 0) % Step = 0
  BY <1>1, <1>2, Remainder
<1>6. QED
  BY <1>3, <1>4, <1>5 DEF m

LEMMA SlotBefore ==
    ASSUME NEW x \in Nat, x % Step = 0, x >= Step
    PROVE  x - Step \in Nat /\ (x - Step) % Step = 0
<1>1. Step \in Nat \ {0}
  BY StepAssumption
<1> DEFINE k == x \div Step
<1>2. x = Step * k /\ k \in Nat
  BY <1>1, StepDivides
<1> HIDE DEF k
<1>3. k # 0
  BY <1>1, <1>2
<1>4. x - Step = Step * (k - 1) + 0 /\ k - 1 \in Nat
  BY <1>1, <1>2, <1>3
<1>5. (Step * (k - 1) + 0) % Step = 0
  BY <1>1, <1>4, Remainder
<1>6. QED
  BY <1>1, <1>4, <1>5

LEMMA SlotsAre ==
    ASSUME NEW start \in Nat, NEW end \in Nat
    PROVE  /\ Slots(start, end) \subseteq Nat
           /\ \A t \in Slots(start, end) :
                /\ t \in Nat /\ start - (start % Step) <= t /\ t <= end
                /\ t % Step = 0
           /\ \A t \in Nat : start <= end /\ start - (start % Step) <= t /\ t <= end
                             /\ t % Step = 0 => t \in Slots(start, end)
           /\ Missing(start, end) \subseteq Slots(start, end)
           /\ Hit(start, end) \subseteq Slots(start, end)
           /\ \A t \in Slots(start, end) : t \in Hit(start, end) \/ t \in Missing(start, end)
           /\ \A t \in Missing(start, end) : t \notin Hit(start, end)
<1>1. start - (start % Step) \in Nat
  BY SlotStart
<1>2. QED
  BY <1>1 DEF Slots, Missing, Hit

\* The gaps are one for each slot missing after one that is not.
LEMMA GapsAre ==
    ASSUME NEW start \in Nat, NEW end \in Nat
    PROVE  /\ \A f \in Gaps(start, end) : IsGap(start, end, f)
           /\ \A t \in Missing(start, end) : t - Step \notin Missing(start, end)
                => \E f \in Gaps(start, end) : f.from = t
<1> DEFINE missing == Missing(start, end)
           hit == Slots(start, end) \ missing
           firsts == {t \in missing : t - Step \notin missing}
           Nearest(t) == CHOOSE h \in hit : h > t /\ \A g \in hit : g > t => h <= g
           Until(t) == IF \E h \in hit : h > t THEN Nearest(t) - 1 ELSE end
           Gap(t) == [newest |-> FALSE, from |-> t, to |-> Until(t),
                      limit |-> FetchLimit(t, Until(t))]
<1>1. Gaps(start, end) = {Gap(t) : t \in firsts}
  BY DEF Gaps
<1>2. hit = Hit(start, end) /\ hit \subseteq Nat
  BY SlotsAre DEF Hit
<1>3. ASSUME NEW t \in firsts PROVE IsGap(start, end, Gap(t))
  <2>1. Gap(t) = [newest |-> FALSE, from |-> Gap(t).from, to |-> Gap(t).to,
                  limit |-> FetchLimit(Gap(t).from, Gap(t).to)]
        /\ Gap(t).from = t /\ Gap(t).to = Until(t)
    OBVIOUS
  <2>2. CASE \E h \in hit : h > t
    <3> DEFINE later == {h \in hit : h > t}
    <3>1. later \in SUBSET Nat /\ later # {}
      BY <1>2, <2>2
    <3>2. \E x \in later : \A y \in later : x <= y
      BY <3>1, FirstExists
    <3>3. \E h \in hit : h > t /\ \A g \in hit : g > t => h <= g
      BY <3>2
    <3>4. Nearest(t) \in hit /\ Nearest(t) > t /\ \A g \in hit : g > t => Nearest(t) <= g
      BY <3>3
    <3>5. Until(t) = Nearest(t) - 1
      BY <2>2
    <3> HIDE DEF Nearest, Until, Gap, hit, later
    <3>6. \E h \in hit : t < h /\ Until(t) = h - 1 /\ \A g \in hit : g > t => h <= g
      <4>1. t \in Nat /\ Nearest(t) \in Nat
        BY <1>2, <3>4, SlotsAre
      <4>2. t < Nearest(t)
        BY <3>4, <4>1
      <4>3. QED
        BY <3>4, <3>5, <4>2
    <3>7. t \in missing /\ t - Step \notin missing
      OBVIOUS
    <3>8. QED
      BY <1>2, <2>1, <3>6, <3>7 DEF IsGap
  <2>3. CASE ~\E h \in hit : h > t
    <3>1. Until(t) = end
      BY <2>3
    <3>2. \A h \in hit : h <= t
      <4>1. t \in Nat /\ \A h \in hit : h \in Nat
        BY <1>2, SlotsAre
      <4> HIDE DEF hit
      <4>2. QED
        BY <2>3, <4>1
    <3>3. t \in missing /\ t - Step \notin missing
      OBVIOUS
    <3> HIDE DEF Until, Gap, hit
    <3>4. QED
      BY <1>2, <2>1, <3>1, <3>2, <3>3 DEF IsGap
  <2>4. QED
    BY <2>2, <2>3
<1>4. \A t \in firsts : Gap(t).from = t
  OBVIOUS
<1> HIDE DEF Gap
<1>5. QED
  BY <1>1, <1>3, <1>4

\* What a lookup finds is in the cache: bars of the range that were closed.
LEMMA HitsAre ==
    ASSUME CacheInv, now \in Nat, NEW start \in Nat, NEW end \in Nat
    PROVE  /\ Times(Hits(start, end)) = Hit(start, end)
           /\ OncePerTime(Hits(start, end))
           /\ \A h \in Hit(start, end) :
                /\ h \in Opens(start - (start % Step), end) /\ h < now
<1> DEFINE lo == start - (start % Step)
<1>1. Times(Hits(start, end)) = Hit(start, end)
  <2>1. \A t : t \in Hit(start, end)
                  <=> t \in Slots(start, end) /\ \E c \in cache : c.time = t
    BY DEF Hit, Missing
  <2>2. ASSUME NEW t \in Times(Hits(start, end)) PROVE t \in Hit(start, end)
    <3>1. PICK b \in Hits(start, end) : t = b.time
      BY DEF Times
    <3>2. PICK c \in cache : c.time \in Slots(start, end) /\ b = [time |-> c.time, seen |-> c.seen]
      BY DEF Hits
    <3>3. QED
      BY <2>1, <3>1, <3>2
  <2>3. ASSUME NEW t \in Hit(start, end) PROVE t \in Times(Hits(start, end))
    <3>1. PICK c \in cache : c.time = t /\ t \in Slots(start, end)
      BY <2>1
    <3>2. [time |-> c.time, seen |-> c.seen] \in Hits(start, end)
      BY <3>1 DEF Hits
    <3>3. QED
      BY <3>1, <3>2 DEF Times
  <2>4. QED
    BY <2>2, <2>3
<1>2. OncePerTime(Hits(start, end))
  BY DEF OncePerTime, Hits, CacheInv
<1>3. ASSUME NEW h \in Hit(start, end)
      PROVE  h \in Opens(lo, end) /\ h < now
  <2>1. h \in Slots(start, end) /\ h \in Nat /\ lo <= h /\ h <= end
    BY SlotsAre
  <2>2. PICK c \in cache : c.time = h
    BY <2>1 DEF Hit, Missing
  <2>3. h % Step = Offset /\ h + Step <= now
    BY <2>2 DEF CacheInv, CloseTime
  <2>4. h \in Opens(lo, end)
    BY <2>1, <2>3 DEF Opens
  <2>5. QED
    BY <2>1, <2>3, <2>4, StepAssumption
<1>4. QED
  BY <1>1, <1>2, <1>3

\* The gaps are parts of the range that do not meet, and all but the last of
\* them end before a bar that was closed.
LEMMA GapsApart ==
    ASSUME CacheInv, now \in Nat, NEW start \in Nat, NEW end \in Nat,
           NEW f \in Gaps(start, end), NEW g \in Gaps(start, end), f # g
    PROVE  /\ f.to < g.from \/ g.to < f.from
           /\ f.to <= now \/ g.to <= now
<1>1. IsGap(start, end, f) /\ IsGap(start, end, g)
  BY GapsAre
<1>2. /\ f.from \in Nat /\ g.from \in Nat
      /\ \A h \in Hit(start, end) : h \in Nat /\ h < now
  BY <1>1, SlotsAre, HitsAre DEF IsGap
<1>3. ASSUME NEW a, NEW b, IsGap(start, end, a), IsGap(start, end, b), a.from < b.from,
             a.from \in Nat, b.from \in Nat
      PROVE  a.to < b.from /\ a.to <= now
  <2>1. a.from % Step = 0 /\ b.from % Step = 0
        /\ start - (start % Step) <= a.from /\ b.from <= end
        /\ a.from \in Slots(start, end) /\ start <= end
        /\ start - (start % Step) \in Nat
    <3>1. a.from \in Slots(start, end) /\ b.from \in Slots(start, end)
      BY <1>3, SlotsAre DEF IsGap
    <3>2. start <= end
      BY <3>1 DEF Slots
    <3>3. QED
      BY <3>1, <3>2, SlotsAre, SlotStart
  <2>2. a.from + Step <= b.from
    BY <1>3, <2>1, BarsApart
  <2> DEFINE s == b.from - Step
  <2>3. s \in Nat /\ s % Step = 0 /\ a.from <= s /\ s <= end
        /\ start - (start % Step) <= s /\ s < b.from
    <3>1. Step \in Nat \ {0} /\ b.from >= Step
      BY <1>3, <2>2, StepAssumption
    <3>2. s \in Nat /\ s % Step = 0
      BY <1>3, <2>1, <3>1, SlotBefore
    <3> HIDE DEF s
    <3>3. s = b.from - Step
      BY DEF s
    <3>4. start % Step \in Nat
      BY StepDivides
    <3>5. a.from <= s /\ s < b.from
      BY <1>3, <2>2, <3>1, <3>2, <3>3
    <3>6. QED
      BY <1>3, <2>1, <3>2, <3>4, <3>5
  <2>4. s \in Hit(start, end)
    <3>1. s \in Slots(start, end)
      BY <2>1, <2>3, SlotsAre
    <3>2. s \notin Missing(start, end)
      BY <1>3 DEF IsGap
    <3>3. QED
      BY <3>1, <3>2, SlotsAre
  <2>5. s # a.from
    BY <1>3 DEF IsGap
  <2> HIDE DEF s
  <2>6. a.from < s
    BY <1>3, <2>3, <2>5
  <2>7. PICK h \in Hit(start, end) :
            a.from < h /\ a.to = h - 1 /\ \A i \in Hit(start, end) : i > a.from => h <= i
    BY <1>3, <2>3, <2>4, <2>6 DEF IsGap
  <2>8. h <= s
    BY <1>3, <2>3, <2>4, <2>6, <2>7
  <2>9. QED
    BY <1>2, <1>3, <2>3, <2>7, <2>8
<1>4. f.from # g.from
  <2> SUFFICES ASSUME f.from = g.from PROVE FALSE
    OBVIOUS
  <2>1. f.to = g.to
    <3>1. CASE f.to = end /\ \A h \in Hit(start, end) : h <= f.from
      BY <1>1, <1>2, <3>1 DEF IsGap
    <3>2. ASSUME NEW h \in Hit(start, end), f.from < h, f.to = h - 1,
                 \A i \in Hit(start, end) : i > f.from => h <= i
          PROVE  f.to = g.to
      <4>1. ~(\A i \in Hit(start, end) : i <= g.from)
        BY <1>2, <3>2
      <4>2. PICK i \in Hit(start, end) :
                g.from < i /\ g.to = i - 1 /\ \A j \in Hit(start, end) : j > g.from => i <= j
        BY <1>1, <4>1 DEF IsGap
      <4>3. h <= i /\ i <= h
        BY <1>2, <3>2, <4>2
      <4>4. QED
        BY <1>2, <3>2, <4>2, <4>3
    <3>3. QED
      BY <1>1, <3>1, <3>2 DEF IsGap
  <2>2. QED
    BY <1>1, <2>1 DEF IsGap
<1>5. CASE f.from < g.from
  BY <1>1, <1>2, <1>3, <1>5
<1>6. CASE g.from < f.from
  BY <1>1, <1>2, <1>3, <1>6
<1>7. QED
  BY <1>2, <1>4, <1>5, <1>6

LEMMA GapMissesHits ==
    ASSUME NEW start \in Nat, NEW end \in Nat,
           NEW f \in Gaps(start, end), NEW h \in Hit(start, end)
    PROVE  ~IsOfRange(f, h)
<1>1. IsGap(start, end, f)
  BY GapsAre
<1>2. f.from \in Nat /\ h \in Nat /\ f.from # h /\ Hit(start, end) \subseteq Nat
  BY <1>1, SlotsAre DEF IsGap
<1>3. QED
  BY <1>1, <1>2 DEF IsGap, IsOfRange

\* Every bar of the range is found or is in a gap.
LEMMA GapsCover ==
    ASSUME CacheInv, now \in Nat, NEW start \in Nat, NEW end \in Nat, start <= end,
           NEW t \in Opens(start - (start % Step), end), t \notin Hit(start, end)
    PROVE  \E f \in Gaps(start, end) : IsOfRange(f, t)
<1> DEFINE lo == start - (start % Step)
           missing == Missing(start, end)
           hit == Hit(start, end)
           U == {s \in missing : s <= t /\ \A h \in hit : ~(s <= h /\ h <= t)}
<1>1. lo \in Nat /\ lo % Step = 0 /\ lo <= start
  BY SlotStart
<1>2. t \in Nat /\ lo <= t /\ t <= end /\ t % Step = Offset
  BY DEF Opens
<1>3. hit \subseteq Nat /\ missing \subseteq Nat
      /\ \A h \in hit : h % Step = 0 /\ h % Step = Offset /\ lo <= h
  <2>1. \A h \in hit : h % Step = Offset
    BY HitsAre DEF Opens
  <2>2. QED
    BY <2>1, SlotsAre
<1>4. \E s \in U : TRUE
  <2>1. CASE Offset = 0
    <3>1. t \in Slots(start, end)
      BY <1>2, <2>1, SlotsAre
    <3>2. t \in missing
      BY <3>1, SlotsAre
    <3> HIDE DEF missing, hit
    <3>3. \A h \in hit : ~(t <= h /\ h <= t)
      BY <1>2, <1>3 DEF hit
    <3>4. t \in U
      BY <1>2, <3>2, <3>3
    <3>5. QED
      BY <3>4
  <2>2. CASE Offset # 0
    <3>1. hit = {}
      BY <1>3, <2>2
    <3>2. lo \in Slots(start, end)
      <4> HIDE DEF lo
      <4>1. lo <= end
        BY <1>1
      <4>2. QED
        BY <1>1, <4>1, SlotsAre DEF lo
    <3>3. lo \in missing
      BY <3>1, <3>2, SlotsAre
    <3> HIDE DEF missing, hit, lo
    <3>4. lo \in U
      BY <1>2, <3>1, <3>3
    <3>5. QED
      BY <3>4
  <2>3. QED
    BY <2>1, <2>2
<1>5. PICK s \in U : \A x \in U : s <= x
  <2>1. U \in SUBSET Nat /\ U # {}
    BY <1>3, <1>4
  <2>2. QED
    BY <2>1, FirstExists
<1>6. s \in Nat /\ s % Step = 0 /\ s <= t
  BY <1>5, SlotsAre
<1>7. s - Step \notin missing
  <2> SUFFICES ASSUME s - Step \in missing PROVE FALSE
    OBVIOUS
  <2> DEFINE p == s - Step
  <2>1. p \in Nat /\ p % Step = 0 /\ p < s
    <3>1. p \in Nat /\ p % Step = 0
      BY <1>3, SlotsAre
    <3>2. QED
      BY <1>6, <3>1, StepAssumption
  <2>2. ASSUME NEW h \in hit, p <= h, h <= t PROVE FALSE
    <3>1. h \in Nat /\ h % Step = 0 /\ p # h
      BY <1>3, SlotsAre
    <3> HIDE DEF p, hit, missing
    <3>2. p + Step <= h
      BY <2>1, <2>2, <3>1, BarsApart
    <3>3. s <= h
      BY <1>6, <3>1, <3>2, StepAssumption DEF p
    <3>4. QED
      BY <1>5, <2>2, <3>3
  <2>3. p <= t
    BY <1>2, <1>6, <2>1
  <2>4. p \in U
    BY <2>2, <2>3
  <2>5. s <= p
    BY <1>5, <2>4
  <2>6. QED
    BY <1>6, <2>1, <2>5
<1>8. PICK f \in Gaps(start, end) : f.from = s
  <2>1. s \in missing
    BY <1>5
  <2>2. QED
    BY <1>7, <2>1, GapsAre
<1>9. IsGap(start, end, f)
  BY GapsAre
<1>10. t <= f.to
  <2>1. ASSUME NEW h \in hit, f.from < h, f.to = h - 1 PROVE t <= f.to
    <3>1. h \in Nat
      BY <1>3
    <3>2. ~(h <= t)
      BY <1>5, <1>6, <1>8, <2>1, <3>1
    <3>3. QED
      BY <1>2, <2>1, <3>1, <3>2
  <2>2. QED
    BY <1>2, <1>9, <2>1 DEF IsGap
<1>11. QED
  BY <1>6, <1>8, <1>10 DEF IsOfRange

\* A gap is a part of the range, and its limit cuts nothing that is wanted.
LEMMA GapIsPart ==
    ASSUME NEW start \in Nat, NEW end \in Nat, NEW f \in Gaps(start, end)
    PROVE  /\ f.newest = FALSE /\ f.from \in Nat /\ f.to \in Int /\ f.limit \in Nat
           /\ start - (start % Step) <= f.from /\ f.to <= end
           /\ f.limit = UpstreamLimit \/ Cardinality(Opens(f.from, f.to)) <= f.limit
<1>1. IsGap(start, end, f)
  BY GapsAre
<1>2. /\ f.from \in Nat /\ start - (start % Step) <= f.from /\ f.from <= end
      /\ \A h \in Hit(start, end) : h \in Nat /\ h <= end
  BY <1>1, SlotsAre DEF IsGap
<1>3. f.to \in Int /\ f.to <= end /\ f.from <= f.to
  BY <1>1, <1>2 DEF IsGap
<1> DEFINE v == f.to - f.from + Step - 1
<1>4. v \in Nat
  BY <1>2, <1>3, StepAssumption
<1>5. v \div Step \in Nat
  BY <1>4, StepDivides
<1>6. Cardinality(Opens(f.from, f.to)) <= v \div Step + 1
  BY <1>2, <1>3, OpensCount
<1>7. f.newest = FALSE /\ f.limit = AtMost(v \div Step + 1, UpstreamLimit)
  <2>1. f.limit = FetchLimit(f.from, f.to) /\ f.newest = FALSE
    BY <1>1 DEF IsGap
  <2>2. QED
    BY <2>1 DEF FetchLimit
<1> HIDE DEF v
<1>8. f.limit \in Nat /\ (f.limit = v \div Step + 1 \/ f.limit = UpstreamLimit)
  BY <1>5, <1>7, LimitsAssumption DEF AtMost
<1>9. QED
  BY <1>2, <1>3, <1>6, <1>7, <1>8

-----------------------------------------------------------------------------
(* A response in the making *)

LEMMA Queried ==
    ASSUME NEW q \in Queries
    PROVE  /\ q.start \in Nat \cup {None} /\ q.end \in Nat \cup {None}
           /\ Limit(q) \in Nat \ {0} /\ Limit(q) <= UpstreamLimit
<1>1. q.start \in Nat \cup {None} /\ q.end \in Nat \cup {None} /\ q.limit \in Nat \ {0}
  BY QueriesAssumption
<1>2. QED
  BY <1>1, LimitsAssumption DEF Limit, AtMost

\* The bounds of a query that has one.
LEMMA BoundsAre ==
    ASSUME NEW q \in Queries, q.start # None \/ q.end # None, NEW asked \in Nat
    PROVE  FirstTime(q) \in Nat /\ LastTime(q, asked) \in Nat
<1>1. Step \in Nat \ {0}
  BY StepAssumption
<1>2. CASE q.start = None
  <2>1. q.end \in Nat /\ Limit(q) \in Nat
    BY <1>2, Queried
  <2>2. Step * Limit(q) \in Nat
    BY <1>1, <2>1
  <2>3. AtLeast(0, q.end - Step * Limit(q)) \in Nat
    BY <2>1, <2>2 DEF AtLeast
  <2>4. QED
    BY <1>2, <2>1, <2>3 DEF FirstTime, LastTime, None
<1>3. CASE q.start # None
  <2>1. q.start \in Nat
    BY <1>3, Queried
  <2>2. q.start - (q.start % Step) \in Nat
    BY <2>1, SlotStart
  <2>3. LastTime(q, asked) \in Nat
    BY Queried DEF LastTime
  <2>4. QED
    BY <1>3, <2>1, <2>2, <2>3 DEF FirstTime
<1>4. QED
  BY <1>2, <1>3

LEMMA OpensUpTo ==
    ASSUME NEW from \in Int, NEW to \in Int, NEW T \in Int
    PROVE  \A t : t \in Opens(from, AtMost(T, to)) <=> t \in Opens(from, to) /\ t <= T
<1>1. CASE T <= to
  <2>1. AtMost(T, to) = T
    BY <1>1 DEF AtMost
  <2>2. \A t : t \in 0..T <=> t \in 0..to /\ t <= T
    BY <1>1
  <2>3. QED
    BY <2>1, <2>2 DEF Opens
<1>2. CASE ~(T <= to)
  <2>1. AtMost(T, to) = to
    BY <1>2 DEF AtMost
  <2>2. \A t \in 0..to : t <= T
    BY <1>2
  <2>3. QED
    BY <2>1, <2>2 DEF Opens
<1>3. QED
  BY <1>1, <1>2

\* What is in use stays once per time, and closed.
LEMMA CacheUsed ==
    ASSUME CacheInv, NEW bars, OncePerTime(bars),
           \A b \in bars : b.time \in Nat /\ b.time % Step = Offset /\ CloseTime(b) <= now
    PROVE  /\ \A c \in Used(bars) :
                c.time \in Nat /\ c.time % Step = Offset /\ CloseTime(c) <= now
           /\ OncePerTime(Used(bars))
<1> DEFINE kept == {c \in cache : \A b \in bars : b.time # c.time}
           BarAge(b) == Cardinality({a \in bars : a.time > b.time})
           KeptAge(c) == Cardinality(bars) + Cardinality({d \in kept : d.age < c.age})
<1>1. \A e \in Used(bars) :
        \/ \E b \in bars : e = Entry(b, BarAge(b))
        \/ \E c \in kept : e = Entry(c, KeptAge(c))
  BY DEF Used
<1> HIDE DEF BarAge, KeptAge
<1>2. ASSUME NEW e \in Used(bars)
      PROVE  e.time \in Nat /\ e.time % Step = Offset /\ CloseTime(e) <= now
  <2>1. \E b \in bars \cup cache : e.time = b.time
    <3>1. \A b, n : Entry(b, n).time = b.time
      BY DEF Entry
    <3>2. QED
      BY <1>1, <3>1
  <2>2. QED
    BY <2>1 DEF CacheInv, CloseTime
<1>3. ASSUME NEW d \in Used(bars), NEW e \in Used(bars), d.time = e.time
      PROVE  d = e
  <2>1. \A b, n : Entry(b, n).time = b.time
    BY DEF Entry
  <2>2. ASSUME NEW b \in bars, d = Entry(b, BarAge(b)) PROVE d = e
    <3>1. ~\E c \in kept : e = Entry(c, KeptAge(c))
      BY <1>3, <2>1, <2>2
    <3>2. PICK a \in bars : e = Entry(a, BarAge(a))
      BY <1>1, <3>1
    <3>3. a = b
      BY <1>3, <2>1, <2>2, <3>2 DEF OncePerTime
    <3>4. QED
      BY <2>2, <3>2, <3>3
  <2>3. ASSUME NEW c \in kept, d = Entry(c, KeptAge(c)) PROVE d = e
    <3>1. ~\E b \in bars : e = Entry(b, BarAge(b))
      BY <1>3, <2>1, <2>3
    <3>2. PICK a \in kept : e = Entry(a, KeptAge(a))
      BY <1>1, <3>1
    <3>3. a = c
      BY <1>3, <2>1, <2>3, <3>2 DEF OncePerTime, CacheInv
    <3>4. QED
      BY <2>3, <3>2, <3>3
  <2>4. QED
    BY <1>1, <2>2, <2>3
<1>4. QED
  BY <1>2, <1>3 DEF OncePerTime

\* The response keeps the first bars of what it was made of.
LEMMA DoneServed ==
    ASSUME NEW q, NEW asked, NEW bars, OncePerTime(bars), NEW T \in asked..now,
           First(Times(bars), Limit(q)) = Expected(q, asked, T)
    PROVE  Done(q, asked, bars).pc = "done" /\ Served(Done(q, asked, bars))
<1> DEFINE x == Done(q, asked, bars)
           times == First({b.time : b \in bars}, Limit(q))
<1>1. /\ x.pc = "done" /\ x.query = q /\ x.asked = asked /\ x.at = now
      /\ x.bars = {b \in bars : b.time \in times}
  BY DEF Done
<1>2. times = First(Times(bars), Limit(q)) /\ times \subseteq {b.time : b \in bars}
  BY DEF First, Times
<1> HIDE DEF x, times
<1>3. Times(x.bars) = times
  BY <1>1, <1>2 DEF Times
<1>4. OncePerTime(x.bars)
  BY <1>1 DEF OncePerTime
<1>5. Served(x)
  BY <1>1, <1>2, <1>3, <1>4 DEF Served
<1>6. QED
  BY <1>1, <1>5 DEF x

LEMMA AnswerTimes ==
    ASSUME NEW f, NEW t
    PROVE  /\ OncePerTime(Answer(f, t))
           /\ f.newest = TRUE => Times(Answer(f, t)) = Last(Opens(0, t), f.limit)
           /\ f.newest = FALSE =>
                Times(Answer(f, t)) = First(Opens(f.from, AtMost(f.to, t)), f.limit)
<1> DEFINE times == IF f.newest THEN Last(Opens(0, t), f.limit)
                    ELSE First(Opens(f.from, AtMost(f.to, t)), f.limit)
           Seen(b) == [time |-> b, seen |-> AtMost(t, b + Step)]
<1>1. Answer(f, t) = {Seen(b) : b \in times}
  BY DEF Answer
<1>2. \A b : Seen(b).time = b
  OBVIOUS
<1> HIDE DEF Seen, times
<1>3. OncePerTime(Answer(f, t)) /\ Times(Answer(f, t)) = times
  BY <1>1, <1>2 DEF OncePerTime, Times
<1>4. QED
  BY <1>3 DEF times

\* Once all is answered, the first bars are those of the range at a time between
\* the question and now.
LEMMA RangeDone ==
    ASSUME now \in Nat, NEW x, x.query \in Queries, x.asked \in Nat,
           x.query.start # None \/ x.query.end # None,
           RangeInv(x, now), x.waits = {}
    PROVE  \E T \in x.asked..now :
            First(Times(x.hits \cup x.got), Limit(x.query)) = Expected(x.query, x.asked, T)
<1> DEFINE from == FirstTime(x.query)
           to == LastTime(x.query, x.asked)
           L == Limit(x.query)
<1>1. PICK T \in x.asked..now : CoveredTo(x, T)
  BY DEF RangeInv
<1>2. from \in Nat /\ to \in Nat
  BY BoundsAre
<1>3. L \in Nat
  BY Queried
<1> DEFINE B == Opens(from, AtMost(T, to))
           A == Times(x.hits \cup x.got)
<1>4. \A t : t \in B <=> t \in Wanted(x) /\ t <= T
  BY <1>2, OpensUpTo DEF Wanted
<1>5. IsFiniteSet(B) /\ B \subseteq Nat
  <2>1. AtMost(T, to) \in Int
    BY <1>2 DEF AtMost
  <2>2. QED
    BY <2>1, OpensFinite
<1> HIDE DEF B, from, to, L
<1>6. A \subseteq B /\ Times(x.got) \subseteq A
  <2>1. \A b \in x.hits \cup x.got : b.time \in Wanted(x) /\ b.time <= T
    <3>1. \A b \in x.hits : b.time \in Wanted(x) /\ b.time <= x.asked /\ b.time \in Nat
      BY DEF RangeInv, Wanted, Opens
    <3>2. QED
      BY <1>1, <3>1 DEF CoveredTo
  <2>2. QED
    BY <1>4, <2>1 DEF Times
<1> HIDE DEF A
<1>7. ASSUME NEW y \in B \ A PROVE Cardinality(Below(A, y)) >= L
  <2>0. y \in Wanted(x) /\ ~(y > T) /\ y \notin A
    BY <1>4, <1>5, <1>7
  <2>1. CutBefore(x, y)
    BY <1>1, <2>0 DEF CoveredTo, Awaited, A
  <2>2. IsFiniteSet(A)
    BY <1>5, <1>6, FS_Subset
  <2>3. Cardinality(Below(Times(x.got), y)) <= Cardinality(Below(A, y))
        /\ Cardinality(Below(A, y)) \in Nat
        /\ Cardinality(Below(Times(x.got), y)) \in Nat
    BY <1>6, <2>2, BelowFinite
  <2>4. Cardinality(Below(Times(x.got), y)) >= L
    BY <2>1 DEF CutBefore, L
  <2>5. QED
    BY <1>3, <2>3, <2>4
<1>8. First(A, L) = First(B, L)
  BY <1>3, <1>5, <1>6, <1>7, FirstCut
<1>9. Expected(x.query, x.asked, T) = First(B, L)
  <2>1. ~(x.query.end # None /\ x.query.end < x.query.start)
    BY Queried DEF RangeInv, None
  <2>2. QED
    BY <2>1 DEF Expected, B, L, from, to
<1>10. QED
  BY <1>8, <1>9 DEF A, L

\* An answer brings all that was awaited of its part, or fills the response.
LEMMA PartAnswered ==
    ASSUME now \in Nat, NEW x, x.query \in Queries, x.asked \in Nat, x.asked <= now,
           NEW f, PartOf(x, f), NEW t \in Nat, IsOfRange(f, t), t % Step = Offset, t <= now,
           NEW S, IsFiniteSet(S), Times(Answer(f, now)) \subseteq S
    PROVE  t \in S \/ Cardinality(Below(S, t)) >= Limit(x.query)
<1> DEFINE O == Opens(f.from, AtMost(f.to, now))
           F == First(O, f.limit)
           L == Limit(x.query)
<1>1. /\ f.from \in Nat /\ f.to \in Int /\ f.limit \in Nat /\ L \in Nat
      /\ f.limit >= L \/ Cardinality(Opens(f.from, f.to)) <= f.limit
  BY Queried DEF PartOf
<1>2. F \subseteq S
  BY AnswerTimes DEF PartOf
<1>3. AtMost(f.to, now) \in Int
  BY <1>1 DEF AtMost
<1>4. IsFiniteSet(O) /\ O \subseteq Nat /\ t \in O /\ O \subseteq Opens(f.from, f.to)
  <2>1. IsFiniteSet(O) /\ O \subseteq Nat
    BY <1>3, OpensFinite
  <2>2. t \in O
    BY <1>1 DEF Opens, AtMost, IsOfRange
  <2>3. O \subseteq Opens(f.from, f.to)
    BY <1>1 DEF Opens, AtMost
  <2>4. QED
    BY <2>1, <2>2, <2>3
<1> HIDE DEF O, F, L
<1>5. SUFFICES ASSUME t \notin F PROVE Cardinality(Below(S, t)) >= L
  BY <1>2 DEF L
<1>6. Cardinality(Below(F, t)) >= f.limit
  BY <1>1, <1>4, <1>5, FirstCounts DEF F
<1>7. /\ IsFiniteSet(Below(F, t)) /\ Cardinality(Below(F, t)) \in Nat
      /\ Cardinality(Below(S, t)) \in Nat
      /\ Cardinality(Below(F, t)) <= Cardinality(Below(S, t))
  BY <1>2, BelowFinite
<1>8. f.limit >= L
  <2> SUFFICES ASSUME Cardinality(Opens(f.from, f.to)) <= f.limit PROVE FALSE
    BY <1>1
  <2> DEFINE R == Opens(f.from, f.to)
  <2>1. IsFiniteSet(R) /\ Cardinality(R) \in Nat
    BY <1>1, OpensFinite, FS_CardinalityType
  <2>2. F \subseteq O
    BY DEF F, First
  <2>3. Below(F, t) \cup {t} \subseteq R /\ t \notin Below(F, t)
    <3>1. ~(t < t)
      BY <1>4
    <3>2. Below(F, t) \subseteq R /\ t \in R
      BY <1>4, <2>2 DEF Below
    <3>3. QED
      BY <3>1, <3>2 DEF Below
  <2>4. IsFiniteSet(Below(F, t) \cup {t})
        /\ Cardinality(Below(F, t) \cup {t}) = Cardinality(Below(F, t)) + 1
    BY <1>7, <2>3, FS_AddElement
  <2>5. Cardinality(Below(F, t) \cup {t}) <= Cardinality(R)
    BY <2>1, <2>3, FS_Subset
  <2> HIDE DEF R
  <2>6. Cardinality(R) <= f.limit
    BY DEF R
  <2>7. QED
    BY <1>1, <1>6, <1>7, <2>1, <2>4, <2>5, <2>6
<1>9. QED
  BY <1>1, <1>6, <1>7, <1>8

\* A range that was covered is covered with one more part answered.
LEMMA RangeAnswered ==
    ASSUME now \in Nat, NEW x, x.query \in Queries, x.asked \in Nat, x.asked <= now,
           x.query.start # None \/ x.query.end # None,
           RangeInv(x, now), NEW f \in x.waits, NEW since,
           NEW y, y = Waiting(x.query, x.asked, x.hits, x.waits \ {f},
                              x.got \cup Answer(f, now), since)
    PROVE  RangeInv(y, now)
<1> DEFINE ans == Answer(f, now)
<1>1. /\ y.query = x.query /\ y.asked = x.asked /\ y.hits = x.hits
      /\ y.waits = x.waits \ {f} /\ y.got = x.got \cup ans
  BY DEF Waiting
<1> HIDE DEF ans
<1>2. Wanted(y) = Wanted(x) /\ \A g : PartOf(y, g) <=> PartOf(x, g)
  BY <1>1 DEF Wanted, PartOf
<1>3. PartOf(x, f) /\ f.newest = FALSE /\ f.from \in Nat /\ f.to \in Int
      /\ FirstTime(x.query) <= f.from /\ f.to <= LastTime(x.query, x.asked)
  BY DEF RangeInv, PartOf
<1>4. FirstTime(x.query) \in Nat /\ LastTime(x.query, x.asked) \in Nat
  BY BoundsAre
<1>5. \A b \in ans : /\ b.time \in Wanted(x) /\ b.time \in Nat /\ b.time <= now
                     /\ IsOfRange(f, b.time)
  <2>1. \A b \in ans : b.time \in Opens(f.from, AtMost(f.to, now))
    <3>1. Times(ans) = First(Opens(f.from, AtMost(f.to, now)), f.limit)
      BY <1>3, AnswerTimes DEF ans
    <3>2. \A b \in ans : b.time \in Times(ans)
      BY DEF Times
    <3>3. \A S, n : First(S, n) \subseteq S
      BY DEF First
    <3>4. QED
      BY <3>1, <3>2, <3>3
  <2>2. \A t \in Opens(f.from, AtMost(f.to, now)) :
            t \in Wanted(x) /\ t \in Nat /\ t <= now /\ IsOfRange(f, t)
    BY <1>3, <1>4 DEF Opens, AtMost, Wanted, IsOfRange
  <2>3. QED
    BY <2>1, <2>2
<1>6. PartsApart(x)
  BY DEF RangeInv
<1>7. PartsApart(y)
  <2>1. \A g \in y.waits, b \in ans : ~IsOfRange(g, b.time)
    BY <1>1, <1>5, <1>6 DEF PartsApart
  <2>2. QED
    BY <1>1, <1>6, <2>1 DEF PartsApart
<1>8. OncePerTime(y.hits \cup y.got)
  <2>1. OncePerTime(x.hits \cup x.got) /\ OncePerTime(ans)
    BY AnswerTimes DEF RangeInv, ans
  <2>2. \A b \in x.hits \cup x.got, c \in ans : b.time # c.time
    BY <1>5, <1>6 DEF PartsApart
  <2>3. y.hits \cup y.got = (x.hits \cup x.got) \cup ans
    BY <1>1
  <2>4. ASSUME NEW b \in (x.hits \cup x.got) \cup ans,
               NEW c \in (x.hits \cup x.got) \cup ans, b.time = c.time
        PROVE  b = c
    BY <2>1, <2>2, <2>4 DEF OncePerTime
  <2>5. QED
    BY <2>3, <2>4 DEF OncePerTime
<1>9. PICK T \in x.asked..now : CoveredTo(x, T)
  BY DEF RangeInv
<1> DEFINE U == IF f.to <= x.asked THEN T ELSE now
<1>10. U \in y.asked..now /\ T <= U
  BY <1>1, <1>9
<1>11. ASSUME NEW b \in y.got PROVE b.time \in Wanted(y) /\ b.time <= U
  <2>1. CASE b \in x.got
    <3>1. b.time \in Wanted(x) /\ b.time <= T
      BY <1>9, <2>1 DEF CoveredTo
    <3>2. b.time \in Nat
      BY <3>1 DEF Wanted, Opens
    <3>3. QED
      BY <1>2, <1>9, <3>1, <3>2
  <2>2. CASE b \in ans
    <3>1. b.time \in Wanted(x) /\ b.time <= now /\ b.time <= f.to /\ b.time \in Nat
      BY <1>5, <2>2 DEF IsOfRange
    <3>2. QED
      BY <1>2, <1>3, <1>9, <3>1
  <2>3. QED
    BY <1>1, <2>1, <2>2
<1>12. IsFiniteSet(Times(y.got)) /\ Times(x.got) \subseteq Times(y.got)
       /\ Times(ans) \subseteq Times(y.got)
  <2>1. Times(y.got) \subseteq Wanted(x)
    BY <1>2, <1>11 DEF Times
  <2>2. IsFiniteSet(Wanted(x))
    BY <1>4, OpensFinite DEF Wanted
  <2>3. IsFiniteSet(Times(y.got))
    BY <2>1, <2>2, FS_Subset
  <2>4. QED
    BY <1>1, <2>3 DEF Times
<1>13. ASSUME NEW t \in Wanted(y)
       PROVE  \/ t \in Times(y.hits \cup y.got)
              \/ Awaited(y, t)
              \/ CutBefore(y, t)
              \/ t > U /\ \A g \in y.waits : g.to <= y.asked
  <2>1. t \in Wanted(x) /\ t \in Nat /\ t % Step = Offset
    <3>1. t \in Wanted(x)
      BY <1>2, <1>13
    <3>2. QED
      BY <3>1 DEF Wanted, Opens
  <2>2. CASE t \in Times(x.hits \cup x.got)
    BY <1>1, <2>2 DEF Times
  <2>3. CASE CutBefore(x, t)
    <3>1. /\ Cardinality(Below(Times(x.got), t)) <= Cardinality(Below(Times(y.got), t))
          /\ Cardinality(Below(Times(x.got), t)) \in Nat
          /\ Cardinality(Below(Times(y.got), t)) \in Nat
      BY <1>12, BelowFinite
    <3>2. Cardinality(Below(Times(x.got), t)) >= Limit(x.query) /\ Limit(x.query) \in Nat
      BY <2>3, Queried DEF CutBefore
    <3>3. Cardinality(Below(Times(y.got), t)) >= Limit(x.query)
      BY <3>1, <3>2
    <3>4. QED
      BY <1>1, <3>3 DEF CutBefore
  <2>4. CASE t > T /\ \A g \in x.waits : g.to <= x.asked
    BY <1>1, <2>4
  <2>5. ASSUME NEW g \in x.waits, IsOfRange(g, t), g # f PROVE Awaited(y, t)
    BY <1>1, <2>5 DEF Awaited
  <2>6. CASE IsOfRange(f, t) /\ t <= now
    <3>1. t \in Times(y.got) \/ Cardinality(Below(Times(y.got), t)) >= Limit(x.query)
      BY <1>3, <1>12, <2>1, <2>6, PartAnswered DEF ans
    <3>2. Times(y.got) \subseteq Times(y.hits \cup y.got)
      BY DEF Times
    <3>3. QED
      BY <1>1, <3>1, <3>2 DEF CutBefore
  <2>7. CASE IsOfRange(f, t) /\ ~(t <= now)
    <3>1. t <= f.to
      BY <2>7 DEF IsOfRange
    <3>2. ~(f.to <= x.asked)
      BY <1>3, <2>1, <2>7, <3>1
    <3>3. \A g \in y.waits : g.to <= y.asked
      BY <1>1, <1>6, <3>2 DEF PartsApart
    <3>4. t > U
      BY <2>1, <2>7, <3>2
    <3>5. QED
      BY <3>3, <3>4
  <2>8. QED
    BY <1>9, <2>1, <2>2, <2>3, <2>4, <2>5, <2>6, <2>7 DEF CoveredTo, Awaited
<1>14. CoveredTo(y, U)
  <2> HIDE DEF U
  <2>1. QED
    BY <1>11, <1>13 DEF CoveredTo
<1>15. QED
  <2> HIDE DEF U
  <2>1. \A g \in y.waits : PartOf(y, g)
    BY <1>1, <1>2 DEF RangeInv
  <2>2. \A b \in y.hits : b.time \in Wanted(y) /\ b.time <= y.asked
    BY <1>1, <1>2 DEF RangeInv
  <2>3. y.query.end = None \/ y.query.start <= y.query.end
    BY <1>1 DEF RangeInv
  <2>4. \E V \in y.asked..now : CoveredTo(y, V)
    BY <1>10, <1>14
  <2>5. QED
    BY <1>7, <1>8, <2>1, <2>2, <2>3, <2>4 DEF RangeInv

\* Bounds that go with the clock: what holds at a time holds later.
LEMMA FetchingLater ==
    ASSUME NEW x, NEW t \in Nat, FetchingInvOf(x, t)
    PROVE  FetchingInvOf(x, t + 1)
<1>1. x.asked \in Nat /\ x.asked..t \subseteq x.asked..(t + 1) /\ x.asked <= t + 1
  BY DEF FetchingInvOf
<1>2. NewestInv(x, t) => NewestInv(x, t + 1)
  BY <1>1 DEF NewestInv
<1>3. RangeInv(x, t) => RangeInv(x, t + 1)
  BY <1>1 DEF RangeInv
<1>4. QED
  BY <1>1, <1>2, <1>3 DEF FetchingInvOf

\* A request that moves on with what it knows keeps the others as they are.
LEMMA CompleteMoved ==
    ASSUME CompleteInv, NEW r \in Requests, NEW state, SetRequest(r, state),
           now' = now, CacheInv',
           state.pc = "fetch" => FetchingInvOf(state, now),
           state.pc = "done" => Served(state)
    PROVE  CompleteInv'
<1>1. request' = [q \in Requests |-> IF q = r THEN state ELSE request[q]]
  BY DEF SetRequest, CompleteInv
<1>2. ASSUME NEW q \in Requests, request'[q].pc = "fetch"
      PROVE  FetchingInvOf(request'[q], now')
  BY <1>1, <1>2 DEF CompleteInv
<1>3. ASSUME NEW q \in Requests, request'[q].pc = "done" PROVE Served(request'[q])
  BY <1>1, <1>3 DEF CompleteInv
<1>4. now' \in Nat /\ request' = [q \in Requests |-> request'[q]]
  BY <1>1 DEF CompleteInv
<1>5. QED
  BY <1>2, <1>3, <1>4 DEF CompleteInv

LEMMA CompleteInit == Init => CompleteInv
  BY DEF Init, CompleteInv, CacheInv, OncePerTime, Idle

LEMMA CacheKept ==
    ASSUME CacheInv, cache' = cache, now' = now
    PROVE  CacheInv'
  BY DEF CacheInv, CloseTime, OncePerTime

LEMMA NewestAsked ==
    ASSUME CompleteInv, NEW r \in Requests, NEW q \in Queries, AskNewest(r, q)
    PROVE  CompleteInv'
<1> DEFINE x == Fetching(q, {}, {[newest |-> TRUE, limit |-> Limit(q)]})
<1>1. SetRequest(r, x) /\ now' = now /\ cache' = cache /\ q.start = None /\ q.end = None
  BY DEF AskNewest
<1>2. /\ x.pc = "fetch" /\ x.query = q /\ x.asked = now /\ x.hits = {} /\ x.got = {}
      /\ x.waits = {[newest |-> TRUE, limit |-> Limit(q)]}
  BY DEF Fetching, Waiting
<1> HIDE DEF x
<1>3. FetchingInvOf(x, now)
  BY <1>1, <1>2 DEF FetchingInvOf, NewestInv, CompleteInv
<1>4. CacheInv'
  BY <1>1, CacheKept DEF CompleteInv
<1>5. QED
  BY <1>1, <1>2, <1>3, <1>4, CompleteMoved

LEMMA OneSidedAsked ==
    ASSUME CompleteInv, NEW r \in Requests, NEW q \in Queries, AskOneSided(r, q)
    PROVE  CompleteInv'
<1> DEFINE f == RangeOf(q)
           x == Fetching(q, {}, {f})
<1>1. SetRequest(r, x) /\ now' = now /\ cache' = cache
      /\ (q.start = None) # (q.end = None) /\ now \in Nat
  BY DEF AskOneSided, CompleteInv
<1>2. /\ x.pc = "fetch" /\ x.query = q /\ x.asked = now /\ x.hits = {} /\ x.got = {}
      /\ x.waits = {f}
  BY DEF Fetching, Waiting
<1>3. f.newest = FALSE /\ f.limit = Limit(q)
      /\ f.from = FirstTime(q) /\ f.to = LastTime(q, now)
  BY <1>1 DEF RangeOf, FirstTime, LastTime
<1>4. FirstTime(q) \in Nat /\ LastTime(q, now) \in Nat
  BY <1>1, BoundsAre
<1> HIDE DEF x, f
<1>5. PartOf(x, f)
  BY <1>2, <1>3, <1>4, Queried DEF PartOf
<1>6. CoveredTo(x, now)
  <2>1. \A t \in Wanted(x) : IsOfRange(f, t)
    BY <1>2, <1>3, <1>4 DEF Wanted, Opens, IsOfRange
  <2>2. QED
    BY <1>2, <2>1 DEF CoveredTo, Awaited
<1>7. q.end = None \/ q.start <= q.end
  BY <1>1, Queried DEF None
<1>8. RangeInv(x, now)
  BY <1>1, <1>2, <1>5, <1>6, <1>7 DEF RangeInv, PartsApart, OncePerTime
<1>9. FetchingInvOf(x, now)
  BY <1>1, <1>2, <1>8 DEF FetchingInvOf
<1>10. CacheInv'
  BY <1>1, CacheKept DEF CompleteInv
<1>11. QED
  BY <1>1, <1>2, <1>9, <1>10, CompleteMoved

LEMMA RangeAsked ==
    ASSUME CompleteInv, NEW r \in Requests, NEW q \in Queries, AskRange(r, q)
    PROVE  CompleteInv'
<1> DEFINE hits == Hits(q.start, q.end)
           gaps == Gaps(q.start, q.end)
           from == q.start - (q.start % Step)
           state == IF gaps = {} THEN Done(q, now, hits) ELSE Fetching(q, hits, gaps)
<1>1. SetRequest(r, state) /\ cache' = Used(hits) /\ now' = now
      /\ q.start \in Nat /\ q.end \in Nat /\ now \in Nat /\ CacheInv
      /\ q.start # None /\ q.end # None
  BY Queried DEF AskRange, CompleteInv
<1>2. FirstTime(q) = from /\ LastTime(q, now) = q.end
  BY <1>1 DEF FirstTime, LastTime
<1>3. /\ Times(hits) = Hit(q.start, q.end) /\ OncePerTime(hits)
      /\ \A h \in Hit(q.start, q.end) : h \in Opens(from, q.end) /\ h < now
  BY <1>1, HitsAre
<1>4. \A b \in hits : b.time \in Hit(q.start, q.end)
  BY <1>3 DEF Times
<1>5. CacheInv'
  <2>1. ASSUME NEW b \in hits
        PROVE  b.time \in Nat /\ b.time % Step = Offset /\ CloseTime(b) <= now
    <3>1. \E c \in cache : b.time = c.time
      BY DEF Hits
    <3>2. QED
      BY <1>1, <3>1 DEF CacheInv, CloseTime
  <2> HIDE DEF hits
  <2>2. /\ \A c \in Used(hits) :
              c.time \in Nat /\ c.time % Step = Offset /\ CloseTime(c) <= now
        /\ OncePerTime(Used(hits))
    BY <1>1, <1>3, <2>1, CacheUsed
  <2>3. QED
    BY <1>1, <2>2 DEF CacheInv, CloseTime, OncePerTime
<1>6. CASE gaps = {}
  <2> DEFINE B == Opens(from, AtMost(now, q.end))
  <2>1. First(Times(hits), Limit(q)) = Expected(q, now, now)
    <3>1. CASE q.start <= q.end
      <4>1. \A t \in Opens(from, q.end) : t \in Hit(q.start, q.end)
        BY <1>1, <1>6, <3>1, GapsCover
      <4>2. from \in Nat
        BY <1>1, SlotStart
      <4>3. \A t : t \in B <=> t \in Opens(from, q.end) /\ t <= now
        <5> HIDE DEF from
        <5>1. QED
          BY <1>1, <4>2, OpensUpTo
      <4>4. \A h \in Hit(q.start, q.end) : h <= now
        <5>1. \A h \in Hit(q.start, q.end) : h \in Nat /\ h < now
          BY <1>3 DEF Opens
        <5>2. QED
          BY <1>1, <5>1
      <4>5. B = Hit(q.start, q.end)
        BY <1>3, <4>1, <4>3, <4>4
      <4>6. Expected(q, now, now) = First(B, Limit(q))
        BY <1>1, <1>2, <3>1 DEF Expected
      <4>7. QED
        BY <1>3, <4>5, <4>6
    <3>2. CASE ~(q.start <= q.end)
      <4>1. Hit(q.start, q.end) = {}
        BY <3>2 DEF Hit, Slots
      <4>2. Expected(q, now, now) = {}
        BY <1>1, <3>2 DEF Expected
      <4>3. QED
        BY <1>3, <4>1, <4>2 DEF First
    <3>3. QED
      BY <3>1, <3>2
  <2>2. now \in now..now
    BY <1>1
  <2> HIDE DEF hits, gaps
  <2>3. state = Done(q, now, hits)
    BY <1>6
  <2>4. state.pc = "done" /\ Served(state)
    BY <1>3, <2>1, <2>2, <2>3, DoneServed
  <2>5. QED
    BY <1>1, <1>5, <2>4, CompleteMoved
<1>7. CASE gaps # {}
  <2> DEFINE x == Fetching(q, hits, gaps)
  <2>1. /\ x.pc = "fetch" /\ x.query = q /\ x.asked = now /\ x.hits = hits /\ x.got = {}
        /\ x.waits = gaps
    BY DEF Fetching, Waiting
  <2>2. state = x
    BY <1>7
  <2> HIDE DEF x
  <2>3. q.start <= q.end
    <3>1. PICK f \in gaps : TRUE
      BY <1>7
    <3>2. f.from \in Slots(q.start, q.end)
      BY <1>1, GapsAre, SlotsAre DEF IsGap
    <3>3. QED
      BY <3>2 DEF Slots
  <2>4. ASSUME NEW f \in x.waits PROVE PartOf(x, f)
    <3>1. /\ f.newest = FALSE /\ f.from \in Nat /\ f.to \in Int /\ f.limit \in Nat
          /\ from <= f.from /\ f.to <= q.end
          /\ f.limit = UpstreamLimit \/ Cardinality(Opens(f.from, f.to)) <= f.limit
      BY <1>1, <2>1, GapIsPart
    <3>2. f.limit = UpstreamLimit => f.limit >= Limit(q)
      BY Queried, LimitsAssumption
    <3>3. QED
      BY <1>2, <2>1, <3>1, <3>2 DEF PartOf
  <2>5. PartsApart(x)
    <3>1. ASSUME NEW f \in x.waits, NEW g \in x.waits, f # g
          PROVE  /\ \A t \in Nat : ~(IsOfRange(f, t) /\ IsOfRange(g, t))
                 /\ f.to <= x.asked \/ g.to <= x.asked
      <4>1. (f.to < g.from \/ g.to < f.from) /\ (f.to <= now \/ g.to <= now)
        BY <1>1, <2>1, <3>1, GapsApart
      <4>2. f.from \in Nat /\ f.to \in Int /\ g.from \in Nat /\ g.to \in Int
        BY <2>4 DEF PartOf
      <4>3. QED
        BY <2>1, <4>1, <4>2 DEF IsOfRange
    <3>2. ASSUME NEW f \in x.waits, NEW b \in x.hits \cup x.got
          PROVE  ~IsOfRange(f, b.time)
      <4>1. b.time \in Hit(q.start, q.end) /\ f \in gaps
        BY <1>4, <2>1
      <4>2. QED
        BY <1>1, <4>1, GapMissesHits
    <3>3. QED
      BY <3>1, <3>2 DEF PartsApart
  <2>6. Wanted(x) = Opens(from, q.end)
    BY <1>2, <2>1 DEF Wanted
  <2>7. CoveredTo(x, now)
    <3>1. ASSUME NEW t \in Wanted(x), t \notin Times(x.hits \cup x.got)
          PROVE  Awaited(x, t)
      <4>1. t \notin Hit(q.start, q.end)
        BY <1>3, <2>1, <3>1
      <4>2. t \in Opens(from, q.end)
        BY <2>6
      <4>3. \E f \in gaps : IsOfRange(f, t)
        BY <1>1, <2>3, <4>1, <4>2, GapsCover
      <4>4. QED
        BY <2>1, <4>3 DEF Awaited
    <3>2. QED
      BY <2>1, <3>1 DEF CoveredTo
  <2>8. \A b \in x.hits : b.time \in Wanted(x) /\ b.time <= x.asked
    <3>1. \A h \in Hit(q.start, q.end) : h \in Nat /\ h \in Wanted(x) /\ h < now
      BY <1>3, <2>6 DEF Opens
    <3>2. \A h \in Hit(q.start, q.end) : h <= now
      BY <1>1, <3>1
    <3>3. QED
      BY <1>4, <2>1, <3>1, <3>2
  <2>9. RangeInv(x, now)
    <3>1. now \in x.asked..now
      BY <1>1, <2>1
    <3>2. OncePerTime(x.hits \cup x.got)
      BY <1>3, <2>1
    <3>3. x.query.end = None \/ x.query.start <= x.query.end
      BY <2>1, <2>3
    <3> HIDE DEF hits, gaps
    <3>4. QED
      BY <2>4, <2>5, <2>7, <2>8, <3>1, <3>2, <3>3 DEF RangeInv
  <2>10. FetchingInvOf(x, now)
    BY <1>1, <2>1, <2>9 DEF FetchingInvOf
  <2> HIDE DEF hits, gaps
  <2>11. QED
    BY <1>1, <1>5, <2>1, <2>2, <2>10, CompleteMoved
<1>8. QED
  BY <1>6, <1>7

LEMMA CompleteAnswered ==
    ASSUME CompleteInv, NEW r \in Requests, FetchAnswered(r)
    PROVE  CompleteInv'
<1> DEFINE x == request[r]
<1>1. PICK f \in x.waits :
          SetRequest(r, Waiting(x.query, x.asked, x.hits, x.waits \ {f},
                                x.got \cup Answer(f, now),
                                IF x.got = {} THEN now ELSE x.since))
  BY DEF FetchAnswered
<1> DEFINE since == IF x.got = {} THEN now ELSE x.since
           y == Waiting(x.query, x.asked, x.hits, x.waits \ {f},
                        x.got \cup Answer(f, now), since)
<1>2. SetRequest(r, y) /\ now' = now /\ cache' = cache /\ f \in x.waits
  BY <1>1 DEF FetchAnswered
<1>3. FetchingInvOf(x, now) /\ now \in Nat
  BY DEF FetchAnswered, CompleteInv
<1>4. /\ y.pc = "fetch" /\ y.query = x.query /\ y.asked = x.asked /\ y.hits = x.hits
      /\ y.waits = x.waits \ {f} /\ y.got = x.got \cup Answer(f, now)
  BY DEF Waiting
<1> HIDE DEF since, x
<1>5. FetchingInvOf(y, now)
  <2>1. CASE x.query.start = None /\ x.query.end = None
    <3>1. NewestInv(x, now)
      BY <1>3, <2>1 DEF FetchingInvOf
    <3>2. x.hits = {} /\ x.got = {} /\ x.waits = {[newest |-> TRUE, limit |-> Limit(x.query)]}
      BY <3>1 DEF NewestInv
    <3>3. f.newest = TRUE /\ f.limit = Limit(x.query) /\ x.waits \ {f} = {}
      <4>1. f = [newest |-> TRUE, limit |-> Limit(x.query)]
        BY <1>2, <3>2
      <4>2. QED
        BY <3>2, <4>1
    <3>4. OncePerTime(Answer(f, now))
          /\ Times(Answer(f, now)) = Last(Opens(0, now), Limit(x.query))
      BY <3>3, AnswerTimes
    <3>5. now \in x.asked..now
      BY <1>3 DEF FetchingInvOf
    <3>6. y.got = Answer(f, now)
      BY <1>4, <3>2
    <3> HIDE DEF y
    <3>7. NewestInv(y, now)
      BY <1>4, <3>2, <3>3, <3>4, <3>5, <3>6 DEF NewestInv
    <3>8. QED
      BY <1>3, <1>4, <2>1, <3>7 DEF FetchingInvOf
  <2>2. CASE x.query.start # None \/ x.query.end # None
    <3>1. RangeInv(x, now) /\ x.query \in Queries /\ x.asked \in Nat /\ x.asked <= now
      BY <1>3, <2>2 DEF FetchingInvOf
    <3>2. RangeInv(y, now)
      BY <1>3, <2>2, <3>1, RangeAnswered
    <3> HIDE DEF y
    <3>3. QED
      BY <1>4, <2>2, <3>1, <3>2 DEF FetchingInvOf
  <2>3. QED
    BY <2>1, <2>2
<1>6. CacheInv'
  BY <1>2, CacheKept DEF CompleteInv
<1> HIDE DEF y
<1>7. QED
  BY <1>2, <1>4, <1>5, <1>6, CompleteMoved

LEMMA CompleteDone ==
    ASSUME CompleteInv, NEW r \in Requests, FetchDone(r)
    PROVE  CompleteInv'
<1> DEFINE x == request[r]
           bars == x.hits \cup x.got
           state == Done(x.query, x.asked, bars)
<1>1. /\ cache' = Used(Closed(x.got)) /\ SetRequest(r, state) /\ now' = now
      /\ x.waits = {}
  BY DEF FetchDone
<1>2. FetchingInvOf(x, now) /\ now \in Nat /\ CacheInv
  BY DEF FetchDone, CompleteInv
<1>3. x.query \in Queries /\ x.asked \in Nat /\ x.asked <= now
  BY <1>2 DEF FetchingInvOf
<1> HIDE DEF x
\* The bars are there once, and the first of them are what was expected.
<1>4. /\ OncePerTime(bars)
      /\ \A b \in x.got : b.time \in Nat /\ b.time % Step = Offset
      /\ \E T \in x.asked..now :
            First(Times(bars), Limit(x.query)) = Expected(x.query, x.asked, T)
  <2>1. CASE x.query.start = None /\ x.query.end = None
    <3>1. NewestInv(x, now)
      BY <1>2, <2>1 DEF FetchingInvOf
    <3>2. bars = x.got /\ OncePerTime(x.got)
      BY <1>1, <3>1 DEF NewestInv
    <3>3. PICK T \in x.asked..now : Times(x.got) = Last(Opens(0, T), Limit(x.query))
      BY <1>1, <3>1 DEF NewestInv
    <3>4. IsFiniteSet(Opens(0, T)) /\ Opens(0, T) \subseteq Nat /\ Limit(x.query) \in Nat
      BY <1>3, OpensFinite, Queried
    <3>5. First(Times(x.got), Limit(x.query)) = Times(x.got)
      BY <3>3, <3>4, FirstOfLast
    <3>6. Expected(x.query, x.asked, T) = Times(x.got)
      BY <2>1, <3>3 DEF Expected
    <3>7. \A b \in x.got : b.time \in Opens(0, T)
      <4>1. \A b \in x.got : b.time \in Times(x.got)
        BY DEF Times
      <4>2. QED
        BY <3>3, <4>1 DEF Last
    <3>8. \A t \in Opens(0, T) : t \in Nat /\ t % Step = Offset
      BY DEF Opens
    <3>9. QED
      BY <3>2, <3>5, <3>6, <3>7, <3>8
  <2>2. CASE x.query.start # None \/ x.query.end # None
    <3>1. RangeInv(x, now)
      BY <1>2, <2>2 DEF FetchingInvOf
    <3>2. OncePerTime(bars)
      BY <3>1 DEF RangeInv
    <3>3. \E T \in x.asked..now :
            First(Times(bars), Limit(x.query)) = Expected(x.query, x.asked, T)
      BY <1>1, <1>2, <1>3, <2>2, <3>1, RangeDone
    <3>4. \A b \in x.got : b.time \in Wanted(x)
      BY <3>1 DEF RangeInv, CoveredTo
    <3>5. \A t \in Wanted(x) : t \in Nat /\ t % Step = Offset
      BY DEF Wanted, Opens
    <3>6. QED
      BY <3>2, <3>3, <3>4, <3>5
  <2>3. QED
    BY <2>1, <2>2
<1>5. state.pc = "done" /\ Served(state)
  BY <1>4, DoneServed
<1>6. CacheInv'
  <2> DEFINE closed == Closed(x.got)
  <2>1. \A b \in closed : b.time \in Nat /\ b.time % Step = Offset /\ CloseTime(b) <= now
    BY <1>4 DEF Closed
  <2>2. OncePerTime(closed)
    BY <1>4 DEF Closed, OncePerTime
  <2> HIDE DEF closed
  <2>3. /\ \A c \in Used(closed) :
              c.time \in Nat /\ c.time % Step = Offset /\ CloseTime(c) <= now
        /\ OncePerTime(Used(closed))
    BY <1>2, <2>1, <2>2, CacheUsed
  <2>4. cache' = Used(closed) /\ now' = now
    BY <1>1 DEF closed
  <2>5. QED
    BY <2>3, <2>4 DEF CacheInv, CloseTime, OncePerTime
<1> HIDE DEF state
<1>7. QED
  BY <1>1, <1>5, <1>6, CompleteMoved

LEMMA CompleteTick == CompleteInv /\ Tick => CompleteInv'
<1> SUFFICES ASSUME CompleteInv, Tick PROVE CompleteInv'
  OBVIOUS
<1>1. now' = now + 1 /\ now \in Nat /\ cache' = cache /\ request' = request
  BY DEF Tick, CompleteInv
<1>2. ASSUME NEW r \in Requests, request'[r].pc = "fetch"
      PROVE  FetchingInvOf(request'[r], now')
  <2>1. FetchingInvOf(request[r], now)
    BY <1>1, <1>2 DEF CompleteInv
  <2>2. QED
    BY <1>1, <2>1, FetchingLater
<1>3. ASSUME NEW r \in Requests, request'[r].pc = "done" PROVE Served(request'[r])
  BY <1>1, <1>3 DEF CompleteInv
<1>4. CacheInv'
  BY <1>1, StepAssumption DEF CompleteInv, CacheInv, CloseTime, OncePerTime
<1>5. now' \in Nat /\ request' = [r \in Requests |-> request'[r]]
  BY <1>1 DEF CompleteInv
<1>6. QED
  BY <1>2, <1>3, <1>4, <1>5 DEF CompleteInv

LEMMA CompleteNext == CompleteInv /\ [Next]_vars => CompleteInv'
<1> SUFFICES ASSUME CompleteInv, [Next]_vars PROVE CompleteInv'
  OBVIOUS
<1>1. CASE UNCHANGED vars
  <2>1. now' = now /\ cache' = cache /\ request' = request
    BY <1>1 DEF vars
  <2>2. CacheInv'
    BY <2>1, CacheKept DEF CompleteInv
  <2>3. QED
    BY <2>1, <2>2 DEF CompleteInv
<1>2. ASSUME NEW r \in Requests, FetchFails(r) PROVE CompleteInv'
  <2>1. SetRequest(r, Idle) /\ now' = now /\ cache' = cache
    BY <1>2 DEF FetchFails
  <2>2. CacheInv' /\ Idle.pc = "idle"
    BY <2>1, CacheKept DEF CompleteInv, Idle
  <2>3. QED
    BY <2>1, <2>2, CompleteMoved
<1>3. CASE Next
  BY <1>2, <1>3, NewestAsked, OneSidedAsked, RangeAsked, CompleteAnswered, CompleteDone,
     CompleteTick DEF Next
<1>4. QED
  BY <1>1, <1>3

\* A response of getKlines has no holes: it holds, once each, the bars that the
\* range had at some time between the question and the answer, up to its limit,
\* whatever was cached, dropped, fetched in parts or cut by the exchange.
THEOREM ServedWhole == Spec => []ServedIsComplete
<1>1. CompleteInv => ServedIsComplete
  BY DEF CompleteInv, Served, OncePerTime, Times, ServedIsComplete
<1>2. QED
  BY CompleteInit, CompleteNext, <1>1, PTL DEF Spec
-----------------------------------------------------------------------------
(* The order of use *)

\* The elements below one of them, by a key.
LowerKeys(S, key, x) == {y \in S : key[y] < key[x]}

\* Elements with keys of their own are counted from 0 by the number of lower keys.
LEMMA RanksAre ==
    ASSUME NEW S, IsFiniteSet(S), NEW key \in [S -> Int],
           \A x, y \in S : key[x] = key[y] => x = y
    PROVE  LET Rank(x) == Cardinality(LowerKeys(S, key, x))
               n == Cardinality(S)
           IN  /\ n \in Nat
               /\ \A x \in S : Rank(x) \in 0..(n - 1)
               /\ \A x, y \in S : Rank(x) = Rank(y) => x = y
               /\ \A i \in 0..(n - 1) : \E x \in S : Rank(x) = i
<1> DEFINE n == Cardinality(S)
           rank == [x \in S |-> Cardinality(LowerKeys(S, key, x))]
<1>1. n \in Nat
  BY FS_CardinalityType
<1>2. \A x \in S : LowerKeys(S, key, x) \in SUBSET S /\ x \notin LowerKeys(S, key, x)
  BY DEF LowerKeys
<1>3. \A x \in S : /\ IsFiniteSet(LowerKeys(S, key, x))
                   /\ Cardinality(LowerKeys(S, key, x)) \in Nat
                   /\ Cardinality(LowerKeys(S, key, x)) < n
  <2> SUFFICES ASSUME NEW x \in S
               PROVE  /\ IsFiniteSet(LowerKeys(S, key, x))
                      /\ Cardinality(LowerKeys(S, key, x)) \in Nat
                      /\ Cardinality(LowerKeys(S, key, x)) < n
    OBVIOUS
  <2> DEFINE L == LowerKeys(S, key, x)
  <2>1. L \in SUBSET S /\ L # S
    BY <1>2
  <2> HIDE DEF L
  <2>2. /\ IsFiniteSet(L) /\ Cardinality(L) <= Cardinality(S)
        /\ Cardinality(S) = Cardinality(L) => S = L
    BY <2>1, FS_Subset
  <2>3. Cardinality(L) \in Nat
    BY <2>2, FS_CardinalityType
  <2>4. QED
    BY <1>1, <2>1, <2>2, <2>3 DEF L
<1>4. ASSUME NEW x \in S, NEW y \in S, key[x] < key[y]
      PROVE  rank[x] < rank[y]
  <2> DEFINE A == LowerKeys(S, key, x)
             B == LowerKeys(S, key, y)
  <2>1. A \in SUBSET B
    <3>1. \A z \in S : key[z] \in Int
      OBVIOUS
    <3>2. QED
      BY <1>4, <3>1 DEF LowerKeys
  <2>2. x \in B /\ x \notin A
    BY <1>2, <1>4 DEF LowerKeys
  <2>3. IsFiniteSet(B) /\ Cardinality(A) \in Nat /\ Cardinality(B) \in Nat
    BY <1>3
  <2> HIDE DEF A, B
  <2>4. Cardinality(A) <= Cardinality(B) /\ (Cardinality(B) = Cardinality(A) => B = A)
    BY <2>1, <2>3, FS_Subset
  <2>5. rank[x] = Cardinality(A) /\ rank[y] = Cardinality(B)
    BY DEF A, B
  <2>6. QED
    BY <2>2, <2>3, <2>4, <2>5
<1>5. rank \in [S -> 0..(n - 1)]
  BY <1>1, <1>3
<1>6. \A x, y \in S : rank[x] = rank[y] => x = y
  <2> SUFFICES ASSUME NEW x \in S, NEW y \in S, rank[x] = rank[y], x # y PROVE FALSE
    OBVIOUS
  <2>1. key[x] < key[y] \/ key[y] < key[x]
    <3>1. key[x] \in Int /\ key[y] \in Int /\ key[x] # key[y]
      OBVIOUS
    <3>2. QED
      BY <3>1
  <2>2. rank[x] \in Nat /\ rank[y] \in Nat
    BY <1>3
  <2> HIDE DEF rank
  <2>3. rank[x] < rank[y] \/ rank[y] < rank[x]
    BY <1>4, <2>1
  <2>4. QED
    BY <2>2, <2>3
<1>7. rank \in Injection(S, 0..(n - 1))
  BY <1>5, <1>6 DEF Injection, IsInjective
<1>8. IsFiniteSet(0..(n - 1)) /\ Cardinality(0..(n - 1)) = n
  BY <1>1, FS_Interval
<1>9. rank \in Surjection(S, 0..(n - 1))
  <2> HIDE DEF rank
  <2>1. QED
    BY <1>7, <1>8, FS_Injection DEF n
<1>10. \A i \in 0..(n - 1) : \E x \in S : rank[x] = i
  BY <1>9 DEF Surjection
<1>11. QED
  BY <1>1, <1>5, <1>6, <1>10

\* Entries whose ages are the numbers up to m, each once, are m.
LEMMA AgesCount ==
    ASSUME NEW S, NEW m \in Nat, {e.age : e \in S} = 0..(m - 1),
           \A d, e \in S : d.age = e.age => d = e
    PROVE  IsFiniteSet(S) /\ Cardinality(S) = m
<1> DEFINE age == [e \in S |-> e.age]
<1>1. age \in Injection(S, 0..(m - 1))
  BY DEF Injection, IsInjective
<1>2. age \in Surjection(S, 0..(m - 1))
  BY DEF Surjection
<1>3. IsFiniteSet(0..(m - 1)) /\ Cardinality(0..(m - 1)) = m
  BY FS_Interval
<1> HIDE DEF age
<1>4. QED
  BY <1>1, <1>2, <1>3, FS_Injection

\* Ages in the cache are no two alike.
OncePerAge(S) == \A d, e \in S : d.age = e.age => d = e

Ordered(S) ==
    /\ IsFiniteSet(S) /\ OncePerAge(S)
    /\ {e.age : e \in S} = 0..(Cardinality(S) - 1)
    /\ \A e \in S : e.age \in 0..(Capacity - 1)

\* Whatever is touched, the entries that are left are counted by their ages, and are no
\* more than the capacity.
LEMMA UsedOrdered ==
    ASSUME Ordered(cache), NEW bars, IsFiniteSet(bars), OncePerTime(bars),
           \A b \in bars : b.time \in Nat
    PROVE  Ordered(Used(bars))
<1> DEFINE kept == {c \in cache : \A b \in bars : b.time # c.time}
           nb == Cardinality(bars)
           nk == Cardinality(kept)
           BarAge(b) == Cardinality({a \in bars : a.time > b.time})
           KeptRank(c) == Cardinality({d \in kept : d.age < c.age})
<1>1. /\ nb \in Nat
      /\ \A b \in bars : BarAge(b) \in 0..(nb - 1)
      /\ \A a, b \in bars : BarAge(a) = BarAge(b) => a = b
      /\ \A i \in 0..(nb - 1) : \E b \in bars : BarAge(b) = i
  <2> DEFINE key == [b \in bars |-> 0 - b.time]
  <2>1. key \in [bars -> Int] /\ \A a, b \in bars : key[a] = key[b] => a = b
    BY DEF OncePerTime
  <2>2. ASSUME NEW b \in bars PROVE BarAge(b) = Cardinality(LowerKeys(bars, key, b))
    <3>1. LowerKeys(bars, key, b) = {a \in bars : a.time > b.time}
      BY DEF LowerKeys
    <3>2. QED
      BY <3>1
  <2> HIDE DEF key
  <2>3. /\ Cardinality(bars) \in Nat
        /\ \A b \in bars : Cardinality(LowerKeys(bars, key, b)) \in 0..(Cardinality(bars) - 1)
        /\ \A a, b \in bars :
                Cardinality(LowerKeys(bars, key, a)) = Cardinality(LowerKeys(bars, key, b)) => a = b
        /\ \A i \in 0..(Cardinality(bars) - 1) :
                \E b \in bars : Cardinality(LowerKeys(bars, key, b)) = i
    BY <2>1, RanksAre
  <2> HIDE DEF BarAge
  <2>4. QED
    BY <2>2, <2>3
<1>2. /\ nk \in Nat
      /\ \A c \in kept : KeptRank(c) \in 0..(nk - 1)
      /\ \A c, d \in kept : KeptRank(c) = KeptRank(d) => c = d
      /\ \A i \in 0..(nk - 1) : \E c \in kept : KeptRank(c) = i
  <2> DEFINE key == [c \in kept |-> c.age]
  <2>1. kept \in SUBSET cache
    OBVIOUS
  <2>2. IsFiniteSet(kept)
    BY <2>1, FS_Subset DEF Ordered
  <2>3. key \in [kept -> Int] /\ \A c, d \in kept : key[c] = key[d] => c = d
    BY <2>1 DEF Ordered, OncePerAge
  <2> HIDE DEF kept
  <2>4. ASSUME NEW c \in kept PROVE KeptRank(c) = Cardinality(LowerKeys(kept, key, c))
    <3>1. LowerKeys(kept, key, c) = {d \in kept : d.age < c.age}
      BY DEF LowerKeys
    <3>2. QED
      BY <3>1
  <2> HIDE DEF key
  <2>5. /\ Cardinality(kept) \in Nat
        /\ \A d \in kept : Cardinality(LowerKeys(kept, key, d)) \in 0..(Cardinality(kept) - 1)
        /\ \A c, d \in kept :
                Cardinality(LowerKeys(kept, key, c)) = Cardinality(LowerKeys(kept, key, d)) => c = d
        /\ \A i \in 0..(Cardinality(kept) - 1) :
                \E d \in kept : Cardinality(LowerKeys(kept, key, d)) = i
    BY <2>2, <2>3, RanksAre
  <2> HIDE DEF KeptRank
  <2>6. QED
    BY <2>4, <2>5
<1> DEFINE FromBar(e) == \E b \in bars : e = Entry(b, BarAge(b))
           FromKept(e) == \E c \in kept : e = Entry(c, nb + KeptRank(c))
           n == nb + nk
           m == IF n <= Capacity THEN n ELSE Capacity
<1>3. \A e : e \in Used(bars) <=> (FromBar(e) \/ FromKept(e)) /\ e.age < Capacity
  BY DEF Used
<1>4. \A b, i : Entry(b, i).age = i
  BY DEF Entry
<1> HIDE DEF BarAge, KeptRank, kept, nb, nk
<1>5. /\ \A e : FromBar(e) => e.age \in 0..(nb - 1)
      /\ \A e : FromKept(e) => e.age \in nb..(n - 1)
  BY <1>1, <1>2, <1>4
<1>6. ASSUME NEW d \in Used(bars), NEW e \in Used(bars), d.age = e.age PROVE d = e
  <2>1. CASE FromBar(d)
    <3>1. FromBar(e)
      BY <1>1, <1>2, <1>3, <1>5, <1>6, <2>1
    <3>2. QED
      BY <1>1, <1>4, <1>6, <2>1, <3>1
  <2>2. CASE FromKept(d)
    <3>1. FromKept(e)
      <4>1. d.age \in nb..(n - 1)
        BY <1>5, <2>2
      <4>2. e.age \notin 0..(nb - 1)
        BY <1>1, <1>2, <1>6, <4>1
      <4>3. QED
        BY <1>3, <1>5, <4>2
    <3>2. PICK c \in kept : d = Entry(c, nb + KeptRank(c))
      BY <2>2
    <3>3. PICK b \in kept : e = Entry(b, nb + KeptRank(b))
      BY <3>1
    <3>4. KeptRank(c) = KeptRank(b)
      BY <1>1, <1>2, <1>4, <1>6, <3>2, <3>3
    <3>5. QED
      BY <1>2, <3>2, <3>3, <3>4
  <2>3. QED
    BY <1>3, <2>1, <2>2
<1>7. Capacity \in Nat \ {0} /\ m \in Nat
  BY LimitsAssumption, <1>1, <1>2
<1>8. \A e \in Used(bars) : e.age \in 0..(m - 1)
  <2> SUFFICES ASSUME NEW e \in Used(bars) PROVE e.age \in 0..(m - 1)
    OBVIOUS
  <2>1. e.age \in 0..(n - 1)
    BY <1>1, <1>2, <1>3, <1>5
  <2>2. e.age < Capacity
    BY <1>3
  <2>3. QED
    BY <1>1, <1>2, <1>7, <2>1, <2>2
<1>9. ASSUME NEW i \in 0..(m - 1) PROVE \E e \in Used(bars) : e.age = i
  <2>1. i \in Nat /\ i < Capacity /\ i < nb + nk
    BY <1>1, <1>2, <1>7
  <2>2. CASE i < nb
    <3>1. PICK b \in bars : BarAge(b) = i
      BY <1>1, <2>1, <2>2
    <3>2. Entry(b, i).age = i /\ FromBar(Entry(b, i))
      BY <1>4, <3>1
    <3>3. QED
      BY <1>3, <2>1, <3>2
  <2>3. CASE i >= nb
    <3>1. i - nb \in 0..(nk - 1)
      BY <1>1, <1>2, <2>1, <2>3
    <3>2. PICK c \in kept : KeptRank(c) = i - nb
      BY <1>2, <3>1
    <3>3. nb + KeptRank(c) = i
      BY <1>1, <2>1, <3>2
    <3>4. Entry(c, i).age = i /\ FromKept(Entry(c, i))
      BY <1>4, <3>3
    <3>5. QED
      BY <1>3, <2>1, <3>4
  <2>4. QED
    BY <1>1, <2>1, <2>2, <2>3
<1>10. {e.age : e \in Used(bars)} = 0..(m - 1)
  BY <1>8, <1>9
<1> HIDE DEF m
<1>11. IsFiniteSet(Used(bars)) /\ Cardinality(Used(bars)) = m
  BY <1>6, <1>7, <1>10, AgesCount
<1>12. \A e \in Used(bars) : e.age \in 0..(Capacity - 1)
  BY <1>7, <1>8 DEF m
<1>13. QED
  BY <1>6, <1>10, <1>11, <1>12 DEF Ordered, OncePerAge

-----------------------------------------------------------------------------
(* Types *)

LEMMA CacheOrdered == ASSUME TypeOK PROVE Ordered(cache)
<1> DEFINE age == [c \in cache |-> c.age]
<1>1. \A c \in cache : c.age \in 0..(Capacity - 1)
  BY DEF TypeOK, Cached
<1>2. OncePerAge(cache)
  BY DEF TypeOK, OncePerAge
<1>3. age \in Injection(cache, 0..(Capacity - 1))
  BY <1>1, <1>2 DEF Injection, IsInjective, OncePerAge
<1>4. IsFiniteSet(0..(Capacity - 1))
  BY LimitsAssumption, FS_Interval
<1> HIDE DEF age
<1>5. IsFiniteSet(cache)
  BY <1>3, <1>4, FS_Injection
<1>6. QED
  BY <1>1, <1>2, <1>5 DEF TypeOK, Ordered

\* Bars that are closed by now are finitely many.
LEMMA ClosedFinite ==
    ASSUME now \in Nat, NEW bars, OncePerTime(bars),
           \A b \in bars : b.time \in Nat /\ CloseTime(b) <= now
    PROVE  IsFiniteSet(bars)
<1> DEFINE time == [b \in bars |-> b.time]
<1>1. \A b \in bars : b.time \in 0..now
  BY StepAssumption DEF CloseTime
<1>2. time \in Injection(bars, 0..now)
  BY <1>1 DEF Injection, IsInjective, OncePerTime
<1>3. IsFiniteSet(0..now)
  BY FS_Interval
<1> HIDE DEF time
<1>4. QED
  BY <1>2, <1>3, FS_Injection

LEMMA CacheTyped ==
    ASSUME TypeOK, CacheInv, NEW bars \in SUBSET Bar, OncePerTime(bars),
           \A b \in bars : b.time % Step = Offset /\ CloseTime(b) <= now,
           cache' = Used(bars), now' = now, request' \in [Requests -> Request]
    PROVE  TypeOK'
<1>1. now \in Nat /\ \A b \in bars : b.time \in Nat
  BY DEF TypeOK, Bar
<1>2. Ordered(Used(bars))
  BY <1>1, CacheOrdered, ClosedFinite, UsedOrdered
<1>3. OncePerTime(Used(bars))
  BY <1>1, CacheUsed
<1>4. ASSUME NEW e \in Used(bars) PROVE e \in Cached
  <2>1. \E b \in bars \cup cache : \E n : e = Entry(b, n)
    BY DEF Used
  <2>2. \A b \in bars \cup cache : b.time \in Nat /\ b.seen \in Nat
    BY DEF TypeOK, Cached, Bar
  <2>3. e = [time |-> e.time, seen |-> e.seen, age |-> e.age]
        /\ e.time \in Nat /\ e.seen \in Nat
    BY <2>1, <2>2 DEF Entry
  <2>4. e.age \in 0..(Capacity - 1)
    BY <1>2 DEF Ordered
  <2>5. QED
    BY <2>3, <2>4 DEF Cached
<1>5. QED
  BY <1>1, <1>2, <1>3, <1>4 DEF TypeOK, Ordered, OncePerAge, OncePerTime

LEMMA RequestTyped ==
    ASSUME TypeOK, NEW r \in Requests, NEW state \in Request, SetRequest(r, state)
    PROVE  request' \in [Requests -> Request]
  BY DEF TypeOK, SetRequest

LEMMA WaitingTyped ==
    ASSUME NEW q \in Queries, NEW asked \in Nat, NEW hits \in SUBSET Bar,
           NEW fetches \in SUBSET Fetch, NEW got \in SUBSET Bar, NEW since \in Nat
    PROVE  Waiting(q, asked, hits, fetches, got, since) \in Request
  BY DEF Waiting, Request

LEMMA DoneTyped ==
    ASSUME now \in Nat, NEW q \in Queries, NEW asked \in Nat, NEW bars \in SUBSET Bar
    PROVE  Done(q, asked, bars) \in Request
<1> DEFINE times == First({b.time : b \in bars}, Limit(q))
           served == {b \in bars : b.time \in times}
<1>1. served \in SUBSET Bar /\ IsFullyHistorical(q) \in BOOLEAN
  BY DEF IsFullyHistorical
<1>2. Done(q, asked, bars) =
        [pc |-> "done", query |-> q, asked |-> asked, at |-> now,
         bars |-> served, immutable |-> IsFullyHistorical(q)]
  BY DEF Done
<1> HIDE DEF served
<1>3. QED
  BY <1>1, <1>2 DEF Request

LEMMA HitsTyped ==
    ASSUME TypeOK, NEW start, NEW end
    PROVE  Hits(start, end) \in SUBSET Bar
  BY DEF TypeOK, Hits, Cached, Bar

LEMMA AnswerTyped ==
    ASSUME NEW f, NEW t \in Nat
    PROVE  Answer(f, t) \in SUBSET Bar
<1> SUFFICES ASSUME NEW b \in Answer(f, t) PROVE b \in Bar
  OBVIOUS
<1>1. b = [time |-> b.time, seen |-> b.seen]
  BY DEF Answer
<1>2. IsBar(b)
  BY AnswerSeen
<1>3. QED
  BY <1>1, <1>2 DEF IsBar, Bar

LEMMA FetchTyped ==
    ASSUME NEW limit \in Nat
    PROVE  /\ [newest |-> TRUE, limit |-> limit] \in Fetch
           /\ \A from, to \in Int :
                [newest |-> FALSE, from |-> from, to |-> to, limit |-> limit] \in Fetch
<1>1. TRUE \in {TRUE} /\ FALSE \in {FALSE}
  OBVIOUS
<1>2. [newest |-> TRUE, limit |-> limit] \in [newest : {TRUE}, limit : Nat]
  BY <1>1
<1>3. \A from, to \in Int :
        [newest |-> FALSE, from |-> from, to |-> to, limit |-> limit]
            \in [newest : {FALSE}, from : Int, to : Int, limit : Nat]
  BY <1>1
<1>4. QED
  BY <1>2, <1>3, Zenon DEF Fetch

LEMMA GapsTyped ==
    ASSUME NEW start \in Nat, NEW end \in Nat
    PROVE  Gaps(start, end) \in SUBSET Fetch
<1> SUFFICES ASSUME NEW f \in Gaps(start, end) PROVE f \in Fetch
  OBVIOUS
<1>1. f = [newest |-> f.newest, from |-> f.from, to |-> f.to, limit |-> f.limit]
  BY DEF Gaps
<1>2. f.newest = FALSE /\ f.from \in Nat /\ f.to \in Int /\ f.limit \in Nat
  BY GapIsPart
<1>3. f.from \in Int
  BY <1>2
<1>4. [newest |-> FALSE, from |-> f.from, to |-> f.to, limit |-> f.limit] \in Fetch
  BY <1>2, <1>3, FetchTyped
<1>5. QED
  BY <1>1, <1>2, <1>4

LEMMA TypesAsk ==
    ASSUME TypeOK, CompleteInv, NEW r \in Requests, NEW q \in Queries,
           AskNewest(r, q) \/ AskOneSided(r, q) \/ AskRange(r, q)
    PROVE  TypeOK'
<1>1. now \in Nat /\ Limit(q) \in Nat
  BY Queried DEF TypeOK
<1>2. CASE AskNewest(r, q)
  <2> DEFINE f == [newest |-> TRUE, limit |-> Limit(q)]
  <2>1. {f} \in SUBSET Fetch
    BY <1>1, FetchTyped
  <2>2. SetRequest(r, Fetching(q, {}, {f})) /\ now' = now /\ cache' = cache
    BY <1>2 DEF AskNewest
  <2> HIDE DEF f
  <2>3. Fetching(q, {}, {f}) \in Request
    BY <1>1, <2>1, WaitingTyped DEF Fetching
  <2>4. QED
    BY <2>2, <2>3, RequestTyped DEF TypeOK
<1>3. CASE AskOneSided(r, q)
  <2> DEFINE f == RangeOf(q)
  <2>1. {f} \in SUBSET Fetch
    <3>1. q.start \in Nat \cup {None} /\ q.end \in Nat \cup {None}
      BY Queried
    <3>2. None \in Int
      BY DEF None
    <3> DEFINE end == IF q.end = None THEN now ELSE q.end
               from == IF q.start = None THEN AtLeast(0, end - Step * Limit(q)) ELSE q.start
    <3>3. end \in Int /\ Step * Limit(q) \in Int
      BY <1>1, <3>1, <3>2, StepAssumption
    <3>4. from \in Int
      BY <3>1, <3>2, <3>3 DEF AtLeast
    <3>5. f = [newest |-> FALSE, from |-> from, to |-> end, limit |-> Limit(q)]
      BY DEF RangeOf
    <3> HIDE DEF end, from, f
    <3>6. QED
      BY <1>1, <3>3, <3>4, <3>5, FetchTyped
  <2>2. SetRequest(r, Fetching(q, {}, {f})) /\ now' = now /\ cache' = cache
    BY <1>3 DEF AskOneSided
  <2> HIDE DEF f
  <2>3. Fetching(q, {}, {f}) \in Request
    BY <1>1, <2>1, WaitingTyped DEF Fetching
  <2>4. QED
    BY <2>2, <2>3, RequestTyped DEF TypeOK
<1>4. CASE AskRange(r, q)
  <2> DEFINE hits == Hits(q.start, q.end)
             gaps == Gaps(q.start, q.end)
             state == IF gaps = {} THEN Done(q, now, hits) ELSE Fetching(q, hits, gaps)
  <2>1. SetRequest(r, state) /\ cache' = Used(hits) /\ now' = now
    BY <1>4 DEF AskRange
  <2>2. q.start \in Nat /\ q.end \in Nat
    BY <1>4, Queried DEF AskRange
  <2>3. hits \in SUBSET Bar /\ gaps \in SUBSET Fetch
    BY <2>2, HitsTyped, GapsTyped
  <2>4. OncePerTime(hits)
    BY <1>1, <2>2, HitsAre DEF CompleteInv
  <2>5. \A b \in hits : b.time % Step = Offset /\ CloseTime(b) <= now
    BY DEF CompleteInv, CacheInv, CloseTime, Hits
  <2> HIDE DEF hits, gaps
  <2>6. state \in Request
    BY <1>1, <2>3, DoneTyped, WaitingTyped DEF Fetching
  <2> HIDE DEF state
  <2>7. QED
    BY <2>1, <2>3, <2>4, <2>5, <2>6, RequestTyped, CacheTyped DEF CompleteInv
<1>5. QED
  BY <1>2, <1>3, <1>4

\* The bars that a request has fetched when all calls are answered.
LEMMA FetchedOnce ==
    ASSUME CompleteInv, NEW r \in Requests, FetchDone(r)
    PROVE  /\ OncePerTime(request[r].got)
           /\ \A b \in request[r].got : b.time \in Nat /\ b.time % Step = Offset
<1> DEFINE x == request[r]
<1>1. FetchingInvOf(x, now) /\ x.waits = {}
  BY DEF FetchDone, CompleteInv
<1> HIDE DEF x
<1>2. CASE x.query.start = None /\ x.query.end = None
  <2>1. OncePerTime(x.got)
    BY <1>1, <1>2 DEF FetchingInvOf, NewestInv
  <2>2. PICK T : Times(x.got) = Last(Opens(0, T), Limit(x.query))
    BY <1>1, <1>2 DEF FetchingInvOf, NewestInv
  <2>3. ASSUME NEW b \in x.got PROVE b.time \in Opens(0, T)
    <3>1. b.time \in Times(x.got)
      BY DEF Times
    <3>2. QED
      BY <2>2, <3>1 DEF Last
  <2>4. QED
    BY <2>1, <2>3 DEF Opens, x
<1>3. CASE x.query.start # None \/ x.query.end # None
  <2>1. RangeInv(x, now)
    BY <1>1, <1>3 DEF FetchingInvOf
  <2>2. OncePerTime(x.got)
    BY <2>1 DEF RangeInv, OncePerTime
  <2>3. \A b \in x.got : b.time \in Wanted(x)
    BY <2>1 DEF RangeInv, CoveredTo
  <2>4. QED
    BY <2>2, <2>3 DEF Wanted, Opens, x
<1>4. QED
  BY <1>2, <1>3

LEMMA TypesFetch ==
    ASSUME TypeOK, CompleteInv, NEW r \in Requests,
           FetchAnswered(r) \/ FetchFails(r) \/ FetchDone(r)
    PROVE  TypeOK'
<1> DEFINE x == request[r]
<1>1. now \in Nat /\ x \in Request
  BY DEF TypeOK
<1>2. x.pc = "fetch"
  BY DEF FetchAnswered, FetchFails, FetchDone
<1>3. /\ x.query \in Queries /\ x.asked \in Nat /\ x.since \in Nat
      /\ x.hits \in SUBSET Bar /\ x.waits \in SUBSET Fetch /\ x.got \in SUBSET Bar
  BY <1>1, <1>2 DEF Request
<1>4. CASE FetchAnswered(r)
  <2>1. PICK f \in x.waits :
            SetRequest(r, Waiting(x.query, x.asked, x.hits, x.waits \ {f},
                                  x.got \cup Answer(f, now),
                                  IF x.got = {} THEN now ELSE x.since))
    BY <1>4 DEF FetchAnswered
  <2> DEFINE since == IF x.got = {} THEN now ELSE x.since
             got == x.got \cup Answer(f, now)
             waits == x.waits \ {f}
  <2>2. since \in Nat /\ got \in SUBSET Bar /\ waits \in SUBSET Fetch
    BY <1>1, <1>3, AnswerTyped
  <2> HIDE DEF x, since, got, waits
  <2>3. Waiting(x.query, x.asked, x.hits, waits, got, since) \in Request
    BY <1>3, <2>2, WaitingTyped
  <2>4. now' = now /\ cache' = cache
    BY <1>4 DEF FetchAnswered
  <2>5. QED
    BY <2>1, <2>3, <2>4, RequestTyped DEF TypeOK, since, got, waits
<1>5. CASE FetchFails(r)
  <2>1. Idle \in Request
    BY DEF Idle, Request
  <2>2. SetRequest(r, Idle) /\ now' = now /\ cache' = cache
    BY <1>5 DEF FetchFails
  <2>3. QED
    BY <2>1, <2>2, RequestTyped DEF TypeOK
<1>6. CASE FetchDone(r)
  <2> DEFINE state == Done(x.query, x.asked, x.hits \cup x.got)
             closed == Closed(x.got)
  <2>1. SetRequest(r, state) /\ cache' = Used(closed) /\ now' = now
    BY <1>6 DEF FetchDone
  <2>2. closed \in SUBSET Bar
    BY <1>3 DEF Closed
  <2>3. /\ OncePerTime(closed)
        /\ \A b \in closed : b.time % Step = Offset /\ CloseTime(b) <= now
    BY <1>6, FetchedOnce DEF Closed, OncePerTime
  <2>4. state \in Request
    <3>1. x.hits \cup x.got \in SUBSET Bar
      BY <1>3
    <3> HIDE DEF x
    <3>2. QED
      BY <1>1, <1>3, <3>1, DoneTyped
  <2> HIDE DEF state, closed, x
  <2>5. QED
    BY <2>1, <2>2, <2>3, <2>4, RequestTyped, CacheTyped DEF CompleteInv
<1>7. QED
  BY <1>4, <1>5, <1>6

LEMMA TypesNext == TypeOK /\ CompleteInv /\ [Next]_vars => TypeOK'
<1> SUFFICES ASSUME TypeOK, CompleteInv, [Next]_vars PROVE TypeOK'
  OBVIOUS
<1>1. CASE UNCHANGED vars
  BY <1>1 DEF vars, TypeOK
<1>2. CASE Tick
  BY <1>2 DEF Tick, TypeOK
<1>3. CASE Next
  BY <1>2, <1>3, TypesAsk, TypesFetch DEF Next
<1>4. QED
  BY <1>1, <1>3

LEMMA TypesInit == Init => TypeOK
<1> SUFFICES ASSUME Init PROVE TypeOK
  OBVIOUS
<1>1. cache = {} /\ {c.age : c \in cache} = {}
  BY DEF Init
<1>2. 0..(Cardinality(cache) - 1) = {}
  BY <1>1, FS_EmptySet
<1>3. request \in [Requests -> Request]
  BY DEF Init, Idle, Request
<1>4. QED
  BY <1>1, <1>2, <1>3 DEF Init, TypeOK

\* The cache holds each bar once and never more than fit, in an order of use without gaps
\* or ties, whatever lookups, evictions and answers come between (touch, lookup,
\* saveClosedBars).
THEOREM TypeCorrect == Spec => []TypeOK
<1>1. QED
  BY TypesInit, TypesNext, CompleteInit, CompleteNext, PTL DEF Spec
=============================================================================
