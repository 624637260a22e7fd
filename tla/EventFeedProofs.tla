--------------------------- MODULE EventFeedProofs ---------------------------
(***************************************************************************)
(* Proofs about EventFeed, for every set of keys, sources and ingesters.   *)
(* TypeInv adds to the types that an upsert about to put an event on the   *)
(* bus has stored it; OverlapInv says of a writer between its lookup and   *)
(* its insert that it looked no later than now.                            *)
(***************************************************************************)
EXTENDS EventFeed, TLAPS

EmitIsStored == \A u \in upserts : u.pc = "emit" => u.id \in {e.id : e \in events}

TypeInv == TypeOK /\ EmitIsStored

-----------------------------------------------------------------------------
(* Type correctness *)

LEMMA FeedKeys == \A i \in DOMAIN Feeds : Feeds[i] \subseteq Keys
  BY DEF Keys, RssKeys

LEMMA FeedsDomain == Len(Feeds) \in Nat /\ DOMAIN Feeds = 1..Len(Feeds)
  BY FeedsAssumption

LEMMA IdParts == \A i \in EventId : KeyOf(i) \in Keys
  BY DEF EventId, KeyOf

\* A run that is moved on keeps its type.
LEMMA NextSourceType == \A i \in DOMAIN Feeds \cup {0} : NextSource(i) \in Run
<1> TAKE i \in DOMAIN Feeds \cup {0}
<1>1. i < Len(Feeds) => i + 1 \in DOMAIN Feeds
  BY FeedsDomain
<1>2. QED
  BY <1>1 DEF NextSource, Idle, Run

LEMMA SetRunType ==
    ASSUME NEW p \in Ingesters, NEW x \in Run, ingest \in [Ingesters -> Run], SetRun(p, x)
    PROVE  ingest' \in [Ingesters -> Run]
  BY DEF SetRun

LEMMA RunSource ==
    ASSUME NEW x \in Run, x.pc # "idle"
    PROVE  x.source \in DOMAIN Feeds
  BY DEF Run

\* Rows made of typed ids are typed.
LEMMA InsertType ==
    ASSUME TypeInv, NEW ids \in SUBSET EventId, NEW t \in Nat, Insert(ids, t)
    PROVE  /\ events' \subseteq Event
           /\ missed' \subseteq EventId
           /\ {e.id : e \in events} \cup ids \subseteq {e.id : e \in events'}
<1>1. Rows(ids, t) \subseteq Event
  BY IdParts DEF Rows, Event, TypeInv, TypeOK
<1>2. ASSUME NEW i \in ids PROVE i \in {e.id : e \in Rows(ids, t)}
  <2> DEFINE row == [id |-> i, key |-> KeyOf(i), ingested |-> t, stored |-> now]
  <2>1. row \in Rows(ids, t)
    BY DEF Rows
  <2>2. row.id = i
    OBVIOUS
  <2> HIDE DEF row
  <2>3. QED
    BY <2>1, <2>2
<1>3. events' = events \cup Rows(ids, t)
  BY DEF Insert
<1>4. {e.id : e \in events'} = {e.id : e \in events} \cup {e.id : e \in Rows(ids, t)}
  BY <1>3
<1>5. missed' \subseteq EventId
  BY DEF Insert, TypeInv, TypeOK
<1>6. QED
  BY <1>1, <1>2, <1>3, <1>4, <1>5 DEF TypeInv, TypeOK

-----------------------------------------------------------------------------
\* The initial state is typed.
LEMMA TypeInit == Init => TypeInv
<1> SUFFICES ASSUME Init PROVE TypeInv
  OBVIOUS
<1>1. Idle \in Run
  BY DEF Idle, Run
<1>2. lastPoll \in Int
  BY BoundsAssumption DEF Init
<1>3. QED
  BY <1>1, <1>2, BoundsAssumption DEF Init, TypeInv, TypeOK, EmitIsStored, Connecting

\* The worker's socket: nothing but its record changes.
LEMMA TypeSocket == TypeInv /\ SocketStep => TypeInv'
<1> SUFFICES ASSUME TypeInv, SocketStep PROVE TypeInv'
  OBVIOUS
<1>1. UNCHANGED <<now, storeVars, upserts, ingest, hubVars>>
  BY DEF SocketStep, SocketOpens, SocketEnds, ReconnectTimer
<1>2. worker' \in [socket : {"down", "connecting", "open", "erred", "closed"},
                   timer : BOOLEAN]
  <2>1. CASE SocketOpens
    BY <2>1 DEF SocketOpens, TypeInv, TypeOK
  <2>2. ASSUME NEW state \in {"erred", "closed"}, SocketEnds(state)
        PROVE  worker' = [socket |-> state, timer |-> TRUE]
    BY <2>2 DEF SocketEnds, Scheduled
  <2>3. CASE ReconnectTimer
    BY <2>3 DEF ReconnectTimer, Connecting
  <2>4. ASSUME NEW state \in {"erred", "closed", "connecting"}, NEW timer \in BOOLEAN
        PROVE  [socket |-> state, timer |-> timer] \in
                 [socket : {"down", "connecting", "open", "erred", "closed"},
                  timer : BOOLEAN]
    OBVIOUS
  <2>5. CASE SocketEnds("erred")
    BY <2>2, <2>4, <2>5
  <2>6. CASE SocketEnds("closed")
    BY <2>2, <2>4, <2>6
  <2>7. QED
    BY <2>1, <2>3, <2>4, <2>5, <2>6 DEF SocketStep
<1>3. QED
  BY <1>1, <1>2 DEF TypeInv, TypeOK, EmitIsStored, storeVars, hubVars

\* An upsert: what it stores has an id of the arrival that began it.
LEMMA TypeUpsert == TypeInv /\ UpsertStep => TypeInv'
<1> SUFFICES ASSUME TypeInv, UpsertStep PROVE TypeInv'
  OBVIOUS
<1> USE DEF TypeInv
<1>1. CASE Message
  <2>1. PICK k \in Liquidations :
          upserts' = upserts \cup {[pc |-> "find", id |-> <<arrivals + 1, k, 1>>]}
    BY <1>1 DEF Message
  <2>2. <<arrivals + 1, k, 1>> \in EventId
    BY <1>1, BoundsAssumption DEF Message, EventId, Keys, TypeOK
  <2>3. upserts' \subseteq Upsert
    BY <2>1, <2>2 DEF Upsert, TypeOK
  <2>4. EmitIsStored'
    BY <2>1, <1>1 DEF EmitIsStored, Message
  <2>5. arrivals' \in 0..MaxArrivals
    BY <1>1, BoundsAssumption DEF Message, TypeOK
  <2>6. QED
    BY <1>1, <2>3, <2>4, <2>5 DEF Message, TypeOK, hubVars
<1>2. ASSUME NEW u \in upserts, UpsertFind(u) PROVE TypeInv'
  <2>1. u.id \in EventId
    BY DEF Upsert, TypeOK
  <2>2. upserts' \subseteq Upsert
    BY <1>2, <2>1 DEF UpsertFind, Becomes, Upsert, TypeOK
  <2>3. EmitIsStored'
    BY <1>2 DEF UpsertFind, Becomes, EmitIsStored, storeVars
  <2>4. QED
    BY <1>2, <2>2, <2>3 DEF UpsertFind, TypeOK, storeVars, hubVars
<1>3. ASSUME NEW u \in upserts, UpsertCreate(u) PROVE TypeInv'
  <2>1. u.id \in EventId /\ u.ingested \in Nat
    BY <1>3 DEF UpsertCreate, Upsert, TypeOK
  <2>2. /\ events' \subseteq Event
        /\ missed' \subseteq EventId
        /\ {e.id : e \in events} \cup {u.id} \subseteq {e.id : e \in events'}
    BY <1>3, <2>1, InsertType DEF UpsertCreate
  <2>3. [u EXCEPT !.pc = "emit"] \in Upsert
    BY <1>3, <2>1 DEF UpsertCreate, Upsert, TypeOK
  <2>4. [u EXCEPT !.pc = "emit"].id = u.id
    BY <1>3 DEF UpsertCreate, Upsert, TypeOK
  <2>5. upserts' \subseteq Upsert
    BY <1>3, <2>3 DEF UpsertCreate, Becomes, TypeOK
  <2>6. EmitIsStored'
    BY <1>3, <2>2, <2>4 DEF UpsertCreate, Becomes, EmitIsStored
  <2>7. QED
    BY <1>3, <2>2, <2>5, <2>6 DEF UpsertCreate, TypeOK
<1>4. ASSUME NEW u \in upserts, UpsertEmit(u) PROVE TypeInv'
  <2>1. told' \subseteq {e.id : e \in events'}
    BY <1>4 DEF UpsertEmit, EmitIsStored, TypeOK, storeVars
  <2>2. EmitIsStored'
    BY <1>4 DEF UpsertEmit, EmitIsStored, Becomes, storeVars
  <2>3. QED
    BY <1>4, <2>1, <2>2 DEF UpsertEmit, Becomes, TypeOK, storeVars
<1>5. QED
  BY <1>1, <1>2, <1>3, <1>4 DEF UpsertStep

\* The ingest: the items of a batch have ids of the arrival that brought them.
LEMMA TypeIngest == TypeInv /\ (\E p \in Ingesters : IngestStep(p)) => TypeInv'
<1> SUFFICES ASSUME TypeInv, NEW p \in Ingesters, IngestStep(p) PROVE TypeInv'
  OBVIOUS
<1> USE DEF TypeInv
<1>1. ingest[p] \in Run
  BY DEF TypeOK
<1>2. CASE IngestBegins(p)
  <2>1. ingest' \in [Ingesters -> Run]
    BY <1>2, NextSourceType, SetRunType DEF IngestBegins, TypeOK
  <2>2. QED
    BY <1>2, <2>1 DEF IngestBegins, TypeOK, EmitIsStored, storeVars, hubVars
<1>3. CASE SourceAnswers(p)
  <2> DEFINE i == ingest[p].source
  <2>1. PICK keys \in SUBSET Feeds[i] \ {{}}, n \in 1..Copies :
          SetRun(p, [pc |-> "find", source |-> i,
                     items |-> {arrivals + 1} \X keys \X (1..n)])
    BY <1>3 DEF SourceAnswers
  <2>2. i \in DOMAIN Feeds
    BY <1>1, <1>3, RunSource DEF SourceAnswers
  <2>3. {arrivals + 1} \X keys \X (1..n) \subseteq EventId
    <3>1. arrivals + 1 \in 1..MaxArrivals
      BY <1>3, BoundsAssumption DEF SourceAnswers, TypeOK
    <3>2. keys \subseteq Keys
      BY <2>2, FeedKeys
    <3>3. 1..n \subseteq 1..Copies
      BY BoundsAssumption
    <3>4. QED
      BY <3>1, <3>2, <3>3 DEF EventId
  <2>4. [pc |-> "find", source |-> i, items |-> {arrivals + 1} \X keys \X (1..n)] \in Run
    BY <2>2, <2>3 DEF Run
  <2>5. ingest' \in [Ingesters -> Run]
    BY <2>1, <2>4, SetRunType DEF TypeOK
  <2>6. arrivals' \in 0..MaxArrivals
    BY <1>3, BoundsAssumption DEF SourceAnswers, TypeOK
  <2>7. QED
    BY <1>3, <2>5, <2>6 DEF SourceAnswers, TypeOK, EmitIsStored, hubVars
<1>4. CASE SourceSkipped(p)
  <2>1. ingest' \in [Ingesters -> Run]
    BY <1>1, <1>4, RunSource, NextSourceType, SetRunType DEF SourceSkipped, TypeOK
  <2>2. QED
    BY <1>4, <2>1 DEF SourceSkipped, TypeOK, EmitIsStored, storeVars, hubVars
<1>5. CASE BatchFind(p)
  <2> DEFINE x == ingest[p]
             toCreate == x.items \ Existing(x.items)
  <2>1. x.source \in DOMAIN Feeds /\ x.items \subseteq EventId
    BY <1>1, <1>5, RunSource DEF BatchFind, Run
  <2>2. [pc |-> "create", source |-> x.source, items |-> toCreate, ingested |-> now] \in Run
    BY <2>1 DEF Run, TypeOK
  <2>3. NextSource(x.source) \in Run
    BY <2>1, NextSourceType
  <2>4. ingest' \in [Ingesters -> Run]
    BY <1>5, <2>2, <2>3, SetRunType DEF BatchFind, TypeOK
  <2>5. QED
    BY <1>5, <2>4 DEF BatchFind, TypeOK, EmitIsStored, storeVars, hubVars
<1>6. CASE BatchCreate(p)
  <2>1. ingest[p].items \in SUBSET EventId /\ ingest[p].ingested \in Nat
    BY <1>1, <1>6 DEF BatchCreate, Run
  <2>2. /\ events' \subseteq Event
        /\ missed' \subseteq EventId
        /\ {e.id : e \in events} \cup ingest[p].items \subseteq {e.id : e \in events'}
    BY <1>6, <2>1, InsertType DEF BatchCreate
  <2>3. ingest' \in [Ingesters -> Run]
    BY <1>1, <1>6, RunSource, NextSourceType, SetRunType DEF BatchCreate, TypeOK
  <2>4. EmitIsStored'
    BY <1>6, <2>2 DEF BatchCreate, EmitIsStored
  <2>5. QED
    BY <1>6, <2>2, <2>3, <2>4 DEF BatchCreate, TypeOK
<1>7. CASE IngestDies(p)
  <2>1. Idle \in Run
    BY DEF Idle, Run
  <2>2. ingest' \in [Ingesters -> Run]
    BY <1>7, <2>1, SetRunType DEF IngestDies, TypeOK
  <2>3. QED
    BY <1>7, <2>2 DEF IngestDies, TypeOK, EmitIsStored, storeVars, hubVars
<1>8. QED
  BY <1>2, <1>3, <1>4, <1>5, <1>6, <1>7 DEF IngestStep

\* Polls: what is sent was read from the table.
LEMMA TypePoll == TypeInv /\ PollStep => TypeInv'
<1> SUFFICES ASSUME TypeInv, PollStep PROVE TypeInv'
  OBVIOUS
<1> USE DEF TypeInv
<1>1. \A S \in SUBSET events : Ids(S) \subseteq {e.id : e \in events}
  BY DEF Ids
<1>2. \A S \in SUBSET events : Behind(S) \subseteq EventId
  BY DEF Behind, Ids, TypeOK, Event
<1>3. \A t : ListedSince(t) \subseteq events
  BY DEF ListedSince
<1>4. CASE PollBegins
  BY <1>4 DEF PollBegins, Poll, TypeOK, EmitIsStored, storeVars
<1>5. ASSUME NEW q \in polls, PollAnswered(q) PROVE TypeInv'
  <2>1. PICK page \in Pages(ListedSince(q.since)) :
          /\ told' = told \cup Ids(page)
          /\ missed' = missed \cup Behind(ListedSince(q.since) \ page)
    BY <1>5 DEF PollAnswered
  <2>2. page \subseteq events
    BY <1>3 DEF Pages
  <2>3. told' \subseteq {e.id : e \in events} /\ missed' \subseteq EventId
    <3>1. ListedSince(q.since) \ page \subseteq events
      BY <1>3
    <3>2. QED
      BY <1>1, <1>2, <2>1, <2>2, <3>1 DEF TypeOK
  <2>4. QED
    BY <1>5, <2>3 DEF PollAnswered, TypeOK, EmitIsStored, storeVars
<1>6. ASSUME NEW q \in polls, PollFails(q) PROVE TypeInv'
  <2>1. missed' \subseteq EventId
    BY <1>2, <1>3, <1>6 DEF PollFails, TypeOK
  <2>2. QED
    BY <1>6, <2>1 DEF PollFails, TypeOK, EmitIsStored, storeVars
<1>7. QED
  BY <1>4, <1>5, <1>6 DEF PollStep

\* However the API process ends, it dies.
LEMMA EndsDies == ApiEnds => Dies
  BY DEF ApiEnds, ApiDies, UpsertRefused

\* The API process dies and starts, and the clock moves.
LEMMA TypeRest == TypeInv /\ (ApiEnds \/ ApiStarts \/ Tick) => TypeInv'
<1> SUFFICES ASSUME TypeInv, ApiEnds \/ ApiStarts \/ Tick PROVE TypeInv'
  OBVIOUS
<1> USE DEF TypeInv
<1>1. CASE ApiEnds
  <2>1. Dies
    BY <1>1, EndsDies
  <2>2. worker' \in [socket : {"down", "connecting", "open", "erred", "closed"},
                     timer : BOOLEAN]
    BY <2>1 DEF Dies
  <2>3. QED
    BY <2>1, <2>2 DEF Dies, TypeOK, EmitIsStored, storeVars
<1>2. CASE ApiStarts
  <2>1. lastPoll' \in Int
    BY <1>2, BoundsAssumption DEF ApiStarts, TypeOK
  <2>2. QED
    BY <1>2, <2>1 DEF ApiStarts, Connecting, TypeOK, EmitIsStored, storeVars
<1>3. CASE Tick
  BY <1>3 DEF Tick, TypeOK, EmitIsStored, storeVars, hubVars
<1>4. QED
  BY <1>1, <1>2, <1>3

LEMMA TypeNext == TypeInv /\ [Next]_vars => TypeInv'
<1> SUFFICES ASSUME TypeInv, [Next]_vars PROVE TypeInv'
  OBVIOUS
<1>1. CASE UNCHANGED vars
  BY <1>1 DEF vars, hubVars, TypeInv, TypeOK, EmitIsStored
<1>2. CASE Next
  BY <1>2, TypeSocket, TypeUpsert, TypeIngest, TypePoll, TypeRest DEF Next
<1>3. QED
  BY <1>1, <1>2

\* The types of the table, the worker and the runs, and that nothing is
\* announced before it is stored (event.service.ts, events-hub.ts).
THEOREM TypeCorrect == Spec => []TypeOK
<1>1. Spec => []TypeInv
  BY TypeInit, TypeNext, PTL DEF Spec
<1>2. TypeInv => TypeOK
  BY DEF TypeInv
<1>3. QED
  BY <1>1, <1>2, PTL

-----------------------------------------------------------------------------
(* Refused inserts *)

\* A writer that looked up id at time t, and did not find its key, is ahead of
\* every row of that key.
Ahead(id, t) == t <= now /\ Looked(id, t)

OverlapInv ==
    /\ TypeInv
    /\ \A u \in upserts : u.pc = "create" => Ahead(u.id, u.ingested)
    /\ \A p \in Ingesters : ingest[p].pc = "create" =>
            \A i \in ingest[p].items : Ahead(i, ingest[p].ingested)

\* An insert: the writers that are at it have looked before its rows were there.
LEMMA OverlapInsert ==
    ASSUME OverlapInv, NEW ids \in SUBSET EventId, NEW t \in Nat, Insert(ids, t),
           now' = now
    PROVE  \A i \in EventId, s \in Nat : Ahead(i, s) => Ahead(i, s)'
<1>1. /\ events' = events \cup Rows(ids, t)
      /\ now \in Nat /\ events \subseteq Event
  BY DEF Insert, OverlapInv, TypeInv, TypeOK
<1>2. \A e \in Rows(ids, t) : e.stored = now
  BY DEF Rows
<1>3. QED
  BY <1>1, <1>2 DEF Ahead, Looked, KeyOf

\* What a lookup does not find at this moment.
LEMMA LookedNow ==
    ASSUME OverlapInv, NEW ids \in SUBSET EventId
    PROVE  \A i \in ids \ Existing(ids) : Ahead(i, now)
<1> TAKE i \in ids \ Existing(ids)
<1>1. \A e \in events : e.key # KeyOf(i)
  BY DEF Existing
<1>2. QED
  BY <1>1 DEF Ahead, Looked, OverlapInv, TypeInv, TypeOK

\* Steps that leave the table alone and bring no writer to its insert.
LEMMA OverlapElsewhere ==
    ASSUME OverlapInv, TypeInv', events' = events, now' \in {now, now + 1},
           \A u \in upserts' : u.pc = "create" => u \in upserts \/ Ahead(u.id, u.ingested),
           \A p \in Ingesters : ingest'[p].pc = "create" =>
               \/ ingest'[p] = ingest[p]
               \/ \A i \in ingest'[p].items : Ahead(i, ingest'[p].ingested)
    PROVE  OverlapInv'
<1>1. now \in Nat /\ events \subseteq Event
  BY DEF OverlapInv, TypeInv, TypeOK
<1>2. ASSUME NEW i, NEW t \in Nat, Ahead(i, t) PROVE Ahead(i, t)'
  BY <1>1, <1>2 DEF Ahead, Looked, KeyOf
<1>4. ASSUME NEW u \in upserts', u.pc = "create" PROVE Ahead(u.id, u.ingested)'
  <2>1. u.ingested \in Nat
    BY <1>4 DEF TypeInv, TypeOK, Upsert
  <2>2. Ahead(u.id, u.ingested)
    BY <1>4 DEF OverlapInv
  <2>3. QED
    BY <1>2, <2>1, <2>2
<1>5. ASSUME NEW p \in Ingesters, ingest'[p].pc = "create", NEW i \in ingest'[p].items
      PROVE  Ahead(i, ingest[p].ingested)'
  <2>1. ingest'[p].ingested \in Nat
    <3>1. ingest'[p] \in Run
      BY DEF TypeInv, TypeOK
    <3>2. QED
      BY <1>5, <3>1 DEF Run
  <2>2. Ahead(i, ingest'[p].ingested)
    BY <1>5 DEF OverlapInv
  <2>3. QED
    BY <1>2, <2>1, <2>2
<1>6. QED
  BY <1>4, <1>5 DEF OverlapInv

LEMMA OverlapUpsert == OverlapInv /\ TypeInv' /\ UpsertStep => OverlapInv'
<1> SUFFICES ASSUME OverlapInv, TypeInv', UpsertStep PROVE OverlapInv'
  OBVIOUS
<1>1. CASE Message
  BY <1>1, OverlapElsewhere DEF Message
<1>2. ASSUME NEW u \in upserts, UpsertFind(u) PROVE OverlapInv'
  <2>1. u.id \in EventId
    BY DEF OverlapInv, TypeInv, TypeOK, Upsert
  <2>2. \A w \in upserts' \ upserts : w.pc = "create" => Ahead(w.id, w.ingested)
    <3>1. \A i \in {u.id} \ Existing({u.id}) : Ahead(i, now)
      BY <2>1, LookedNow
    <3>2. QED
      BY <1>2, <3>1 DEF UpsertFind, Becomes
  <2>3. events' = events /\ now' = now /\ ingest' = ingest
    BY <1>2 DEF UpsertFind, storeVars
  <2>4. QED
    BY <2>2, <2>3, OverlapElsewhere
<1>3. ASSUME NEW u \in upserts, UpsertCreate(u) PROVE OverlapInv'
  <2>1. /\ u.id \in EventId /\ u.ingested \in Nat
    BY <1>3 DEF UpsertCreate, OverlapInv, TypeInv, TypeOK, Upsert
  <2>2. \A i \in EventId, s \in Nat : Ahead(i, s) => Ahead(i, s)'
    BY <1>3, <2>1, OverlapInsert DEF UpsertCreate
  <2>3. ASSUME NEW w \in upserts', w.pc = "create" PROVE Ahead(w.id, w.ingested)'
    <3>1. [u EXCEPT !.pc = "emit"].pc = "emit"
      BY <1>3 DEF UpsertCreate, OverlapInv, TypeInv, TypeOK, Upsert
    <3>2. w \in upserts
      BY <1>3, <2>3, <3>1 DEF UpsertCreate, Becomes
    <3>3. w.id \in EventId /\ w.ingested \in Nat
      BY <2>3, <3>2 DEF OverlapInv, TypeInv, TypeOK, Upsert
    <3>4. QED
      BY <2>2, <2>3, <3>2, <3>3 DEF OverlapInv
  <2>4. ASSUME NEW p \in Ingesters, ingest'[p].pc = "create", NEW i \in ingest'[p].items
        PROVE  Ahead(i, ingest[p].ingested)'
    <3>1. ingest' = ingest
      BY <1>3 DEF UpsertCreate
    <3>2. i \in EventId /\ ingest[p].ingested \in Nat
      <4>1. ingest[p] \in Run
        BY DEF OverlapInv, TypeInv, TypeOK
      <4>2. QED
        BY <2>4, <3>1, <4>1 DEF Run
    <3>3. QED
      BY <2>2, <2>4, <3>1, <3>2 DEF OverlapInv
  <2>5. QED
    BY <2>2, <2>3, <2>4 DEF OverlapInv
<1>4. ASSUME NEW u \in upserts, UpsertEmit(u) PROVE OverlapInv'
  BY <1>4, OverlapElsewhere DEF UpsertEmit, Becomes, storeVars
<1>5. QED
  BY <1>1, <1>2, <1>3, <1>4 DEF UpsertStep

LEMMA OverlapIngest ==
    ASSUME OverlapInv, TypeInv', NEW p \in Ingesters, IngestStep(p)
    PROVE  OverlapInv'
<1>1. ingest[p] \in Run /\ ingest \in [Ingesters -> Run]
  BY DEF OverlapInv, TypeInv, TypeOK
<1>2. \A i : NextSource(i).pc # "create" /\ Idle.pc # "create"
  BY DEF NextSource, Idle
<1>3. ASSUME NEW x, SetRun(p, x), events' = events, now' = now, upserts' = upserts,
             x.pc = "create" => \A i \in x.items : Ahead(i, x.ingested)
      PROVE  OverlapInv'
  <2>1. \A q \in Ingesters : ingest'[q] = IF q = p THEN x ELSE ingest[q]
    BY <1>1, <1>3 DEF SetRun
  <2>2. QED
    BY <1>3, <2>1, OverlapElsewhere
<1>4. CASE IngestBegins(p) \/ SourceSkipped(p) \/ IngestDies(p)
  BY <1>2, <1>3, <1>4 DEF IngestBegins, SourceSkipped, IngestDies, storeVars
<1>5. CASE SourceAnswers(p)
  BY <1>3, <1>5 DEF SourceAnswers
<1>6. CASE BatchFind(p)
  <2> DEFINE x == ingest[p]
             toCreate == x.items \ Existing(x.items)
             y == IF toCreate = {} THEN NextSource(x.source)
                  ELSE [pc |-> "create", source |-> x.source,
                        items |-> toCreate, ingested |-> now]
  <2>1. x.items \in SUBSET EventId
    BY <1>1, <1>6 DEF BatchFind, Run
  <2>2. \A i \in toCreate : Ahead(i, now)
    BY <2>1, LookedNow
  <2>3. y.pc = "create" => \A i \in y.items : Ahead(i, y.ingested)
    BY <1>2, <2>2
  <2>4. SetRun(p, y) /\ events' = events /\ now' = now /\ upserts' = upserts
    BY <1>6 DEF BatchFind, storeVars
  <2> HIDE DEF y
  <2>5. QED
    BY <1>3, <2>3, <2>4
<1>7. CASE BatchCreate(p)
  <2>1. /\ ingest[p].items \in SUBSET EventId /\ ingest[p].ingested \in Nat
        /\ \A i \in ingest[p].items : Ahead(i, ingest[p].ingested)
    BY <1>1, <1>7 DEF BatchCreate, Run, OverlapInv
  <2>2. \A i \in EventId, s \in Nat : Ahead(i, s) => Ahead(i, s)'
    BY <1>7, <2>1, OverlapInsert DEF BatchCreate
  <2>3. ASSUME NEW u \in upserts', u.pc = "create" PROVE Ahead(u.id, u.ingested)'
    <3>1. u \in upserts
      BY <1>7, <2>3 DEF BatchCreate
    <3>2. u.id \in EventId /\ u.ingested \in Nat
      BY <2>3, <3>1 DEF OverlapInv, TypeInv, TypeOK, Upsert
    <3>3. QED
      BY <2>2, <2>3, <3>1, <3>2 DEF OverlapInv
  <2>4. ASSUME NEW q \in Ingesters, ingest'[q].pc = "create", NEW i \in ingest'[q].items
        PROVE  Ahead(i, ingest[q].ingested)'
    <3>1. ingest'[q] = ingest[q]
      BY <1>1, <1>2, <1>7, <2>4 DEF BatchCreate, SetRun
    <3>2. i \in EventId /\ ingest[q].ingested \in Nat
      <4>1. ingest[q] \in Run
        BY <1>1
      <4>2. QED
        BY <2>4, <3>1, <4>1 DEF Run
    <3>3. QED
      BY <2>2, <2>4, <3>1, <3>2 DEF OverlapInv
  <2>5. QED
    BY <2>2, <2>3, <2>4 DEF OverlapInv
<1>8. QED
  BY <1>4, <1>5, <1>6, <1>7 DEF IngestStep

LEMMA OverlapNext == OverlapInv /\ [Next]_vars => OverlapInv'
<1> SUFFICES ASSUME OverlapInv, [Next]_vars PROVE OverlapInv'
  OBVIOUS
<1>1. TypeInv'
  BY TypeNext DEF OverlapInv
<1>2. CASE UNCHANGED vars
  BY <1>1, <1>2, OverlapElsewhere DEF vars
<1>3. CASE SocketStep
  BY <1>1, <1>3, OverlapElsewhere
  DEF SocketStep, SocketOpens, SocketEnds, ReconnectTimer, storeVars
<1>4. CASE PollStep
  BY <1>1, <1>4, OverlapElsewhere DEF PollStep, PollBegins, PollAnswered, PollFails, storeVars
<1>5. CASE ApiEnds \/ ApiStarts \/ Tick
  BY <1>1, <1>5, EndsDies, OverlapElsewhere
  DEF Dies, ApiStarts, Tick, storeVars
<1>6. CASE UpsertStep
  BY <1>1, <1>6, OverlapUpsert
<1>7. CASE \E p \in Ingesters : IngestStep(p)
  BY <1>1, <1>7, OverlapIngest
<1>8. QED
  BY <1>2, <1>3, <1>4, <1>5, <1>6, <1>7 DEF Next

\* The unique key refuses an insert, beyond a source that repeats an item, only where
\* writers overlapped: whichever of the worker's upserts and of the ingesters' batches
\* they were, and through any deaths of their processes (event.service.ts, upsert and
\* batchUpsert).
THEOREM RefusalsOnlyOverlapped == Spec => []RefusalsOverlapped
<1>1. Init => OverlapInv
  <2>1. SUFFICES ASSUME Init PROVE OverlapInv
    OBVIOUS
  <2>2. events = {} /\ upserts = {} /\ \A p \in Ingesters : ingest[p].pc = "idle"
    BY <2>1 DEF Init, Idle
  <2>3. QED
    BY <2>1, <2>2, TypeInit DEF OverlapInv
<1>2. OverlapInv => RefusalsOverlapped
  BY DEF OverlapInv, RefusalsOverlapped, Ahead
<1>3. QED
  BY <1>1, <1>2, OverlapNext, PTL DEF Spec

-----------------------------------------------------------------------------
(* The feed *)

\* The invariant of one row, which its insert establishes and every step keeps.
Explained(e) ==
    \/ e.id \in told \/ e.id \in missed
    \/ e.ingested >= lastPoll
    \/ \E q \in polls : e.ingested >= q.since
    \/ e.ingested < started - Lookback

LossInv == TypeInv /\ LossIsExplained

\* A step explains every row if it explains the new ones and takes from the old
\* ones no reason without giving another.
LEMMA LossStep ==
    ASSUME TypeInv',
           \A e \in events' : IsUp' => Explained(e)'
    PROVE  LossInv'
  BY DEF LossInv, LossIsExplained, Explained

LEMMA LossUnmoved ==
    ASSUME LossInv, TypeInv', events' = events, UNCHANGED hubVars, IsUp' => IsUp
    PROVE  LossInv'
  BY DEF LossInv, LossIsExplained, hubVars

LEMMA LossInsert ==
    ASSUME LossInv, TypeInv', NEW ids \in SUBSET EventId, NEW t \in Nat, Insert(ids, t),
           UNCHANGED <<worker, lastPoll, polls, told, started>>
    PROVE  LossInv'
<1> SUFFICES ASSUME NEW e \in events', IsUp' PROVE Explained(e)'
  BY LossStep
<1>1. IsUp /\ lastPoll \in Int
  BY DEF IsUp, LossInv, TypeInv, TypeOK
<1>2. CASE e \in events
  BY <1>1, <1>2 DEF LossInv, LossIsExplained, Explained, Insert
<1>3. CASE e \in Rows(ids, t)
  <2>1. e.id \in ids /\ e.ingested = t
    BY <1>3 DEF Rows
  <2>2. t < lastPoll => e.id \in missed'
    BY <1>1, <2>1 DEF Insert
  <2>3. QED
    BY <1>1, <2>1, <2>2 DEF Explained
<1>4. QED
  BY <1>2, <1>3 DEF Insert

LEMMA LossPoll == LossInv /\ TypeInv' /\ PollStep => LossInv'
<1> SUFFICES ASSUME LossInv, TypeInv', PollStep, NEW e \in events', IsUp'
             PROVE  Explained(e)'
  BY LossStep
<1>1. /\ events' = events /\ IsUp' = IsUp /\ started' = started
  BY DEF PollStep, PollBegins, PollAnswered, PollFails, storeVars, IsUp
<1>2. /\ e \in events /\ Explained(e)
      /\ e.ingested \in Nat /\ lastPoll \in Int
  BY <1>1 DEF LossInv, LossIsExplained, Explained, TypeInv, TypeOK, Event
<1>3. CASE PollBegins
  <2>1. [since |-> lastPoll, at |-> now] \in polls'
    BY <1>3 DEF PollBegins
  <2>2. polls \subseteq polls' /\ told' = told /\ missed' = missed
    BY <1>3 DEF PollBegins
  <2>3. e.ingested >= lastPoll => \E q \in polls' : e.ingested >= q.since
    BY <2>1
  <2>4. QED
    BY <1>1, <1>2, <2>2, <2>3 DEF Explained
<1>4. ASSUME NEW q \in polls, PollAnswered(q) \/ PollFails(q) PROVE Explained(e)'
  <2>1. /\ lastPoll' = lastPoll /\ polls' = polls \ {q}
        /\ told \subseteq told' /\ missed \subseteq missed'
    BY <1>4 DEF PollAnswered, PollFails
  <2>2. ASSUME e.ingested >= q.since, e.ingested < lastPoll
        PROVE  e.id \in told' \cup missed'
    <3>1. e \in ListedSince(q.since)
      BY <1>2, <2>2 DEF ListedSince
    <3>2. \A S : e \in S => e.id \in Ids(S) /\ e.id \in Behind(S)
      BY <2>2 DEF Behind, Ids
    <3>3. CASE PollAnswered(q)
      <4>1. PICK page \in Pages(ListedSince(q.since)) :
              /\ told' = told \cup Ids(page)
              /\ missed' = missed \cup Behind(ListedSince(q.since) \ page)
        BY <3>3 DEF PollAnswered
      <4>2. QED
        BY <3>1, <3>2, <4>1
    <3>4. CASE PollFails(q)
      BY <3>1, <3>2, <3>4 DEF PollFails
    <3>5. QED
      BY <1>4, <3>3, <3>4
  <2>3. CASE e.ingested >= q.since /\ e.ingested < lastPoll
    BY <2>2, <2>3 DEF Explained
  <2>4. CASE e.ingested >= lastPoll
    BY <2>1, <2>4 DEF Explained
  <2>5. CASE ~(e.ingested >= q.since) /\ ~(e.ingested >= lastPoll)
    BY <1>1, <1>2, <2>1, <2>5 DEF Explained
  <2>6. QED
    BY <1>2, <2>3, <2>4, <2>5
<1>5. QED
  BY <1>3, <1>4 DEF PollStep

LEMMA LossUpsert == LossInv /\ TypeInv' /\ UpsertStep => LossInv'
<1> SUFFICES ASSUME LossInv, TypeInv', UpsertStep PROVE LossInv'
  OBVIOUS
<1>1. CASE Message
  BY <1>1, LossUnmoved DEF Message, IsUp
<1>2. ASSUME NEW u \in upserts, UpsertFind(u) PROVE LossInv'
  BY <1>2, LossUnmoved DEF UpsertFind, storeVars, IsUp
<1>3. ASSUME NEW u \in upserts, UpsertCreate(u) PROVE LossInv'
  <2>1. u.id \in EventId /\ u.ingested \in Nat
    BY <1>3 DEF UpsertCreate, LossInv, TypeInv, TypeOK, Upsert
  <2>2. QED
    BY <1>3, <2>1, LossInsert DEF UpsertCreate
<1>4. ASSUME NEW u \in upserts, UpsertEmit(u) PROVE LossInv'
  BY <1>4, LossStep DEF UpsertEmit, LossInv, LossIsExplained, Explained, storeVars, IsUp
<1>5. QED
  BY <1>1, <1>2, <1>3, <1>4 DEF UpsertStep

LEMMA LossIngest ==
    ASSUME LossInv, TypeInv', NEW p \in Ingesters, IngestStep(p)
    PROVE  LossInv'
<1>1. CASE BatchCreate(p)
  <2>1. ingest[p] \in Run
    BY DEF LossInv, TypeInv, TypeOK
  <2>2. ingest[p].items \in SUBSET EventId /\ ingest[p].ingested \in Nat
    BY <1>1, <2>1 DEF BatchCreate, Run
  <2>3. QED
    BY <1>1, <2>2, LossInsert DEF BatchCreate
<1>2. CASE ~BatchCreate(p)
  BY <1>2, LossUnmoved
  DEF IngestStep, IngestBegins, SourceAnswers, SourceSkipped, BatchFind, IngestDies,
      storeVars, IsUp
<1>3. QED
  BY <1>1, <1>2

\* A process that starts looks back far enough, or the row is older than that.
LEMMA LossStarts == LossInv /\ TypeInv' /\ ApiStarts => LossInv'
<1> SUFFICES ASSUME LossInv, TypeInv', ApiStarts, NEW e \in events', IsUp'
             PROVE  Explained(e)'
  BY LossStep
<1>1. /\ e.ingested \in Nat /\ now \in Nat
      /\ lastPoll' = now - Lookback /\ started' = now
  BY DEF ApiStarts, LossInv, TypeInv, TypeOK, Event, storeVars
<1>2. e.ingested >= now - Lookback \/ e.ingested < now - Lookback
  BY <1>1, BoundsAssumption
<1>3. QED
  BY <1>1, <1>2 DEF Explained

\* The timer of a process that is down does not fire.
TimerIsUp == worker.timer => IsUp

LEMMA TimerNext == TypeInv /\ TimerIsUp /\ [Next]_vars => TimerIsUp'
<1> SUFFICES ASSUME TypeInv, TimerIsUp, [Next]_vars PROVE TimerIsUp'
  OBVIOUS
<1>1. CASE worker' = worker
  BY <1>1 DEF TimerIsUp, IsUp
<1>2. CASE SocketStep
  <2>1. CASE SocketOpens
    BY <2>1 DEF SocketOpens, TimerIsUp, IsUp, TypeInv, TypeOK
  <2>2. CASE SocketEnds("erred") \/ SocketEnds("closed") \/ ReconnectTimer
    BY <2>2 DEF SocketEnds, Scheduled, ReconnectTimer, Connecting, TimerIsUp, IsUp
  <2>3. QED
    BY <1>2, <2>1, <2>2 DEF SocketStep
<1>3. CASE ApiEnds \/ ApiStarts
  BY <1>3, EndsDies DEF Dies, ApiStarts, Connecting, TimerIsUp, IsUp
<1>4. CASE UpsertStep \/ PollStep \/ Tick
  BY <1>1, <1>4 DEF UpsertStep, Message, UpsertFind, UpsertCreate, UpsertEmit,
                    PollStep, PollBegins, PollAnswered, PollFails, Tick
<1>5. CASE \E p \in Ingesters : IngestStep(p)
  BY <1>1, <1>5 DEF IngestStep, IngestBegins, SourceAnswers, SourceSkipped,
                    BatchFind, BatchCreate, IngestDies
<1>6. CASE UNCHANGED vars
  BY <1>1, <1>6 DEF vars
<1>7. QED
  BY <1>2, <1>3, <1>4, <1>5, <1>6 DEF Next

LEMMA LossNext == LossInv /\ TimerIsUp /\ [Next]_vars => LossInv'
<1> SUFFICES ASSUME LossInv, TimerIsUp, [Next]_vars PROVE LossInv'
  OBVIOUS
<1>1. TypeInv'
  BY TypeNext DEF LossInv
<1>2. CASE UNCHANGED vars
  BY <1>1, <1>2, LossUnmoved DEF vars, IsUp
<1>3. CASE SocketStep
  <2>1. IsUp
    BY <1>3 DEF SocketStep, SocketOpens, SocketEnds, ReconnectTimer, IsUp, TimerIsUp
  <2>2. QED
    BY <1>1, <1>3, <2>1, LossUnmoved
    DEF SocketStep, SocketOpens, SocketEnds, ReconnectTimer, storeVars
<1>4. CASE UpsertStep
  BY <1>1, <1>4, LossUpsert
<1>5. CASE PollStep
  BY <1>1, <1>5, LossPoll
<1>6. CASE \E p \in Ingesters : IngestStep(p)
  BY <1>1, <1>6, LossIngest
<1>7. CASE ApiEnds
  BY <1>1, <1>7, EndsDies, LossStep DEF Dies, IsUp
<1>8. CASE ApiStarts
  BY <1>1, <1>8, LossStarts
<1>9. CASE Tick
  BY <1>1, <1>9, LossUnmoved DEF Tick, storeVars, IsUp
<1>10. QED
  BY <1>2, <1>3, <1>4, <1>5, <1>6, <1>7, <1>8, <1>9 DEF Next

\* No event is left out by the feed but for the reasons that LossIsExplained
\* lists, whatever the order of inserts, polls, answers and restarts
\* (events-hub.ts, pollNewEvents).
THEOREM FeedLosesNothingElse == Spec => []LossIsExplained
<1>1. Init => LossInv /\ TimerIsUp
  BY TypeInit DEF Init, LossInv, LossIsExplained, TimerIsUp, Connecting
<1>2. LossInv => TypeInv /\ LossIsExplained
  BY DEF LossInv
<1>3. QED
  BY <1>1, <1>2, LossNext, TimerNext, PTL DEF Spec
=============================================================================
