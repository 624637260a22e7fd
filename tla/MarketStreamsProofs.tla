------------------------ MODULE MarketStreamsProofs ------------------------
(***************************************************************************)
(* The reference count of the upstream sockets of MarketStreams, for any   *)
(* clients, streams, subscriptions and pool entries, whatever the order in *)
(* which sockets connect, leave, fall silent, close and err.               *)
(***************************************************************************)
EXTENDS MarketStreams, TLAPS

(***************************************************************************)
(* The invariant.  The handles of a stream's subscriptions are counted by  *)
(* their ids, so no two subscriptions may have the same.                   *)
(***************************************************************************)

IdsAreUnique == \A s, t \in subs : s.id = t.id => s = t

StreamInv ==
    /\ TypeOK
    /\ IdsAreUnique
    /\ HandlersAreSubscriptions
    /\ NoOrphanUpstream

\* The ids of the subscriptions in D to the stream k.
IdsOf(D, k) == {s.id : s \in {t \in D : t.stream = k}}

LEMMA NoEntryIsNone == NoEntry \notin Entries
  BY ConstantsAssumption DEF NoEntry

LEMMA StreamInit == Init => StreamInv
  BY NoEntryIsNone, ConstantsAssumption
     DEF Init, StreamInv, TypeOK, IdsAreUnique, HandlersAreSubscriptions, NoOrphanUpstream,
         Unused, Entry, Listens

(***************************************************************************)
(* Closing handles.                                                        *)
(***************************************************************************)

\* What becomes of an entry when handles are closed: it loses them, and when these were
\* its last it keeps neither a listening socket nor a timer.
LEMMA DetachedEntry ==
    ASSUME NEW x \in Entry, NEW S
    PROVE  /\ Detached(x, S) \in Entry
           /\ Detached(x, S).handlers = x.handlers \ S
           /\ \/ /\ Detached(x, S).socket = x.socket
                 /\ Detached(x, S).timer = x.timer
              \/ /\ Detached(x, S).socket = "down"
                 /\ Detached(x, S).timer = FALSE
           /\ x.handlers # {} /\ x.handlers \subseteq S
                => Detached(x, S).socket = "down" /\ Detached(x, S).timer = FALSE
<1>1. CASE x.handlers \cap S = {}
  BY <1>1 DEF Detached, Entry
<1>2. CASE x.handlers \cap S # {} /\ x.handlers \subseteq S
  <2>1. Detached(x, S) = Torn(x)
    BY <1>2 DEF Detached
  <2>2. QED
    BY <1>2, <2>1 DEF Torn, Entry
<1>3. CASE x.handlers \cap S # {} /\ ~(x.handlers \subseteq S)
  <2>1. Detached(x, S) = [x EXCEPT !.handlers = @ \ S]
    BY <1>3 DEF Detached
  <2>2. QED
    BY <1>3, <2>1 DEF Entry
<1>4. QED
  BY <1>1, <1>2, <1>3

\* A stream that has an entry: its own, which no other stream has.
LEMMA PooledEntry ==
    ASSUME StreamInv, NEW k \in Streams, pool[k] # NoEntry
    PROVE  /\ pool[k] \in Entries /\ Pooled(pool[k])
           /\ entry[pool[k]] \in Entry
           /\ entry[pool[k]].handlers = IdsOf(subs, k)
           /\ IdsOf(subs, k) # {} \/ k \in Unparsable
           /\ \A j \in Streams : j # k => pool[j] # pool[k]
<1>1. pool[k] \in Entries
  BY DEF StreamInv, TypeOK
<1>2. QED
  BY <1>1 DEF StreamInv, TypeOK, HandlersAreSubscriptions, NoOrphanUpstream, Pooled, IdsOf

\* Subscriptions go and their handles are closed: the others are what is left of the
\* handlers, stream by stream.
LEMMA ClosingCounts ==
    ASSUME StreamInv, NEW D \in SUBSET subs, subs' = subs \ D,
           CloseHandles({s.id : s \in D}),
           client' \in [Clients -> {"away", "open", "silent"}],
           isAlive' \in [Clients -> BOOLEAN],
           \A s \in subs \ D : client'[s.client] # "away"
    PROVE  StreamInv'
<1> DEFINE S == {s.id : s \in D}
<1>1. entry' = [e \in Entries |-> IF Pooled(e) THEN Detached(entry[e], S) ELSE entry[e]]
  BY DEF CloseHandles
<1>2. \A e \in Entries : entry[e] \in Entry
  BY DEF StreamInv, TypeOK
<1>3. entry' \in [Entries -> Entry]
  BY <1>1, <1>2, DetachedEntry
<1>4. \A k \in Streams :
        pool'[k] = IF pool[k] # NoEntry /\ entry[pool[k]].handlers # {}
                                        /\ Detached(entry[pool[k]], S).handlers = {}
                   THEN NoEntry ELSE pool[k]
  BY DEF CloseHandles
<1>5. pool' \in [Streams -> Entries \cup {NoEntry}]
  BY <1>4 DEF CloseHandles, StreamInv, TypeOK
<1>6. subs' \subseteq Subscription /\ IdsAreUnique'
  BY DEF StreamInv, TypeOK, IdsAreUnique
<1>7. \A k \in Streams : IdsOf(subs', k) = IdsOf(subs, k) \ S
  BY DEF StreamInv, IdsAreUnique, IdsOf
<1>8. ASSUME NEW k \in Streams
      PROVE  IF pool'[k] = NoEntry THEN IdsOf(subs', k) = {}
             ELSE /\ entry'[pool'[k]].handlers = IdsOf(subs', k)
                  /\ IdsOf(subs', k) # {} \/ k \in Unparsable
  <2>1. CASE pool[k] = NoEntry
    <3>1. IdsOf(subs, k) = {}
      BY <2>1 DEF StreamInv, HandlersAreSubscriptions, IdsOf
    <3>2. QED
      BY <1>4, <1>7, <2>1, <3>1
  <2>2. CASE pool[k] # NoEntry
    <3> DEFINE e == pool[k]
    <3>1. /\ e \in Entries /\ Pooled(e) /\ entry[e] \in Entry
          /\ entry[e].handlers = IdsOf(subs, k)
          /\ IdsOf(subs, k) # {} \/ k \in Unparsable
      BY <2>2, PooledEntry
    <3>2. entry'[e] = Detached(entry[e], S)
      BY <1>1, <3>1
    <3>3. Detached(entry[e], S).handlers = IdsOf(subs', k)
      BY <1>7, <3>1, DetachedEntry
    <3>4. QED
      BY <1>4, <2>2, <3>1, <3>2, <3>3, NoEntryIsNone
  <2>3. QED
    BY <2>1, <2>2
<1>9. HandlersAreSubscriptions'
  BY <1>8 DEF HandlersAreSubscriptions, IdsOf
<1>10. ASSUME NEW e \in Entries, Listens(e)' \/ entry'[e].timer
       PROVE  Pooled(e)'
  <2>1. Listens(e) \/ entry[e].timer
    BY <1>1, <1>2, <1>10, DetachedEntry DEF Listens
  <2>2. PICK k \in Streams : pool[k] = e
    BY <2>1 DEF StreamInv, NoOrphanUpstream, Pooled
  <2>3. pool[k] # NoEntry /\ Pooled(e) /\ entry[e] \in Entry
    BY <1>2, <2>2, NoEntryIsNone DEF Pooled
  <2>4. entry'[e] = Detached(entry[e], S)
    BY <1>1, <2>3
  <2>5. /\ Detached(entry[e], S).handlers = entry[e].handlers \ S
        /\ entry[e].handlers # {} /\ entry[e].handlers \subseteq S
             => Detached(entry[e], S).socket = "down" /\ Detached(entry[e], S).timer = FALSE
    BY <2>3, DetachedEntry
  <2>6. entry[e].handlers # {} => Detached(entry[e], S).handlers # {}
    BY <1>10, <2>4, <2>5 DEF Listens
  <2>7. pool'[k] = e
    BY <1>4, <2>2, <2>6
  <2>8. QED
    BY <2>7 DEF Pooled
<1>11. NoOrphanUpstream'
  <2>1. \A k, j \in Streams : k # j /\ pool'[k] # NoEntry => pool'[k] # pool'[j]
    BY <1>4 DEF StreamInv, NoOrphanUpstream
  <2>2. QED
    BY <1>10, <2>1 DEF NoOrphanUpstream
<1>12. QED
  BY <1>3, <1>5, <1>6, <1>9, <1>11 DEF StreamInv, TypeOK

(***************************************************************************)
(* The steps.                                                              *)
(***************************************************************************)

\* An entry that is put to use was in no stream's place.
LEMMA FreshEntry ==
    ASSUME StreamInv, NEW k \in Streams, pool[k] = NoEntry, NEW e \in Entries, Free(e),
           NEW x \in Entry, NEW ids,
           pool' = [pool EXCEPT ![k] = e], entry' = [entry EXCEPT ![e] = x],
           x.handlers = ids, ids # {} \/ k \in Unparsable,
           IdsOf(subs', k) = ids,
           \A j \in Streams : j # k => IdsOf(subs', j) = IdsOf(subs, j)
    PROVE  /\ entry' \in [Entries -> Entry] /\ pool' \in [Streams -> Entries \cup {NoEntry}]
           /\ \A j \in Streams :
                IF pool'[j] = NoEntry THEN IdsOf(subs', j) = {}
                ELSE /\ entry'[pool'[j]].handlers = IdsOf(subs', j)
                     /\ IdsOf(subs', j) # {} \/ j \in Unparsable
           /\ NoOrphanUpstream'
<1>1. /\ pool \in [Streams -> Entries \cup {NoEntry}] /\ entry \in [Entries -> Entry]
      /\ \A j \in Streams : pool[j] # e
  BY DEF StreamInv, TypeOK, Free, Pooled
<1>2. entry' \in [Entries -> Entry] /\ pool' \in [Streams -> Entries \cup {NoEntry}]
  BY <1>1
<1>3. ASSUME NEW j \in Streams
      PROVE  IF pool'[j] = NoEntry THEN IdsOf(subs', j) = {}
             ELSE /\ entry'[pool'[j]].handlers = IdsOf(subs', j)
                  /\ IdsOf(subs', j) # {} \/ j \in Unparsable
  <2>1. CASE j = k
    BY <1>1, <2>1, NoEntryIsNone
  <2>2. CASE j # k /\ pool[j] = NoEntry
    BY <1>1, <2>2 DEF StreamInv, HandlersAreSubscriptions, IdsOf
  <2>3. CASE j # k /\ pool[j] # NoEntry
    <3>1. /\ pool[j] \in Entries /\ entry[pool[j]].handlers = IdsOf(subs, j)
          /\ IdsOf(subs, j) # {} \/ j \in Unparsable
      BY <2>3, PooledEntry
    <3>2. pool'[j] = pool[j] /\ entry'[pool[j]] = entry[pool[j]]
      BY <1>1, <2>3, <3>1
    <3>3. QED
      BY <2>3, <3>1, <3>2
  <2>4. QED
    BY <2>1, <2>2, <2>3
<1>4. ASSUME NEW f \in Entries, Listens(f)' \/ entry'[f].timer PROVE Pooled(f)'
  <2>1. CASE f = e
    BY <1>1, <2>1 DEF Pooled
  <2>2. CASE f # e
    <3>1. Listens(f) \/ entry[f].timer
      BY <1>1, <1>4, <2>2 DEF Listens
    <3>2. PICK j \in Streams : pool[j] = f
      BY <3>1 DEF StreamInv, NoOrphanUpstream, Pooled
    <3>3. j # k
      BY <3>2, NoEntryIsNone
    <3>4. QED
      BY <1>1, <3>2, <3>3 DEF Pooled
  <2>3. QED
    BY <2>1, <2>2
<1>5. \A i, j \in Streams : i # j /\ pool'[i] # NoEntry => pool'[i] # pool'[j]
  BY <1>1, NoEntryIsNone DEF StreamInv, NoOrphanUpstream
<1>6. QED
  BY <1>2, <1>3, <1>4, <1>5 DEF NoOrphanUpstream

LEMMA SubscribeKeeps ==
    ASSUME StreamInv, NEW c \in Clients, NEW k \in Streams, NEW id \in SubIds,
           Subscribe(c, k, id)
    PROVE  StreamInv'
<1> DEFINE s == [id |-> id, client |-> c, stream |-> k]
<1>1. /\ client[c] = "open" /\ (\A t \in subs : t.id # id)
      /\ subs' = subs \cup {s} /\ UNCHANGED <<client, isAlive>>
  BY DEF Subscribe
<1>2. subs' \subseteq Subscription /\ IdsAreUnique' /\ \A t \in subs' : client'[t.client] # "away"
  BY <1>1 DEF StreamInv, TypeOK, IdsAreUnique, HandlersAreSubscriptions, Subscription
<1>3. IdsOf(subs', k) = IdsOf(subs, k) \cup {id}
  <2>1. s \in subs' /\ s.stream = k /\ s.id = id
    BY <1>1
  <2>2. {t \in subs' : t.stream = k} = {t \in subs : t.stream = k} \cup {s}
    BY <1>1, <2>1
  <2> HIDE DEF s
  <2>3. QED
    BY <2>1, <2>2 DEF IdsOf
<1>4. \A j \in Streams : j # k => IdsOf(subs', j) = IdsOf(subs, j)
  BY <1>1 DEF IdsOf
<1> DEFINE Counted ==
             \A j \in Streams :
                IF pool'[j] = NoEntry THEN IdsOf(subs', j) = {}
                ELSE /\ entry'[pool'[j]].handlers = IdsOf(subs', j)
                     /\ IdsOf(subs', j) # {} \/ j \in Unparsable
<1>5. /\ entry' \in [Entries -> Entry] /\ pool' \in [Streams -> Entries \cup {NoEntry}]
      /\ Counted /\ NoOrphanUpstream'
  <2>1. CASE pool[k] # NoEntry
    <3> DEFINE e == pool[k]
    <3>1. /\ e \in Entries /\ entry[e] \in Entry /\ entry[e].handlers = IdsOf(subs, k)
          /\ \A j \in Streams : j # k => pool[j] # e
      BY <2>1, PooledEntry
    <3>2. /\ entry' = [entry EXCEPT ![e] = [entry[e] EXCEPT !.handlers = @ \cup {id}]]
          /\ UNCHANGED pool
      BY <2>1, <3>1 DEF Subscribe, StreamInv, TypeOK
    <3>3. [entry[e] EXCEPT !.handlers = @ \cup {id}] \in Entry
      BY <3>1 DEF Entry
    <3>4. entry' \in [Entries -> Entry]
      BY <3>2, <3>3 DEF StreamInv, TypeOK
    <3>5. /\ \A f \in Entries : f # e => entry'[f] = entry[f]
          /\ entry'[e].handlers = entry[e].handlers \cup {id}
          /\ entry'[e].socket = entry[e].socket /\ entry'[e].timer = entry[e].timer
      BY <3>1, <3>2 DEF Entry, StreamInv, TypeOK
    <3>6. ASSUME NEW j \in Streams
          PROVE  IF pool'[j] = NoEntry THEN IdsOf(subs', j) = {}
                 ELSE /\ entry'[pool'[j]].handlers = IdsOf(subs', j)
                      /\ IdsOf(subs', j) # {} \/ j \in Unparsable
      <4>1. CASE j = k
        BY <1>3, <2>1, <3>1, <3>2, <3>5, <4>1
      <4>2. CASE j # k /\ pool[j] = NoEntry
        BY <1>4, <3>2, <4>2 DEF StreamInv, HandlersAreSubscriptions, IdsOf
      <4>3. CASE j # k /\ pool[j] # NoEntry
        <5>1. /\ pool[j] \in Entries /\ entry[pool[j]].handlers = IdsOf(subs, j)
              /\ IdsOf(subs, j) # {} \/ j \in Unparsable
          BY <4>3, PooledEntry
        <5>2. QED
          BY <1>4, <3>1, <3>2, <3>5, <4>3, <5>1
      <4>4. QED
        BY <4>1, <4>2, <4>3
    <3>7. NoOrphanUpstream'
      <4>1. \A f \in Entries : (Listens(f)' \/ entry'[f].timer) => (Listens(f) \/ entry[f].timer)
        BY <3>5 DEF Listens
      <4>2. QED
        BY <3>2, <4>1 DEF StreamInv, NoOrphanUpstream, Pooled
    <3>8. QED
      BY <3>2, <3>4, <3>6, <3>7 DEF StreamInv, TypeOK
  <2>2. CASE pool[k] = NoEntry
    <3>1. PICK e \in Entries : /\ Free(e) /\ pool' = [pool EXCEPT ![k] = e]
                              /\ entry' = [entry EXCEPT ![e] = Opened({id})]
      BY <2>2 DEF Subscribe
    <3>2. Opened({id}) \in Entry /\ Opened({id}).handlers = {id}
      BY ConstantsAssumption DEF Opened, Entry
    <3>3. IdsOf(subs', k) = {id}
      BY <1>3, <2>2 DEF StreamInv, HandlersAreSubscriptions, IdsOf
    <3>4. QED
      BY <1>4, <2>2, <3>1, <3>2, <3>3, FreshEntry
  <2>3. QED
    BY <2>1, <2>2
<1>6. QED
  BY <1>1, <1>2, <1>5 DEF StreamInv, TypeOK, HandlersAreSubscriptions, IdsOf

LEMMA ThrowKeeps ==
    ASSUME StreamInv, NEW c \in Clients, NEW k \in Streams, SubscribeThrows(c, k)
    PROVE  StreamInv'
<1> DEFINE x == [Opened({}) EXCEPT !.socket = "down"]
<1>1. /\ pool[k] = NoEntry /\ k \in Unparsable /\ UNCHANGED <<client, isAlive, subs>>
  BY DEF SubscribeThrows
<1>2. PICK e \in Entries : /\ Free(e) /\ pool' = [pool EXCEPT ![k] = e]
                          /\ entry' = [entry EXCEPT ![e] = x]
  BY DEF SubscribeThrows
<1>3. x \in Entry /\ x.handlers = {}
  <2>1. Opened({}) \in Entry /\ Opened({}).handlers = {}
    BY ConstantsAssumption DEF Opened, Entry
  <2>2. QED
    BY <2>1 DEF Entry
<1>4. IdsOf(subs', k) = {} /\ \A j \in Streams : IdsOf(subs', j) = IdsOf(subs, j)
  BY <1>1 DEF StreamInv, HandlersAreSubscriptions, IdsOf
<1> HIDE DEF x
<1>5. /\ entry' \in [Entries -> Entry] /\ pool' \in [Streams -> Entries \cup {NoEntry}]
      /\ \A j \in Streams :
            IF pool'[j] = NoEntry THEN IdsOf(subs', j) = {}
            ELSE /\ entry'[pool'[j]].handlers = IdsOf(subs', j)
                 /\ IdsOf(subs', j) # {} \/ j \in Unparsable
      /\ NoOrphanUpstream'
  BY <1>1, <1>2, <1>3, <1>4, FreshEntry
<1>6. QED
  BY <1>1, <1>5 DEF StreamInv, TypeOK, IdsAreUnique, HandlersAreSubscriptions, IdsOf

LEMMA UnsubscribeKeeps == ASSUME StreamInv, NEW s \in subs, Unsubscribe(s) PROVE StreamInv'
<1>1. {t.id : t \in {s}} = {s.id}
  OBVIOUS
<1>2. /\ subs' = subs \ {s} /\ CloseHandles({t.id : t \in {s}}) /\ UNCHANGED <<client, isAlive>>
  BY <1>1 DEF Unsubscribe
<1>3. QED
  BY <1>2, ClosingCounts DEF StreamInv, TypeOK, HandlersAreSubscriptions

\* The client's socket closes: all its handles are closed with it.
LEMMA EndKeeps ==
    ASSUME StreamInv, NEW c \in Clients, Ends(c), UNCHANGED isAlive
    PROVE  StreamInv'
<1> DEFINE D == {t \in subs : t.client = c}
<1>1. D \in SUBSET subs /\ subs' = subs \ D /\ CloseHandles({s.id : s \in D})
  BY DEF Ends
<1>2. client' = [client EXCEPT ![c] = "away"]
  BY DEF Ends
<1>3. \A s \in subs \ D : client'[s.client] # "away"
  BY <1>2 DEF StreamInv, TypeOK, HandlersAreSubscriptions, Subscription
<1>4. client' \in [Clients -> {"away", "open", "silent"}] /\ isAlive' \in [Clients -> BOOLEAN]
  BY <1>2 DEF StreamInv, TypeOK
<1> HIDE DEF D
<1>5. QED
  BY <1>1, <1>3, <1>4, ClosingCounts

\* A client connects, falls silent, is pinged or answers.
LEMMA ClientKeeps ==
    ASSUME StreamInv, NEW c \in Clients,
           \/ Connect(c) \/ GoSilent(c) \/ Pong(c)
           \/ /\ isAlive[c] /\ isAlive' = Pinged(c)
              /\ UNCHANGED <<client, subs, pool, entry>>
    PROVE  StreamInv'
<1>1. UNCHANGED <<subs, pool, entry>>
  BY DEF Connect, GoSilent, Pong
<1>2. /\ client' \in [Clients -> {"away", "open", "silent"}] /\ isAlive' \in [Clients -> BOOLEAN]
      /\ \A d \in Clients : client[d] # "away" => client'[d] # "away"
  BY DEF Connect, GoSilent, Pong, Pinged, StreamInv, TypeOK
<1>3. \A s \in subs : s.client \in Clients
  BY DEF StreamInv, TypeOK, Subscription
<1>4. QED
  BY <1>1, <1>2, <1>3 DEF StreamInv, TypeOK, IdsAreUnique, HandlersAreSubscriptions,
     NoOrphanUpstream, Pooled, Listens

\* An event of an upstream socket, or of its timer, leaves the handlers alone, and only
\* an entry that a stream holds goes on listening or waiting.
LEMMA SocketKeeps ==
    ASSUME StreamInv, NEW e \in Entries, NEW x \in Entry, SetEntry(e, x),
           x.handlers = entry[e].handlers,
           x.socket \in {"connecting", "open"} \/ x.timer => Listens(e) \/ entry[e].timer,
           UNCHANGED <<client, isAlive, subs, pool>>
    PROVE  StreamInv'
<1>1. /\ entry' \in [Entries -> Entry] /\ entry'[e] = x
      /\ \A f \in Entries : f # e => entry'[f] = entry[f]
  BY DEF SetEntry, StreamInv, TypeOK
<1>2. \A f \in Entries : entry'[f].handlers = entry[f].handlers
  BY <1>1
<1>3. \A f \in Entries : (Listens(f)' \/ entry'[f].timer) => (Listens(f) \/ entry[f].timer)
  BY <1>1 DEF Listens
<1>4. NoOrphanUpstream'
  BY <1>3 DEF StreamInv, NoOrphanUpstream, Pooled
<1>5. HandlersAreSubscriptions'
  BY <1>2 DEF StreamInv, TypeOK, HandlersAreSubscriptions
<1>6. QED
  BY <1>1, <1>4, <1>5 DEF StreamInv, TypeOK, IdsAreUnique

LEMMA UpstreamKeeps ==
    ASSUME StreamInv, NEW e \in Entries,
           SocketOpens(e) \/ SocketCloses(e) \/ SocketErrs(e) \/ ReconnectTimer(e)
    PROVE  StreamInv'
<1>1. entry[e] \in Entry
  BY DEF StreamInv, TypeOK
<1>2. CASE SocketOpens(e)
  <2> DEFINE x == IF Abandoned(e) THEN [entry[e] EXCEPT !.socket = "down"]
                  ELSE [entry[e] EXCEPT !.socket = "open", !.attempts = 0]
  <2>1. x \in Entry /\ x.handlers = entry[e].handlers
    <3>1. 0 \in 0..MaxAttempts
      BY ConstantsAssumption
    <3>2. CASE Abandoned(e)
      BY <1>1, <3>2 DEF Entry
    <3>3. CASE ~Abandoned(e)
      BY <1>1, <3>1, <3>3 DEF Entry
    <3>4. QED
      BY <3>2, <3>3
  <2>2. Listens(e) /\ SetEntry(e, x) /\ UNCHANGED <<client, isAlive, subs, pool>>
    BY <1>2 DEF SocketOpens, Listens
  <2>3. QED
    BY <2>1, <2>2, SocketKeeps
<1>3. CASE SocketCloses(e)
  <2> DEFINE x == IF Abandoned(e) THEN [entry[e] EXCEPT !.socket = "closed"]
                  ELSE Rescheduled(entry[e])
  <2>1. x \in Entry /\ x.handlers = entry[e].handlers
    <3> DEFINE n == IF entry[e].attempts < MaxAttempts THEN entry[e].attempts + 1
                    ELSE entry[e].attempts
    <3>1. n \in 0..MaxAttempts
      BY <1>1, ConstantsAssumption DEF Entry
    <3>2. Rescheduled(entry[e]) =
            [entry[e] EXCEPT !.socket = "closed", !.timer = TRUE, !.attempts = n]
      BY <1>1 DEF Rescheduled, Entry
    <3>3. CASE Abandoned(e)
      BY <1>1, <3>3 DEF Entry
    <3>4. CASE ~Abandoned(e)
      <4> HIDE DEF n
      <4>1. x = [entry[e] EXCEPT !.socket = "closed", !.timer = TRUE, !.attempts = n]
        BY <3>2, <3>4
      <4> HIDE DEF x
      <4>2. QED
        BY <1>1, <3>1, <4>1 DEF Entry
    <3>5. QED
      BY <3>3, <3>4
  <2>2. Listens(e) /\ SetEntry(e, x) /\ UNCHANGED <<client, isAlive, subs, pool>>
    BY <1>3 DEF SocketCloses, Listens
  <2>3. QED
    BY <2>1, <2>2, SocketKeeps
<1>4. CASE SocketErrs(e)
  <2> DEFINE x == [entry[e] EXCEPT !.socket = "down"]
  <2>1. x \in Entry /\ x.handlers = entry[e].handlers
    BY <1>1 DEF Entry
  <2>2. Listens(e) /\ SetEntry(e, x) /\ UNCHANGED <<client, isAlive, subs, pool>>
    BY <1>4 DEF SocketErrs
  <2>3. QED
    BY <2>1, <2>2, SocketKeeps
<1>5. CASE ReconnectTimer(e)
  <2> DEFINE x == [entry[e] EXCEPT !.timer = FALSE, !.socket = "connecting"]
  <2>1. x \in Entry /\ x.handlers = entry[e].handlers
    BY <1>1 DEF Entry
  <2>2. entry[e].timer /\ SetEntry(e, x) /\ UNCHANGED <<client, isAlive, subs, pool>>
    BY <1>5 DEF ReconnectTimer
  <2>3. QED
    BY <2>1, <2>2, SocketKeeps
<1>6. QED
  BY <1>2, <1>3, <1>4, <1>5

LEMMA StreamNext == ASSUME StreamInv, [Next]_vars PROVE StreamInv'
<1>1. ASSUME NEW c \in Clients, NEW k \in Streams, NEW id \in SubIds, Subscribe(c, k, id)
      PROVE  StreamInv'
  BY <1>1, SubscribeKeeps
<1>2. ASSUME NEW c \in Clients, NEW k \in Streams, SubscribeThrows(c, k) PROVE StreamInv'
  BY <1>2, ThrowKeeps
<1>3. ASSUME NEW c \in Clients, Connect(c) \/ GoSilent(c) \/ Pong(c) PROVE StreamInv'
  BY <1>3, ClientKeeps
<1>4. ASSUME NEW c \in Clients, Leave(c) PROVE StreamInv'
  BY <1>4, EndKeeps DEF Leave
<1>5. ASSUME NEW c \in Clients, Heartbeat(c) PROVE StreamInv'
  BY <1>5, EndKeeps, ClientKeeps DEF Heartbeat
<1>6. ASSUME NEW s \in subs, Unsubscribe(s) PROVE StreamInv'
  BY <1>6, UnsubscribeKeeps
<1>7. ASSUME NEW e \in Entries,
             SocketOpens(e) \/ SocketCloses(e) \/ SocketErrs(e) \/ ReconnectTimer(e)
      PROVE  StreamInv'
  BY <1>7, UpstreamKeeps
<1>8. CASE UNCHANGED vars
  BY <1>8 DEF vars, StreamInv, TypeOK, IdsAreUnique, HandlersAreSubscriptions,
     NoOrphanUpstream, Pooled, Listens
<1>9. QED
  BY <1>1, <1>2, <1>3, <1>4, <1>5, <1>6, <1>7, <1>8 DEF Next

LEMMA StreamAlways == Spec => []StreamInv
<1>1. StreamInv /\ [Next]_vars => StreamInv'
  BY StreamNext
<1>2. QED
  BY <1>1, StreamInit, PTL DEF Spec

\* Sockets, flags, subscriptions and pool entries keep their types (ws/market-hub.ts,
\* exchanges/binance/ws.ts).
THEOREM TypeCorrect == Spec => []TypeOK
<1>1. StreamInv => TypeOK
  BY DEF StreamInv
<1>2. QED
  BY <1>1, StreamAlways, PTL

\* The handlers of a stream's upstream are the subscriptions of clients still connected,
\* and a stream has an upstream just while it has subscribers, in whatever order clients
\* leave, are terminated and join again (attachUpstream and cleanup).
THEOREM HandlersCountSubscriptions == Spec => []HandlersAreSubscriptions
<1>1. StreamInv => HandlersAreSubscriptions
  BY DEF StreamInv
<1>2. QED
  BY <1>1, StreamAlways, PTL

\* No upstream socket listens, and no reconnect timer runs, for an entry that left the
\* pool, and no two streams share one (teardownPoolEntry, openUpstream).
THEOREM UpstreamsAreHeld == Spec => []NoOrphanUpstream
<1>1. StreamInv => NoOrphanUpstream
  BY DEF StreamInv
<1>2. QED
  BY <1>1, StreamAlways, PTL
=============================================================================
