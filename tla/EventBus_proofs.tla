-------------------------- MODULE EventBus_proofs --------------------------
(***************************************************************************)
(* Theorems about EventBus, for every number of events and consumers,      *)
(* every set of poisoned events and every bound.                           *)
(***************************************************************************)
EXTENDS EventBus, OrderLemmas

-----------------------------------------------------------------------------
(* What makes NothingIsLost inductive.                                     *)

InStream(e) == \E k \in 1 .. Len(stream) : stream[k] = e
Handled(e) == written[e] > 0 \/ e \in dead

(* The publisher's batch is up to date: its rows are pending, and while it *)
(* marks one, the entry of that row is in the stream.                      *)
OutboxInv ==
  /\ \A e \in batch : row[e] = "pending"
  /\ \A e \in Events : row[e] = "published" => InStream(e)
  /\ batch # {} /\ publishing = "mark" => InStream(Least(batch))

(* Entries are of queued events, and one that is acknowledged was handled. *)
StreamInv ==
  /\ ~group => delivered = erased
  /\ \A k \in 1 .. Len(stream) : row[stream[k]] # "none"
  /\ \A k \in 1 .. Len(stream) :
       k <= erased \/ k \in Unacknowledged \/ Handled(stream[k])

(* A consumer past its polling holds an entry, and one about to            *)
(* acknowledge has handled it.                                             *)
ConsumerInv ==
  \A c \in Consumers :
    /\ stage[c] \in {"handle", "count", "bury", "mark", "ack"} => held[c] # {}
    /\ stage[c] \in {"mark", "ack"} => Handled(EventOf(c))

IInv == TypeOK /\ OutboxInv /\ StreamInv /\ ConsumerInv

-----------------------------------------------------------------------------
(* The first of a set of entries or events.                                *)
LEMMA LeastOfBounded ==
  ASSUME NEW n \in Nat, NEW S \in SUBSET (1 .. n), S # {}
  PROVE  Least(S) \in S /\ \A y \in S : Least(S) <= y
<1>1. IsFiniteSet(S)
  <2>1. IsFiniteSet(1 .. n)
    BY FS_Interval
  <2> QED BY <2>1, FS_Subset
<1>2. S \in SUBSET Int
  OBVIOUS
<1>3. \E x \in S : \A y \in S : x <= y
  BY <1>1, <1>2, LeastElement
<1> QED BY <1>3 DEF Least

(* A limited fetch of something is something.                              *)
LEMMA FirstIsSome ==
  ASSUME NEW n \in Nat, NEW S \in SUBSET (1 .. n), S # {}, NEW m \in Nat \ {0}
  PROVE  First(S, m) \subseteq S /\ First(S, m) # {}
<1> DEFINE x == Least(S)
<1>1. x \in S /\ \A y \in S : x <= y
  BY LeastOfBounded
<1> HIDE DEF x
<1>2. {y \in S : y < x} = {}
  <2>1. \A y \in S : y \in Int
    OBVIOUS
  <2>2. \A y \in S : ~(y < x)
    BY <1>1, <2>1
  <2> QED BY <2>2
<1>3. Cardinality({y \in S : y < x}) = 0
  BY <1>2, FS_EmptySet
<1>4. x \in First(S, m)
  <2>1. 0 < m
    OBVIOUS
  <2> QED BY <1>1, <1>3, <2>1 DEF First
<1> QED BY <1>4 DEF First

(* A read of the stream delivers the entries that follow.                  *)
LEMMA FirstOfInterval ==
  ASSUME NEW d \in Nat, NEW l \in Nat, d < l, NEW m \in Nat \ {0}
  PROVE  LET new == First((d + 1) .. l, m)
             n   == Cardinality(new)
         IN  /\ n \in Nat \ {0}
             /\ d + n <= l
             /\ new = (d + 1) .. (d + n)
<1> DEFINE S == (d + 1) .. l
           k == IF m < l - d THEN m ELSE l - d
<1>1. ASSUME NEW x \in S
      PROVE  Cardinality({y \in S : y < x}) = x - 1 - d
  <2>1. {y \in S : y < x} = (d + 1) .. (x - 1)
    OBVIOUS
  <2>2. d + 1 \in Int /\ x - 1 \in Int
    OBVIOUS
  <2>3. Cardinality((d + 1) .. (x - 1))
          = IF d + 1 > x - 1 THEN 0 ELSE (x - 1) - (d + 1) + 1
    BY <2>2, FS_Interval
  <2>4. (IF d + 1 > x - 1 THEN 0 ELSE (x - 1) - (d + 1) + 1) = x - 1 - d
    BY x \in S
  <2> QED BY <2>1, <2>3, <2>4
<1>2. First(S, m) = {x \in S : x - 1 - d < m}
  BY <1>1 DEF First
<1>3. k \in Nat \ {0} /\ d + k <= l
  OBVIOUS
<1>4. {x \in S : x - 1 - d < m} = (d + 1) .. (d + k)
  OBVIOUS
<1>5. Cardinality((d + 1) .. (d + k)) = k
  <2>1. d + 1 \in Int /\ d + k \in Int
    BY <1>3
  <2>2. Cardinality((d + 1) .. (d + k))
          = IF d + 1 > d + k THEN 0 ELSE (d + k) - (d + 1) + 1
    BY <2>1, FS_Interval
  <2>3. (IF d + 1 > d + k THEN 0 ELSE (d + k) - (d + 1) + 1) = k
    BY <1>3
  <2> QED BY <2>2, <2>3
<1> QED BY <1>2, <1>3, <1>4, <1>5

(* What a consumer works on is in the stream.                              *)
LEMMA EntryIsHeld ==
  ASSUME TypeOK, NEW c \in Consumers, held[c] # {}
  PROVE  /\ Entry(c) \in held[c]
         /\ Entry(c) \in 1 .. Len(stream)
         /\ EventOf(c) \in Events
<1>1. Len(stream) \in Nat /\ held[c] \in SUBSET (1 .. Len(stream)) /\ stream \in Seq(Events)
  BY DEF TypeOK
<1>2. Entry(c) \in held[c]
  BY <1>1, LeastOfBounded DEF Entry
<1> QED BY <1>1, <1>2 DEF EventOf

LEMMA FirstRowIsAnEvent ==
  ASSUME TypeOK, batch # {}
  PROVE  Least(batch) \in batch /\ Least(batch) \in Events
<1>1. NEvents \in Nat /\ batch \in SUBSET (1 .. NEvents)
  BY BusAssumption DEF TypeOK, Events
<1> QED BY <1>1, LeastOfBounded DEF Events

-----------------------------------------------------------------------------
(* The strengthened invariant holds at first, and every action keeps it.   *)
LEMMA InitInv == Init => IInv
<1> SUFFICES ASSUME Init PROVE IInv
  OBVIOUS
<1>1. stream = <<>> /\ Len(stream) = 0 /\ stream \in Seq(Events)
  BY DEF Init
<1>2. TypeOK
  <2>1. disturbed \in 0 .. MaxDisturbances
    BY BusAssumption DEF Init
  <2>2. erased \in 0 .. Len(stream) /\ delivered \in erased .. Len(stream)
    BY <1>1 DEF Init
  <2>3. pending \subseteq (erased + 1) .. delivered
    BY DEF Init
  <2>4. /\ row \in [Events -> {"none", "pending", "published"}]
        /\ failures \in [Events -> Nat]
        /\ written \in [Events -> Nat]
    BY DEF Init
  <2>5. /\ stage \in [Consumers -> Stages]
        /\ held \in [Consumers -> SUBSET (1 .. Len(stream))]
    BY DEF Init, Stages
  <2>6. /\ batch \subseteq Events /\ dead \subseteq Events
        /\ publishing \in {"publish", "mark", "record"}
        /\ group \in BOOLEAN
    BY DEF Init
  <2> QED BY <1>1, <2>1, <2>2, <2>3, <2>4, <2>5, <2>6 DEF TypeOK
<1>3. OutboxInv
  BY <1>1 DEF Init, OutboxInv
<1>4. StreamInv
  BY <1>1 DEF Init, StreamInv
<1>5. ConsumerInv
  BY DEF Init, ConsumerInv
<1> QED BY <1>2, <1>3, <1>4, <1>5 DEF IInv

LEMMA EnqueueInv ==
  ASSUME IInv, NEW e \in Events, Enqueue(e)
  PROVE  IInv'
<1> USE DEF IInv
<1>1. row \in [Events -> {"none", "pending", "published"}] /\ row[e] = "none"
      /\ row' = [row EXCEPT ![e] = "pending"]
  BY DEF Enqueue, TypeOK
<1>2. UNCHANGED <<batch, publishing, stream, erased, group, delivered, pending,
                  failures, stage, held, written, dead, disturbed>>
  BY DEF Enqueue, streamVars, resultVars
<1>3. TypeOK'
  BY <1>1, <1>2 DEF TypeOK
<1>4. OutboxInv'
  <2>1. batch \subseteq Events
    BY DEF TypeOK
  <2> QED BY <1>1, <1>2, <2>1 DEF OutboxInv, InStream
<1>5. StreamInv'
  <2>1. \A k \in 1 .. Len(stream) : stream[k] \in Events
    BY DEF TypeOK
  <2> QED BY <1>1, <1>2, <2>1 DEF StreamInv, Unacknowledged, Handled
<1>6. ConsumerInv'
  BY <1>2 DEF ConsumerInv, Handled, EventOf, Entry
<1> QED BY <1>3, <1>4, <1>5, <1>6

LEMMA FetchPendingInv ==
  ASSUME IInv, FetchPending
  PROVE  IInv'
<1> USE DEF IInv
<1>1. UNCHANGED <<row, stream, erased, group, delivered, pending, failures,
                  stage, held, written, dead, disturbed>>
  BY DEF FetchPending, streamVars, resultVars
<1>2. batch' \subseteq {e \in Events : row[e] = "pending"} /\ publishing' = "publish"
  BY DEF FetchPending, First
<1>3. TypeOK'
  BY <1>1, <1>2 DEF TypeOK
<1>4. OutboxInv'
  BY <1>1, <1>2 DEF OutboxInv, InStream
<1>5. StreamInv'
  BY <1>1 DEF StreamInv, Unacknowledged, Handled
<1>6. ConsumerInv'
  BY <1>1 DEF ConsumerInv, Handled, EventOf, Entry
<1> QED BY <1>3, <1>4, <1>5, <1>6

(* A call counts at most one disturbance.                                  *)
LEMMA CallType ==
  ASSUME disturbed \in 0 .. MaxDisturbances, NEW reply, Call(reply)
  PROVE  disturbed' \in 0 .. MaxDisturbances
BY BusAssumption DEF Call, Disturb

(* A published row is appended to the stream, once for each time the       *)
(* command takes effect.                                                   *)
LEMMA PublishAppends ==
  ASSUME TypeOK, NEW b \in Events, b = Least(batch),
         NEW reply \in RepeatedReplies, Publish(reply)
  PROVE  /\ Len(stream) \in Nat /\ Len(stream') \in Nat /\ Len(stream) <= Len(stream')
         /\ Succeeds(reply) => Len(stream) < Len(stream')
         /\ stream' \in Seq(Events)
         /\ \A k \in 1 .. Len(stream) : stream'[k] = stream[k]
         /\ \A k \in 1 .. Len(stream') : k > Len(stream) => stream'[k] = b
<1> DEFINE n   == Times(reply)
           new == [i \in 1 .. n |-> b]
<1>1. n \in Nat /\ (Succeeds(reply) => n > 0)
  BY DEF Times, Succeeds, RepeatedReplies, Replies
<1>2. stream \in Seq(Events) /\ Len(stream) \in Nat /\ stream' = stream \o new
  BY DEF Publish, TypeOK
<1> HIDE DEF n
<1>3. new \in [1 .. n -> Events] /\ \A i \in 1 .. n : new[i] = b
  OBVIOUS
<1> HIDE DEF new
<1>4. new \in Seq(Events) /\ Len(new) = n
  BY <1>1, <1>3
<1>5. /\ stream \o new \in Seq(Events)
      /\ Len(stream \o new) = Len(stream) + n
      /\ \A k \in 1 .. Len(stream) + n :
           (stream \o new)[k] = IF k <= Len(stream) THEN stream[k]
                                                    ELSE new[k - Len(stream)]
  <2>1. stream \in Seq(Events) /\ new \in Seq(Events)
    BY <1>2, <1>4
  <2>2. /\ stream \o new \in Seq(Events)
        /\ Len(stream \o new) = Len(stream) + Len(new)
    BY <2>1
  <2>3. \A k \in 1 .. Len(stream) + Len(new) :
          (stream \o new)[k] = IF k <= Len(stream) THEN stream[k]
                                                   ELSE new[k - Len(stream)]
    BY <2>1
  <2> QED BY <1>4, <2>2, <2>3
<1>6. \A k \in 1 .. Len(stream') : k > Len(stream) => k - Len(stream) \in 1 .. n
  BY <1>1, <1>2, <1>5
<1> QED BY <1>1, <1>2, <1>3, <1>5, <1>6

LEMMA PublishInv ==
  ASSUME IInv, NEW reply \in RepeatedReplies, Publish(reply)
  PROVE  IInv'
<1> USE DEF IInv
<1> PICK b \in Events : b = Least(batch) /\ b \in batch /\ row[b] = "pending"
  BY FirstRowIsAnEvent DEF Publish, OutboxInv
<1>1. b \in Events /\ b = Least(batch) /\ b \in batch /\ row[b] = "pending"
  OBVIOUS
<1>2. UNCHANGED <<row, batch, erased, group, delivered, pending, failures,
                  stage, held, written, dead>>
  BY DEF Publish, resultVars
<1>3. /\ stream' \in Seq(Events)
      /\ \A k \in 1 .. Len(stream) : stream'[k] = stream[k]
      /\ \A k \in 1 .. Len(stream') : k > Len(stream) => stream'[k] = b
  BY PublishAppends
<1>4. /\ Len(stream) \in Nat /\ Len(stream) <= Len(stream') /\ Len(stream') \in Nat
      /\ Succeeds(reply) => Len(stream) < Len(stream')
  BY PublishAppends
<1>5. publishing' \in {"mark", "record"} /\ (publishing' = "mark" => Succeeds(reply))
  BY DEF Publish
<1>6. TypeOK'
  <2>1. disturbed' \in 0 .. MaxDisturbances
    BY CallType DEF Publish, TypeOK
  <2>2. erased' \in 0 .. Len(stream') /\ delivered' \in erased' .. Len(stream')
    BY <1>2, <1>4 DEF TypeOK
  <2>3. held' \in [Consumers -> SUBSET (1 .. Len(stream'))]
    <3>1. 1 .. Len(stream) \subseteq 1 .. Len(stream')
      BY <1>4
    <3> QED BY <1>2, <3>1 DEF TypeOK
  <2> QED BY <1>2, <1>3, <1>5, <2>1, <2>2, <2>3 DEF TypeOK
<1>7. \A e : InStream(e) => InStream(e)'
  BY <1>3, <1>4 DEF InStream
<1>8. OutboxInv'
  <2>1. publishing' = "mark" => InStream(b)'
    <3>1. SUFFICES ASSUME publishing' = "mark" PROVE InStream(b)'
      OBVIOUS
    <3>2. Len(stream) + 1 \in 1 .. Len(stream')
      BY <1>4, <1>5, <3>1
    <3>3. stream'[Len(stream) + 1] = b
      BY <1>3, <1>4, <3>2
    <3> QED BY <3>2, <3>3 DEF InStream
  <2>2. Least(batch)' = b
    BY <1>1, <1>2
  <2> QED BY <1>2, <1>7, <2>1, <2>2 DEF OutboxInv
<1>9. StreamInv'
  <2>1. \A k \in 1 .. Len(stream') : k \in 1 .. Len(stream) \/ k > Len(stream)
    BY <1>4
  <2>2. delivered \in Nat /\ erased \in Nat /\ delivered <= Len(stream)
    BY <1>4 DEF TypeOK
  <2>3. \A k \in 1 .. Len(stream') : k > Len(stream) => k \in Unacknowledged'
    BY <1>2, <1>4, <2>2 DEF Unacknowledged
  <2>4. Unacknowledged \subseteq Unacknowledged'
    BY <1>2, <1>4, <2>2 DEF Unacknowledged
  <2> QED BY <1>1, <1>2, <1>3, <2>1, <2>3, <2>4 DEF StreamInv, Handled
<1>10. ConsumerInv'
  <2>1. ASSUME NEW c \in Consumers, held[c] # {} PROVE EventOf(c)' = EventOf(c)
    BY <1>2, <1>3, <2>1, EntryIsHeld DEF EventOf, Entry
  <2>2. ASSUME NEW c \in Consumers
        PROVE  /\ stage'[c] \in {"handle", "count", "bury", "mark", "ack"} => held'[c] # {}
               /\ stage'[c] \in {"mark", "ack"} => Handled(EventOf(c))'
    BY <1>2, <2>1 DEF ConsumerInv, Handled
  <2> QED BY <2>2 DEF ConsumerInv
<1> QED BY <1>6, <1>8, <1>9, <1>10

LEMMA RecordInv ==
  ASSUME IInv, NEW reply \in Replies, Record(reply)
  PROVE  IInv'
<1> USE DEF IInv
<1> DEFINE b == Least(batch)
<1>1. b \in batch /\ b \in Events
  BY FirstRowIsAnEvent DEF Record
<1>2. UNCHANGED <<stream, erased, group, delivered, pending, failures, stage,
                  held, written, dead>> /\ publishing' = "publish"
  BY DEF Record, streamVars, resultVars
<1>3. row' = row \/ (publishing = "mark" /\ row' = [row EXCEPT ![b] = "published"])
  BY DEF Record
<1>4. batch' = batch \ {b} \/ batch' = {}
  BY DEF Record
<1>5. row \in [Events -> {"none", "pending", "published"}] /\ batch \subseteq Events
  BY DEF TypeOK
<1> HIDE DEF b
<1>6. TypeOK'
  <2>1. disturbed' \in 0 .. MaxDisturbances
    BY CallType DEF Record, TypeOK
  <2> QED BY <1>1, <1>2, <1>3, <1>4, <1>5, <2>1 DEF TypeOK
<1>7. OutboxInv'
  <2>1. publishing = "mark" => InStream(b)
    BY <1>1 DEF OutboxInv, b
  <2>2. \A e \in Events : row'[e] = "published" => InStream(e)
    BY <1>1, <1>3, <1>5, <2>1 DEF OutboxInv
  <2>3. \A e \in batch' : row'[e] = "pending"
    <3>1. row' = row \/ (batch' \subseteq batch \ {b} /\ row' = [row EXCEPT ![b] = "published"])
      BY <1>3, <1>4
    <3> QED BY <1>4, <1>5, <3>1 DEF OutboxInv
  <2> QED BY <1>2, <2>2, <2>3 DEF OutboxInv, InStream
<1>8. StreamInv'
  <2>1. \A k \in 1 .. Len(stream) : stream[k] \in Events
    BY DEF TypeOK
  <2> QED BY <1>1, <1>2, <1>3, <1>5, <2>1 DEF StreamInv, Unacknowledged, Handled
<1>9. ConsumerInv'
  BY <1>2 DEF ConsumerInv, Handled, EventOf, Entry
<1> QED BY <1>6, <1>7, <1>8, <1>9

-----------------------------------------------------------------------------
(* The steps of a consumer: only it moves, and to what.                    *)
Working == {"handle", "count", "bury", "mark", "ack"}

Moves(c) ==
  /\ stage' \in [Consumers -> Stages]
  /\ held' \in [Consumers -> SUBSET (1 .. Len(stream))]
  /\ \A d \in Consumers \ {c} : stage'[d] = stage[d] /\ held'[d] = held[d]
  /\ stage'[c] \in Working => held'[c] # {}

LEMMA GoToMoves ==
  ASSUME TypeOK, ConsumerInv, NEW c \in Consumers, NEW s \in Stages, GoTo(c, s),
         stage[c] \in Working \/ s \notin Working
  PROVE  Moves(c) /\ stage'[c] = s /\ held' = held
<1>1. /\ stage \in [Consumers -> Stages]
      /\ held \in [Consumers -> SUBSET (1 .. Len(stream))]
  BY DEF TypeOK
<1>2. stage' = [stage EXCEPT ![c] = s] /\ held' = held
  BY DEF GoTo
<1>3. stage[c] \in Working => held[c] # {}
  BY DEF ConsumerInv, Working
<1> QED BY <1>1, <1>2, <1>3 DEF Moves

LEMMA NextEntryMoves ==
  ASSUME TypeOK, NEW c \in Consumers, NextEntry(c)
  PROVE  Moves(c) /\ stage'[c] \in {"poll", "handle"}
<1> DEFINE rest == held[c] \ {Entry(c)}
<1>1. /\ stage \in [Consumers -> Stages]
      /\ held \in [Consumers -> SUBSET (1 .. Len(stream))]
  BY DEF TypeOK
<1>2. /\ held' = [held EXCEPT ![c] = rest]
      /\ stage' = [stage EXCEPT ![c] = IF rest = {} THEN "poll" ELSE "handle"]
  BY DEF NextEntry
<1>3. rest \in SUBSET (1 .. Len(stream))
  BY <1>1
<1> HIDE DEF rest
<1>4. held' \in [Consumers -> SUBSET (1 .. Len(stream))] /\ held'[c] = rest
  BY <1>1, <1>2, <1>3
<1>5. /\ stage' \in [Consumers -> Stages]
      /\ stage'[c] = IF rest = {} THEN "poll" ELSE "handle"
  BY <1>1, <1>2 DEF Stages
<1> QED BY <1>1, <1>2, <1>4, <1>5 DEF Moves, Working

LEMMA AbortTickMoves ==
  ASSUME TypeOK, NEW c \in Consumers, AbortTick(c)
  PROVE  Moves(c) /\ stage'[c] = "poll"
<1>1. /\ stage \in [Consumers -> Stages]
      /\ held \in [Consumers -> SUBSET (1 .. Len(stream))]
  BY DEF TypeOK
<1>2. /\ held' = [held EXCEPT ![c] = {}]
      /\ stage' = [stage EXCEPT ![c] = "poll"]
  BY DEF AbortTick
<1>3. held' \in [Consumers -> SUBSET (1 .. Len(stream))]
  BY <1>1, <1>2
<1>4. stage' \in [Consumers -> Stages] /\ stage'[c] = "poll"
  BY <1>1, <1>2 DEF Stages
<1> QED BY <1>1, <1>2, <1>3, <1>4 DEF Moves, Working

(* A move keeps ConsumerInv when what was handled stays handled and the    *)
(* consumer marks or acknowledges only what it has handled.                *)
LEMMA MovesKeepConsumerInv ==
  ASSUME TypeOK, ConsumerInv, NEW c \in Consumers, Moves(c), stream' = stream,
         \A e \in Events : Handled(e) => Handled(e)',
         stage'[c] \in {"mark", "ack"} => held' = held /\ Handled(EventOf(c))'
  PROVE  ConsumerInv'
<1> SUFFICES ASSUME NEW d \in Consumers
             PROVE  /\ stage'[d] \in Working => held'[d] # {}
                    /\ stage'[d] \in {"mark", "ack"} => Handled(EventOf(d))'
  BY DEF ConsumerInv, Working
<1>1. CASE d = c
  BY <1>1 DEF Moves
<1>2. CASE d # c
  <2>1. stage'[d] = stage[d] /\ held'[d] = held[d]
    BY <1>2 DEF Moves
  <2>2. EventOf(d)' = EventOf(d)
    BY <2>1 DEF EventOf, Entry
  <2>3. stage[d] \in {"mark", "ack"} => Handled(EventOf(d))'
    <3>1. SUFFICES ASSUME stage[d] \in {"mark", "ack"} PROVE Handled(EventOf(d))'
      OBVIOUS
    <3>2. held[d] # {} /\ Handled(EventOf(d))
      BY <3>1 DEF ConsumerInv
    <3>3. EventOf(d) \in Events
      BY <3>2, EntryIsHeld
    <3> QED BY <2>2, <3>2, <3>3 DEF Handled
  <2> QED BY <2>1, <2>3 DEF ConsumerInv, Working
<1> QED BY <1>1, <1>2

LEMMA EnsureGroupInv ==
  ASSUME IInv, NEW c \in Consumers, NEW reply \in Replies, EnsureGroup(c, reply)
  PROVE  IInv'
<1> USE DEF IInv
<1>1. UNCHANGED <<row, batch, publishing, stream, erased, pending, failures,
                  written, dead>>
  BY DEF EnsureGroup, outboxVars, resultVars
<1>2. delivered' = delivered
  BY DEF EnsureGroup, StreamInv
<1>3. group' \in BOOLEAN /\ (~group' => ~group)
  BY DEF EnsureGroup, TypeOK
<1>4. Moves(c) /\ stage'[c] \in {"poll", "stopped"}
  <2> DEFINE s == IF Succeeds(reply) THEN "poll" ELSE "stopped"
  <2>1. s \in Stages /\ s \notin Working /\ s \in {"poll", "stopped"}
    BY DEF Stages, Working
  <2>2. GoTo(c, s)
    BY DEF EnsureGroup
  <2> HIDE DEF s
  <2> QED BY <2>1, <2>2, GoToMoves
<1>5. TypeOK'
  <2>1. disturbed' \in 0 .. MaxDisturbances
    BY CallType DEF EnsureGroup, TypeOK
  <2> QED BY <1>1, <1>2, <1>3, <1>4, <2>1 DEF TypeOK, Moves
<1>6. OutboxInv'
  BY <1>1 DEF OutboxInv, InStream
<1>7. StreamInv'
  BY <1>1, <1>2, <1>3 DEF StreamInv, Unacknowledged, Handled
<1>8. ConsumerInv'
  BY <1>1, <1>4, MovesKeepConsumerInv DEF Handled
<1> QED BY <1>5, <1>6, <1>7, <1>8

LEMMA ClaimStaleInv ==
  ASSUME IInv, NEW c \in Consumers, ClaimStale(c)
  PROVE  IInv'
<1> USE DEF IInv
<1>1. UNCHANGED <<row, batch, publishing, stream, erased, group, delivered,
                  pending, failures, written, dead>>
  BY DEF ClaimStale, outboxVars, streamVars, resultVars
<1>2. PICK idle \in (SUBSET pending) \ {{}} :
         /\ held' = [held EXCEPT ![c] = First(idle, ReadCount)]
         /\ Call(IF \E d \in Consumers : idle \intersect held[d] # {}
                   THEN "slow" ELSE "ok")
  BY DEF ClaimStale
<1>3. First(idle, ReadCount) \subseteq 1 .. Len(stream) /\ First(idle, ReadCount) # {}
  <2>1. erased \in Nat /\ delivered \in Nat /\ Len(stream) \in Nat /\ delivered <= Len(stream)
    BY DEF TypeOK
  <2>2. idle \in SUBSET (1 .. Len(stream)) /\ idle # {}
    <3>1. idle # {} /\ idle \subseteq pending
      OBVIOUS
    <3>2. pending \subseteq (erased + 1) .. delivered
      BY DEF TypeOK
    <3>3. (erased + 1) .. delivered \subseteq 1 .. Len(stream)
      BY <2>1
    <3> QED BY <3>1, <3>2, <3>3
  <2>3. ReadCount \in Nat \ {0}
    BY BusAssumption
  <2>4. First(idle, ReadCount) \subseteq idle /\ First(idle, ReadCount) # {}
    BY <2>1, <2>2, <2>3, FirstIsSome
  <2> QED BY <2>2, <2>4
<1>4. Moves(c) /\ stage'[c] = "handle"
  <2> DEFINE new == First(idle, ReadCount)
  <2>1. /\ stage \in [Consumers -> Stages]
        /\ held \in [Consumers -> SUBSET (1 .. Len(stream))]
    BY DEF TypeOK
  <2>2. new \in SUBSET (1 .. Len(stream)) /\ new # {} /\ held' = [held EXCEPT ![c] = new]
    BY <1>2, <1>3
  <2> HIDE DEF new
  <2>3. held' \in [Consumers -> SUBSET (1 .. Len(stream))] /\ held'[c] # {}
    BY <2>1, <2>2
  <2>4. stage' = [stage EXCEPT ![c] = "handle"]
    BY DEF ClaimStale
  <2>5. stage' \in [Consumers -> Stages] /\ stage'[c] = "handle"
    BY <2>1, <2>4 DEF Stages
  <2> QED BY <2>1, <2>2, <2>3, <2>4, <2>5 DEF Moves
<1>5. TypeOK'
  <2>1. disturbed' \in 0 .. MaxDisturbances
    BY <1>2, CallType DEF TypeOK
  <2> QED BY <1>1, <1>4, <2>1 DEF TypeOK, Moves
<1>6. OutboxInv'
  BY <1>1 DEF OutboxInv, InStream
<1>7. StreamInv'
  BY <1>1 DEF StreamInv, Unacknowledged, Handled
<1>8. ConsumerInv'
  BY <1>1, <1>4, MovesKeepConsumerInv DEF Handled
<1> QED BY <1>5, <1>6, <1>7, <1>8

(* The next entries are delivered, and nothing else changes about which    *)
(* entries are acknowledged.                                               *)
LEMMA ReadGroupDelivers ==
  ASSUME TypeOK, NEW c \in Consumers, NEW reply, ReadGroup(c, reply)
  PROVE  LET new == First((delivered + 1) .. Len(stream), ReadCount) IN
           /\ new \subseteq 1 .. Len(stream)
           /\ new # {}
           /\ delivered' \in delivered .. Len(stream)
           /\ pending' \subseteq (erased + 1) .. delivered'
           /\ pending' \union (delivered' + 1) .. Len(stream) = Unacknowledged
<1> DEFINE new == First((delivered + 1) .. Len(stream), ReadCount)
           n == Cardinality(new)
<1>1. /\ erased \in Nat /\ delivered \in Nat /\ Len(stream) \in Nat
      /\ erased <= delivered
      /\ pending \subseteq (erased + 1) .. delivered
  BY DEF TypeOK
<1>2. delivered < Len(stream) /\ delivered' = delivered + n /\ pending' = pending \union new
  BY DEF ReadGroup
<1>3. ReadCount \in Nat \ {0}
  BY BusAssumption
<1>4. /\ n \in Nat \ {0}
      /\ delivered + n <= Len(stream)
      /\ new = (delivered + 1) .. (delivered + n)
  BY <1>1, <1>2, <1>3, FirstOfInterval
<1> HIDE DEF new, n
<1>5. new \subseteq 1 .. Len(stream) /\ delivered + 1 \in new
  BY <1>1, <1>4
<1>6. delivered' \in delivered .. Len(stream)
  BY <1>1, <1>2, <1>4
<1>7. pending' \subseteq (erased + 1) .. delivered'
  BY <1>1, <1>2, <1>4
<1>8. new \union (delivered + n + 1) .. Len(stream) = (delivered + 1) .. Len(stream)
  BY <1>1, <1>4
<1>9. pending' \union (delivered' + 1) .. Len(stream) = Unacknowledged
  BY <1>2, <1>8 DEF Unacknowledged
<1> QED BY <1>5, <1>6, <1>7, <1>9 DEF new

LEMMA ReadGroupInv ==
  ASSUME IInv, NEW c \in Consumers, NEW reply, ReadGroup(c, reply)
  PROVE  IInv'
<1> USE DEF IInv
<1> DEFINE new == First((delivered + 1) .. Len(stream), ReadCount)
<1>1. UNCHANGED <<row, batch, publishing, stream, erased, group, failures,
                  written, dead>>
  BY DEF ReadGroup, outboxVars, resultVars
<1>2. /\ new \in SUBSET (1 .. Len(stream)) /\ new # {}
      /\ delivered' \in delivered .. Len(stream)
      /\ pending' \subseteq (erased + 1) .. delivered'
      /\ pending' \union (delivered' + 1) .. Len(stream) = Unacknowledged
  BY ReadGroupDelivers
<1>3. \/ held' = [held EXCEPT ![c] = new] /\ stage' = [stage EXCEPT ![c] = "handle"]
      \/ held' = held /\ stage' = stage
  BY DEF ReadGroup
<1>4. stage[c] = "poll" /\ group
  BY DEF ReadGroup
<1> HIDE DEF new
<1>5. Moves(c) /\ stage'[c] \in {"poll", "handle"}
  <2>1. /\ stage \in [Consumers -> Stages]
        /\ held \in [Consumers -> SUBSET (1 .. Len(stream))]
    BY DEF TypeOK
  <2>2. CASE held' = [held EXCEPT ![c] = new] /\ stage' = [stage EXCEPT ![c] = "handle"]
    <3>1. held' \in [Consumers -> SUBSET (1 .. Len(stream))] /\ held'[c] # {}
      BY <1>2, <2>1, <2>2
    <3>2. stage' \in [Consumers -> Stages] /\ stage'[c] = "handle"
      BY <2>1, <2>2 DEF Stages
    <3> QED BY <2>1, <2>2, <3>1, <3>2 DEF Moves
  <2>3. CASE held' = held /\ stage' = stage
    BY <1>4, <2>1, <2>3 DEF Moves, Working
  <2> QED BY <1>3, <2>2, <2>3
<1>6. TypeOK'
  <2>1. disturbed' \in 0 .. MaxDisturbances
    BY CallType DEF ReadGroup, TypeOK
  <2>2. delivered' \in erased .. Len(stream)
    BY <1>2 DEF TypeOK
  <2> QED BY <1>1, <1>2, <1>5, <2>1, <2>2 DEF TypeOK, Moves
<1>7. OutboxInv'
  BY <1>1 DEF OutboxInv, InStream
<1>8. StreamInv'
  <2>1. Unacknowledged' = Unacknowledged
    BY <1>1, <1>2 DEF Unacknowledged
  <2> QED BY <1>1, <1>4, <2>1 DEF StreamInv, Handled
<1>9. ConsumerInv'
  BY <1>1, <1>5, MovesKeepConsumerInv DEF Handled
<1> QED BY <1>6, <1>7, <1>8, <1>9

LEMMA HandleMemoryEventInv ==
  ASSUME IInv, NEW c \in Consumers, NEW reply \in Replies, HandleMemoryEvent(c, reply)
  PROVE  IInv'
<1> USE DEF IInv
<1> DEFINE e == EventOf(c)
           s == IF Succeeds(reply) THEN "mark" ELSE "count"
<1>1. UNCHANGED <<row, batch, publishing, stream, erased, group, delivered,
                  pending, failures, dead>>
  BY DEF HandleMemoryEvent, outboxVars, streamVars
<1>2. stage[c] = "handle" /\ held[c] # {} /\ e \in Events
  BY EntryIsHeld DEF HandleMemoryEvent, ConsumerInv
<1>3. written \in [Events -> Nat]
  BY DEF TypeOK
<1>4. written' = IF TakesEffect(reply) THEN [written EXCEPT ![e] = @ + 1] ELSE written
  BY DEF HandleMemoryEvent
<1>5. GoTo(c, s) /\ s \in Stages
  BY DEF HandleMemoryEvent, Stages
<1>6. s \in {"mark", "ack"} => TakesEffect(reply)
  BY DEF Succeeds, TakesEffect, Replies
<1> HIDE DEF e, s
<1>7. /\ written' \in [Events -> Nat]
      /\ \A x \in Events : written'[x] >= written[x]
      /\ TakesEffect(reply) => written'[e] > 0
  BY <1>2, <1>3, <1>4
<1>8. Moves(c) /\ stage'[c] = s /\ held' = held
  BY <1>2, <1>5, GoToMoves DEF Working
<1>9. \A x \in Events : Handled(x) => Handled(x)'
  BY <1>1, <1>3, <1>7 DEF Handled
<1>10. TypeOK'
  <2>1. disturbed' \in 0 .. MaxDisturbances
    BY CallType DEF HandleMemoryEvent, TypeOK
  <2> QED BY <1>1, <1>7, <1>8, <2>1 DEF TypeOK, Moves
<1>11. OutboxInv'
  BY <1>1 DEF OutboxInv, InStream
<1>12. StreamInv'
  <2>1. \A k \in 1 .. Len(stream) : stream[k] \in Events
    BY DEF TypeOK
  <2>2. \A k \in 1 .. Len(stream) : Handled(stream[k]) => Handled(stream[k])'
    BY <1>1, <1>9, <2>1
  <2> QED BY <1>1, <2>2 DEF StreamInv, Unacknowledged
<1>13. ConsumerInv'
  <2>1. e' = e
    BY <1>1, <1>8 DEF e, EventOf, Entry
  <2>2. stage'[c] \in {"mark", "ack"} => Handled(EventOf(c))'
    BY <1>6, <1>7, <1>8, <2>1 DEF Handled, e
  <2> QED BY <1>1, <1>8, <1>9, <2>2, MovesKeepConsumerInv
<1> QED BY <1>10, <1>11, <1>12, <1>13

LEMMA CountFailureInv ==
  ASSUME IInv, NEW c \in Consumers, NEW reply \in RepeatedReplies, CountFailure(c, reply)
  PROVE  IInv'
<1> USE DEF IInv
<1> DEFINE e == EventOf(c)
           count == failures[e] + Times(reply)
<1>1. UNCHANGED <<row, batch, publishing, stream, erased, group, delivered,
                  pending, written, dead>>
  BY DEF CountFailure, outboxVars, streamVars, resultVars
<1>2. stage[c] = "count" /\ held[c] # {} /\ e \in Events
  BY EntryIsHeld DEF CountFailure, ConsumerInv
<1>3. failures' = [failures EXCEPT ![e] = count]
  BY DEF CountFailure
<1>4. failures' \in [Events -> Nat]
  <2>1. failures \in [Events -> Nat] /\ Times(reply) \in Nat
    BY DEF TypeOK, Times, RepeatedReplies, Replies
  <2> HIDE DEF e
  <2>2. count \in Nat
    BY <1>2, <2>1
  <2> HIDE DEF count
  <2> QED BY <1>2, <1>3, <2>1, <2>2
<1>5. AbortTick(c) \/ GoTo(c, "bury") \/ NextEntry(c)
  BY DEF CountFailure
<1> HIDE DEF e, count
<1>6. Moves(c) /\ stage'[c] \in {"poll", "bury", "handle"}
  <2>1. "bury" \in Stages /\ stage[c] \in Working
    BY <1>2 DEF Stages, Working
  <2> QED BY <1>5, <2>1, AbortTickMoves, GoToMoves, NextEntryMoves
<1>7. TypeOK'
  <2>1. disturbed' \in 0 .. MaxDisturbances
    BY CallType DEF CountFailure, TypeOK
  <2> QED BY <1>1, <1>4, <1>6, <2>1 DEF TypeOK, Moves
<1>8. OutboxInv'
  BY <1>1 DEF OutboxInv, InStream
<1>9. StreamInv'
  BY <1>1 DEF StreamInv, Unacknowledged, Handled
<1>10. ConsumerInv'
  BY <1>1, <1>6, MovesKeepConsumerInv DEF Handled
<1> QED BY <1>7, <1>8, <1>9, <1>10

(* After a bookkeeping call a consumer goes on with its entry or polls.    *)
LEMMA ContinueMoves ==
  ASSUME TypeOK, ConsumerInv, NEW c \in Consumers, NEW reply, NEW s \in Stages,
         Continue(c, reply, s), stage[c] \in Working
  PROVE  /\ Moves(c)
         /\ \/ stage'[c] = "poll"
            \/ stage'[c] = s /\ held' = held /\ Succeeds(reply)
<1>1. CASE Succeeds(reply)
  BY <1>1, GoToMoves DEF Continue
<1>2. CASE ~Succeeds(reply)
  BY <1>2, AbortTickMoves DEF Continue
<1> QED BY <1>1, <1>2

LEMMA MoveToDlqInv ==
  ASSUME IInv, NEW c \in Consumers, NEW reply \in Replies, MoveToDlq(c, reply)
  PROVE  IInv'
<1> USE DEF IInv
<1> DEFINE e == EventOf(c)
<1>1. UNCHANGED <<row, batch, publishing, stream, erased, group, delivered,
                  pending, failures, written>>
  BY DEF MoveToDlq, outboxVars, streamVars
<1>2. stage[c] = "bury" /\ held[c] # {} /\ e \in Events
  BY EntryIsHeld DEF MoveToDlq, ConsumerInv
<1>3. dead' = IF TakesEffect(reply) THEN dead \union {e} ELSE dead
  BY DEF MoveToDlq
<1>4. /\ Moves(c)
      /\ stage'[c] = "poll" \/ (stage'[c] = "mark" /\ held' = held /\ Succeeds(reply))
  <2>1. Continue(c, reply, "mark")
    BY DEF MoveToDlq
  <2>2. "mark" \in Stages /\ stage[c] \in Working
    BY <1>2 DEF Stages, Working
  <2> QED BY <2>1, <2>2, ContinueMoves
<1>5. Succeeds(reply) => TakesEffect(reply)
  BY DEF Succeeds, TakesEffect, Replies
<1> HIDE DEF e
<1>6. \A x \in Events : Handled(x) => Handled(x)'
  BY <1>1, <1>3 DEF Handled
<1>7. TypeOK'
  <2>1. disturbed' \in 0 .. MaxDisturbances
    BY CallType DEF MoveToDlq, TypeOK
  <2>2. dead' \subseteq Events
    BY <1>2, <1>3 DEF TypeOK
  <2> QED BY <1>1, <1>4, <2>1, <2>2 DEF TypeOK, Moves
<1>8. OutboxInv'
  BY <1>1 DEF OutboxInv, InStream
<1>9. StreamInv'
  <2>1. \A k \in 1 .. Len(stream) : stream[k] \in Events
    BY DEF TypeOK
  <2>2. \A k \in 1 .. Len(stream) : Handled(stream[k]) => Handled(stream[k])'
    BY <1>1, <1>6, <2>1
  <2> QED BY <1>1, <2>2 DEF StreamInv, Unacknowledged
<1>10. ConsumerInv'
  <2>1. stage'[c] \in {"mark", "ack"} => held' = held /\ Handled(EventOf(c))'
    <3>1. SUFFICES ASSUME stage'[c] \in {"mark", "ack"}
                   PROVE  held' = held /\ Handled(EventOf(c))'
      OBVIOUS
    <3>2. held' = held /\ e \in dead'
      BY <1>3, <1>4, <1>5, <3>1
    <3>3. e' = e
      BY <1>1, <3>2 DEF e, EventOf, Entry
    <3> QED BY <3>2, <3>3 DEF Handled, e
  <2> QED BY <1>1, <1>4, <1>6, <2>1, MovesKeepConsumerInv
<1> QED BY <1>7, <1>8, <1>9, <1>10

LEMMA MarkProcessedInv ==
  ASSUME IInv, NEW c \in Consumers, NEW reply \in Replies, NEW cleared \in BOOLEAN,
         MarkProcessed(c, reply, cleared)
  PROVE  IInv'
<1> USE DEF IInv
<1>1. UNCHANGED <<row, batch, publishing, stream, erased, group, delivered,
                  pending, written, dead>>
  BY DEF MarkProcessed, outboxVars, streamVars, resultVars
<1>2. stage[c] = "mark" /\ held[c] # {} /\ Handled(EventOf(c))
  BY DEF MarkProcessed, ConsumerInv
<1>3. /\ Moves(c)
      /\ stage'[c] = "poll" \/ (stage'[c] = "ack" /\ held' = held)
  <2>1. Continue(c, reply, "ack")
    BY DEF MarkProcessed
  <2>2. "ack" \in Stages /\ stage[c] \in Working
    BY <1>2 DEF Stages, Working
  <2> QED BY <2>1, <2>2, ContinueMoves
<1>4. TypeOK'
  <2>1. disturbed' \in 0 .. MaxDisturbances
    BY CallType DEF MarkProcessed, TypeOK
  <2>2. failures' \in [Events -> Nat]
    BY DEF MarkProcessed, TypeOK
  <2> QED BY <1>1, <1>3, <2>1, <2>2 DEF TypeOK, Moves
<1>5. OutboxInv'
  BY <1>1 DEF OutboxInv, InStream
<1>6. StreamInv'
  BY <1>1 DEF StreamInv, Unacknowledged, Handled
<1>7. ConsumerInv'
  <2>1. stage'[c] \in {"mark", "ack"} => held' = held /\ Handled(EventOf(c))'
    BY <1>1, <1>2, <1>3 DEF Handled, EventOf, Entry
  <2> QED BY <1>1, <1>3, <2>1, MovesKeepConsumerInv DEF Handled
<1> QED BY <1>4, <1>5, <1>6, <1>7

LEMMA AckInv ==
  ASSUME IInv, NEW c \in Consumers, NEW reply \in Replies, Ack(c, reply)
  PROVE  IInv'
<1> USE DEF IInv
<1>1. UNCHANGED <<row, batch, publishing, stream, erased, group, delivered,
                  failures, written, dead>>
  BY DEF Ack, outboxVars, streamVars, resultVars
<1>2. stage[c] = "ack" /\ Handled(EventOf(c))
  BY DEF Ack, ConsumerInv
<1>3. pending' = pending \/ pending' = pending \ {Entry(c)}
  BY DEF Ack
<1>4. Moves(c) /\ stage'[c] \in {"poll", "handle"}
  BY AbortTickMoves, NextEntryMoves DEF Ack
<1>5. TypeOK'
  <2>1. disturbed' \in 0 .. MaxDisturbances
    BY CallType DEF Ack, TypeOK
  <2>2. pending' \subseteq (erased + 1) .. delivered
    BY <1>3 DEF TypeOK
  <2> QED BY <1>1, <1>4, <2>1, <2>2 DEF TypeOK, Moves
<1>6. OutboxInv'
  BY <1>1 DEF OutboxInv, InStream
<1>7. StreamInv'
  <2>1. Unacknowledged \subseteq Unacknowledged' \union {Entry(c)}
    BY <1>1, <1>3 DEF Unacknowledged
  <2>2. \A k \in Unacknowledged : k \in Unacknowledged' \/ Handled(stream[k])
    BY <1>2, <2>1 DEF EventOf
  <2> QED BY <1>1, <2>2 DEF StreamInv, Handled
<1>8. ConsumerInv'
  BY <1>1, <1>4, MovesKeepConsumerInv DEF Handled
<1> QED BY <1>5, <1>6, <1>7, <1>8

LEMMA RestartInv == IInv /\ Restart => IInv'
<1> SUFFICES ASSUME IInv, Restart PROVE IInv'
  OBVIOUS
<1> USE DEF IInv
<1>1. UNCHANGED <<row, stream, erased, group, delivered, pending, failures,
                  written, dead>>
  BY DEF Restart, streamVars, resultVars
<1>2. /\ batch' = {} /\ publishing' = "publish"
      /\ stage' = [c \in Consumers |-> "start"]
      /\ held' = [c \in Consumers |-> {}]
  BY DEF Restart
<1>3. TypeOK'
  <2>1. disturbed' \in 0 .. MaxDisturbances
    BY BusAssumption DEF Restart, Disturb, TypeOK
  <2>2. /\ stage' \in [Consumers -> Stages]
        /\ held' \in [Consumers -> SUBSET (1 .. Len(stream))]
    BY <1>2 DEF Stages
  <2> QED BY <1>1, <1>2, <2>1, <2>2 DEF TypeOK
<1>4. OutboxInv'
  BY <1>1, <1>2 DEF OutboxInv, InStream
<1>5. StreamInv'
  BY <1>1 DEF StreamInv, Unacknowledged, Handled
<1>6. ConsumerInv'
  BY <1>2 DEF ConsumerInv
<1> QED BY <1>3, <1>4, <1>5, <1>6

LEMMA FlushInv == IInv /\ Flush => IInv'
<1> SUFFICES ASSUME IInv, Flush PROVE IInv'
  OBVIOUS
<1> USE DEF IInv
<1>1. UNCHANGED <<row, batch, publishing, stream, stage, held, written, dead, disturbed>>
  BY DEF Flush, outboxVars, resultVars
<1>2. /\ erased' = Len(stream) /\ delivered' = Len(stream) /\ group' = FALSE
      /\ pending' = {} /\ failures' = [e \in Events |-> 0]
  BY DEF Flush
<1>3. Len(stream) \in Nat
  BY DEF TypeOK
<1>4. TypeOK'
  <2>1. erased' \in 0 .. Len(stream) /\ delivered' \in erased' .. Len(stream)
    BY <1>2, <1>3
  <2>2. failures' \in [Events -> Nat]
    BY <1>2
  <2> QED BY <1>1, <1>2, <2>1, <2>2 DEF TypeOK
<1>5. OutboxInv'
  BY <1>1 DEF OutboxInv, InStream
<1>6. StreamInv'
  <2>1. \A k \in 1 .. Len(stream) : k <= Len(stream)
    BY <1>3
  <2> QED BY <1>1, <1>2, <2>1 DEF StreamInv
<1>7. ConsumerInv'
  BY <1>1 DEF ConsumerInv, Handled, EventOf, Entry
<1> QED BY <1>4, <1>5, <1>6, <1>7

LEMMA StutterInv == IInv /\ UNCHANGED vars => IInv'
BY DEF IInv, TypeOK, OutboxInv, StreamInv, ConsumerInv, InStream, Handled, EventOf,
       Entry, Unacknowledged, vars, outboxVars, streamVars, resultVars

LEMMA NextInv == IInv /\ [Next]_vars => IInv'
<1> SUFFICES ASSUME IInv, [Next]_vars PROVE IInv'
  OBVIOUS
<1>1. CASE \E e \in Events : Enqueue(e)
  BY <1>1, EnqueueInv
<1>2. CASE PublisherStep
  BY <1>2, FetchPendingInv, PublishInv, RecordInv DEF PublisherStep
<1>3. ASSUME NEW c \in Consumers, ConsumerStep(c) PROVE IInv'
  BY <1>3, ClaimStaleInv, EnsureGroupInv, HandleMemoryEventInv, MoveToDlqInv,
     MarkProcessedInv, AckInv, ReadGroupInv, CountFailureInv DEF ConsumerStep
<1>4. CASE Restart
  BY <1>4, RestartInv
<1>5. CASE Flush
  BY <1>5, FlushInv
<1>6. CASE Rest \/ UNCHANGED vars
  BY <1>6, StutterInv DEF Rest
<1> QED BY <1>1, <1>2, <1>3, <1>4, <1>5, <1>6 DEF Next

LEMMA InvariantHolds == Spec => []IInv
BY InitInv, NextInv, PTL DEF Spec

-----------------------------------------------------------------------------
(* The state of outbox, stream and consumers keeps its shape: in           *)
(* particular the group never acknowledges or delivers an entry that was   *)
(* not added, or that a flush erased.                                      *)
THEOREM TypeCorrect == Spec => []TypeOK
<1>1. IInv => TypeOK
  BY DEF IInv
<1> QED BY <1>1, InvariantHolds, PTL

LEMMA InvariantMeansKept == IInv => NothingIsLost
<1> SUFFICES ASSUME IInv, NEW e \in Events, Phase(e) = "settled"
             PROVE  \/ written[e] > 0
                    \/ e \in dead
                    \/ \E k \in 1 .. erased : stream[k] = e
  BY DEF NothingIsLost
<1> USE DEF IInv
<1>1. row[e] = "published" /\ \A k \in Unacknowledged : stream[k] # e
  BY DEF Phase
<1>2. PICK k \in 1 .. Len(stream) : stream[k] = e
  BY <1>1 DEF OutboxInv, InStream
<1>3. k <= erased \/ Handled(e)
  BY <1>1, <1>2 DEF StreamInv
<1>4. erased \in Nat /\ k \in Nat /\ k >= 1
  BY DEF TypeOK
<1> QED BY <1>2, <1>3, <1>4 DEF Handled

(* No queued event is lost: one that is neither in the outbox nor waiting  *)
(* in the stream was written or buried, or was in Redis when an operator   *)
(* flushed it, however the calls of publisher and consumers fail, repeat   *)
(* and interleave and however often the process restarts.                  *)
THEOREM NoEventIsLost == Spec => []NothingIsLost
BY InvariantMeansKept, InvariantHolds, PTL

-----------------------------------------------------------------------------
(* The refinement of Delivery, for a Redis that is not flushed.            *)
Shown == [e \in Events |-> Phase(e)]

Intact == erased = 0

LEMMA IntactHolds == ASSUME ~MayFlush PROVE Spec => []Intact
<1>1. Init => Intact
  BY DEF Init, Intact
<1>2. Intact /\ [Next]_vars => Intact'
  BY DEF Intact, Next, Enqueue, PublisherStep, FetchPending, Publish, Record,
         ConsumerStep, ClaimStale, EnsureGroup, HandleMemoryEvent, MoveToDlq,
         MarkProcessed, Ack, ReadGroup, CountFailure, Restart, Flush, Rest,
         vars, streamVars
<1> QED BY <1>1, <1>2, PTL DEF Spec

LEMMA PhaseCases == \A e \in Events : Phase(e) \in {"new", "outstanding", "settled"}
BY DEF Phase

(* What depends on the outbox and the unacknowledged entries alone.        *)
LEMMA PhaseFrame ==
  ASSUME UNCHANGED <<row, stream>>, Unacknowledged' = Unacknowledged
  PROVE  \A e \in Events : Phase(e)' = Phase(e)
BY DEF Phase

LEMMA PromiseStutter ==
  ASSUME UNCHANGED resultVars, \A e \in Events : Phase(e)' = Phase(e)
  PROVE  [Promise!Next]_(Promise!vars)
BY DEF Promise!vars, resultVars

LEMMA PromiseSettle ==
  ASSUME UNCHANGED resultVars, NEW b \in Events, Handled(b),
         Phase(b) = "outstanding", Phase(b)' = "settled",
         \A e \in Events \ {b} : Phase(e)' = Phase(e)
  PROVE  Promise!Next
<1>1. Shown' = [Shown EXCEPT ![b] = "settled"] /\ Shown[b] = "outstanding"
  BY DEF Shown
<1>2. Promise!Settle(b)
  BY <1>1 DEF Promise!Settle, Shown, Handled, resultVars
<1> QED BY <1>2 DEF Promise!Next

LEMMA PromiseEnqueue ==
  ASSUME TypeOK, NEW e \in Events, Enqueue(e)
  PROVE  Promise!Next
<1>1. row \in [Events -> {"none", "pending", "published"}] /\ row[e] = "none"
      /\ row' = [row EXCEPT ![e] = "pending"]
  BY DEF Enqueue, TypeOK
<1>2. UNCHANGED <<stream, Unacknowledged, written, dead>>
  BY DEF Enqueue, streamVars, resultVars, Unacknowledged
<1>3. Phase(e) = "new" /\ Phase(e)' = "outstanding"
  BY <1>1 DEF Phase
<1>4. \A x \in Events \ {e} : Phase(x)' = Phase(x)
  BY <1>1, <1>2 DEF Phase
<1>5. Shown' = [Shown EXCEPT ![e] = "outstanding"] /\ Shown[e] = "new"
  BY <1>3, <1>4 DEF Shown
<1>6. Promise!Queue(e)
  BY <1>2, <1>5 DEF Promise!Queue, Shown
<1> QED BY <1>6 DEF Promise!Next

(* Publishing a row again gives its event another unacknowledged entry,    *)
(* and the event was outstanding: its row is pending.                      *)
LEMMA PromisePublish ==
  ASSUME IInv, NEW reply \in RepeatedReplies, Publish(reply)
  PROVE  [Promise!Next]_(Promise!vars)
<1> USE DEF IInv
<1> PICK b \in Events : b = Least(batch) /\ row[b] = "pending"
  BY FirstRowIsAnEvent DEF Publish, OutboxInv
<1>1. UNCHANGED <<row, delivered, pending, written, dead>>
  BY DEF Publish, resultVars
<1>2. /\ Len(stream) \in Nat /\ Len(stream') \in Nat /\ Len(stream) <= Len(stream')
      /\ \A k \in 1 .. Len(stream) : stream'[k] = stream[k]
      /\ \A k \in 1 .. Len(stream') : k > Len(stream) => stream'[k] = b
  BY PublishAppends
<1>3. /\ delivered \in Nat /\ delivered <= Len(stream)
      /\ pending \subseteq 1 .. Len(stream)
  <2>1. erased \in Nat /\ delivered \in Nat /\ delivered <= Len(stream)
    BY <1>2 DEF TypeOK
  <2>2. pending \subseteq (erased + 1) .. delivered
    BY DEF TypeOK
  <2> QED BY <1>2, <2>1, <2>2
<1>4. /\ Unacknowledged \subseteq 1 .. Len(stream)
      /\ Unacknowledged' = Unacknowledged \union (Len(stream) + 1) .. Len(stream')
  <2>1. (delivered + 1) .. Len(stream')
          = (delivered + 1) .. Len(stream) \union (Len(stream) + 1) .. Len(stream')
    BY <1>2, <1>3
  <2>2. (delivered + 1) .. Len(stream) \subseteq 1 .. Len(stream)
    BY <1>2, <1>3
  <2> QED BY <1>1, <1>3, <2>1, <2>2 DEF Unacknowledged
<1>5. \A k \in Unacknowledged : k \in Unacknowledged' /\ stream'[k] = stream[k]
  BY <1>2, <1>4
<1>6. \A k \in Unacknowledged' : k \in Unacknowledged \/ stream'[k] = b
  <2>1. \A k \in (Len(stream) + 1) .. Len(stream') : k \in 1 .. Len(stream') /\ k > Len(stream)
    BY <1>2
  <2> QED BY <1>2, <1>4, <2>1
<1>7. \A e \in Events : Phase(e)' = Phase(e)
  <2>1. SUFFICES ASSUME NEW e \in Events PROVE Phase(e)' = Phase(e)
    OBVIOUS
  <2>2. CASE e = b
    BY <1>1, <2>2 DEF Phase
  <2>3. CASE e # b
    BY <1>1, <1>5, <1>6, <2>3 DEF Phase
  <2> QED BY <2>2, <2>3
<1> QED BY <1>1, <1>7, PromiseStutter DEF resultVars

LEMMA PromiseRecord ==
  ASSUME IInv, IInv', Intact', NEW reply \in Replies, Record(reply),
         IInv' => NothingIsLost'
  PROVE  [Promise!Next]_(Promise!vars)
<1> USE DEF IInv
<1> PICK b \in Events : b = Least(batch) /\ row[b] = "pending"
  BY FirstRowIsAnEvent DEF Record, OutboxInv
<1>1. b \in Events /\ row[b] = "pending"
  OBVIOUS
<1>2. UNCHANGED <<stream, Unacknowledged, written, dead>>
  BY DEF Record, streamVars, resultVars, Unacknowledged
<1>3. row' = row \/ row' = [row EXCEPT ![b] = "published"]
  BY DEF Record
<1>4. row \in [Events -> {"none", "pending", "published"}]
  BY DEF TypeOK
<1>5. CASE row' = row
  BY <1>2, <1>5, PhaseFrame, PromiseStutter DEF resultVars
<1>6. CASE row' = [row EXCEPT ![b] = "published"]
  <2>1. \A e \in Events \ {b} : Phase(e)' = Phase(e)
    BY <1>1, <1>2, <1>4, <1>6 DEF Phase
  <2>2. Phase(b) = "outstanding"
    BY <1>1 DEF Phase
  <2>3. row'[b] = "published"
    BY <1>1, <1>4, <1>6
  <2>4. Phase(b)' \in {"settled", "outstanding"}
    BY <1>2, <2>3 DEF Phase
  <2>5. Phase(b)' = "settled" => Handled(b)
    <3>1. SUFFICES ASSUME Phase(b)' = "settled" PROVE Handled(b)
      OBVIOUS
    <3>2. NothingIsLost' /\ (1 .. erased)' = {}
      BY DEF Intact
    <3>3. row'[b] = "published" /\ \A k \in Unacknowledged : stream[k] # b
      BY <1>2, <2>3, <3>1 DEF Phase
    <3>4. written'[b] > 0 \/ b \in dead'
      BY <1>1, <1>2, <2>3, <3>2, <3>3 DEF NothingIsLost, Phase
    <3> QED BY <1>2, <3>4 DEF Handled
  <2> QED BY <1>1, <1>2, <2>1, <2>2, <2>4, <2>5, PromiseStutter, PromiseSettle DEF resultVars
<1> QED BY <1>3, <1>5, <1>6

(* The event of an entry was queued.                                       *)
LEMMA HeldIsQueued ==
  ASSUME IInv, NEW c \in Consumers, held[c] # {}
  PROVE  EventOf(c) \in Events /\ row[EventOf(c)] # "none" /\ Phase(EventOf(c)) # "new"
<1>1. Entry(c) \in 1 .. Len(stream) /\ EventOf(c) \in Events
  BY EntryIsHeld DEF IInv
<1>2. row[EventOf(c)] # "none"
  BY <1>1 DEF IInv, StreamInv, EventOf
<1> QED BY <1>1, <1>2 DEF Phase

LEMMA PromiseWrite ==
  ASSUME IInv, NEW c \in Consumers, NEW reply \in Replies, HandleMemoryEvent(c, reply)
  PROVE  [Promise!Next]_(Promise!vars)
<1> DEFINE e == EventOf(c)
<1>1. e \in Events /\ Phase(e) # "new"
  BY HeldIsQueued DEF HandleMemoryEvent, IInv, ConsumerInv
<1>2. UNCHANGED <<row, stream, Unacknowledged, dead>>
  BY DEF HandleMemoryEvent, outboxVars, streamVars, Unacknowledged
<1>3. written' = written \/ written' = [written EXCEPT ![e] = @ + 1]
  BY DEF HandleMemoryEvent
<1> HIDE DEF e
<1>4. \A x \in Events : Phase(x)' = Phase(x)
  BY <1>2, PhaseFrame
<1>5. CASE written' = written
  BY <1>2, <1>4, <1>5, PromiseStutter DEF resultVars
<1>6. CASE written' = [written EXCEPT ![e] = @ + 1]
  <2>1. Promise!Write(e)
    BY <1>1, <1>2, <1>4, <1>6 DEF Promise!Write
  <2> QED BY <1>1, <2>1 DEF Promise!Next
<1> QED BY <1>3, <1>5, <1>6

LEMMA PromiseBury ==
  ASSUME IInv, NEW c \in Consumers, NEW reply \in Replies, MoveToDlq(c, reply)
  PROVE  [Promise!Next]_(Promise!vars)
<1> DEFINE e == EventOf(c)
<1>1. e \in Events /\ Phase(e) # "new"
  BY HeldIsQueued DEF MoveToDlq, IInv, ConsumerInv
<1>2. UNCHANGED <<row, stream, Unacknowledged, written>>
  BY DEF MoveToDlq, outboxVars, streamVars, Unacknowledged
<1>3. dead' = dead \/ dead' = dead \union {e}
  BY DEF MoveToDlq
<1> HIDE DEF e
<1>4. \A x \in Events : Phase(x)' = Phase(x)
  BY <1>2, PhaseFrame
<1>5. CASE dead' = dead
  BY <1>2, <1>4, <1>5, PromiseStutter DEF resultVars
<1>6. CASE dead' = dead \union {e}
  <2>1. Promise!Bury(e)
    BY <1>1, <1>2, <1>4, <1>6 DEF Promise!Bury
  <2> QED BY <1>1, <2>1 DEF Promise!Next
<1> QED BY <1>3, <1>5, <1>6

LEMMA PromiseAck ==
  ASSUME IInv, NEW c \in Consumers, NEW reply \in Replies, Ack(c, reply)
  PROVE  [Promise!Next]_(Promise!vars)
<1> PICK e \in Events : e = EventOf(c) /\ row[e] # "none" /\ Handled(e)
  BY HeldIsQueued DEF Ack, IInv, ConsumerInv
<1>1. e \in Events /\ row[e] # "none" /\ Handled(e)
  OBVIOUS
<1>2. UNCHANGED <<row, stream, delivered, written, dead>>
  BY DEF Ack, outboxVars, streamVars, resultVars
<1>3. pending' = pending \/ pending' = pending \ {Entry(c)}
  BY DEF Ack
<1>4. /\ \A k \in Unacknowledged : k \in Unacknowledged' \/ stream[k] = e
      /\ Unacknowledged' \subseteq Unacknowledged
  <2>1. Unacknowledged \subseteq Unacknowledged' \union {Entry(c)}
    BY <1>2, <1>3 DEF Unacknowledged
  <2>2. Unacknowledged' \subseteq Unacknowledged
    BY <1>2, <1>3 DEF Unacknowledged
  <2> QED BY <2>1, <2>2 DEF EventOf
<1>5. \A x \in Events \ {e} : Phase(x)' = Phase(x)
  BY <1>2, <1>4 DEF Phase
<1>6. Phase(e)' = Phase(e) \/ (Phase(e) = "outstanding" /\ Phase(e)' = "settled")
  BY <1>1, <1>2, <1>4 DEF Phase
<1> QED BY <1>1, <1>2, <1>5, <1>6, PromiseStutter, PromiseSettle DEF resultVars

(* The steps of a consumer that neither write, bury nor acknowledge.       *)
LEMMA PromiseFrame ==
  ASSUME IInv, NEW c \in Consumers,
         \/ ClaimStale(c)
         \/ \E reply \in Replies : EnsureGroup(c, reply)
         \/ \E reply \in Replies, cleared \in BOOLEAN : MarkProcessed(c, reply, cleared)
         \/ \E reply \in {"ok", "lost"} : ReadGroup(c, reply)
         \/ \E reply \in RepeatedReplies : CountFailure(c, reply)
  PROVE  [Promise!Next]_(Promise!vars)
<1>1. UNCHANGED <<row, stream, written, dead>>
  BY DEF ClaimStale, EnsureGroup, MarkProcessed, ReadGroup, CountFailure,
         outboxVars, streamVars, resultVars
<1>2. Unacknowledged' = Unacknowledged
  <2>1. CASE \E reply \in Replies : EnsureGroup(c, reply)
    <3>1. pending' = pending /\ delivered' = delivered
      BY <2>1 DEF EnsureGroup, IInv, StreamInv
    <3> QED BY <1>1, <3>1 DEF Unacknowledged
  <2>2. CASE \E reply \in {"ok", "lost"} : ReadGroup(c, reply)
    BY <1>1, <2>2, ReadGroupDelivers DEF IInv, Unacknowledged
  <2>3. CASE ~(\E reply \in Replies : EnsureGroup(c, reply))
             /\ ~(\E reply \in {"ok", "lost"} : ReadGroup(c, reply))
    <3>1. pending' = pending /\ delivered' = delivered
      BY <2>3 DEF ClaimStale, MarkProcessed, CountFailure, streamVars
    <3> QED BY <1>1, <3>1 DEF Unacknowledged
  <2> QED BY <2>1, <2>2, <2>3
<1> QED BY <1>1, <1>2, PhaseFrame, PromiseStutter DEF resultVars

LEMMA PromiseStep ==
  ASSUME ~MayFlush, IInv, IInv', Intact', IInv' => NothingIsLost', [Next]_vars
  PROVE  [Promise!Next]_(Promise!vars)
<1>1. CASE \E e \in Events : Enqueue(e)
  BY <1>1, PromiseEnqueue DEF IInv
<1>2. CASE PublisherStep
  <2>1. CASE FetchPending
    <3>1. UNCHANGED <<row, stream, Unacknowledged, written, dead>>
      BY <2>1 DEF FetchPending, streamVars, resultVars, Unacknowledged
    <3> QED BY <3>1, PhaseFrame, PromiseStutter DEF resultVars
  <2> QED BY <1>2, <2>1, PromisePublish, PromiseRecord DEF PublisherStep
<1>3. ASSUME NEW c \in Consumers, ConsumerStep(c) PROVE [Promise!Next]_(Promise!vars)
  BY <1>3, PromiseFrame, PromiseWrite, PromiseBury, PromiseAck DEF ConsumerStep
<1>4. CASE Restart \/ Rest \/ UNCHANGED vars
  <2>1. UNCHANGED <<row, stream, Unacknowledged, written, dead>>
    BY <1>4 DEF Restart, Rest, vars, outboxVars, streamVars, resultVars, Unacknowledged
  <2> QED BY <2>1, PhaseFrame, PromiseStutter DEF resultVars
<1>5. CASE Flush
  BY <1>5 DEF Flush
<1> QED BY <1>1, <1>2, <1>3, <1>4, <1>5 DEF Next

LEMMA PromiseInit == Init => Promise!Init
BY DEF Init, Promise!Init, Phase

(* As long as nobody flushes Redis, outbox, publisher, stream and          *)
(* consumers together deliver every queued event at least once: whatever   *)
(* they do is a step of Delivery or none at all.                           *)
THEOREM DeliveryIsImplemented == ASSUME ~MayFlush PROVE Spec => DeliversAtLeastOnce
<1>1. IInv /\ IInv' /\ Intact' /\ (IInv' => NothingIsLost') /\ [Next]_vars
        => [Promise!Next]_(Promise!vars)
  BY PromiseStep
<1>2. Spec => []Intact
  BY IntactHolds
<1> QED
  BY <1>1, <1>2, InvariantMeansKept, InvariantHolds, PromiseInit, PTL
     DEF Spec, DeliversAtLeastOnce, Promise!Spec
-----------------------------------------------------------------------------
(* Dead letters are earned.  A failure of an event that can be written is  *)
(* a disturbance; it is in the event's count, or with a consumer that is   *)
(* about to count it.                                                      *)
Counting(e) == {c \in Consumers : stage[c] = "count" /\ EventOf(c) = e}
FailuresOf(e) == failures[e] + Cardinality(Counting(e))

BuriesEarned(c) ==
  stage[c] = "bury" => EventOf(c) \in Poisoned \/ disturbed >= MaxRetries

EarnedInv ==
  /\ \A e \in Events \ Poisoned : FailuresOf(e) <= disturbed
  /\ \A c \in Consumers : BuriesEarned(c)
  /\ DeadLettersAreEarned

(* A step of a consumer leaves the others where they are.                  *)
Unmoved(c) == \A d \in Consumers \ {c} : stage'[d] = stage[d] /\ held'[d] = held[d]
Alone(c) == stream' = stream /\ Unmoved(c)

LEMMA ConsumersStepAlone ==
  ASSUME NEW c \in Consumers, ConsumerStep(c)
  PROVE  Alone(c)
<1>1. /\ \A s : GoTo(c, s) => Unmoved(c)
      /\ NextEntry(c) => Unmoved(c)
      /\ AbortTick(c) => Unmoved(c)
  <2>1. \A h, s : held' = [held EXCEPT ![c] = h] /\ stage' = [stage EXCEPT ![c] = s] => Unmoved(c)
    BY DEF Unmoved
  <2>2. \A s : held' = held /\ stage' = [stage EXCEPT ![c] = s] => Unmoved(c)
    BY DEF Unmoved
  <2>3. NextEntry(c) => Unmoved(c)
    BY <2>1 DEF NextEntry
  <2>4. AbortTick(c) => Unmoved(c)
    BY <2>1 DEF AbortTick
  <2> QED BY <2>2, <2>3, <2>4 DEF GoTo
<1>2. \A reply, s : Continue(c, reply, s) => Unmoved(c)
  BY <1>1 DEF Continue
<1>3. CASE ClaimStale(c)
  <2>1. PICK new : held' = [held EXCEPT ![c] = new]
    BY <1>3 DEF ClaimStale
  <2> QED BY <1>3, <2>1 DEF ClaimStale, streamVars, Alone, Unmoved
<1>4. ASSUME NEW reply, EnsureGroup(c, reply) PROVE Alone(c)
  BY <1>1, <1>4 DEF EnsureGroup, Alone
<1>5. ASSUME NEW reply, HandleMemoryEvent(c, reply) PROVE Alone(c)
  BY <1>1, <1>5 DEF HandleMemoryEvent, streamVars, Alone
<1>6. ASSUME NEW reply, MoveToDlq(c, reply) PROVE Alone(c)
  BY <1>2, <1>6 DEF MoveToDlq, streamVars, Alone
<1>7. ASSUME NEW reply, NEW cleared, MarkProcessed(c, reply, cleared) PROVE Alone(c)
  BY <1>2, <1>7 DEF MarkProcessed, streamVars, Alone
<1>8. ASSUME NEW reply, Ack(c, reply) PROVE Alone(c)
  BY <1>1, <1>8 DEF Ack, streamVars, Alone
<1>9. ASSUME NEW reply, ReadGroup(c, reply) PROVE Alone(c)
  <2>1. Unmoved(c)
    <3>1. CASE reply = "ok"
      <4>1. PICK new : held' = [held EXCEPT ![c] = new] /\ stage' = [stage EXCEPT ![c] = "handle"]
        BY <1>9, <3>1 DEF ReadGroup
      <4> QED BY <4>1 DEF Unmoved
    <3>2. CASE reply # "ok"
      BY <1>9, <3>2 DEF ReadGroup, Unmoved
    <3> QED BY <3>1, <3>2
  <2> QED BY <1>9, <2>1 DEF ReadGroup, Alone
<1>10. ASSUME NEW reply, CountFailure(c, reply) PROVE Alone(c)
  BY <1>1, <1>10 DEF CountFailure, streamVars, Alone
<1> QED BY <1>3, <1>4, <1>5, <1>6, <1>7, <1>8, <1>9, <1>10 DEF ConsumerStep

LEMMA CountingIsFinite ==
  ASSUME NEW e
  PROVE  /\ IsFiniteSet(Counting(e)) /\ Cardinality(Counting(e)) \in Nat
         /\ IsFiniteSet(Counting(e)') /\ Cardinality(Counting(e)') \in Nat
<1>1. Counting(e) \in SUBSET Consumers /\ Counting(e)' \in SUBSET Consumers
  BY DEF Counting
<1>2. IsFiniteSet(Counting(e)) /\ IsFiniteSet(Counting(e)')
  BY <1>1, FS_Subset, BusAssumption
<1> QED BY <1>2, FS_CardinalityType

LEMMA CountingOfOthers ==
  ASSUME NEW c \in Consumers, Alone(c), NEW e, NEW d \in Consumers \ {c}
  PROVE  d \in Counting(e)' <=> d \in Counting(e)
BY DEF Alone, Unmoved, Counting, EventOf, Entry

(* By a step of one consumer the number of those that count a failure of   *)
(* an event changes by one at most.                                        *)
LEMMA CountingGrows ==
  ASSUME NEW c \in Consumers, Alone(c), NEW e
  PROVE  Cardinality(Counting(e)') <= Cardinality(Counting(e)) + 1
<1>1. Counting(e)' \in SUBSET (Counting(e) \union {c})
  BY CountingOfOthers DEF Counting
<1>2. /\ IsFiniteSet(Counting(e) \union {c})
      /\ Cardinality(Counting(e) \union {c}) <= Cardinality(Counting(e)) + 1
  <2>1. /\ IsFiniteSet(Counting(e) \union {c})
        /\ Cardinality(Counting(e) \union {c})
             = IF c \in Counting(e) THEN Cardinality(Counting(e)) ELSE Cardinality(Counting(e)) + 1
    BY CountingIsFinite, FS_AddElement
  <2> QED BY <2>1, CountingIsFinite
<1>3. Cardinality(Counting(e)') <= Cardinality(Counting(e) \union {c})
  BY <1>1, <1>2, FS_Subset
<1>4. Cardinality(Counting(e) \union {c}) \in Nat
  BY <1>2, FS_CardinalityType
<1> QED BY <1>2, <1>3, <1>4, CountingIsFinite

LEMMA CountingEnds ==
  ASSUME NEW c \in Consumers, Alone(c), stage'[c] # "count", NEW e, c \in Counting(e)
  PROVE  Cardinality(Counting(e)') <= Cardinality(Counting(e)) - 1
<1>1. Counting(e)' \in SUBSET (Counting(e) \ {c})
  BY CountingOfOthers DEF Counting
<1>2. /\ IsFiniteSet(Counting(e) \ {c})
      /\ Cardinality(Counting(e) \ {c}) = Cardinality(Counting(e)) - 1
  BY CountingIsFinite, FS_RemoveElement
<1> QED BY <1>1, <1>2, FS_Subset

-----------------------------------------------------------------------------
(* What a step of a consumer has to show.                                  *)
LEMMA EarnedByConsumer ==
  ASSUME IInv, IInv', EarnedInv, NEW c \in Consumers, Alone(c),
         disturbed <= disturbed',
         \A e \in Events \ Poisoned : FailuresOf(e)' <= disturbed',
         BuriesEarned(c)', DeadLettersAreEarned'
  PROVE  EarnedInv'
<1>1. MaxRetries \in Nat /\ disturbed \in Nat /\ disturbed' \in Nat
  BY BusAssumption DEF IInv, TypeOK
<1>2. ASSUME NEW d \in Consumers \ {c} PROVE BuriesEarned(d)'
  <2>1. /\ stage'[d] = stage[d] /\ EventOf(d)' = EventOf(d)
    BY DEF Alone, Unmoved, EventOf, Entry
  <2>2. BuriesEarned(d)
    BY DEF EarnedInv
  <2> QED BY <1>1, <2>1, <2>2 DEF BuriesEarned
<1> QED BY <1>2 DEF EarnedInv

(* A step in which nothing fails; one in which nothing is buried either.   *)
LEMMA FailuresStayPaid ==
  ASSUME IInv, IInv', EarnedInv, disturbed <= disturbed',
         \A e \in Events : failures'[e] <= failures[e],
         \A c \in Consumers : stage'[c] = "count" =>
                              stage'[c] = stage[c] /\ EventOf(c)' = EventOf(c),
         NEW e \in Events \ Poisoned
  PROVE  FailuresOf(e)' <= disturbed'
<1>1. /\ disturbed \in Nat /\ disturbed' \in Nat
      /\ failures[e] \in Nat /\ failures'[e] \in Nat
  BY BusAssumption DEF IInv, TypeOK
<1>2. Counting(e)' \in SUBSET Counting(e)
  BY DEF Counting
<1>3. Cardinality(Counting(e)') <= Cardinality(Counting(e))
  BY <1>2, CountingIsFinite, FS_Subset
<1>4. failures[e] + Cardinality(Counting(e)) <= disturbed
  BY DEF EarnedInv, FailuresOf
<1>5. failures'[e] + Cardinality(Counting(e)') <= disturbed'
  BY <1>1, <1>3, <1>4, CountingIsFinite
<1> QED BY <1>5 DEF FailuresOf

LEMMA EarnedByQuietStep ==
  ASSUME IInv, IInv', EarnedInv, disturbed <= disturbed', dead' = dead,
         \A e \in Events : failures'[e] <= failures[e],
         \A c \in Consumers : stage'[c] \in {"count", "bury"} =>
                              stage'[c] = stage[c] /\ EventOf(c)' = EventOf(c)
  PROVE  EarnedInv'
<1>1. MaxRetries \in Nat /\ disturbed \in Nat /\ disturbed' \in Nat
  BY BusAssumption DEF IInv, TypeOK
<1>2. \A e \in Events \ Poisoned : FailuresOf(e)' <= disturbed'
  BY FailuresStayPaid
<1>3. ASSUME NEW c \in Consumers PROVE BuriesEarned(c)'
  BY <1>1 DEF EarnedInv, BuriesEarned
<1>4. DeadLettersAreEarned'
  BY <1>1 DEF EarnedInv, DeadLettersAreEarned
<1> QED BY <1>2, <1>3, <1>4 DEF EarnedInv

LEMMA CallCounts ==
  ASSUME IInv, NEW reply, Call(reply)
  PROVE  /\ disturbed \in Nat /\ disturbed' \in Nat /\ disturbed <= disturbed'
         /\ reply # "ok" => disturbed' = disturbed + 1
BY BusAssumption DEF IInv, TypeOK, Call, Disturb
LEMMA EarnedByHandling ==
  ASSUME IInv, IInv', EarnedInv, NEW c \in Consumers, NEW reply \in Replies,
         HandleMemoryEvent(c, reply)
  PROVE  EarnedInv'
<1> DEFINE f == EventOf(c)
<1>1. /\ stage[c] = "handle" /\ failures' = failures /\ dead' = dead /\ stream' = stream
      /\ held' = held /\ stage' = [stage EXCEPT ![c] = IF Succeeds(reply) THEN "mark" ELSE "count"]
      /\ IF f \in Poisoned THEN reply = "refused" /\ UNCHANGED disturbed ELSE Call(reply)
  BY DEF HandleMemoryEvent, GoTo, streamVars
<1>2. /\ disturbed \in Nat /\ disturbed' \in Nat /\ disturbed <= disturbed'
      /\ f \notin Poisoned /\ reply # "ok" => disturbed' = disturbed + 1
  <2>1. disturbed \in Nat
    BY BusAssumption DEF IInv, TypeOK
  <2>2. CASE f \in Poisoned
    BY <1>1, <2>1, <2>2
  <2>3. CASE f \notin Poisoned
    BY <1>1, <2>3, CallCounts
  <2> QED BY <2>2, <2>3
<1>3. Alone(c)
  BY ConsumersStepAlone DEF ConsumerStep
<1>4. stage'[c] = (IF reply = "ok" THEN "mark" ELSE "count")
  <2>1. c \in DOMAIN stage
    BY DEF IInv, TypeOK
  <2> QED BY <1>1, <2>1 DEF Succeeds, Replies
<1>5. EventOf(c)' = f
  BY <1>1 DEF EventOf, Entry
<1> HIDE DEF f
<1>6. CASE reply = "ok"
  <2>1. \A e \in Events : failures'[e] <= failures[e]
    BY <1>1 DEF IInv, TypeOK
  <2>2. ASSUME NEW d \in Consumers, stage'[d] \in {"count", "bury"}
        PROVE  stage'[d] = stage[d] /\ EventOf(d)' = EventOf(d)
    BY <1>1, <1>3, <1>4, <1>6, <2>2 DEF Alone, Unmoved, EventOf, Entry
  <2> QED BY <1>1, <1>2, <2>1, <2>2, EarnedByQuietStep
<1>7. CASE reply # "ok"
  <2>1. ASSUME NEW e \in Events \ Poisoned PROVE FailuresOf(e)' <= disturbed'
    <3>1. failures[e] + Cardinality(Counting(e)) <= disturbed /\ failures[e] \in Nat
      BY DEF EarnedInv, FailuresOf, IInv, TypeOK
    <3>2. CASE e = f
      <4>1. disturbed' = disturbed + 1
        BY <1>2, <1>7, <3>2
      <4>2. Cardinality(Counting(e)') <= Cardinality(Counting(e)) + 1
        BY <1>3, CountingGrows
      <4>3. failures[e] + Cardinality(Counting(e)') <= disturbed'
        BY <1>2, <3>1, <4>1, <4>2, CountingIsFinite
      <4> QED BY <1>1, <4>3 DEF FailuresOf
    <3>3. CASE e # f
      <4>1. Counting(e)' \in SUBSET Counting(e)
        BY <1>3, <1>5, <3>3, CountingOfOthers DEF Counting
      <4>2. Cardinality(Counting(e)') <= Cardinality(Counting(e))
        BY <4>1, CountingIsFinite, FS_Subset
      <4>3. failures[e] + Cardinality(Counting(e)') <= disturbed'
        BY <1>2, <3>1, <4>2, CountingIsFinite
      <4> QED BY <1>1, <4>3 DEF FailuresOf
    <3> QED BY <3>2, <3>3
  <2>2. BuriesEarned(c)'
    BY <1>4, <1>7 DEF BuriesEarned
  <2>3. DeadLettersAreEarned'
    <3>1. MaxRetries \in Nat
      BY BusAssumption
    <3> QED BY <1>1, <1>2, <3>1 DEF EarnedInv, DeadLettersAreEarned
  <2> QED BY <1>2, <1>3, <2>1, <2>2, <2>3, EarnedByConsumer
<1> QED BY <1>6, <1>7

LEMMA EarnedByCounting ==
  ASSUME IInv, IInv', EarnedInv, NEW c \in Consumers, NEW reply \in RepeatedReplies,
         CountFailure(c, reply)
  PROVE  EarnedInv'
<1>5. EventOf(c) \in Events
  BY EntryIsHeld DEF IInv, ConsumerInv, CountFailure
<1> PICK f \in Events : f = EventOf(c)
  BY <1>5
<1> DEFINE n     == Times(reply)
           count == failures[f] + n
<1>1. /\ stage[c] = "count" /\ Call(reply) /\ dead' = dead /\ stream' = stream
      /\ failures' = [failures EXCEPT ![f] = count]
      /\ IF ~Succeeds(reply) THEN AbortTick(c)
         ELSE IF count >= MaxRetries THEN GoTo(c, "bury") ELSE NextEntry(c)
  BY DEF CountFailure, streamVars, resultVars
<1>2. /\ disturbed \in Nat /\ disturbed' \in Nat /\ disturbed <= disturbed'
      /\ reply # "ok" => disturbed' = disturbed + 1
  BY <1>1, CallCounts
<1>3. Alone(c)
  BY ConsumersStepAlone DEF ConsumerStep
<1>4. n \in Nat /\ n <= 1 + (disturbed' - disturbed)
  <2>1. n \in {0, 1, 2} /\ (n = 2 => reply # "ok")
    BY DEF Times, RepeatedReplies, Replies
  <2> QED BY <1>2, <2>1
<1>6. /\ stage'[c] \in {"poll", "handle", "bury"}
      /\ stage'[c] = "bury" => count >= MaxRetries /\ EventOf(c)' = f
  <2>1. c \in DOMAIN stage
    BY DEF IInv, TypeOK
  <2>2. CASE ~Succeeds(reply)
    BY <1>1, <2>1, <2>2 DEF AbortTick
  <2>3. CASE Succeeds(reply) /\ count >= MaxRetries
    <3>1. stage'[c] = "bury" /\ held' = held
      BY <1>1, <2>1, <2>3 DEF GoTo
    <3> QED BY <1>1, <2>3, <3>1 DEF EventOf, Entry
  <2>4. CASE Succeeds(reply) /\ ~(count >= MaxRetries)
    <3>1. NextEntry(c) /\ TypeOK
      BY <1>1, <2>4 DEF IInv
    <3>2. stage'[c] \in {"poll", "handle"}
      BY <3>1, NextEntryMoves
    <3> QED BY <3>2
  <2> QED BY <2>2, <2>3, <2>4
<1>7. c \in Counting(f)
  BY <1>1 DEF Counting
<1>8. failures \in [Events -> Nat] /\ MaxRetries \in Nat
  BY BusAssumption DEF IInv, TypeOK
<1>9. failures'[f] = failures[f] + n /\ \A e \in Events \ {f} : failures'[e] = failures[e]
  BY <1>1, <1>5, <1>8
<1> HIDE DEF n, count
<1>10. ASSUME NEW e \in Events \ Poisoned PROVE FailuresOf(e)' <= disturbed'
  <2>1. failures[e] + Cardinality(Counting(e)) <= disturbed /\ failures[e] \in Nat
    BY <1>8 DEF EarnedInv, FailuresOf
  <2>2. CASE e = f
    <3>1. Cardinality(Counting(e)') <= Cardinality(Counting(e)) - 1
      BY <1>3, <1>6, <1>7, <2>2, CountingEnds
    <3>2. Cardinality(Counting(e)) \in Nat /\ Cardinality(Counting(e)') \in Nat
      BY CountingIsFinite
    <3>3. failures[e] + n + Cardinality(Counting(e)') <= disturbed'
      <4>1. \A a, b, k, d, dd, m \in Nat :
              a + b <= d /\ k <= b - 1 /\ m <= 1 + (dd - d) => a + m + k <= dd
        OBVIOUS
      <4> QED BY <1>2, <1>4, <2>1, <3>1, <3>2, <4>1
    <3> QED BY <1>9, <2>2, <3>3 DEF FailuresOf
  <2>3. CASE e # f
    <3>1. Counting(e)' \in SUBSET Counting(e)
      BY <1>3, <1>6, CountingOfOthers DEF Counting
    <3>2. Cardinality(Counting(e)') <= Cardinality(Counting(e))
      BY <3>1, CountingIsFinite, FS_Subset
    <3>3. failures[e] + Cardinality(Counting(e)') <= disturbed'
      BY <1>2, <2>1, <3>2, CountingIsFinite
    <3> QED BY <1>9, <2>3, <3>3 DEF FailuresOf
  <2> QED BY <2>2, <2>3
<1>11. BuriesEarned(c)'
  <2>1. SUFFICES ASSUME stage'[c] = "bury", f \notin Poisoned PROVE disturbed' >= MaxRetries
    BY <1>6 DEF BuriesEarned
  <2>2. failures[f] + n >= MaxRetries
    BY <1>6, <2>1 DEF count
  <2>3. failures'[f] + Cardinality(Counting(f)') <= disturbed'
    BY <1>10, <2>1 DEF FailuresOf
  <2> QED BY <1>2, <1>4, <1>8, <1>9, <2>2, <2>3, CountingIsFinite
<1>12. DeadLettersAreEarned'
  BY <1>1, <1>2, <1>8 DEF EarnedInv, DeadLettersAreEarned
<1> QED BY <1>2, <1>3, <1>10, <1>11, <1>12, EarnedByConsumer
LEMMA EarnedByBurying ==
  ASSUME IInv, IInv', EarnedInv, NEW c \in Consumers, NEW reply \in Replies, MoveToDlq(c, reply)
  PROVE  EarnedInv'
<1>1. /\ stage[c] = "bury" /\ Call(reply) /\ Continue(c, reply, "mark")
      /\ failures' = failures /\ stream' = stream
      /\ dead' = dead \/ dead' = dead \union {EventOf(c)}
  BY DEF MoveToDlq, streamVars
<1>2. Alone(c)
  BY ConsumersStepAlone DEF ConsumerStep
<1>3. stage'[c] \in {"mark", "poll"}
  <2>1. c \in DOMAIN stage
    BY DEF IInv, TypeOK
  <2> QED BY <1>1, <2>1 DEF Continue, GoTo, AbortTick
<1>4. disturbed \in Nat /\ disturbed' \in Nat /\ disturbed <= disturbed' /\ MaxRetries \in Nat
  BY <1>1, CallCounts, BusAssumption
<1>5. \A e \in Events \ Poisoned : FailuresOf(e)' <= disturbed'
  <2>1. \A e \in Events : failures'[e] <= failures[e]
    BY <1>1 DEF IInv, TypeOK
  <2>2. \A d \in Consumers : stage'[d] = "count" => stage'[d] = stage[d] /\ EventOf(d)' = EventOf(d)
    BY <1>2, <1>3 DEF Alone, Unmoved, EventOf, Entry
  <2> QED BY <1>4, <2>1, <2>2, FailuresStayPaid
<1>6. BuriesEarned(c)'
  BY <1>3 DEF BuriesEarned
<1>7. DeadLettersAreEarned'
  BY <1>1, <1>4 DEF EarnedInv, BuriesEarned, DeadLettersAreEarned
<1> QED BY <1>2, <1>4, <1>5, <1>6, <1>7, EarnedByConsumer

LEMMA EarnedByConsumerStep ==
  ASSUME IInv, IInv', EarnedInv, NEW c \in Consumers, ConsumerStep(c)
  PROVE  EarnedInv'
<1>1. TypeOK /\ c \in DOMAIN stage /\ failures \in [Events -> Nat] /\ Alone(c)
  BY ConsumersStepAlone DEF IInv, TypeOK
<1>2. ASSUME stage'[c] \notin {"count", "bury"}, dead' = dead, disturbed <= disturbed',
             \A e \in Events : failures'[e] <= failures[e]
      PROVE  EarnedInv'
  <2>1. \A d \in Consumers : stage'[d] \in {"count", "bury"} =>
                              stage'[d] = stage[d] /\ EventOf(d)' = EventOf(d)
    BY <1>1, <1>2 DEF Alone, Unmoved, EventOf, Entry
  <2> QED BY <1>2, <2>1, EarnedByQuietStep
<1>3. ASSUME stage'[c] \notin {"count", "bury"}, dead' = dead, failures' = failures,
             NEW reply, Call(reply)
      PROVE  EarnedInv'
  <2>1. \A e \in Events : failures'[e] <= failures[e]
    BY <1>1, <1>3
  <2> QED BY <1>2, <1>3, <2>1, CallCounts
<1>4. CASE ClaimStale(c)
  <2>1. PICK reply : Call(reply)
    BY <1>4 DEF ClaimStale
  <2> QED BY <1>1, <1>3, <1>4, <2>1 DEF ClaimStale, resultVars
<1>5. ASSUME NEW reply, EnsureGroup(c, reply) PROVE EarnedInv'
  <2>1. stage'[c] \in {"poll", "stopped"}
    BY <1>1, <1>5 DEF EnsureGroup, GoTo
  <2> QED BY <1>3, <1>5, <2>1 DEF EnsureGroup, resultVars
<1>6. ASSUME NEW reply, NEW cleared \in BOOLEAN, MarkProcessed(c, reply, cleared) PROVE EarnedInv'
  <2>1. stage'[c] \in {"ack", "poll"}
    BY <1>1, <1>6 DEF MarkProcessed, Continue, GoTo, AbortTick
  <2>2. \A e \in Events : failures'[e] <= failures[e]
    BY <1>1, <1>6 DEF MarkProcessed
  <2>3. PICK r : Call(r)
    BY <1>6 DEF MarkProcessed
  <2> QED BY <1>2, <1>6, <2>1, <2>2, <2>3, CallCounts DEF MarkProcessed, resultVars
<1>7. ASSUME NEW reply, Ack(c, reply) PROVE EarnedInv'
  <2>1. stage'[c] \in {"handle", "poll"}
    BY <1>1, <1>7, NextEntryMoves DEF Ack, AbortTick
  <2> QED BY <1>3, <1>7, <2>1 DEF Ack, resultVars
<1>8. ASSUME NEW reply, ReadGroup(c, reply) PROVE EarnedInv'
  <2>1. stage'[c] \in {"handle", "poll"}
    BY <1>1, <1>8 DEF ReadGroup
  <2> QED BY <1>3, <1>8, <2>1 DEF ReadGroup, resultVars
<1> QED BY <1>4, <1>5, <1>6, <1>7, <1>8, EarnedByHandling, EarnedByCounting, EarnedByBurying
        DEF ConsumerStep

LEMMA EarnedNext == IInv /\ IInv' /\ EarnedInv /\ [Next]_vars => EarnedInv'
<1> SUFFICES ASSUME IInv, IInv', EarnedInv, [Next]_vars PROVE EarnedInv'
  OBVIOUS
<1>1. failures \in [Events -> Nat] /\ disturbed \in Nat
  BY BusAssumption DEF IInv, TypeOK
<1>2. ASSUME stage' = stage, held' = held, failures' = failures, dead' = dead,
             disturbed <= disturbed',
             \A k \in 1 .. Len(stream) : stream'[k] = stream[k]
      PROVE  EarnedInv'
  <2>1. ASSUME NEW c \in Consumers, stage[c] \in {"count", "bury"}
        PROVE  EventOf(c)' = EventOf(c)
    <3>1. Entry(c) \in 1 .. Len(stream) /\ Entry(c)' = Entry(c)
      BY <1>2, <2>1, EntryIsHeld DEF IInv, ConsumerInv, Entry
    <3> QED BY <1>2, <3>1 DEF EventOf
  <2>2. \A e \in Events : failures'[e] <= failures[e]
    BY <1>1, <1>2
  <2>3. \A c \in Consumers : stage'[c] \in {"count", "bury"} =>
                              stage'[c] = stage[c] /\ EventOf(c)' = EventOf(c)
    BY <1>2, <2>1
  <2> QED BY <1>2, <2>2, <2>3, EarnedByQuietStep
<1>3. ASSUME NEW e \in Events, Enqueue(e) PROVE EarnedInv'
  BY <1>1, <1>2, <1>3 DEF Enqueue, streamVars, resultVars
<1>4. CASE PublisherStep
  <2>1. CASE FetchPending
    BY <1>1, <1>2, <2>1 DEF FetchPending, streamVars, resultVars
  <2>2. ASSUME NEW reply \in RepeatedReplies, Publish(reply) PROVE EarnedInv'
    <3>1. TypeOK /\ Least(batch) \in Events
      BY <2>2, FirstRowIsAnEvent DEF Publish, IInv
    <3>2. PICK b \in Events : b = Least(batch)
      BY <3>1
    <3>3. \A k \in 1 .. Len(stream) : stream'[k] = stream[k]
      BY <2>2, <3>1, <3>2, PublishAppends
    <3>4. disturbed <= disturbed'
      BY <2>2, CallCounts DEF Publish
    <3> QED BY <1>2, <2>2, <3>3, <3>4 DEF Publish, resultVars
  <2>3. ASSUME NEW reply \in Replies, Record(reply) PROVE EarnedInv'
    <3>1. disturbed <= disturbed'
      BY <2>3, CallCounts DEF Record
    <3> QED BY <1>2, <2>3, <3>1 DEF Record, streamVars, resultVars
  <2> QED BY <1>4, <2>1, <2>2, <2>3 DEF PublisherStep
<1>5. CASE Restart
  <2>1. disturbed <= disturbed' /\ dead' = dead /\ failures' = failures
    BY <1>1, <1>5 DEF Restart, Disturb, resultVars
  <2>2. \A c \in Consumers : stage'[c] = "start"
    BY <1>5 DEF Restart
  <2>3. \A e \in Events : failures'[e] <= failures[e]
    BY <1>1, <2>1
  <2> QED BY <2>1, <2>2, <2>3, EarnedByQuietStep
<1>6. CASE Flush
  <2>1. disturbed <= disturbed' /\ dead' = dead /\ stage' = stage /\ held' = held /\ stream' = stream
    BY <1>1, <1>6 DEF Flush, resultVars
  <2>2. \A e \in Events : failures'[e] <= failures[e]
    BY <1>1, <1>6 DEF Flush
  <2>3. \A c \in Consumers : EventOf(c)' = EventOf(c) /\ stage'[c] = stage[c]
    BY <2>1 DEF EventOf, Entry
  <2> QED BY <2>1, <2>2, <2>3, EarnedByQuietStep
<1>7. CASE Rest \/ UNCHANGED vars
  BY <1>1, <1>2, <1>7 DEF Rest, vars, streamVars, resultVars
<1>8. ASSUME NEW c \in Consumers, ConsumerStep(c) PROVE EarnedInv'
  BY <1>8, EarnedByConsumerStep
<1> QED BY <1>3, <1>4, <1>5, <1>6, <1>7, <1>8 DEF Next

LEMMA EarnedInit == Init => EarnedInv
<1> SUFFICES ASSUME Init PROVE EarnedInv
  OBVIOUS
<1>1. ASSUME NEW e \in Events PROVE FailuresOf(e) = 0
  <2>1. Counting(e) = {}
    BY DEF Init, Counting
  <2>2. Cardinality(Counting(e)) = 0
    BY <2>1, FS_EmptySet
  <2> QED BY <2>2 DEF Init, FailuresOf
<1> QED BY <1>1 DEF Init, EarnedInv, BuriesEarned, DeadLettersAreEarned

(* An event that can be written is buried only after MaxRetries calls that *)
(* failed it: what a poisoned event of its batches fails, what is          *)
(* delivered again and what a flush resets never add up to a dead letter   *)
(* (handle_consumer_failure).                                              *)
THEOREM OnlyFailuresBury == Spec => []DeadLettersAreEarned
<1>1. EarnedInv => DeadLettersAreEarned
  BY DEF EarnedInv
<1>2. Spec => []EarnedInv
  BY InvariantHolds, EarnedInit, EarnedNext, PTL DEF Spec
<1> QED BY <1>1, <1>2, PTL
-----------------------------------------------------------------------------
(* Without a disturbance every event is written once: it has one entry in  *)
(* the stream, the entry is with one consumer, and it is written by nobody *)
(* but the consumer that goes on to mark and acknowledge it.               *)
OneEntryEach == \A j, k \in 1 .. Len(stream) : stream[j] = stream[k] => j = k
MarkingRow(e) == batch # {} /\ publishing = "mark" /\ e = Least(batch)
EntriesAreMarked ==
  \A k \in 1 .. Len(stream) : row[stream[k]] = "published" \/ MarkingRow(stream[k])
HeldIsDelivered == \A c \in Consumers : held[c] \subseteq 1 .. delivered
HeldByOne == \A c, d \in Consumers : c # d => held[c] \intersect held[d] = {}
WrittenOnce == \A e \in Events : written[e] <= 1 /\ (written[e] > 0 => InStream(e))
InHand(c, k) == held[c] # {} /\ k = Entry(c) /\ stage[c] \in {"mark", "ack"}
ToDo(k) == k \in Unacknowledged \/ \E c \in Consumers : k \in held[c]
UnwrittenToDo ==
  \A k \in 1 .. Len(stream) :
    ToDo(k) => written[stream[k]] = 0 \/ \E c \in Consumers : InHand(c, k)

Calm ==
  /\ OneEntryEach
  /\ EntriesAreMarked
  /\ HeldIsDelivered
  /\ HeldByOne
  /\ WrittenOnce
  /\ UnwrittenToDo
CalmInv == disturbed = 0 => Calm

LEMMA CalmCall ==
  ASSUME IInv, NEW reply, Call(reply), disturbed' = 0
  PROVE  reply = "ok"
BY BusAssumption DEF IInv, TypeOK, Call, Disturb

(* A step of the publisher or of an operator: who works on what and what   *)
(* is written stays as it is.                                              *)
LEMMA CalmByOther ==
  ASSUME Calm, TypeOK, UNCHANGED <<stage, held, stream, written>>, EntriesAreMarked',
         delivered' \in Nat, delivered <= delivered', Unacknowledged' \subseteq Unacknowledged
  PROVE  Calm'
<1>1. OneEntryEach' /\ WrittenOnce'
  BY DEF Calm, OneEntryEach, WrittenOnce, InStream
<1>2. HeldIsDelivered' /\ HeldByOne'
  <2>1. 1 .. delivered \subseteq 1 .. delivered'
    BY DEF TypeOK
  <2> QED BY <2>1 DEF Calm, HeldIsDelivered, HeldByOne
<1>3. UnwrittenToDo'
  <2>1. \A k : ToDo(k)' => ToDo(k)
    BY DEF ToDo
  <2>2. \A c \in Consumers, k \in 1 .. Len(stream) : InHand(c, k)' <=> InHand(c, k)
    BY DEF InHand, Entry
  <2> QED BY <2>1, <2>2 DEF Calm, UnwrittenToDo
<1> QED BY <1>1, <1>2, <1>3 DEF Calm

(* A step of a consumer that writes nothing: what it then holds it held,   *)
(* or is unacknowledged and with nobody, and it lets go of nothing that it *)
(* has written before it is acknowledged.                                  *)
LEMMA CalmByConsumer ==
  ASSUME Calm, IInv, NEW c \in Consumers, Alone(c),
         UNCHANGED <<row, batch, publishing, written>>,
         delivered' \in Nat, delivered <= delivered',
         held'[c] \subseteq 1 .. delivered',
         \A d \in Consumers \ {c} : held'[c] \intersect held[d] = {},
         held'[c] \subseteq held[c] \union Unacknowledged,
         Unacknowledged' \subseteq Unacknowledged,
         \A k : InHand(c, k) /\ (k \in Unacknowledged' \/ k \in held'[c]) => InHand(c, k)'
  PROVE  Calm'
<1>1. stream' = stream /\ \A d \in Consumers \ {c} : stage'[d] = stage[d] /\ held'[d] = held[d]
  BY DEF Alone, Unmoved
<1>2. OneEntryEach' /\ WrittenOnce' /\ EntriesAreMarked'
  BY <1>1 DEF Calm, OneEntryEach, WrittenOnce, InStream, EntriesAreMarked, MarkingRow
<1>3. HeldIsDelivered'
  <2>1. 1 .. delivered \subseteq 1 .. delivered'
    BY DEF IInv, TypeOK
  <2> QED BY <1>1, <2>1 DEF Calm, HeldIsDelivered
<1>4. HeldByOne'
  BY <1>1 DEF Calm, HeldByOne
<1>5. ASSUME NEW d \in Consumers \ {c}, NEW k, InHand(d, k) PROVE InHand(d, k)'
  BY <1>1, <1>5 DEF InHand, Entry
<1>6. ASSUME NEW k \in 1 .. Len(stream), ToDo(k)'
      PROVE  written[stream[k]] = 0 \/ \E d \in Consumers : InHand(d, k)'
  <2>1. ToDo(k)
    BY <1>1, <1>6 DEF ToDo
  <2>2. CASE written[stream[k]] = 0
    BY <2>2
  <2>3. CASE written[stream[k]] # 0
    <3>1. PICK d \in Consumers : InHand(d, k)
      BY <2>1, <2>3 DEF Calm, UnwrittenToDo
    <3>2. CASE d # c
      BY <1>5, <3>1, <3>2
    <3>3. CASE d = c
      <4>1. k \in held[c]
        BY <3>1, <3>3, EntryIsHeld DEF InHand, IInv
      <4>2. \A x \in Consumers \ {c} : k \notin held'[x]
        BY <1>1, <4>1 DEF Calm, HeldByOne
      <4>3. k \in Unacknowledged' \/ k \in held'[c]
        BY <1>6, <4>2 DEF ToDo
      <4> QED BY <3>1, <3>3, <4>3
    <3> QED BY <3>2, <3>3
  <2> QED BY <2>2, <2>3
<1>7. UnwrittenToDo'
  BY <1>1, <1>6 DEF UnwrittenToDo
<1> QED BY <1>2, <1>3, <1>4, <1>7 DEF Calm

(* Of what it holds no consumer has written anything unless it marks or    *)
(* acknowledges it.                                                        *)
LEMMA HeldIsUnwritten ==
  ASSUME Calm, IInv, NEW c \in Consumers, held[c] # {}, stage[c] \notin {"mark", "ack"}
  PROVE  written[EventOf(c)] = 0
<1> DEFINE k == Entry(c)
<1>1. k \in held[c] /\ k \in 1 .. Len(stream)
  BY EntryIsHeld DEF IInv
<1> HIDE DEF k
<1>2. ASSUME NEW d \in Consumers, InHand(d, k) PROVE FALSE
  <2>1. k \in held[d] /\ d # c
    BY <1>2, EntryIsHeld DEF IInv, InHand
  <2> QED BY <1>1, <2>1 DEF Calm, HeldByOne
<1>3. written[stream[k]] = 0
  BY <1>1, <1>2 DEF Calm, UnwrittenToDo, ToDo
<1> QED BY <1>3 DEF EventOf, k

LEMMA CalmByHandling ==
  ASSUME Calm, IInv, NEW c \in Consumers, NEW reply \in Replies, HandleMemoryEvent(c, reply),
         disturbed' = 0
  PROVE  Calm'
<1>1. /\ stage[c] = "handle" /\ stream' = stream /\ held' = held /\ delivered' = delivered
      /\ pending' = pending /\ UNCHANGED <<row, batch, publishing>>
      /\ stage' = [stage EXCEPT ![c] = IF Succeeds(reply) THEN "mark" ELSE "count"]
  BY DEF HandleMemoryEvent, GoTo, streamVars, outboxVars
<1>2. Alone(c) /\ held[c] # {} /\ c \in DOMAIN stage
  BY <1>1, ConsumersStepAlone DEF ConsumerStep, IInv, ConsumerInv, TypeOK
<1>3. Unacknowledged' = Unacknowledged
  BY <1>1 DEF Unacknowledged
<1>4. delivered \in Nat
  BY DEF IInv, TypeOK
<1>5. CASE EventOf(c) \in Poisoned
  <2>1. written' = written
    BY <1>5 DEF HandleMemoryEvent, TakesEffect
  <2>2. held'[c] \subseteq 1 .. delivered' /\ \A d \in Consumers \ {c} : held'[c] \intersect held[d] = {}
    BY <1>1 DEF Calm, HeldIsDelivered, HeldByOne
  <2>3. \A k : ~InHand(c, k)
    BY <1>1 DEF InHand
  <2> QED BY <1>1, <1>2, <1>3, <1>4, <2>1, <2>2, <2>3, CalmByConsumer
<1>6. CASE EventOf(c) \notin Poisoned
  <2>1. reply = "ok"
    BY <1>6, CalmCall DEF HandleMemoryEvent
  <2>2. EventOf(c) \in Events /\ Entry(c) \in 1 .. Len(stream) /\ Entry(c) \in held[c]
    BY <1>2, EntryIsHeld DEF IInv
  <2>3. PICK f \in Events : f = EventOf(c)
    BY <2>2
  <2>4. PICK j \in 1 .. Len(stream) : j = Entry(c)
    BY <2>2
  <2>5. stream[j] = f
    BY <2>3, <2>4 DEF EventOf
  <2>6. written \in [Events -> Nat] /\ written[f] = 0
    BY <1>1, <1>2, <2>3, HeldIsUnwritten DEF IInv, TypeOK
  <2>7. written' = [written EXCEPT ![f] = 1]
    BY <2>1, <2>3, <2>6 DEF HandleMemoryEvent, TakesEffect
  <2>8. stage'[c] = "mark" /\ \A d \in Consumers \ {c} : stage'[d] = stage[d]
    BY <1>1, <1>2, <2>1 DEF Succeeds
  <2>9. InHand(c, j)'
    BY <1>1, <1>2, <2>4, <2>8 DEF InHand, Entry
  <2>10. WrittenOnce'
    <3>1. \A e \in Events : written'[e] <= 1 /\ (written'[e] > 0 => InStream(e))
      BY <2>5, <2>6, <2>7 DEF Calm, WrittenOnce, InStream
    <3> QED BY <1>1, <3>1 DEF WrittenOnce, InStream
  <2>11. ASSUME NEW k \in 1 .. Len(stream), ToDo(k)'
         PROVE  written'[stream[k]] = 0 \/ \E d \in Consumers : InHand(d, k)'
    <3>1. CASE k = j
      BY <2>9, <3>1
    <3>2. CASE k # j
      <4>1. stream[k] # f /\ stream[k] \in Events
        BY <2>5, <3>2 DEF Calm, OneEntryEach, IInv, TypeOK
      <4>2. ToDo(k)
        BY <1>1, <1>3, <2>11 DEF ToDo
      <4>3. CASE written[stream[k]] = 0
        BY <2>6, <2>7, <4>1, <4>3
      <4>4. CASE written[stream[k]] # 0
        <5>1. PICK d \in Consumers : InHand(d, k)
          BY <4>2, <4>4 DEF Calm, UnwrittenToDo
        <5>2. d # c
          BY <1>1, <5>1 DEF InHand
        <5> QED BY <1>1, <2>8, <5>1, <5>2 DEF InHand, Entry
      <4> QED BY <4>3, <4>4
    <3> QED BY <3>1, <3>2
  <2>12. UnwrittenToDo'
    BY <1>1, <2>11 DEF UnwrittenToDo
  <2>13. OneEntryEach' /\ EntriesAreMarked' /\ HeldIsDelivered' /\ HeldByOne'
    BY <1>1 DEF Calm, OneEntryEach, EntriesAreMarked, MarkingRow, HeldIsDelivered, HeldByOne
  <2> QED BY <2>10, <2>12, <2>13 DEF Calm
<1> QED BY <1>5, <1>6
LEMMA CalmByClaiming ==
  ASSUME Calm, IInv, NEW c \in Consumers, ClaimStale(c), disturbed' = 0
  PROVE  Calm'
<1>1. /\ stage[c] = "poll" /\ stream' = stream /\ delivered' = delivered /\ pending' = pending
      /\ UNCHANGED <<row, batch, publishing, written>>
  BY DEF ClaimStale, streamVars, outboxVars, resultVars
<1>2. PICK idle \in (SUBSET pending) \ {{}} :
        /\ held' = [held EXCEPT ![c] = First(idle, ReadCount)]
        /\ Call(IF \E d \in Consumers : idle \intersect held[d] # {} THEN "slow" ELSE "ok")
  BY DEF ClaimStale
<1>3. \A d \in Consumers : idle \intersect held[d] = {}
  BY <1>2, CalmCall
<1>4. c \in DOMAIN held /\ delivered \in Nat /\ pending \subseteq 1 .. delivered
  <2>1. erased \in Nat /\ delivered \in Nat /\ pending \subseteq (erased + 1) .. delivered
    BY DEF IInv, TypeOK
  <2> QED BY <2>1 DEF IInv, TypeOK
<1>5. held'[c] \subseteq idle
  BY <1>2, <1>4 DEF First
<1>6. /\ held'[c] \subseteq 1 .. delivered'
      /\ held'[c] \subseteq held[c] \union Unacknowledged
      /\ \A d \in Consumers \ {c} : held'[c] \intersect held[d] = {}
  BY <1>1, <1>3, <1>4, <1>5 DEF Unacknowledged
<1>7. Unacknowledged' = Unacknowledged /\ \A k : ~InHand(c, k)
  BY <1>1 DEF Unacknowledged, InHand
<1>8. Alone(c)
  BY ConsumersStepAlone DEF ConsumerStep
<1>9. delivered' \in Nat /\ delivered <= delivered'
  BY <1>1, <1>4
<1> QED BY <1>1, <1>6, <1>7, <1>8, <1>9, CalmByConsumer

LEMMA CalmByReading ==
  ASSUME Calm, IInv, NEW c \in Consumers, NEW reply \in {"ok", "lost"}, ReadGroup(c, reply),
         disturbed' = 0
  PROVE  Calm'
<1> DEFINE new == First((delivered + 1) .. Len(stream), ReadCount)
<1>1. /\ stage[c] = "poll" /\ stream' = stream /\ pending' = pending \union new
      /\ delivered' = delivered + Cardinality(new) /\ delivered < Len(stream)
      /\ UNCHANGED <<row, batch, publishing, written>>
  BY DEF ReadGroup, outboxVars, resultVars
<1>2. reply = "ok"
  BY CalmCall DEF ReadGroup
<1>3. c \in DOMAIN held /\ delivered \in Nat /\ Len(stream) \in Nat
  BY DEF IInv, TypeOK
<1>4. held'[c] = new
  BY <1>2, <1>3 DEF ReadGroup
<1>5. /\ Cardinality(new) \in Nat /\ new = (delivered + 1) .. delivered'
  <2>1. ReadCount \in Nat \ {0}
    BY BusAssumption
  <2>2. /\ Cardinality(new) \in Nat \ {0}
        /\ new = (delivered + 1) .. (delivered + Cardinality(new))
    BY <1>1, <1>3, <2>1, FirstOfInterval
  <2> QED BY <1>1, <2>2
<1>6. new \subseteq (delivered + 1) .. Len(stream)
  BY DEF First
<1> HIDE DEF new
<1>7. delivered' \in Nat /\ delivered <= delivered'
  BY <1>1, <1>3, <1>5
<1>8. held'[c] \subseteq 1 .. delivered'
  BY <1>3, <1>4, <1>5, <1>7
<1>9. ASSUME NEW d \in Consumers \ {c} PROVE held'[c] \intersect held[d] = {}
  <2>1. held[d] \subseteq 1 .. delivered
    BY DEF Calm, HeldIsDelivered
  <2>2. \A k \in new : k > delivered
    BY <1>3, <1>5, <1>7
  <2>3. \A k \in 1 .. delivered : ~(k > delivered)
    BY <1>3
  <2> QED BY <1>4, <2>1, <2>2, <2>3
<1>10. held'[c] \subseteq held[c] \union Unacknowledged
  BY <1>4, <1>6 DEF Unacknowledged
<1>11. Unacknowledged' \subseteq Unacknowledged
  <2>1. (delivered' + 1) .. Len(stream) \subseteq (delivered + 1) .. Len(stream)
    BY <1>3, <1>7
  <2> QED BY <1>1, <1>6, <2>1 DEF Unacknowledged
<1>12. (\A k : ~InHand(c, k)) /\ Alone(c)
  BY <1>1, ConsumersStepAlone DEF InHand, ConsumerStep
<1> QED BY <1>1, <1>7, <1>8, <1>9, <1>10, <1>11, <1>12, CalmByConsumer

(* The steps in which a consumer keeps to the entries it has.              *)
LEMMA CalmByKeeping ==
  ASSUME Calm, IInv, NEW c \in Consumers, Alone(c), held'[c] \subseteq held[c],
         UNCHANGED <<row, batch, publishing, written, delivered>>, pending' \subseteq pending,
         \A k : InHand(c, k) /\ (k \in Unacknowledged' \/ k \in held'[c]) => InHand(c, k)'
  PROVE  Calm'
<1>1. Unacknowledged' \subseteq Unacknowledged
  BY DEF Unacknowledged, Alone
<1>2. delivered' \in Nat /\ delivered <= delivered'
  BY DEF IInv, TypeOK
<1>3. held'[c] \subseteq 1 .. delivered' /\ \A d \in Consumers \ {c} : held'[c] \intersect held[d] = {}
  BY DEF Calm, HeldIsDelivered, HeldByOne
<1> QED BY <1>1, <1>2, <1>3, CalmByConsumer

LEMMA CalmByAcknowledging ==
  ASSUME Calm, IInv, NEW c \in Consumers, NEW reply \in Replies, Ack(c, reply), disturbed' = 0
  PROVE  Calm'
<1>1. reply = "ok" /\ Alone(c) /\ c \in DOMAIN held
  BY CalmCall, ConsumersStepAlone DEF ConsumerStep, Ack, IInv, TypeOK
<1>2. /\ stage[c] = "ack" /\ pending' = pending \ {Entry(c)} /\ NextEntry(c) /\ stream' = stream
      /\ UNCHANGED <<row, batch, publishing, written, delivered>>
  BY <1>1 DEF Ack, Succeeds, TakesEffect, outboxVars, streamVars, resultVars
<1>3. held[c] # {}
  BY <1>2 DEF IInv, ConsumerInv
<1>4. held'[c] = held[c] \ {Entry(c)}
  BY <1>1, <1>2 DEF NextEntry
<1>5. Entry(c) \notin Unacknowledged'
  <2>1. delivered \in Nat /\ Entry(c) \in 1 .. delivered
    <3>1. TypeOK
      BY DEF IInv
    <3>2. Entry(c) \in held[c]
      BY <1>3, <3>1, EntryIsHeld
    <3>3. delivered \in Nat
      BY <3>1 DEF TypeOK
    <3> QED BY <3>2, <3>3 DEF Calm, HeldIsDelivered
  <2>2. Entry(c) \notin (delivered + 1) .. Len(stream)
    BY <2>1
  <2> QED BY <1>2, <2>2 DEF Unacknowledged
<1>6. \A k : InHand(c, k) => k = Entry(c)
  BY DEF InHand
<1> QED BY <1>1, <1>2, <1>4, <1>5, <1>6, CalmByKeeping

LEMMA CalmByConsumerStep ==
  ASSUME Calm, IInv, NEW c \in Consumers, ConsumerStep(c), disturbed' = 0
  PROVE  Calm'
<1>1. Alone(c) /\ c \in DOMAIN held /\ c \in DOMAIN stage
  BY ConsumersStepAlone DEF IInv, TypeOK
<1>2. ASSUME NEW reply \in Replies, EnsureGroup(c, reply) PROVE Calm'
  <2>1. /\ held' = held /\ pending' = pending /\ stage[c] = "start"
        /\ UNCHANGED <<row, batch, publishing, written, delivered>>
    BY <1>2 DEF EnsureGroup, GoTo, outboxVars, resultVars, IInv, StreamInv
  <2>2. \A k : ~InHand(c, k)
    BY <2>1 DEF InHand
  <2> QED BY <1>1, <2>1, <2>2, CalmByKeeping
<1>3. ASSUME NEW reply \in RepeatedReplies, CountFailure(c, reply) PROVE Calm'
  <2>1. /\ pending' = pending /\ stage[c] = "count"
        /\ UNCHANGED <<row, batch, publishing, written, delivered>>
    BY <1>3 DEF CountFailure, outboxVars, streamVars, resultVars
  <2>2. GoTo(c, "bury") \/ NextEntry(c) \/ AbortTick(c)
    BY <1>3 DEF CountFailure
  <2>3. held'[c] \subseteq held[c]
    BY <1>1, <2>2 DEF GoTo, NextEntry, AbortTick
  <2>4. \A k : ~InHand(c, k)
    BY <2>1 DEF InHand
  <2> QED BY <1>1, <2>1, <2>3, <2>4, CalmByKeeping
<1>4. ASSUME NEW reply \in Replies, MoveToDlq(c, reply) PROVE Calm'
  <2>1. /\ pending' = pending /\ stage[c] = "bury"
        /\ UNCHANGED <<row, batch, publishing, written, delivered>>
    BY <1>4 DEF MoveToDlq, outboxVars, streamVars
  <2>2. held'[c] \subseteq held[c]
    BY <1>1, <1>4 DEF MoveToDlq, Continue, GoTo, AbortTick
  <2>3. \A k : ~InHand(c, k)
    BY <2>1 DEF InHand
  <2> QED BY <1>1, <2>1, <2>2, <2>3, CalmByKeeping
<1>5. ASSUME NEW reply \in Replies, NEW cleared \in BOOLEAN, MarkProcessed(c, reply, cleared)
      PROVE  Calm'
  <2>1. Call(IF cleared THEN reply ELSE "refused")
    BY <1>5 DEF MarkProcessed
  <2>2. reply = "ok"
    BY <2>1, CalmCall
  <2>3. /\ pending' = pending
        /\ UNCHANGED <<row, batch, publishing, written, delivered>>
    BY <1>5 DEF MarkProcessed, outboxVars, streamVars, resultVars
  <2>4. held' = held /\ stage'[c] = "ack"
    BY <1>1, <1>5, <2>2 DEF MarkProcessed, Continue, Succeeds, GoTo
  <2>5. \A k : InHand(c, k) => InHand(c, k)'
    BY <2>4 DEF InHand, Entry
  <2> QED BY <1>1, <2>3, <2>4, <2>5, CalmByKeeping
<1> QED BY <1>2, <1>3, <1>4, <1>5, CalmByClaiming, CalmByReading, CalmByHandling,
           CalmByAcknowledging DEF ConsumerStep

LEMMA CalmByPublishing ==
  ASSUME Calm, IInv, NEW reply \in RepeatedReplies, Publish(reply), disturbed' = 0
  PROVE  Calm'
<1>1. reply = "ok" /\ batch # {} /\ publishing = "publish"
  BY CalmCall DEF Publish
<1>2. PICK b \in Events : b = Least(batch) /\ row[b] = "pending"
  BY <1>1, FirstRowIsAnEvent DEF IInv, OutboxInv
<1>3. /\ UNCHANGED <<row, batch, stage, held, written, delivered, pending>>
      /\ publishing' = "mark"
  BY <1>1 DEF Publish, Succeeds, resultVars
<1>4. /\ Len(stream) \in Nat /\ stream' \in Seq(Events)
      /\ \A k \in 1 .. Len(stream) : stream'[k] = stream[k]
      /\ \A k \in 1 .. Len(stream') : k > Len(stream) => stream'[k] = b
  BY <1>2, PublishAppends DEF IInv
<1>5. Len(stream') = Len(stream) + 1
  <2> DEFINE new == [i \in 1 .. 1 |-> b]
  <2>1. stream' = stream \o new /\ stream \in Seq(Events)
    BY <1>1, <1>2 DEF Publish, Times, IInv, TypeOK
  <2>2. new \in Seq(Events) /\ Len(new) = 1
    OBVIOUS
  <2> HIDE DEF new
  <2>3. stream \in Seq(Events) /\ new \in Seq(Events)
    BY <2>1, <2>2
  <2>4. Len(stream \o new) = Len(stream) + Len(new)
    BY <2>3
  <2> QED BY <2>1, <2>2, <2>4
<1> DEFINE n == Len(stream) + 1
<1>6. stream'[n] = b /\ \A k \in 1 .. Len(stream') : k = n \/ k \in 1 .. Len(stream)
  BY <1>4, <1>5
<1>7. \A k \in 1 .. Len(stream) : row[stream[k]] = "published"
  BY <1>1 DEF Calm, EntriesAreMarked, MarkingRow
<1>8. \A k \in 1 .. Len(stream) : stream[k] # b
  BY <1>2, <1>7
<1>9. written[b] = 0
  <2>1. ~InStream(b) /\ written[b] \in Nat
    BY <1>8 DEF InStream, IInv, TypeOK
  <2> QED BY <2>1 DEF Calm, WrittenOnce
<1>10. OneEntryEach'
  <2>1. ASSUME NEW j \in 1 .. Len(stream'), NEW k \in 1 .. Len(stream'), stream'[j] = stream'[k]
        PROVE  j = k
    <3>1. CASE j \in 1 .. Len(stream) /\ k \in 1 .. Len(stream)
      BY <1>4, <2>1, <3>1 DEF Calm, OneEntryEach
    <3>2. CASE j = n /\ k \in 1 .. Len(stream)
      BY <1>4, <1>6, <1>8, <2>1, <3>2
    <3>3. CASE j \in 1 .. Len(stream) /\ k = n
      BY <1>4, <1>6, <1>8, <2>1, <3>3
    <3> QED BY <1>6, <3>1, <3>2, <3>3
  <2> QED BY <2>1 DEF OneEntryEach
<1> HIDE DEF n
<1>11. EntriesAreMarked'
  <2>1. ASSUME NEW k \in 1 .. Len(stream')
        PROVE  row'[stream'[k]] = "published" \/ (batch' # {} /\ publishing' = "mark" /\ stream'[k] = Least(batch'))
    BY <1>1, <1>2, <1>3, <1>4, <1>6, <1>7
  <2> QED BY <2>1 DEF EntriesAreMarked, MarkingRow, Least
<1>12. HeldIsDelivered' /\ HeldByOne'
  BY <1>3 DEF Calm, HeldIsDelivered, HeldByOne
<1>13. WrittenOnce'
  <2>1. \A e : InStream(e) => InStream(e)'
    BY <1>4, <1>5 DEF InStream
  <2> QED BY <1>3, <2>1 DEF Calm, WrittenOnce
<1>14. ASSUME NEW k \in 1 .. Len(stream'), ToDo(k)'
       PROVE  written'[stream'[k]] = 0 \/ \E c \in Consumers : InHand(c, k)'
  <2>1. CASE k = n
    BY <1>3, <1>6, <1>9, <2>1
  <2>2. CASE k \in 1 .. Len(stream)
    <3>1. ToDo(k)
      <4>1. delivered \in Nat
        BY DEF IInv, TypeOK
      <4>2. k \in (delivered + 1) .. Len(stream') => k \in (delivered + 1) .. Len(stream)
        BY <1>4, <1>5, <2>2, <4>1
      <4> QED BY <1>3, <1>14, <4>2 DEF ToDo, Unacknowledged
    <3>2. \A c \in Consumers : InHand(c, k) => InHand(c, k)'
      BY <1>3 DEF InHand, Entry
    <3> QED BY <1>3, <1>4, <2>2, <3>1, <3>2 DEF Calm, UnwrittenToDo
  <2> QED BY <1>6, <2>1, <2>2
<1>15. UnwrittenToDo'
  BY <1>14 DEF UnwrittenToDo
<1> QED BY <1>10, <1>11, <1>12, <1>13, <1>15 DEF Calm

LEMMA CalmNext == IInv /\ CalmInv /\ [Next]_vars => CalmInv'
<1> SUFFICES ASSUME IInv, CalmInv, [Next]_vars, disturbed' = 0 PROVE Calm'
  BY DEF CalmInv
<1>1. disturbed \in Nat /\ delivered \in Nat /\ Len(stream) \in Nat /\ delivered <= Len(stream)
  BY BusAssumption DEF IInv, TypeOK
<1>2. Calm
  <2>1. disturbed <= disturbed'
    <3>1. \A reply : Call(reply) => disturbed <= disturbed'
      BY CallCounts
    <3>2. UNCHANGED disturbed \/ Disturb \/ \E reply : Call(reply)
      BY DEF Next, Enqueue, PublisherStep, FetchPending, Publish, Record, ConsumerStep, ClaimStale,
             EnsureGroup, HandleMemoryEvent, MoveToDlq, MarkProcessed, Ack, ReadGroup, CountFailure,
             Restart, Flush, Rest, vars
    <3> QED BY <1>1, <3>1, <3>2 DEF Disturb
  <2> QED BY <1>1, <2>1 DEF CalmInv
<1>3. \A k \in 1 .. Len(stream) : row[stream[k]] # "none" /\ stream[k] \in Events
  BY DEF IInv, StreamInv, TypeOK
<1>4. ASSUME UNCHANGED <<stage, held, stream, written, delivered, pending>>, EntriesAreMarked'
      PROVE  Calm'
  <2>1. Unacknowledged' = Unacknowledged /\ delivered' \in Nat /\ delivered <= delivered' /\ TypeOK
    BY <1>1, <1>4 DEF Unacknowledged, IInv
  <2> QED BY <1>2, <1>4, <2>1, CalmByOther
<1>5. ASSUME NEW e \in Events, Enqueue(e) PROVE Calm'
  <2>1. row' = [row EXCEPT ![e] = "pending"] /\ row[e] = "none" /\ UNCHANGED <<batch, publishing, stream>>
    BY <1>5 DEF Enqueue, streamVars
  <2>2. \A k \in 1 .. Len(stream) : row'[stream[k]] = row[stream[k]]
    BY <1>3, <2>1
  <2>3. EntriesAreMarked'
    BY <1>2, <2>1, <2>2 DEF Calm, EntriesAreMarked, MarkingRow
  <2> QED BY <1>4, <1>5, <2>3 DEF Enqueue, streamVars, resultVars
<1>6. CASE FetchPending
  <2>1. EntriesAreMarked'
    BY <1>2, <1>6 DEF FetchPending, streamVars, Calm, EntriesAreMarked, MarkingRow
  <2> QED BY <1>4, <1>6, <2>1 DEF FetchPending, streamVars, resultVars
<1>7. ASSUME NEW reply \in Replies, Record(reply) PROVE Calm'
  <2>1. reply = "ok"
    BY <1>7, CalmCall DEF Record
  <2>2. /\ batch # {} /\ publishing \in {"mark", "record"} /\ stream' = stream
        /\ row' = IF publishing = "mark" THEN [row EXCEPT ![Least(batch)] = "published"] ELSE row
    BY <1>7, <2>1 DEF Record, TakesEffect, streamVars
  <2>3. row \in [Events -> {"none", "pending", "published"}]
    BY DEF IInv, TypeOK
  <2>4. \A k \in 1 .. Len(stream) : row'[stream[k]] = "published"
    BY <1>2, <1>3, <2>2, <2>3 DEF Calm, EntriesAreMarked, MarkingRow
  <2>5. EntriesAreMarked'
    BY <2>2, <2>4 DEF EntriesAreMarked
  <2> QED BY <1>4, <1>7, <2>5 DEF Record, streamVars, resultVars
<1>8. CASE Restart
  BY <1>1, <1>8 DEF Restart, Disturb
<1>9. CASE Flush
  <2>1. /\ UNCHANGED <<row, batch, publishing, stage, held, stream, written>>
        /\ pending' = {} /\ delivered' = Len(stream)
    BY <1>9 DEF Flush, outboxVars, resultVars
  <2>2. Unacknowledged' = {}
    BY <1>1, <2>1 DEF Unacknowledged
  <2>3. EntriesAreMarked'
    BY <1>2, <2>1 DEF Calm, EntriesAreMarked, MarkingRow
  <2>4. delivered' \in Nat /\ delivered <= delivered' /\ TypeOK
    BY <1>1, <2>1 DEF IInv
  <2> QED BY <1>2, <2>1, <2>2, <2>3, <2>4, CalmByOther
<1>10. CASE Rest \/ UNCHANGED vars
  <2>1. UNCHANGED vars
    BY <1>10 DEF Rest
  <2>2. EntriesAreMarked'
    BY <1>2, <2>1 DEF vars, outboxVars, streamVars, Calm, EntriesAreMarked, MarkingRow
  <2> QED BY <1>4, <2>1, <2>2 DEF vars, streamVars, resultVars
<1>11. ASSUME NEW c \in Consumers, ConsumerStep(c) PROVE Calm'
  BY <1>2, <1>11, CalmByConsumerStep
<1>12. ASSUME NEW reply \in RepeatedReplies, Publish(reply) PROVE Calm'
  BY <1>2, <1>12, CalmByPublishing
<1> QED BY <1>5, <1>6, <1>7, <1>8, <1>9, <1>10, <1>11, <1>12 DEF Next, PublisherStep

LEMMA CalmInit == Init => CalmInv
BY DEF Init, CalmInv, Calm, OneEntryEach, EntriesAreMarked, HeldIsDelivered, HeldByOne,
       WrittenOnce, UnwrittenToDo

(* Duplicates have a cause: as long as no call fails or repeats, nobody is *)
(* slow and nothing restarts, the polling publisher and the consumers of   *)
(* the group write each event once at most, flushes notwithstanding.       *)
THEOREM CalmBusWritesOnce == Spec => []OnceWhenCalm
<1>1. CalmInv => OnceWhenCalm
  BY DEF CalmInv, Calm, WrittenOnce, OnceWhenCalm
<1>2. Spec => []CalmInv
  BY InvariantHolds, CalmInit, CalmNext, PTL DEF Spec
<1> QED BY <1>1, <1>2, PTL

=============================================================================
