----------------------- MODULE InboundPipeline_proofs -----------------------
(***************************************************************************)
(* Theorems about InboundPipeline, for every number of events, handlers,   *)
(* permits, chunks and disturbances, every capacity of the queue and of    *)
(* the hot history, and every assignment of events to conversations.       *)
(***************************************************************************)
EXTENDS InboundPipeline, OrderLemmas

-----------------------------------------------------------------------------
(* What makes the properties inductive.                                    *)

(* Where an event is.                                                      *)
AtHand(h, e) == handler[h].step = "enqueue" /\ handler[h].event = e
InQueue(e)   == \E i \in 1..Len(queue) : queue[i] = e
Said(e, k)   == \E i \in 1..Len(chat[ConversationOf[e]]) : chat[ConversationOf[e]][i] = <<e, k>>
Answered(e)  == reply[e] # Undecided /\ \A k \in 1..reply[e] : Said(e, k)

Busy     == {e \in Event : job[e] # "none"}
Counting == {h \in Handler : handler[h].step = "count"}

(* A permit is free or held by a job.                                      *)
PermitInv == permits + Cardinality(Busy) = MaxParallel

(* What a handler works on has its row.                                    *)
HandlerInv ==
  \A h \in Handler : handler[h].step # "idle" =>
    handler[h].event \in Event /\ inbound[handler[h].event] # "none"

(* An event is in one place at a time.                                     *)
PlaceInv ==
  /\ \A h, g \in Handler : \A e \in Event : AtHand(h, e) /\ AtHand(g, e) => h = g
  /\ \A i, j \in 1..Len(queue) : queue[i] = queue[j] => i = j
  /\ \A h \in Handler : \A e \in Event :
       AtHand(h, e) => ~InQueue(e) /\ worker # e /\ job[e] = "none"
  /\ \A e \in Event : InQueue(e) => worker # e /\ job[e] = "none"
  /\ \A e \in Event : worker = e => job[e] = "none"

(* The row of the deduplication is what tells an event that has been       *)
(* worked on from one that still waits.                                    *)
DedupeInv ==
  \A e \in Event :
    /\ e \in deduped => /\ inbound[e] # "none"
                        /\ \A h \in Handler : ~AtHand(h, e)
                        /\ ~InQueue(e) /\ worker # e
                        /\ job[e] \notin {"gate", "dedupe"}
    /\ e \notin deduped => /\ inbound[e] # "processed" /\ finalizer[e] = "none"
                           /\ job[e] \in {"none", "gate", "dedupe"}
    /\ job[e] # "none" => inbound[e] = "received" /\ finalizer[e] = "none"
    /\ inbound[e] = "none" => ~InQueue(e) /\ worker # e

(* One job at a time is inside the gate of a conversation.                 *)
GateInv ==
  \A e, f \in Event : Inside(e) /\ Inside(f) /\ ConversationOf[e] = ConversationOf[f] => e = f

(* What a chat holds of an event, by the stage of its job.                 *)
ChatInv ==
  \A c \in Conversation :
    /\ \A i \in 1..Len(chat[c]) : /\ chat[c][i][1] \in deduped
                                  /\ ConversationOf[chat[c][i][1]] = c
    /\ \A e \in Event : job[e] \in {"decide", "abort"} =>
         \A i \in 1..Len(chat[c]) : chat[c][i][1] # e

SendInv ==
  \A e \in Event :
    /\ job[e] = "send" =>
         LET c == ConversationOf[e] IN
         /\ sent_chunks[e] < reply[e]
         /\ \A i \in 1..Len(chat[c]) : chat[c][i][1] = e => chat[c][i][2] <= sent_chunks[e]
         /\ \A k \in 1..sent_chunks[e] : Said(e, k)
         /\ sent_chunks[e] > 0 =>
              Len(chat[c]) > 0 /\ chat[c][Len(chat[c])] = <<e, sent_chunks[e]>>
    /\ job[e] \in {"abort", "close"} => reply[e] = 0

AnswerInv ==
  \A e \in Event :
    \/ job[e] \in {"user_turn", "assistant_turn"}
    \/ finalizer[e] # "none"
    \/ inbound[e] = "processed"
    => Answered(e)

(* The last hot turn is a user's just while its answer is being published. *)
HotInv ==
  \A c \in Conversation :
    /\ \A e \in Event : job[e] = "assistant_turn" /\ ConversationOf[e] = c =>
         Len(hot_turns[c]) > 0 /\ hot_turns[c][Len(hot_turns[c])] = <<e, "user">>
    /\ Len(hot_turns[c]) > 0 /\ hot_turns[c][Len(hot_turns[c])][2] = "user" =>
         /\ job[hot_turns[c][Len(hot_turns[c])][1]] = "assistant_turn"
         /\ ConversationOf[hot_turns[c][Len(hot_turns[c])][1]] = c

(* The turns of the hot history are on their way to the store.             *)
Underway(e) ==
  \/ job[e] = "assistant_turn"
  \/ finalizer[e] \in {"mark", "rows", "user_turn"}
  \/ finalizer[e] = "assistant_turn" /\ <<e, "user">> \in turns
  \/ <<e, "user">> \in turns /\ <<e, "assistant">> \in turns

StoredInv ==
  disturbed["store"] = 0 =>
    \A c \in Conversation : \A i \in 1..Len(hot_turns[c]) : Underway(hot_turns[c][i][1])

(* What the polling loop has passed by, and what Telegram has forgotten,   *)
(* has a row.                                                              *)
ConfirmInv ==
  /\ mode = "webhook" => \A e \in 1..arrived : e \notin open => inbound[e] # "none"
  /\ mode = "polling" /\ disturbed["store"] = 0 =>
       \A e \in 1..arrived : e \notin open \/ e <= cursor => inbound[e] # "none"

IInv ==
  /\ TypeOK /\ PermitInv /\ HandlerInv /\ PlaceInv /\ DedupeInv /\ GateInv
  /\ ChatInv /\ SendInv /\ AnswerInv /\ ConfirmInv /\ HotInv /\ StoredInv
  /\ RepliesAreWhole /\ HotTurnsAlternate /\ DepthIsExact

-----------------------------------------------------------------------------
(* The first and the last update of a batch.                               *)
LEMMA BatchEnds ==
  ASSUME NEW n \in Nat, NEW S \in SUBSET (1 .. n), S # {}
  PROVE  /\ SetMin(S) \in S /\ \A y \in S : SetMin(S) <= y
         /\ SetMax(S) \in S /\ \A y \in S : y <= SetMax(S)
<1>1. IsFiniteSet(S)
  <2>1. IsFiniteSet(1 .. n)
    BY FS_Interval
  <2> QED BY <2>1, FS_Subset
<1>2. S \in SUBSET Int
  OBVIOUS
<1>3. \E x \in S : \A y \in S : x <= y
  BY <1>1, <1>2, LeastElement
<1>4. \E x \in S : \A y \in S : y <= x
  BY <1>1, <1>2, GreatestElement
<1>5. \E x \in S : \A y \in S : x >= y
  BY <1>2, <1>4
<1>6. SetMin(S) \in S /\ \A y \in S : SetMin(S) <= y
  BY <1>3 DEF SetMin
<1>7. SetMax(S) \in S /\ \A y \in S : SetMax(S) >= y
  BY <1>5 DEF SetMax
<1> QED BY <1>2, <1>6, <1>7

(* What the hot history keeps of a longer one is its end.                  *)
LEMMA LastOfIsEnd ==
  ASSUME NEW S, NEW s \in Seq(S), NEW n \in Nat \ {0}, Len(s) > 0
  PROVE  LET t == LastOf(s, n)  d == Len(s) - Len(t) IN
         /\ t \in Seq(S) /\ Len(t) \in 1 .. Len(s)
         /\ \A i \in 1 .. Len(t) : t[i] = s[i + d]
<1>1. CASE Len(s) <= n
  <2>1. LastOf(s, n) = s
    BY <1>1 DEF LastOf
  <2> QED BY <2>1
<1>2. CASE Len(s) > n
  <2> DEFINE m == Len(s) - n + 1
             t == SubSeq(s, m, Len(s))
  <2>1. LastOf(s, n) = t
    BY <1>2 DEF LastOf
  <2>2. m \in 1 .. Len(s) /\ Len(s) \in Nat
    BY <1>2
  <2>3. t = [i \in 1 .. n |-> s[i + m - 1]]
    BY <2>2
  <2>4. \A i \in 1 .. n : s[i + m - 1] \in S
    BY <2>2
  <2>5. t \in Seq(S) /\ Len(t) = n
    BY <2>2, <2>3, <2>4
  <2>6. \A i \in 1 .. n : t[i] = s[i + (Len(s) - n)]
    BY <2>2, <2>3
  <2> HIDE DEF t, m
  <2> QED BY <1>2, <2>1, <2>5, <2>6
<1> QED BY <1>1, <1>2

-----------------------------------------------------------------------------
(* What steps of one part leave alone of the others.                       *)
LEMMA StutterFrame ==
  ASSUME Control \/ Rest \/ UNCHANGED vars
  PROVE  /\ UNCHANGED <<mode, arrived, open, offset, cursor, handler, deliveries, inbound,
                        queue, queue_depth, worker, permits, job, reply, sent_chunks,
                        finalizer, deduped, outbound, turns, hot_turns, chat>>
         /\ UNCHANGED disturbed \/ Disturb("control")
BY DEF Control, Rest, vars, ingestVars, turnVars, jobVars, tableVars, controlVars

(* What the steps of the ingest leave alone,                               *)
LEMMA IngestFrame ==
  ASSUME IngestStep
  PROVE  UNCHANGED <<paused, kill_switch, worker, permits, job, reply, sent_chunks,
                     finalizer, deduped, outbound, turns, hot_turns, chat>>
BY DEF IngestStep, turnVars, jobVars, tableVars, controlVars

(* those of the jobs,                                                      *)
LEMMA JobFrames ==
  ASSUME NEW e \in Event, JobStep(e)
  PROVE  /\ UNCHANGED <<mode, arrived, open, offset, cursor, handler, deliveries, queue,
                        queue_depth, paused, kill_switch, worker, outbound>>
         /\ \/ UNCHANGED permits /\ \E stage \in JobStage \ {"none", "gate"} :
                                      job' = [job EXCEPT ![e] = stage]
            \/ permits' = permits + 1 /\ job' = [job EXCEPT ![e] = "none"]
         /\ job[e] # "none"
         /\ UNCHANGED disturbed \/ Disturb("store") \/ Disturb("channel")
BY DEF JobStep, JobFrame, ingestVars, controlVars, tableVars, Goto, EndJob, JobStage,
       EnterGate, Dedupe, StoreError, StoreFault, DecideReply, DecideIgnore, DecideAbort,
       SendAbort, ChannelFault, Close, SendChunk, AfterChunk, SendError,
       PublishUserTurn, PublishAssistantTurn

(* and those of the finalizers.                                            *)
LEMMA FinalizerFrames ==
  ASSUME NEW e \in Event, FinalizerStep(e)
  PROVE  /\ UNCHANGED <<mode, arrived, open, offset, cursor, handler, deliveries, queue,
                        queue_depth, paused, kill_switch, worker, permits, job, reply,
                        sent_chunks, deduped, hot_turns, chat>>
         /\ finalizer[e] # "none"
         /\ \E stage \in FinalizerStage : finalizer' = [finalizer EXCEPT ![e] = stage]
         /\ UNCHANGED inbound \/ inbound' = [inbound EXCEPT ![e] = "processed"]
         /\ UNCHANGED disturbed \/ Disturb("store")
         /\ turns \subseteq turns'
BY DEF FinalizerStep, FinalizeMark, FinalizeRows, FinalizeTurn, FinalizerAt, StoreFault,
       ingestVars, controlVars, FinalizerStage

(* Every step keeps the types: the disturbances,                           *)
LEMMA DisturbType ==
  ASSUME disturbed \in [Disturbance -> 0 .. MaxDisturbances],
         NEW kind \in Disturbance, UNCHANGED disturbed \/ Disturb(kind)
  PROVE  /\ disturbed' \in [Disturbance -> 0 .. MaxDisturbances]
         /\ disturbed'["store"] = 0 => disturbed["store"] = 0 /\ (kind = "store" => UNCHANGED disturbed)
<1>1. MaxDisturbances \in Nat
  BY IngestAssumption
<1>2. \A k \in Disturbance : disturbed[k] \in 0 .. MaxDisturbances
  OBVIOUS
<1>3. CASE Disturb(kind)
  <2>1. disturbed' = [disturbed EXCEPT ![kind] = disturbed[kind] + 1]
    BY <1>3 DEF Disturb
  <2>2. disturbed["store"] + disturbed["channel"] + disturbed["control"]
          + disturbed["restart"] < MaxDisturbances
    BY <1>3 DEF Disturb
  <2>3. disturbed[kind] < MaxDisturbances
    BY <1>1, <1>2, <2>2 DEF Disturbance
  <2>4. disturbed[kind] + 1 \in 0 .. MaxDisturbances
    BY <1>1, <1>2, <2>3
  <2> QED BY <1>2, <2>1, <2>4 DEF Disturbance
<1> QED BY <1>3 DEF Disturbance

-----------------------------------------------------------------------------
(* The type invariant, by the parts of the system that move.               *)
LEMMA InitType == Init => TypeOK
<1> SUFFICES ASSUME Init PROVE TypeOK
  OBVIOUS
<1> USE IngestAssumption, PipelineAssumption
<1>1. IngestTypeOK
  BY DEF Init, IngestInit, IngestTypeOK, Event, Idle, NoEvent
<1>2. /\ paused \in BOOLEAN /\ kill_switch \in BOOLEAN
      /\ worker \in Event \cup {NoEvent}
  BY DEF Init
<1>6. permits \in 0 .. MaxParallel
  BY DEF Init
<1>3. /\ job \in [Event -> JobStage] /\ finalizer \in [Event -> FinalizerStage]
      /\ reply \in [Event -> Undecided .. MaxChunks]
      /\ sent_chunks \in [Event -> 0 .. MaxChunks]
      /\ outbound \in [Event -> 0 .. MaxChunks]
  BY DEF Init, JobStage, FinalizerStage, Undecided
<1>4. deduped \subseteq Event /\ turns \subseteq Event \X {"user", "assistant"}
  BY DEF Init
<1>5. /\ hot_turns \in [Conversation -> Seq(Event \X {"user", "assistant"})]
      /\ chat \in [Conversation -> Seq(Event \X (0 .. MaxChunks))]
  <2>1. <<>> \in Seq(Event \X {"user", "assistant"}) /\ <<>> \in Seq(Event \X (0 .. MaxChunks))
    OBVIOUS
  <2> QED BY <2>1 DEF Init
<1> QED BY <1>1, <1>2, <1>6, <1>3, <1>4, <1>5 DEF TypeOK

(* taking up an update,                                                    *)
LEMMA TakeUpType ==
  ASSUME IngestTypeOK, NEW h \in Handler, NEW e \in Event, TakeUp(h, e)
  PROVE  /\ cursor' \in 0 .. offset
         /\ e \in 1 .. arrived
         /\ mode = "polling" => cursor < offset /\ e = cursor + 1 /\ cursor' = e
         /\ mode = "webhook" => e \in open /\ cursor' = cursor
BY IngestAssumption DEF IngestTypeOK, TakeUp, Event

(* counting its deliveries,                                                *)
LEMMA CountDeliveryType ==
  ASSUME IngestTypeOK, CountDelivery
  PROVE  deliveries' \in 0 .. MaxDeliveries
BY IngestAssumption DEF IngestTypeOK, CountDelivery

(* acknowledging it,                                                       *)
LEMMA AcknowledgeType ==
  ASSUME IngestTypeOK, NEW e \in Event, Acknowledge(e)
  PROVE  /\ open' \subseteq open /\ (\A f \in open : f # e => f \in open')
         /\ mode = "polling" => open' = open
         /\ disturbed' \in [Disturbance -> 0 .. MaxDisturbances]
         /\ disturbed'["store"] = 0 => disturbed["store"] = 0
<1>1. UNCHANGED disturbed \/ Disturb("channel")
  BY DEF Acknowledge, ChannelFault
<1>2. disturbed \in [Disturbance -> 0 .. MaxDisturbances] /\ "channel" \in Disturbance
  BY DEF IngestTypeOK, Disturbance
<1>3. open' = open \/ open' = open \ {e}
  BY DEF Acknowledge
<1>4. mode = "polling" => open' = open
  BY DEF Acknowledge
<1> QED BY <1>1, <1>2, <1>3, <1>4, DisturbType

(* polling,                                                                *)
LEMMA PollType ==
  ASSUME IngestTypeOK, Poll
  PROVE  /\ open' = {e \in open : e > offset}
         /\ offset' \in 0 .. arrived /\ cursor' \in 0 .. offset'
         /\ \A e \in 1 .. arrived : e <= cursor' => e <= cursor \/ e \notin open'
         /\ disturbed' \in [Disturbance -> 0 .. MaxDisturbances]
         /\ disturbed'["store"] = 0 => disturbed["store"] = 0
         /\ UNCHANGED <<mode, arrived, handler, deliveries, inbound, queue, queue_depth>>
         /\ mode = "polling" /\ cursor = offset
<1> DEFINE left == {e \in open : e > offset}
<1>0. /\ arrived \in Nat /\ arrived <= MaxEvents
      /\ open \subseteq 1 .. arrived
      /\ offset \in 0 .. arrived /\ cursor \in 0 .. offset
  BY IngestAssumption DEF IngestTypeOK
<1>1. /\ open' = left /\ cursor = offset /\ mode = "polling"
      /\ UNCHANGED <<mode, arrived, handler, deliveries, inbound, queue, queue_depth>>
  BY DEF Poll
<1>2. \/ left # {} /\ cursor' = SetMin(left) - 1 /\ offset' = SetMax(left)
      \/ cursor' = cursor /\ offset' = offset
  BY DEF Poll
<1>3. /\ offset' \in 0 .. arrived /\ cursor' \in 0 .. offset'
      /\ \A e \in 1 .. arrived : e <= cursor' => e <= cursor \/ e \notin left
  <2>1. left \in SUBSET (1 .. arrived)
    BY <1>0
  <2>2. CASE left # {} /\ cursor' = SetMin(left) - 1 /\ offset' = SetMax(left)
    <3>1. /\ SetMin(left) \in left /\ \A y \in left : SetMin(left) <= y
          /\ SetMax(left) \in left /\ \A y \in left : y <= SetMax(left)
      <4> HIDE DEF left
      <4> QED BY <1>0, <2>1, <2>2, BatchEnds
    <3> DEFINE lo == SetMin(left)
               hi == SetMax(left)
    <3>2. lo \in left /\ hi \in left /\ lo <= hi /\ \A y \in left : lo <= y
      BY <3>1
    <3> HIDE DEF lo, hi
    <3>3. cursor' = lo - 1 /\ offset' = hi
      BY <2>2 DEF lo, hi
    <3>4. lo \in 1 .. arrived /\ hi \in 1 .. arrived
      BY <2>1, <3>2
    <3> QED BY <1>0, <3>2, <3>3, <3>4
  <2>3. CASE cursor' = cursor /\ offset' = offset
    BY <1>0, <2>3
  <2> QED BY <1>2, <2>2, <2>3
<1>4. UNCHANGED disturbed \/ Disturb("channel")
  BY DEF Poll, ChannelFault
<1>5. disturbed \in [Disturbance -> 0 .. MaxDisturbances] /\ "channel" \in Disturbance
  BY DEF IngestTypeOK, Disturbance
<1> QED BY <1>1, <1>3, <1>4, <1>5, DisturbType

(* What the insert of a handler, whatever comes of it, leaves alone.       *)
LEMMA InsertFrames ==
  ASSUME IngestTypeOK, NEW h \in Handler, NEW e \in Event,
         Insert(h, e) \/ InsertDuplicate(h, e) \/ InsertFails(h, e)
  PROVE  /\ TakeUp(h, e)
         /\ UNCHANGED <<mode, arrived, offset, queue, queue_depth>>
         /\ \/ UNCHANGED inbound
            \/ inbound[e] = "none" /\ inbound' = [inbound EXCEPT ![e] = "received"]
         /\ \/ UNCHANGED handler
            \/ inbound[e] = "none" /\ inbound' = [inbound EXCEPT ![e] = "received"]
               /\ handler' = [handler EXCEPT ![h] = [step |-> "enqueue", event |-> e]]
         /\ \/ disturbed'["store"] > 0
            \/ inbound'[e] # "none"
         /\ \/ UNCHANGED open
            \/ inbound'[e] # "none" /\ Acknowledge(e)
         /\ deliveries' \in 0 .. MaxDeliveries
         /\ disturbed' \in [Disturbance -> 0 .. MaxDisturbances]
         /\ disturbed'["store"] = 0 => disturbed["store"] = 0
<1>0. /\ disturbed \in [Disturbance -> 0 .. MaxDisturbances]
      /\ inbound \in [Event -> {"none", "received", "processed"}]
      /\ "channel" \in Disturbance /\ "store" \in Disturbance
      /\ deliveries \in 0 .. MaxDeliveries
  BY DEF IngestTypeOK, Disturbance
<1>1. CASE Insert(h, e)
  <2>1. /\ TakeUp(h, e) /\ inbound[e] = "none"
        /\ inbound' = [inbound EXCEPT ![e] = "received"]
        /\ handler' = [handler EXCEPT ![h] = [step |-> "enqueue", event |-> e]]
        /\ UNCHANGED <<mode, arrived, open, offset, deliveries, queue, queue_depth, disturbed>>
    BY <1>1 DEF Insert
  <2>2. inbound'[e] # "none"
    BY <1>0, <2>1
  <2> QED BY <1>0, <2>1, <2>2
<1>2. CASE InsertDuplicate(h, e)
  <2>1. /\ TakeUp(h, e) /\ inbound[e] # "none" /\ CountDelivery /\ Acknowledge(e)
        /\ UNCHANGED <<mode, arrived, offset, handler, inbound, queue, queue_depth>>
    BY <1>2 DEF InsertDuplicate
  <2>2. /\ disturbed' \in [Disturbance -> 0 .. MaxDisturbances]
        /\ disturbed'["store"] = 0 => disturbed["store"] = 0
        /\ deliveries' \in 0 .. MaxDeliveries
    BY <2>1, CountDeliveryType, AcknowledgeType
  <2>3. inbound'[e] # "none"
    BY <2>1
  <2> QED BY <2>1, <2>2, <2>3
<1>3. CASE InsertFails(h, e)
  <2>1. /\ TakeUp(h, e)
        /\ UNCHANGED <<mode, arrived, open, offset, handler, deliveries, queue, queue_depth>>
        /\ \/ UNCHANGED inbound
           \/ inbound[e] = "none" /\ inbound' = [inbound EXCEPT ![e] = "received"]
        /\ Disturb("store")
    BY <1>3 DEF InsertFails, StoreFault
  <2>2. disturbed'["store"] = disturbed["store"] + 1 /\ disturbed["store"] \in Nat
    BY <1>0, <2>1 DEF Disturb
  <2>3. disturbed'["store"] > 0
    BY <2>2
  <2>4. disturbed' \in [Disturbance -> 0 .. MaxDisturbances]
    BY <1>0, <2>1, DisturbType
  <2> QED BY <1>0, <2>1, <2>3, <2>4
<1> QED BY <1>1, <1>2, <1>3

(* the ingest as a whole,                                                  *)
LEMMA IngestType ==
  ASSUME TypeOK, HandlerInv, IngestStep
  PROVE  IngestTypeOK'
<1> USE IngestAssumption DEF IngestTypeOK
<1>0. IngestTypeOK
  BY DEF TypeOK
<1>1. CASE Arrive
  <2>1. /\ arrived' = arrived + 1 /\ arrived' \in 0 .. MaxEvents
        /\ open' = open \cup {arrived'}
        /\ UNCHANGED <<mode, offset, cursor, handler, deliveries, inbound, queue,
                       queue_depth, disturbed>>
    BY <1>0, <1>1 DEF Arrive
  <2>2. open' \subseteq 1 .. arrived' /\ offset' \in 0 .. arrived' /\ cursor' \in 0 .. offset'
    BY <1>0, <2>1
  <2> QED BY <1>0, <2>1, <2>2
<1>2. CASE Poll
  <2>1. open' \subseteq 1 .. arrived
    BY <1>0, <1>2, PollType
  <2> QED BY <1>0, <1>2, <2>1, PollType
<1>3. ASSUME NEW h \in Handler, NEW e \in Event,
             Insert(h, e) \/ InsertDuplicate(h, e) \/ InsertFails(h, e)
      PROVE  IngestTypeOK'
  <2>1. TakeUp(h, e)
    BY <1>0, <1>3, InsertFrames
  <2>2. cursor' \in 0 .. offset'
    BY <1>0, <1>3, <2>1, InsertFrames, TakeUpType
  <2>3. open' \subseteq open
    BY <1>0, <1>3, InsertFrames, AcknowledgeType
  <2>4. /\ handler' \in [Handler -> [step : {"idle", "enqueue", "count"},
                                     event : Event \cup {NoEvent}]]
        /\ inbound' \in [Event -> {"none", "received", "processed"}]
    <3>1. \/ UNCHANGED handler
          \/ handler' = [handler EXCEPT ![h] = [step |-> "enqueue", event |-> e]]
      BY <1>0, <1>3, InsertFrames
    <3>2. UNCHANGED inbound \/ inbound' = [inbound EXCEPT ![e] = "received"]
      BY <1>0, <1>3, InsertFrames
    <3>3. [step |-> "enqueue", event |-> e]
            \in [step : {"idle", "enqueue", "count"}, event : Event \cup {NoEvent}]
      OBVIOUS
    <3>4. handler' \in [Handler -> [step : {"idle", "enqueue", "count"},
                                    event : Event \cup {NoEvent}]]
      BY <1>0, <3>1, <3>3
    <3>5. inbound' \in [Event -> {"none", "received", "processed"}]
      BY <1>0, <3>2
    <3> QED BY <3>4, <3>5
  <2>5. /\ UNCHANGED <<mode, arrived, offset, queue, queue_depth>>
        /\ deliveries' \in 0 .. MaxDeliveries
        /\ disturbed' \in [Disturbance -> 0 .. MaxDisturbances]
    BY <1>0, <1>3, InsertFrames
  <2> QED BY <1>0, <2>2, <2>3, <2>4, <2>5
<1>4. ASSUME NEW h \in Handler, Enqueue(h) PROVE IngestTypeOK'
  <2>1. handler[h].event \in Event
    BY <1>4 DEF Enqueue, HandlerInv
  <2>2. queue' \in Seq(Event) /\ Len(queue') <= QueueCapacity
    <3>1. CASE Len(queue) < QueueCapacity
      <4>1. queue' = Append(queue, handler[h].event)
        BY <1>4, <3>1 DEF Enqueue
      <4> QED BY <1>0, <2>1, <3>1, <4>1
    <3>2. CASE ~(Len(queue) < QueueCapacity)
      BY <1>0, <1>4, <3>2 DEF Enqueue
    <3> QED BY <3>1, <3>2
  <2>3. handler' \in [Handler -> [step : {"idle", "enqueue", "count"},
                                  event : Event \cup {NoEvent}]]
    <3>1. /\ handler \in [Handler -> [step : {"idle", "enqueue", "count"},
                                      event : Event \cup {NoEvent}]]
          /\ \/ handler' = [handler EXCEPT ![h] = [handler[h] EXCEPT !.step = "count"]]
             \/ handler' = [handler EXCEPT ![h] = [step |-> "idle", event |-> NoEvent]]
      BY <1>0, <1>4 DEF Enqueue, Finished, Idle
    <3>2. /\ [handler[h] EXCEPT !.step = "count"]
                \in [step : {"idle", "enqueue", "count"}, event : Event \cup {NoEvent}]
          /\ [step |-> "idle", event |-> NoEvent]
                \in [step : {"idle", "enqueue", "count"}, event : Event \cup {NoEvent}]
      BY <3>1
    <3> QED BY <3>1, <3>2
  <2> QED BY <1>0, <1>4, <2>2, <2>3 DEF Enqueue
<1>5. ASSUME NEW h \in Handler, Count(h) PROVE IngestTypeOK'
  <2>1. handler[h].event \in Event /\ Acknowledge(handler[h].event)
    BY <1>5 DEF Count, HandlerInv
  <2>2. open' \subseteq open /\ disturbed' \in [Disturbance -> 0 .. MaxDisturbances]
    BY <1>0, <2>1, AcknowledgeType
  <2>3. handler' \in [Handler -> [step : {"idle", "enqueue", "count"},
                                  event : Event \cup {NoEvent}]]
    BY <1>0, <1>5 DEF Count, Finished, Idle
  <2> QED BY <1>0, <1>5, <2>2, <2>3 DEF Count
<1>6. ASSUME NEW h \in Handler, HangUp(h) PROVE IngestTypeOK'
  <2>1. disturbed' \in [Disturbance -> 0 .. MaxDisturbances]
    BY <1>0, <1>6, DisturbType DEF HangUp, ChannelFault, Disturbance
  <2>2. handler' \in [Handler -> [step : {"idle", "enqueue", "count"},
                                  event : Event \cup {NoEvent}]]
    BY <1>0, <1>6 DEF HangUp, Finished, Idle
  <2> QED BY <1>0, <1>6, <2>1, <2>2 DEF HangUp
<1> QED BY <1>1, <1>2, <1>3, <1>4, <1>5, <1>6 DEF IngestStep, HandlerStep

(* A job that ends gives its permit back.                                  *)
LEMMA BusyIsFinite == IsFiniteSet(Event) /\ \A S \in SUBSET Event : IsFiniteSet(S)
<1>1. IsFiniteSet(Event)
  BY IngestAssumption, FS_Interval DEF Event
<1> QED BY <1>1, FS_Subset

(* A job that ends has a permit to give back.                              *)
LEMMA PermitsFit ==
  ASSUME TypeOK, PermitInv, NEW e \in Event, job[e] # "none"
  PROVE  permits + 1 \in 0 .. MaxParallel
<1>1. Busy \in SUBSET Event /\ e \in Busy
  BY DEF Busy
<1>2. IsFiniteSet(Busy) /\ Busy # {}
  BY <1>1, BusyIsFinite
<1>3. Cardinality(Busy) \in Nat /\ Cardinality(Busy) # 0
  BY <1>2, FS_CardinalityType, FS_EmptySet
<1> QED BY <1>3, PipelineAssumption DEF PermitInv, TypeOK

(* the jobs,                                                               *)
LEMMA JobType ==
  ASSUME TypeOK, PermitInv, SendInv, NEW e \in Event, JobStep(e)
  PROVE  TypeOK'
<1> USE DEF TypeOK
<1>0. PipelineAssumption /\ ConversationOf[e] \in Conversation
  BY PipelineAssumption
<1>1. IngestTypeOK'
  <2>1. disturbed' \in [Disturbance -> 0 .. MaxDisturbances]
    <3>1. UNCHANGED disturbed \/ Disturb("store") \/ Disturb("channel")
      BY JobFrames
    <3>2. {"store", "channel"} \subseteq Disturbance
      BY DEF Disturbance
    <3> QED BY <3>1, <3>2, DisturbType DEF IngestTypeOK
  <2>2. inbound' \in [Event -> {"none", "received", "processed"}]
    BY DEF IngestTypeOK, JobStep, EnterGate, Dedupe, StoreError, DecideReply, DecideIgnore,
           DecideAbort, SendAbort, Close, SendChunk, SendError, PublishUserTurn,
           PublishAssistantTurn
  <2> QED BY <2>1, <2>2, JobFrames DEF IngestTypeOK
<1>2. /\ permits' \in 0 .. MaxParallel
      /\ job' \in [Event -> JobStage]
      /\ UNCHANGED <<paused, kill_switch, worker, outbound>>
  <2>1. \/ permits' = permits
        \/ permits' = permits + 1
    BY JobFrames
  <2>2. \E stage \in JobStage : job' = [job EXCEPT ![e] = stage]
    BY JobFrames DEF JobStage
  <2>3. permits' \in 0 .. MaxParallel
    BY <2>1, PermitsFit, JobFrames
  <2> QED BY <2>2, <2>3, JobFrames
<1>3. /\ reply' \in [Event -> Undecided .. MaxChunks]
      /\ sent_chunks' \in [Event -> 0 .. MaxChunks]
  <2>1. 0 \in Undecided .. MaxChunks /\ 0 \in 0 .. MaxChunks
        /\ \A n \in 1 .. MaxChunks : n \in Undecided .. MaxChunks
    BY <1>0 DEF PipelineAssumption, Undecided
  <2>2. CASE \E n \in 1 .. MaxChunks : DecideReply(e, n)
    BY <2>1, <2>2 DEF DecideReply
  <2>3. CASE SendChunk(e)
    <3>1. sent_chunks[e] < reply[e] /\ reply[e] \in Undecided .. MaxChunks
          /\ sent_chunks[e] \in 0 .. MaxChunks
      BY <2>3 DEF SendChunk, SendInv
    <3>2. sent_chunks[e] + 1 \in 0 .. MaxChunks
      BY <1>0, <3>1 DEF PipelineAssumption, Undecided
    <3> QED BY <2>3, <3>2 DEF SendChunk, AfterChunk
  <2>4. CASE DecideIgnore(e) \/ DecideAbort(e)
    BY <2>1, <2>4 DEF DecideIgnore, DecideAbort
  <2>5. CASE UNCHANGED <<reply, sent_chunks>>
    BY <2>5
  <2> QED BY <2>2, <2>3, <2>4, <2>5
          DEF JobStep, EnterGate, Dedupe, StoreError, SendAbort, Close, SendError,
              PublishUserTurn, PublishAssistantTurn
<1>4. /\ finalizer' \in [Event -> FinalizerStage]
      /\ deduped' \subseteq Event
      /\ turns' \subseteq Event \X {"user", "assistant"}
  <2>1. \/ UNCHANGED finalizer
        \/ finalizer' = [finalizer EXCEPT ![e] = "mark"]
    BY DEF JobStep, EnterGate, Dedupe, StoreError, DecideReply, DecideIgnore,
           DecideAbort, SendAbort, Close, SendChunk, SendError, PublishUserTurn,
           PublishAssistantTurn
  <2>2. UNCHANGED deduped \/ deduped' = deduped \cup {e}
    BY DEF JobStep, EnterGate, Dedupe, StoreError, DecideReply, DecideIgnore,
           DecideAbort, SendAbort, Close, SendChunk, SendError, PublishUserTurn,
           PublishAssistantTurn, tableVars
  <2>3. \/ UNCHANGED turns
        \/ turns' = turns \cup {<<e, "user">>}
        \/ turns' = turns \cup {<<e, "assistant">>}
    BY DEF JobStep, EnterGate, Dedupe, StoreError, DecideReply, DecideIgnore,
           DecideAbort, SendAbort, Close, SendChunk, SendError, PublishUserTurn,
           PublishAssistantTurn, tableVars
  <2>4. finalizer' \in [Event -> FinalizerStage]
    BY <2>1 DEF FinalizerStage
  <2> QED BY <2>2, <2>3, <2>4
<1>5. hot_turns' \in [Conversation -> Seq(Event \X {"user", "assistant"})]
  <2>1. ASSUME NEW role \in {"user", "assistant"}, PublishHotTurn(e, role)
        PROVE  hot_turns' \in [Conversation -> Seq(Event \X {"user", "assistant"})]
    <3> DEFINE S == Event \X {"user", "assistant"}
               s == Append(hot_turns[ConversationOf[e]], <<e, role>>)
    <3>1. hot_turns[ConversationOf[e]] \in Seq(S) /\ <<e, role>> \in S
      BY <1>0
    <3>2. s \in Seq(S) /\ Len(s) > 0
      <4> HIDE DEF S
      <4> QED BY <3>1
    <3>3. LastOf(s, HotTurnCap) \in Seq(S)
      <4> HIDE DEF S, s
      <4> QED BY <1>0, <3>2, LastOfIsEnd DEF PipelineAssumption
    <3>4. hot_turns' = [hot_turns EXCEPT ![ConversationOf[e]] = LastOf(s, HotTurnCap)]
      BY <2>1 DEF PublishHotTurn
    <3>5. hot_turns \in [Conversation -> Seq(S)]
      OBVIOUS
    <3>6. hot_turns' \in [Conversation -> Seq(S)]
      <4> HIDE DEF S, s
      <4> QED BY <3>3, <3>4, <3>5
    <3> QED BY <3>6
  <2> QED BY <2>1 DEF JobStep, EnterGate, Dedupe, StoreError, DecideReply, DecideIgnore,
         DecideAbort, SendAbort, Close, SendChunk, SendError, PublishUserTurn,
         PublishAssistantTurn
<1>6. chat' \in [Conversation -> Seq(Event \X (0 .. MaxChunks))]
  <2>1. ASSUME NEW k \in 0 .. MaxChunks, Received(e, k)
        PROVE  chat' \in [Conversation -> Seq(Event \X (0 .. MaxChunks))]
    <3> DEFINE S == Event \X (0 .. MaxChunks)
    <3>1. chat \in [Conversation -> Seq(S)] /\ <<e, k>> \in S
      OBVIOUS
    <3>2. chat' = [chat EXCEPT ![ConversationOf[e]] =
                                 Append(chat[ConversationOf[e]], <<e, k>>)]
      BY <2>1 DEF Received
    <3>3. chat' \in [Conversation -> Seq(S)]
      <4> HIDE DEF S
      <4> QED BY <1>0, <3>1, <3>2
    <3> QED BY <3>3
  <2>2. job[e] = "send" => sent_chunks[e] + 1 \in 0 .. MaxChunks
    <3>1. job[e] = "send" => sent_chunks[e] < reply[e]
      BY DEF SendInv
    <3>2. reply[e] \in Undecided .. MaxChunks /\ sent_chunks[e] \in 0 .. MaxChunks
      OBVIOUS
    <3> QED BY <1>0, <3>1, <3>2 DEF PipelineAssumption, Undecided
  <2>3. 0 \in 0 .. MaxChunks
    BY <1>0 DEF PipelineAssumption
  <2>4. \/ UNCHANGED chat
        \/ \E k \in 0 .. MaxChunks : Received(e, k)
    BY <2>2, <2>3 DEF JobStep, EnterGate, Dedupe, StoreError, DecideReply, DecideIgnore,
         DecideAbort, SendAbort, Close, SendChunk, SendError, PublishUserTurn,
         PublishAssistantTurn
  <2> QED BY <2>1, <2>4
<1> QED BY <1>1, <1>2, <1>3, <1>4, <1>5, <1>6

(* the finalizers,                                                         *)
LEMMA FinalizerType ==
  ASSUME TypeOK, NEW e \in Event, FinalizerStep(e)
  PROVE  TypeOK'
<1> USE DEF TypeOK
<1>1. IngestTypeOK'
  <2>1. disturbed' \in [Disturbance -> 0 .. MaxDisturbances]
    BY FinalizerFrames, DisturbType DEF IngestTypeOK, Disturbance
  <2>2. inbound' \in [Event -> {"none", "received", "processed"}]
    BY FinalizerFrames DEF IngestTypeOK
  <2> QED BY <2>1, <2>2, FinalizerFrames DEF IngestTypeOK
<1>2. outbound' \in [Event -> 0 .. MaxChunks]
  <2>1. sent_chunks[e] \in 0 .. MaxChunks /\ MaxChunks \in Nat
    BY PipelineAssumption
  <2>2. \A n \in 0 .. (sent_chunks[e] - 1) : n \in 0 .. MaxChunks
    BY <2>1
  <2>3. UNCHANGED outbound \/ \E n \in 0 .. MaxChunks : outbound' = [outbound EXCEPT ![e] = n]
    BY <2>1, <2>2 DEF FinalizerStep, FinalizeMark, FinalizeRows, FinalizeTurn
  <2> QED BY <2>3
<1>3. turns' \subseteq Event \X {"user", "assistant"}
  BY DEF FinalizerStep, FinalizeMark, FinalizeRows, FinalizeTurn
<1>4. finalizer' \in [Event -> FinalizerStage]
  BY FinalizerFrames
<1> QED BY <1>1, <1>2, <1>3, <1>4, FinalizerFrames

(* a restart,                                                              *)
LEMMA RestartType ==
  ASSUME TypeOK, Restart
  PROVE  TypeOK'
<1> USE DEF TypeOK
<1>1. IngestTypeOK'
  <2>1. disturbed' \in [Disturbance -> 0 .. MaxDisturbances]
    BY DisturbType DEF Restart, IngestRestart, IngestTypeOK, Disturbance
  <2>2. queue' \in Seq(Event) /\ Len(queue') <= QueueCapacity /\ queue_depth' \in Int
    BY IngestAssumption DEF Restart, IngestRestart
  <2>3. handler' \in [Handler -> [step : {"idle", "enqueue", "count"},
                                  event : Event \cup {NoEvent}]]
    BY DEF Restart, IngestRestart, Idle
  <2>4. offset' \in 0 .. arrived /\ cursor' \in 0 .. offset' /\ arrived \in 0 .. MaxEvents
    BY IngestAssumption DEF Restart, IngestRestart, IngestTypeOK
  <2> QED BY <2>1, <2>2, <2>3, <2>4 DEF Restart, IngestRestart, IngestTypeOK
<1>2. permits' \in 0 .. MaxParallel
  BY PipelineAssumption DEF Restart
<1>3. /\ paused' \in BOOLEAN /\ kill_switch' \in BOOLEAN
      /\ worker' \in Event \cup {NoEvent}
  BY PipelineAssumption DEF Restart
<1>4. job' \in [Event -> JobStage] /\ finalizer' \in [Event -> FinalizerStage]
  BY DEF Restart, JobStage, FinalizerStage
<1>5. hot_turns' \in [Conversation -> Seq(Event \X {"user", "assistant"})]
  <2>1. <<>> \in Seq(Event \X {"user", "assistant"})
    OBVIOUS
  <2> QED BY <2>1 DEF Restart
<1> QED BY <1>1, <1>2, <1>3, <1>4, <1>5 DEF Restart, tableVars

(* and so all steps.                                                       *)
LEMMA NextType ==
  ASSUME TypeOK, PermitInv, HandlerInv, SendInv, [Next]_vars
  PROVE  TypeOK'
<1>1. CASE IngestStep
  BY <1>1, IngestType, IngestFrame DEF TypeOK
<1>2. CASE Receive
  <2>1. /\ queue' \in Seq(Event) /\ Len(queue') <= QueueCapacity
        /\ worker' \in Event \cup {NoEvent}
        /\ queue_depth' \in Int
    <3>1. /\ queue \in Seq(Event) /\ queue # <<>> /\ Len(queue) <= QueueCapacity
          /\ QueueCapacity \in Nat /\ queue_depth \in Int
      BY <1>2, IngestAssumption DEF Receive, TypeOK, IngestTypeOK
    <3>2. /\ Tail(queue) \in Seq(Event) /\ Head(queue) \in Event
          /\ Len(Tail(queue)) = Len(queue) - 1
      BY <3>1
    <3> QED BY <1>2, <3>1, <3>2 DEF Receive
  <2>2. IngestTypeOK'
    BY <1>2, <2>1 DEF Receive, TypeOK, IngestTypeOK, ingestVars
  <2> QED BY <1>2, <2>1, <2>2 DEF Receive, TypeOK, controlVars, tableVars
<1>3. CASE Dispatch
  <2>1. permits' \in 0 .. MaxParallel
    BY <1>3, PipelineAssumption DEF Dispatch, TypeOK
  <2>2. job' \in [Event -> JobStage] /\ worker' \in Event \cup {NoEvent}
    BY <1>3 DEF Dispatch, TypeOK, JobStage
  <2>3. IngestTypeOK'
    BY <1>3 DEF Dispatch, TypeOK, IngestTypeOK, ingestVars
  <2> QED BY <1>3, <2>1, <2>2, <2>3 DEF Dispatch, TypeOK, controlVars, tableVars
<1>4. CASE Control \/ Rest \/ UNCHANGED vars
  <2>1. disturbed' \in [Disturbance -> 0 .. MaxDisturbances]
    BY <1>4, StutterFrame, DisturbType DEF TypeOK, IngestTypeOK, Disturbance
  <2>2. IngestTypeOK'
    BY <1>4, <2>1, StutterFrame DEF TypeOK, IngestTypeOK
  <2>3. paused' \in BOOLEAN /\ kill_switch' \in BOOLEAN
    BY <1>4 DEF Control, Rest, vars, turnVars, controlVars, TypeOK
  <2> QED BY <1>4, <2>2, <2>3, StutterFrame DEF TypeOK
<1> QED BY <1>1, <1>2, <1>3, <1>4, JobType, FinalizerType, RestartType DEF Next

-----------------------------------------------------------------------------
(* Permits: taken when a job is spawned, given back when it ends.          *)
LEMMA NextPermit ==
  ASSUME TypeOK, PlaceInv, PermitInv, [Next]_vars
  PROVE  PermitInv'
<1>0. /\ IsFiniteSet(Busy) /\ IsFiniteSet(Busy')
      /\ Cardinality(Busy) \in Nat /\ permits \in Nat
  <2>1. Busy \in SUBSET Event /\ Busy' \in SUBSET Event
    BY DEF Busy
  <2>2. IsFiniteSet(Busy) /\ IsFiniteSet(Busy')
    BY <2>1, BusyIsFinite
  <2> QED BY <2>2, FS_CardinalityType, PipelineAssumption DEF TypeOK
<1>1. ASSUME UNCHANGED permits, Busy' = Busy PROVE PermitInv'
  BY <1>1 DEF PermitInv
<1>2. CASE UNCHANGED <<permits, job>>
  BY <1>1, <1>2 DEF Busy
<1>3. CASE Dispatch
  <2>1. worker \in Event /\ job[worker] = "none" /\ permits' = permits - 1
        /\ job' = [job EXCEPT ![worker] = "gate"] /\ job \in [Event -> JobStage]
    BY <1>3 DEF Dispatch, TypeOK, PlaceInv
  <2>2. Busy' = Busy \cup {worker} /\ worker \notin Busy
    BY <2>1 DEF Busy
  <2>3. Cardinality(Busy') = Cardinality(Busy) + 1
    BY <1>0, <2>2, FS_AddElement
  <2> QED BY <1>0, <2>1, <2>3 DEF PermitInv
<1>4. ASSUME NEW e \in Event, JobStep(e) PROVE PermitInv'
  <2>0. job \in [Event -> JobStage]
    BY DEF TypeOK
  <2>1. CASE UNCHANGED permits /\ \E stage \in JobStage \ {"none", "gate"} :
                                    job' = [job EXCEPT ![e] = stage]
    <3>1. Busy' = Busy
      BY <1>4, <2>0, <2>1, JobFrames DEF Busy
    <3> QED BY <1>1, <2>1, <3>1
  <2>2. CASE permits' = permits + 1 /\ job' = [job EXCEPT ![e] = "none"]
    <3>1. Busy' = Busy \ {e} /\ e \in Busy
      BY <1>4, <2>0, <2>2, JobFrames DEF Busy
    <3>2. Cardinality(Busy') = Cardinality(Busy) - 1
      BY <1>0, <3>1, FS_RemoveElement
    <3> QED BY <1>0, <2>2, <3>2 DEF PermitInv
  <2> QED BY <1>4, <2>1, <2>2, JobFrames
<1>5. CASE Restart
  <2>1. Busy' = {} /\ permits' = MaxParallel
    BY <1>5 DEF Restart, Busy
  <2>2. Cardinality(Busy') = 0
    BY <2>1, FS_EmptySet
  <2> QED BY <2>1, <2>2, PipelineAssumption DEF PermitInv
<1>6. CASE IngestStep \/ Receive \/ (\E e \in Event : FinalizerStep(e)) \/ Control \/ Rest
           \/ UNCHANGED vars
  <2>1. UNCHANGED <<permits, job>>
    BY <1>6, IngestFrame, FinalizerFrames, StutterFrame DEF Receive
  <2> QED BY <1>2, <2>1
<1> QED BY <1>3, <1>4, <1>5, <1>6 DEF Next

-----------------------------------------------------------------------------
(* Rows are never taken back.                                              *)
LEMMA RowsStay ==
  ASSUME TypeOK, [Next]_vars
  PROVE  \A e \in Event : inbound[e] # "none" => inbound'[e] # "none"
<1>0. inbound \in [Event -> {"none", "received", "processed"}]
  BY DEF TypeOK, IngestTypeOK
<1>1. \/ UNCHANGED inbound
      \/ \E e \in Event : inbound' = [inbound EXCEPT ![e] = "received"]
      \/ \E e \in Event : inbound' = [inbound EXCEPT ![e] = "processed"]
  <2>1. ASSUME IngestStep
        PROVE  UNCHANGED inbound \/ \E e \in Event : inbound' = [inbound EXCEPT ![e] = "received"]
    BY <2>1 DEF IngestStep, HandlerStep, Arrive, Poll, Insert, InsertDuplicate, InsertFails,
                Enqueue, Count, HangUp
  <2>2. ASSUME NEW e \in Event, JobStep(e)
        PROVE  UNCHANGED inbound \/ inbound' = [inbound EXCEPT ![e] = "processed"]
    BY <2>2 DEF JobStep, EnterGate, Dedupe, StoreError, DecideReply, DecideIgnore,
                DecideAbort, SendAbort, Close, SendChunk, SendError, PublishUserTurn,
                PublishAssistantTurn
  <2>3. Receive \/ Dispatch \/ Restart => UNCHANGED inbound
    BY DEF Receive, Dispatch, Restart, IngestRestart
  <2> QED BY <2>1, <2>2, <2>3, FinalizerFrames, StutterFrame DEF Next
<1> QED BY <1>0, <1>1

(* Every step keeps what is known of the handler of an update.             *)
LEMMA NextHandler ==
  ASSUME TypeOK, HandlerInv, [Next]_vars
  PROVE  HandlerInv'
<1>0. handler \in [Handler -> [step : {"idle", "enqueue", "count"}, event : Event \cup {NoEvent}]]
      /\ inbound \in [Event -> {"none", "received", "processed"}]
  BY DEF TypeOK, IngestTypeOK
<1>1. ASSUME \A h \in Handler :
               \/ handler'[h].step = "idle"
               \/ handler[h].step # "idle" /\ handler'[h].event = handler[h].event
               \/ handler'[h].event \in Event /\ inbound'[handler'[h].event] # "none"
      PROVE  HandlerInv'
  BY <1>1, RowsStay DEF HandlerInv
<1>2. CASE UNCHANGED handler
  BY <1>1, <1>2
<1>3. ASSUME NEW h \in Handler, NEW e \in Event,
             Insert(h, e) \/ InsertDuplicate(h, e) \/ InsertFails(h, e)
      PROVE  HandlerInv'
  <2>1. \/ UNCHANGED handler
        \/ inbound' = [inbound EXCEPT ![e] = "received"]
           /\ handler' = [handler EXCEPT ![h] = [step |-> "enqueue", event |-> e]]
    BY <1>3, InsertFrames DEF TypeOK
  <2>2. CASE inbound' = [inbound EXCEPT ![e] = "received"]
             /\ handler' = [handler EXCEPT ![h] = [step |-> "enqueue", event |-> e]]
    BY <1>0, <1>1, <2>2
  <2> QED BY <1>2, <2>1, <2>2
<1>4. ASSUME NEW h \in Handler, Enqueue(h) \/ Count(h) \/ HangUp(h)
      PROVE  HandlerInv'
  <2>1. handler[h].step # "idle"
    BY <1>4 DEF Enqueue, Count, HangUp
  <2>2. \/ handler' = [handler EXCEPT ![h] = Idle]
        \/ handler' = [handler EXCEPT ![h].step = "count"]
    BY <1>4 DEF Enqueue, Count, HangUp, Finished
  <2> QED BY <1>0, <1>1, <2>1, <2>2 DEF Idle
<1>5. CASE Restart
  BY <1>1, <1>5 DEF Restart, IngestRestart, Idle
<1>6. CASE Arrive \/ Poll \/ Receive \/ Dispatch \/ (\E e \in Event : JobStep(e))
           \/ (\E e \in Event : FinalizerStep(e)) \/ Control \/ Rest \/ UNCHANGED vars
  <2>1. UNCHANGED handler
    BY <1>6, JobFrames, FinalizerFrames, StutterFrame
       DEF Arrive, Poll, Receive, Dispatch, ingestVars
  <2> QED BY <1>2, <2>1
<1> QED BY <1>3, <1>4, <1>5, <1>6 DEF Next, IngestStep, HandlerStep

-----------------------------------------------------------------------------
(* An event is inserted once, so it moves from a handler to the queue, to  *)
(* the worker loop and to its job without ever being in two places.        *)
LEMMA QueueTypes ==
  ASSUME TypeOK
  PROVE  /\ handler \in [Handler -> [step : {"idle", "enqueue", "count"},
                                     event : Event \cup {NoEvent}]]
         /\ inbound \in [Event -> {"none", "received", "processed"}]
         /\ queue \in Seq(Event) /\ Len(queue) \in Nat
         /\ \A i \in 1 .. Len(queue) : queue[i] \in Event
         /\ job \in [Event -> JobStage] /\ worker \in Event \cup {NoEvent}
         /\ NoEvent \notin Event
         /\ finalizer \in [Event -> FinalizerStage] /\ deduped \subseteq Event
<1>1. queue \in Seq(Event)
  BY DEF TypeOK, IngestTypeOK
<1>2. Len(queue) \in Nat /\ \A i \in 1 .. Len(queue) : queue[i] \in Event
  BY <1>1
<1>3. NoEvent \notin Event
  BY DEF NoEvent, Event
<1> QED BY <1>1, <1>2, <1>3 DEF TypeOK, IngestTypeOK

(* A handler's step adds the event it inserted to those at hand, or takes  *)
(* its own away.                                                           *)
LEMMA AtHandSteps ==
  ASSUME TypeOK, HandlerInv, NEW h \in Handler
  PROVE  /\ \A e \in Event : handler' = [handler EXCEPT ![h] = [step |-> "enqueue", event |-> e]]
              => \A g \in Handler, f \in Event :
                   AtHand(g, f)' <=> IF g = h THEN f = e ELSE AtHand(g, f)
         /\ handler' \in {[handler EXCEPT ![h] = Idle], [handler EXCEPT ![h].step = "count"]}
              => \A g \in Handler, f \in Event : AtHand(g, f)' <=> g # h /\ AtHand(g, f)
<1>1. handler \in [Handler -> [step : {"idle", "enqueue", "count"}, event : Event \cup {NoEvent}]]
  BY QueueTypes
<1>2. ASSUME NEW e \in Event,
             handler' = [handler EXCEPT ![h] = [step |-> "enqueue", event |-> e]],
             NEW g \in Handler, NEW f \in Event
      PROVE  AtHand(g, f)' <=> IF g = h THEN f = e ELSE AtHand(g, f)
  BY <1>1, <1>2 DEF AtHand
<1>3. ASSUME handler' = [handler EXCEPT ![h] = Idle]
             \/ handler' = [handler EXCEPT ![h].step = "count"],
             NEW g \in Handler, NEW f \in Event
      PROVE  AtHand(g, f)' <=> g # h /\ AtHand(g, f)
  BY <1>1, <1>3 DEF AtHand, Idle
<1> QED BY <1>2, <1>3

(* What comes of the queue by try_send and by recv.                        *)
LEMMA QueueSteps ==
  ASSUME TypeOK
  PROVE  /\ UNCHANGED queue => \A f \in Event : InQueue(f)' <=> InQueue(f)
         /\ \A e \in Event : queue' = Append(queue, e) =>
              /\ \A f \in Event : InQueue(f)' <=> InQueue(f) \/ f = e
              /\ ~InQueue(e) /\ (\A i, j \in 1 .. Len(queue) : queue[i] = queue[j] => i = j)
                   => \A i, j \in 1 .. Len(queue') : queue'[i] = queue'[j] => i = j
         /\ queue # <<>> /\ queue' = Tail(queue) =>
              /\ Head(queue) \in Event /\ InQueue(Head(queue))
              /\ \A f \in Event : InQueue(f)' => InQueue(f)
              /\ (\A i, j \in 1 .. Len(queue) : queue[i] = queue[j] => i = j)
                   => /\ \A i, j \in 1 .. Len(queue') : queue'[i] = queue'[j] => i = j
                      /\ \A f \in Event : f = Head(queue) => ~InQueue(f)'
<1>0. /\ queue \in Seq(Event) /\ Len(queue) \in Nat
      /\ \A i \in 1 .. Len(queue) : queue[i] \in Event
  BY QueueTypes
<1>1. UNCHANGED queue => \A f \in Event : InQueue(f)' <=> InQueue(f)
  BY DEF InQueue
<1>2. ASSUME NEW e \in Event, queue' = Append(queue, e)
      PROVE  /\ \A f \in Event : InQueue(f)' <=> InQueue(f) \/ f = e
             /\ ~InQueue(e) /\ (\A i, j \in 1 .. Len(queue) : queue[i] = queue[j] => i = j)
                  => \A i, j \in 1 .. Len(queue') : queue'[i] = queue'[j] => i = j
  <2>1. /\ Len(queue') = Len(queue) + 1
        /\ \A i \in 1 .. Len(queue) : queue'[i] = queue[i]
        /\ queue'[Len(queue) + 1] = e
    BY <1>0, <1>2
  <2>2. ASSUME NEW f \in Event PROVE InQueue(f)' <=> InQueue(f) \/ f = e
    BY <1>0, <2>1 DEF InQueue
  <2>3. ASSUME ~InQueue(e), \A i, j \in 1 .. Len(queue) : queue[i] = queue[j] => i = j,
               NEW i \in 1 .. Len(queue'), NEW j \in 1 .. Len(queue'), queue'[i] = queue'[j]
        PROVE  i = j
    BY <1>0, <2>1, <2>3 DEF InQueue
  <2> QED BY <2>2, <2>3
<1>3. ASSUME queue # <<>>, queue' = Tail(queue)
      PROVE  /\ Head(queue) \in Event /\ InQueue(Head(queue))
             /\ \A f \in Event : InQueue(f)' => InQueue(f)
             /\ (\A i, j \in 1 .. Len(queue) : queue[i] = queue[j] => i = j)
                  => /\ \A i, j \in 1 .. Len(queue') : queue'[i] = queue'[j] => i = j
                     /\ \A f \in Event : f = Head(queue) => ~InQueue(f)'
  <2>1. /\ Len(queue) > 0 /\ Len(queue') = Len(queue) - 1
        /\ \A i \in 1 .. Len(queue') : queue'[i] = queue[i + 1]
        /\ Head(queue) = queue[1]
    BY <1>0, <1>3
  <2>2. Head(queue) \in Event /\ InQueue(Head(queue))
    BY <1>0, <2>1 DEF InQueue
  <2>3. ASSUME NEW f \in Event, InQueue(f)' PROVE InQueue(f)
    <3>1. PICK i \in 1 .. Len(queue') : queue'[i] = f
      BY <2>3 DEF InQueue
    <3>2. i + 1 \in 1 .. Len(queue) /\ queue[i + 1] = f
      BY <1>0, <2>1, <3>1
    <3> QED BY <3>2 DEF InQueue
  <2>4. ASSUME \A i, j \in 1 .. Len(queue) : queue[i] = queue[j] => i = j
        PROVE  /\ \A i, j \in 1 .. Len(queue') : queue'[i] = queue'[j] => i = j
               /\ \A f \in Event : f = Head(queue) => ~InQueue(f)'
    <3>1. ASSUME NEW i \in 1 .. Len(queue'), NEW j \in 1 .. Len(queue'), queue'[i] = queue'[j]
          PROVE  i = j
      BY <1>0, <2>1, <2>4, <3>1
    <3>2. ASSUME NEW i \in 1 .. Len(queue'), queue'[i] = queue[1] PROVE FALSE
      BY <1>0, <2>1, <2>4, <3>2
    <3> QED BY <2>1, <3>1, <3>2 DEF InQueue
  <2> QED BY <2>2, <2>3, <2>4
<1> QED BY <1>1, <1>2, <1>3

(* Every step leaves an event in one place.                                *)
LEMMA NextPlace ==
  ASSUME TypeOK, HandlerInv, PlaceInv, DedupeInv, [Next]_vars
  PROVE  PlaceInv'
<1>0. /\ \A i \in 1 .. Len(queue) : queue[i] \in Event
      /\ worker \in Event \cup {NoEvent} /\ NoEvent \notin Event
      /\ job \in [Event -> JobStage]
      /\ inbound \in [Event -> {"none", "received", "processed"}]
  BY QueueTypes
(* Steps that put no event in a new place.                                 *)
<1>1. ASSUME \A h \in Handler, e \in Event : AtHand(h, e)' => AtHand(h, e),
             UNCHANGED queue,
             UNCHANGED worker,
             \A e \in Event : job'[e] = "none" \/ job[e] # "none"
      PROVE  PlaceInv'
  <2>1. \A e \in Event : InQueue(e)' <=> InQueue(e)
    BY <1>1 DEF InQueue
  <2> QED BY <1>1, <2>1 DEF PlaceInv
<1>2. CASE UNCHANGED <<handler, queue, worker, job>>
  BY <1>1, <1>2 DEF AtHand
<1>3. ASSUME NEW h \in Handler, NEW e \in Event,
             Insert(h, e) \/ InsertDuplicate(h, e) \/ InsertFails(h, e),
             UNCHANGED <<worker, job>>
      PROVE  PlaceInv'
  <2>1. UNCHANGED queue
    BY <1>3, InsertFrames DEF TypeOK
  <2>2. CASE UNCHANGED handler
    BY <1>2, <1>3, <2>1, <2>2
  <2>3. CASE inbound[e] = "none"
             /\ handler' = [handler EXCEPT ![h] = [step |-> "enqueue", event |-> e]]
    <3>1. \A g \in Handler : ~AtHand(g, e)
      BY <2>3 DEF HandlerInv, AtHand
    <3>2. ~InQueue(e) /\ worker # e /\ job[e] = "none"
      BY <2>3 DEF DedupeInv
    <3>3. \A g \in Handler, f \in Event :
             AtHand(g, f)' <=> IF g = h THEN f = e ELSE AtHand(g, f)
      BY <2>3, AtHandSteps
    <3>4. \A f \in Event : InQueue(f)' <=> InQueue(f)
      BY <2>1 DEF InQueue
    <3> QED BY <1>3, <2>1, <3>1, <3>2, <3>3, <3>4 DEF PlaceInv
  <2> QED BY <1>3, <2>2, <2>3, InsertFrames DEF TypeOK
<1>4. ASSUME NEW h \in Handler, Enqueue(h), UNCHANGED <<worker, job>>
      PROVE  PlaceInv'
  <2>1. CASE UNCHANGED queue /\ handler' = [handler EXCEPT ![h] = Idle]
    BY <1>1, <1>4, <2>1, AtHandSteps
  <2>2. CASE queue' = Append(queue, handler[h].event)
             /\ handler' = [handler EXCEPT ![h].step = "count"]
    <3> DEFINE e == handler[h].event
    <3>1. e \in Event /\ AtHand(h, e)
      BY <1>4 DEF Enqueue, HandlerInv, AtHand
    <3>2. ~InQueue(e) /\ worker # e /\ job[e] = "none"
          /\ \A g \in Handler : AtHand(g, e) => g = h
      BY <3>1 DEF PlaceInv
    <3>3. \A g \in Handler, f \in Event : AtHand(g, f)' <=> g # h /\ AtHand(g, f)
      BY <2>2, AtHandSteps
    <3>4. \A f \in Event : InQueue(f)' <=> InQueue(f) \/ f = e
      BY <2>2, <3>1, QueueSteps
    <3>5. \A i, j \in 1 .. Len(queue') : queue'[i] = queue'[j] => i = j
      BY <2>2, <3>1, <3>2, QueueSteps DEF PlaceInv
    <3> HIDE DEF e
    <3> QED BY <1>4, <3>1, <3>2, <3>3, <3>4, <3>5 DEF PlaceInv
  <2> QED BY <1>4, <2>1, <2>2 DEF Enqueue, Finished
<1>5. ASSUME NEW h \in Handler, Count(h) \/ HangUp(h), UNCHANGED <<worker, job>>
      PROVE  PlaceInv'
  <2>1. handler' = [handler EXCEPT ![h] = Idle] /\ UNCHANGED queue
    BY <1>5 DEF Count, HangUp, Finished
  <2> QED BY <1>1, <1>5, <2>1, AtHandSteps
<1>6. CASE Receive
  <2>1. /\ queue # <<>> /\ queue' = Tail(queue)
        /\ UNCHANGED <<handler, job>>
        /\ worker' = NoEvent \/ worker' = Head(queue)
    BY <1>6 DEF Receive, ingestVars
  <2>2. /\ Head(queue) \in Event /\ InQueue(Head(queue))
        /\ \A f \in Event : InQueue(f)' => InQueue(f)
        /\ \A i, j \in 1 .. Len(queue') : queue'[i] = queue'[j] => i = j
        /\ \A f \in Event : f = Head(queue) => ~InQueue(f)'
    BY <2>1, QueueSteps DEF PlaceInv
  <2>3. \A h \in Handler, f \in Event : AtHand(h, f)' <=> AtHand(h, f)
    BY <2>1 DEF AtHand
  <2> QED BY <1>0, <2>1, <2>2, <2>3 DEF PlaceInv
<1>7. CASE Dispatch
  <2>1. /\ worker \in Event /\ worker' = NoEvent /\ UNCHANGED <<handler, queue>>
        /\ job' = [job EXCEPT ![worker] = "gate"]
    BY <1>0, <1>7 DEF Dispatch, ingestVars
  <2>2. /\ \A h \in Handler, f \in Event : AtHand(h, f)' <=> AtHand(h, f)
        /\ \A f \in Event : InQueue(f)' <=> InQueue(f)
    BY <2>1 DEF AtHand, InQueue
  <2> QED BY <1>0, <2>1, <2>2 DEF PlaceInv
<1>8. ASSUME NEW e \in Event, JobStep(e) PROVE PlaceInv'
  <2>1. /\ job[e] # "none" /\ UNCHANGED <<handler, queue, worker>>
        /\ \A f \in Event : f # e => job'[f] = job[f]
    BY <1>0, <1>8, JobFrames
  <2> QED BY <1>1, <2>1 DEF AtHand
<1>9. CASE Restart
  <2>1. /\ handler' = [h \in Handler |-> Idle] /\ queue' = <<>> /\ worker' = NoEvent
        /\ job' = [e \in Event |-> "none"]
    BY <1>9 DEF Restart, IngestRestart
  <2>2. /\ \A h \in Handler, f \in Event : ~AtHand(h, f)'
        /\ \A f \in Event : ~InQueue(f)'
        /\ Len(queue') = 0
    BY <2>1 DEF AtHand, InQueue, Idle
  <2> QED BY <1>0, <2>1, <2>2 DEF PlaceInv
<1>10. CASE (Arrive \/ Poll) /\ UNCHANGED <<worker, job>>
  BY <1>2, <1>10 DEF Arrive, Poll
<1>11. CASE (\E e \in Event : FinalizerStep(e)) \/ Control \/ Rest \/ UNCHANGED vars
  BY <1>2, <1>11, FinalizerFrames, StutterFrame
<1>12. CASE IngestStep
  BY <1>3, <1>4, <1>5, <1>10, <1>12, IngestFrame DEF IngestStep, HandlerStep
<1> QED BY <1>6, <1>7, <1>8, <1>9, <1>11, <1>12 DEF Next

-----------------------------------------------------------------------------
(* The row of the deduplication is written when the work begins, and every *)
(* trace of work on an event follows it.                                   *)
LEMMA NextDedupe ==
  ASSUME TypeOK, HandlerInv, PlaceInv, DedupeInv, [Next]_vars
  PROVE  DedupeInv'
<1>0. /\ \A i \in 1 .. Len(queue) : queue[i] \in Event
      /\ worker \in Event \cup {NoEvent} /\ NoEvent \notin Event
      /\ job \in [Event -> JobStage] /\ finalizer \in [Event -> FinalizerStage]
      /\ inbound \in [Event -> {"none", "received", "processed"}]
      /\ deduped \subseteq Event
  BY QueueTypes
(* Steps of handlers and queue, which look at rows and work only.          *)
<1>1. ASSUME \A h \in Handler, e \in Event : AtHand(h, e)' => AtHand(h, e),
             \A e \in Event : InQueue(e)' => InQueue(e),
             UNCHANGED <<worker, job, finalizer, deduped>>,
             \/ UNCHANGED inbound
             \/ \E e \in Event : inbound[e] = "none" /\ inbound' = [inbound EXCEPT ![e] = "received"]
      PROVE  DedupeInv'
  <2>1. \A e \in Event : \/ inbound'[e] = inbound[e]
                         \/ inbound[e] = "none" /\ inbound'[e] = "received"
    BY <1>0, <1>1
  <2> HIDE DEF InQueue, AtHand
  <2> QED BY <1>1, <2>1 DEF DedupeInv
<1>2. CASE UNCHANGED <<handler, queue, worker, job, finalizer, deduped, inbound>>
  BY <1>1, <1>2 DEF AtHand, InQueue
<1>3. ASSUME NEW h \in Handler, NEW e \in Event,
             Insert(h, e) \/ InsertDuplicate(h, e) \/ InsertFails(h, e),
             UNCHANGED <<worker, job, finalizer, deduped>>
      PROVE  DedupeInv'
  <2>1. UNCHANGED queue /\ \A f \in Event : InQueue(f)' <=> InQueue(f)
    BY <1>3, InsertFrames DEF TypeOK, InQueue
  <2>2. CASE UNCHANGED handler
    <3>1. \A g \in Handler, f \in Event : AtHand(g, f)' <=> AtHand(g, f)
      BY <2>2 DEF AtHand
    <3>2. \/ UNCHANGED inbound
          \/ inbound[e] = "none" /\ inbound' = [inbound EXCEPT ![e] = "received"]
      BY <1>3, InsertFrames DEF TypeOK
    <3> QED BY <1>1, <1>3, <2>1, <3>1, <3>2
  <2>3. CASE inbound[e] = "none" /\ inbound' = [inbound EXCEPT ![e] = "received"]
             /\ handler' = [handler EXCEPT ![h] = [step |-> "enqueue", event |-> e]]
    <3>1. e \notin deduped
      BY <2>3 DEF DedupeInv
    <3>2. \A g \in Handler, f \in Event :
             AtHand(g, f)' <=> IF g = h THEN f = e ELSE AtHand(g, f)
      BY <2>3, AtHandSteps
    <3>3. inbound'[e] = "received" /\ \A f \in Event : f # e => inbound'[f] = inbound[f]
      BY <1>0, <2>3
    <3> QED BY <1>3, <2>1, <3>1, <3>2, <3>3 DEF DedupeInv
  <2> QED BY <1>3, <2>2, <2>3, InsertFrames DEF TypeOK
<1>4. ASSUME NEW h \in Handler, Enqueue(h), UNCHANGED <<worker, job, finalizer, deduped>>
      PROVE  DedupeInv'
  <2>1. CASE UNCHANGED queue /\ handler' = [handler EXCEPT ![h] = Idle]
    <3>1. \A f \in Event : InQueue(f)' <=> InQueue(f)
      BY <2>1 DEF InQueue
    <3> QED BY <1>1, <1>4, <2>1, <3>1, AtHandSteps DEF Enqueue
  <2>2. CASE queue' = Append(queue, handler[h].event)
             /\ handler' = [handler EXCEPT ![h].step = "count"]
    <3> DEFINE e == handler[h].event
    <3>1. e \in Event /\ AtHand(h, e) /\ inbound[e] # "none"
      BY <1>4 DEF Enqueue, HandlerInv, AtHand
    <3>2. e \notin deduped
      BY <3>1 DEF DedupeInv
    <3>3. \A g \in Handler, f \in Event : AtHand(g, f)' <=> g # h /\ AtHand(g, f)
      BY <2>2, AtHandSteps
    <3>4. \A f \in Event : InQueue(f)' <=> InQueue(f) \/ f = e
      BY <2>2, <3>1, QueueSteps
    <3>5. UNCHANGED inbound
      BY <1>4 DEF Enqueue
    <3> HIDE DEF e
    <3> QED BY <1>4, <3>1, <3>2, <3>3, <3>4, <3>5 DEF DedupeInv
  <2> QED BY <1>4, <2>1, <2>2 DEF Enqueue, Finished
<1>5. ASSUME NEW h \in Handler, Count(h) \/ HangUp(h),
             UNCHANGED <<worker, job, finalizer, deduped>>
      PROVE  DedupeInv'
  <2>1. handler' = [handler EXCEPT ![h] = Idle] /\ UNCHANGED <<queue, inbound>>
    BY <1>5 DEF Count, HangUp, Finished
  <2>2. \A f \in Event : InQueue(f)' <=> InQueue(f)
    BY <2>1 DEF InQueue
  <2> QED BY <1>1, <1>5, <2>1, <2>2, AtHandSteps
<1>6. CASE Receive
  <2>1. /\ queue # <<>> /\ queue' = Tail(queue)
        /\ UNCHANGED <<handler, job, finalizer, deduped, inbound>>
        /\ worker' = NoEvent \/ worker' = Head(queue)
    BY <1>6 DEF Receive, ingestVars, tableVars
  <2>2. /\ Head(queue) \in Event /\ InQueue(Head(queue))
        /\ \A f \in Event : InQueue(f)' => InQueue(f)
    BY <2>1, QueueSteps
  <2>3. \A h \in Handler, f \in Event : AtHand(h, f)' <=> AtHand(h, f)
    BY <2>1 DEF AtHand
  <2> QED BY <1>0, <2>1, <2>2, <2>3 DEF DedupeInv
<1>7. CASE Dispatch
  <2>1. /\ worker \in Event /\ worker' = NoEvent
        /\ UNCHANGED <<handler, queue, finalizer, deduped, inbound>>
        /\ job' = [job EXCEPT ![worker] = "gate"]
    BY <1>0, <1>7 DEF Dispatch, ingestVars, tableVars
  <2>2. /\ \A h \in Handler, f \in Event : AtHand(h, f)' <=> AtHand(h, f)
        /\ \A f \in Event : InQueue(f)' <=> InQueue(f)
    BY <2>1 DEF AtHand, InQueue
  <2>3. /\ worker \notin deduped /\ inbound[worker] = "received"
        /\ finalizer[worker] = "none"
    BY <1>0, <2>1 DEF DedupeInv
  <2>4. job'[worker] = "gate" /\ \A f \in Event : f # worker => job'[f] = job[f]
    BY <1>0, <2>1
  <2> QED BY <1>0, <2>1, <2>2, <2>3, <2>4 DEF DedupeInv
<1>8. ASSUME NEW e \in Event, JobStep(e) PROVE DedupeInv'
  <2>1. /\ job[e] # "none" /\ UNCHANGED <<handler, queue, worker>>
        /\ \A f \in Event : f # e => job'[f] = job[f]
        /\ inbound[e] = "received" /\ finalizer[e] = "none"
    BY <1>0, <1>8, JobFrames DEF DedupeInv
  <2>2. /\ \A h \in Handler, f \in Event : AtHand(h, f)' <=> AtHand(h, f)
        /\ \A f \in Event : InQueue(f)' <=> InQueue(f)
        /\ \A h \in Handler : ~AtHand(h, e)
        /\ ~InQueue(e) /\ worker # e
    BY <2>1 DEF AtHand, InQueue, PlaceInv
  <2>3. /\ \A f \in Event : f # e => inbound'[f] = inbound[f] /\ finalizer'[f] = finalizer[f]
        /\ deduped' = deduped \/ deduped' = deduped \cup {e}
        /\ inbound'[e] \in {"received", "processed"} /\ finalizer'[e] \in FinalizerStage
        /\ inbound'[e] = "processed" => job'[e] = "none" /\ e \in deduped
        /\ finalizer'[e] # "none" => job'[e] = "none" /\ e \in deduped
        /\ job'[e] \in {"none", "dedupe"} \/ e \in deduped'
        /\ job'[e] = "dedupe" => job[e] = "gate" /\ UNCHANGED deduped
        /\ job'[e] # "gate"
    <3>1. job[e] \notin {"none", "gate", "dedupe"} => e \in deduped
      BY DEF DedupeInv
    <3>2. job[e] = "gate" => e \notin deduped
      BY DEF DedupeInv
    <3>3. CASE EnterGate(e) \/ Dedupe(e) \/ StoreError(e)
      BY <1>0, <2>1, <3>1, <3>2, <3>3
         DEF EnterGate, Dedupe, StoreError, Goto, EndJob, JobFrame, tableVars
    <3>4. CASE (\E n \in 1 .. MaxChunks : DecideReply(e, n)) \/ DecideIgnore(e) \/ DecideAbort(e)
      BY <1>0, <2>1, <3>1, <3>4
         DEF DecideReply, DecideIgnore, DecideAbort, Goto, EndJob, JobFrame, tableVars
    <3>5. CASE SendAbort(e) \/ Close(e) \/ SendChunk(e) \/ SendError(e)
      BY <1>0, <2>1, <3>1, <3>5
         DEF SendAbort, Close, SendChunk, AfterChunk, SendError, Goto, EndJob, JobFrame, tableVars
    <3>6. CASE PublishUserTurn(e) \/ PublishAssistantTurn(e)
      BY <1>0, <2>1, <3>1, <3>6
         DEF PublishUserTurn, PublishAssistantTurn, Goto, EndJob, JobFrame, tableVars,
             FinalizerStage
    <3> QED BY <1>8, <3>3, <3>4, <3>5, <3>6 DEF JobStep
  <2>4. \A f \in Event : f # e => (f \in deduped' <=> f \in deduped)
    BY <2>3
  <2>5. job[e] = "gate" => e \notin deduped
    BY DEF DedupeInv
  <2> QED BY <2>1, <2>2, <2>3, <2>4, <2>5 DEF DedupeInv
<1>9. ASSUME NEW e \in Event, FinalizerStep(e) PROVE DedupeInv'
  <2>1. e \in deduped /\ job[e] = "none" /\ inbound[e] # "none"
    BY <1>9, FinalizerFrames DEF DedupeInv
  <2>2. /\ \A f \in Event : f # e => inbound'[f] = inbound[f] /\ finalizer'[f] = finalizer[f]
        /\ inbound'[e] # "none"
    BY <1>0, <1>9, <2>1, FinalizerFrames
  <2>3. UNCHANGED <<handler, queue, worker, job, deduped>>
    BY <1>9, FinalizerFrames
  <2>4. /\ \A h \in Handler, f \in Event : AtHand(h, f)' <=> AtHand(h, f)
        /\ \A f \in Event : InQueue(f)' <=> InQueue(f)
    BY <2>3 DEF AtHand, InQueue
  <2> QED BY <2>1, <2>2, <2>3, <2>4 DEF DedupeInv
<1>10. CASE Restart
  <2>1. /\ handler' = [h \in Handler |-> Idle] /\ queue' = <<>> /\ worker' = NoEvent
        /\ job' = [e \in Event |-> "none"] /\ finalizer' = [e \in Event |-> "none"]
        /\ UNCHANGED <<inbound, deduped>>
    BY <1>10 DEF Restart, IngestRestart, tableVars
  <2>2. /\ \A h \in Handler, f \in Event : ~AtHand(h, f)'
        /\ \A f \in Event : ~InQueue(f)'
    BY <2>1 DEF AtHand, InQueue, Idle
  <2> QED BY <1>0, <2>1, <2>2 DEF DedupeInv
<1>11. CASE (Arrive \/ Poll) /\ UNCHANGED <<worker, job, finalizer, deduped>>
  BY <1>2, <1>11 DEF Arrive, Poll
<1>12. CASE Control \/ Rest \/ UNCHANGED vars
  BY <1>2, <1>12, StutterFrame
<1>13. CASE IngestStep
  BY <1>3, <1>4, <1>5, <1>11, <1>13, IngestFrame DEF IngestStep, HandlerStep
<1> QED BY <1>6, <1>7, <1>8, <1>9, <1>10, <1>12, <1>13 DEF Next

-----------------------------------------------------------------------------
(* The steps that change the stage of one job only.                        *)
LEMMA JobOnly ==
  ASSUME TypeOK, NEW e \in Event, JobStep(e)
  PROVE  /\ \A f \in Event : f # e => job'[f] = job[f]
         /\ job[e] = "gate" => /\ EnterGate(e) /\ job'[e] = "dedupe"
                               /\ UNCHANGED <<reply, sent_chunks, chat, deduped, inbound,
                                              finalizer, hot_turns, turns, disturbed>>
         /\ job[e] # "none"
<1>1. job \in [Event -> JobStage]
  BY DEF TypeOK
<1>2. job[e] = "gate" => EnterGate(e)
  BY DEF JobStep, Dedupe, StoreError, DecideReply, DecideIgnore, DecideAbort, SendAbort, Close,
         SendChunk, SendError, PublishUserTurn, PublishAssistantTurn
<1>3. EnterGate(e) => /\ job'[e] = "dedupe"
                      /\ UNCHANGED <<reply, sent_chunks, chat, deduped, inbound,
                                     finalizer, hot_turns, turns, disturbed>>
  BY <1>1 DEF EnterGate, Goto, tableVars
<1> QED BY <1>1, <1>2, <1>3, JobFrames

(* Every step keeps the gate with one job of the conversation.             *)
LEMMA NextGate ==
  ASSUME TypeOK, GateInv, [Next]_vars
  PROVE  GateInv'
<1>0. job \in [Event -> JobStage]
  BY DEF TypeOK
<1>1. ASSUME \A e \in Event : Inside(e)' => Inside(e) PROVE GateInv'
  BY <1>1 DEF GateInv
<1>2. CASE UNCHANGED job
  BY <1>1, <1>2 DEF Inside
<1>3. ASSUME NEW e \in Event, JobStep(e) PROVE GateInv'
  <2>1. \A f \in Event : f # e => (Inside(f)' <=> Inside(f))
    BY <1>3, JobOnly DEF Inside
  <2>2. CASE job[e] = "gate"
    <3>1. \A f \in Event : Inside(f) => ConversationOf[f] # ConversationOf[e]
      BY <1>3, <2>2, JobOnly DEF EnterGate
    <3> QED BY <2>1, <3>1 DEF GateInv
  <2>3. CASE job[e] # "gate"
    <3>1. Inside(e)
      BY <1>3, <2>3, JobOnly DEF Inside
    <3> QED BY <1>1, <2>1, <3>1
  <2> QED BY <2>2, <2>3
<1>4. CASE Dispatch \/ Restart
  <2>1. \A e \in Event : job'[e] = job[e] \/ job'[e] \in {"none", "gate"}
    BY <1>0, <1>4 DEF Dispatch, Restart
  <2> QED BY <1>1, <2>1 DEF Inside
<1>5. CASE IngestStep \/ Receive \/ (\E e \in Event : FinalizerStep(e)) \/ Control \/ Rest
           \/ UNCHANGED vars
  <2>1. UNCHANGED job
    BY <1>5, IngestFrame, FinalizerFrames, StutterFrame DEF Receive
  <2> QED BY <1>2, <2>1
<1> QED BY <1>3, <1>4, <1>5 DEF Next

-----------------------------------------------------------------------------
(* A message appends to the chat of one conversation.                      *)
LEMMA ReceivedSteps ==
  ASSUME TypeOK, NEW e \in Event, NEW k \in 0 .. MaxChunks, Received(e, k)
  PROVE  LET c == ConversationOf[e] IN
         /\ c \in Conversation /\ Len(chat[c]) \in Nat
         /\ Len(chat'[c]) = Len(chat[c]) + 1
         /\ \A i \in 1 .. Len(chat[c]) : chat'[c][i] = chat[c][i]
         /\ chat'[c][Len(chat[c]) + 1] = <<e, k>>
         /\ \A d \in Conversation : d # c => chat'[d] = chat[d]
<1> DEFINE c == ConversationOf[e]
           S == Event \X (0 .. MaxChunks)
<1>1. c \in Conversation
  BY PipelineAssumption
<1>2. chat \in [Conversation -> Seq(S)]
  BY DEF TypeOK
<1>3. chat' = [chat EXCEPT ![c] = Append(chat[c], <<e, k>>)]
  BY DEF Received
<1>4. <<e, k>> \in S
  OBVIOUS
<1>5. chat[c] \in Seq(S)
  BY <1>1, <1>2
<1>6. chat'[c] = Append(chat[c], <<e, k>>) /\ \A d \in Conversation : d # c => chat'[d] = chat[d]
  BY <1>1, <1>2, <1>3
<1> HIDE DEF S, c
<1>7. /\ Len(chat[c]) \in Nat /\ Len(chat'[c]) = Len(chat[c]) + 1
      /\ \A i \in 1 .. Len(chat[c]) : chat'[c][i] = chat[c][i]
      /\ chat'[c][Len(chat[c]) + 1] = <<e, k>>
  BY <1>4, <1>5, <1>6
<1> QED BY <1>1, <1>6, <1>7 DEF c

(* What was said stays said when a message is received, which is said too. *)
LEMMA SaidStays ==
  ASSUME TypeOK, NEW e \in Event, NEW k \in 0 .. MaxChunks, Received(e, k)
  PROVE  /\ \A f \in Event, l \in Int : Said(f, l) => Said(f, l)'
         /\ Said(e, k)'
<1>1. \A f \in Event : ConversationOf[f] \in Conversation
  BY PipelineAssumption
<1>2. Said(e, k)'
  <2>1. Len(chat[ConversationOf[e]]) + 1 \in 1 .. Len(chat'[ConversationOf[e]])
    BY ReceivedSteps
  <2> QED BY <2>1, ReceivedSteps DEF Said
<1>3. ASSUME NEW f \in Event, NEW l \in Int, Said(f, l) PROVE Said(f, l)'
  <2>1. PICK i \in 1 .. Len(chat[ConversationOf[f]]) : chat[ConversationOf[f]][i] = <<f, l>>
    BY <1>3 DEF Said
  <2>2. CASE ConversationOf[f] = ConversationOf[e]
    <3>1. /\ i \in 1 .. Len(chat'[ConversationOf[f]])
          /\ chat'[ConversationOf[f]][i] = <<f, l>>
      BY <2>1, <2>2, ReceivedSteps
    <3> QED BY <3>1 DEF Said
  <2>3. CASE ConversationOf[f] # ConversationOf[e]
    <3>1. chat'[ConversationOf[f]] = chat[ConversationOf[f]]
      BY <1>1, <2>3, ReceivedSteps
    <3> QED BY <2>1, <3>1 DEF Said
  <2> QED BY <2>2, <2>3
<1> QED BY <1>2, <1>3

(* What a step of a job does to the chats: nothing, or one message, whose  *)
(* number the stage of the job tells.                                      *)
LEMMA JobChat ==
  ASSUME TypeOK, SendInv, NEW e \in Event, JobStep(e)
  PROVE  \/ UNCHANGED chat
         \/ \E k \in 0 .. MaxChunks :
              /\ Received(e, k) /\ job'[e] # "decide" /\ job'[e] # "abort"
              /\ \/ job[e] = "abort" /\ k = 0
                 \/ job[e] = "send" /\ k = sent_chunks[e] + 1
<1>0. job \in [Event -> JobStage] /\ MaxChunks \in Nat
  BY PipelineAssumption DEF TypeOK
<1>1. job[e] = "send" => sent_chunks[e] + 1 \in 0 .. MaxChunks
  <2>1. job[e] = "send" => sent_chunks[e] < reply[e]
    BY DEF SendInv
  <2>2. reply[e] \in Undecided .. MaxChunks /\ sent_chunks[e] \in 0 .. MaxChunks
    BY DEF TypeOK
  <2> QED BY <1>0, <2>1, <2>2 DEF Undecided
<1>2. CASE SendAbort(e)
  BY <1>0, <1>2 DEF SendAbort, Goto
<1>3. CASE SendChunk(e)
  BY <1>0, <1>1, <1>3 DEF SendChunk, AfterChunk, Goto
<1>4. CASE SendError(e)
  BY <1>0, <1>1, <1>4 DEF SendError, EndJob
<1> QED BY <1>2, <1>3, <1>4
        DEF JobStep, EnterGate, Dedupe, StoreError, DecideReply, DecideIgnore,
            DecideAbort, Close, PublishUserTurn, PublishAssistantTurn

(* Every step keeps what the chat has seen with the jobs that sent it.     *)
LEMMA NextChat ==
  ASSUME TypeOK, DedupeInv, SendInv, ChatInv, [Next]_vars
  PROVE  ChatInv'
<1>0. /\ job \in [Event -> JobStage] /\ deduped \subseteq Event
      /\ chat \in [Conversation -> Seq(Event \X (0 .. MaxChunks))]
  BY DEF TypeOK
<1>1. ASSUME UNCHANGED chat, deduped \subseteq deduped',
             \A e \in Event : job'[e] \in {"decide", "abort"} =>
               job[e] \in {"decide", "abort"} \/ e \notin deduped
      PROVE  ChatInv'
  BY <1>1 DEF ChatInv
<1>2. ASSUME NEW e \in Event, JobStep(e) PROVE ChatInv'
  <2>1. \/ UNCHANGED deduped
        \/ job[e] = "dedupe" /\ deduped' = deduped \cup {e}
    BY <1>2 DEF JobStep, EnterGate, Dedupe, StoreError, DecideReply, DecideIgnore,
                DecideAbort, SendAbort, Close, SendChunk, SendError, PublishUserTurn,
                PublishAssistantTurn, tableVars
  <2>2. CASE UNCHANGED chat
    <3>1. job'[e] \in {"decide", "abort"} => job[e] \in {"decide", "abort"} \/ e \notin deduped
      BY <1>0, <1>2
         DEF JobStep, EnterGate, Dedupe, StoreError, DecideReply, DecideIgnore,
             DecideAbort, SendAbort, Close, SendChunk, AfterChunk, SendError, PublishUserTurn,
             PublishAssistantTurn, Goto, EndJob
    <3> QED BY <1>1, <1>2, <2>1, <2>2, <3>1, JobOnly
  <2>3. ASSUME NEW k \in 0 .. MaxChunks, Received(e, k),
               job'[e] # "decide", job'[e] # "abort", job[e] \in {"abort", "send"}
        PROVE  ChatInv'
    <3>1. e \in deduped /\ deduped \subseteq deduped'
      BY <2>1, <2>3 DEF DedupeInv
    <3>2. ASSUME NEW c \in Conversation, NEW i \in 1 .. Len(chat'[c])
          PROVE  \/ i \in 1 .. Len(chat[c]) /\ chat'[c][i] = chat[c][i]
                 \/ c = ConversationOf[e] /\ chat'[c][i] = <<e, k>>
      <4>1. CASE c = ConversationOf[e]
        <5>1. /\ Len(chat[c]) \in Nat /\ Len(chat'[c]) = Len(chat[c]) + 1
              /\ \A j \in 1 .. Len(chat[c]) : chat'[c][j] = chat[c][j]
              /\ chat'[c][Len(chat[c]) + 1] = <<e, k>>
          BY <2>3, <4>1, ReceivedSteps
        <5>2. i \in 1 .. Len(chat[c]) \/ i = Len(chat[c]) + 1
          BY <5>1
        <5> QED BY <4>1, <5>1, <5>2
      <4>2. CASE c # ConversationOf[e]
        BY <2>3, <4>2, ReceivedSteps
      <4> QED BY <4>1, <4>2
    <3>3. \A f \in Event : f # e => job'[f] = job[f]
      BY <1>2, JobOnly
    <3> QED BY <2>3, <3>1, <3>2, <3>3 DEF ChatInv
  <2> QED BY <1>2, <2>2, <2>3, JobChat
<1>3. CASE Dispatch \/ Restart
  <2>1. UNCHANGED <<chat, deduped>> /\ \A e \in Event : job'[e] = job[e] \/ job'[e] \in {"none", "gate"}
    BY <1>0, <1>3 DEF Dispatch, Restart, tableVars
  <2> QED BY <1>1, <2>1
<1>4. CASE IngestStep \/ Receive \/ (\E e \in Event : FinalizerStep(e)) \/ Control \/ Rest
           \/ UNCHANGED vars
  <2>1. UNCHANGED <<job, chat, deduped>>
    BY <1>4, IngestFrame, FinalizerFrames, StutterFrame DEF Receive, tableVars
  <2> QED BY <1>1, <2>1
<1> QED BY <1>2, <1>3, <1>4 DEF Next

-----------------------------------------------------------------------------
(* While a job sends, its chunks are the last of its conversation's chat.  *)
LEMMA NextSend ==
  ASSUME TypeOK, DedupeInv, GateInv, ChatInv, SendInv, [Next]_vars
  PROVE  SendInv'
<1>0. /\ job \in [Event -> JobStage]
      /\ reply \in [Event -> Undecided .. MaxChunks]
      /\ sent_chunks \in [Event -> 0 .. MaxChunks]
      /\ MaxChunks \in Nat
      /\ \A e \in Event : ConversationOf[e] \in Conversation
  BY PipelineAssumption DEF TypeOK
<1>1. ASSUME UNCHANGED <<chat, reply, sent_chunks>>,
             \A e \in Event : job'[e] \in {"send", "abort", "close"} => job'[e] = job[e]
      PROVE  SendInv'
  <2>1. \A e \in Event, k \in Int : Said(e, k)' <=> Said(e, k)
    BY <1>1 DEF Said
  <2>2. \A e \in Event : \A k \in 1 .. sent_chunks[e] : k \in Int
    BY <1>0
  <2> QED BY <1>1, <2>1, <2>2 DEF SendInv
<1>2. ASSUME NEW e \in Event, JobStep(e) PROVE SendInv'
  <2> DEFINE SendOK(f) ==
        /\ job[f] = "send" =>
             LET c == ConversationOf[f] IN
             /\ sent_chunks[f] < reply[f]
             /\ \A i \in 1 .. Len(chat[c]) : chat[c][i][1] = f => chat[c][i][2] <= sent_chunks[f]
             /\ \A k \in 1 .. sent_chunks[f] : Said(f, k)
             /\ sent_chunks[f] > 0 =>
                  Len(chat[c]) > 0 /\ chat[c][Len(chat[c])] = <<f, sent_chunks[f]>>
        /\ job[f] \in {"abort", "close"} => reply[f] = 0
  <2>1. SendInv' <=> \A f \in Event : SendOK(f)'
    BY DEF SendInv
  <2>2. ASSUME NEW f \in Event, f # e PROVE SendOK(f)'
    <3>1. /\ job'[f] = job[f]
          /\ reply'[f] = reply[f] /\ sent_chunks'[f] = sent_chunks[f]
      <4>1. job'[f] = job[f]
        BY <1>2, <2>2, JobOnly
      <4>2. reply'[f] = reply[f] /\ sent_chunks'[f] = sent_chunks[f]
        BY <1>0, <1>2, <2>2
           DEF JobStep, EnterGate, Dedupe, StoreError, DecideReply, DecideIgnore,
               DecideAbort, SendAbort, Close, SendChunk, AfterChunk, SendError,
               PublishUserTurn, PublishAssistantTurn
      <4> QED BY <4>1, <4>2
    <3>2. job[f] = "send" => chat'[ConversationOf[f]] = chat[ConversationOf[f]]
      <4>1. CASE UNCHANGED chat
        BY <4>1
      <4>2. ASSUME NEW k \in 0 .. MaxChunks, Received(e, k), job[e] \in {"abort", "send"},
                   job[f] = "send"
            PROVE  chat'[ConversationOf[f]] = chat[ConversationOf[f]]
        <5>1. ConversationOf[e] # ConversationOf[f]
          BY <2>2, <4>2 DEF GateInv, Inside
        <5> QED BY <1>0, <4>2, <5>1, ReceivedSteps
      <4> QED BY <1>2, <4>1, <4>2, JobChat
    <3>3. job[f] = "send" => \A k \in Int : Said(f, k)' <=> Said(f, k)
      BY <3>2 DEF Said
    <3>4. \A k \in 1 .. sent_chunks[f] : k \in Int
      BY <1>0
    <3>5. SendOK(f)
      BY DEF SendInv
    <3> QED BY <3>1, <3>2, <3>3, <3>4, <3>5
  <2>3. SendOK(e)'
    <3>1. CASE \E n \in 1 .. MaxChunks : DecideReply(e, n)
      <4>1. PICK n \in 1 .. MaxChunks : DecideReply(e, n)
        BY <3>1
      <4>2. /\ UNCHANGED chat /\ sent_chunks'[e] = 0 /\ n > 0
            /\ \/ job'[e] = "user_turn"
               \/ job'[e] = "send" /\ reply'[e] = n
        BY <1>0, <4>1 DEF DecideReply, Goto
      <4>3. \A i \in 1 .. Len(chat[ConversationOf[e]]) : chat[ConversationOf[e]][i][1] # e
        BY <1>0, <4>1 DEF ChatInv, DecideReply
      <4> QED BY <4>2, <4>3
    <3>2. CASE DecideIgnore(e) \/ DecideAbort(e)
      <4>1. job'[e] \in {"close", "abort"} /\ reply'[e] = 0
        BY <1>0, <3>2 DEF DecideIgnore, DecideAbort, Goto
      <4> QED BY <4>1
    <3>3. CASE SendAbort(e)
      <4>1. job'[e] = "close" /\ reply'[e] = reply[e] /\ job[e] = "abort"
        BY <1>0, <3>3 DEF SendAbort, Goto
      <4> QED BY <4>1 DEF SendInv
    <3>4. CASE SendChunk(e)
      <4> DEFINE c == ConversationOf[e]
                 k == sent_chunks[e] + 1
      <4>1. /\ job[e] = "send" /\ Received(e, k) /\ UNCHANGED reply
            /\ sent_chunks'[e] = k
            /\ job'[e] = "send" => k # reply[e]
            /\ job'[e] \in {"send", "user_turn"}
        BY <1>0, <3>4 DEF SendChunk, AfterChunk, Goto
      <4>2. sent_chunks[e] < reply[e]
            /\ reply[e] \in Undecided .. MaxChunks /\ sent_chunks[e] \in 0 .. MaxChunks
        BY <1>0, <4>1 DEF SendInv
      <4>3. k \in 1 .. MaxChunks /\ k \in 0 .. MaxChunks /\ (k # reply[e] => k < reply[e])
        BY <1>0, <4>2 DEF Undecided
      <4>4. \A i \in 1 .. Len(chat[c]) : chat[c][i][1] = e => chat[c][i][2] <= sent_chunks[e]
        BY <4>1 DEF SendInv
      <4>5. \A l \in 1 .. sent_chunks[e] : Said(e, l)
        BY <4>1 DEF SendInv
      <4> HIDE DEF c, k
      <4>6. /\ c \in Conversation /\ Len(chat[c]) \in Nat
            /\ Len(chat'[c]) = Len(chat[c]) + 1
            /\ \A i \in 1 .. Len(chat[c]) : chat'[c][i] = chat[c][i]
            /\ chat'[c][Len(chat[c]) + 1] = <<e, k>>
        BY <4>1, <4>3, ReceivedSteps DEF c
      <4>7. ASSUME NEW i \in 1 .. Len(chat'[c]), chat'[c][i][1] = e
            PROVE  chat'[c][i][2] <= k
        <5>1. CASE i \in 1 .. Len(chat[c])
          <6>1. chat'[c][i] = chat[c][i] /\ chat[c][i] \in Event \X (0 .. MaxChunks)
            BY <4>6, <5>1 DEF TypeOK
          <6>2. chat[c][i][2] \in 0 .. MaxChunks /\ chat[c][i][2] <= sent_chunks[e]
            BY <4>4, <4>7, <5>1, <6>1
          <6> QED BY <1>0, <4>2, <6>1, <6>2 DEF k
        <5>2. CASE i = Len(chat[c]) + 1
          BY <4>3, <4>6, <5>2
        <5> QED BY <4>6, <5>1, <5>2
      <4>8. \A l \in 1 .. k : Said(e, l)'
        <5>1. \A l \in 1 .. k : l \in 1 .. sent_chunks[e] \/ l = k
          BY <4>2 DEF k
        <5>2. \A l \in 1 .. k : l \in Int
          OBVIOUS
        <5> QED BY <4>1, <4>3, <4>5, <5>1, <5>2, SaidStays
      <4> QED BY <4>1, <4>3, <4>6, <4>7, <4>8 DEF c
    <3>5. CASE EnterGate(e) \/ Dedupe(e) \/ StoreError(e) \/ Close(e) \/ SendError(e)
               \/ PublishUserTurn(e) \/ PublishAssistantTurn(e)
      <4>1. job'[e] \notin {"send", "abort", "close"}
        BY <1>0, <3>5 DEF EnterGate, Dedupe, StoreError, Close, SendError, PublishUserTurn,
                          PublishAssistantTurn, Goto, EndJob
      <4> QED BY <4>1
    <3> QED BY <1>2, <3>1, <3>2, <3>3, <3>4, <3>5 DEF JobStep
  <2> QED BY <2>1, <2>2, <2>3
<1>3. CASE Dispatch \/ Restart
  <2>1. /\ UNCHANGED <<chat, reply, sent_chunks>>
        /\ \A e \in Event : job'[e] = job[e] \/ job'[e] \in {"none", "gate"}
    BY <1>0, <1>3 DEF Dispatch, Restart
  <2> QED BY <1>1, <2>1
<1>4. CASE IngestStep \/ Receive \/ (\E e \in Event : FinalizerStep(e)) \/ Control \/ Rest
           \/ UNCHANGED vars
  <2>1. UNCHANGED <<job, chat, reply, sent_chunks>>
    BY <1>4, IngestFrame, FinalizerFrames, StutterFrame DEF Receive
  <2> QED BY <1>1, <2>1
<1> QED BY <1>2, <1>3, <1>4 DEF Next

-----------------------------------------------------------------------------
(* What has been said and decided stays so.                                *)
LEMMA NextAnswer ==
  ASSUME TypeOK, DedupeInv, ChatInv, SendInv, AnswerInv, [Next]_vars
  PROVE  AnswerInv'
<1>0. /\ job \in [Event -> JobStage]
      /\ finalizer \in [Event -> FinalizerStage]
      /\ inbound \in [Event -> {"none", "received", "processed"}]
      /\ reply \in [Event -> Undecided .. MaxChunks]
      /\ sent_chunks \in [Event -> 0 .. MaxChunks]
      /\ MaxChunks \in Nat
  BY PipelineAssumption DEF TypeOK, IngestTypeOK
<1> DEFINE Due(e) == \/ job[e] \in {"user_turn", "assistant_turn"}
                     \/ finalizer[e] # "none"
                     \/ inbound[e] = "processed"
<1>1. ASSUME UNCHANGED <<chat, reply>>, \A e \in Event : Due(e)' => Due(e)
      PROVE  AnswerInv'
  <2>1. \A e \in Event : Answered(e)' <=> Answered(e)
    BY <1>1 DEF Answered, Said
  <2> QED BY <1>1, <2>1 DEF AnswerInv
<1>2. ASSUME NEW e \in Event, JobStep(e) PROVE AnswerInv'
  <2>1. ASSUME NEW f \in Event, NEW l \in Int, Said(f, l) PROVE Said(f, l)'
    <3>1. CASE UNCHANGED chat
      BY <2>1, <3>1 DEF Said
    <3>2. CASE \E k \in 0 .. MaxChunks : Received(e, k)
      BY <2>1, <3>2, SaidStays
    <3> QED BY <1>2, <3>1, <3>2, JobChat
  <2>2. ASSUME NEW f \in Event, UNCHANGED (reply[f]), Answered(f) PROVE Answered(f)'
    <3>1. \A k \in 1 .. reply[f] : k \in Int
      OBVIOUS
    <3> QED BY <2>1, <2>2, <3>1 DEF Answered
  <2>3. ASSUME NEW f \in Event, f # e, Due(f)' PROVE Answered(f)'
    <3>1. /\ job'[f] = job[f] /\ finalizer'[f] = finalizer[f] /\ inbound'[f] = inbound[f]
          /\ reply'[f] = reply[f]
      <4>1. job'[f] = job[f]
        BY <1>2, <2>3, JobOnly
      <4>2. /\ finalizer'[f] = finalizer[f] /\ inbound'[f] = inbound[f]
            /\ reply'[f] = reply[f]
        BY <1>0, <1>2, <2>3
           DEF JobStep, EnterGate, Dedupe, StoreError, DecideReply, DecideIgnore,
               DecideAbort, SendAbort, Close, SendChunk, AfterChunk, SendError,
               PublishUserTurn, PublishAssistantTurn
      <4> QED BY <4>1, <4>2
    <3>2. Due(f)
      BY <2>3, <3>1
    <3> QED BY <2>2, <3>1, <3>2 DEF AnswerInv
  <2>4. ASSUME Due(e)' PROVE Answered(e)'
    <3>0. inbound[e] = "received" /\ finalizer[e] = "none"
      BY <1>2, JobOnly DEF DedupeInv
    <3>1. CASE \E n \in 1 .. MaxChunks : DecideReply(e, n)
      <4>1. /\ reply'[e] = 0 \/ job'[e] = "send"
            /\ UNCHANGED <<finalizer, inbound>>
        BY <1>0, <3>1 DEF DecideReply, Goto
      <4>2. reply'[e] = 0
        BY <2>4, <3>0, <4>1
      <4> QED BY <4>2 DEF Answered, Undecided
    <3>2. CASE Close(e)
      <4>1. reply[e] = 0 /\ reply'[e] = reply[e]
        BY <3>2 DEF Close, SendInv
      <4> QED BY <4>1 DEF Answered, Undecided
    <3>3. CASE SendChunk(e)
      <4>1. /\ job[e] = "send" /\ Received(e, sent_chunks[e] + 1)
            /\ UNCHANGED <<reply, finalizer, inbound>>
            /\ job'[e] = "user_turn" => sent_chunks[e] + 1 = reply[e]
            /\ job'[e] \in {"send", "user_turn"}
        BY <1>0, <3>3 DEF SendChunk, AfterChunk, Goto
      <4>2. /\ sent_chunks[e] + 1 = reply[e]
            /\ reply[e] \in Undecided .. MaxChunks /\ sent_chunks[e] \in 0 .. MaxChunks
        BY <1>0, <2>4, <3>0, <4>1
      <4>3. \A l \in 1 .. sent_chunks[e] : Said(e, l)
        BY <4>1 DEF SendInv
      <4>4. reply[e] # Undecided /\ reply[e] \in 0 .. MaxChunks
            /\ \A l \in 1 .. reply[e] : l \in Int /\ (l \in 1 .. sent_chunks[e] \/ l = reply[e])
        BY <1>0, <4>2 DEF Undecided
      <4>5. Received(e, reply[e])
        BY <4>1, <4>2
      <4>6. Said(e, reply[e])'
        <5>1. \A k \in 0 .. MaxChunks : Received(e, k) => Said(e, k)'
          BY SaidStays
        <5>2. PICK k \in 0 .. MaxChunks : k = reply[e]
          BY <4>4
        <5>3. Said(e, k)'
          BY <4>5, <5>1, <5>2
        <5>4. k = reply'[e]
          BY <4>1, <5>2
        <5> QED BY <4>1, <5>3, <5>4 DEF Said
      <4>7. \A l \in 1 .. reply'[e] : Said(e, l)'
        <5> SUFFICES ASSUME NEW l \in 1 .. reply'[e] PROVE Said(e, l)'
          OBVIOUS
        <5>1. l \in 1 .. reply[e] /\ reply'[e] = reply[e]
          BY <4>1
        <5>2. l \in Int /\ (l \in 1 .. sent_chunks[e] \/ l = reply[e])
          BY <4>4, <5>1
        <5>3. CASE l \in 1 .. sent_chunks[e]
          BY <2>1, <4>3, <5>2, <5>3
        <5>4. CASE l = reply[e]
          BY <4>1, <4>6, <5>1, <5>4 DEF Said
        <5> QED BY <5>2, <5>3, <5>4
      <4> QED BY <4>1, <4>4, <4>7 DEF Answered
    <3>4. CASE PublishUserTurn(e) \/ PublishAssistantTurn(e)
      <4>1. job[e] \in {"user_turn", "assistant_turn"} /\ UNCHANGED <<chat, reply>>
        BY <3>4 DEF PublishUserTurn, PublishAssistantTurn
      <4> QED BY <2>2, <4>1 DEF AnswerInv
    <3>5. CASE EnterGate(e) \/ Dedupe(e) \/ StoreError(e) \/ DecideIgnore(e) \/ DecideAbort(e)
               \/ SendAbort(e) \/ SendError(e)
      <4>1. /\ UNCHANGED <<finalizer, inbound>>
            /\ job'[e] \notin {"user_turn", "assistant_turn"}
        BY <1>0, <3>5 DEF EnterGate, Dedupe, StoreError, DecideIgnore, DecideAbort, SendAbort,
                          SendError, Goto, EndJob
      <4> QED BY <2>4, <3>0, <4>1
    <3> QED BY <1>2, <3>1, <3>2, <3>3, <3>4, <3>5 DEF JobStep
  <2> HIDE DEF Due
  <2>5. \A f \in Event : Due(f)' => Answered(f)'
    BY <2>3, <2>4
  <2> QED BY <2>5 DEF AnswerInv, Due
<1>3. ASSUME NEW e \in Event, FinalizerStep(e) PROVE AnswerInv'
  <2>1. UNCHANGED <<chat, reply, job>>
    BY <1>3, FinalizerFrames
  <2>2. finalizer[e] # "none"
    BY <1>3, FinalizerFrames
  <2>3. \A f \in Event : f # e => finalizer'[f] = finalizer[f] /\ inbound'[f] = inbound[f]
    BY <1>0, <1>3, FinalizerFrames
  <2> QED BY <1>1, <2>1, <2>2, <2>3
<1>4. CASE IngestStep
  <2>1. \A e \in Event : inbound'[e] = inbound[e] \/ inbound'[e] = "received"
    BY <1>0, <1>4 DEF IngestStep, HandlerStep, Arrive, Poll, Insert, InsertDuplicate, InsertFails,
                      Enqueue, Count, HangUp
  <2> QED BY <1>1, <1>4, <2>1, IngestFrame
<1>5. CASE Dispatch \/ Restart
  <2>1. /\ UNCHANGED <<chat, reply, inbound>>
        /\ \A e \in Event : job'[e] = job[e] \/ job'[e] \in {"none", "gate"}
        /\ \A e \in Event : finalizer'[e] = finalizer[e] \/ finalizer'[e] = "none"
    BY <1>0, <1>5 DEF Dispatch, Restart, IngestRestart
  <2> QED BY <1>1, <2>1
<1>6. CASE Receive \/ Control \/ Rest \/ UNCHANGED vars
  <2>1. UNCHANGED <<job, chat, reply, inbound, finalizer>>
    BY <1>6, StutterFrame DEF Receive
  <2> QED BY <1>1, <2>1
<1> QED BY <1>2, <1>3, <1>4, <1>5, <1>6 DEF Next

-----------------------------------------------------------------------------
(* The polling loop passes an update by, and Telegram forgets one, only    *)
(* when its row is there.                                                  *)
LEMMA NextConfirm ==
  ASSUME TypeOK, HandlerInv, ConfirmInv, [Next]_vars
  PROVE  ConfirmInv'
<1>0. /\ IngestTypeOK /\ arrived \in 0 .. MaxEvents /\ MaxEvents \in Nat
      /\ open \subseteq 1 .. arrived
      /\ offset \in 0 .. arrived /\ cursor \in 0 .. offset
      /\ 1 .. arrived \subseteq Event
      /\ mode \in {"polling", "webhook"}
      /\ disturbed \in [Disturbance -> 0 .. MaxDisturbances]
  BY IngestAssumption DEF TypeOK, IngestTypeOK, Event
<1>1. \A e \in 1 .. arrived : inbound[e] # "none" => inbound'[e] # "none"
  BY <1>0, RowsStay
<1>2. ASSUME UNCHANGED <<mode, arrived>>,
             disturbed'["store"] = 0 => disturbed["store"] = 0,
             \A e \in 1 .. arrived : e \notin open' => e \notin open \/ inbound'[e] # "none"
                                                     \/ (mode = "polling" /\ e <= cursor),
             mode = "polling" /\ disturbed'["store"] = 0 =>
               \A e \in 1 .. arrived : e <= cursor' =>
                 e <= cursor \/ e \notin open \/ inbound'[e] # "none"
      PROVE  ConfirmInv'
  BY <1>0, <1>1, <1>2 DEF ConfirmInv
<1>3. CASE Arrive
  <2>1. /\ arrived' = arrived + 1 /\ open' = open \cup {arrived + 1}
        /\ UNCHANGED <<mode, cursor, inbound, disturbed>>
    BY <1>3 DEF Arrive
  <2>2. \A e \in 1 .. arrived' : e \notin open' \/ e <= cursor => e \in 1 .. arrived
    BY <1>0, <2>1
  <2>3. \A e \in 1 .. arrived : e \notin open' => e \notin open
    BY <2>1
  <2> QED BY <1>0, <2>1, <2>2, <2>3 DEF ConfirmInv
<1>4. CASE Poll
  <2>1. /\ mode = "polling" /\ cursor = offset /\ UNCHANGED <<mode, arrived, inbound>>
        /\ open' = {e \in open : e > offset}
        /\ \A e \in 1 .. arrived : e <= cursor' => e <= cursor \/ e \notin open'
        /\ disturbed'["store"] = 0 => disturbed["store"] = 0
    BY <1>0, <1>4, PollType
  <2>2. \A e \in 1 .. arrived : e \notin open' => e \notin open \/ e <= cursor
    BY <1>0, <2>1
  <2>3. \A e \in 1 .. arrived : e <= cursor' => e <= cursor \/ e \notin open
    BY <1>0, <2>1, <2>2
  <2> QED BY <1>2, <2>1, <2>2, <2>3
<1>5. ASSUME NEW h \in Handler, NEW e \in Event,
             Insert(h, e) \/ InsertDuplicate(h, e) \/ InsertFails(h, e)
      PROVE  ConfirmInv'
  <2>1. /\ TakeUp(h, e) /\ UNCHANGED <<mode, arrived, offset>>
        /\ disturbed'["store"] > 0 \/ inbound'[e] # "none"
        /\ \/ UNCHANGED open
           \/ inbound'[e] # "none" /\ Acknowledge(e)
        /\ disturbed'["store"] = 0 => disturbed["store"] = 0
    BY <1>0, <1>5, InsertFrames
  <2>2. /\ mode = "polling" => cursor < offset /\ e = cursor + 1 /\ cursor' = e
        /\ e \in 1 .. arrived
    BY <1>0, <2>1, TakeUpType
  <2>3. \A f \in 1 .. arrived : f \notin open' => f \notin open \/ inbound'[f] # "none"
    BY <1>0, <2>1, AcknowledgeType
  <2>4. mode = "polling" /\ disturbed'["store"] = 0 =>
          \A f \in 1 .. arrived : f <= cursor' => f <= cursor \/ inbound'[f] # "none"
    <3> SUFFICES ASSUME mode = "polling", disturbed'["store"] = 0, NEW f \in 1 .. arrived,
                        f <= cursor'
                 PROVE  f <= cursor \/ inbound'[f] # "none"
      OBVIOUS
    <3>1. f <= cursor \/ f = e
      BY <1>0, <2>2
    <3> QED BY <2>1, <3>1
  <2> QED BY <1>2, <2>1, <2>3, <2>4
<1>6. ASSUME NEW h \in Handler, Enqueue(h) \/ HangUp(h) PROVE ConfirmInv'
  <2>1. UNCHANGED <<mode, arrived, open, cursor, inbound>>
    BY <1>6 DEF Enqueue, HangUp
  <2>2. disturbed'["store"] = 0 => disturbed["store"] = 0
    BY <1>0, <1>6, DisturbType DEF Enqueue, HangUp, ChannelFault, Disturbance
  <2> QED BY <1>2, <2>1, <2>2
<1>7. ASSUME NEW h \in Handler, Count(h) PROVE ConfirmInv'
  <2>1. /\ UNCHANGED <<mode, arrived, cursor, inbound>>
        /\ Acknowledge(handler[h].event)
        /\ handler[h].event \in Event /\ inbound[handler[h].event] # "none"
    BY <1>7 DEF Count, HandlerInv
  <2>2. /\ \A f \in open : f # handler[h].event => f \in open'
        /\ disturbed'["store"] = 0 => disturbed["store"] = 0
    BY <1>0, <2>1, AcknowledgeType
  <2>3. \A f \in 1 .. arrived : f \notin open' => f \notin open \/ inbound'[f] # "none"
    BY <2>1, <2>2
  <2> QED BY <1>2, <2>1, <2>2, <2>3
<1>8. CASE Restart
  <2>1. /\ UNCHANGED <<mode, arrived, open, inbound>> /\ cursor' = 0
        /\ Disturb("restart")
    BY <1>8 DEF Restart, IngestRestart
  <2>2. disturbed'["store"] = 0 => disturbed["store"] = 0
    BY <1>0, <2>1, DisturbType DEF Disturbance
  <2>3. \A e \in 1 .. arrived : ~(e <= cursor')
    BY <1>0, <2>1
  <2> QED BY <1>2, <2>1, <2>2, <2>3
<1>9. ASSUME UNCHANGED <<mode, arrived, open, cursor>>,
             \E kind \in Disturbance : UNCHANGED disturbed \/ Disturb(kind)
      PROVE  ConfirmInv'
  <2>1. disturbed'["store"] = 0 => disturbed["store"] = 0
    BY <1>0, <1>9, DisturbType
  <2> QED BY <1>2, <1>9, <2>1
<1>10. CASE Receive \/ Dispatch \/ (\E e \in Event : JobStep(e))
            \/ (\E e \in Event : FinalizerStep(e)) \/ Control \/ Rest \/ UNCHANGED vars
  <2>1. UNCHANGED <<mode, arrived, open, cursor>>
    BY <1>10, JobFrames, FinalizerFrames, StutterFrame DEF Receive, Dispatch, ingestVars
  <2>2. \/ UNCHANGED disturbed \/ Disturb("store") \/ Disturb("channel") \/ Disturb("control")
    BY <1>10, JobFrames, FinalizerFrames, StutterFrame DEF Receive, Dispatch
  <2>3. {"store", "channel", "control"} \subseteq Disturbance
    BY DEF Disturbance
  <2> QED BY <1>9, <2>1, <2>2, <2>3
<1> QED BY <1>3, <1>4, <1>5, <1>6, <1>7, <1>8, <1>10 DEF Next, IngestStep, HandlerStep

-----------------------------------------------------------------------------
(* The hot history: publishing a turn appends it and may drop the oldest.  *)
LEMMA PublishSteps ==
  ASSUME TypeOK, NEW e \in Event, NEW role \in {"user", "assistant"}, PublishHotTurn(e, role)
  PROVE  LET c == ConversationOf[e] IN
         /\ c \in Conversation
         /\ \A d \in Conversation : d # c => hot_turns'[d] = hot_turns[d]
         /\ Len(hot_turns[c]) \in Nat /\ Len(hot_turns'[c]) \in 1 .. Len(hot_turns[c]) + 1
         /\ hot_turns'[c][Len(hot_turns'[c])] = <<e, role>>
         /\ \E d \in Nat :
              /\ Len(hot_turns'[c]) + d = Len(hot_turns[c]) + 1
              /\ \A i \in 1 .. Len(hot_turns'[c]) - 1 : hot_turns'[c][i] = hot_turns[c][i + d]
<1> DEFINE c == ConversationOf[e]
           S == Event \X {"user", "assistant"}
           s == Append(hot_turns[c], <<e, role>>)
           t == LastOf(s, HotTurnCap)
           d == Len(s) - Len(t)
<1>1. c \in Conversation /\ HotTurnCap \in Nat \ {0}
  BY PipelineAssumption
<1>2. hot_turns \in [Conversation -> Seq(S)] /\ <<e, role>> \in S
  BY DEF TypeOK
<1>3. hot_turns' = [hot_turns EXCEPT ![c] = t]
  BY DEF PublishHotTurn
<1> HIDE DEF S, t, d
<1>4. hot_turns[c] \in Seq(S)
  BY <1>1, <1>2
<1>5. /\ s \in Seq(S) /\ Len(s) = Len(hot_turns[c]) + 1 /\ Len(hot_turns[c]) \in Nat
      /\ \A i \in 1 .. Len(hot_turns[c]) : s[i] = hot_turns[c][i]
      /\ s[Len(hot_turns[c]) + 1] = <<e, role>>
  BY <1>2, <1>4
<1> HIDE DEF s
<1>6. /\ t \in Seq(S) /\ Len(t) \in 1 .. Len(s)
      /\ \A i \in 1 .. Len(t) : t[i] = s[i + d]
  <2>1. s \in Seq(S) /\ Len(s) > 0 /\ HotTurnCap \in Nat \ {0}
    BY <1>1, <1>5
  <2>2. LET x == LastOf(s, HotTurnCap)  y == Len(s) - Len(x) IN
        /\ x \in Seq(S) /\ Len(x) \in 1 .. Len(s)
        /\ \A i \in 1 .. Len(x) : x[i] = s[i + y]
    BY ONLY <2>1, LastOfIsEnd
  <2> QED BY <2>2 DEF t, d
<1>7. hot_turns'[c] = t /\ \A x \in Conversation : x # c => hot_turns'[x] = hot_turns[x]
  BY <1>1, <1>2, <1>3
<1>8. /\ d \in Nat /\ Len(t) + d = Len(hot_turns[c]) + 1
      /\ \A i \in 1 .. Len(t) - 1 : i + d \in 1 .. Len(hot_turns[c])
      /\ Len(t) \in 1 .. Len(t)
  BY <1>5, <1>6 DEF d
<1>9. t[Len(t)] = <<e, role>> /\ \A i \in 1 .. Len(t) - 1 : t[i] = hot_turns[c][i + d]
  <2>1. t[Len(t)] = s[Len(t) + d]
    BY <1>6, <1>8
  <2>2. t[Len(t)] = <<e, role>>
    BY <1>5, <1>8, <2>1
  <2>3. ASSUME NEW i \in 1 .. Len(t) - 1 PROVE t[i] = hot_turns[c][i + d]
    <3>1. i \in 1 .. Len(t)
      BY <1>6
    <3>2. t[i] = s[i + d]
      BY <1>6, <3>1
    <3> QED BY <1>5, <1>8, <3>2
  <2> QED BY <2>2, <2>3
<1> QED BY <1>1, <1>5, <1>6, <1>7, <1>8, <1>9

(* Only the two publishing steps of a job touch the hot history.           *)
LEMMA JobHot ==
  ASSUME TypeOK, NEW e \in Event, JobStep(e)
  PROVE  \/ PublishUserTurn(e) /\ job'[e] = "assistant_turn"
         \/ PublishAssistantTurn(e) /\ job'[e] = "none"
         \/ UNCHANGED hot_turns /\ job[e] # "assistant_turn" /\ job'[e] # "assistant_turn"
<1>1. job \in [Event -> JobStage]
  BY DEF TypeOK
<1> QED BY <1>1
  DEF JobStep, EnterGate, Dedupe, StoreError, DecideReply, DecideIgnore, DecideAbort, SendAbort,
      Close, SendChunk, AfterChunk, SendError, PublishUserTurn, PublishAssistantTurn, Goto, EndJob

(* A hot turn is an event and a side.                                      *)
LEMMA HotTypes ==
  ASSUME TypeOK, NEW c \in Conversation
  PROVE  /\ Len(hot_turns[c]) \in Nat
         /\ \A i \in 1 .. Len(hot_turns[c]) : /\ hot_turns[c][i] \in Event \X {"user", "assistant"}
                                              /\ hot_turns[c][i][1] \in Event
                                              /\ hot_turns[c][i][2] \in {"user", "assistant"}
<1> DEFINE S == Event \X {"user", "assistant"}
<1>1. hot_turns[c] \in Seq(S)
  BY DEF TypeOK
<1>2. Len(hot_turns[c]) \in Nat /\ \A i \in 1 .. Len(hot_turns[c]) : hot_turns[c][i] \in S
  <2> HIDE DEF S
  <2> QED BY <1>1
<1> QED BY <1>2

(* Every step keeps the hot turns in pairs.                                *)
LEMMA NextHot ==
  ASSUME TypeOK, PlaceInv, GateInv, HotInv, [Next]_vars
  PROVE  HotInv'
<1>0. /\ job \in [Event -> JobStage]
      /\ \A e \in Event : ConversationOf[e] \in Conversation
  BY PipelineAssumption DEF TypeOK
<1>1. ASSUME UNCHANGED hot_turns,
             \A e \in Event : job'[e] = "assistant_turn" <=> job[e] = "assistant_turn"
      PROVE  HotInv'
  <2>1. \A c \in Conversation : Len(hot_turns[c]) > 0 =>
          hot_turns[c][Len(hot_turns[c])][1] \in Event
    BY HotTypes
  <2> QED BY <1>1, <2>1 DEF HotInv
<1>2. ASSUME NEW e \in Event, JobStep(e) PROVE HotInv'
  <2> DEFINE c == ConversationOf[e]
             HotOK(d) ==
               /\ \A f \in Event : job[f] = "assistant_turn" /\ ConversationOf[f] = d =>
                    Len(hot_turns[d]) > 0 /\ hot_turns[d][Len(hot_turns[d])] = <<f, "user">>
               /\ Len(hot_turns[d]) > 0 /\ hot_turns[d][Len(hot_turns[d])][2] = "user" =>
                    /\ job[hot_turns[d][Len(hot_turns[d])][1]] = "assistant_turn"
                    /\ ConversationOf[hot_turns[d][Len(hot_turns[d])][1]] = d
  <2>1. \A f \in Event : f # e => job'[f] = job[f]
    BY <1>2, JobOnly
  <2>2. CASE UNCHANGED hot_turns /\ job[e] # "assistant_turn" /\ job'[e] # "assistant_turn"
    BY <1>1, <2>1, <2>2
  <2>3. ASSUME NEW role \in {"user", "assistant"}, PublishHotTurn(e, role),
               job[e] \in {"user_turn", "assistant_turn"},
               role = "user" => job'[e] = "assistant_turn",
               role = "assistant" => job'[e] = "none"
        PROVE  HotInv'
    <3>1. \A f \in Event : job[f] = "assistant_turn" /\ ConversationOf[f] = c => f = e
      BY <2>3 DEF GateInv, Inside
    <3>2. HotOK(c)'
      <4>1. /\ Len(hot_turns'[c]) > 0
            /\ hot_turns'[c][Len(hot_turns'[c])] = <<e, role>>
        <5>1. /\ Len(hot_turns[c]) \in Nat
              /\ Len(hot_turns'[c]) \in 1 .. Len(hot_turns[c]) + 1
              /\ hot_turns'[c][Len(hot_turns'[c])] = <<e, role>>
          BY <2>3, PublishSteps
        <5> QED BY <5>1
      <4> QED BY <2>1, <2>3, <3>1, <4>1
    <3>3. ASSUME NEW d \in Conversation, d # c PROVE HotOK(d)'
      <4>1. hot_turns'[d] = hot_turns[d]
        BY <2>3, <3>3, PublishSteps
      <4>2. HotOK(d)
        BY DEF HotInv
      <4>3. Len(hot_turns[d]) > 0 => hot_turns[d][Len(hot_turns[d])][1] \in Event
        BY HotTypes
      <4> QED BY <2>1, <3>3, <4>1, <4>2, <4>3
    <3>4. \A d \in Conversation : HotOK(d)'
      <4> HIDE DEF HotOK
      <4> QED BY <3>2, <3>3
    <3> QED BY <3>4 DEF HotInv
  <2>4. CASE PublishUserTurn(e) /\ job'[e] = "assistant_turn"
    BY <2>3, <2>4 DEF PublishUserTurn
  <2>5. CASE PublishAssistantTurn(e) /\ job'[e] = "none"
    BY <2>3, <2>5 DEF PublishAssistantTurn
  <2> QED BY <1>2, <2>2, <2>4, <2>5, JobHot
<1>3. CASE Dispatch
  <2>1. job' = [job EXCEPT ![worker] = "gate"] /\ worker \in Event /\ UNCHANGED hot_turns
    BY <1>3, QueueTypes DEF Dispatch
  <2>2. job[worker] = "none"
    BY <2>1 DEF PlaceInv
  <2> QED BY <1>0, <1>1, <2>1, <2>2
<1>4. CASE Restart
  <2>1. /\ \A c \in Conversation : hot_turns'[c] = <<>> /\ Len(hot_turns'[c]) = 0
        /\ \A e \in Event : job'[e] = "none"
    BY <1>4 DEF Restart
  <2> QED BY <2>1 DEF HotInv
<1>5. CASE IngestStep \/ Receive \/ (\E e \in Event : FinalizerStep(e)) \/ Control \/ Rest
           \/ UNCHANGED vars
  <2>1. UNCHANGED <<job, hot_turns>>
    BY <1>5, IngestFrame, FinalizerFrames, StutterFrame DEF Receive
  <2> QED BY <1>1, <2>1
<1> QED BY <1>2, <1>3, <1>4, <1>5 DEF Next

(* The history alternates, and it is a user's turn that comes last while   *)
(* an answer is being published.                                           *)
LEMMA NextAlternates ==
  ASSUME TypeOK, TypeOK', GateInv, HotInv, HotTurnsAlternate, [Next]_vars
  PROVE  HotTurnsAlternate'
<1> DEFINE Fits(this, next) ==
             IF this[2] = "user" THEN next = <<this[1], "assistant">> ELSE next[2] = "user"
           Alternates(c) ==
             \A i \in 1 .. Len(hot_turns[c]) : i < Len(hot_turns[c]) =>
               Fits(hot_turns[c][i], hot_turns[c][i + 1])
<1>0. HotTurnsAlternate <=> \A c \in Conversation : Alternates(c)
  <2>1. \A c \in Conversation : DOMAIN hot_turns[c] = 1 .. Len(hot_turns[c])
    <3> DEFINE S == Event \X {"user", "assistant"}
    <3>1. \A c \in Conversation : hot_turns[c] \in Seq(S)
      BY DEF TypeOK
    <3> HIDE DEF S
    <3> QED BY <3>1
  <2> QED BY <2>1 DEF HotTurnsAlternate
<1>1. HotTurnsAlternate' <=> \A c \in Conversation : Alternates(c)'
  <2>1. \A c \in Conversation : DOMAIN hot_turns'[c] = 1 .. Len(hot_turns'[c])
    <3> DEFINE S == Event \X {"user", "assistant"}
    <3>1. \A c \in Conversation : hot_turns'[c] \in Seq(S)
      BY DEF TypeOK
    <3> HIDE DEF S
    <3> QED BY <3>1
  <2> QED BY <2>1 DEF HotTurnsAlternate
<1>2. CASE UNCHANGED hot_turns
  BY <1>2 DEF HotTurnsAlternate
<1>3. ASSUME NEW e \in Event, NEW role \in {"user", "assistant"}, PublishHotTurn(e, role),
             LET s == hot_turns[ConversationOf[e]] IN
               Len(s) > 0 => Fits(s[Len(s)], <<e, role>>)
      PROVE  \A c \in Conversation : Alternates(c)'
  <2> SUFFICES ASSUME NEW c \in Conversation PROVE Alternates(c)'
    OBVIOUS
  <2>1. CASE c # ConversationOf[e]
    <3>1. hot_turns'[c] = hot_turns[c]
      BY <1>3, <2>1, PublishSteps
    <3> QED BY <1>0, <3>1
  <2>2. CASE c = ConversationOf[e]
    <3> DEFINE s == hot_turns[c]
               t == hot_turns'[c]
    <3>1. /\ Len(s) \in Nat /\ Len(t) \in 1 .. Len(s) + 1
          /\ t[Len(t)] = <<e, role>>
          /\ \E d \in Nat : /\ Len(t) + d = Len(s) + 1
                            /\ \A i \in 1 .. Len(t) - 1 : t[i] = s[i + d]
      BY <1>3, <2>2, PublishSteps
    <3>2. /\ \A i \in 1 .. Len(s) : i < Len(s) => Fits(s[i], s[i + 1])
          /\ Len(s) > 0 => Fits(s[Len(s)], <<e, role>>)
      BY <1>0, <1>3, <2>2
    <3> HIDE DEF s, t, Fits
    <3>3. PICK d \in Nat : /\ Len(t) + d = Len(s) + 1
                           /\ \A i \in 1 .. Len(t) - 1 : t[i] = s[i + d]
      BY <3>1
    <3>4. ASSUME NEW i \in 1 .. Len(t), i < Len(t) PROVE Fits(t[i], t[i + 1])
      <4>1. i \in 1 .. Len(t) - 1 /\ t[i] = s[i + d] /\ i + d \in 1 .. Len(s)
        BY <3>1, <3>3, <3>4
      <4>2. CASE i + 1 = Len(t)
        <5>1. i + d = Len(s) /\ Len(s) > 0
          BY <3>1, <3>3, <4>1, <4>2
        <5> QED BY <3>1, <3>2, <4>1, <4>2, <5>1
      <4>3. CASE i + 1 < Len(t)
        <5>1. i + 1 \in 1 .. Len(t) - 1 /\ i + d < Len(s) /\ (i + 1) + d = (i + d) + 1
          BY <3>1, <3>3, <4>1, <4>3
        <5>2. t[i + 1] = s[(i + d) + 1]
          BY <3>3, <5>1
        <5> QED BY <3>2, <4>1, <5>1, <5>2
      <4> QED BY <3>1, <3>4, <4>2, <4>3
    <3> QED BY <3>4 DEF s, t
  <2> QED BY <2>1, <2>2
<1>4. ASSUME NEW e \in Event, JobStep(e)
      PROVE  UNCHANGED hot_turns \/ \A c \in Conversation : Alternates(c)'
  <2> DEFINE c == ConversationOf[e]
  <2>0. c \in Conversation
    BY PipelineAssumption
  <2>1. CASE PublishUserTurn(e)
    <3>1. job[e] = "user_turn" /\ PublishHotTurn(e, "user")
      BY <2>1 DEF PublishUserTurn
    <3>2. ASSUME Len(hot_turns[c]) > 0 PROVE hot_turns[c][Len(hot_turns[c])][2] # "user"
      <4> DEFINE last == hot_turns[c][Len(hot_turns[c])]
      <4>1. last[1] \in Event
        BY <2>0, <3>2, HotTypes
      <4>2. ASSUME last[2] = "user" PROVE FALSE
        <5>1. job[last[1]] = "assistant_turn" /\ ConversationOf[last[1]] = c
          BY <2>0, <3>2, <4>2 DEF HotInv
        <5> HIDE DEF last
        <5>2. last[1] = e
          BY <3>1, <4>1, <5>1 DEF GateInv, Inside
        <5> QED BY <3>1, <5>1, <5>2
      <4> QED BY <4>2
    <3> QED BY <1>3, <3>1, <3>2
  <2>2. CASE PublishAssistantTurn(e)
    <3>1. job[e] = "assistant_turn" /\ PublishHotTurn(e, "assistant")
      BY <2>2 DEF PublishAssistantTurn
    <3>2. hot_turns[c][Len(hot_turns[c])] = <<e, "user">>
      BY <2>0, <3>1 DEF HotInv
    <3> QED BY <1>3, <3>1, <3>2
  <2> QED BY <1>4, <2>1, <2>2, JobHot
<1>5. CASE Restart
  <2>1. \A c \in Conversation : hot_turns'[c] = <<>>
    BY <1>5 DEF Restart
  <2> QED BY <2>1 DEF HotTurnsAlternate
<1>6. CASE IngestStep \/ Receive \/ Dispatch \/ (\E e \in Event : FinalizerStep(e)) \/ Control
           \/ Rest \/ UNCHANGED vars
  <2>1. UNCHANGED hot_turns
    BY <1>6, IngestFrame, FinalizerFrames, StutterFrame DEF Receive, Dispatch
  <2> QED BY <1>2, <2>1
<1> QED BY <1>1, <1>2, <1>4, <1>5, <1>6 DEF Next

-----------------------------------------------------------------------------
(* A chunk goes behind the one before it, and never twice.                 *)
LEMMA HistoryTypes ==
  ASSUME NEW S, NEW s \in [Conversation -> Seq(S)]
  PROVE  \A c \in Conversation :
           /\ Len(s[c]) \in Nat /\ DOMAIN s[c] = 1 .. Len(s[c])
           /\ \A i \in 1 .. Len(s[c]) : s[c][i] \in S
OBVIOUS

(* Every step keeps replies whole.                                         *)
LEMMA NextReplies ==
  ASSUME TypeOK, TypeOK', ChatInv, SendInv, RepliesAreWhole, [Next]_vars
  PROVE  RepliesAreWhole'
<1>1. CASE UNCHANGED chat
  BY <1>1 DEF RepliesAreWhole
<1>2. ASSUME NEW e \in Event, JobStep(e), ~UNCHANGED chat PROVE RepliesAreWhole'
  <2>1. PICK k \in 0 .. MaxChunks :
          /\ Received(e, k)
          /\ \/ job[e] = "abort" /\ k = 0
             \/ job[e] = "send" /\ k = sent_chunks[e] + 1
    BY <1>2, JobChat
  <2> DEFINE c == ConversationOf[e]
             n == Len(chat[c])
             Whole(s, m) ==
               \A i \in 1 .. m :
                 /\ s[i][2] > 1 => i > 1 /\ s[i - 1] = <<s[i][1], s[i][2] - 1>>
                 /\ \A l \in 1 .. m : s[l] = s[i] => l = i
  <2>2. /\ c \in Conversation /\ n \in Nat /\ Len(chat'[c]) = n + 1
        /\ \A i \in 1 .. n : chat'[c][i] = chat[c][i]
        /\ chat'[c][n + 1] = <<e, k>>
        /\ \A d \in Conversation : d # c => chat'[d] = chat[d]
    BY <2>1, ReceivedSteps
  <2>3. /\ \A d \in Conversation : Whole(chat[d], Len(chat[d]))
        /\ (\A d \in Conversation : Whole(chat'[d], Len(chat'[d]))) => RepliesAreWhole'
    <3> DEFINE S == Event \X (0 .. MaxChunks)
    <3>1. chat \in [Conversation -> Seq(S)] /\ chat' \in [Conversation -> Seq(S)]
      BY DEF TypeOK
    <3>2. \A d \in Conversation : DOMAIN chat[d] = 1 .. Len(chat[d])
                                 /\ DOMAIN chat'[d] = 1 .. Len(chat'[d])
      <4> HIDE DEF S
      <4> QED BY <3>1, HistoryTypes
    <3>3. \A d \in Conversation : Whole(chat[d], Len(chat[d]))
      BY <3>2 DEF RepliesAreWhole
    <3>4. (\A d \in Conversation : Whole(chat'[d], Len(chat'[d]))) => RepliesAreWhole'
      BY <3>2 DEF RepliesAreWhole
    <3> HIDE DEF Whole
    <3> QED BY <3>3, <3>4
  <2>4. \A i \in 1 .. n : chat[c][i] # <<e, k>>
    <3>1. CASE job[e] = "abort"
      BY <2>2, <3>1 DEF ChatInv
    <3>2. CASE job[e] = "send" /\ k = sent_chunks[e] + 1
      <4>1. \A i \in 1 .. n : chat[c][i][1] = e => chat[c][i][2] <= sent_chunks[e]
        BY <3>2 DEF SendInv
      <4>2. sent_chunks[e] \in Nat
        BY PipelineAssumption DEF TypeOK
      <4>3. ASSUME NEW i \in 1 .. n, chat[c][i] = <<e, k>> PROVE FALSE
        <5>1. k <= sent_chunks[e]
          BY <4>1, <4>3
        <5> QED BY <3>2, <4>2, <5>1
      <4> QED BY <4>3
    <3> QED BY <2>1, <3>1, <3>2
  <2>5. k > 1 => n > 0 /\ chat[c][n] = <<e, k - 1>>
    <3> SUFFICES ASSUME k > 1 PROVE n > 0 /\ chat[c][n] = <<e, k - 1>>
      OBVIOUS
    <3>1. sent_chunks[e] \in Nat
      BY PipelineAssumption DEF TypeOK
    <3>2. job[e] = "send" /\ k = sent_chunks[e] + 1 /\ sent_chunks[e] > 0
          /\ k - 1 = sent_chunks[e]
      BY <2>1, <3>1
    <3> QED BY <3>2 DEF SendInv
  <2>6. Whole(chat'[c], Len(chat'[c]))
    <3>1. Whole(chat[c], n)
      BY <2>2, <2>3
    <3> DEFINE s == chat[c]
               t == chat'[c]
    <3>2. /\ n \in Nat /\ Len(t) = n + 1 /\ t[n + 1] = <<e, k>> /\ k \in Nat
          /\ \A i \in 1 .. n : t[i] = s[i] /\ s[i] # <<e, k>>
          /\ k > 1 => n > 0 /\ s[n] = <<e, k - 1>>
      BY <2>2, <2>4, <2>5
    <3> HIDE DEF s, t, n
    <3>3. ASSUME NEW i \in 1 .. n + 1
          PROVE  t[i][2] > 1 => i > 1 /\ t[i - 1] = <<t[i][1], t[i][2] - 1>>
      <4>1. CASE i \in 1 .. n
        <5>1. s[i][2] > 1 => i > 1 /\ s[i - 1] = <<s[i][1], s[i][2] - 1>>
          BY <3>1, <4>1 DEF s
        <5>2. i > 1 => i - 1 \in 1 .. n
          BY <3>2, <4>1
        <5> QED BY <3>2, <4>1, <5>1, <5>2
      <4>2. CASE i = n + 1
        <5>1. t[i][1] = e /\ t[i][2] = k
          BY <3>2, <4>2
        <5>2. k > 1 => n \in 1 .. n /\ i > 1 /\ i - 1 = n
          BY <3>2, <4>2
        <5> QED BY <3>2, <5>1, <5>2
      <4> QED BY <3>2, <4>1, <4>2
    <3>4. ASSUME NEW i \in 1 .. n + 1, NEW l \in 1 .. n + 1, t[l] = t[i] PROVE l = i
      <4>1. \A j, m \in 1 .. n : s[j] = s[m] => j = m
        BY <3>1 DEF s
      <4>2. i \in 1 .. n \/ i = n + 1
        BY <3>2
      <4>3. l \in 1 .. n \/ l = n + 1
        BY <3>2
      <4> QED BY <3>2, <3>4, <4>1, <4>2, <4>3
    <3>5. Whole(t, n + 1)
      BY <3>3, <3>4
    <3> QED BY <3>2, <3>5 DEF t
  <2>7. \A d \in Conversation : Whole(chat'[d], Len(chat'[d]))
    <3> HIDE DEF Whole
    <3>1. \A d \in Conversation : d # c => Whole(chat'[d], Len(chat'[d]))
      BY <2>2, <2>3
    <3> QED BY <2>6, <3>1
  <2> QED BY <2>3, <2>7
<1>3. CASE IngestStep \/ Receive \/ Dispatch \/ (\E e \in Event : FinalizerStep(e)) \/ Control
           \/ Rest \/ Restart \/ UNCHANGED vars
  <2>1. UNCHANGED chat
    BY <1>3, IngestFrame, FinalizerFrames, StutterFrame DEF Receive, Dispatch, Restart
  <2> QED BY <1>1, <2>1
<1> QED BY <1>1, <1>2, <1>3 DEF Next

-----------------------------------------------------------------------------
(* The finalizer takes up what the job published.                          *)
LEMMA NextStored ==
  ASSUME TypeOK, TypeOK', PlaceInv, StoredInv, [Next]_vars
  PROVE  StoredInv'
<1>0. /\ job \in [Event -> JobStage] /\ finalizer \in [Event -> FinalizerStage]
      /\ disturbed \in [Disturbance -> 0 .. MaxDisturbances]
      /\ \A e \in Event : ConversationOf[e] \in Conversation
  BY PipelineAssumption DEF TypeOK, IngestTypeOK
<1>1. \A c \in Conversation : Len(hot_turns'[c]) \in Nat
        /\ \A i \in 1 .. Len(hot_turns'[c]) : hot_turns'[c][i][1] \in Event
  <2> DEFINE S == Event \X {"user", "assistant"}
  <2>1. hot_turns' \in [Conversation -> Seq(S)]
    BY DEF TypeOK
  <2>2. \A c \in Conversation : Len(hot_turns'[c]) \in Nat
          /\ \A i \in 1 .. Len(hot_turns'[c]) : hot_turns'[c][i] \in S
    <3> HIDE DEF S
    <3> QED BY <2>1, HistoryTypes
  <2> QED BY <2>2
<1>2. ASSUME NEW e \in Event,
             disturbed'["store"] = 0 => disturbed["store"] = 0,
             disturbed'["store"] = 0 => \A f \in Event : Underway(f) => Underway(f)',
             \/ UNCHANGED hot_turns
             \/ Underway(e)' /\ \E role \in {"user", "assistant"} : PublishHotTurn(e, role)
      PROVE  StoredInv'
  <2>1. CASE UNCHANGED hot_turns
    BY <1>1, <1>2, <2>1 DEF StoredInv, Underway
  <2>2. ASSUME NEW role \in {"user", "assistant"}, PublishHotTurn(e, role), Underway(e)',
               disturbed'["store"] = 0,
               NEW c \in Conversation, NEW i \in 1 .. Len(hot_turns'[c])
        PROVE  \E f \in Event : f = hot_turns'[c][i][1] /\ Underway(f)'
    <3>1. \A d \in Conversation : \A j \in 1 .. Len(hot_turns[d]) : Underway(hot_turns[d][j][1])
      BY <1>2, <2>2 DEF StoredInv, Underway
    <3>2. \/ hot_turns'[c][i] = <<e, role>>
          \/ \E j \in 1 .. Len(hot_turns[c]) : hot_turns'[c][i] = hot_turns[c][j]
      <4>1. CASE c # ConversationOf[e]
        BY <2>2, <4>1, PublishSteps
      <4>2. CASE c = ConversationOf[e]
        <5> DEFINE n == Len(hot_turns[c])
                   m == Len(hot_turns'[c])
        <5>1. /\ n \in Nat /\ m \in 1 .. n + 1 /\ hot_turns'[c][m] = <<e, role>>
              /\ \E d \in Nat : /\ m + d = n + 1
                                /\ \A j \in 1 .. m - 1 : hot_turns'[c][j] = hot_turns[c][j + d]
          BY <2>2, <4>2, PublishSteps
        <5>2. i \in 1 .. m
          OBVIOUS
        <5> HIDE DEF n, m
        <5>3. PICK d \in Nat : /\ m + d = n + 1
                               /\ \A j \in 1 .. m - 1 : hot_turns'[c][j] = hot_turns[c][j + d]
          BY <5>1
        <5>4. i = m \/ (i \in 1 .. m - 1 /\ i + d \in 1 .. n)
          BY <5>1, <5>2, <5>3
        <5> QED BY <5>1, <5>3, <5>4 DEF n
      <4> QED BY <4>1, <4>2
    <3>3. CASE hot_turns'[c][i] = <<e, role>>
      BY <2>2, <3>3
    <3>4. ASSUME NEW j \in 1 .. Len(hot_turns[c]), hot_turns'[c][i] = hot_turns[c][j]
          PROVE  \E f \in Event : f = hot_turns'[c][i][1] /\ Underway(f)'
      <4> DEFINE f == hot_turns[c][j][1]
      <4>1. PICK g \in Event : g = hot_turns'[c][i][1]
        BY <1>1
      <4>2. Underway(g)
        <5>1. Underway(f)
          BY <3>1
        <5>2. f = g
          BY <3>4, <4>1
        <5> QED BY <5>1, <5>2 DEF Underway
      <4> QED BY <1>2, <2>2, <4>1, <4>2
    <3> QED BY <3>2, <3>3, <3>4
  <2>3. ASSUME disturbed'["store"] = 0, ~UNCHANGED hot_turns,
               NEW c \in Conversation, NEW i \in 1 .. Len(hot_turns'[c])
        PROVE  \E f \in Event : f = hot_turns'[c][i][1] /\ Underway(f)'
    BY <1>2, <2>2, <2>3
  <2>4. CASE ~UNCHANGED hot_turns
    BY <2>3, <2>4 DEF StoredInv, Underway
  <2> QED BY <2>1, <2>4
<1>3. PICK any \in Event : TRUE
  BY IngestAssumption DEF Event
<1>4. ASSUME NEW e \in Event, JobStep(e) PROVE StoredInv'
  <2>1. disturbed'["store"] = 0 => disturbed["store"] = 0
    <3>1. {"store", "channel"} \subseteq Disturbance
      BY DEF Disturbance
    <3> QED BY <1>0, <1>4, <3>1, JobFrames, DisturbType
  <2>2. /\ \A f \in Event : f # e => job'[f] = job[f] /\ finalizer'[f] = finalizer[f]
        /\ turns \subseteq turns'
    BY <1>0, <1>4, JobOnly
       DEF JobStep, EnterGate, Dedupe, StoreError, DecideReply, DecideIgnore, DecideAbort,
           SendAbort, Close, SendChunk, SendError, PublishUserTurn, PublishAssistantTurn, tableVars
  <2>3. \A f \in Event : f # e => (Underway(f) => Underway(f)')
    BY <2>2 DEF Underway
  <2>4. CASE PublishUserTurn(e) /\ job'[e] = "assistant_turn"
    <3>1. Underway(e)'
      BY <2>4 DEF Underway
    <3> QED BY <1>2, <2>1, <2>3, <2>4, <3>1 DEF PublishUserTurn
  <2>5. CASE PublishAssistantTurn(e)
    <3>1. finalizer'[e] = "mark"
      BY <1>0, <2>5 DEF PublishAssistantTurn
    <3>2. Underway(e)'
      BY <3>1 DEF Underway
    <3> QED BY <1>2, <2>1, <2>3, <2>5, <3>2 DEF PublishAssistantTurn
  <2>6. CASE UNCHANGED hot_turns /\ job[e] # "assistant_turn" /\ job'[e] # "assistant_turn"
    <3>1. finalizer'[e] = finalizer[e] \/ finalizer'[e] = "mark"
      BY <1>0, <1>4
         DEF JobStep, EnterGate, Dedupe, StoreError, DecideReply, DecideIgnore, DecideAbort,
             SendAbort, Close, SendChunk, SendError, PublishUserTurn, PublishAssistantTurn
    <3>2. Underway(e) => Underway(e)'
      BY <2>2, <2>6, <3>1 DEF Underway
    <3> QED BY <1>2, <2>1, <2>3, <2>6, <3>2
  <2> QED BY <1>4, <2>4, <2>5, <2>6, JobHot
<1>5. ASSUME NEW e \in Event, FinalizerStep(e) PROVE StoredInv'
  <2>1. /\ UNCHANGED <<job, hot_turns>> /\ turns \subseteq turns'
        /\ \A f \in Event : f # e => finalizer'[f] = finalizer[f]
        /\ UNCHANGED disturbed \/ Disturb("store")
    BY <1>0, <1>5, FinalizerFrames
  <2>2. "store" \in Disturbance
    BY DEF Disturbance
  <2>3. disturbed'["store"] = 0 => disturbed["store"] = 0 /\ UNCHANGED disturbed
    BY <1>0, <2>1, <2>2, DisturbType
  <2>4. disturbed'["store"] = 0 => (Underway(e) => Underway(e)')
    <3> SUFFICES ASSUME disturbed'["store"] = 0, Underway(e) PROVE Underway(e)'
      OBVIOUS
    <3>0. ~StoreFault
      <4>1. ASSUME StoreFault PROVE FALSE
        <5>1. disturbed'["store"] = disturbed["store"] + 1 /\ disturbed["store"] \in Nat
          BY <1>0, <2>2, <4>1 DEF StoreFault, Disturb
        <5> QED BY <5>1
      <4> QED BY <4>1
    <3>1. CASE FinalizeMark(e) \/ FinalizeRows(e)
      <4>1. finalizer'[e] \in {"rows", "user_turn"}
        BY <1>0, <3>1 DEF FinalizeMark, FinalizeRows, FinalizerAt
      <4> QED BY <4>1 DEF Underway
    <3>2. CASE FinalizeTurn(e, "user", "user_turn", "assistant_turn")
      <4>1. finalizer'[e] = "assistant_turn" /\ <<e, "user">> \in turns'
        BY <1>0, <3>0, <3>2 DEF FinalizeTurn, FinalizerAt
      <4> QED BY <4>1 DEF Underway
    <3>3. CASE FinalizeTurn(e, "assistant", "assistant_turn", "none")
      <4>1. finalizer[e] = "assistant_turn" /\ <<e, "assistant">> \in turns'
        BY <1>0, <3>0, <3>3 DEF FinalizeTurn, FinalizerAt
      <4> QED BY <2>1, <4>1 DEF Underway
    <3> QED BY <1>5, <3>1, <3>2, <3>3 DEF FinalizerStep
  <2>5. \A f \in Event : f # e => (Underway(f) => Underway(f)')
    BY <2>1 DEF Underway
  <2> QED BY <1>2, <2>1, <2>3, <2>4, <2>5
<1>6. CASE Dispatch
  <2>1. /\ worker \in Event /\ job' = [job EXCEPT ![worker] = "gate"]
        /\ UNCHANGED <<finalizer, turns, hot_turns, disturbed>>
    BY <1>6, QueueTypes DEF Dispatch, tableVars
  <2>2. job[worker] = "none"
    BY <2>1 DEF PlaceInv
  <2>3. \A f \in Event : Underway(f) => Underway(f)'
    BY <1>0, <2>1, <2>2 DEF Underway
  <2> QED BY <1>2, <1>3, <2>1, <2>3
<1>7. CASE Restart
  <2>1. \A c \in Conversation : hot_turns'[c] = <<>> /\ Len(hot_turns'[c]) = 0
    BY <1>7 DEF Restart
  <2> QED BY <2>1 DEF StoredInv
<1>8. CASE IngestStep \/ Receive \/ Control \/ Rest \/ UNCHANGED vars
  <2>1. UNCHANGED <<job, finalizer, turns, hot_turns>>
    BY <1>8, IngestFrame, StutterFrame DEF Receive, tableVars
  <2>2. \A f \in Event : Underway(f) => Underway(f)'
    BY <2>1 DEF Underway
  <2>3. disturbed' \in [Disturbance -> 0 .. MaxDisturbances]
    BY DEF TypeOK, IngestTypeOK
  <2>4. disturbed'["store"] = 0 => disturbed["store"] = 0
    <3>1. \/ UNCHANGED disturbed
          \/ \E kind \in Disturbance : Disturb(kind)
      BY <1>8, StutterFrame
         DEF IngestStep, HandlerStep, Arrive, Poll, Insert, InsertDuplicate, InsertFails, Enqueue,
             Count, HangUp, Acknowledge, StoreFault, ChannelFault, Receive, Disturbance
    <3>2. PICK kind \in Disturbance : UNCHANGED disturbed \/ Disturb(kind)
      BY <3>1 DEF Disturbance
    <3> QED BY <1>0, <3>2, DisturbType
  <2> QED BY <1>2, <1>3, <2>1, <2>2, <2>4
<1> QED BY <1>4, <1>5, <1>6, <1>7, <1>8 DEF Next

-----------------------------------------------------------------------------
(* The counter follows the queue at the distance of the handlers between   *)
(* try_send and fetch_add.                                                 *)
LEMMA CountingIsFinite == \A S \in SUBSET Handler : IsFiniteSet(S)
<1>1. IsFiniteSet(Handler)
  BY IngestAssumption, FS_Interval DEF Handler
<1> QED BY <1>1, FS_Subset

(* Every step keeps the depth counter with the queue.                      *)
LEMMA NextDepth ==
  ASSUME TypeOK, HandlerInv, DepthIsExact, [Next]_vars
  PROVE  DepthIsExact'
<1>0. /\ handler \in [Handler -> [step : {"idle", "enqueue", "count"},
                                  event : Event \cup {NoEvent}]]
      /\ queue \in Seq(Event) /\ Len(queue) \in Nat /\ queue_depth \in Int
      /\ IsFiniteSet(Counting) /\ IsFiniteSet(Counting') /\ Cardinality(Counting) \in Nat
  <2>1. Counting \in SUBSET Handler /\ Counting' \in SUBSET Handler
    BY DEF Counting
  <2>2. IsFiniteSet(Counting) /\ IsFiniteSet(Counting')
    BY <2>1, CountingIsFinite
  <2>3. queue \in Seq(Event) /\ queue_depth \in Int
    BY DEF TypeOK, IngestTypeOK
  <2> QED BY <2>2, <2>3, QueueTypes, FS_CardinalityType
<1>1. /\ DepthIsExact <=> queue_depth + Cardinality(Counting) = Len(queue)
      /\ DepthIsExact' <=> queue_depth' + Cardinality(Counting') = Len(queue')
  BY DEF DepthIsExact, Counting
<1>2. ASSUME Counting' = Counting, UNCHANGED <<queue, queue_depth>> PROVE DepthIsExact'
  BY <1>1, <1>2
<1>3. ASSUME NEW h \in Handler, NEW e \in Event,
             Insert(h, e) \/ InsertDuplicate(h, e) \/ InsertFails(h, e)
      PROVE  DepthIsExact'
  <2>1. /\ handler[h] = Idle /\ UNCHANGED <<queue, queue_depth>>
        /\ \/ UNCHANGED handler
           \/ handler' = [handler EXCEPT ![h] = [step |-> "enqueue", event |-> e]]
    BY <1>3, InsertFrames DEF TypeOK, TakeUp
  <2>2. Counting' = Counting
    BY <1>0, <2>1 DEF Counting, Idle
  <2> QED BY <1>2, <2>1, <2>2
<1>4. ASSUME NEW h \in Handler, Enqueue(h) PROVE DepthIsExact'
  <2>1. CASE UNCHANGED queue /\ handler' = [handler EXCEPT ![h] = Idle]
    <3>1. handler[h].step = "enqueue" /\ UNCHANGED queue_depth
      BY <1>4 DEF Enqueue
    <3>2. Counting' = Counting
      BY <1>0, <2>1, <3>1 DEF Counting, Idle
    <3> QED BY <1>2, <2>1, <3>1, <3>2
  <2>2. CASE queue' = Append(queue, handler[h].event)
             /\ handler' = [handler EXCEPT ![h].step = "count"]
    <3>1. handler[h].step = "enqueue" /\ UNCHANGED queue_depth
      BY <1>4 DEF Enqueue
    <3>2. Counting' = Counting \cup {h} /\ h \notin Counting
      BY <1>0, <2>2, <3>1 DEF Counting
    <3>3. Cardinality(Counting') = Cardinality(Counting) + 1
      BY <1>0, <3>2, FS_AddElement
    <3>4. Len(queue') = Len(queue) + 1
      BY <1>0, <2>2
    <3> QED BY <1>0, <1>1, <3>1, <3>3, <3>4
  <2> QED BY <1>4, <2>1, <2>2 DEF Enqueue, Finished
<1>5. ASSUME NEW h \in Handler, Count(h) PROVE DepthIsExact'
  <2>1. /\ handler[h].step = "count" /\ queue_depth' = queue_depth + 1 /\ UNCHANGED queue
        /\ handler' = [handler EXCEPT ![h] = Idle]
    BY <1>5 DEF Count, Finished
  <2>2. Counting' = Counting \ {h} /\ h \in Counting
    BY <1>0, <2>1 DEF Counting, Idle
  <2>3. Cardinality(Counting') = Cardinality(Counting) - 1
    BY <1>0, <2>2, FS_RemoveElement
  <2> QED BY <1>0, <1>1, <2>1, <2>3
<1>6. ASSUME NEW h \in Handler, HangUp(h) PROVE DepthIsExact'
  <2>1. /\ handler[h].step = "enqueue" /\ UNCHANGED <<queue, queue_depth>>
        /\ handler' = [handler EXCEPT ![h] = Idle]
    BY <1>6 DEF HangUp, Finished
  <2>2. Counting' = Counting
    BY <1>0, <2>1 DEF Counting, Idle
  <2> QED BY <1>2, <2>1, <2>2
<1>7. CASE Receive
  <2>1. /\ queue # <<>> /\ queue' = Tail(queue) /\ queue_depth' = queue_depth - 1
        /\ UNCHANGED handler
    BY <1>7 DEF Receive, ingestVars
  <2>2. Len(queue') = Len(queue) - 1
    BY <1>0, <2>1
  <2>3. Counting' = Counting
    BY <2>1 DEF Counting
  <2> QED BY <1>0, <1>1, <2>1, <2>2, <2>3
<1>8. CASE Restart
  <2>1. queue' = <<>> /\ queue_depth' = 0 /\ Counting' = {}
    BY <1>8 DEF Restart, IngestRestart, Counting, Idle
  <2>2. Len(queue') = 0 /\ Cardinality(Counting') = 0
    BY <2>1, FS_EmptySet
  <2> QED BY <1>1, <2>1, <2>2
<1>9. CASE Arrive \/ Poll \/ Dispatch \/ (\E e \in Event : JobStep(e))
           \/ (\E e \in Event : FinalizerStep(e)) \/ Control \/ Rest \/ UNCHANGED vars
  <2>1. UNCHANGED <<handler, queue, queue_depth>>
    BY <1>9, JobFrames, FinalizerFrames, StutterFrame DEF Arrive, Poll, Dispatch, ingestVars
  <2>2. Counting' = Counting
    BY <2>1 DEF Counting
  <2> QED BY <1>2, <2>1, <2>2
<1> QED BY <1>3, <1>4, <1>5, <1>6, <1>7, <1>8, <1>9 DEF Next, IngestStep, HandlerStep

-----------------------------------------------------------------------------
(* The invariant holds at the start,                                       *)
LEMMA InitInv == Init => IInv
<1> SUFFICES ASSUME Init PROVE IInv
  OBVIOUS
<1>1. TypeOK
  BY InitType
<1>2. /\ handler = [h \in Handler |-> Idle]
      /\ inbound = [e \in Event |-> "none"]
      /\ queue = <<>> /\ Len(queue) = 0 /\ queue_depth = 0
      /\ worker = NoEvent /\ permits = MaxParallel
      /\ job = [e \in Event |-> "none"]
      /\ reply = [e \in Event |-> Undecided]
      /\ finalizer = [e \in Event |-> "none"]
      /\ deduped = {}
      /\ \A c \in Conversation : /\ chat[c] = <<>> /\ Len(chat[c]) = 0
                                 /\ hot_turns[c] = <<>> /\ Len(hot_turns[c]) = 0
      /\ arrived = 0
  BY DEF Init, IngestInit
<1>3. /\ \A h \in Handler, e \in Event : ~AtHand(h, e)
      /\ \A e \in Event : ~InQueue(e) /\ worker # e
  BY <1>2 DEF AtHand, InQueue, Idle, NoEvent, Event
<1>4. PermitInv
  <2>1. Busy = {}
    BY <1>2 DEF Busy
  <2>2. Cardinality(Busy) = 0
    BY <2>1, FS_EmptySet
  <2> QED BY <1>2, <2>2, PipelineAssumption DEF PermitInv
<1>5. HandlerInv
  BY <1>2 DEF HandlerInv, Idle
<1>6. PlaceInv
  BY <1>2, <1>3 DEF PlaceInv
<1>7. DedupeInv
  BY <1>2, <1>3 DEF DedupeInv
<1>8. GateInv
  BY <1>2 DEF GateInv, Inside
<1>9. ChatInv /\ SendInv /\ AnswerInv
  BY <1>2 DEF ChatInv, SendInv, AnswerInv
<1>10. ConfirmInv
  BY <1>2 DEF ConfirmInv
<1>11. HotInv /\ StoredInv
  BY <1>2 DEF HotInv, StoredInv
<1>12. RepliesAreWhole /\ HotTurnsAlternate
  BY <1>2 DEF RepliesAreWhole, HotTurnsAlternate
<1>13. DepthIsExact
  <2>1. {h \in Handler : handler[h].step = "count"} = {}
    BY <1>2 DEF Idle
  <2>2. Cardinality({h \in Handler : handler[h].step = "count"}) = 0
    BY <2>1, FS_EmptySet
  <2> QED BY <1>2, <2>2 DEF DepthIsExact
<1> QED BY <1>1, <1>4, <1>5, <1>6, <1>7, <1>8, <1>9, <1>10, <1>11, <1>12, <1>13 DEF IInv

(* every step keeps it,                                                    *)
LEMMA NextInv ==
  ASSUME IInv, [Next]_vars
  PROVE  IInv'
<1>1. TypeOK'
  BY NextType DEF IInv
<1>2. PermitInv' /\ HandlerInv' /\ PlaceInv' /\ DedupeInv' /\ GateInv'
  BY NextPermit, NextHandler, NextPlace, NextDedupe, NextGate DEF IInv
<1>3. ChatInv' /\ SendInv' /\ AnswerInv' /\ ConfirmInv'
  BY NextChat, NextSend, NextAnswer, NextConfirm DEF IInv
<1>4. HotInv' /\ StoredInv' /\ RepliesAreWhole' /\ HotTurnsAlternate' /\ DepthIsExact'
  BY <1>1, NextHot, NextStored, NextReplies, NextAlternates, NextDepth DEF IInv
<1> QED BY <1>1, <1>2, <1>3, <1>4 DEF IInv

(* and so it holds always.                                                 *)
LEMMA InvariantHolds == Spec => []IInv
<1>1. IInv /\ [Next]_vars => IInv'
  BY NextInv
<1> QED BY <1>1, InitInv, PTL DEF Spec

-----------------------------------------------------------------------------
(* Every variable keeps its type; in particular the queue never exceeds    *)
(* its capacity, and a semaphore of MaxParallel permits never more.        *)
THEOREM TypeCorrect == Spec => []TypeOK
<1>1. IInv => TypeOK
  BY DEF IInv
<1> QED BY <1>1, InvariantHolds, PTL

(* Every job has a permit of its own and gives it back, whatever way it    *)
(* ends: none is lost to an error of the storage or of Telegram.           *)
THEOREM PermitsComeBack == Spec => []PermitsAreReturned
<1>1. IInv => PermitsAreReturned
  BY DEF IInv, PermitInv, Busy, PermitsAreReturned
<1> QED BY <1>1, InvariantHolds, PTL

(* Telegram forgets an update only when its row is in inbound_events,      *)
(* whatever the handlers, the failures and the restarts: insert before     *)
(* acknowledge, and a poll that waits for its batch.                       *)
THEOREM ConfirmedUpdatesHaveRows == Spec => []ConfirmedIsPersisted
<1>1. IInv => ConfirmedIsPersisted
  BY DEF IInv, ConfirmInv, ConfirmedIsPersisted, TypeOK, IngestTypeOK
<1> QED BY <1>1, InvariantHolds, PTL

(* An event is queued or worked on once: only the handler that inserted    *)
(* its row queues it, and only once.                                       *)
THEOREM EventsAreQueuedOnce == Spec => []QueuedOnce
<1>1. ASSUME IInv PROVE QueuedOnce
  <2> SUFFICES ASSUME NEW e \in Event
               PROVE  /\ Copies(e) <= 1
                      /\ Copies(e) = 1 => inbound[e] = "received"
                      /\ (\E i \in DOMAIN queue : queue[i] = e) => e \notin deduped
    BY DEF QueuedOnce
  <2> DEFINE At == {i \in DOMAIN queue : queue[i] = e}
  <2>1. /\ DOMAIN queue = 1 .. Len(queue) /\ Len(queue) \in Nat
        /\ (\E i \in DOMAIN queue : queue[i] = e) <=> InQueue(e)
    <3>1. queue \in Seq(Event)
      BY <1>1 DEF IInv, TypeOK, IngestTypeOK
    <3> QED BY <3>1 DEF InQueue
  <2>2. inbound \in [Event -> {"none", "received", "processed"}]
    BY <1>1 DEF IInv, TypeOK, IngestTypeOK
  <2>3. /\ InQueue(e) => worker # e /\ job[e] = "none"
        /\ worker = e => job[e] = "none"
    BY <1>1 DEF IInv, PlaceInv
  <2>4. /\ InQueue(e) \/ worker = e => e \notin deduped /\ inbound[e] = "received"
        /\ job[e] # "none" => inbound[e] = "received"
    BY <1>1, <2>2 DEF IInv, DedupeInv
  <2>5. CASE InQueue(e)
    <3>1. PICK i \in 1 .. Len(queue) : queue[i] = e
      BY <2>5 DEF InQueue
    <3>2. At = {i}
      BY <1>1, <2>1, <3>1 DEF IInv, PlaceInv
    <3>3. Cardinality(At) = 1
      <4> HIDE DEF At
      <4> QED BY <3>2, FS_Singleton
    <3> QED BY <2>3, <2>4, <2>5, <3>3 DEF Copies
  <2>6. CASE ~InQueue(e)
    <3>1. At = {}
      BY <2>1, <2>6
    <3>2. Cardinality(At) = 0
      <4> HIDE DEF At
      <4> QED BY <3>1, FS_EmptySet
    <3> QED BY <2>1, <2>3, <2>4, <2>6, <3>2 DEF Copies
  <2> QED BY <2>5, <2>6
<1> QED BY <1>1, InvariantHolds, PTL

(* The chunks of a reply reach the user in order, once each and with       *)
(* nothing between them: the gate is held until the last one is sent.      *)
THEOREM RepliesArriveWhole == Spec => []RepliesAreWhole
<1>1. IInv => RepliesAreWhole
  BY DEF IInv
<1> QED BY <1>1, InvariantHolds, PTL

(* The hot history alternates between users' turns and their own answers:  *)
(* the gate is held until both turns are published.                        *)
THEOREM HotHistoryAlternates == Spec => []HotTurnsAlternate
<1>1. IInv => HotTurnsAlternate
  BY DEF IInv
<1> QED BY <1>1, InvariantHolds, PTL

(* An event that is marked processed had its whole reply sent, or needed   *)
(* none.                                                                   *)
THEOREM ProcessedEventsAreAnswered == Spec => []ProcessedIsAnswered
<1>1. ASSUME IInv PROVE ProcessedIsAnswered
  <2> SUFFICES ASSUME NEW e \in Event, inbound[e] = "processed"
               PROVE  /\ reply[e] # Undecided
                      /\ \A k \in 1 .. reply[e] :
                           \E i \in DOMAIN chat[ConversationOf[e]] :
                             chat[ConversationOf[e]][i] = <<e, k>>
    BY DEF ProcessedIsAnswered
  <2>1. Answered(e)
    BY <1>1 DEF IInv, AnswerInv
  <2>2. DOMAIN chat[ConversationOf[e]] = 1 .. Len(chat[ConversationOf[e]])
    <3> DEFINE S == Event \X (0 .. MaxChunks)
    <3>1. chat \in [Conversation -> Seq(S)] /\ ConversationOf[e] \in Conversation
      BY <1>1, PipelineAssumption DEF IInv, TypeOK
    <3> HIDE DEF S
    <3> QED BY <3>1, HistoryTypes
  <2> QED BY <2>1, <2>2 DEF Answered, Said
<1> QED BY <1>1, InvariantHolds, PTL

(* A turn of the hot history whose job and finalizer are over is in the    *)
(* durable store, as long as no call of the store has failed.              *)
THEOREM PublishedTurnsAreStored == Spec => []PublishedIsStored
<1>1. ASSUME IInv PROVE PublishedIsStored
  <2> DEFINE S == Event \X {"user", "assistant"}
  <2>1. hot_turns \in [Conversation -> Seq(S)]
    BY <1>1 DEF IInv, TypeOK
  <2>2. \A c \in Conversation :
          /\ DOMAIN hot_turns[c] = 1 .. Len(hot_turns[c])
          /\ \A i \in 1 .. Len(hot_turns[c]) : hot_turns[c][i] \in S
    <3> HIDE DEF S
    <3> QED BY <2>1, HistoryTypes
  <2>3. ASSUME disturbed["store"] = 0, NEW c \in Conversation,
               NEW i \in 1 .. Len(hot_turns[c]),
               job[hot_turns[c][i][1]] = "none", finalizer[hot_turns[c][i][1]] = "none"
        PROVE  hot_turns[c][i] \in turns
    <3>1. PICK e \in Event, role \in {"user", "assistant"} : hot_turns[c][i] = <<e, role>>
      BY <2>2
    <3>2. <<e, "user">> \in turns /\ <<e, "assistant">> \in turns
      BY <1>1, <2>3, <3>1 DEF IInv, StoredInv, Underway
    <3> QED BY <3>1, <3>2
  <2> QED BY <2>2, <2>3 DEF PublishedIsStored
<1> QED BY <1>1, InvariantHolds, PTL

(* The counter of the dashboard is the length of the queue, but for the    *)
(* handlers that have queued an event and not counted it yet.              *)
THEOREM DepthIsCounted == Spec => []DepthIsExact
<1>1. IInv => DepthIsExact
  BY DEF IInv
<1> QED BY <1>1, InvariantHolds, PTL

=============================================================================
