------------------------------- MODULE Ingest -------------------------------
(***************************************************************************)
(* How Telegram updates become queued events: long polling                 *)
(* (spawn_telegram_ingest_loop in src/src/app.rs) or the webhook           *)
(* (telegram_webhook in src/src/http/server.rs), the inbound_events table  *)
(* and the bounded queue of the runtime.                                   *)
(*                                                                         *)
(* An event is the number of its update; Telegram keeps an update until it *)
(* is confirmed, by a later getUpdates offset or by a 2xx answer of the    *)
(* webhook, and delivers it again until then.  A handler is one webhook    *)
(* request that is being served; the polling loop is handler 1.            *)
(***************************************************************************)
EXTENDS Integers, Sequences, FiniteSets

CONSTANTS
  MaxEvents,         \* bound: updates the users send
  MaxHandlers,       \* bound: webhook requests served at once
  QueueCapacity,     \* config.runtime.queue_capacity
  MaxDeliveries,     \* bound: webhook requests that find their row
  MaxDisturbances    \* bound: failures, uses of the controls and restarts

Event == 1..MaxEvents
Handler == 1..MaxHandlers
NoEvent == 0

ASSUME IngestAssumption ==
  /\ MaxEvents \in Nat \ {0} /\ MaxHandlers \in Nat \ {0}
  /\ QueueCapacity \in Nat \ {0}
  /\ MaxDeliveries \in Nat /\ MaxDisturbances \in Nat

VARIABLES
  mode,            \* "polling" or "webhook"
  arrived,         \* updates 1..arrived have been sent by users
  open,            \* updates Telegram has not been told to forget
  offset,          \* TelegramClient::offset
  cursor,          \* last update of the polled batch the loop has taken up
  handler,         \* what each handler is about to do, and for which event
  deliveries,      \* webhook requests that found their row
  inbound,         \* inbound_events.status of each event, "none" for no row
  queue,           \* the mpsc channel
  queue_depth,     \* the AtomicI64 the dashboard shows
  disturbed        \* how often each kind of disturbance has happened

ingestVars == <<mode, arrived, open, offset, cursor, handler, deliveries>>

Idle == [step |-> "idle", event |-> NoEvent]
SetMin(S) == CHOOSE x \in S : \A y \in S : x <= y
SetMax(S) == CHOOSE x \in S : \A y \in S : x >= y

Disturbance == {"store", "channel", "control", "restart"}

Disturb(kind) ==
  /\ disturbed["store"] + disturbed["channel"] + disturbed["control"]
       + disturbed["restart"] < MaxDisturbances
  /\ disturbed' = [disturbed EXCEPT ![kind] = @ + 1]

(* A call of the storage, an exchange with Telegram fails.                 *)
StoreFault   == Disturb("store")
ChannelFault == Disturb("channel")

IngestInit ==
  /\ mode \in {"polling", "webhook"}
  /\ arrived = 0 /\ open = {}
  /\ offset = 0 /\ cursor = 0
  /\ handler = [h \in Handler |-> Idle]
  /\ deliveries = 0
  /\ inbound = [e \in Event |-> "none"]
  /\ queue = <<>> /\ queue_depth = 0
  /\ disturbed = [kind \in Disturbance |-> 0]

(* A user writes to the bot.                                               *)
Arrive ==
  /\ arrived < MaxEvents
  /\ arrived' = arrived + 1
  /\ open' = open \cup {arrived + 1}
  /\ UNCHANGED <<mode, offset, cursor, handler, deliveries, inbound, queue,
                 queue_depth, disturbed>>

-----------------------------------------------------------------------------
(* Mutant: the next poll does not wait for the batch.                      *)
PollEarly ==
  /\ mode = "polling"
  /\ LET left == {e \in open : e > offset} IN
     /\ left # {}
     /\ open' = left
     /\ cursor' = SetMin(left) - 1
     /\ offset' = SetMax(left)
  /\ UNCHANGED <<mode, arrived, handler, deliveries, inbound, queue, queue_depth, disturbed>>

(* poll_updates: the request confirms everything up to the offset, which   *)
(* is 0 after a restart and then confirms nothing; the answer holds        *)
(* everything else and moves the offset.                                   *)
Poll ==
  /\ mode = "polling"
  /\ handler[1] = Idle
  /\ cursor = offset
  /\ LET left == {e \in open : e > offset} IN
     /\ open' = left
     /\ \/ /\ left # {}
           /\ cursor' = SetMin(left) - 1
           /\ offset' = SetMax(left)
           /\ UNCHANGED disturbed
        \/ left = {} /\ UNCHANGED <<cursor, offset, disturbed>>
        \/ ChannelFault /\ UNCHANGED <<cursor, offset>>
  /\ UNCHANGED <<mode, arrived, handler, deliveries, inbound, queue, queue_depth>>

(* A handler takes up an event: the next of the batch, or any the webhook  *)
(* is called with.                                                         *)
TakeUp(h, e) ==
  /\ handler[h] = Idle
  /\ \/ /\ mode = "polling" /\ h = 1
        /\ cursor < offset /\ e = cursor + 1
        /\ cursor' = e
     \/ /\ mode = "webhook" /\ e \in open
        /\ UNCHANGED cursor

(* A loop that polls meets an old row only after a restart, which is       *)
(* bounded already.                                                        *)
CountDelivery ==
  IF mode = "polling" THEN UNCHANGED deliveries
  ELSE deliveries < MaxDeliveries /\ deliveries' = deliveries + 1

(* Telegram gets the answer of a request that succeeded, or does not.      *)
Acknowledge(e) ==
  IF mode = "polling" THEN UNCHANGED <<open, disturbed>>
  ELSE \/ open' = open \ {e} /\ UNCHANGED disturbed
       \/ ChannelFault /\ UNCHANGED open

(* Mutant: a second row for the same event is no conflict.                 *)
InsertAlways(h, e) ==
  /\ TakeUp(h, e)
  /\ IF inbound[e] = "none" THEN UNCHANGED deliveries ELSE CountDelivery
  /\ inbound' = [inbound EXCEPT ![e] = "received"]
  /\ handler' = [handler EXCEPT ![h] = [step |-> "enqueue", event |-> e]]
  /\ UNCHANGED <<mode, arrived, open, offset, queue, queue_depth, disturbed>>

(* insert_inbound_event returns a row.                                     *)
Insert(h, e) ==
  /\ TakeUp(h, e)
  /\ inbound[e] = "none"
  /\ inbound' = [inbound EXCEPT ![e] = "received"]
  /\ handler' = [handler EXCEPT ![h] = [step |-> "enqueue", event |-> e]]
  /\ UNCHANGED <<mode, arrived, open, offset, deliveries, queue, queue_depth, disturbed>>

(* insert_inbound_event finds the row: the event is not queued again.      *)
InsertDuplicate(h, e) ==
  /\ TakeUp(h, e)
  /\ inbound[e] # "none"
  /\ CountDelivery
  /\ Acknowledge(e)
  /\ UNCHANGED <<mode, arrived, offset, handler, inbound, queue, queue_depth>>

(* insert_inbound_event fails, before or after the commit.  The loop only  *)
(* logs it; the webhook answers 500 and Telegram keeps the update.         *)
InsertFails(h, e) ==
  /\ TakeUp(h, e)
  /\ StoreFault
  /\ \/ UNCHANGED inbound
     \/ inbound[e] = "none" /\ inbound' = [inbound EXCEPT ![e] = "received"]
  /\ UNCHANGED <<mode, arrived, open, offset, handler, deliveries, queue, queue_depth>>

Finished(h) == handler' = [handler EXCEPT ![h] = Idle]

(* try_send; a full queue is an error in the log, or a 503 to Telegram.    *)
Enqueue(h) ==
  /\ handler[h].step = "enqueue"
  /\ IF Len(queue) < QueueCapacity
     THEN /\ queue' = Append(queue, handler[h].event)
          /\ handler' = [handler EXCEPT ![h].step = "count"]
     ELSE Finished(h) /\ UNCHANGED queue
  /\ UNCHANGED <<mode, arrived, open, offset, cursor, deliveries, inbound,
                 queue_depth, disturbed>>

(* fetch_add comes after the event is already in the queue.                *)
Count(h) ==
  /\ handler[h].step = "count"
  /\ queue_depth' = queue_depth + 1
  /\ Finished(h)
  /\ Acknowledge(handler[h].event)
  /\ UNCHANGED <<mode, arrived, offset, cursor, deliveries, inbound, queue>>

(* The caller hangs up while the insert is awaited and the handler with    *)
(* it is dropped, the row being there.                                     *)
HangUp(h) ==
  /\ mode = "webhook"
  /\ handler[h].step = "enqueue"
  /\ ChannelFault
  /\ Finished(h)
  /\ UNCHANGED <<mode, arrived, open, offset, cursor, deliveries, inbound, queue, queue_depth>>

HandlerStep(h) ==
  \/ \E e \in Event : Insert(h, e) \/ InsertDuplicate(h, e) \/ InsertFails(h, e)
  \/ Enqueue(h) \/ Count(h) \/ HangUp(h)

(* The process ends: the queue, the counter, the handlers and the offset   *)
(* are memory; the table and Telegram stay.                                *)
IngestRestart ==
  /\ offset' = 0 /\ cursor' = 0
  /\ handler' = [h \in Handler |-> Idle]
  /\ queue' = <<>> /\ queue_depth' = 0
  /\ Disturb("restart")
  /\ UNCHANGED <<mode, arrived, open, deliveries, inbound>>

IngestTypeOK ==
  /\ mode \in {"polling", "webhook"}
  /\ arrived \in 0..MaxEvents
  /\ open \subseteq 1..arrived
  /\ offset \in 0..arrived /\ cursor \in 0..offset
  /\ handler \in [Handler -> [step : {"idle", "enqueue", "count"}, event : Event \cup {NoEvent}]]
  /\ deliveries \in 0..MaxDeliveries
  /\ inbound \in [Event -> {"none", "received", "processed"}]
  /\ queue \in Seq(Event) /\ Len(queue) <= QueueCapacity
  /\ queue_depth \in Int
  /\ disturbed \in [Disturbance -> 0..MaxDisturbances]
=============================================================================
