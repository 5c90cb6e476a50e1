------------------------------ MODULE EventBus ------------------------------
(***************************************************************************)
(* The asynchronous memory writes: the transactional outbox in Postgres,   *)
(* the publisher that copies its rows to the stream "memory" in Redis, and *)
(* the consumers of the group "memory-workers" that write them to the      *)
(* durable memory, retry them and bury them among the dead letters.        *)
(*                                                                         *)
(* Every call to Postgres or Redis is a step.  A call may be refused, or   *)
(* be done while its answer is lost; XADD, INCR and XREADGROUP, which the  *)
(* code repeats after a transport error, may then take effect twice.       *)
(* These disturbances, restarts of the process and entries reclaimed from  *)
(* a consumer that is merely slow are counted and bounded together.        *)
(*                                                                         *)
(* An event is identified by its place in the order of created_at.         *)
(***************************************************************************)
EXTENDS Naturals, Sequences, FiniteSets

CONSTANTS
  NEvents,          \* memory events 1..NEvents
  Consumers,        \* the MemoryConsumers of the process
  Poisoned,         \* events whose write fails every time
  MaxRetries,       \* bus_config.outbox_max_retries
  PublishBatch,     \* bus_config.outbox_publish_batch
  ReadCount,        \* entries per claim or read (32 in the code)
  MaxDisturbances,  \* bound: disturbances of a behaviour
  MayFlush          \* whether an operator may flush Redis

Events == 1 .. NEvents

ASSUME BusAssumption ==
  /\ NEvents \in Nat
  /\ IsFiniteSet(Consumers)
  /\ Poisoned \subseteq Events
  /\ MaxRetries \in Nat
  /\ PublishBatch \in Nat \ {0}
  /\ ReadCount \in Nat \ {0}
  /\ MaxDisturbances \in Nat
  /\ MayFlush \in BOOLEAN

VARIABLES
  row,        \* outbox_events: Events -> {"none", "pending", "published"}
  batch,      \* the rows the publisher fetched and has still to publish
  publishing, \* the publisher's next call for the first row of batch
  stream,     \* every entry ever added; its index is the Redis id
  erased,     \* entries 1..erased were lost to a flush
  group,      \* whether the consumer group exists
  delivered,  \* the group's last delivered id
  pending,    \* the group's pending entries list
  failures,   \* stream_fail counters: Events -> Nat
  stage,      \* where each consumer is
  held,       \* the entries each consumer has still to work on
  written,    \* how often each event was written to the durable memory
  dead,       \* events of the stream "memory-dlq"
  disturbed   \* disturbances so far

outboxVars == <<row, batch, publishing>>
streamVars == <<stream, erased, group, delivered>>
resultVars == <<written, dead>>
vars == <<outboxVars, streamVars, pending, failures, stage, held, resultVars,
          disturbed>>

Stages == {"start", "stopped", "poll", "handle", "count", "bury", "mark",
           "ack"}

TypeOK ==
  /\ row \in [Events -> {"none", "pending", "published"}]
  /\ batch \subseteq Events
  /\ publishing \in {"publish", "mark", "record"}
  /\ stream \in Seq(Events)
  /\ erased \in 0 .. Len(stream)
  /\ group \in BOOLEAN
  /\ delivered \in erased .. Len(stream)
  /\ pending \subseteq (erased + 1) .. delivered
  /\ failures \in [Events -> Nat]
  /\ stage \in [Consumers -> Stages]
  /\ held \in [Consumers -> SUBSET (1 .. Len(stream))]
  /\ written \in [Events -> Nat]
  /\ dead \subseteq Events
  /\ disturbed \in 0 .. MaxDisturbances

Init ==
  /\ row = [e \in Events |-> "none"]
  /\ batch = {}
  /\ publishing = "publish"
  /\ stream = <<>>
  /\ erased = 0
  /\ group = FALSE
  /\ delivered = 0
  /\ pending = {}
  /\ failures = [e \in Events |-> 0]
  /\ stage = [c \in Consumers |-> "start"]
  /\ held = [c \in Consumers |-> {}]
  /\ written = [e \in Events |-> 0]
  /\ dead = {}
  /\ disturbed = 0

-----------------------------------------------------------------------------
(* The outcomes of a call, and which of them is a disturbance.             *)
Disturb ==
  /\ disturbed < MaxDisturbances
  /\ disturbed' = disturbed + 1

Replies == {"ok", "lost", "refused"}
RepeatedReplies == Replies \union {"twice"}
Succeeds(reply) == reply \in {"ok", "twice"}
TakesEffect(reply) == reply # "refused"
Times(reply) == CASE reply = "refused" -> 0 [] reply = "twice" -> 2 [] OTHER -> 1

Call(reply) == IF reply = "ok" THEN UNCHANGED disturbed ELSE Disturb

(* ORDER BY ... LIMIT n, COUNT n: the n least members of a set.            *)
First(S, n) == {x \in S : Cardinality({y \in S : y < x}) < n}
Least(S) == CHOOSE x \in S : \A y \in S : x <= y

-----------------------------------------------------------------------------
(* A finished turn queues a summary, a fact or brain memories: a row of    *)
(* the outbox.  (When this insert fails there is no event; the caller logs *)
(* it.)                                                                    *)
Enqueue(e) ==
  /\ row[e] = "none"
  /\ row' = [row EXCEPT ![e] = "pending"]
  /\ UNCHANGED <<batch, publishing, streamVars, pending, failures, stage, held,
                 resultVars, disturbed>>

(* Mutant: the fetch forgets "published_at IS NULL".                       *)
FetchEveryRow ==
  /\ batch = {}
  /\ batch' = First({e \in Events : row[e] # "none"}, PublishBatch)
  /\ batch' # {}
  /\ publishing' = "publish"
  /\ UNCHANGED <<row, streamVars, pending, failures, stage, held, resultVars,
                 disturbed>>

(* The publisher.  A tick fetches a batch and goes through it; an error of *)
(* a bookkeeping call ends the tick.                                       *)
FetchPending ==
  /\ batch = {}
  /\ batch' = First({e \in Events : row[e] = "pending"}, PublishBatch)
  /\ batch' # {}
  /\ publishing' = "publish"
  /\ UNCHANGED <<row, streamVars, pending, failures, stage, held, resultVars,
                 disturbed>>

Publish(reply) ==
  /\ batch # {}
  /\ publishing = "publish"
  /\ Call(reply)
  /\ stream' = stream \o [i \in 1 .. Times(reply) |-> Least(batch)]
  /\ publishing' = IF Succeeds(reply) THEN "mark" ELSE "record"
  /\ UNCHANGED <<row, batch, erased, group, delivered, pending, failures, stage,
                 held, resultVars>>

(* Mutant: a row is marked even when its XADD failed.                      *)
RecordAlways(reply) ==
  /\ batch # {}
  /\ publishing \in {"mark", "record"}
  /\ Call(reply)
  /\ row' = IF TakesEffect(reply)
              THEN [row EXCEPT ![Least(batch)] = "published"] ELSE row
  /\ batch' = IF Succeeds(reply) THEN batch \ {Least(batch)} ELSE {}
  /\ publishing' = "publish"
  /\ UNCHANGED <<streamVars, pending, failures, stage, held, resultVars>>

(* mark_outbox_published, or record_outbox_failure after a failed XADD,    *)
(* which leaves the row pending for a later tick.                          *)
Record(reply) ==
  /\ batch # {}
  /\ publishing \in {"mark", "record"}
  /\ Call(reply)
  /\ row' = IF publishing = "mark" /\ TakesEffect(reply)
              THEN [row EXCEPT ![Least(batch)] = "published"] ELSE row
  /\ batch' = IF Succeeds(reply) THEN batch \ {Least(batch)} ELSE {}
  /\ publishing' = "publish"
  /\ UNCHANGED <<streamVars, pending, failures, stage, held, resultVars>>

PublisherStep ==
  \/ FetchPending
  \/ \E reply \in RepeatedReplies : Publish(reply)
  \/ \E reply \in Replies : Record(reply)

-----------------------------------------------------------------------------
(* The entry a consumer works on, its event, and where it goes next: to    *)
(* the rest of its entries, or, after an error of a bookkeeping call, back *)
(* to polling, leaving them to be reclaimed.                               *)
Entry(c) == Least(held[c])
EventOf(c) == stream[Entry(c)]

GoTo(c, s) == stage' = [stage EXCEPT ![c] = s] /\ UNCHANGED held

NextEntry(c) ==
  LET rest == held[c] \ {Entry(c)} IN
  /\ held' = [held EXCEPT ![c] = rest]
  /\ stage' = [stage EXCEPT ![c] = IF rest = {} THEN "poll" ELSE "handle"]

AbortTick(c) ==
  /\ held' = [held EXCEPT ![c] = {}]
  /\ stage' = [stage EXCEPT ![c] = "poll"]

Continue(c, reply, s) == IF Succeeds(reply) THEN GoTo(c, s) ELSE AbortTick(c)

(* The group is created, from the first entry on, once per start; if that  *)
(* fails the consumer returns for good.                                    *)
EnsureGroup(c, reply) ==
  /\ stage[c] = "start"
  /\ Call(reply)
  /\ group' = (group \/ TakesEffect(reply))
  /\ delivered' = IF group \/ ~TakesEffect(reply) THEN delivered ELSE erased
  /\ GoTo(c, IF Succeeds(reply) THEN "poll" ELSE "stopped")
  /\ UNCHANGED <<outboxVars, stream, erased, pending, failures, resultVars>>

(* XAUTOCLAIM: some of the entries pending for longer than the idle time,  *)
(* whoever read them.  That a live consumer still works on one of them is  *)
(* a disturbance; that none does is what happens after an error.           *)
ClaimStale(c) ==
  /\ stage[c] = "poll"
  /\ group
  /\ \E idle \in (SUBSET pending) \ {{}} :
       /\ held' = [held EXCEPT ![c] = First(idle, ReadCount)]
       /\ Call(IF \E d \in Consumers : idle \intersect held[d] # {}
                 THEN "slow" ELSE "ok")
  /\ stage' = [stage EXCEPT ![c] = "handle"]
  /\ UNCHANGED <<outboxVars, streamVars, pending, failures, resultVars>>

(* XREADGROUP: the next entries never delivered to the group.  If the      *)
(* answer is lost they are pending and nobody holds them.                  *)
ReadGroup(c, reply) ==
  /\ stage[c] = "poll"
  /\ group
  /\ delivered < Len(stream)
  /\ Call(reply)
  /\ LET new == First((delivered + 1) .. Len(stream), ReadCount) IN
       /\ delivered' = delivered + Cardinality(new)
       /\ pending' = pending \union new
       /\ IF reply = "ok"
            THEN /\ held' = [held EXCEPT ![c] = new]
                 /\ stage' = [stage EXCEPT ![c] = "handle"]
            ELSE UNCHANGED <<held, stage>>
  /\ UNCHANGED <<outboxVars, stream, erased, group, failures, resultVars>>

(* Mutant: an error of the write is swallowed.                             *)
HandleSwallowing(c, reply) ==
  /\ stage[c] = "handle"
  /\ IF EventOf(c) \in Poisoned
       THEN reply = "refused" /\ UNCHANGED disturbed
       ELSE Call(reply)
  /\ written' = IF TakesEffect(reply)
                  THEN [written EXCEPT ![EventOf(c)] = @ + 1] ELSE written
  /\ GoTo(c, "mark")
  /\ UNCHANGED <<outboxVars, streamVars, pending, failures, dead>>

(* handle_memory_event: the write to Postgres.                             *)
HandleMemoryEvent(c, reply) ==
  /\ stage[c] = "handle"
  /\ IF EventOf(c) \in Poisoned
       THEN reply = "refused" /\ UNCHANGED disturbed
       ELSE Call(reply)
  /\ written' = IF TakesEffect(reply)
                  THEN [written EXCEPT ![EventOf(c)] = @ + 1] ELSE written
  /\ GoTo(c, IF Succeeds(reply) THEN "mark" ELSE "count")
  /\ UNCHANGED <<outboxVars, streamVars, pending, failures, dead>>

(* Mutants: buried one failure early; the count is not kept.               *)
CountFailureEarly(c, reply) ==
  LET count == failures[EventOf(c)] + Times(reply) IN
  /\ stage[c] = "count"
  /\ Call(reply)
  /\ failures' = [failures EXCEPT ![EventOf(c)] = count]
  /\ IF ~Succeeds(reply) THEN AbortTick(c)
     ELSE IF count + 1 >= MaxRetries THEN GoTo(c, "bury")
     ELSE NextEntry(c)
  /\ UNCHANGED <<outboxVars, streamVars, pending, resultVars>>
CountFailureForgets(c, reply) ==
  LET count == failures[EventOf(c)] + Times(reply) IN
  /\ stage[c] = "count"
  /\ Call(reply)
  /\ IF ~Succeeds(reply) THEN AbortTick(c)
     ELSE IF count >= MaxRetries THEN GoTo(c, "bury")
     ELSE NextEntry(c)
  /\ UNCHANGED <<outboxVars, streamVars, pending, failures, resultVars>>

(* handle_consumer_failure: the entry is left pending for another attempt, *)
(* or buried when the event failed MaxRetries times.                       *)
CountFailure(c, reply) ==
  LET count == failures[EventOf(c)] + Times(reply) IN
  /\ stage[c] = "count"
  /\ Call(reply)
  /\ failures' = [failures EXCEPT ![EventOf(c)] = count]
  /\ IF ~Succeeds(reply) THEN AbortTick(c)
     ELSE IF count >= MaxRetries THEN GoTo(c, "bury")
     ELSE NextEntry(c)
  /\ UNCHANGED <<outboxVars, streamVars, pending, resultVars>>

MoveToDlq(c, reply) ==
  /\ stage[c] = "bury"
  /\ Call(reply)
  /\ dead' = IF TakesEffect(reply) THEN dead \union {EventOf(c)} ELSE dead
  /\ Continue(c, reply, "mark")
  /\ UNCHANGED <<outboxVars, streamVars, pending, failures, written>>

(* clear_stream_failure, whose result is ignored, then                     *)
(* mark_stream_processed_once, whose key nothing reads.                    *)
MarkProcessed(c, reply, cleared) ==
  /\ stage[c] = "mark"
  /\ Call(IF cleared THEN reply ELSE "refused")
  /\ cleared \/ reply = "ok"
  /\ failures' = IF cleared THEN [failures EXCEPT ![EventOf(c)] = 0] ELSE failures
  /\ Continue(c, reply, "ack")
  /\ UNCHANGED <<outboxVars, streamVars, pending, resultVars>>

Ack(c, reply) ==
  /\ stage[c] = "ack"
  /\ Call(reply)
  /\ pending' = IF TakesEffect(reply) THEN pending \ {Entry(c)} ELSE pending
  /\ IF Succeeds(reply) THEN NextEntry(c) ELSE AbortTick(c)
  /\ UNCHANGED <<outboxVars, streamVars, failures, resultVars>>

ConsumerStep(c) ==
  \/ ClaimStale(c)
  \/ \E reply \in Replies :
       \/ EnsureGroup(c, reply)
       \/ HandleMemoryEvent(c, reply)
       \/ MoveToDlq(c, reply)
       \/ \E cleared \in BOOLEAN : MarkProcessed(c, reply, cleared)
       \/ Ack(c, reply)
  \/ \E reply \in {"ok", "lost"} : ReadGroup(c, reply)
  \/ \E reply \in RepeatedReplies : CountFailure(c, reply)

-----------------------------------------------------------------------------
(* The process dies and starts again: the publisher and the consumers      *)
(* forget their batches; Postgres and Redis keep what they have.           *)
Restart ==
  /\ Disturb
  /\ batch' = {}
  /\ publishing' = "publish"
  /\ stage' = [c \in Consumers |-> "start"]
  /\ held' = [c \in Consumers |-> {}]
  /\ UNCHANGED <<row, streamVars, pending, failures, resultVars>>

(* An operator flushes Redis: the stream, its group and the counters go.   *)
Flush ==
  /\ MayFlush
  /\ erased < Len(stream)
  /\ erased' = Len(stream)
  /\ delivered' = Len(stream)
  /\ group' = FALSE
  /\ pending' = {}
  /\ failures' = [e \in Events |-> 0]
  /\ UNCHANGED <<outboxVars, stream, stage, held, resultVars, disturbed>>

(* Nothing is left to do, or nobody is left to do it: the tickers tick,    *)
(* and polls come back empty or with an error.                             *)
AtRest ==
  /\ \A e \in Events : row[e] = "published"
  /\ batch = {}
  /\ \A c \in Consumers : stage[c] \in {"poll", "stopped"}
  /\ \/ delivered = Len(stream) /\ pending = {}
     \/ ~group
     \/ \A c \in Consumers : stage[c] = "stopped"
Rest == AtRest /\ UNCHANGED vars

Next ==
  \/ \E e \in Events : Enqueue(e)
  \/ PublisherStep
  \/ \E c \in Consumers : ConsumerStep(c)
  \/ Restart
  \/ Flush
  \/ Rest

Spec == Init /\ [][Next]_vars

(* Each worker is a task of the runtime, which polls every task that can   *)
(* run; its calls answer or time out.                                      *)
FairSpec ==
  /\ Spec
  /\ WF_vars(PublisherStep)
  /\ \A c \in Consumers : WF_vars(ConsumerStep(c))

-----------------------------------------------------------------------------
(* The entries the group has not acknowledged, and an event's phase.       *)
Unacknowledged == pending \union (delivered + 1) .. Len(stream)

Phase(e) ==
  CASE row[e] = "none" -> "new"
    [] row[e] = "published" /\ \A k \in Unacknowledged : stream[k] # e -> "settled"
    [] OTHER -> "outstanding"

(* The bus delivers at least once: an event that is neither in the outbox  *)
(* nor unacknowledged in the stream was written or buried, and a settled   *)
(* event is not delivered anew.                                            *)
Promise == INSTANCE Delivery WITH Event <- Events,
                                  phase <- [e \in Events |-> Phase(e)]
DeliversAtLeastOnce == Promise!Spec

(* No queued event is lost: whatever fails, is lost, repeated or restarted *)
(* between the insert in the outbox and the acknowledgement, it is in the  *)
(* outbox, in the stream, in the memory or among the dead letters, unless  *)
(* an entry of it was in Redis when an operator flushed it.                *)
NothingIsLost ==
  \A e \in Events :
    Phase(e) = "settled" => \/ written[e] > 0
                            \/ e \in dead
                            \/ \E k \in 1 .. erased : stream[k] = e

(* docs/ARCHITECTURE.md:68, "Redis is an opportunistic cache; losing it    *)
(* does not lose data": even after a flush, what the outbox holds as       *)
(* published is in the stream, in the memory or among the dead letters.    *)
RedisIsDisposable ==
  \A e \in Events : Phase(e) = "settled" => written[e] > 0 \/ e \in dead

(* Duplicates need a cause: without a disturbance, the polling publisher   *)
(* and the consumers that share the group write every event at most once.  *)
OnceWhenCalm ==
  disturbed = 0 => \A e \in Events : written[e] <= 1

(* An event that can be written is buried only after MaxRetries            *)
(* disturbances of its own attempts: the failures of a poisoned event that *)
(* shares its batches, and redeliveries that succeed, do not add up.       *)
DeadLettersAreEarned ==
  \A e \in dead \ Poisoned : disturbed >= MaxRetries

(* Every queued event is settled, unless every consumer failed at its      *)
(* start: a poisoned event, an aborted tick, a restart or a reclaimed      *)
(* entry never blocks the events behind it for good.                       *)
EverythingSettles ==
  \A e \in Events :
    row[e] # "none" ~> \/ Phase(e) = "settled"
                      \/ \A c \in Consumers : stage[c] = "stopped"
=============================================================================
