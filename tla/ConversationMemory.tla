------------------------- MODULE ConversationMemory -------------------------
(***************************************************************************)
(* What the assistant remembers of one conversation from turn to turn: the *)
(* hot turns and summary of the process (hot_conversations), the snapshot  *)
(* in Redis, the tables turns, summaries and brain_memories of Postgres    *)
(* (src/src/storage/store.rs, postgres.rs).  A turn reads them behind the  *)
(* gate of the conversation; its finalizer, a task of its own, writes them *)
(* (process_inbound_event.rs), summaries and memories by way of the bus    *)
(* and its MemoryConsumers (src/src/telemetry/redis_bus.rs).               *)
(*                                                                         *)
(* The gate and the reply are the subject of InboundPipeline, the bus that *)
(* of EventBus, dead letters and consumers that take over what a slow one  *)
(* holds included; here the bus hands out batches of its events in order,  *)
(* and what was left pending by a failure in any order and again.          *)
(***************************************************************************)
EXTENDS BrainMemory

CONSTANTS
  MaxTurns,          \* bound: turns of the conversation
  Consumers,         \* FERRUM_MEMORY_CONSUMER_CONCURRENCY
  SummarizeEvery,    \* summarize_every_n_turns
  HotCap,            \* HOT_TURN_CAP
  ContextLimit,      \* turns in a context
  MaxDisturbances    \* bound: failures, redeliveries, restarts and resets

Turn == 1..MaxTurns
NoTurn == 0

ASSUME MemoryAssumption ==
  /\ MaxTurns \in Nat \ {0} /\ Consumers # {} /\ SummarizeEvery \in Nat \ {0}
  /\ HotCap \in Nat /\ HotCap >= 2 /\ ContextLimit \in Nat /\ ContextLimit >= 2
  /\ MaxDisturbances \in Nat

VARIABLES
  era,          \* how often an operator has reset the data
  life,         \* how often the process has been restarted
  conversation, \* the conversation has its row
  turn,         \* each turn: where it stands and what it has read
  finalizer,    \* each turn's finalizer: where it stands and what it has read
  hot,          \* hot_conversations of the conversation
  cached,       \* its context snapshot in Redis
  turns, summaries, brain,   \* the tables
  bus,          \* memory events not yet acknowledged
  claimed,      \* each MemoryConsumer: the events of its batch it has yet to handle
  worker,       \* each MemoryConsumer: the event it handles
  raced,        \* history: two consumers have handled events of a table at once
  written,      \* history: the turns whose memories were written, in the order of the writes
  disturbed     \* bound: disturbances so far

turnVars   == <<turn, finalizer>>
tableVars  == <<turns, summaries, brain>>
busVars    == <<bus, claimed, worker, raced, written>>
worldVars  == <<era, life, conversation>>
vars == <<worldVars, turnVars, hot, cached, tableVars, busVars, disturbed>>

Entry(t, role) == [of |-> t, role |-> role]
NoSnapshot == [recent |-> <<>>, summary |-> NoTurn, there |-> FALSE]
Snapshot(recent, summary) == [recent |-> recent, summary |-> summary, there |-> TRUE]
LastOf(s, n) == SubSeq(s, Larger(1, Len(s) - n + 1), Len(s))
NewestOf(s) == IF s = <<>> THEN NoTurn ELSE s[Len(s)]

Cold == [recent |-> <<>>, summary |-> NoTurn]
Unborn == [stage |-> "idle", message |-> CHOOSE m \in Messages : TRUE, shift |-> FALSE,
           era |-> 0, life |-> 0, loaded |-> NoSnapshot, missed |-> FALSE,
           matched |-> <<>>, given |-> <<>>]
Unspawned == [step |-> "none", row |-> NoRow, summary |-> NoTurn, captured |-> <<>>]
AtRest == [kind |-> "none", of |-> NoTurn, summary |-> NoTurn, candidates |-> <<>>, row |-> NoRow]
Waiting == [event |-> AtRest, read |-> <<>>, stale |-> FALSE]

InTurn == {"load", "fill", "match", "sticky", "reply"}
Disturb == disturbed < MaxDisturbances /\ disturbed' = disturbed + 1
Calm == UNCHANGED disturbed

Init ==
  /\ era = 0 /\ life = 0 /\ conversation = FALSE
  /\ turn = [t \in Turn |-> Unborn]
  /\ finalizer = [t \in Turn |-> Unspawned]
  /\ hot = Cold /\ cached = NoSnapshot
  /\ turns = <<>> /\ summaries = <<>> /\ brain = <<>>
  /\ bus = <<>> /\ claimed = [c \in Consumers |-> <<>>] /\ worker = [c \in Consumers |-> Waiting]
  /\ raced = FALSE /\ written = <<>> /\ disturbed = 0

-----------------------------------------------------------------------------
(* A turn, behind the gate of its conversation.                            *)

Begin(t) ==
  /\ turn[t].stage = "idle"
  /\ \A u \in Turn : u < t => turn[u].stage \notin InTurn \cup {"idle"}
  /\ \E m \in Messages, shift \in BOOLEAN :
       turn' = [turn EXCEPT ![t] = [Unborn EXCEPT !.stage = "load", !.message = m, !.shift = shift,
                                                  !.era = era, !.life = life]]
  /\ conversation' = TRUE
  /\ UNCHANGED <<era, life, finalizer, hot, cached, tableVars, busVars, disturbed>>

(* conversation_context_snapshot: what is hot is not looked up elsewhere,  *)
(* unless the query of the memory documents fails that goes with it: then  *)
(* the turn has missed the hot turns.                                      *)
LoadSnapshot(t) ==
  /\ turn[t].stage = "load"
  /\ LET Loaded(snapshot, next, missed) ==
           turn' = [turn EXCEPT ![t].loaded = snapshot, ![t].stage = next, ![t].missed = missed]
         Elsewhere(missed) ==
           \/ cached.there /\ Loaded(cached, "match", missed)
           \/ /\ ~cached.there
              /\ Loaded(Snapshot(LastOf(turns, ContextLimit), NewestOf(summaries)), "fill", missed)
     IN  \/ /\ hot.recent # <<>> /\ Calm
            /\ Loaded(Snapshot(LastOf(hot.recent, ContextLimit), hot.summary), "match", FALSE)
         \/ hot.recent # <<>> /\ Disturb /\ Elsewhere(TRUE)
         \/ hot.recent = <<>> /\ Calm /\ Elsewhere(FALSE)
  /\ UNCHANGED <<worldVars, finalizer, hot, cached, tableVars, busVars>>

(* cached_json stores what it has loaded, whatever has happened since.     *)
FillCache(t) ==
  /\ turn[t].stage = "fill"
  /\ cached' = turn[t].loaded
  /\ turn' = [turn EXCEPT ![t].stage = "match"]
  /\ UNCHANGED <<worldVars, finalizer, hot, tableVars, busVars, disturbed>>

(* A turn that leaves the topic is given no memory of the conversation.    *)
ConversationLimitOf(t) == IF turn[t].shift THEN 0 ELSE ConversationLimit

(* The turn is given its memories; what it loaded of a topic it leaves is  *)
(* not looked at.                                                          *)
Given(t, memories) ==
  turn' = [turn EXCEPT ![t].matched = <<>>, ![t].given = memories, ![t].stage = "reply",
                       ![t].loaded = IF turn[t].shift THEN Snapshot(<<>>, NoTurn) ELSE @]

(* A query that fails is logged: the turn goes on without memories.        *)
SearchBrain(t) ==
  /\ turn[t].stage = "match"
  /\ \/ /\ Calm
        /\ \E matched \in search_active_brain(brain, ConversationLimitOf(t)) :
             turn' = [turn EXCEPT ![t].matched = matched, ![t].stage = "sticky"]
     \/ Disturb /\ Given(t, <<>>)
  /\ UNCHANGED <<worldVars, finalizer, hot, cached, tableVars, busVars>>

RecentBrain(t) ==
  /\ turn[t].stage = "sticky"
  /\ \/ /\ Calm
        /\ Given(t, merge_brain_memories(turn[t].matched,
                      recent_active_brain(brain, ConversationLimitOf(t)), ConversationLimitOf(t)))
     \/ Disturb /\ Given(t, <<>>)
  /\ UNCHANGED <<worldVars, finalizer, hot, cached, tableVars, busVars>>

Exchange(t) == <<Entry(t, "user"), Entry(t, "assistant")>>
Settled(t, stage) ==
  turn' = [turn EXCEPT ![t] = [Unborn EXCEPT !.stage = stage, !.message = turn[t].message,
                                             !.era = turn[t].era, !.life = turn[t].life]]

publish_hot_turns(entries) == hot' = [hot EXCEPT !.recent = LastOf(@ \o entries, HotCap)]

(* Mutant: the exchange becomes hot when the finalizer has stored it.      *)
ReplyUnpublished(t) ==
  /\ turn[t].stage = "reply"
  /\ Settled(t, "done")
  /\ finalizer' = [finalizer EXCEPT ![t].step = "user"]
  /\ UNCHANGED <<worldVars, hot, cached, tableVars, busVars, disturbed>>

(* The exchange is hot before the gate opens; the finalizer is spawned.    *)
Reply(t) ==
  /\ turn[t].stage = "reply"
  /\ Settled(t, "done")
  /\ publish_hot_turns(Exchange(t))
  /\ finalizer' = [finalizer EXCEPT ![t].step = "user"]
  /\ UNCHANGED <<worldVars, cached, tableVars, busVars, disturbed>>

-----------------------------------------------------------------------------
(* append_turn: the row, then the snapshots of the conversation are        *)
(* dropped; an error of Redis is not looked at.                            *)

append_turn(t, role) ==
  /\ conversation
  /\ turns' = Append(turns, Entry(t, role))
  /\ \/ Calm /\ cached' = NoSnapshot
     \/ Disturb /\ cached.there /\ UNCHANGED cached
append_fails ==
  /\ conversation => Disturb
  /\ ~conversation => Calm
  /\ UNCHANGED <<turns, cached>>

(* safe_abort: the answer is stored at once, the message is not.           *)
Abort(t) ==
  /\ turn[t].stage \in InTurn
  /\ \/ append_turn(t, "assistant") /\ Settled(t, "aborted")
     \/ append_fails /\ Settled(t, "lost")
  /\ UNCHANGED <<worldVars, finalizer, hot, summaries, brain, busVars>>

StoreUserTurn(t) ==
  /\ finalizer[t].step = "user"
  /\ \/ /\ append_turn(t, "user")
        /\ finalizer' = [finalizer EXCEPT ![t].step = "assistant", ![t].row = Len(turns')]
     \/ /\ append_fails
        /\ finalizer' = [finalizer EXCEPT ![t].step = "assistant"]
  /\ UNCHANGED <<worldVars, turn, hot, summaries, brain, busVars>>

StoreAssistantTurn(t) ==
  /\ finalizer[t].step = "assistant"
  /\ \/ /\ append_turn(t, "assistant")
        /\ finalizer' = [finalizer EXCEPT ![t].step = "count",
                                          ![t].row = IF @ = NoRow THEN Len(turns') ELSE @]
     \/ /\ append_fails
        /\ finalizer' = [finalizer EXCEPT ![t].step = "count"]
  /\ UNCHANGED <<worldVars, turn, hot, summaries, brain, busVars>>

(* recent_turns of the finalizer: the hot ones, else those stored.         *)
Recent == IF hot.recent # <<>> THEN hot.recent ELSE LastOf(turns, HotCap)

(* The summary is cut at a byte: a text with a character across the cut    *)
(* panics when it is among the first or the last three turns.              *)
Panics(recent) ==
  \E i \in DOMAIN recent : /\ i <= 3 \/ i > Len(recent) - 3
                           /\ recent[i].role = "user" /\ turn[recent[i].of].message.split

(* A count or a list of turns that cannot be had is logged.                *)
CountTurns(t) ==
  /\ finalizer[t].step = "count"
  /\ \/ /\ Calm
        /\ finalizer' = [finalizer EXCEPT
             ![t].step = IF Len(turns) % SummarizeEvery = 0 THEN "summarize" ELSE "brain"]
     \/ Disturb /\ finalizer' = [finalizer EXCEPT ![t].step = "brain"]
  /\ UNCHANGED <<worldVars, turn, hot, cached, tableVars, busVars>>

Summarize(t) ==
  /\ finalizer[t].step = "summarize"
  /\ \/ /\ Calm
        /\ finalizer' = [finalizer EXCEPT
             ![t].step = IF Panics(Recent) THEN "panicked" ELSE "queue",
             ![t].summary = IF Recent = <<>> THEN NoTurn ELSE Recent[Len(Recent)].of]
     \/ /\ hot.recent = <<>> /\ Disturb
        /\ finalizer' = [finalizer EXCEPT ![t].step = "brain"]
  /\ UNCHANGED <<worldVars, turn, hot, cached, tableVars, busVars>>

Queue(event) == bus' = Append(bus, event)

QueueSummary(t) ==
  /\ finalizer[t].step = "queue"
  /\ \/ /\ Queue([AtRest EXCEPT !.kind = "summary", !.of = t, !.summary = finalizer[t].summary])
        /\ Calm
     \/ Disturb /\ UNCHANGED bus
  /\ finalizer' = [finalizer EXCEPT ![t].step = "brain"]
  /\ UNCHANGED <<worldVars, turn, hot, cached, tableVars, claimed, worker, raced, written>>

(* What is remembered of the message goes out after the reply.             *)
Contents(recent) ==
  [i \in DOMAIN recent |-> IF recent[i].role = "user" THEN Content(turn[recent[i].of].message)
                           ELSE "reply"]

QueueBrain(t) ==
  /\ finalizer[t].step = "brain"
  /\ \E learned \in BOOLEAN :
       LET candidates == capture_brain(turn[t].message, learned, Contents(LastOf(Recent, 8)))
       IN  \/ /\ candidates = <<>> /\ Calm
              /\ finalizer' = [finalizer EXCEPT ![t].step = "done"]
              /\ UNCHANGED bus
           \/ /\ candidates # <<>> /\ Calm
              /\ Queue([AtRest EXCEPT !.kind = "brain", !.of = t, !.candidates = candidates,
                                      !.row = finalizer[t].row])
              /\ finalizer' = [finalizer EXCEPT ![t].step = "done", ![t].captured = candidates]
           \/ /\ candidates # <<>> /\ Disturb
              /\ finalizer' = [finalizer EXCEPT ![t].step = "done"]
              /\ UNCHANGED bus
  /\ UNCHANGED <<worldVars, turn, hot, cached, tableVars, claimed, worker, raced, written>>

-----------------------------------------------------------------------------
(* MemoryConsumer                                                          *)

(* The events that consumers have, in hand or to come.                     *)
Taken == {worker[c].event : c \in Consumers} \cup UNION {Range(claimed[c]) : c \in Consumers}
Untaken == {i \in DOMAIN bus : bus[i] \notin Taken}

(* A batch: what nobody has read yet comes in order.  Only a failure       *)
(* leaves events pending, which are handed out again.                      *)
Claim(c) ==
  /\ worker[c] = Waiting /\ claimed[c] = <<>>
  /\ \E batch \in (SUBSET Untaken) \ {{}} :
       /\ Cardinality(batch) <= 32
       /\ disturbed = 0 => \A i \in batch, j \in Untaken : j < i => j \in batch
       /\ claimed' = [claimed EXCEPT ![c] = Subsequence(bus, batch)]
  /\ UNCHANGED <<worldVars, turnVars, hot, cached, tableVars, bus, worker, raced, written, disturbed>>

(* Mutant: the process keeps the summary it has.                           *)
publish_no_summary(event) == UNCHANGED hot

publish_hot_summary(event) == hot' = [hot EXCEPT !.summary = event.summary]

(* The handler begins: a summary is made hot, the rows are read that the   *)
(* candidates are about.                                                   *)
Take(c) ==
  /\ worker[c] = Waiting /\ claimed[c] # <<>>
  /\ LET event == Head(claimed[c])
     IN  /\ worker' = [worker EXCEPT ![c] =
              [event |-> event, stale |-> FALSE,
               read |-> [k \in DOMAIN event.candidates |->
                           existing_row(brain, event.candidates[k].key)]]]
         /\ \/ event.kind = "summary" /\ publish_hot_summary(event)
            \/ event.kind = "brain" /\ UNCHANGED hot
  /\ claimed' = [claimed EXCEPT ![c] = Tail(@)]
  /\ UNCHANGED <<worldVars, turnVars, cached, tableVars, bus, raced, written, disturbed>>

LeavesTheRest(c) == claimed' = [claimed EXCEPT ![c] = <<>>]

(* A reset may have taken the event away meanwhile.  If it cannot be       *)
(* acknowledged, it and the rest of its batch are left to be delivered     *)
(* again.                                                                  *)
Acknowledged(event) ==
  \/ \E i \in DOMAIN bus : bus[i] = event /\ bus' = RemoveAt(bus, i)
  \/ event \notin Range(bus) /\ UNCHANGED bus
Acknowledge(c) ==
  \/ Calm /\ Acknowledged(worker[c].event) /\ UNCHANGED claimed
  \/ Disturb /\ LeavesTheRest(c) /\ UNCHANGED bus
Finish(c) ==
  /\ worker' = [d \in Consumers |->
       CASE d = c -> Waiting
         [] d # c /\ worker[d].event.kind = worker[c].event.kind ->
              [worker[d] EXCEPT !.stale = TRUE]
         [] OTHER -> worker[d]]
  /\ raced' = (raced \/ worker[c].stale)

(* An error of Redis is not looked at: the snapshot may stay.              *)
WriteSummary(c) ==
  /\ worker[c].event.kind = "summary" /\ conversation
  /\ summaries' = Append(summaries, worker[c].event.summary)
  /\ \/ cached' = NoSnapshot /\ Acknowledge(c)
     \/ /\ Disturb /\ cached.there /\ UNCHANGED <<cached, claimed>>
        /\ Acknowledged(worker[c].event)
  /\ Finish(c)
  /\ UNCHANGED <<worldVars, turnVars, hot, turns, brain, written>>

(* One transaction: the candidates in their order.                         *)
saved_brain(rows, candidates, read, source) ==
  LET table[k \in 0..Len(candidates)] ==
        IF k = 0 THEN rows
        ELSE save_or_merge_brain_candidate(table[k - 1], read[k], candidates[k], source)
  IN  table[Len(candidates)]

WriteBrain(c) ==
  /\ worker[c].event.kind = "brain" /\ conversation
  /\ brain' = saved_brain(brain, worker[c].event.candidates, worker[c].read, worker[c].event.row)
  /\ written' = Append(written, worker[c].event.of)
  /\ Acknowledge(c)
  /\ Finish(c)
  /\ UNCHANGED <<worldVars, turnVars, hot, cached, turns, summaries>>

(* The write fails, for once or for want of the conversation's row, and    *)
(* the batch goes on, unless the failure cannot be counted either.         *)
HandlerFails(c) ==
  /\ worker[c] # Waiting
  /\ \/ (conversation => Disturb) /\ (~conversation => Calm) /\ UNCHANGED claimed
     \/ Disturb /\ LeavesTheRest(c)
  /\ cached' \in IF worker[c].event.kind = "summary" THEN {cached, NoSnapshot} ELSE {cached}
  /\ worker' = [worker EXCEPT ![c] = Waiting]
  /\ UNCHANGED <<worldVars, turnVars, hot, tableVars, bus, raced, written>>

-----------------------------------------------------------------------------
(* The world: a snapshot outlives its time, the process restarts, an       *)
(* operator resets the data (operator_reset_data).                         *)

Expire ==
  /\ cached.there /\ cached' = NoSnapshot
  /\ UNCHANGED <<worldVars, turnVars, hot, tableVars, busVars, disturbed>>

(* Mutant: finalizers begin again after a restart.                         *)
RestartFinalizers ==
  /\ Disturb
  /\ life' = life + 1
  /\ hot' = Cold
  /\ turn' = [t \in Turn |-> IF turn[t].stage \in InTurn
                             THEN [Unborn EXCEPT !.stage = "lost", !.message = turn[t].message]
                             ELSE turn[t]]
  /\ finalizer' = [t \in Turn |-> IF finalizer[t].step \in {"none", "done", "panicked"}
                                  THEN finalizer[t] ELSE [Unspawned EXCEPT !.step = "user"]]
  /\ claimed' = [c \in Consumers |-> <<>>] /\ worker' = [c \in Consumers |-> Waiting]
  /\ UNCHANGED <<era, conversation, cached, tableVars, bus, raced, written>>

Restart ==
  /\ Disturb
  /\ life' = life + 1
  /\ hot' = Cold
  /\ turn' = [t \in Turn |-> IF turn[t].stage \in InTurn
                             THEN [Unborn EXCEPT !.stage = "lost", !.message = turn[t].message]
                             ELSE turn[t]]
  /\ finalizer' = [t \in Turn |-> IF finalizer[t].step \in {"none", "done", "panicked"}
                                  THEN finalizer[t]
                                  ELSE [finalizer[t] EXCEPT !.step = "lost"]]
  /\ claimed' = [c \in Consumers |-> <<>>] /\ worker' = [c \in Consumers |-> Waiting]
  /\ UNCHANGED <<era, conversation, cached, tableVars, bus, raced, written>>

(* TRUNCATE ... CASCADE takes brain_memories along; nothing is cold yet.   *)
(* A transaction that has read the table keeps TRUNCATE waiting: what a    *)
(* consumer still has in hand it reads afterwards.                         *)
ResetData ==
  /\ Disturb
  /\ era' = era + 1 /\ conversation' = FALSE
  /\ turns' = <<>> /\ summaries' = <<>> /\ brain' = <<>> /\ bus' = <<>>
  /\ cached' = NoSnapshot /\ written' = <<>>
  /\ worker' = [c \in Consumers |-> [worker[c] EXCEPT !.read = [k \in DOMAIN @ |-> NoRow]]]
  /\ UNCHANGED <<life, turnVars, hot, claimed, raced>>

Quiet ==
  /\ \A t \in Turn : /\ turn[t].stage \notin InTurn
                     /\ finalizer[t].step \in {"none", "done", "panicked", "lost"}
  /\ bus = <<>> /\ \A c \in Consumers : worker[c] = Waiting /\ claimed[c] = <<>>

(* No more turns than the bound: nothing happens any more.                 *)
Over == Quiet /\ (\A t \in Turn : turn[t].stage # "idle") /\ UNCHANGED vars

Next ==
  \/ \E t \in Turn : \/ Begin(t) \/ LoadSnapshot(t) \/ FillCache(t) \/ SearchBrain(t)
                     \/ RecentBrain(t) \/ Reply(t) \/ Abort(t)
                     \/ StoreUserTurn(t) \/ StoreAssistantTurn(t) \/ CountTurns(t)
                     \/ Summarize(t) \/ QueueSummary(t) \/ QueueBrain(t)
  \/ \E c \in Consumers : Claim(c) \/ Take(c) \/ WriteSummary(c) \/ WriteBrain(c) \/ HandlerFails(c)
  \/ Expire \/ Restart \/ ResetData \/ Over

Spec == Init /\ [][Next]_vars

-----------------------------------------------------------------------------
(* Properties                                                              *)

(* Types of the state.                                                     *)
IsSnapshot(s) == /\ s.there \in BOOLEAN /\ s.summary \in Turn \cup {NoTurn}
                 /\ s.recent \in Seq([of : Turn, role : {"user", "assistant"}])
TypeOK ==
  /\ era \in 0..MaxDisturbances /\ life \in 0..MaxDisturbances /\ conversation \in BOOLEAN
  /\ \A t \in Turn : /\ turn[t].stage \in InTurn \cup {"idle", "done", "aborted", "lost"}
                     /\ turn[t].message \in Messages /\ IsSnapshot(turn[t].loaded)
                     /\ finalizer[t].row \in Nat /\ finalizer[t].summary \in Turn \cup {NoTurn}
  /\ Len(hot.recent) <= HotCap /\ hot.summary \in Turn \cup {NoTurn}
  /\ IsSnapshot(cached)
  /\ summaries \in Seq(Turn \cup {NoTurn})
  /\ \A i \in DOMAIN brain : /\ brain[i].kind \in Kind /\ brain[i].status \in {"active", "superseded"}
                            /\ brain[i].superseded_by \in 0..Len(brain)
  /\ \A c \in Consumers : Len(worker[c].read) = Len(worker[c].event.candidates)
  /\ disturbed \in 0..MaxDisturbances

(* A turn that stays on the topic is answered with the whole exchange      *)
(* before it, if this process has answered that one: the exchange is hot   *)
(* before the gate opens, however late its finalizer stores it             *)
(* (process_inbound_event.rs:1411).  Only a turn whose query of the memory *)
(* documents failed may go without (store.rs:544).                         *)
Answered(t) == {u \in Turn : /\ u < t /\ turn[u].stage = "done" /\ turn[u].life = turn[t].life}
PreviousExchangeIsSeen ==
  \A t \in Turn :
    /\ turn[t].stage \in {"match", "sticky"} \/ (turn[t].stage = "reply" /\ ~turn[t].shift)
    /\ Answered(t) # {} /\ ~turn[t].missed
    => LastOf(turn[t].loaded.recent, 2) = Exchange(Max(Answered(t)))

(* Of what the user said of one thing at most one memory is active, unless *)
(* two consumers handled memories at once; and what was superseded leads,  *)
(* by superseded_by, to a later memory of the same thing, of which one is  *)
(* active still: nothing is forgotten by being said again                  *)
(* (postgres.rs:1511).                                                     *)
OneMemoryIsActive ==
  \A i \in DOMAIN brain :
    LET actives == ActiveRows(brain, brain[i].key)
    IN  /\ actives # {} /\ (Cardinality(actives) = 1 \/ raced)
        /\ brain[i].status = "superseded" =>
             /\ brain[i].superseded_by \in (i + 1)..Len(brain)
             /\ brain[brain[i].superseded_by].key = brain[i].key

(* What was written last of a thing is what is remembered of it, whatever  *)
(* it replaces, unless two consumers worked at once: the order of arrival  *)
(* decides, not the turn nor how sure a memory is                          *)
(* (candidate_should_supersede, memory/brain.rs:249).  And nothing said is *)
(* lost: once the bus is empty and nothing failed, what was captured of    *)
(* every turn was written.                                                 *)
Words(t) == Range(finalizer[t].captured)
IsSaidAgain(i, key) == \E j \in DOMAIN written : j > i /\ \E w \in Words(written[j]) : w.key = key
LastWordWins ==
  /\ ~raced => \A i \in DOMAIN written : \A word \in Words(written[i]) :
       \/ IsSaidAgain(i, word.key)
       \/ \E r \in ActiveRows(brain, word.key) : same_content(brain[r], word)
  /\ Quiet /\ disturbed = 0 =>
       \A t \in Turn : finalizer[t].captured # <<>> => t \in Range(written)

(* The memories a turn is given were active when they were read, none is   *)
(* there twice, a turn that leaves the topic is given none of the          *)
(* conversation, and what was written last is there unless the share of    *)
(* its scope is used up by what matches the message: no preference is lost *)
(* because the words differ (brain_memory.rs:51).  A turn whose queries    *)
(* failed is given none.                                                   *)
RetrievalIsSound ==
  [][\A t \in Turn : turn[t].stage = "sticky" /\ turn'[t].stage = "reply" =>
       LET given == turn'[t].given
           limit(scope) == LimitOf(scope, ConversationLimitOf(t))
       IN  /\ \A k \in DOMAIN given : given[k].row.status = "active"
           /\ Cardinality(Ids(given)) = Len(given)
           /\ \A scope \in {"user", "conversation"} : CountOf(given, scope) <= limit(scope)
           /\ \/ given = <<>> /\ disturbed' > disturbed
              \/ \A item \in Range(recent_active_brain(brain, ConversationLimitOf(t))) :
                   \/ item.id \in Ids(given)
                   \/ CountOf(given, item.row.scope) = limit(item.row.scope)]_vars

(* Once all is written the summary the process answers with is the last of *)
(* the table, though it becomes hot before it is stored, if nothing failed *)
(* and no two consumers wrote summaries at once (storage/store.rs:157).    *)
HotSummaryIsStored ==
  Quiet /\ disturbed = 0 /\ ~raced => hot.summary = NewestOf(summaries)

(* A turn is stored at most once, the message before its answer, and once  *)
(* the finalizers have ended and nothing failed the table holds every      *)
(* exchange, whole (process_inbound_event.rs:1515).                        *)
TurnsAreStoredOnce ==
  /\ \A i, j \in DOMAIN turns : i < j =>
       /\ turns[i] # turns[j]
       /\ turns[i].of = turns[j].of => turns[i].role = "user"
  /\ Quiet /\ disturbed = 0 =>
       \A t \in Turn : turn[t].stage = "done" => Range(Exchange(t)) \subseteq Range(turns)

(* A turn after a reset is answered without the turns before it.           *)
ResetForgets ==
  \A t \in Turn : turn[t].stage \in InTurn =>
    \A e \in Range(turn[t].loaded.recent) : turn[e.of].era = turn[t].era
=============================================================================
