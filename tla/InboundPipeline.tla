-------------------------- MODULE InboundPipeline --------------------------
(***************************************************************************)
(* From the queue to the user: the worker loop of run() in src/src/app.rs, *)
(* the jobs it spawns, each with a permit and behind the gate of its       *)
(* conversation, the turn they execute (src/src/usecase/                   *)
(* process_inbound_event.rs), the finalizer every answered turn leaves     *)
(* behind, the operator's controls, and restarts of the process.           *)
(***************************************************************************)
EXTENDS Ingest

CONSTANTS
  Conversation,
  ConversationOf,  \* Event -> Conversation: channel and external id
  KillSwitch,      \* config.policy.outbound_kill_switch
  MaxParallel,     \* permits: config.team.max_parallel_tasks
  MaxChunks,       \* bound: chunks of one reply
  HotTurnCap       \* HOT_TURN_CAP

ASSUME PipelineAssumption ==
  /\ ConversationOf \in [Event -> Conversation]
  /\ KillSwitch \in BOOLEAN
  /\ MaxParallel \in Nat \ {0} /\ MaxChunks \in Nat \ {0}
  /\ HotTurnCap \in Nat \ {0}

VARIABLES
  paused, kill_switch,  \* SupervisorControls
  worker,               \* the event the worker loop holds
  permits,              \* free permits of the semaphore
  job,                  \* where the job of each event stands
  reply,                \* chunks the reply of an event has, 0 for no reply
  sent_chunks,          \* chunks a job has sent
  finalizer,            \* where the finalizer of each event stands
  deduped,              \* processed_event_dedup
  outbound,             \* outbound_messages: rows of sent chunks of an event
  turns,                \* turns: which of an event's two turns are stored
  hot_turns,            \* hot_conversations: recent turns of a conversation
  chat                  \* what a conversation's user has received

controlVars == <<paused, kill_switch>>
jobVars     == <<worker, permits, job, reply, sent_chunks, finalizer>>
tableVars   == <<deduped, outbound, turns>>
turnVars    == <<controlVars, jobVars, tableVars, hot_turns, chat>>
vars        == <<ingestVars, inbound, queue, queue_depth, disturbed, turnVars>>

Undecided == -1
JobStage == {"none", "gate", "dedupe", "decide", "send", "abort", "close",
             "user_turn", "assistant_turn"}
FinalizerStage == {"none", "mark", "rows", "user_turn", "assistant_turn"}

(* Mutant: the guard lives as long as the decision.                        *)
InsideWhileDeciding(e) == job[e] \in {"dedupe", "decide"}

(* Mutant: the gate is left before the turns are published.                *)
InsideUntilSent(e) == job[e] \in {"dedupe", "decide", "send", "abort", "close"}

(* The job holds the guard of its conversation.                            *)
Inside(e) == job[e] \notin {"none", "gate"}

Init ==
  /\ IngestInit
  /\ paused = FALSE /\ kill_switch = KillSwitch
  /\ worker = NoEvent /\ permits = MaxParallel
  /\ job = [e \in Event |-> "none"]
  /\ reply = [e \in Event |-> Undecided]
  /\ sent_chunks = [e \in Event |-> 0]
  /\ finalizer = [e \in Event |-> "none"]
  /\ deduped = {}
  /\ outbound = [e \in Event |-> 0]
  /\ turns = {}
  /\ hot_turns = [c \in Conversation |-> <<>>]
  /\ chat = [c \in Conversation |-> <<>>]

-----------------------------------------------------------------------------
(* Mutant: a paused runtime keeps what is queued until it is resumed.      *)
ReceiveUnlessPaused ==
  /\ ~paused
  /\ queue # <<>> /\ worker = NoEvent
  /\ queue' = Tail(queue)
  /\ queue_depth' = queue_depth - 1
  /\ worker' = Head(queue)
  /\ UNCHANGED <<ingestVars, inbound, disturbed, controlVars, permits, job,
                 reply, sent_chunks, finalizer, tableVars, hot_turns, chat>>

(* The worker loop receives; a paused runtime drops the event.             *)
Receive ==
  /\ queue # <<>> /\ worker = NoEvent
  /\ queue' = Tail(queue)
  /\ queue_depth' = queue_depth - 1
  /\ worker' = IF paused THEN NoEvent ELSE Head(queue)
  /\ UNCHANGED <<ingestVars, inbound, disturbed, controlVars, permits, job,
                 reply, sent_chunks, finalizer, tableVars, hot_turns, chat>>

(* The loop itself waits for a permit, then spawns the job.                *)
Dispatch ==
  /\ worker # NoEvent /\ permits > 0
  /\ permits' = permits - 1
  /\ job' = [job EXCEPT ![worker] = "gate"]
  /\ worker' = NoEvent
  /\ UNCHANGED <<ingestVars, inbound, queue, queue_depth, disturbed, controlVars,
                 reply, sent_chunks, finalizer, tableVars, hot_turns, chat>>

Goto(e, stage) == job' = [job EXCEPT ![e] = stage] /\ UNCHANGED permits
EndJob(e) == job' = [job EXCEPT ![e] = "none"] /\ permits' = permits + 1

(* Everything a step of a job leaves alone.                                *)
JobFrame == UNCHANGED <<ingestVars, queue, queue_depth, controlVars, worker>>

(* ConversationGate::acquire                                               *)
EnterGate(e) ==
  /\ job[e] = "gate"
  /\ \A f \in Event : Inside(f) => ConversationOf[f] # ConversationOf[e]
  /\ Goto(e, "dedupe")
  /\ JobFrame
  /\ UNCHANGED <<inbound, disturbed, reply, sent_chunks, finalizer, tableVars, hot_turns, chat>>

(* dedupe_processed_event: a duplicate ends the job.                       *)
Dedupe(e) ==
  /\ job[e] = "dedupe"
  /\ IF e \in deduped THEN EndJob(e) /\ UNCHANGED deduped
     ELSE Goto(e, "decide") /\ deduped' = deduped \cup {e}
  /\ JobFrame
  /\ UNCHANGED <<inbound, disturbed, reply, sent_chunks, finalizer, outbound, turns,
                 hot_turns, chat>>

(* Mutant: the turn that ends with an error keeps its permit.              *)
StoreErrorKeepsPermit(e) ==
  /\ job[e] \in {"dedupe", "decide", "close"}
  /\ StoreFault
  /\ job' = [job EXCEPT ![e] = "none"] /\ UNCHANGED permits
  /\ \/ UNCHANGED deduped
     \/ job[e] = "dedupe" /\ deduped' = deduped \cup {e}
  /\ JobFrame
  /\ UNCHANGED <<inbound, reply, sent_chunks, finalizer, outbound, turns, hot_turns, chat>>

(* A storage call of the turn fails and ends it with an error; the row of  *)
(* the deduplication stays, and may be there though its insert failed.     *)
StoreError(e) ==
  /\ job[e] \in {"dedupe", "decide", "close"}
  /\ StoreFault
  /\ EndJob(e)
  /\ \/ UNCHANGED deduped
     \/ job[e] = "dedupe" /\ deduped' = deduped \cup {e}
  /\ JobFrame
  /\ UNCHANGED <<inbound, reply, sent_chunks, finalizer, outbound, turns, hot_turns, chat>>

(* Context, decision, tools and plan come to a reply; then, once for all   *)
(* its chunks, the kill switch is looked at.                               *)
DecideReply(e, chunks) ==
  /\ job[e] = "decide"
  /\ IF kill_switch
     THEN reply' = [reply EXCEPT ![e] = 0] /\ Goto(e, "user_turn")
     ELSE reply' = [reply EXCEPT ![e] = chunks] /\ Goto(e, "send")
  /\ sent_chunks' = [sent_chunks EXCEPT ![e] = 0]
  /\ JobFrame
  /\ UNCHANGED <<inbound, disturbed, finalizer, tableVars, hot_turns, chat>>

(* The decision is to ignore the message: its turn is stored.              *)
DecideIgnore(e) ==
  /\ job[e] = "decide"
  /\ reply' = [reply EXCEPT ![e] = 0]
  /\ turns' = turns \cup {<<e, "user">>}
  /\ Goto(e, "close")
  /\ JobFrame
  /\ UNCHANGED <<inbound, disturbed, sent_chunks, finalizer, deduped, outbound, hot_turns, chat>>

(* safe_abort, for want of evidence or budget: the turn is stored first.   *)
DecideAbort(e) ==
  /\ job[e] = "decide"
  /\ reply' = [reply EXCEPT ![e] = 0]
  /\ turns' = turns \cup {<<e, "assistant">>}
  /\ Goto(e, "abort")
  /\ JobFrame
  /\ UNCHANGED <<inbound, disturbed, sent_chunks, finalizer, deduped, outbound, hot_turns, chat>>

Received(e, chunk) ==
  chat' = [chat EXCEPT ![ConversationOf[e]] = Append(@, <<e, chunk>>)]

(* The message of safe_abort; a failure is only logged.                    *)
SendAbort(e) ==
  /\ job[e] = "abort"
  /\ \/ Received(e, 0) /\ UNCHANGED disturbed
     \/ ChannelFault /\ UNCHANGED chat
  /\ Goto(e, "close")
  /\ JobFrame
  /\ UNCHANGED <<inbound, reply, sent_chunks, finalizer, tableVars, hot_turns>>

(* mark_inbound_processed ends a turn without an answer.                   *)
Close(e) ==
  /\ job[e] = "close"
  /\ inbound' = [inbound EXCEPT ![e] = "processed"]
  /\ EndJob(e)
  /\ JobFrame
  /\ UNCHANGED <<disturbed, reply, sent_chunks, finalizer, tableVars, hot_turns, chat>>

-----------------------------------------------------------------------------
AfterChunk(e) ==
  /\ sent_chunks' = [sent_chunks EXCEPT ![e] = @ + 1]
  /\ Goto(e, IF sent_chunks[e] + 1 = reply[e] THEN "user_turn" ELSE "send")

(* A chunk is sent; after the last one the turns are published.            *)
SendChunk(e) ==
  /\ job[e] = "send"
  /\ Received(e, sent_chunks[e] + 1)
  /\ AfterChunk(e)
  /\ JobFrame
  /\ UNCHANGED <<inbound, disturbed, reply, finalizer, tableVars, hot_turns>>

(* Mutant: the loop goes on with the next chunk.                           *)
SkipChunk(e) ==
  /\ job[e] = "send"
  /\ ChannelFault
  /\ UNCHANGED chat
  /\ AfterChunk(e)
  /\ JobFrame
  /\ UNCHANGED <<inbound, reply, finalizer, tableVars, hot_turns>>

(* A chunk fails, though the user may have got it: the turn ends with an   *)
(* error, and with it the rows of the chunks already sent.                 *)
SendError(e) ==
  /\ job[e] = "send"
  /\ ChannelFault
  /\ Received(e, sent_chunks[e] + 1) \/ UNCHANGED chat
  /\ EndJob(e)
  /\ JobFrame
  /\ UNCHANGED <<inbound, reply, sent_chunks, finalizer, tableVars, hot_turns>>

LastOf(s, n) == IF Len(s) <= n THEN s ELSE SubSeq(s, Len(s) - n + 1, Len(s))

PublishHotTurn(e, role) ==
  hot_turns' = [hot_turns EXCEPT ![ConversationOf[e]] =
                  LastOf(Append(@, <<e, role>>), HotTurnCap)]

PublishUserTurn(e) ==
  /\ job[e] = "user_turn"
  /\ PublishHotTurn(e, "user")
  /\ Goto(e, "assistant_turn")
  /\ JobFrame
  /\ UNCHANGED <<inbound, disturbed, reply, sent_chunks, finalizer, tableVars, chat>>

(* The last step of the job spawns the finalizer, outside of the gate.     *)
PublishAssistantTurn(e) ==
  /\ job[e] = "assistant_turn"
  /\ PublishHotTurn(e, "assistant")
  /\ EndJob(e)
  /\ finalizer' = [finalizer EXCEPT ![e] = "mark"]
  /\ JobFrame
  /\ UNCHANGED <<inbound, disturbed, reply, sent_chunks, tableVars, chat>>

JobStep(e) ==
  \/ EnterGate(e) \/ Dedupe(e) \/ StoreError(e)
  \/ \E n \in 1..MaxChunks : DecideReply(e, n)
  \/ DecideIgnore(e) \/ DecideAbort(e) \/ SendAbort(e) \/ Close(e)
  \/ SendChunk(e) \/ SendError(e)
  \/ PublishUserTurn(e) \/ PublishAssistantTurn(e)

-----------------------------------------------------------------------------
(* The finalizer goes through its stages whether or not each one succeeds. *)
FinalizerAt(e, stage, next) ==
  /\ finalizer[e] = stage
  /\ finalizer' = [finalizer EXCEPT ![e] = next]
  /\ UNCHANGED <<ingestVars, queue, queue_depth, controlVars, worker, permits,
                 job, reply, sent_chunks, deduped, hot_turns, chat>>

FinalizeMark(e) ==
  /\ FinalizerAt(e, "mark", "rows")
  /\ \/ inbound' = [inbound EXCEPT ![e] = "processed"] /\ UNCHANGED disturbed
     \/ StoreFault /\ UNCHANGED inbound
  /\ UNCHANGED <<outbound, turns>>

(* One row per chunk, or the row of a suppressed reply, which is not       *)
(* counted here.  Rows that fail are skipped.                              *)
FinalizeRows(e) ==
  /\ FinalizerAt(e, "rows", "user_turn")
  /\ \/ outbound' = [outbound EXCEPT ![e] = sent_chunks[e]] /\ UNCHANGED disturbed
     \/ StoreFault /\ sent_chunks[e] > 0
                   /\ outbound' \in {[outbound EXCEPT ![e] = n] : n \in 0..(sent_chunks[e] - 1)}
  /\ UNCHANGED <<inbound, turns>>

FinalizeTurn(e, role, stage, next) ==
  /\ FinalizerAt(e, stage, next)
  /\ \/ turns' = turns \cup {<<e, role>>} /\ UNCHANGED disturbed
     \/ StoreFault /\ UNCHANGED turns
  /\ UNCHANGED <<inbound, outbound>>

FinalizerStep(e) ==
  \/ FinalizeMark(e) \/ FinalizeRows(e)
  \/ FinalizeTurn(e, "user", "user_turn", "assistant_turn")
  \/ FinalizeTurn(e, "assistant", "assistant_turn", "none")

-----------------------------------------------------------------------------
(* The operator pauses and resumes, and toggles the kill switch.           *)
Control ==
  /\ Disturb("control")
  /\ \/ paused' = ~paused /\ UNCHANGED kill_switch
     \/ kill_switch' = ~kill_switch /\ UNCHANGED paused
  /\ UNCHANGED <<ingestVars, inbound, queue, queue_depth, jobVars,
                 tableVars, hot_turns, chat>>

(* The process ends and starts again; the controls start as configured.    *)
Restart ==
  /\ IngestRestart
  /\ paused' = FALSE /\ kill_switch' = KillSwitch
  /\ worker' = NoEvent /\ permits' = MaxParallel
  /\ job' = [e \in Event |-> "none"]
  /\ finalizer' = [e \in Event |-> "none"]
  /\ hot_turns' = [c \in Conversation |-> <<>>]
  /\ UNCHANGED <<reply, sent_chunks, tableVars, chat>>

IngestStep ==
  /\ Arrive \/ Poll \/ \E h \in Handler : HandlerStep(h)
  /\ UNCHANGED turnVars

(* Everything sent has been taken up and nothing is at work.               *)
AtRest ==
  /\ arrived = MaxEvents /\ cursor = offset
  /\ \A h \in Handler : handler[h] = Idle
  /\ queue = <<>> /\ worker = NoEvent
  /\ \A e \in Event : job[e] = "none" /\ finalizer[e] = "none"
Rest == AtRest /\ UNCHANGED vars

Next ==
  \/ IngestStep
  \/ Receive
  \/ Dispatch
  \/ \E e \in Event : JobStep(e)
  \/ \E e \in Event : FinalizerStep(e)
  \/ Control
  \/ Restart
  \/ Rest

Spec == Init /\ [][Next]_vars

(* tokio polls every runnable task; storage, Telegram and model calls have *)
(* timeouts.  Users, operators and Telegram owe nothing.                   *)
FairSpec ==
  /\ Spec
  /\ WF_vars(Receive) /\ WF_vars(Dispatch)
  /\ \A e \in Event : WF_vars(JobStep(e)) /\ WF_vars(FinalizerStep(e))

-----------------------------------------------------------------------------
TypeOK ==
  /\ IngestTypeOK
  /\ paused \in BOOLEAN /\ kill_switch \in BOOLEAN
  /\ worker \in Event \cup {NoEvent}
  /\ permits \in 0..MaxParallel
  /\ job \in [Event -> JobStage]
  /\ reply \in [Event -> Undecided..MaxChunks]
  /\ sent_chunks \in [Event -> 0..MaxChunks]
  /\ finalizer \in [Event -> FinalizerStage]
  /\ deduped \subseteq Event
  /\ outbound \in [Event -> 0..MaxChunks]
  /\ turns \subseteq Event \X {"user", "assistant"}
  /\ hot_turns \in [Conversation -> Seq(Event \X {"user", "assistant"})]
  /\ chat \in [Conversation -> Seq(Event \X (0..MaxChunks))]

(* Telegram forgets an update only when its row is in inbound_events, also *)
(* when the process restarts in the middle of a batch.  (The polling loop  *)
(* only logs a row it could not store, hence the premise.)                 *)
ConfirmedIsPersisted ==
  mode = "webhook" \/ disturbed["store"] = 0 =>
    \A e \in 1..arrived \ open : inbound[e] # "none"

Copies(e) ==
  Cardinality({i \in DOMAIN queue : queue[i] = e})
  + (IF worker = e THEN 1 ELSE 0) + (IF job[e] # "none" THEN 1 ELSE 0)

(* However often Telegram delivers an update, it is in the queue or at     *)
(* work once, and not at all when it has been worked on before.            *)
QueuedOnce ==
  \A e \in Event : /\ Copies(e) <= 1
                   /\ Copies(e) = 1 => inbound[e] = "received"
                   /\ (\E i \in DOMAIN queue : queue[i] = e) => e \notin deduped

(* What a user receives is made of whole replies: the chunks of a reply    *)
(* come in order, once, with nothing of another reply between them.        *)
RepliesAreWhole ==
  \A c \in Conversation : \A i \in DOMAIN chat[c] :
    LET e == chat[c][i][1]  k == chat[c][i][2] IN
    /\ k > 1 => i > 1 /\ chat[c][i - 1] = <<e, k - 1>>
    /\ \A l \in DOMAIN chat[c] : chat[c][l] = chat[c][i] => l = i

(* The hot history, which the next prompt is made from, alternates: every  *)
(* user turn is followed by its own answer.                                *)
HotTurnsAlternate ==
  \A c \in Conversation : \A i \in DOMAIN hot_turns[c] :
    LET this == hot_turns[c][i]  next == hot_turns[c][i + 1] IN
    i < Len(hot_turns[c]) =>
      IF this[2] = "user" THEN next = <<this[1], "assistant">> ELSE next[2] = "user"

(* An event marked processed was answered in full, or had no answer.       *)
ProcessedIsAnswered ==
  \A e \in Event : inbound[e] = "processed" =>
    /\ reply[e] # Undecided
    /\ \A k \in 1..reply[e] : \E i \in DOMAIN chat[ConversationOf[e]] :
         chat[ConversationOf[e]][i] = <<e, k>>

(* The counter the dashboard shows is the length of the queue, but for the *)
(* events a handler has queued and not counted yet.                        *)
DepthIsExact ==
  queue_depth + Cardinality({h \in Handler : handler[h].step = "count"}) = Len(queue)

(* A turn whose finalizer is behind has left both turns in the store, as   *)
(* long as the storage works.                                              *)
PublishedIsStored ==
  disturbed["store"] = 0 =>
    \A c \in Conversation : \A i \in DOMAIN hot_turns[c] :
      LET e == hot_turns[c][i][1] IN
      job[e] = "none" /\ finalizer[e] = "none" => hot_turns[c][i] \in turns

(* A permit is free or has its job: whatever way a job ends, through       *)
(* errors, refusals and restarts, it gives back the one it was given, and  *)
(* the loop that waits for a permit (app.rs:205) waits for a job.          *)
PermitsAreReturned ==
  permits + Cardinality({e \in Event : job[e] # "none"}) = MaxParallel

(* What is queued does not stay: every event leaves queue, worker and job, *)
(* and every finalizer ends.                                               *)
EventsPass ==
  \A e \in Event : /\ Copies(e) > 0 ~> Copies(e) = 0
                   /\ finalizer[e] # "none" ~> finalizer[e] = "none"

-----------------------------------------------------------------------------
(* docs/THREAT_MODEL.md: "Outbound kill switch".  While the switch that    *)
(* was on at the start stays on, no user receives anything.                *)
KillSwitchHolds ==
  KillSwitch /\ disturbed["control"] = 0 => \A c \in Conversation : chat[c] = <<>>
=============================================================================
