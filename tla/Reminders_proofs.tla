-------------------------- MODULE Reminders_proofs --------------------------
(***************************************************************************)
(* What holds of reminders for any number of reminders, workers and        *)
(* disturbances: their ends are earned whatever fails; as long as nothing  *)
(* is disturbed a job is in one place, nothing is stranded and the two     *)
(* tables agree; and each disturbance at most doubles what a user gets.    *)
(***************************************************************************)
EXTENDS Reminders, OrderLemmas

(* The dispatcher has work only with the bus, and trouble, like a worker's *)
(* end or a queue that is left behind, only if something is disturbed.     *)
ModeInv ==
  /\ mode = "direct" => pushing = "push"
  /\ disturbed = 0 =>
       /\ pushing = "push" /\ alive = Workers
       /\ mode = "direct" => \A r \in Reminder : job[r] # "queued" /\ queue[r] = 0

(* An executor past the sending has delivered, and ends are earned.        *)
EndInv ==
  /\ \A w \in Workers :
       hand[w] \in reaches /\ stage[w] \in {"markSent", "complete"} =>
         delivered[hand[w]] > 0
  /\ EndsAreEarned

(* A reminder that is not there is nowhere, and the direct loop has each   *)
(* of its jobs once, in its batch or in the hand of its one executor.      *)
PlaceInv ==
  /\ \A r \in Reminder : status[r] = "none" => job[r] = "none" /\ ~Working(r)
  /\ batch = {} => pushing = "push"
  /\ mode = "direct" =>
       /\ \A v, w \in Workers : hand[v] # Nobody /\ hand[w] # Nobody => v = w
       /\ \A r \in Reminder : InHand(r) \/ r \in batch => job[r] = "scheduled"
       /\ \A r \in batch : ~InHand(r)

(* The places of a job: the batch, the queue, the hand of one worker.      *)
Placed(r) ==
  /\ queue[r] <= 1
  /\ queue[r] = 1 => r \notin batch
  /\ InHand(r) => r \notin batch /\ queue[r] = 0
  /\ \A v, w \in Workers : hand[v] = r /\ hand[w] = r => v = w
  /\ Working(r) => job[r] = IF mode = "queue" THEN "queued" ELSE "scheduled"
  /\ job[r] = "queued" => Working(r)

(* The rows of a reminder, and what was delivered, by where its job is,    *)
Rows(r) ==
  /\ job[r] = "none" <=> status[r] = "none"
  /\ job[r] \in {"none", "scheduled", "queued"} => retries[r] <= MaxRetries
  /\ job[r] \in {"none", "scheduled", "queued"} /\ ~InHand(r) =>
       delivered[r] = 0 /\ status[r] # "sent"
  /\ job[r] = "done" => status[r] = "sent"
  /\ job[r] = "failed" => status[r] = "failed" /\ retries[r] = MaxRetries + 1 /\ delivered[r] = 0

(* and while a worker has it, by the worker's next call.                   *)
Stages(w) ==
  hand[w] # Nobody =>
    /\ stage[w] \in {"send", "markFailed", "fail"} => delivered[hand[w]] = 0
    /\ stage[w] \in {"send", "markSent", "markFailed"} => status[hand[w]] # "sent"
    /\ stage[w] = "complete" => status[hand[w]] = "sent"
    /\ stage[w] = "fail" => status[hand[w]] = "failed"

CalmInv ==
  disturbed = 0 => /\ \A r \in Reminder : Placed(r) /\ Rows(r)
                   /\ \A w \in Workers : Stages(w)

IInv == TypeOK /\ ModeInv /\ PlaceInv /\ EndInv /\ CalmInv

-----------------------------------------------------------------------------
(* Types                                                                   *)

(* The first job of a batch is one of it.                                  *)
LEMMA LeastIsIn ==
  ASSUME batch \subseteq Reminder, batch # {}
  PROVE  Least(batch) \in batch
<1>1. Reminder \in SUBSET Int /\ IsFiniteSet(Reminder)
  <2>1. 1 \in Int /\ NReminders \in Int
    BY ReminderAssumption
  <2> QED BY <2>1, FS_Interval DEF Reminder
<1>2. batch \in SUBSET Int /\ IsFiniteSet(batch)
  BY <1>1, FS_Subset
<1>3. \E x \in batch : \A y \in batch : x <= y
  BY <1>2, LeastElement
<1> QED BY <1>3 DEF Least

(* No reminder is nobody.                                                  *)
LEMMA Somebody == Nobody \notin Reminder
BY ReminderAssumption DEF Nobody, Reminder

(* A disturbance counts, and keeps within the bound.                       *)
LEMMA Disturbances ==
  ASSUME disturbed \in 0 .. MaxDisturbances, Disturb \/ UNCHANGED disturbed
  PROVE  /\ disturbed' \in 0 .. MaxDisturbances
         /\ disturbed' = 0 => disturbed = 0 /\ ~Disturb
BY ReminderAssumption DEF Disturb

(* So does a call.                                                         *)
LEMMA Calls ==
  ASSUME disturbed \in 0 .. MaxDisturbances, NEW reply, Call(reply)
  PROVE  /\ disturbed' \in 0 .. MaxDisturbances
         /\ disturbed' = 0 => disturbed = 0 /\ reply = "ok" /\ TakesEffect(reply)
BY Disturbances DEF Call, Disturb, TakesEffect

(* What fail_job leaves is typed.                                          *)
LEMMA FailJobType ==
  ASSUME TypeOK, NEW r \in Reminder, FailJob(r)
  PROVE  /\ job' \in [Reminder -> {"none", "scheduled", "queued", "done", "failed"}]
         /\ retries' \in [Reminder -> Nat] /\ due' \in [Reminder -> BOOLEAN]
<1>1. retries[r] + 1 \in Nat
  BY DEF TypeOK
<1> QED BY <1>1 DEF TypeOK, FailJob

(* Every step of the dispatcher keeps the types,                           *)
LEMMA DispatcherType ==
  ASSUME TypeOK, DispatcherStep
  PROVE  TypeOK'
<1>1. ASSUME NEW reply \in {"ok", "lost"}, ClaimDueJobs(reply) PROVE TypeOK'
  <2>1. disturbed' \in 0 .. MaxDisturbances
    BY <1>1, Calls DEF TypeOK, ClaimDueJobs
  <2>2. DueJobs \subseteq Reminder
    BY DEF DueJobs
  <2> QED BY <1>1, <2>1, <2>2 DEF TypeOK, ClaimDueJobs, settings, execution
<1>2. ASSUME NEW reply \in Replies, Push(reply) PROVE TypeOK'
  <2>1. disturbed' \in 0 .. MaxDisturbances
    BY <1>2, Calls DEF TypeOK, Push
  <2>2. Least(batch) \in Reminder
    BY <1>2, LeastIsIn DEF TypeOK, Push
  <2>3. queue' \in [Reminder -> Nat]
    <3>1. queue[Least(batch)] + 1 \in Nat
      BY <2>2 DEF TypeOK
    <3> QED BY <1>2, <2>2, <3>1 DEF TypeOK, Push
  <2>4. batch' \subseteq Reminder /\ pushing' \in {"push", "fail", "mark"}
    BY <1>2 DEF TypeOK, Push
  <2> QED BY <1>2, <2>1, <2>3, <2>4 DEF TypeOK, Push, settings, tables, execution
<1>3. ASSUME NEW reply \in Replies, FailPush(reply) PROVE TypeOK'
  <2>1. disturbed' \in 0 .. MaxDisturbances
    BY <1>3, Calls DEF TypeOK, FailPush
  <2>2. Least(batch) \in Reminder
    BY <1>3, LeastIsIn DEF TypeOK, FailPush
  <2>3. /\ job' \in [Reminder -> {"none", "scheduled", "queued", "done", "failed"}]
        /\ retries' \in [Reminder -> Nat] /\ due' \in [Reminder -> BOOLEAN]
    <3>1. FailJob(Least(batch)) \/ UNCHANGED <<job, retries, due>>
      BY <1>3 DEF FailPush
    <3> QED BY <2>2, <3>1, FailJobType DEF TypeOK
  <2> QED BY <1>3, <2>1, <2>3 DEF TypeOK, FailPush, settings, execution
<1>4. ASSUME NEW reply \in Replies, MarkPush(reply) PROVE TypeOK'
  <2>1. disturbed' \in 0 .. MaxDisturbances
    BY <1>4, Calls DEF TypeOK, MarkPush
  <2>2. Least(batch) \in Reminder
    BY <1>4, LeastIsIn DEF TypeOK, MarkPush
  <2> QED BY <1>4, <2>1, <2>2 DEF TypeOK, MarkPush, settings, execution
<1> QED BY <1>1, <1>2, <1>3, <1>4 DEF DispatcherStep

(* and so does every step of an executor,                                  *)
LEMMA ExecutorType ==
  ASSUME TypeOK, NEW w \in Workers, ExecutorStep(w)
  PROVE  TypeOK'
<1>1. CASE TakeJob(w)
  <2>1. queue' \in [Reminder -> Nat] /\ hand' \in [Workers -> Reminder \union {Nobody}]
        /\ batch' \subseteq Reminder
    <3>1. ASSUME NEW r \in Reminder, queue[r] > 0, queue' = [queue EXCEPT ![r] = @ - 1]
          PROVE  queue' \in [Reminder -> Nat]
      <4>1. queue[r] - 1 \in Nat
        BY <3>1 DEF TypeOK
      <4> QED BY <3>1, <4>1 DEF TypeOK
    <3> QED BY <1>1, <3>1 DEF TypeOK, TakeJob
  <2>2. stage' \in [Workers -> {"send", "markSent", "complete", "markFailed", "fail"}]
    BY <1>1 DEF TypeOK, TakeJob
  <2> QED BY <1>1, <2>1, <2>2 DEF TypeOK, TakeJob, settings, tables
<1>2. ASSUME NEW reply \in Replies, Send(w, reply) PROVE TypeOK'
  <2>1. disturbed' \in 0 .. MaxDisturbances
    BY <1>2, Disturbances DEF TypeOK, Send
  <2>2. hand[w] \in Reminder
    BY <1>2 DEF TypeOK, Send
  <2>3. delivered' \in [Reminder -> Nat]
    <3>1. delivered[hand[w]] + 1 \in Nat
      BY <2>2 DEF TypeOK
    <3> QED BY <1>2, <2>2, <3>1 DEF TypeOK, Send
  <2>4. stage' \in [Workers -> {"send", "markSent", "complete", "markFailed", "fail"}]
    BY <1>2 DEF TypeOK, Send, GoTo
  <2> QED BY <1>2, <2>1, <2>3, <2>4 DEF TypeOK, Send, settings, tables, dispatch
<1>3. ASSUME NEW reply \in Replies, MarkReminder(w, reply) PROVE TypeOK'
  <2>1. disturbed' \in 0 .. MaxDisturbances
    BY <1>3, Calls DEF TypeOK, MarkReminder
  <2>2. hand[w] \in Reminder
    BY <1>3 DEF TypeOK, MarkReminder
  <2>3. stage' \in [Workers -> {"send", "markSent", "complete", "markFailed", "fail"}]
    BY <1>3 DEF TypeOK, MarkReminder, GoTo
  <2>4. status' \in [Reminder -> {"none", "scheduled", "sent", "failed"}]
    BY <1>3, <2>2 DEF TypeOK, MarkReminder
  <2> QED BY <1>3, <2>1, <2>3, <2>4 DEF TypeOK, MarkReminder, settings, dispatch
<1>4. ASSUME NEW reply \in Replies, CompleteJob(w, reply) PROVE TypeOK'
  <2>1. disturbed' \in 0 .. MaxDisturbances
    BY <1>4, Calls DEF TypeOK, CompleteJob
  <2>2. hand[w] \in Reminder
    BY <1>4 DEF TypeOK, CompleteJob
  <2>3. /\ stage' \in [Workers -> {"send", "markSent", "complete", "markFailed", "fail"}]
        /\ hand' \in [Workers -> Reminder \union {Nobody}]
    BY <1>4 DEF TypeOK, CompleteJob, LetGo, GoTo
  <2>4. job' \in [Reminder -> {"none", "scheduled", "queued", "done", "failed"}]
    BY <1>4, <2>2 DEF TypeOK, CompleteJob
  <2> QED BY <1>4, <2>1, <2>3, <2>4 DEF TypeOK, CompleteJob, settings, dispatch
<1>5. ASSUME NEW reply \in Replies, NEW again \in BOOLEAN, FailAttempt(w, reply, again)
      PROVE  TypeOK'
  <2>1. disturbed' \in 0 .. MaxDisturbances
    BY <1>5, Calls DEF TypeOK, FailAttempt
  <2>2. hand[w] \in Reminder
    BY <1>5 DEF TypeOK, FailAttempt
  <2>3. /\ stage' \in [Workers -> {"send", "markSent", "complete", "markFailed", "fail"}]
        /\ hand' \in [Workers -> Reminder \union {Nobody}]
    BY <1>5 DEF TypeOK, FailAttempt, LetGo, GoTo
  <2>4. /\ job' \in [Reminder -> {"none", "scheduled", "queued", "done", "failed"}]
        /\ retries' \in [Reminder -> Nat] /\ due' \in [Reminder -> BOOLEAN]
    <3>1. FailJob(hand[w]) \/ UNCHANGED <<job, retries, due>>
      BY <1>5 DEF FailAttempt
    <3> QED BY <2>2, <3>1, FailJobType DEF TypeOK
  <2>5. queue' \in [Reminder -> Nat]
    <3>1. queue[hand[w]] + 1 \in Nat
      BY <2>2 DEF TypeOK
    <3> QED BY <1>5, <2>2, <3>1 DEF TypeOK, FailAttempt
  <2>6. batch' \subseteq Reminder
    BY <1>5 DEF TypeOK, FailAttempt
  <2> QED BY <1>5, <2>1, <2>3, <2>4, <2>5, <2>6 DEF TypeOK, FailAttempt, settings
<1> QED BY <1>1, <1>2, <1>3, <1>4, <1>5 DEF ExecutorStep

(* Jobs that are handed out again after a restart are counted.             *)
LEMMA RestartQueue ==
  ASSUME TypeOK, Restart
  PROVE  /\ queue' \in [Reminder -> Nat]
         /\ mode = "direct" => queue' = queue
<1>1. PICK again \in SUBSET {w \in Workers : mode = "queue" /\ hand[w] # Nobody} :
        queue' = [r \in Reminder |-> queue[r] + Cardinality({w \in again : hand[w] = r})]
  BY DEF Restart
<1>2. \A r \in Reminder : queue[r] \in Nat
  BY DEF TypeOK
<1>3. \A r \in Reminder : Cardinality({w \in again : hand[w] = r}) \in Nat
  <2> TAKE r \in Reminder
  <2>1. {w \in again : hand[w] = r} \subseteq Workers
    OBVIOUS
  <2> QED BY <2>1, FS_Subset, FS_CardinalityType, ReminderAssumption
<1>4. ASSUME mode = "direct" PROVE queue' = queue
  <2>1. \A r \in Reminder : {w \in again : hand[w] = r} = {}
    BY <1>4
  <2>2. \A r \in Reminder : queue[r] + Cardinality({w \in again : hand[w] = r}) = queue[r]
    BY <2>1, <1>2, FS_EmptySet
  <2> QED BY <1>1, <2>2 DEF TypeOK
<1> QED BY <1>1, <1>2, <1>3, <1>4

(* and every other one.                                                    *)
LEMMA NextType ==
  ASSUME TypeOK, [Next]_vars
  PROVE  TypeOK'
<1>1. ASSUME NEW r \in Reminder, CreateReminder(r) PROVE TypeOK'
  <2>1. reaches' \subseteq Reminder
    <3>1. reaches' \in {reaches, reaches \union {r}}
      BY <1>1 DEF CreateReminder
    <3> QED BY <3>1 DEF TypeOK
  <2> QED BY <1>1, <2>1 DEF TypeOK, CreateReminder, dispatch, execution
<1>2. ASSUME NEW r \in Reminder, ComeDue(r) PROVE TypeOK'
  BY <1>2 DEF TypeOK, ComeDue, settings, dispatch, execution
<1>3. CASE FetchDueJobs
  <2>1. DueJobs \subseteq Reminder
    BY DEF DueJobs
  <2> QED BY <1>3, <2>1 DEF TypeOK, FetchDueJobs, settings, tables, execution
<1>4. CASE Restart
  <2>1. disturbed' \in 0 .. MaxDisturbances
    BY <1>4, Disturbances DEF TypeOK, Restart
  <2>2. queue' \in [Reminder -> Nat]
    BY <1>4, RestartQueue
  <2> QED BY <1>4, <2>1, <2>2 DEF TypeOK, Restart, tables
<1>6. ASSUME NEW w \in Workers, WorkerEnds(w) PROVE TypeOK'
  <2>1. disturbed' \in 0 .. MaxDisturbances
    BY <1>6, Disturbances DEF TypeOK, WorkerEnds
  <2>2. queue' \in [Reminder -> Nat]
    <3>1. ASSUME hand[w] # Nobody, queue' = [queue EXCEPT ![hand[w]] = @ + 1]
          PROVE  queue' \in [Reminder -> Nat]
      <4>1. hand[w] \in Reminder /\ queue[hand[w]] + 1 \in Nat
        BY <3>1 DEF TypeOK
      <4> QED BY <3>1, <4>1 DEF TypeOK
    <3> QED BY <1>6, <3>1 DEF TypeOK, WorkerEnds
  <2>3. /\ stage' \in [Workers -> {"send", "markSent", "complete", "markFailed", "fail"}]
        /\ hand' \in [Workers -> Reminder \union {Nobody}]
    BY <1>6 DEF TypeOK, WorkerEnds, LetGo, GoTo
  <2>4. alive' \subseteq Workers
    BY <1>6 DEF TypeOK, WorkerEnds
  <2> QED BY <1>6, <2>1, <2>2, <2>3, <2>4 DEF TypeOK, WorkerEnds, tables
<1>5. CASE Rest \/ UNCHANGED vars
  BY <1>5 DEF TypeOK, Rest, vars, settings, tables, dispatch, execution
<1> QED BY <1>1, <1>2, <1>3, <1>4, <1>5, <1>6, DispatcherType, ExecutorType DEF Next

-----------------------------------------------------------------------------
(* Modes                                                                   *)

(* Pushing goes wrong, a worker ends and the direct loop meets a queue     *)
(* only after a disturbance.                                               *)
LEMMA NextMode ==
  ASSUME TypeOK, ModeInv, [Next]_vars
  PROVE  ModeInv'
<1>types. /\ disturbed \in 0 .. MaxDisturbances /\ mode \in {"queue", "direct"}
          /\ job \in [Reminder -> {"none", "scheduled", "queued", "done", "failed"}]
          /\ hand \in [Workers -> Reminder \union {Nobody}]
  BY DEF TypeOK
<1>1. ASSUME NEW r \in Reminder, CreateReminder(r) PROVE ModeInv'
  BY <1>types, <1>1 DEF CreateReminder, ModeInv, dispatch
<1>2. ASSUME NEW r \in Reminder, ComeDue(r) PROVE ModeInv'
  BY <1>2 DEF ComeDue, ModeInv, settings, dispatch
<1>3. ASSUME NEW reply \in {"ok", "lost"}, ClaimDueJobs(reply) PROVE ModeInv'
  <2>1. disturbed' = 0 => disturbed = 0
    BY <1>types, <1>3, Calls DEF ClaimDueJobs
  <2> QED BY <1>3, <2>1 DEF ClaimDueJobs, ModeInv, settings
<1>4. ASSUME NEW reply \in Replies, Push(reply) PROVE ModeInv'
  <2>1. disturbed' = 0 => disturbed = 0 /\ reply = "ok"
    BY <1>types, <1>4, Calls DEF Push
  <2> QED BY <1>4, <2>1 DEF Push, ModeInv, settings
<1>5. ASSUME NEW reply \in Replies, FailPush(reply) \/ MarkPush(reply) PROVE ModeInv'
  <2>1. disturbed' = 0 => disturbed = 0
    BY <1>types, <1>5, Calls DEF FailPush, MarkPush
  <2>2. mode' = mode /\ mode # "direct" /\ disturbed # 0
    BY <1>5 DEF FailPush, MarkPush, ModeInv, settings
  <2> QED BY <2>1, <2>2 DEF ModeInv
<1>6. CASE FetchDueJobs
  BY <1>6 DEF FetchDueJobs, ModeInv, settings, tables
<1>7. ASSUME NEW w \in Workers, TakeJob(w) PROVE ModeInv'
  <2>1. mode = "direct" => queue' = queue
    BY <1>7 DEF TakeJob, ModeInv
  <2> QED BY <1>7, <2>1 DEF TakeJob, ModeInv, settings, tables
<1>8. ASSUME NEW w \in Workers, NEW reply \in Replies,
             Send(w, reply) \/ MarkReminder(w, reply) PROVE ModeInv'
  <2>1. disturbed' = 0 => disturbed = 0
    BY <1>types, <1>8, Calls, Disturbances DEF Send, MarkReminder
  <2>2. UNCHANGED <<mode, alive, pushing, job, queue>>
    BY <1>8 DEF Send, MarkReminder, settings, tables, dispatch
  <2> QED BY <2>1, <2>2 DEF ModeInv
<1>9. ASSUME NEW w \in Workers, NEW reply \in Replies, CompleteJob(w, reply) PROVE ModeInv'
  <2>1. disturbed' = 0 => disturbed = 0
    BY <1>types, <1>9, Calls DEF CompleteJob
  <2>2. \A r \in Reminder : job'[r] \in {job[r], "done"}
    BY <1>types, <1>9 DEF CompleteJob
  <2>3. UNCHANGED <<mode, alive, pushing, queue>>
    BY <1>9 DEF CompleteJob, settings, dispatch
  <2> QED BY <2>1, <2>2, <2>3 DEF ModeInv
<1>10. ASSUME NEW w \in Workers, NEW reply \in Replies, NEW again \in BOOLEAN,
              FailAttempt(w, reply, again) PROVE ModeInv'
  <2>1. disturbed' = 0 => disturbed = 0
    BY <1>types, <1>10, Calls DEF FailAttempt
  <2>2. \A r \in Reminder : job'[r] \in {job[r], "failed", "scheduled"}
    BY <1>types, <1>10 DEF FailAttempt, FailJob
  <2>3. UNCHANGED <<mode, alive, pushing>> /\ (mode = "direct" => queue' = queue)
    BY <1>10 DEF FailAttempt, settings
  <2> QED BY <2>1, <2>2, <2>3 DEF ModeInv
<1>11. CASE Restart
  <2>1. disturbed' # 0 /\ pushing' = "push"
    BY <1>types, <1>11, Disturbances DEF Restart
  <2> QED BY <2>1 DEF ModeInv
<1>13. ASSUME NEW w \in Workers, WorkerEnds(w) PROVE ModeInv'
  <2>1. disturbed' # 0 /\ UNCHANGED <<mode, pushing>>
    BY <1>types, <1>13, Disturbances DEF WorkerEnds
  <2> QED BY <2>1 DEF ModeInv
<1>12. CASE Rest \/ UNCHANGED vars
  BY <1>12 DEF ModeInv, Rest, vars, settings, tables, dispatch
<1> QED
  BY <1>1, <1>2, <1>3, <1>4, <1>5, <1>6, <1>7, <1>8, <1>9, <1>10, <1>11, <1>12,
     <1>13
  DEF Next, DispatcherStep, ExecutorStep

-----------------------------------------------------------------------------
(* Where the jobs are                                                      *)

(* What the dispatcher does leaves each job in its place,                  *)
LEMMA DispatcherPlaces ==
  ASSUME TypeOK, ModeInv, PlaceInv, DispatcherStep
  PROVE  PlaceInv'
<1>types. /\ batch \subseteq Reminder /\ queue \in [Reminder -> Nat]
          /\ status \in [Reminder -> {"none", "scheduled", "sent", "failed"}]
          /\ job \in [Reminder -> {"none", "scheduled", "queued", "done", "failed"}]
          /\ mode \in {"queue", "direct"}
  BY DEF TypeOK
<1>places. /\ \A r \in Reminder : status[r] = "none" => job[r] = "none" /\ ~Working(r)
           /\ batch = {} => pushing = "push"
  BY DEF PlaceInv
<1>1. mode = "queue" /\ mode' = mode /\ hand' = hand /\ stage' = stage
  BY DEF DispatcherStep, ClaimDueJobs, Push, FailPush, MarkPush, ModeInv, TypeOK,
         settings, execution
<1>2. \A r \in Reminder : InHand(r)' <=> InHand(r)
  BY <1>1 DEF InHand
<1>3. ASSUME NEW reply, ClaimDueJobs(reply) PROVE PlaceInv'
  <2>1. \A r \in DueJobs : r \in Reminder /\ status[r] # "none"
    BY <1>places DEF DueJobs
  <2>2. \A r \in Reminder : status'[r] = "none" => job'[r] = "none" /\ ~Working(r)'
    BY <1>2, <1>3, <1>places, <2>1 DEF ClaimDueJobs, Working
  <2>3. batch' = {} => pushing' = "push"
    BY <1>3, <1>places DEF ClaimDueJobs
  <2> QED BY <1>1, <2>2, <2>3 DEF PlaceInv
<1>4. ASSUME NEW reply, Push(reply) PROVE PlaceInv'
  <2>1. Least(batch) \in batch /\ Least(batch) \in Reminder
    BY <1>4, <1>types, LeastIsIn DEF Push
  <2>2. \A r \in Reminder : r # Least(batch) => queue'[r] = queue[r]
    BY <1>4, <1>types, <2>1 DEF Push
  <2>3. status[Least(batch)] # "none"
    BY <1>places, <2>1 DEF Working
  <2>4. \A r \in Reminder : status'[r] = "none" => job'[r] = "none" /\ ~Working(r)'
    BY <1>2, <1>4, <1>places, <2>2, <2>3 DEF Push, Working, tables
  <2>5. batch' = {} => pushing' = "push"
    BY <1>4, <1>places DEF Push
  <2> QED BY <1>1, <2>4, <2>5 DEF PlaceInv
<1>5. ASSUME NEW reply, FailPush(reply) PROVE PlaceInv'
  <2>1. Least(batch) \in batch /\ Least(batch) \in Reminder
    BY <1>5, <1>types, LeastIsIn DEF FailPush
  <2>2. \A r \in Reminder : r # Least(batch) => job'[r] = job[r]
    BY <1>5, <1>types, <2>1 DEF FailPush, FailJob
  <2>3. status[Least(batch)] # "none"
    BY <1>places, <2>1 DEF Working
  <2>4. \A r \in Reminder : status'[r] = "none" => job'[r] = "none" /\ ~Working(r)'
    BY <1>2, <1>5, <1>places, <2>2, <2>3 DEF FailPush, Working
  <2> QED BY <1>1, <1>5, <2>4 DEF PlaceInv, FailPush
<1>6. ASSUME NEW reply, MarkPush(reply) PROVE PlaceInv'
  <2>1. Least(batch) \in batch /\ Least(batch) \in Reminder
    BY <1>6, <1>types, LeastIsIn DEF MarkPush
  <2>2. \A r \in Reminder : status'[r] = "none" => status[r] = "none"
    BY <1>6, <1>types, <2>1 DEF MarkPush
  <2>3. \A r \in Reminder : status'[r] = "none" => job'[r] = "none" /\ ~Working(r)'
    BY <1>2, <1>6, <1>places, <2>2 DEF MarkPush, Working
  <2> QED BY <1>1, <1>6, <2>3 DEF PlaceInv, MarkPush
<1> QED BY <1>3, <1>4, <1>5, <1>6 DEF DispatcherStep

(* and so does what an executor does,                                      *)
LEMMA ExecutorPlaces ==
  ASSUME TypeOK, ModeInv, PlaceInv, NEW w \in Workers, ExecutorStep(w)
  PROVE  PlaceInv'
<1>types. /\ batch \subseteq Reminder /\ queue \in [Reminder -> Nat]
          /\ status \in [Reminder -> {"none", "scheduled", "sent", "failed"}]
          /\ job \in [Reminder -> {"none", "scheduled", "queued", "done", "failed"}]
          /\ hand \in [Workers -> Reminder \union {Nobody}]
          /\ mode \in {"queue", "direct"}
  BY DEF TypeOK
<1>places. /\ \A r \in Reminder : status[r] = "none" => job[r] = "none" /\ ~Working(r)
           /\ batch = {} => pushing = "push"
           /\ mode = "direct" => pushing = "push"
           /\ mode = "direct" =>
                /\ \A v, x \in Workers : hand[v] # Nobody /\ hand[x] # Nobody => v = x
                /\ \A r \in Reminder : InHand(r) \/ r \in batch => job[r] = "scheduled"
                /\ \A r \in batch : ~InHand(r)
  BY DEF PlaceInv, ModeInv
<1>some. Nobody \notin Reminder
  BY Somebody
<1>1. CASE TakeJob(w)
  <2>1. PICK s \in Reminder : /\ hand' = [hand EXCEPT ![w] = s] /\ hand[w] = Nobody
                              /\ Working(s)
                              /\ \A r \in Reminder : queue'[r] > 0 => Working(r)
                              /\ batch' \subseteq batch
                              /\ mode # "direct" => batch' = batch
                              /\ mode = "direct" =>
                                   /\ \A v \in Workers : hand[v] = Nobody
                                   /\ s \in batch /\ batch' = batch \ {s}
    <3>1. CASE \E r \in Reminder : /\ mode = "queue"
                                   /\ queue[r] > 0
                                   /\ queue' = [queue EXCEPT ![r] = @ - 1]
                                   /\ hand' = [hand EXCEPT ![w] = r]
                                   /\ UNCHANGED batch
      <4>1. PICK s \in Reminder : /\ queue[s] > 0
                                  /\ queue' = [queue EXCEPT ![s] = @ - 1]
                                  /\ hand' = [hand EXCEPT ![w] = s]
                                  /\ UNCHANGED batch
        BY <3>1
      <4>2. mode # "direct"
        BY <3>1
      <4>3. \A r \in Reminder : queue'[r] > 0 => queue[r] > 0
        BY <4>1, <1>types
      <4> QED BY <1>1, <4>1, <4>2, <4>3 DEF TakeJob, Working
    <3>2. CASE /\ mode = "direct"
               /\ \A v \in Workers : hand[v] = Nobody
               /\ \E r \in batch : /\ hand' = [hand EXCEPT ![w] = r]
                                   /\ batch' = batch \ {r}
               /\ UNCHANGED queue
      BY <3>2, <1>1, <1>types DEF TakeJob, Working
    <3> QED BY <1>1, <3>1, <3>2 DEF TakeJob
  <2>2. \A r \in Reminder : InHand(r)' => r = s \/ InHand(r)
    BY <2>1, <1>types DEF InHand
  <2>3. \A r \in Reminder : Working(r)' => Working(r)
    BY <2>1, <2>2 DEF Working
  <2>4. UNCHANGED <<status, job, mode, pushing>>
    BY <1>1 DEF TakeJob, settings, tables
  <2>5. ASSUME mode = "direct"
        PROVE  /\ \A v, x \in Workers : hand'[v] # Nobody /\ hand'[x] # Nobody => v = x
               /\ \A r \in Reminder : InHand(r)' => r = s
    BY <2>1, <2>5, <1>types, <1>some DEF InHand
  <2>6. \A r \in Reminder : status'[r] = "none" => job'[r] = "none" /\ ~Working(r)'
    BY <1>places, <2>3, <2>4
  <2>7. batch' = {} => pushing' = "push"
    BY <1>places, <2>1, <2>4
  <2>8. ASSUME mode = "direct"
        PROVE  /\ \A r \in Reminder : InHand(r)' \/ r \in batch' => job'[r] = "scheduled"
               /\ \A r \in batch' : ~InHand(r)'
    BY <1>places, <1>types, <2>1, <2>4, <2>5, <2>8
  <2> QED BY <2>4, <2>5, <2>6, <2>7, <2>8 DEF PlaceInv
<1>2. ASSUME NEW reply, Send(w, reply) PROVE PlaceInv'
  BY <1>2 DEF PlaceInv, Send, InHand, Working, settings, tables, dispatch
<1>3. ASSUME NEW reply, MarkReminder(w, reply) PROVE PlaceInv'
  <2>1. UNCHANGED <<mode, job, batch, queue, pushing, hand>>
    BY <1>3 DEF MarkReminder, settings, dispatch
  <2>2. \A r \in Reminder : status'[r] = "none" => status[r] = "none"
    BY <1>3, <1>types DEF MarkReminder
  <2> QED BY <1>places, <2>1, <2>2 DEF PlaceInv, InHand, Working
<1>4. ASSUME NEW reply, CompleteJob(w, reply) PROVE PlaceInv'
  <2>1. /\ hand[w] \in Reminder /\ hand' = [hand EXCEPT ![w] = Nobody]
        /\ UNCHANGED <<mode, status, batch, queue, pushing>>
        /\ \A r \in Reminder : r # hand[w] => job'[r] = job[r]
    BY <1>4, <1>types DEF CompleteJob, LetGo, settings, dispatch
  <2>2. \A r \in Reminder : InHand(r)' => InHand(r)
    BY <2>1, <1>some, <1>types DEF InHand
  <2>3. status[hand[w]] # "none"
    BY <1>places, <2>1 DEF Working, InHand
  <2>4. ASSUME mode = "direct" PROVE /\ \A v \in Workers : hand'[v] = Nobody
                                     /\ hand[w] \notin batch
    BY <1>places, <2>1, <2>4, <1>some, <1>types DEF InHand
  <2>5. ASSUME mode = "direct" PROVE \A r \in Reminder : ~InHand(r)'
    BY <2>4, <2>5, <1>some DEF InHand
  <2>6. \A r \in Reminder : status'[r] = "none" => job'[r] = "none" /\ ~Working(r)'
    BY <1>places, <2>1, <2>2, <2>3 DEF Working
  <2> QED BY <1>places, <1>types, <2>1, <2>4, <2>5, <2>6, <1>some DEF PlaceInv
<1>5. ASSUME NEW reply, NEW again \in BOOLEAN, FailAttempt(w, reply, again) PROVE PlaceInv'
  <2>1. /\ hand[w] \in Reminder /\ hand' = [hand EXCEPT ![w] = Nobody]
        /\ UNCHANGED <<mode, status, pushing>>
        /\ batch' \subseteq batch
        /\ mode = "direct" => batch' = {}
        /\ mode # "direct" => batch' = batch
    BY <1>5, <1>types DEF FailAttempt, LetGo, settings
  <2>2. \A r \in Reminder : r # hand[w] => job'[r] = job[r] /\ queue'[r] = queue[r]
    BY <1>5, <2>1, <1>types DEF FailAttempt, FailJob
  <2>3. \A r \in Reminder : InHand(r)' => InHand(r)
    BY <2>1, <1>some, <1>types DEF InHand
  <2>4. status[hand[w]] # "none"
    BY <1>places, <2>1 DEF Working, InHand
  <2>5. ASSUME mode = "direct" PROVE /\ \A v \in Workers : hand'[v] = Nobody
                                     /\ \A r \in Reminder : ~InHand(r)'
    BY <1>places, <2>1, <2>5, <1>some, <1>types DEF InHand
  <2>6. \A r \in Reminder : status'[r] = "none" => job'[r] = "none" /\ ~Working(r)'
    BY <1>places, <2>1, <2>2, <2>3, <2>4 DEF Working
  <2> QED BY <1>places, <1>types, <2>1, <2>5, <2>6 DEF PlaceInv
<1> QED BY <1>1, <1>2, <1>3, <1>4, <1>5 DEF ExecutorStep

(* and every other step.                                                   *)
LEMMA NextPlaces ==
  ASSUME TypeOK, ModeInv, PlaceInv, [Next]_vars
  PROVE  PlaceInv'
<1>types. /\ status \in [Reminder -> {"none", "scheduled", "sent", "failed"}]
          /\ job \in [Reminder -> {"none", "scheduled", "queued", "done", "failed"}]
          /\ queue \in [Reminder -> Nat]
          /\ hand \in [Workers -> Reminder \union {Nobody}]
  BY DEF TypeOK
<1>some. Nobody \notin Reminder
  BY Somebody
<1>1. ASSUME NEW r \in Reminder, CreateReminder(r) PROVE PlaceInv'
  <2>1. UNCHANGED <<mode, batch, pushing, queue, hand>>
    BY <1>1 DEF CreateReminder, dispatch, execution
  <2>2. \A s \in Reminder : /\ status'[s] = "none" => status[s] = "none" /\ job'[s] = job[s]
                            /\ job[s] = "scheduled" => job'[s] = "scheduled"
    BY <1>1, <1>types DEF CreateReminder
  <2> QED BY <2>1, <2>2 DEF PlaceInv, Working, InHand
<1>2. ASSUME NEW r \in Reminder, ComeDue(r) PROVE PlaceInv'
  BY <1>2 DEF PlaceInv, Working, InHand, ComeDue, settings, dispatch, execution
<1>3. CASE FetchDueJobs
  <2>1. \A r \in Reminder : ~InHand(r)
    BY <1>3, <1>some DEF FetchDueJobs, InHand
  <2>2. UNCHANGED <<mode, pushing, queue, hand, job, status>>
    BY <1>3 DEF FetchDueJobs, settings, tables, execution
  <2>3. \A r \in batch' : r \in Reminder /\ job[r] = "scheduled"
    BY <1>3 DEF FetchDueJobs, DueJobs
  <2>4. batch' # {}
    BY <1>3 DEF FetchDueJobs
  <2>5. \A r \in Reminder : ~InHand(r)'
    BY <2>1, <2>2 DEF InHand
  <2>6. \A v \in Workers : hand[v] = Nobody
    BY <1>3 DEF FetchDueJobs
  <2>7. \A r \in Reminder : status'[r] = "none" => job'[r] = "none" /\ ~Working(r)'
    BY <2>2, <2>3, <2>5 DEF PlaceInv, Working
  <2> QED BY <2>2, <2>3, <2>4, <2>5, <2>6, <2>7 DEF PlaceInv
<1>4. CASE Restart
  <2>1. UNCHANGED <<job, status>> /\ batch' = {} /\ pushing' = "push"
        /\ hand' = [w \in Workers |-> Nobody]
    BY <1>4 DEF Restart, tables
  <2>2. \A r \in Reminder : ~InHand(r)'
    BY <2>1, <1>some DEF InHand
  <2>3. \A r \in Reminder : queue'[r] > 0 => Working(r)
    <3>1. PICK again \in SUBSET {w \in Workers : mode = "queue" /\ hand[w] # Nobody} :
            queue' = [r \in Reminder |-> queue[r] + Cardinality({w \in again : hand[w] = r})]
      BY <1>4 DEF Restart
    <3>2. ASSUME NEW r \in Reminder, ~Working(r) PROVE queue'[r] = 0
      <4>1. {w \in again : hand[w] = r} = {} /\ queue[r] = 0
        BY <3>2, <1>types DEF Working, InHand
      <4> QED BY <3>1, <4>1, FS_EmptySet
    <3> QED BY <3>2
  <2> QED BY <2>1, <2>2, <2>3 DEF PlaceInv, Working
<1>5. ASSUME NEW w \in Workers, WorkerEnds(w) PROVE PlaceInv'
  <2>1. /\ mode = "queue" /\ hand' = [hand EXCEPT ![w] = Nobody]
        /\ UNCHANGED <<mode, status, job, batch, pushing>>
        /\ \/ queue' = queue
           \/ hand[w] \in Reminder /\ queue' = [queue EXCEPT ![hand[w]] = @ + 1]
    BY <1>5, <1>types DEF WorkerEnds, LetGo, tables
  <2>2. \A r \in Reminder : InHand(r)' => InHand(r)
    BY <2>1, <1>some, <1>types DEF InHand
  <2>3. \A r \in Reminder : queue'[r] > 0 => queue[r] > 0 \/ InHand(r)
    BY <2>1, <1>types DEF InHand
  <2> QED BY <2>1, <2>2, <2>3 DEF PlaceInv, Working
<1>6. CASE Rest \/ UNCHANGED vars
  BY <1>6 DEF Rest, PlaceInv, Working, InHand, vars, settings, tables, dispatch, execution
<1> QED BY <1>1, <1>2, <1>3, <1>4, <1>5, <1>6, DispatcherPlaces, ExecutorPlaces DEF Next

-----------------------------------------------------------------------------
(* Ends                                                                    *)

(* A failed job has had its attempts.                                      *)
LEMMA FailJobEarns ==
  ASSUME TypeOK, EndInv, NEW r \in Reminder, FailJob(r), UNCHANGED <<reaches, delivered>>
  PROVE  EndsAreEarned'
<1>1. /\ \A s \in Reminder : s # r => job'[s] = job[s] /\ retries'[s] = retries[s]
      /\ job'[r] = IF retries[r] >= MaxRetries THEN "failed" ELSE "scheduled"
      /\ retries'[r] = retries[r] + 1 /\ retries[r] \in Nat
  BY DEF FailJob, TypeOK
<1> QED BY <1>1 DEF EndInv, EndsAreEarned, MaxRetries

(* No step records an end that was not earned.                             *)
LEMMA NextEnd ==
  ASSUME TypeOK, PlaceInv, EndInv, [Next]_vars
  PROVE  EndInv'
<1>types. /\ job \in [Reminder -> {"none", "scheduled", "queued", "done", "failed"}]
          /\ hand \in [Workers -> Reminder \union {Nobody}]
          /\ stage \in [Workers -> {"send", "markSent", "complete", "markFailed", "fail"}]
          /\ delivered \in [Reminder -> Nat] /\ batch \subseteq Reminder
          /\ reaches \subseteq Reminder /\ Nobody \notin reaches
  BY Somebody DEF TypeOK
<1>ends. ASSUME UNCHANGED <<reaches, retries, delivered>>,
                \A r \in Reminder : job'[r] \in {job[r], "scheduled", "queued"}
         PROVE  EndsAreEarned'
  BY <1>ends DEF EndInv, EndsAreEarned
<1>hands. ASSUME UNCHANGED <<reaches, delivered>>,
                 \A w \in Workers : \/ hand'[w] = Nobody \/ stage'[w] = "send"
                                    \/ hand'[w] = hand[w] /\ stage'[w] = stage[w],
                 EndsAreEarned'
          PROVE  EndInv'
  BY <1>hands, <1>types DEF EndInv
<1>1. ASSUME NEW r \in Reminder, CreateReminder(r) PROVE EndInv'
  <2>1. /\ \A s \in Reminder : s # r => (s \in reaches' <=> s \in reaches) /\ job'[s] = job[s]
        /\ job'[r] = "scheduled" /\ reaches' \subseteq reaches \union {r}
        /\ UNCHANGED <<retries, delivered, hand, stage>>
    BY <1>1, <1>types DEF CreateReminder, execution
  <2>2. \A w \in Workers : hand[w] # r
    BY <1>1 DEF CreateReminder, PlaceInv, Working, InHand
  <2>3. EndsAreEarned'
    BY <2>1 DEF EndInv, EndsAreEarned
  <2>4. \A w \in Workers : hand'[w] \in reaches' => hand[w] \in reaches
    BY <2>1, <2>2
  <2> QED BY <2>1, <2>3, <2>4 DEF EndInv
<1>2. ASSUME NEW r \in Reminder, ComeDue(r) PROVE EndInv'
  <2>1. EndsAreEarned'
    BY <1>2, <1>types, <1>ends DEF ComeDue, settings
  <2> QED BY <1>2, <2>1, <1>hands DEF ComeDue, settings, execution
<1>3. ASSUME NEW reply \in {"ok", "lost"}, ClaimDueJobs(reply) PROVE EndInv'
  <2>1. EndsAreEarned'
    BY <1>3, <1>types, <1>ends DEF ClaimDueJobs, settings
  <2> QED BY <1>3, <2>1, <1>hands DEF ClaimDueJobs, settings, execution
<1>4. ASSUME NEW reply \in Replies, Push(reply) \/ MarkPush(reply) PROVE EndInv'
  <2>1. EndsAreEarned'
    BY <1>4, <1>types, <1>ends DEF Push, MarkPush, settings, tables
  <2> QED BY <1>4, <2>1, <1>hands DEF Push, MarkPush, settings, execution
<1>5. ASSUME NEW reply \in Replies, FailPush(reply) PROVE EndInv'
  <2>1. Least(batch) \in Reminder
    BY <1>5, <1>types, LeastIsIn DEF FailPush
  <2>2. CASE FailJob(Least(batch))
    <3>1. EndsAreEarned'
      BY <1>5, <2>1, <2>2, FailJobEarns DEF FailPush, settings
    <3> QED BY <1>5, <3>1, <1>hands DEF FailPush, settings, execution
  <2>3. CASE UNCHANGED <<job, retries, due>>
    <3>1. EndsAreEarned'
      BY <1>5, <2>3, <1>types, <1>ends DEF FailPush, settings
    <3> QED BY <1>5, <3>1, <1>hands DEF FailPush, settings, execution
  <2> QED BY <1>5, <2>2, <2>3 DEF FailPush
<1>6. CASE FetchDueJobs
  <2>1. EndsAreEarned'
    BY <1>6, <1>types, <1>ends DEF FetchDueJobs, settings, tables
  <2> QED BY <1>6, <2>1, <1>hands DEF FetchDueJobs, settings, execution
<1>7. ASSUME NEW w \in Workers, TakeJob(w) PROVE EndInv'
  <2>1. EndsAreEarned'
    BY <1>7, <1>types, <1>ends DEF TakeJob, settings, tables
  <2>2. \A v \in Workers : stage'[v] = "send" \/ (hand'[v] = hand[v] /\ stage'[v] = stage[v])
    <3>1. /\ \E r \in Reminder : hand' = [hand EXCEPT ![w] = r]
          /\ stage' = [stage EXCEPT ![w] = "send"]
      BY <1>7, <1>types DEF TakeJob
    <3> QED BY <3>1, <1>types
  <2> QED BY <1>7, <2>1, <2>2, <1>hands DEF TakeJob, settings
<1>8. ASSUME NEW w \in Workers, NEW reply \in Replies, Send(w, reply) PROVE EndInv'
  <2>1. /\ hand[w] \in Reminder
        /\ \A r \in Reminder : delivered'[r] >= delivered[r]
        /\ hand[w] \in reaches /\ reply = "ok" => delivered'[hand[w]] > 0
    BY <1>8, <1>types DEF Send, TakesEffect
  <2>2. UNCHANGED <<reaches, job, retries, hand>>
    BY <1>8 DEF Send, settings, tables
  <2>3. \A v \in Workers : v # w => stage'[v] = stage[v]
    BY <1>8, <1>types DEF Send, GoTo
  <2>4. stage'[w] = IF reply = "ok" THEN "markSent" ELSE "markFailed"
    BY <1>8, <1>types DEF Send, GoTo
  <2>5. EndsAreEarned'
    <3>1. \A r \in Reminder : delivered[r] \in Nat /\ delivered'[r] \in Nat
      BY NextType DEF TypeOK
    <3> QED BY <2>1, <2>2, <3>1 DEF EndInv, EndsAreEarned
  <2>6. ASSUME NEW v \in Workers, hand'[v] \in reaches', stage'[v] \in {"markSent", "complete"}
        PROVE  delivered'[hand'[v]] > 0
    <3>1. CASE v = w
      BY <2>1, <2>2, <2>4, <2>6, <3>1
    <3>2. CASE v # w
      <4>1. delivered[hand[v]] > 0 /\ hand[v] \in Reminder /\ hand'[v] = hand[v]
        BY <2>2, <2>3, <2>6, <3>2, <1>types DEF EndInv
      <4>2. delivered[hand[v]] \in Nat /\ delivered'[hand[v]] \in Nat
        BY <4>1, NextType DEF TypeOK
      <4> QED BY <4>1, <4>2, <2>1
    <3> QED BY <3>1, <3>2
  <2> QED BY <2>5, <2>6 DEF EndInv
<1>9. ASSUME NEW w \in Workers, NEW reply \in Replies, MarkReminder(w, reply) PROVE EndInv'
  <2>1. EndsAreEarned'
    BY <1>9, <1>types, <1>ends DEF MarkReminder, settings
  <2>2. UNCHANGED <<reaches, delivered, hand>>
    BY <1>9 DEF MarkReminder, settings
  <2>3. \A v \in Workers : \/ stage'[v] = stage[v] \/ stage'[v] = "fail"
                           \/ stage'[v] = "complete" /\ stage[v] = "markSent"
    BY <1>9, <1>types DEF MarkReminder, GoTo
  <2> QED BY <2>1, <2>2, <2>3 DEF EndInv
<1>10. ASSUME NEW w \in Workers, NEW reply \in Replies, CompleteJob(w, reply) PROVE EndInv'
  <2>1. hand[w] \in Reminder /\ (hand[w] \in reaches => delivered[hand[w]] > 0)
    BY <1>10, <1>types DEF CompleteJob, EndInv
  <2>2. UNCHANGED <<reaches, delivered, retries>>
    BY <1>10 DEF CompleteJob, settings
  <2>3. \A r \in Reminder : job'[r] = job[r] \/ (r = hand[w] /\ job'[r] = "done")
    <3>1. job' = [job EXCEPT ![hand[w]] = "done"] \/ job' = job
      BY <1>10 DEF CompleteJob
    <3> QED BY <3>1, <2>1, <1>types
  <2>4. EndsAreEarned'
    BY <2>1, <2>2, <2>3 DEF EndInv, EndsAreEarned
  <2>5. \A v \in Workers : hand'[v] = Nobody \/ (hand'[v] = hand[v] /\ stage'[v] = stage[v])
    <3>1. hand' = [hand EXCEPT ![w] = Nobody] /\ stage' = [stage EXCEPT ![w] = "send"]
      BY <1>10 DEF CompleteJob, LetGo, GoTo
    <3> QED BY <3>1, <1>types
  <2> QED BY <2>2, <2>4, <2>5, <1>hands
<1>11. ASSUME NEW w \in Workers, NEW reply \in Replies, NEW again \in BOOLEAN,
              FailAttempt(w, reply, again) PROVE EndInv'
  <2>1. hand[w] \in Reminder
    BY <1>11, <1>types DEF FailAttempt
  <2>2. UNCHANGED <<reaches, delivered>>
    BY <1>11 DEF FailAttempt, settings
  <2>3. EndsAreEarned'
    <3>1. CASE FailJob(hand[w])
      BY <2>1, <2>2, <3>1, FailJobEarns
    <3>2. CASE UNCHANGED <<job, retries, due>>
      BY <2>2, <3>2, <1>ends
    <3> QED BY <1>11, <3>1, <3>2 DEF FailAttempt
  <2>4. \A v \in Workers : hand'[v] = Nobody \/ (hand'[v] = hand[v] /\ stage'[v] = stage[v])
    <3>1. hand' = [hand EXCEPT ![w] = Nobody] /\ stage' = [stage EXCEPT ![w] = "send"]
      BY <1>11 DEF FailAttempt, LetGo, GoTo
    <3> QED BY <3>1, <1>types
  <2> QED BY <2>2, <2>3, <2>4, <1>hands
<1>12. CASE Restart
  <2>1. EndsAreEarned'
    BY <1>12, <1>types, <1>ends DEF Restart, tables
  <2> QED BY <1>12, <2>1, <1>hands DEF Restart
<1>14. ASSUME NEW w \in Workers, WorkerEnds(w) PROVE EndInv'
  <2>1. EndsAreEarned'
    BY <1>14, <1>types, <1>ends DEF WorkerEnds, tables
  <2>2. \A v \in Workers : hand'[v] = Nobody \/ (hand'[v] = hand[v] /\ stage'[v] = stage[v])
    BY <1>14, <1>types DEF WorkerEnds, LetGo, GoTo
  <2> QED BY <1>14, <2>1, <2>2, <1>hands DEF WorkerEnds
<1>13. CASE Rest \/ UNCHANGED vars
  BY <1>13 DEF EndInv, EndsAreEarned, Rest, vars, settings, tables, execution
<1> QED
  BY <1>1, <1>2, <1>3, <1>4, <1>5, <1>6, <1>7, <1>8, <1>9, <1>10, <1>11, <1>12, <1>13,
     <1>14
  DEF Next, DispatcherStep, ExecutorStep

-----------------------------------------------------------------------------
(* Without a disturbance                                                   *)

(* What is fetched is nowhere else.                                        *)
LEMMA CalmFetch ==
  ASSUME TypeOK, ModeInv, CalmInv, disturbed = 0,
         \/ \E reply \in {"ok", "lost"} : ClaimDueJobs(reply) /\ disturbed' = 0
         \/ FetchDueJobs
  PROVE  CalmInv'
<1>types. /\ mode \in {"queue", "direct"} /\ disturbed \in 0 .. MaxDisturbances
          /\ job \in [Reminder -> {"none", "scheduled", "queued", "done", "failed"}]
          /\ hand \in [Workers -> Reminder \union {Nobody}]
          /\ queue \in [Reminder -> Nat]
  BY DEF TypeOK
<1>1. /\ batch = {} /\ batch' = DueJobs
      /\ UNCHANGED <<mode, queue, hand, stage, status, retries, delivered>>
      /\ \A r \in Reminder :
           job'[r] = IF mode = "queue" /\ r \in DueJobs THEN "queued" ELSE job[r]
      /\ mode = "direct" => \A w \in Workers : hand[w] = Nobody
  <2>1. ASSUME NEW reply \in {"ok", "lost"}, ClaimDueJobs(reply), disturbed' = 0
        PROVE  reply = "ok"
    BY <2>1, <1>types, Calls DEF ClaimDueJobs
  <2> QED BY <2>1, <1>types DEF ClaimDueJobs, FetchDueJobs, settings, tables, execution
<1>2. \A r \in DueJobs : r \in Reminder /\ job[r] = "scheduled"
  BY DEF DueJobs
<1>3. \A r \in Reminder : Placed(r) /\ Rows(r)
  BY DEF CalmInv
<1>4. ASSUME NEW r \in DueJobs PROVE ~Working(r)
  <2>1. job[r] = "scheduled" /\ Placed(r) /\ r \notin batch
    BY <1>1, <1>2, <1>3
  <2>2. CASE mode = "queue"
    BY <2>1, <2>2 DEF Placed
  <2>3. CASE mode = "direct"
    <3>1. queue[r] = 0
      BY <2>3, <1>2 DEF ModeInv
    <3>2. ~InHand(r)
      BY <2>3, <1>1, <1>2, Somebody DEF InHand
    <3> QED BY <2>1, <3>1, <3>2 DEF Working
  <2> QED BY <2>2, <2>3, <1>types
<1>5. ASSUME NEW r \in Reminder PROVE Placed(r)' /\ Rows(r)'
  <2>1. Placed(r) /\ Rows(r) /\ queue[r] \in Nat
    BY <1>3, <1>types
  <2>2. CASE r \in DueJobs
    <3>1. ~Working(r) /\ job[r] = "scheduled"
      BY <1>2, <1>4, <2>2
    <3>2. queue[r] = 0 /\ ~InHand(r) /\ ~InHand(r)'
      BY <3>1, <2>1, <1>1 DEF Working, InHand
    <3>3. job'[r] = IF mode' = "queue" THEN "queued" ELSE "scheduled"
      BY <1>1, <2>2, <3>1
    <3>4. Working(r)' /\ r \in batch'
      BY <1>1, <2>2 DEF Working
    <3>5. UNCHANGED <<queue, hand, status, retries, delivered>>
      BY <1>1
    <3>6. Placed(r)'
      BY <2>1, <3>2, <3>3, <3>4, <3>5 DEF Placed
    <3>7. Rows(r)'
      BY <2>1, <3>1, <3>2, <3>3, <3>5 DEF Rows
    <3> QED BY <3>6, <3>7
  <2>3. CASE r \notin DueJobs
    <3>1. /\ job'[r] = job[r] /\ r \notin batch' /\ r \notin batch
          /\ UNCHANGED <<mode, queue, hand, status, retries, delivered>>
      BY <1>1, <2>3
    <3>2. (InHand(r)' <=> InHand(r)) /\ (Working(r)' <=> Working(r))
      BY <3>1 DEF InHand, Working
    <3> QED BY <2>1, <3>1, <3>2 DEF Placed, Rows
  <2> QED BY <2>2, <2>3
<1>6. \A w \in Workers : Stages(w)'
  BY <1>1 DEF CalmInv, Stages
<1> QED BY <1>5, <1>6 DEF CalmInv

(* A job pushed goes from the batch to the queue.                          *)
LEMMA CalmPush ==
  ASSUME TypeOK, CalmInv, disturbed = 0, disturbed' = 0, NEW reply \in Replies, Push(reply)
  PROVE  CalmInv'
<1>types. /\ queue \in [Reminder -> Nat] /\ batch \subseteq Reminder
          /\ disturbed \in 0 .. MaxDisturbances
  BY DEF TypeOK
<1>1. Least(batch) \in batch /\ Least(batch) \in Reminder
  BY <1>types, LeastIsIn DEF Push
<1>r. PICK r \in Reminder : r = Least(batch) /\ r \in batch
  BY <1>1
<1>2. reply = "ok" /\ TakesEffect(reply)
  BY <1>types, Calls DEF Push
<1>3. /\ queue' = [queue EXCEPT ![r] = @ + 1] /\ batch' = batch \ {r}
      /\ UNCHANGED <<mode, job, retries, status, hand, stage, delivered>>
  BY <1>2, <1>r DEF Push, settings, tables, execution
<1>4. \A s \in Reminder : Placed(s) /\ Rows(s)
  BY DEF CalmInv
<1>5. r \in batch /\ r \in Reminder
  BY <1>r
<1>6. /\ queue[r] = 0 /\ ~InHand(r) /\ Working(r) /\ Placed(r)
      /\ job[r] = IF mode = "queue" THEN "queued" ELSE "scheduled"
  <2>1. Placed(r) /\ queue[r] \in Nat
    BY <1>4, <1>5, <1>types
  <2> QED BY <2>1, <1>5 DEF Placed, Working
<1>7. queue'[r] = 1 /\ r \notin batch'
  BY <1>3, <1>5, <1>6, <1>types
<1>8. \A s \in Reminder : InHand(s)' <=> InHand(s)
  BY <1>3 DEF InHand
<1>9. ASSUME NEW s \in Reminder PROVE Placed(s)' /\ Rows(s)'
  <2>1. Rows(s)'
    BY <1>3, <1>4, <1>8 DEF Rows
  <2>2. CASE s = r
    <3>1. Working(r)' /\ ~InHand(r)'
      BY <1>5, <1>6, <1>7, <1>8 DEF Working
    <3>2. \A v, w \in Workers : hand'[v] = r /\ hand'[w] = r => v = w
      BY <1>3, <1>6 DEF Placed
    <3> QED BY <2>1, <2>2, <3>1, <3>2, <1>3, <1>6, <1>7 DEF Placed
  <2>3. CASE s # r
    <3>1. queue'[s] = queue[s] /\ (s \in batch' <=> s \in batch)
      BY <1>3, <1>types, <2>3
    <3>2. Working(s)' <=> Working(s)
      BY <3>1, <1>8 DEF Working
    <3> QED BY <2>1, <3>1, <3>2, <1>3, <1>4, <1>8 DEF Placed
  <2> QED BY <2>2, <2>3
<1>10. \A w \in Workers : Stages(w)'
  BY <1>3 DEF CalmInv, Stages
<1> QED BY <1>9, <1>10 DEF CalmInv

(* A job taken goes from where it was to the hand of one worker.           *)
LEMMA CalmTake ==
  ASSUME TypeOK, ModeInv, CalmInv, disturbed = 0, NEW w \in Workers, TakeJob(w)
  PROVE  CalmInv'
<1>types. /\ queue \in [Reminder -> Nat] /\ batch \subseteq Reminder
          /\ hand \in [Workers -> Reminder \union {Nobody}]
          /\ stage \in [Workers -> {"send", "markSent", "complete", "markFailed", "fail"}]
  BY DEF TypeOK
<1>1. PICK r \in Reminder :
        /\ hand' = [hand EXCEPT ![w] = r]
        /\ \/ queue[r] > 0 /\ queue' = [queue EXCEPT ![r] = @ - 1] /\ batch' = batch
           \/ r \in batch /\ batch' = batch \ {r} /\ queue' = queue
  BY <1>types DEF TakeJob
<1>2. /\ UNCHANGED <<mode, job, retries, status, delivered>>
      /\ stage' = [stage EXCEPT ![w] = "send"] /\ hand[w] = Nobody
  BY DEF TakeJob, settings, tables
<1>3. \A s \in Reminder : Placed(s) /\ Rows(s) /\ queue[s] \in Nat
  BY <1>types DEF CalmInv
<1>4. ~InHand(r) /\ Working(r)
  BY <1>1, <1>3 DEF Placed, Working
<1>5. queue'[r] = 0 /\ r \notin batch' /\ InHand(r)'
  <2>1. InHand(r)'
    BY <1>1, <1>types DEF InHand
  <2>2. Placed(r) /\ queue[r] \in Nat
    BY <1>3
  <2> QED BY <1>1, <1>types, <2>1, <2>2 DEF Placed
<1>6. ASSUME NEW s \in Reminder, s # r
      PROVE  /\ queue'[s] = queue[s] /\ (s \in batch' <=> s \in batch)
             /\ \A v \in Workers : hand'[v] = s <=> hand[v] = s
  BY <1>1, <1>2, <1>6, <1>types, Somebody
<1>7. ASSUME NEW s \in Reminder PROVE Placed(s)' /\ Rows(s)'
  <2>1. CASE s = r
    <3>1. \A v \in Workers : hand'[v] = r => v = w
      BY <1>1, <1>4, <1>types DEF InHand
    <3>2. Working(r)'
      BY <1>5 DEF Working
    <3>3. Placed(r)'
      BY <3>1, <3>2, <1>2, <1>3, <1>4, <1>5 DEF Placed
    <3>4. Rows(r)'
      BY <1>2, <1>3, <1>5 DEF Rows
    <3> QED BY <2>1, <3>3, <3>4
  <2>2. CASE s # r
    <3>1. (InHand(s)' <=> InHand(s)) /\ (Working(s)' <=> Working(s))
      BY <1>6, <2>2 DEF InHand, Working
    <3>2. Placed(s)'
      BY <1>2, <1>3, <1>6, <2>2, <3>1 DEF Placed
    <3> QED BY <1>2, <1>3, <3>1, <3>2 DEF Rows
  <2> QED BY <2>1, <2>2
<1>8. ASSUME NEW v \in Workers PROVE Stages(v)'
  <2>1. CASE v = w
    <3>1. hand'[w] = r /\ stage'[w] = "send"
      BY <1>1, <1>2, <1>types
    <3>2. delivered[r] = 0 /\ status[r] # "sent"
      <4>1. job[r] \in {"scheduled", "queued"}
        BY <1>3, <1>4 DEF Placed
      <4> QED BY <4>1, <1>3, <1>4 DEF Rows
    <3> QED BY <2>1, <3>1, <3>2, <1>2 DEF Stages
  <2>2. CASE v # w
    <3>1. hand'[v] = hand[v] /\ stage'[v] = stage[v]
      BY <1>1, <1>2, <2>2, <1>types
    <3> QED BY <3>1, <1>2 DEF CalmInv, Stages
  <2> QED BY <2>1, <2>2
<1> QED BY <1>7, <1>8 DEF CalmInv

(* A worker's job is its own, and its row says so.                         *)
LEMMA InCalm ==
  ASSUME TypeOK, CalmInv, disturbed = 0, NEW w \in Workers, hand[w] # Nobody
  PROVE  /\ hand[w] \in Reminder /\ hand[w] \notin batch /\ queue[hand[w]] = 0
         /\ \A v \in Workers : v # w => hand[v] # hand[w]
         /\ job[hand[w]] = IF mode = "queue" THEN "queued" ELSE "scheduled"
         /\ InHand(hand[w]) /\ retries[hand[w]] <= MaxRetries /\ status[hand[w]] # "none"
<1>1. hand[w] \in Reminder
  BY DEF TypeOK
<1>2. InHand(hand[w]) /\ Working(hand[w])
  BY DEF InHand, Working
<1>3. Placed(hand[w]) /\ Rows(hand[w])
  BY <1>1 DEF CalmInv
<1> QED BY <1>1, <1>2, <1>3 DEF Placed, Rows

(* Sending is the first time its worker delivers it.                       *)
LEMMA CalmSend ==
  ASSUME TypeOK, CalmInv, disturbed = 0, disturbed' = 0,
         NEW w \in Workers, NEW reply \in Replies, Send(w, reply)
  PROVE  CalmInv'
<1>types. /\ hand \in [Workers -> Reminder \union {Nobody}]
          /\ stage \in [Workers -> {"send", "markSent", "complete", "markFailed", "fail"}]
          /\ delivered \in [Reminder -> Nat] /\ disturbed \in 0 .. MaxDisturbances
  BY DEF TypeOK
<1> DEFINE r == hand[w]
<1>1. hand[w] # Nobody /\ stage[w] = "send" /\ r \in Reminder /\ InHand(r)
      /\ (\A v \in Workers : v # w => hand[v] # r)
      /\ job[r] = (IF mode = "queue" THEN "queued" ELSE "scheduled")
  BY InCalm DEF Send
<1>2. reply # "lost"
  BY <1>types, Disturbances DEF Send
<1>3. /\ UNCHANGED <<mode, job, retries, status, batch, queue, hand>>
      /\ stage' = [stage EXCEPT ![w] = IF reply = "ok" THEN "markSent" ELSE "markFailed"]
      /\ delivered' = [delivered EXCEPT ![r] = @ + 1] \/ delivered' = delivered
      /\ reply = "refused" => delivered' = delivered
  BY <1>types DEF Send, settings, tables, dispatch, TakesEffect, GoTo
<1>4. delivered[r] = 0 /\ status[r] # "sent"
  BY <1>1 DEF CalmInv, Stages
<1> HIDE DEF r
<1>5. \A s \in Reminder : s # r => delivered'[s] = delivered[s]
  BY <1>3, <1>types
<1>6. ASSUME NEW s \in Reminder PROVE Placed(s)' /\ Rows(s)'
  <2>1. Placed(s) /\ Rows(s)
    BY DEF CalmInv
  <2>2. (InHand(s)' <=> InHand(s)) /\ (Working(s)' <=> Working(s))
    BY <1>3 DEF InHand, Working
  <2>3. Placed(s)'
    BY <1>3, <2>1, <2>2 DEF Placed
  <2>4. Rows(s)'
    BY <1>1, <1>3, <1>5, <2>1, <2>2 DEF Rows
  <2> QED BY <2>3, <2>4
<1>7. ASSUME NEW v \in Workers PROVE Stages(v)'
  <2>1. CASE v = w
    <3>1. stage'[w] = IF reply = "ok" THEN "markSent" ELSE "markFailed"
      BY <1>3, <1>types
    <3>2. hand'[w] = r /\ status'[r] # "sent"
      BY <1>3, <1>4 DEF r
    <3>3. stage'[w] = "markFailed" => delivered'[r] = 0
      BY <1>2, <1>3, <1>4, <3>1 DEF Replies
    <3> QED BY <2>1, <3>1, <3>2, <3>3 DEF Stages
  <2>2. CASE v # w
    <3>1. /\ hand'[v] = hand[v] /\ stage'[v] = stage[v] /\ status' = status
          /\ hand[v] # Nobody => hand[v] \in Reminder /\ hand[v] # r
      BY <1>1, <1>3, <2>2, <1>types
    <3>2. hand[v] # Nobody => delivered'[hand[v]] = delivered[hand[v]]
      BY <3>1, <1>5
    <3> QED BY <3>1, <3>2 DEF CalmInv, Stages
  <2> QED BY <2>1, <2>2
<1> QED BY <1>6, <1>7 DEF CalmInv

(* The reminder is marked as what was delivered has it.                    *)
LEMMA CalmMark ==
  ASSUME TypeOK, CalmInv, disturbed = 0, disturbed' = 0,
         NEW w \in Workers, NEW reply \in Replies, MarkReminder(w, reply)
  PROVE  CalmInv'
<1>types. /\ hand \in [Workers -> Reminder \union {Nobody}]
          /\ stage \in [Workers -> {"send", "markSent", "complete", "markFailed", "fail"}]
          /\ status \in [Reminder -> {"none", "scheduled", "sent", "failed"}]
          /\ disturbed \in 0 .. MaxDisturbances
  BY DEF TypeOK
<1> DEFINE r == hand[w]
           sent == stage[w] = "markSent"
<1>1. hand[w] # Nobody /\ stage[w] \in {"markSent", "markFailed"} /\ r \in Reminder /\ InHand(r)
      /\ (\A v \in Workers : v # w => hand[v] # r)
      /\ job[r] = (IF mode = "queue" THEN "queued" ELSE "scheduled")
  BY InCalm DEF MarkReminder
<1>2. TakesEffect(reply)
  BY <1>types, Calls DEF MarkReminder
<1>3. /\ UNCHANGED <<mode, job, retries, batch, queue, hand, delivered>>
      /\ stage' = [stage EXCEPT ![w] = IF sent THEN "complete" ELSE "fail"]
      /\ status' = [status EXCEPT ![r] = IF sent THEN "sent" ELSE "failed"]
  BY <1>types, <1>2 DEF MarkReminder, settings, dispatch, GoTo
<1>4. ~sent => delivered[r] = 0
  BY <1>1 DEF CalmInv, Stages
<1> HIDE DEF r, sent
<1>5. /\ \A s \in Reminder : s # r => status'[s] = status[s]
      /\ status'[r] = IF sent THEN "sent" ELSE "failed"
  BY <1>1, <1>3, <1>types
<1>6. ASSUME NEW s \in Reminder PROVE Placed(s)' /\ Rows(s)'
  <2>1. Placed(s) /\ Rows(s)
    BY DEF CalmInv
  <2>2. (InHand(s)' <=> InHand(s)) /\ (Working(s)' <=> Working(s))
    BY <1>3 DEF InHand, Working
  <2>3. Placed(s)'
    BY <1>3, <2>1, <2>2 DEF Placed
  <2>4. Rows(s)'
    BY <1>1, <1>3, <1>5, <2>1, <2>2 DEF Rows
  <2> QED BY <2>3, <2>4
<1>7. ASSUME NEW v \in Workers PROVE Stages(v)'
  <2>1. CASE v = w
    <3>1. stage'[w] = IF sent THEN "complete" ELSE "fail"
      BY <1>3, <1>types
    <3>2. hand'[w] = r /\ delivered' = delivered
      BY <1>3 DEF r
    <3> QED BY <2>1, <3>1, <3>2, <1>4, <1>5 DEF Stages
  <2>2. CASE v # w
    <3>1. /\ hand'[v] = hand[v] /\ stage'[v] = stage[v] /\ delivered' = delivered
          /\ hand[v] # Nobody => hand[v] \in Reminder /\ hand[v] # r
      BY <1>1, <1>3, <2>2, <1>types
    <3>2. hand[v] # Nobody => status'[hand[v]] = status[hand[v]]
      BY <3>1, <1>5
    <3> QED BY <3>1, <3>2 DEF CalmInv, Stages
  <2> QED BY <2>1, <2>2
<1> QED BY <1>6, <1>7 DEF CalmInv

(* A worker lets go of a job whose rows agree.                             *)
LEMMA CalmEnd ==
  ASSUME TypeOK, CalmInv, disturbed = 0, NEW w \in Workers, hand[w] # Nobody,
         UNCHANGED <<mode, status, delivered, queue>>, batch' \subseteq batch,
         mode # "direct" => batch' = batch,
         hand' = [hand EXCEPT ![w] = Nobody], stage' = [stage EXCEPT ![w] = "send"],
         \A s \in Reminder : s # hand[w] => job'[s] = job[s] /\ retries'[s] = retries[s],
         \/ stage[w] = "complete" /\ job'[hand[w]] = "done"
         \/ /\ stage[w] = "fail"
            /\ retries'[hand[w]] = retries[hand[w]] + 1
            /\ job'[hand[w]] = IF retries[hand[w]] >= MaxRetries THEN "failed" ELSE "scheduled"
  PROVE  CalmInv'
<1>types. /\ hand \in [Workers -> Reminder \union {Nobody}]
          /\ stage \in [Workers -> {"send", "markSent", "complete", "markFailed", "fail"}]
          /\ mode \in {"queue", "direct"} /\ retries \in [Reminder -> Nat]
  BY DEF TypeOK
<1>r. PICK r \in Reminder : r = hand[w]
  BY InCalm
<1>1. /\ r \in Reminder /\ r \notin batch /\ queue[r] = 0
      /\ \A v \in Workers : v # w => hand[v] # r
      /\ retries[r] <= MaxRetries /\ status[r] # "none"
  BY <1>r, InCalm
<1>2. /\ stage[w] = "complete" => status[r] = "sent"
      /\ stage[w] = "fail" => status[r] = "failed" /\ delivered[r] = 0
  BY <1>r DEF CalmInv, Stages
<1>3. /\ hand'[w] = Nobody
      /\ \A v \in Workers : v # w => hand'[v] = hand[v] /\ stage'[v] = stage[v]
      /\ r # Nobody /\ retries[r] \in Nat
  BY <1>types, <1>1, Somebody
<1>4. /\ \A s \in Reminder : s # r => job'[s] = job[s] /\ retries'[s] = retries[s]
      /\ \/ stage[w] = "complete" /\ job'[r] = "done"
         \/ /\ stage[w] = "fail" /\ retries'[r] = retries[r] + 1
            /\ job'[r] = IF retries[r] >= MaxRetries THEN "failed" ELSE "scheduled"
  BY <1>r
<1>5. hand[w] = r
  BY <1>r
<1>6. ~InHand(r)' /\ ~Working(r)'
  <2>1. ~InHand(r)'
    BY <1>1, <1>3 DEF InHand
  <2> QED BY <1>1, <2>1 DEF Working
<1>7. ASSUME NEW s \in Reminder PROVE Placed(s)' /\ Rows(s)'
  <2>1. Placed(s) /\ Rows(s)
    BY DEF CalmInv
  <2>2. CASE s = r
    <3>1. Placed(r)'
      <4>1. job'[r] # "queued" /\ r \notin batch' /\ queue'[r] = 0
        BY <1>1, <1>4
      <4>2. \A v \in Workers : hand'[v] # r
        BY <1>1, <1>3
      <4> QED BY <4>1, <4>2, <1>6 DEF Placed
    <3>2. Rows(r)'
      <4>1. CASE stage[w] = "complete"
        BY <4>1, <1>2, <1>4 DEF Rows
      <4>2. CASE stage[w] = "fail"
        BY <4>2, <1>1, <1>2, <1>3, <1>4, <1>6 DEF Rows, MaxRetries
      <4> QED BY <4>1, <4>2, <1>4
    <3> QED BY <2>2, <3>1, <3>2
  <2>3. CASE s # r
    <3>1. \A v \in Workers : hand'[v] = s <=> hand[v] = s
      BY <1>3, <1>5, <2>3, Somebody
    <3>2. InHand(s)' <=> InHand(s)
      BY <3>1 DEF InHand
    <3>3. job'[s] = job[s] /\ retries'[s] = retries[s] /\ queue'[s] = queue[s]
      BY <1>4, <2>3
    <3>4. Working(s)' => Working(s)
      BY <3>2, <3>3 DEF Working
    <3>5. job'[s] = "queued" => Working(s)'
      <4>1. CASE mode = "direct"
        <5>1. Working(s) => job[s] = "scheduled"
          BY <2>1, <4>1 DEF Placed
        <5> QED BY <2>1, <3>3, <5>1 DEF Placed
      <4>2. CASE mode # "direct"
        <5>1. batch' = batch
          BY <4>2
        <5> QED BY <2>1, <3>2, <3>3, <5>1 DEF Placed, Working
      <4> QED BY <4>1, <4>2
    <3>6. Placed(s)'
      BY <2>1, <3>1, <3>2, <3>3, <3>4, <3>5 DEF Placed
    <3>7. Rows(s)'
      BY <2>1, <3>2, <3>3 DEF Rows
    <3> QED BY <3>6, <3>7
  <2> QED BY <2>2, <2>3
<1>8. \A v \in Workers : Stages(v)'
  BY <1>3 DEF CalmInv, Stages
<1> QED BY <1>7, <1>8 DEF CalmInv

(* Every step without a disturbance keeps each job in its one place.       *)
LEMMA NextCalm ==
  ASSUME TypeOK, ModeInv, CalmInv, [Next]_vars
  PROVE  CalmInv'
<1> SUFFICES ASSUME disturbed' = 0 PROVE CalmInv'
  BY DEF CalmInv
<1>types. /\ disturbed \in 0 .. MaxDisturbances
          /\ job \in [Reminder -> {"none", "scheduled", "queued", "done", "failed"}]
          /\ status \in [Reminder -> {"none", "scheduled", "sent", "failed"}]
          /\ hand \in [Workers -> Reminder \union {Nobody}]
          /\ retries \in [Reminder -> Nat] /\ due \in [Reminder -> BOOLEAN]
  BY DEF TypeOK
<1>1. ASSUME NEW r \in Reminder, CreateReminder(r) PROVE CalmInv'
  <2>1. disturbed = 0 /\ \A s \in Reminder : Placed(s) /\ Rows(s)
    BY <1>1 DEF CreateReminder, CalmInv
  <2>2. /\ status[r] = "none" /\ job[r] = "none"
        /\ ~Working(r)
    <3>1. status[r] = "none" /\ job[r] = "none"
      BY <1>1, <2>1 DEF CreateReminder, Rows
    <3> QED BY <2>1, <3>1 DEF Placed
  <2>3. /\ UNCHANGED <<mode, retries, batch, queue, hand, stage, delivered>>
        /\ \A s \in Reminder : s # r => job'[s] = job[s] /\ status'[s] = status[s]
        /\ job'[r] = "scheduled" /\ status'[r] = "scheduled"
    BY <1>1, <1>types DEF CreateReminder, dispatch, execution
  <2>4. \A s \in Reminder : (InHand(s)' <=> InHand(s)) /\ (Working(s)' <=> Working(s))
    BY <2>3 DEF InHand, Working
  <2>5. ASSUME NEW s \in Reminder PROVE Placed(s)' /\ Rows(s)'
    BY <2>1, <2>2, <2>3, <2>4 DEF Placed, Rows
  <2>6. ASSUME NEW w \in Workers PROVE Stages(w)'
    <3>1. hand[w] # Nobody => hand[w] \in Reminder /\ hand[w] # r
      BY <2>2, <1>types DEF Working, InHand
    <3> QED BY <2>1, <2>3, <3>1 DEF CalmInv, Stages
  <2> QED BY <2>5, <2>6 DEF CalmInv
<1>2. ASSUME NEW r \in Reminder, ComeDue(r) PROVE CalmInv'
  BY <1>2 DEF ComeDue, CalmInv, Placed, Rows, Stages, Working, InHand, settings, dispatch,
     execution
<1>3. ASSUME NEW reply \in {"ok", "lost"}, ClaimDueJobs(reply) PROVE CalmInv'
  <2>1. disturbed = 0
    BY <1>3, <1>types, Calls DEF ClaimDueJobs
  <2> QED BY <1>3, <2>1, CalmFetch
<1>4. ASSUME NEW reply \in Replies, Push(reply) PROVE CalmInv'
  <2>1. disturbed = 0
    BY <1>4, <1>types, Calls DEF Push
  <2> QED BY <1>4, <2>1, CalmPush
<1>5. ASSUME NEW reply \in Replies, FailPush(reply) \/ MarkPush(reply) PROVE CalmInv'
  <2>1. disturbed = 0
    BY <1>5, <1>types, Calls DEF FailPush, MarkPush
  <2> QED BY <1>5, <2>1 DEF FailPush, MarkPush, ModeInv
<1>6. CASE FetchDueJobs
  <2>1. disturbed = 0
    BY <1>6 DEF FetchDueJobs
  <2> QED BY <1>6, <2>1, CalmFetch
<1>7. ASSUME NEW w \in Workers, TakeJob(w) PROVE CalmInv'
  <2>1. disturbed = 0
    BY <1>7 DEF TakeJob
  <2> QED BY <1>7, <2>1, CalmTake
<1>8. ASSUME NEW w \in Workers, NEW reply \in Replies, Send(w, reply) PROVE CalmInv'
  <2>1. disturbed = 0
    BY <1>8, <1>types, Disturbances DEF Send
  <2> QED BY <1>8, <2>1, CalmSend
<1>9. ASSUME NEW w \in Workers, NEW reply \in Replies, MarkReminder(w, reply) PROVE CalmInv'
  <2>1. disturbed = 0
    BY <1>9, <1>types, Calls DEF MarkReminder
  <2> QED BY <1>9, <2>1, CalmMark
<1>10. ASSUME NEW w \in Workers, NEW reply \in Replies, CompleteJob(w, reply) PROVE CalmInv'
  <2>1. disturbed = 0 /\ TakesEffect(reply)
    BY <1>10, <1>types, Calls DEF CompleteJob
  <2>2. /\ hand[w] # Nobody /\ stage[w] = "complete"
        /\ job' = [job EXCEPT ![hand[w]] = "done"]
        /\ hand' = [hand EXCEPT ![w] = Nobody] /\ stage' = [stage EXCEPT ![w] = "send"]
        /\ UNCHANGED <<mode, retries, status, batch, queue, delivered>>
    BY <1>10, <2>1 DEF CompleteJob, LetGo, GoTo, settings, dispatch
  <2>3. /\ hand[w] \in Reminder /\ job'[hand[w]] = "done"
        /\ \A s \in Reminder : s # hand[w] => job'[s] = job[s] /\ retries'[s] = retries[s]
    BY <2>2, <1>types
  <2> QED BY <2>1, <2>2, <2>3, CalmEnd
<1>11. ASSUME NEW w \in Workers, NEW reply \in Replies, NEW again \in BOOLEAN,
              FailAttempt(w, reply, again) PROVE CalmInv'
  <2>1. disturbed = 0 /\ TakesEffect(reply) /\ ~again
    <3>1. ~again
      BY <1>11, <1>types, Calls DEF FailAttempt
    <3> QED BY <1>11, <1>types, <3>1, Calls DEF FailAttempt
  <2>2. /\ hand[w] # Nobody /\ stage[w] = "fail" /\ FailJob(hand[w])
        /\ hand' = [hand EXCEPT ![w] = Nobody] /\ stage' = [stage EXCEPT ![w] = "send"]
        /\ UNCHANGED <<mode, status, queue, delivered>>
        /\ batch' = IF mode = "direct" THEN {} ELSE batch
    BY <1>11, <2>1 DEF FailAttempt, LetGo, GoTo, settings
  <2>3. /\ hand[w] \in Reminder
        /\ \A s \in Reminder : s # hand[w] => job'[s] = job[s] /\ retries'[s] = retries[s]
        /\ retries'[hand[w]] = retries[hand[w]] + 1
        /\ job'[hand[w]] = IF retries[hand[w]] >= MaxRetries THEN "failed" ELSE "scheduled"
    BY <2>2, <1>types DEF FailJob
  <2>4. batch' \subseteq batch /\ (mode # "direct" => batch' = batch)
    BY <2>2
  <2> QED BY <2>1, <2>2, <2>3, <2>4, CalmEnd
<1>12. CASE Restart \/ \E w \in Workers : WorkerEnds(w)
  BY <1>12, <1>types, Disturbances DEF Restart, WorkerEnds
<1>13. CASE Rest \/ UNCHANGED vars
  <2>1. UNCHANGED <<mode, job, retries, status, batch, queue, hand, stage, delivered, disturbed>>
    BY <1>13 DEF Rest, vars, settings, tables, dispatch, execution
  <2> QED BY <2>1 DEF CalmInv, Placed, Rows, Stages, Working, InHand
<1> QED
  BY <1>1, <1>2, <1>3, <1>4, <1>5, <1>6, <1>7, <1>8, <1>9, <1>10, <1>11, <1>12, <1>13
  DEF Next, DispatcherStep, ExecutorStep

-----------------------------------------------------------------------------
(* The invariant                                                           *)

(* The invariant holds at the start,                                       *)
LEMMA InitInv == Init => IInv
<1> SUFFICES ASSUME Init PROVE IInv
  OBVIOUS
<1>1. TypeOK
  <2>1. 0 \in 0 .. MaxDisturbances
    BY ReminderAssumption
  <2> QED BY <2>1 DEF Init, TypeOK
<1>2. ModeInv
  BY DEF Init, ModeInv
<1>3. EndInv
  BY DEF Init, EndInv, EndsAreEarned
<1>4. CalmInv
  <2>1. \A r \in Reminder : ~InHand(r) /\ ~Working(r)
    BY Somebody DEF Init, InHand, Working
  <2>2. ASSUME NEW r \in Reminder PROVE Placed(r) /\ Rows(r)
    <3>1. \A w \in Workers : hand[w] # r
      BY Somebody DEF Init
    <3> QED BY <2>1, <3>1 DEF Init, Placed, Rows, MaxRetries
  <2>3. \A w \in Workers : Stages(w)
    BY DEF Init, Stages
  <2> QED BY <2>2, <2>3 DEF CalmInv
<1>5. PlaceInv
  BY Somebody DEF Init, PlaceInv, InHand, Working
<1> QED BY <1>1, <1>2, <1>3, <1>4, <1>5 DEF IInv

(* and every step keeps it.                                                *)
LEMMA NextInv == IInv /\ [Next]_vars => IInv'
BY NextType, NextMode, NextPlaces, NextEnd, NextCalm DEF IInv

(* The invariant holds of every reachable state.                           *)
THEOREM InvariantHolds == Spec => []IInv
BY InitInv, NextInv, PTL DEF Spec

(* Tables, queue and workers stay well typed, for any number of each.      *)
THEOREM TypeCorrect == Spec => []TypeOK
<1>1. IInv => TypeOK
  BY DEF IInv
<1> QED BY <1>1, InvariantHolds, PTL

(* Whatever fails, is lost or handed out again: a job done was delivered,  *)
(* and a job given up had its four attempts.                               *)
THEOREM JobsEndAsTheyShould == Spec => []EndsAreEarned
<1>1. IInv => EndsAreEarned
  BY DEF IInv, EndInv
<1> QED BY <1>1, InvariantHolds, PTL

(* Without a disturbance no job that waits is out of everyone's hands, nor *)
(* in a queue that nobody takes from.                                      *)
THEOREM JobsAreNotStranded == Spec => []NothingIsStranded
<1>1. IInv => NothingIsStranded
  <2> SUFFICES ASSUME IInv, disturbed = 0, NEW r \in Reminder, job[r] = "queued",
                      r \notin batch, ~InHand(r)
               PROVE  queue[r] # 0 /\ QueueIsServed
    BY DEF NothingIsStranded, Stranded
  <2>1. Placed(r) /\ queue[r] \in Nat /\ mode = "queue" /\ alive = Workers
    BY DEF IInv, CalmInv, ModeInv, TypeOK
  <2> QED BY <2>1, ReminderAssumption DEF Placed, Working, QueueIsServed
<1> QED BY <1>1, InvariantHolds, PTL

(* Without a disturbance the tables of jobs and reminders agree on every   *)
(* reminder that nobody works on.                                          *)
THEOREM TablesStayTogether == Spec => []TablesAgree
<1>1. IInv => TablesAgree
  <2> SUFFICES ASSUME IInv, disturbed = 0, NEW r \in Reminder, ~Working(r)
               PROVE  /\ job[r] = "done" <=> status[r] = "sent"
                      /\ job[r] = "failed" => /\ status[r] = "failed"
                                              /\ retries[r] = MaxRetries + 1
                                              /\ delivered[r] = 0
    BY DEF TablesAgree
  <2>1. /\ Placed(r) /\ Rows(r)
        /\ job[r] \in {"none", "scheduled", "queued", "done", "failed"}
        /\ ~InHand(r)
    BY DEF IInv, CalmInv, TypeOK, Working
  <2> QED BY <2>1 DEF Rows
<1> QED BY <1>1, InvariantHolds, PTL

-----------------------------------------------------------------------------
(* Duplicates, with any number of disturbances                             *)

(* A power of two is the number of subsets of an interval, and an interval *)
(* with one element more has twice as many.                                *)
LEMMA Doubles ==
  ASSUME NEW d \in Nat
  PROVE  2 ^ d \in Nat /\ 2 ^ d >= 1 /\ 2 ^ (d + 1) = 2 * 2 ^ d
<1> DEFINE S == 1 .. d
           T == 1 .. (d + 1)
           with == {U \cup {d + 1} : U \in SUBSET S}
           f == [U \in SUBSET S |-> U \cup {d + 1}]
<1>1. /\ IsFiniteSet(S) /\ Cardinality(S) = d
      /\ IsFiniteSet(T) /\ Cardinality(T) = d + 1
  BY FS_Interval
<1>2. /\ IsFiniteSet(SUBSET S) /\ Cardinality(SUBSET S) = 2 ^ d /\ 2 ^ d \in Nat
      /\ Cardinality(SUBSET T) = 2 ^ (d + 1)
  BY <1>1, FS_SUBSET, FS_CardinalityType
<1>3. d + 1 \notin S
  OBVIOUS
<1>4. f \in Bijection(SUBSET S, with)
  <2>1. ASSUME NEW U \in SUBSET S, NEW V \in SUBSET S, f[U] = f[V] PROVE U = V
    BY <2>1, <1>3
  <2>2. f \in [SUBSET S -> with] /\ \A W \in with : \E U \in SUBSET S : f[U] = W
    OBVIOUS
  <2>3. DOMAIN f = SUBSET S
    OBVIOUS
  <2> HIDE DEF f, with, S
  <2> QED BY <2>1, <2>2, <2>3 DEF Bijection, Injection, Surjection, IsInjective
<1>5. IsFiniteSet(with) /\ Cardinality(with) = 2 ^ d
  <2> HIDE DEF with, f, S
  <2> QED BY <1>2, <1>4, FS_Bijection DEF ExistsBijection
<1>6. SUBSET T = (SUBSET S) \cup with
  <2>1. T = S \cup {d + 1}
    OBVIOUS
  <2>2. ASSUME NEW U \in SUBSET T, U \notin SUBSET S PROVE U \in with
    <3>1. U \ {d + 1} \in SUBSET S /\ d + 1 \in U
      BY <2>1, <2>2
    <3>2. U = (U \ {d + 1}) \cup {d + 1}
      BY <3>1
    <3> QED BY <3>1, <3>2
  <2>3. \A U \in SUBSET S : U \in SUBSET T /\ U \cup {d + 1} \in SUBSET T
    BY <2>1
  <2>4. ASSUME NEW U \in with PROVE U \in SUBSET T
    BY <2>3
  <2>5. \A U \in SUBSET T : U \in SUBSET S \/ U \in with
    BY <2>2
  <2> HIDE DEF with, S, T
  <2> DEFINE P == SUBSET S
             Q == SUBSET T
  <2>6. /\ \A U \in Q : U \in P \/ U \in with
        /\ \A U \in P : U \in Q
        /\ \A U \in with : U \in Q
    BY <2>3, <2>4, <2>5
  <2> HIDE DEF P, Q
  <2>7. Q = P \cup with
    BY <2>6
  <2> QED BY <2>7 DEF P, Q
<1>7. (SUBSET S) \cap with = {}
  <2>1. \A W \in with : d + 1 \in W
    OBVIOUS
  <2>2. ASSUME NEW W \in with PROVE W \notin SUBSET S
    BY <1>3, <2>1
  <2> HIDE DEF with, S
  <2> QED BY <2>2
<1> HIDE DEF with, S, T, f
<1>8. Cardinality((SUBSET S) \cup with) = 2 ^ d + 2 ^ d
  <2>1. \A A, B : IsFiniteSet(A) /\ IsFiniteSet(B) =>
          Cardinality(A \cup B) = Cardinality(A) + Cardinality(B) - Cardinality(A \cap B)
    BY FS_Union
  <2>4. Cardinality((SUBSET S) \cup with) =
          Cardinality(SUBSET S) + Cardinality(with) - Cardinality((SUBSET S) \cap with)
    <3> DEFINE P == SUBSET S
    <3>1. IsFiniteSet(P) /\ IsFiniteSet(with)
      BY <1>2, <1>5
    <3> HIDE DEF P
    <3>2. Cardinality(P \cup with) = Cardinality(P) + Cardinality(with) - Cardinality(P \cap with)
      BY <3>1, <2>1
    <3> QED BY <3>2 DEF P
  <2>2. Cardinality((SUBSET S) \cap with) = 0
    BY <1>7, FS_EmptySet
  <2>3. 2 ^ d \in Nat
    BY <1>2
  <2> QED BY <2>4, <2>2, <2>3, <1>2, <1>5
<1>9. 2 ^ (d + 1) = 2 ^ d + 2 ^ d
  BY <1>2, <1>6, <1>8
<1>10. 2 ^ d # 0
  <2> DEFINE P == SUBSET S
  <2>1. {} \in P /\ IsFiniteSet(P) /\ Cardinality(P) = 2 ^ d
    BY <1>2
  <2> HIDE DEF P
  <2> QED BY <2>1, FS_EmptySet
<1> QED BY <1>2, <1>9, <1>10

(* Workers that may still bring it about that r is sent, and those that    *)
(* have sent it and not recorded all of it.                                *)
Sends(r) == {w \in Workers : hand[w] = r /\ stage[w] \in {"send", "markFailed", "fail"}}
Sent(r)  == {w \in Workers : hand[w] = r /\ stage[w] \in {"markSent", "complete"}}

(* The messages that may be sent of r without another disturbance: one for *)
(* each copy of its job that is under way and one if it is to be taken up  *)
(* again; the direct loop has but the row itself, and what a queue before  *)
(* it may keep for the one after it.                                       *)
Claimed(r) == IF r \in batch /\ (pushing # "mark" \/ r # Least(batch)) THEN 1 ELSE 0
Awaited(r) == IF job[r] \in {"none", "scheduled"} THEN 1 ELSE 0
Owed(r) ==
  queue[r] +
    IF mode = "direct" THEN IF Sent(r) = {} THEN Awaited(r) ELSE 0
    ELSE Cardinality(Sends(r)) + Claimed(r) + Awaited(r)

Bounded(r) ==
  /\ r \notin reaches => delivered[r] = 0
  /\ r \in reaches => /\ Cardinality(Sent(r)) <= delivered[r]
                      /\ delivered[r] + Owed(r) <= 2 ^ disturbed

CopyInv == \A r \in Reminder : Bounded(r)

(* Workers can be counted.                                                 *)
LEMMA Counts ==
  \A r : /\ IsFiniteSet(Sends(r)) /\ Cardinality(Sends(r)) \in Nat
         /\ IsFiniteSet(Sent(r)) /\ Cardinality(Sent(r)) \in Nat
         /\ Claimed(r) \in {0, 1} /\ Awaited(r) \in {0, 1}
<1> TAKE r
<1>1. Sends(r) \in SUBSET Workers /\ Sent(r) \in SUBSET Workers
  BY DEF Sends, Sent
<1> QED BY <1>1, ReminderAssumption, FS_Subset, FS_CardinalityType DEF Claimed, Awaited

(* The same after a step.                                                  *)
LEMMA CountsNext ==
  \A r : /\ IsFiniteSet(Sends(r)') /\ Cardinality(Sends(r)') \in Nat
         /\ IsFiniteSet(Sent(r)') /\ Cardinality(Sent(r)') \in Nat
         /\ Claimed(r)' \in {0, 1} /\ Awaited(r)' \in {0, 1}
<1> TAKE r
<1>1. Sends(r)' \in SUBSET Workers /\ Sent(r)' \in SUBSET Workers
  BY DEF Sends, Sent
<1> QED BY <1>1, ReminderAssumption, FS_Subset, FS_CardinalityType DEF Claimed, Awaited

(* When one worker moves, the counts change by it alone.                   *)
LEMMA OneMoves ==
  ASSUME NEW w \in Workers, NEW r,
         \A v \in Workers : v # w => hand'[v] = hand[v] /\ stage'[v] = stage[v]
  PROVE  /\ Cardinality(Sends(r)') =
              Cardinality(Sends(r)) + (IF w \in Sends(r)' THEN 1 ELSE 0)
                                    - (IF w \in Sends(r) THEN 1 ELSE 0)
         /\ Cardinality(Sent(r)') =
              Cardinality(Sent(r)) + (IF w \in Sent(r)' THEN 1 ELSE 0)
                                   - (IF w \in Sent(r) THEN 1 ELSE 0)
<1>1. ASSUME NEW S, NEW T, IsFiniteSet(S), IsFiniteSet(T), S \ {w} = T \ {w}
      PROVE  Cardinality(T) = Cardinality(S) + (IF w \in T THEN 1 ELSE 0)
                                             - (IF w \in S THEN 1 ELSE 0)
  <2>1. /\ Cardinality(S \ {w}) = IF w \in S THEN Cardinality(S) - 1 ELSE Cardinality(S)
        /\ Cardinality(T \ {w}) = IF w \in T THEN Cardinality(T) - 1 ELSE Cardinality(T)
        /\ Cardinality(S) \in Nat /\ Cardinality(T) \in Nat
    BY <1>1, FS_RemoveElement, FS_CardinalityType
  <2>2. Cardinality(S \ {w}) = Cardinality(T \ {w})
    BY <1>1
  <2> QED BY <2>1, <2>2
<1>2. Sends(r) \ {w} = Sends(r)' \ {w} /\ Sent(r) \ {w} = Sent(r)' \ {w}
  BY DEF Sends, Sent
<1>3. IsFiniteSet(Sends(r)) /\ IsFiniteSet(Sends(r)') /\ IsFiniteSet(Sent(r)) /\ IsFiniteSet(Sent(r)')
  BY Counts, CountsNext
<1> QED BY <1>1, <1>2, <1>3

(* What is owed is a number.                                               *)
LEMMA OwedType ==
  ASSUME TypeOK, TypeOK', NEW r \in Reminder
  PROVE  /\ Owed(r) \in Nat /\ Owed(r)' \in Nat /\ delivered[r] \in Nat /\ delivered'[r] \in Nat
         /\ queue[r] \in Nat /\ queue'[r] \in Nat /\ disturbed \in Nat /\ disturbed' \in Nat
<1>1. /\ delivered[r] \in Nat /\ delivered'[r] \in Nat /\ disturbed \in Nat /\ disturbed' \in Nat
      /\ queue[r] \in Nat /\ queue'[r] \in Nat
  BY ReminderAssumption DEF TypeOK
<1>2. /\ Cardinality(Sends(r)) \in Nat /\ Claimed(r) \in {0, 1} /\ Awaited(r) \in {0, 1}
      /\ Cardinality(Sends(r)') \in Nat /\ Claimed(r)' \in {0, 1} /\ Awaited(r)' \in {0, 1}
  BY Counts, CountsNext
<1> QED BY <1>1, <1>2 DEF Owed

(* A step keeps the bound if it adds nothing, or doubles at most at the    *)
(* price of a disturbance.                                                 *)
LEMMA KeepsBound ==
  ASSUME TypeOK, TypeOK', NEW r \in Reminder, Bounded(r), r \in reaches' <=> r \in reaches,
         r \notin reaches => delivered'[r] = delivered[r],
         r \in reaches => Cardinality(Sent(r)') <= delivered'[r],
         r \in reaches =>
           \/ /\ UNCHANGED disturbed
              /\ delivered'[r] + Owed(r)' <= delivered[r] + Owed(r)
           \/ /\ Disturb
              /\ delivered'[r] + Owed(r)' <= 2 * (delivered[r] + Owed(r))
  PROVE  Bounded(r)'
<1>1. /\ Owed(r) \in Nat /\ Owed(r)' \in Nat /\ delivered[r] \in Nat /\ delivered'[r] \in Nat
      /\ disturbed \in Nat
  BY OwedType
<1>2. 2 ^ disturbed \in Nat /\ 2 ^ (disturbed + 1) = 2 * 2 ^ disturbed
  BY <1>1, Doubles
<1>3. r \notin reaches' => delivered'[r] = 0
  BY DEF Bounded
<1>4. ASSUME r \in reaches PROVE delivered'[r] + Owed(r)' <= 2 ^ disturbed'
  <2>1. delivered[r] + Owed(r) <= 2 ^ disturbed
    BY <1>4 DEF Bounded
  <2>2. CASE /\ UNCHANGED disturbed
             /\ delivered'[r] + Owed(r)' <= delivered[r] + Owed(r)
    BY <1>1, <1>2, <2>1, <2>2
  <2>3. CASE /\ Disturb
             /\ delivered'[r] + Owed(r)' <= 2 * (delivered[r] + Owed(r))
    <3>1. 2 ^ disturbed' = 2 * 2 ^ disturbed
      BY <1>2, <2>3 DEF Disturb
    <3> QED BY <1>1, <1>2, <2>1, <2>3, <3>1
  <2> QED BY <1>4, <2>2, <2>3
<1> QED BY <1>3, <1>4 DEF Bounded


-----------------------------------------------------------------------------
(* What may still be sent                                                  *)

(* Steps that leave the workers alone leave their counts alone.            *)
LEMMA SameHands ==
  ASSUME UNCHANGED <<hand, stage>>
  PROVE  \A r : Sends(r)' = Sends(r) /\ Sent(r)' = Sent(r)
BY DEF Sends, Sent

(* A step of the dispatcher moves what is owed, or pays for a copy with a  *)
(* disturbance,                                                            *)
LEMMA DispatcherBound ==
  ASSUME TypeOK, TypeOK', ModeInv, PlaceInv, CopyInv, DispatcherStep, NEW r \in Reminder
  PROVE  Bounded(r)'
<1>types. /\ batch \subseteq Reminder /\ queue \in [Reminder -> Nat]
          /\ job \in [Reminder -> {"none", "scheduled", "queued", "done", "failed"}]
          /\ mode \in {"queue", "direct"}
          /\ Bounded(r)
  BY DEF TypeOK, CopyInv
<1>1. mode = "queue" /\ UNCHANGED <<mode, reaches, delivered, hand, stage>>
  BY DEF DispatcherStep, ClaimDueJobs, Push, FailPush, MarkPush, ModeInv, TypeOK,
         settings, execution
<1>2. /\ Sends(r)' = Sends(r) /\ Sent(r)' = Sent(r)
      /\ Cardinality(Sends(r)) \in Nat
      /\ Claimed(r) \in {0, 1} /\ Awaited(r) \in {0, 1}
      /\ Claimed(r)' \in {0, 1} /\ Awaited(r)' \in {0, 1}
      /\ queue[r] \in Nat /\ queue'[r] \in Nat /\ delivered[r] \in Nat
  BY <1>1, SameHands, Counts, CountsNext, OwedType
<1>3. ASSUME \/ /\ UNCHANGED disturbed \/ Disturb
                /\ queue'[r] + Claimed(r)' + Awaited(r)' <= queue[r] + Claimed(r) + Awaited(r)
             \/ /\ Disturb /\ Claimed(r) = 1
                /\ queue'[r] + Claimed(r)' + Awaited(r)' <= queue[r] + Claimed(r) + Awaited(r) + 1
      PROVE  Bounded(r)'
  <2>1. /\ Owed(r) = queue[r] + Cardinality(Sends(r)) + Claimed(r) + Awaited(r)
        /\ Owed(r)' = queue'[r] + Cardinality(Sends(r)) + Claimed(r)' + Awaited(r)'
    BY <1>1, <1>2 DEF Owed
  <2>2. r \in reaches => Cardinality(Sent(r)') <= delivered'[r]
    BY <1>types, <1>1, <1>2 DEF Bounded
  <2>3. \/ /\ UNCHANGED disturbed
           /\ delivered'[r] + Owed(r)' <= delivered[r] + Owed(r)
        \/ /\ Disturb
           /\ delivered'[r] + Owed(r)' <= 2 * (delivered[r] + Owed(r))
    BY <1>1, <1>2, <1>3, <2>1
  <2> QED BY <1>types, <1>1, <2>2, <2>3, KeepsBound
<1>4. ASSUME NEW reply, ClaimDueJobs(reply) PROVE Bounded(r)'
  <2>1. /\ queue' = queue /\ batch = {} /\ pushing = "push" /\ pushing' = "push"
        /\ batch' \in {DueJobs, {}}
        /\ UNCHANGED disturbed \/ Disturb
        /\ job' = [s \in Reminder |-> IF s \in DueJobs THEN "queued" ELSE job[s]]
    BY <1>4, <1>types DEF ClaimDueJobs, Call, PlaceInv
  <2>2. CASE r \in DueJobs
    <3>1. Awaited(r) = 1 /\ Awaited(r)' = 0
      BY <2>1, <2>2 DEF DueJobs, Awaited
    <3> QED BY <1>2, <1>3, <2>1, <3>1
  <2>3. CASE r \notin DueJobs
    <3>1. Awaited(r)' = Awaited(r) /\ Claimed(r) = 0 /\ Claimed(r)' = 0
      BY <2>1, <2>3 DEF Awaited, Claimed
    <3> QED BY <1>2, <1>3, <2>1, <3>1
  <2> QED BY <2>2, <2>3
<1>5. ASSUME NEW reply, Push(reply) PROVE Bounded(r)'
  <2>1. /\ Least(batch) \in batch /\ Least(batch) \in Reminder /\ pushing = "push"
        /\ UNCHANGED <<job, mode>> /\ Awaited(r)' = Awaited(r)
        /\ UNCHANGED disturbed \/ Disturb
    BY <1>5, <1>types, <1>1, LeastIsIn DEF Push, Call, tables, Awaited
  <2>2. CASE r # Least(batch)
    <3>1. queue'[r] = queue[r]
      BY <1>5, <1>types, <2>1, <2>2 DEF Push
    <3>2. r \in batch' <=> r \in batch
      BY <1>5, <2>2 DEF Push
    <3>3. Claimed(r)' <= Claimed(r)
      BY <2>1, <2>2, <3>2 DEF Claimed
    <3> QED BY <1>2, <1>3, <2>1, <3>1, <3>3
  <2>3. CASE r = Least(batch)
    <3>1. Claimed(r) = 1
      BY <2>1, <2>3 DEF Claimed
    <3>2. CASE reply = "ok"
      <4>1. queue'[r] = queue[r] + 1 /\ r \notin batch'
        BY <1>5, <1>types, <2>1, <2>3, <3>2 DEF Push, TakesEffect
      <4>2. Claimed(r)' = 0
        BY <4>1 DEF Claimed
      <4> QED BY <1>2, <1>3, <2>1, <3>1, <4>1, <4>2
    <3>3. CASE reply # "ok"
      <4>1. queue'[r] \in {queue[r], queue[r] + 1} /\ Disturb
        BY <1>5, <1>types, <2>1, <2>3, <3>3 DEF Push, Call
      <4> QED BY <1>2, <1>3, <2>1, <3>1, <4>1
    <3> QED BY <3>2, <3>3
  <2> QED BY <2>2, <2>3
<1>6. ASSUME NEW reply, FailPush(reply) PROVE Bounded(r)'
  <2>1. /\ Least(batch) \in batch /\ Least(batch) \in Reminder
        /\ pushing = "fail" /\ pushing' = "mark" /\ UNCHANGED <<batch, queue>>
        /\ UNCHANGED disturbed \/ Disturb
        /\ \A s \in Reminder : s # Least(batch) => job'[s] = job[s]
    BY <1>6, <1>types, LeastIsIn DEF FailPush, Call, FailJob
  <2>2. CASE r # Least(batch)
    <3>1. Awaited(r)' = Awaited(r) /\ Claimed(r)' <= Claimed(r)
      BY <2>1, <2>2 DEF Awaited, Claimed
    <3> QED BY <1>2, <1>3, <2>1, <3>1
  <2>3. CASE r = Least(batch)
    <3>1. Claimed(r) = 1 /\ Claimed(r)' = 0
      BY <2>1, <2>3 DEF Claimed
    <3> QED BY <1>2, <1>3, <2>1, <3>1
  <2> QED BY <2>2, <2>3
<1>7. ASSUME NEW reply, MarkPush(reply) PROVE Bounded(r)'
  <2>1. /\ pushing = "mark" /\ pushing' = "push" /\ batch' = batch \ {Least(batch)}
        /\ UNCHANGED <<job, queue>>
        /\ UNCHANGED disturbed \/ Disturb
    BY <1>7 DEF MarkPush, Call
  <2>2. Claimed(r)' = Claimed(r) /\ Awaited(r)' = Awaited(r)
    BY <2>1 DEF Claimed, Awaited
  <2> QED BY <1>2, <1>3, <2>1, <2>2
<1> QED BY <1>4, <1>5, <1>6, <1>7 DEF DispatcherStep

(* and so does a step of an executor,                                      *)
LEMMA ExecutorBound ==
  ASSUME TypeOK, TypeOK', ModeInv, PlaceInv, CopyInv, NEW w \in Workers, ExecutorStep(w),
         NEW r \in Reminder
  PROVE  Bounded(r)'
<1>types. /\ batch \subseteq Reminder /\ queue \in [Reminder -> Nat]
          /\ job \in [Reminder -> {"none", "scheduled", "queued", "done", "failed"}]
          /\ hand \in [Workers -> Reminder \union {Nobody}]
          /\ stage \in [Workers -> {"send", "markSent", "complete", "markFailed", "fail"}]
          /\ delivered \in [Reminder -> Nat]
          /\ mode \in {"queue", "direct"}
  BY DEF TypeOK
<1>some. Nobody \notin Reminder
  BY Somebody
<1>bound. /\ Bounded(r)
          /\ mode = "direct" =>
               /\ \A v, x \in Workers : hand[v] # Nobody /\ hand[x] # Nobody => v = x
               /\ \A s \in Reminder : InHand(s) \/ s \in batch => job[s] = "scheduled"
  BY DEF CopyInv, PlaceInv
<1>counts. /\ IsFiniteSet(Sends(r)) /\ IsFiniteSet(Sent(r))
           /\ Cardinality(Sends(r)) \in Nat /\ Cardinality(Sends(r)') \in Nat
           /\ Cardinality(Sent(r)) \in Nat /\ Cardinality(Sent(r)') \in Nat
           /\ Claimed(r) \in {0, 1} /\ Awaited(r) \in {0, 1}
           /\ Claimed(r)' \in {0, 1} /\ Awaited(r)' \in {0, 1}
           /\ queue[r] \in Nat /\ queue'[r] \in Nat
           /\ delivered[r] \in Nat /\ delivered'[r] \in Nat
  BY Counts, CountsNext, OwedType
<1>others. ASSUME \A v \in Workers : v # w => hand'[v] = hand[v] /\ stage'[v] = stage[v]
           PROVE  /\ Cardinality(Sends(r)') =
                       Cardinality(Sends(r)) + (IF w \in Sends(r)' THEN 1 ELSE 0)
                                             - (IF w \in Sends(r) THEN 1 ELSE 0)
                  /\ Cardinality(Sent(r)') =
                       Cardinality(Sent(r)) + (IF w \in Sent(r)' THEN 1 ELSE 0)
                                            - (IF w \in Sent(r) THEN 1 ELSE 0)
  BY <1>others, OneMoves
<1>some_sent. w \in Sent(r) => Cardinality(Sent(r)) >= 1
  BY <1>counts, FS_EmptySet
<1>some_sends. w \in Sends(r) => Cardinality(Sends(r)) >= 1
  BY <1>counts, FS_EmptySet
<1>1. CASE TakeJob(w)
  <2>1. /\ hand[w] = Nobody /\ stage' = [stage EXCEPT ![w] = "send"]
        /\ \A v \in Workers : v # w => hand'[v] = hand[v] /\ stage'[v] = stage[v]
        /\ UNCHANGED <<mode, reaches, job, pushing, delivered, disturbed>>
    BY <1>1, <1>types DEF TakeJob, settings, tables
  <2>2. w \notin Sends(r) /\ w \notin Sent(r) /\ w \notin Sent(r)'
    BY <2>1, <1>types, <1>some DEF Sends, Sent
  <2>3. Cardinality(Sent(r)') = Cardinality(Sent(r)) /\ Awaited(r)' = Awaited(r)
    BY <2>1, <2>2, <1>others, <1>counts DEF Awaited
  <2>4. CASE mode = "direct"
    <3>1. Sent(r)' = Sent(r)
      BY <2>1, <2>2 DEF Sent
    <3>2. Owed(r)' = Owed(r)
      <4>1. queue' = queue
        BY <1>1, <2>4 DEF TakeJob
      <4> QED BY <4>1, <2>1, <2>3, <2>4, <3>1 DEF Owed
    <3> QED BY <1>bound, <1>counts, <2>1, <2>3, <3>2, OwedType, KeepsBound DEF Bounded
  <2>5. CASE mode = "queue"
    <3>1. PICK s \in Reminder : /\ queue[s] > 0 /\ queue' = [queue EXCEPT ![s] = @ - 1]
                                /\ hand' = [hand EXCEPT ![w] = s] /\ batch' = batch
      BY <1>1, <2>5 DEF TakeJob
    <3>2. Claimed(r)' = Claimed(r)
      BY <2>1, <3>1 DEF Claimed
    <3>3. queue'[r] + Cardinality(Sends(r)') <= queue[r] + Cardinality(Sends(r))
      <4>1. CASE r = s
        <5>1. queue'[r] = queue[r] - 1
          BY <3>1, <4>1, <1>types
        <5> QED BY <5>1, <2>1, <2>2, <1>others, <1>counts
      <4>2. CASE r # s
        <5>1. queue'[r] = queue[r] /\ w \notin Sends(r)'
          BY <3>1, <4>2, <1>types DEF Sends
        <5> QED BY <5>1, <2>1, <2>2, <1>others, <1>counts
      <4> QED BY <4>1, <4>2
    <3>4. Owed(r)' <= Owed(r)
      BY <2>1, <2>3, <2>5, <3>2, <3>3, <1>counts DEF Owed
    <3> QED BY <1>bound, <1>counts, <2>1, <2>3, <3>4, OwedType, KeepsBound DEF Bounded
  <2> QED BY <2>4, <2>5, <1>types
<1>2. ASSUME NEW reply \in Replies, Send(w, reply) PROVE Bounded(r)'
  <2>1. /\ hand[w] \in Reminder /\ stage[w] = "send" /\ hand' = hand
        /\ stage' = [stage EXCEPT ![w] = IF reply = "ok" THEN "markSent" ELSE "markFailed"]
        /\ \A v \in Workers : v # w => hand'[v] = hand[v] /\ stage'[v] = stage[v]
        /\ UNCHANGED <<mode, reaches, job, batch, queue, pushing>>
        /\ reply = "lost" => Disturb
        /\ reply # "lost" => UNCHANGED disturbed
    BY <1>2, <1>types DEF Send, GoTo, settings, tables, dispatch
  <2>2. /\ hand[w] \notin reaches => delivered' = delivered
        /\ reply = "refused" => delivered' = delivered
        /\ hand[w] \in reaches /\ reply # "refused" => delivered' = [delivered EXCEPT ![hand[w]] = @ + 1]
    BY <1>2 DEF Send, TakesEffect
  <2>3. Claimed(r)' = Claimed(r) /\ Awaited(r)' = Awaited(r)
    BY <2>1 DEF Claimed, Awaited
  <2>4. w \notin Sent(r)
    BY <2>1 DEF Sent
  <2>5. CASE hand[w] # r
    <3>1. Sends(r)' = Sends(r) /\ Sent(r)' = Sent(r)
      BY <2>1, <2>5 DEF Sends, Sent
    <3>2. delivered'[r] = delivered[r]
      BY <2>2, <2>5, <1>types, <2>1
    <3>3. Owed(r)' = Owed(r)
      BY <2>1, <2>3, <3>1 DEF Owed
    <3> QED BY <1>bound, <1>counts, <2>1, <3>1, <3>2, <3>3, OwedType, KeepsBound DEF Bounded
  <2>6. CASE hand[w] = r /\ reply = "ok"
    <3>1. w \in Sends(r) /\ w \notin Sends(r)' /\ w \in Sent(r)'
      BY <2>1, <2>6, <1>types DEF Sends, Sent
    <3>2. /\ Cardinality(Sends(r)') = Cardinality(Sends(r)) - 1
          /\ Cardinality(Sent(r)') = Cardinality(Sent(r)) + 1
      BY <2>1, <2>4, <3>1, <1>others, <1>counts
    <3>3. r \in reaches => delivered'[r] = delivered[r] + 1
      BY <2>2, <2>6, <1>types
    <3>4. r \notin reaches => delivered'[r] = delivered[r]
      BY <2>2, <2>6
    <3>5. Owed(r)' <= Owed(r) - 1
      <4>1. CASE mode = "direct"
        <5>1. Sent(r) = {}
          BY <4>1, <2>1, <2>4, <2>6, <1>bound, <1>some DEF Sent
        <5>2. Awaited(r) = 1
          BY <4>1, <2>1, <2>6, <1>bound DEF Awaited, InHand
        <5> QED BY <4>1, <5>1, <5>2, <2>1, <3>1, <1>counts DEF Owed
      <4>2. CASE mode = "queue"
        BY <4>2, <2>1, <2>3, <3>2, <1>counts DEF Owed
      <4> QED BY <4>1, <4>2, <1>types
    <3>6. r \in reaches => /\ Cardinality(Sent(r)') <= delivered'[r]
                      /\ delivered'[r] + Owed(r)' <= delivered[r] + Owed(r)
      BY <1>bound, <1>counts, <3>2, <3>3, <3>5, OwedType DEF Bounded
    <3> QED BY <1>bound, <2>1, <2>6, <3>4, <3>6, KeepsBound
  <2>7. CASE hand[w] = r /\ reply # "ok"
    <3>1. w \in Sends(r) /\ w \in Sends(r)' /\ w \notin Sent(r)'
      BY <2>1, <2>7, <1>types DEF Sends, Sent
    <3>2. /\ Cardinality(Sends(r)') = Cardinality(Sends(r))
          /\ Cardinality(Sent(r)') = Cardinality(Sent(r))
          /\ Sent(r)' = Sent(r)
      <4>1. Sent(r)' = Sent(r)
        BY <2>1, <2>4, <3>1 DEF Sent
      <4> QED BY <2>1, <2>4, <3>1, <4>1, <1>others, <1>counts
    <3>3. Owed(r)' = Owed(r)
      BY <2>1, <2>3, <3>2 DEF Owed
    <3>4. Owed(r) >= 1
      <4>1. CASE mode = "direct"
        <5>1. Sent(r) = {}
          BY <4>1, <2>1, <2>4, <2>7, <1>bound, <1>some DEF Sent
        <5>2. Awaited(r) = 1
          BY <4>1, <2>1, <2>7, <1>bound DEF Awaited, InHand
        <5> QED BY <4>1, <5>1, <5>2, <1>counts DEF Owed
      <4>2. CASE mode = "queue"
        BY <4>2, <3>1, <1>some_sends, <1>counts DEF Owed
      <4> QED BY <4>1, <4>2, <1>types
    <3>5. /\ r \notin reaches => delivered'[r] = delivered[r]
          /\ reply = "refused" => delivered'[r] = delivered[r]
          /\ delivered'[r] \in {delivered[r], delivered[r] + 1}
      BY <2>2, <2>7, <1>types
    <3>6. reply = "refused" \/ reply = "lost"
      BY <2>7 DEF Replies
    <3>7. r \in reaches => Cardinality(Sent(r)') <= delivered'[r]
      BY <1>bound, <1>counts, <3>2, <3>5 DEF Bounded
    <3>8. \/ UNCHANGED disturbed /\ delivered'[r] + Owed(r)' <= delivered[r] + Owed(r)
          \/ Disturb /\ delivered'[r] + Owed(r)' <= 2 * (delivered[r] + Owed(r))
      BY <2>1, <3>3, <3>4, <3>5, <3>6, <1>counts, OwedType
    <3> QED BY <1>bound, <2>1, <3>5, <3>7, <3>8, KeepsBound
  <2> QED BY <2>5, <2>6, <2>7
<1>3. ASSUME NEW reply, MarkReminder(w, reply) PROVE Bounded(r)'
  <2>1. /\ hand' = hand /\ stage[w] \in {"markSent", "markFailed"}
        /\ stage' = [stage EXCEPT ![w] = IF stage[w] = "markSent" THEN "complete" ELSE "fail"]
        /\ UNCHANGED <<mode, reaches, job, batch, queue, pushing, delivered>>
        /\ UNCHANGED disturbed \/ Disturb
    BY <1>3 DEF MarkReminder, GoTo, Call, settings, dispatch
  <2>2. Sends(r)' = Sends(r) /\ Sent(r)' = Sent(r)
    BY <2>1, <1>types DEF Sends, Sent
  <2>3. Owed(r)' = Owed(r)
    BY <2>1, <2>2 DEF Owed, Claimed, Awaited
  <2> QED BY <1>bound, <1>counts, <2>1, <2>2, <2>3, OwedType, KeepsBound DEF Bounded
<1>4. ASSUME NEW reply, CompleteJob(w, reply) PROVE Bounded(r)'
  <2>1. /\ hand[w] \in Reminder /\ stage[w] = "complete" /\ hand' = [hand EXCEPT ![w] = Nobody]
        /\ \A v \in Workers : v # w => hand'[v] = hand[v] /\ stage'[v] = stage[v]
        /\ UNCHANGED <<mode, reaches, batch, queue, pushing, delivered>>
        /\ UNCHANGED disturbed \/ Disturb
        /\ \/ UNCHANGED disturbed /\ job' = [job EXCEPT ![hand[w]] = "done"]
           \/ Disturb /\ job' \in {job, [job EXCEPT ![hand[w]] = "done"]}
    BY <1>4, <1>types DEF CompleteJob, LetGo, GoTo, Call, TakesEffect, settings, dispatch
  <2>2. w \notin Sends(r) /\ w \notin Sends(r)' /\ w \notin Sent(r)'
    BY <2>1, <1>types, <1>some DEF Sends, Sent
  <2>3. Sends(r)' = Sends(r) /\ Sent(r)' = Sent(r) \ {w}
    BY <2>1, <2>2 DEF Sends, Sent
  <2>4. Cardinality(Sent(r)') <= Cardinality(Sent(r))
    BY <2>1, <2>2, <1>others, <1>counts
  <2>5. Claimed(r)' = Claimed(r) /\ Awaited(r)' <= Awaited(r)
    BY <2>1, <1>types DEF Claimed, Awaited
  <2>6. ASSUME r \in reaches
        PROVE  \/ UNCHANGED disturbed /\ delivered'[r] + Owed(r)' <= delivered[r] + Owed(r)
               \/ Disturb /\ delivered'[r] + Owed(r)' <= 2 * (delivered[r] + Owed(r))
    <3>1. CASE mode = "queue" \/ hand[w] # r
      <4>1. CASE mode = "queue"
        <5>1. Owed(r)' <= Owed(r)
          BY <4>1, <2>1, <2>3, <2>5, <1>counts DEF Owed
        <5> QED BY <5>1, <2>1, <1>counts, OwedType
      <4>2. CASE mode = "direct" /\ hand[w] # r
        <5>1. Sent(r)' = Sent(r)
          BY <4>2, <2>3 DEF Sent
        <5>2. Owed(r)' <= Owed(r)
          BY <4>2, <5>1, <2>1, <2>5, <1>counts DEF Owed
        <5> QED BY <5>2, <2>1, <1>counts, OwedType
      <4> QED BY <3>1, <4>1, <4>2, <1>types
    <3>2. CASE mode = "direct" /\ hand[w] = r
      <4>2. w \in Sent(r)
        BY <3>2, <2>1 DEF Sent
      <4>1. /\ Owed(r) = queue[r] /\ Owed(r)' <= queue[r] + Awaited(r)'
            /\ delivered'[r] = delivered[r]
        BY <3>2, <4>2, <2>1, <1>counts DEF Owed
      <4>3. delivered[r] >= 1
        BY <4>2, <2>6, <1>some_sent, <1>bound, <1>counts DEF Bounded
      <4>4. CASE UNCHANGED disturbed /\ job' = [job EXCEPT ![hand[w]] = "done"]
        <5>1. Awaited(r)' = 0
          BY <3>2, <4>4, <1>types DEF Awaited
        <5> QED BY <4>1, <4>4, <5>1, <1>counts, OwedType
      <4>5. CASE Disturb
        BY <4>1, <4>3, <4>5, <1>counts, OwedType
      <4> QED BY <2>1, <4>4, <4>5
    <3> QED BY <3>1, <3>2, <1>types
  <2>7. r \in reaches => Cardinality(Sent(r)') <= delivered'[r]
    BY <1>bound, <1>counts, <2>1, <2>4 DEF Bounded
  <2> QED BY <1>bound, <2>1, <2>6, <2>7, KeepsBound
<1>5. ASSUME NEW reply, NEW again \in BOOLEAN, FailAttempt(w, reply, again)
      PROVE  Bounded(r)'
  <2>1. /\ hand[w] \in Reminder /\ stage[w] = "fail" /\ hand' = [hand EXCEPT ![w] = Nobody]
        /\ \A v \in Workers : v # w => hand'[v] = hand[v] /\ stage'[v] = stage[v]
        /\ UNCHANGED <<mode, reaches, pushing, delivered>>
        /\ UNCHANGED disturbed \/ Disturb
        /\ again => Disturb /\ mode = "queue"
        /\ mode = "queue" => batch' = batch
    BY <1>5, <1>types DEF FailAttempt, LetGo, GoTo, Call, settings
  <2>2. /\ \A s \in Reminder : s # hand[w] => job'[s] = job[s] /\ queue'[s] = queue[s]
        /\ queue'[hand[w]] = IF again THEN queue[hand[w]] + 1 ELSE queue[hand[w]]
    BY <1>5, <2>1, <1>types DEF FailAttempt, FailJob
  <2>3. w \notin Sent(r) /\ w \notin Sends(r)' /\ w \notin Sent(r)'
    BY <2>1, <1>types, <1>some DEF Sends, Sent
  <2>4. Sent(r)' = Sent(r)
    BY <2>1, <2>3 DEF Sent
  <2>5. r \in reaches => Cardinality(Sent(r)') <= delivered'[r]
    BY <1>bound, <2>1, <2>4 DEF Bounded
  <2>6. CASE mode = "direct"
    <3>1. Awaited(r)' <= Awaited(r)
      <4>1. CASE r = hand[w]
        BY <4>1, <2>1, <2>6, <1>bound, <1>counts DEF Awaited, InHand
      <4>2. CASE r # hand[w]
        BY <4>2, <2>2, <1>counts DEF Awaited
      <4> QED BY <4>1, <4>2
    <3>2. Owed(r)' <= Owed(r)
      <4>1. queue'[r] = queue[r]
        BY <2>1, <2>2, <2>6
      <4> QED BY <4>1, <2>1, <2>4, <2>6, <3>1, <1>counts DEF Owed
    <3> QED BY <1>bound, <1>counts, <2>1, <2>5, <3>2, OwedType, KeepsBound
  <2>7. CASE mode = "queue" /\ r # hand[w]
    <3>1. Sends(r)' = Sends(r)
      BY <2>1, <2>3, <2>7 DEF Sends
    <3>2. Claimed(r)' = Claimed(r) /\ Awaited(r)' = Awaited(r) /\ queue'[r] = queue[r]
      BY <2>1, <2>2, <2>7 DEF Claimed, Awaited
    <3>3. Owed(r)' = Owed(r)
      BY <2>1, <2>7, <3>1, <3>2 DEF Owed
    <3> QED BY <1>bound, <1>counts, <2>1, <2>5, <3>3, OwedType, KeepsBound
  <2>8. CASE mode = "queue" /\ r = hand[w]
    <3>1. w \in Sends(r)
      BY <2>1, <2>8 DEF Sends
    <3>2. Cardinality(Sends(r)') = Cardinality(Sends(r)) - 1
      BY <2>1, <2>3, <3>1, <1>others, <1>counts
    <3>3. Claimed(r)' = Claimed(r)
      BY <2>1, <2>8 DEF Claimed
    <3>4. CASE again
      <4>1. Owed(r)' <= Owed(r) + 1 /\ Owed(r) >= 1
        BY <2>1, <2>2, <2>8, <3>1, <3>2, <3>3, <3>4, <1>counts, <1>some_sends DEF Owed
      <4> QED BY <1>bound, <1>counts, <2>1, <2>5, <3>4, <4>1, OwedType, KeepsBound
    <3>5. CASE ~again
      <4>1. Owed(r)' <= Owed(r)
        BY <2>1, <2>2, <2>8, <3>2, <3>3, <3>5, <1>counts DEF Owed
      <4> QED BY <1>bound, <1>counts, <2>1, <2>5, <4>1, OwedType, KeepsBound
    <3> QED BY <3>4, <3>5
  <2> QED BY <2>6, <2>7, <2>8, <1>types
<1> QED BY <1>1, <1>2, <1>3, <1>4, <1>5 DEF ExecutorStep

(* and a restart: what is handed out again was in a hand.                  *)
LEMMA RestartBound ==
  ASSUME TypeOK, TypeOK', CopyInv, Restart, NEW r \in Reminder
  PROVE  Bounded(r)'
<1>types. /\ hand \in [Workers -> Reminder \union {Nobody}]
          /\ stage \in [Workers -> {"send", "markSent", "complete", "markFailed", "fail"}]
          /\ mode \in {"queue", "direct"}
  BY DEF TypeOK
<1>counts. /\ IsFiniteSet(Sends(r)) /\ IsFiniteSet(Sent(r))
           /\ Cardinality(Sends(r)) \in Nat /\ Cardinality(Sent(r)) \in Nat
           /\ Claimed(r) \in {0, 1} /\ Awaited(r) \in {0, 1}
           /\ queue[r] \in Nat /\ delivered[r] \in Nat
           /\ Bounded(r)
  BY Counts, CountsNext, OwedType DEF CopyInv
<1>1. /\ UNCHANGED <<reaches, job, delivered>> /\ Disturb
      /\ batch' = {} /\ hand' = [w \in Workers |-> Nobody]
  BY DEF Restart, tables
<1>2. Sends(r)' = {} /\ Sent(r)' = {} /\ Claimed(r)' = 0 /\ Awaited(r)' = Awaited(r)
  BY <1>1, Somebody DEF Sends, Sent, Claimed, Awaited
<1>3. Cardinality(Sends(r)') = 0 /\ Cardinality(Sent(r)') = 0
  BY <1>2, FS_EmptySet
<1>4. PICK again \in SUBSET {w \in Workers : mode = "queue" /\ hand[w] # Nobody} :
        queue' = [s \in Reminder |-> queue[s] + Cardinality({w \in again : hand[w] = s})]
  BY DEF Restart
<1> DEFINE back == {w \in again : hand[w] = r}
<1>5. Cardinality(back) \in Nat /\ Cardinality(back) <= Cardinality(Sends(r)) + Cardinality(Sent(r))
  <2>1. back \subseteq Sends(r) \cup Sent(r)
    BY <1>types DEF Sends, Sent
  <2>2. Sends(r) \cap Sent(r) = {}
    BY DEF Sends, Sent
  <2>3. /\ IsFiniteSet(Sends(r) \cup Sent(r))
        /\ Cardinality(Sends(r) \cup Sent(r)) = Cardinality(Sends(r)) + Cardinality(Sent(r))
    <3>1. \A A, B : IsFiniteSet(A) /\ IsFiniteSet(B) =>
            /\ IsFiniteSet(A \cup B)
            /\ Cardinality(A \cup B) = Cardinality(A) + Cardinality(B) - Cardinality(A \cap B)
      BY FS_Union
    <3>2. Cardinality(Sends(r) \cap Sent(r)) = 0
      BY <2>2, FS_EmptySet
    <3> QED BY <3>1, <3>2, <1>counts
  <2> HIDE DEF back
  <2> QED BY <2>1, <2>3, FS_Subset, FS_CardinalityType
<1>6. queue'[r] = queue[r] + Cardinality(back)
  BY <1>4
<1> HIDE DEF back
<1>7. ASSUME r \in reaches PROVE delivered'[r] + Owed(r)' <= 2 * (delivered[r] + Owed(r))
  <2>1. Cardinality(Sent(r)) <= delivered[r]
    BY <1>7, <1>counts DEF Bounded
  <2>0. Owed(r)' = queue[r] + Cardinality(back) + Awaited(r)
    BY <1>2, <1>3, <1>5, <1>6, <1>counts DEF Owed
  <2>2. CASE mode = "queue"
    BY <2>0, <2>1, <2>2, <1>1, <1>5, <1>counts DEF Owed
  <2>3. CASE mode = "direct"
    <3>1. Owed(r)' = queue[r] + Awaited(r)
      <4>1. back = {}
        BY <2>3 DEF back
      <4> QED BY <4>1, <2>0, <1>counts, FS_EmptySet
    <3>2. CASE Sent(r) = {}
      BY <2>3, <3>1, <3>2, <1>1, <1>counts DEF Owed
    <3>3. CASE Sent(r) # {}
      <4>1. Cardinality(Sent(r)) # 0
        BY <3>3, <1>counts, FS_EmptySet
      <4>2. Owed(r) = queue[r]
        BY <2>3, <3>3, <1>counts DEF Owed
      <4> QED BY <2>1, <3>1, <4>1, <4>2, <1>1, <1>counts
    <3> QED BY <3>2, <3>3
  <2> QED BY <2>2, <2>3, <1>types
<1>8. r \in reaches => Cardinality(Sent(r)') <= delivered'[r]
  BY <1>1, <1>3, <1>counts
<1> QED BY <1>1, <1>7, <1>8, <1>counts, KeepsBound

(* The end of a worker hands out at most what was in its hand.             *)
LEMMA EndBound ==
  ASSUME TypeOK, TypeOK', CopyInv, NEW w \in Workers, WorkerEnds(w), NEW r \in Reminder
  PROVE  Bounded(r)'
<1>types. /\ hand \in [Workers -> Reminder \union {Nobody}]
          /\ stage \in [Workers -> {"send", "markSent", "complete", "markFailed", "fail"}]
          /\ queue \in [Reminder -> Nat] /\ Nobody \notin Reminder
  BY Somebody DEF TypeOK
<1>counts. /\ IsFiniteSet(Sends(r)) /\ IsFiniteSet(Sent(r))
           /\ Cardinality(Sends(r)) \in Nat /\ Cardinality(Sent(r)) \in Nat
           /\ Cardinality(Sends(r)') \in Nat /\ Cardinality(Sent(r)') \in Nat
           /\ Claimed(r) \in {0, 1} /\ Awaited(r) \in {0, 1}
           /\ queue[r] \in Nat /\ queue'[r] \in Nat /\ delivered[r] \in Nat
           /\ Bounded(r)
  BY Counts, CountsNext, OwedType DEF CopyInv
<1>1. /\ mode = "queue" /\ Disturb /\ hand'[w] = Nobody
      /\ \A v \in Workers : v # w => hand'[v] = hand[v] /\ stage'[v] = stage[v]
      /\ UNCHANGED <<mode, reaches, job, batch, pushing, delivered>>
      /\ \/ queue' = queue
         \/ hand[w] # Nobody /\ queue' = [queue EXCEPT ![hand[w]] = @ + 1]
  BY <1>types DEF WorkerEnds, LetGo, GoTo, tables
<1>2. w \notin Sends(r)' /\ w \notin Sent(r)'
  BY <1>1, <1>types DEF Sends, Sent
<1>3. Claimed(r)' = Claimed(r) /\ Awaited(r)' = Awaited(r)
  BY <1>1 DEF Claimed, Awaited
<1>4. /\ Cardinality(Sends(r)') = Cardinality(Sends(r)) - (IF w \in Sends(r) THEN 1 ELSE 0)
      /\ Cardinality(Sent(r)') = Cardinality(Sent(r)) - (IF w \in Sent(r) THEN 1 ELSE 0)
  BY <1>1, <1>2, <1>counts, OneMoves
<1>5. /\ queue'[r] \in {queue[r], queue[r] + 1}
      /\ queue'[r] # queue[r] => w \in Sends(r) \/ w \in Sent(r)
  BY <1>1, <1>types DEF Sends, Sent
<1>6. w \in Sent(r) => Cardinality(Sent(r)) >= 1
  BY <1>counts, FS_EmptySet
<1>7. /\ Owed(r) = queue[r] + Cardinality(Sends(r)) + Claimed(r) + Awaited(r)
      /\ Owed(r)' = queue'[r] + Cardinality(Sends(r)') + Claimed(r) + Awaited(r)
  BY <1>1, <1>3, <1>counts DEF Owed
<1>8. ASSUME r \in reaches
      PROVE  /\ Cardinality(Sent(r)') <= delivered'[r]
             /\ delivered'[r] + Owed(r)' <= 2 * (delivered[r] + Owed(r))
  <2>1. Cardinality(Sent(r)) <= delivered[r]
    BY <1>8, <1>counts DEF Bounded
  <2>2. w \notin Sends(r) \/ w \notin Sent(r)
    BY DEF Sends, Sent
  <2> QED BY <2>1, <2>2, <1>1, <1>4, <1>5, <1>6, <1>7, <1>counts
<1> QED BY <1>1, <1>8, <1>counts, KeepsBound

(* Every other step moves nothing.                                         *)
LEMMA NextBound ==
  ASSUME TypeOK, TypeOK', ModeInv, PlaceInv, CopyInv, [Next]_vars, NEW r \in Reminder
  PROVE  Bounded(r)'
<1>0. Bounded(r) /\ batch \subseteq Reminder
  BY DEF CopyInv, TypeOK
<1>1. ASSUME (\E s \in Reminder : ComeDue(s)) \/ Rest \/ UNCHANGED vars
      PROVE  Bounded(r)'
  <2>1. UNCHANGED <<mode, reaches, hand, stage, batch, pushing, queue, job, delivered, disturbed>>
    BY <1>1 DEF ComeDue, Rest, vars, settings, tables, dispatch, execution
  <2>2. Sends(r)' = Sends(r) /\ Sent(r)' = Sent(r)
    BY <2>1, SameHands
  <2>3. Owed(r)' = Owed(r)
    BY <2>1, <2>2 DEF Owed, Claimed, Awaited
  <2> QED BY <1>0, <2>1, <2>2, <2>3, OwedType, KeepsBound DEF Bounded
<1>3. ASSUME NEW s \in Reminder, CreateReminder(s) PROVE Bounded(r)'
  <2>1. /\ UNCHANGED <<mode, hand, stage, batch, pushing, queue, delivered, disturbed>>
        /\ status[s] = "none" /\ job' = [job EXCEPT ![s] = "scheduled"]
        /\ r # s => (r \in reaches' <=> r \in reaches)
    BY <1>3 DEF CreateReminder, dispatch, execution
  <2>2. job[s] = "none" /\ ~Working(s)
    BY <2>1 DEF PlaceInv
  <2>3. Sends(r)' = Sends(r) /\ Sent(r)' = Sent(r)
    BY <2>1, SameHands
  <2>4. Owed(r)' = Owed(r)
    BY <2>1, <2>2, <2>3 DEF Owed, Claimed, Awaited, TypeOK
  <2>5. CASE r \in reaches' <=> r \in reaches
    BY <1>0, <2>1, <2>3, <2>4, <2>5, OwedType, KeepsBound DEF Bounded
  <2>6. CASE r = s /\ r \notin reaches
    <3>1. Sends(r) = {} /\ Sent(r) = {} /\ queue[r] = 0 /\ r \notin batch
      BY <2>2, <2>6, OwedType DEF Sends, Sent, Working, InHand
    <3>2. Owed(r) = 1 /\ Cardinality(Sent(r)) = 0
      BY <3>1, <2>2, <2>6, FS_EmptySet DEF Owed, Claimed, Awaited
    <3>3. delivered[r] = 0 /\ 2 ^ disturbed >= 1 /\ 2 ^ disturbed \in Nat
      BY <1>0, <2>6, OwedType, Doubles DEF Bounded
    <3> QED BY <2>1, <2>3, <2>4, <3>2, <3>3 DEF Bounded
  <2> QED BY <2>1, <2>5, <2>6, <1>3 DEF CreateReminder
<1>2. CASE FetchDueJobs
  <2>1. /\ mode = "direct"
        /\ UNCHANGED <<mode, reaches, hand, stage, job, queue, delivered, disturbed>>
    BY <1>2 DEF FetchDueJobs, settings, tables, execution
  <2>2. Sends(r)' = Sends(r) /\ Sent(r)' = Sent(r) /\ Awaited(r)' = Awaited(r)
    BY <2>1, SameHands DEF Awaited
  <2>3. Owed(r)' = Owed(r)
    BY <2>1, <2>2 DEF Owed
  <2> QED BY <1>0, <2>1, <2>2, <2>3, OwedType, KeepsBound DEF Bounded
<1> QED BY <1>1, <1>2, <1>3, DispatcherBound, ExecutorBound, RestartBound, EndBound DEF Next

(* At the start every reminder is owed once.                               *)
LEMMA InitCopies == Init => CopyInv
<1> SUFFICES ASSUME Init PROVE CopyInv
  OBVIOUS
<1>2. ASSUME NEW r \in Reminder PROVE Bounded(r)
  <2>1. Sends(r) = {} /\ Sent(r) = {} /\ Claimed(r) = 0 /\ Awaited(r) = 1
    BY Somebody DEF Init, Sends, Sent, Claimed, Awaited
  <2>2. Cardinality(Sends(r)) = 0 /\ Cardinality(Sent(r)) = 0
    BY <2>1, FS_EmptySet
  <2>3. Owed(r) = 1 /\ delivered[r] = 0 /\ disturbed = 0
    BY <2>1, <2>2 DEF Init, Owed
  <2>4. 2 ^ 0 = 1
    <3>1. Cardinality({}) = 0 /\ IsFiniteSet({})
      BY FS_EmptySet
    <3>2. Cardinality(SUBSET {}) = 2 ^ 0
      BY <3>1, FS_SUBSET
    <3>3. SUBSET {} = {{}} /\ Cardinality({{}}) = 1
      BY FS_Singleton
    <3> QED BY <3>2, <3>3
  <2> QED BY <2>2, <2>3, <2>4 DEF Bounded
<1> QED BY <1>2 DEF CopyInv

(* A reminder reaches the user once at most while nothing is disturbed,    *)
(* and each disturbance, whichever it is, at most doubles that.            *)
THEOREM DuplicatesStayBounded == Spec => []DuplicatesAreBounded
<1>1. Init => IInv /\ CopyInv
  BY InitInv, InitCopies
<1>2. IInv /\ CopyInv /\ [Next]_vars => (IInv /\ CopyInv)'
  <2> SUFFICES ASSUME IInv, CopyInv, [Next]_vars PROVE (IInv /\ CopyInv)'
    OBVIOUS
  <2>1. IInv' /\ TypeOK /\ TypeOK' /\ ModeInv /\ PlaceInv
    BY NextInv DEF IInv
  <2>3. \A r \in Reminder : Bounded(r)'
    BY <2>1, NextBound
  <2> QED BY <2>1, <2>3 DEF CopyInv
<1>3. IInv /\ CopyInv => DuplicatesAreBounded
  <2> SUFFICES ASSUME IInv, CopyInv, NEW r \in Reminder PROVE delivered[r] <= 2 ^ disturbed
    BY DEF DuplicatesAreBounded
  <2>1. Bounded(r) /\ delivered[r] \in Nat /\ disturbed \in Nat /\ TypeOK
    BY ReminderAssumption DEF CopyInv, IInv, TypeOK
  <2>2. 2 ^ disturbed \in Nat
    BY <2>1, Doubles
  <2>3. Owed(r) \in Nat
    <3>1. Cardinality(Sends(r)) \in Nat /\ Claimed(r) \in {0, 1} /\ Awaited(r) \in {0, 1}
      BY Counts
    <3>2. queue[r] \in Nat
      BY <2>1 DEF TypeOK
    <3> QED BY <3>1, <3>2 DEF Owed
  <2>4. CASE r \in reaches
    BY <2>1, <2>2, <2>3, <2>4 DEF Bounded
  <2>5. CASE r \notin reaches
    BY <2>1, <2>2, <2>5 DEF Bounded
  <2> QED BY <2>4, <2>5
<1> QED BY <1>1, <1>2, <1>3, PTL DEF Spec

=============================================================================
