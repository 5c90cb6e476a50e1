----------------------------- MODULE Reminders -----------------------------
(***************************************************************************)
(* Reminders from their creation to their delivery: the tables reminders   *)
(* and jobs, and one of the two ways of SchedulerWorker::spawn to run what *)
(* is due.  With the bus, a dispatcher claims due jobs and pushes them to  *)
(* a queue in Redis (apalis) from which several workers take them; without *)
(* it, or when Redis does not answer at the start, a single loop executes  *)
(* the due jobs it has fetched.                                            *)
(*                                                                         *)
(* Every call to Postgres, Redis or Telegram is a step.  That Telegram     *)
(* refuses a message is normal; the disturbances, which are counted and    *)
(* bounded, are a storage call that fails, a call whose answer is lost, a  *)
(* job the queue hands out again, a worker that ends (for good: nothing    *)
(* starts another before the process does), and a restart.                 *)
(***************************************************************************)
EXTENDS Naturals, FiniteSets

CONSTANTS
  NReminders,      \* reminders 1..NReminders
  Workers,         \* executors of jobs; the direct loop is one at a time
  MaxDisturbances  \* bound: disturbances of a behaviour

Reminder == 1 .. NReminders
Nobody == 0
MaxRetries == 3  \* the constant of fail_job's UPDATE

ASSUME ReminderAssumption ==
  /\ NReminders \in Nat
  /\ IsFiniteSet(Workers) /\ Workers # {}   \* worker_concurrency.max(1)
  /\ MaxDisturbances \in Nat

VARIABLES
  mode,       \* "queue" (apalis) or "direct", chosen at each start
  alive,      \* the workers of the queue whose run() has not returned
  reaches,    \* reminders that go out: for Telegram, by an enabled client,
              \* under policy.outbound_enabled and not policy.dry_run
  job,        \* jobs.status, "none" for no row
  retries,    \* jobs.retries
  due,        \* whether jobs.run_at has come
  status,     \* reminders.status, "none" for no row
  batch,      \* jobs the dispatcher claimed, or the loop fetched
  pushing,    \* the dispatcher's next call for the first job of batch
  queue,      \* Reminder -> Nat: copies of its job in the Redis queue
  hand,       \* the job each worker executes
  stage,      \* the worker's next call
  delivered,  \* how often the user got the reminder
  disturbed   \* disturbances so far

settings == <<mode, alive, reaches>>
tables == <<job, retries, due, status>>
dispatch == <<batch, pushing, queue>>
execution == <<hand, stage>>
vars == <<settings, tables, dispatch, execution, delivered, disturbed>>

TypeOK ==
  /\ mode \in {"queue", "direct"}
  /\ alive \subseteq Workers
  /\ reaches \subseteq Reminder
  /\ job \in [Reminder -> {"none", "scheduled", "queued", "done", "failed"}]
  /\ retries \in [Reminder -> Nat]
  /\ due \in [Reminder -> BOOLEAN]
  /\ status \in [Reminder -> {"none", "scheduled", "sent", "failed"}]
  /\ batch \subseteq Reminder
  /\ pushing \in {"push", "fail", "mark"}
  /\ queue \in [Reminder -> Nat]
  /\ hand \in [Workers -> Reminder \union {Nobody}]
  /\ stage \in [Workers -> {"send", "markSent", "complete", "markFailed", "fail"}]
  /\ delivered \in [Reminder -> Nat]
  /\ disturbed \in 0 .. MaxDisturbances

Init ==
  /\ mode \in {"queue", "direct"}
  /\ alive = Workers
  /\ reaches = {}
  /\ job = [r \in Reminder |-> "none"]
  /\ retries = [r \in Reminder |-> 0]
  /\ due = [r \in Reminder |-> FALSE]
  /\ status = [r \in Reminder |-> "none"]
  /\ batch = {}
  /\ pushing = "push"
  /\ queue = [r \in Reminder |-> 0]
  /\ hand = [w \in Workers |-> Nobody]
  /\ stage = [w \in Workers |-> "send"]
  /\ delivered = [r \in Reminder |-> 0]
  /\ disturbed = 0

-----------------------------------------------------------------------------
Disturb ==
  /\ disturbed < MaxDisturbances
  /\ disturbed' = disturbed + 1

(* A call is done and answered, done while its answer is lost, or refused. *)
Replies == {"ok", "lost", "refused"}
TakesEffect(reply) == reply # "refused"
Call(reply) == IF reply = "ok" THEN UNCHANGED disturbed ELSE Disturb

Least(S) == CHOOSE x \in S : \A y \in S : x <= y

-----------------------------------------------------------------------------
(* create_reminder: both rows in one transaction, for the channel of the   *)
(* message that asked for it.                                              *)
CreateReminder(r) ==
  /\ status[r] = "none"
  /\ reaches' \in {reaches, reaches \union {r}}
  /\ status' = [status EXCEPT ![r] = "scheduled"]
  /\ job' = [job EXCEPT ![r] = "scheduled"]
  /\ UNCHANGED <<mode, alive, retries, due, dispatch, execution, delivered, disturbed>>

(* The time of a scheduled job comes.                                      *)
ComeDue(r) ==
  /\ job[r] = "scheduled"
  /\ ~due[r]
  /\ due' = [due EXCEPT ![r] = TRUE]
  /\ UNCHANGED <<settings, job, retries, status, dispatch, execution, delivered,
                 disturbed>>

DueJobs == {r \in Reminder : job[r] = "scheduled" /\ due[r]}

(* Mutants of the update: five attempts; the status left alone below the   *)
(* limit; retries not counted.                                             *)
FailJobLate(r) ==
  /\ job' = [job EXCEPT ![r] = IF retries[r] > MaxRetries THEN "failed"
                                                          ELSE "scheduled"]
  /\ retries' = [retries EXCEPT ![r] = @ + 1]
  /\ due' = [due EXCEPT ![r] = FALSE]
FailJobStill(r) ==
  /\ job' = [job EXCEPT ![r] = IF retries[r] >= MaxRetries THEN "failed" ELSE @]
  /\ retries' = [retries EXCEPT ![r] = @ + 1]
  /\ due' = [due EXCEPT ![r] = FALSE]
FailJobUncounted(r) ==
  /\ job' = [job EXCEPT ![r] = IF retries[r] >= MaxRetries THEN "failed"
                                                           ELSE "scheduled"]
  /\ due' = [due EXCEPT ![r] = FALSE]
  /\ UNCHANGED retries

(* fail_job: the job is given up or put off for a minute, whatever its     *)
(* status was.                                                             *)
FailJob(r) ==
  /\ job' = [job EXCEPT ![r] = IF retries[r] >= MaxRetries THEN "failed"
                                                           ELSE "scheduled"]
  /\ retries' = [retries EXCEPT ![r] = @ + 1]
  /\ due' = [due EXCEPT ![r] = FALSE]

-----------------------------------------------------------------------------
(* The dispatcher claims what is due in one transaction.  If the answer of *)
(* the commit is lost, nobody has the claimed jobs.                        *)
ClaimDueJobs(reply) ==
  /\ mode = "queue"
  /\ batch = {}
  /\ DueJobs # {}
  /\ Call(reply)
  /\ job' = [r \in Reminder |-> IF r \in DueJobs THEN "queued" ELSE job[r]]
  /\ batch' = IF reply = "ok" THEN DueJobs ELSE {}
  /\ UNCHANGED <<settings, retries, due, status, pushing, queue, execution,
                 delivered>>

Push(reply) ==
  LET r == Least(batch) IN
  /\ mode = "queue"
  /\ batch # {}
  /\ pushing = "push"
  /\ Call(reply)
  /\ queue' = IF TakesEffect(reply) THEN [queue EXCEPT ![r] = @ + 1] ELSE queue
  /\ IF reply = "ok" THEN batch' = batch \ {r} /\ UNCHANGED pushing
                     ELSE pushing' = "fail" /\ UNCHANGED batch
  /\ UNCHANGED <<settings, tables, execution, delivered>>

(* A failed push fails the job and then marks the reminder; the results of *)
(* both calls are ignored.                                                 *)
FailPush(reply) ==
  LET r == Least(batch) IN
  /\ batch # {}
  /\ pushing = "fail"
  /\ Call(reply)
  /\ IF TakesEffect(reply) THEN FailJob(r) ELSE UNCHANGED <<job, retries, due>>
  /\ pushing' = "mark"
  /\ UNCHANGED <<settings, status, batch, queue, execution, delivered>>

MarkPush(reply) ==
  LET r == Least(batch) IN
  /\ batch # {}
  /\ pushing = "mark"
  /\ Call(reply)
  /\ status' = IF TakesEffect(reply) THEN [status EXCEPT ![r] = "failed"] ELSE status
  /\ batch' = batch \ {r}
  /\ pushing' = "push"
  /\ UNCHANGED <<settings, job, retries, due, queue, execution, delivered>>

DispatcherStep ==
  \/ \E reply \in {"ok", "lost"} : ClaimDueJobs(reply)
  \/ \E reply \in Replies : Push(reply) \/ FailPush(reply) \/ MarkPush(reply)

-----------------------------------------------------------------------------
(* Mutant: the loop fetches before it is done with its batch.              *)
FetchDueJobsEarly ==
  /\ mode = "direct"
  /\ batch = {}
  /\ DueJobs # {}
  /\ batch' = DueJobs
  /\ UNCHANGED <<settings, tables, pushing, queue, execution, delivered, disturbed>>

(* The direct loop fetches what is due, without claiming it, once it has   *)
(* gone through the batch before.                                          *)
FetchDueJobs ==
  /\ mode = "direct"
  /\ batch = {}
  /\ \A w \in Workers : hand[w] = Nobody
  /\ DueJobs # {}
  /\ batch' = DueJobs
  /\ UNCHANGED <<settings, tables, pushing, queue, execution, delivered, disturbed>>

(* An executor takes a job: a worker from the queue, or the loop the next  *)
(* of its batch.                                                           *)
TakeJob(w) ==
  /\ hand[w] = Nobody
  /\ \/ \E r \in Reminder :
          /\ mode = "queue" /\ w \in alive
          /\ queue[r] > 0
          /\ queue' = [queue EXCEPT ![r] = @ - 1]
          /\ hand' = [hand EXCEPT ![w] = r]
          /\ UNCHANGED batch
     \/ /\ mode = "direct"
        /\ \A v \in Workers : hand[v] = Nobody
        /\ \E r \in batch : /\ hand' = [hand EXCEPT ![w] = r]
                            /\ batch' = batch \ {r}
        /\ UNCHANGED queue
  /\ stage' = [stage EXCEPT ![w] = "send"]
  /\ UNCHANGED <<settings, tables, pushing, delivered, disturbed>>

GoTo(w, s) == stage' = [stage EXCEPT ![w] = s]

(* The reminder is sent.  That it is refused is no disturbance.  One that  *)
(* the policy, its channel ("local") or a disabled client keeps from going *)
(* out passes for sent.                                                    *)
Send(w, reply) ==
  /\ hand[w] # Nobody
  /\ stage[w] = "send"
  /\ hand[w] \in reaches \/ reply = "ok"
  /\ IF reply = "lost" THEN Disturb ELSE UNCHANGED disturbed
  /\ delivered' = IF hand[w] \in reaches /\ TakesEffect(reply)
                    THEN [delivered EXCEPT ![hand[w]] = @ + 1] ELSE delivered
  /\ GoTo(w, IF reply = "ok" THEN "markSent" ELSE "markFailed")
  /\ UNCHANGED <<settings, tables, dispatch, hand>>

(* Mutant: a failed attempt is completed all the same.                     *)
MarkThenComplete(w, reply) ==
  /\ hand[w] # Nobody
  /\ stage[w] \in {"markSent", "markFailed"}
  /\ Call(reply)
  /\ status' = IF TakesEffect(reply)
                 THEN [status EXCEPT ![hand[w]] =
                         IF stage[w] = "markSent" THEN "sent" ELSE "failed"]
                 ELSE status
  /\ stage' = [stage EXCEPT ![w] = "complete"]
  /\ UNCHANGED <<settings, job, retries, due, dispatch, hand, delivered>>

(* The bookkeeping after it, whose results are ignored.                    *)
MarkReminder(w, reply) ==
  /\ hand[w] # Nobody
  /\ stage[w] \in {"markSent", "markFailed"}
  /\ Call(reply)
  /\ status' = IF TakesEffect(reply)
                 THEN [status EXCEPT ![hand[w]] =
                         IF stage[w] = "markSent" THEN "sent" ELSE "failed"]
                 ELSE status
  /\ GoTo(w, IF stage[w] = "markSent" THEN "complete" ELSE "fail")
  /\ UNCHANGED <<settings, job, retries, due, dispatch, hand, delivered>>

LetGo(w) == hand' = [hand EXCEPT ![w] = Nobody] /\ GoTo(w, "send")

CompleteJob(w, reply) ==
  /\ hand[w] # Nobody
  /\ stage[w] = "complete"
  /\ Call(reply)
  /\ job' = IF TakesEffect(reply) THEN [job EXCEPT ![hand[w]] = "done"] ELSE job
  /\ LetGo(w)
  /\ UNCHANGED <<settings, retries, due, status, dispatch, delivered>>

(* execute() then returns an error: the direct loop gives up its batch;    *)
(* the queue may hand the job out again.                                   *)
FailAttempt(w, reply, again) ==
  /\ hand[w] # Nobody
  /\ stage[w] = "fail"
  /\ Call(IF again THEN "again" ELSE reply)
  /\ again => mode = "queue" /\ reply = "ok"
  /\ IF TakesEffect(reply) THEN FailJob(hand[w]) ELSE UNCHANGED <<job, retries, due>>
  /\ queue' = IF again THEN [queue EXCEPT ![hand[w]] = @ + 1] ELSE queue
  /\ batch' = IF mode = "direct" THEN {} ELSE batch
  /\ LetGo(w)
  /\ UNCHANGED <<settings, status, pushing, delivered>>

ExecutorStep(w) ==
  \/ TakeJob(w)
  \/ \E reply \in Replies :
       \/ Send(w, reply)
       \/ MarkReminder(w, reply)
       \/ CompleteJob(w, reply)
       \/ \E again \in BOOLEAN : FailAttempt(w, reply, again)

-----------------------------------------------------------------------------
(* The run() of a worker returns, with an error or at an idle timeout: the *)
(* task ends with a line in the log.  A job in its hands may or may not be *)
(* handed out again.                                                       *)
WorkerEnds(w) ==
  /\ mode = "queue" /\ w \in alive
  /\ Disturb
  /\ alive' = alive \ {w}
  /\ \/ UNCHANGED queue
     \/ hand[w] # Nobody /\ queue' = [queue EXCEPT ![hand[w]] = @ + 1]
  /\ LetGo(w)
  /\ UNCHANGED <<mode, reaches, tables, batch, pushing, delivered>>

(* The process dies and starts again, with the bus or without it.  What    *)
(* the dispatcher claimed and had not pushed is forgotten; jobs in the     *)
(* hands of apalis workers may or may not be handed out again.             *)
Restart ==
  /\ Disturb
  /\ mode' \in {"queue", "direct"}
  /\ alive' = Workers
  /\ \E again \in SUBSET {w \in Workers : mode = "queue" /\ hand[w] # Nobody} :
       queue' = [r \in Reminder |->
                   queue[r] + Cardinality({w \in again : hand[w] = r})]
  /\ batch' = {}
  /\ pushing' = "push"
  /\ hand' = [w \in Workers |-> Nobody]
  /\ stage' = [w \in Workers |-> "send"]
  /\ UNCHANGED <<reaches, tables, delivered>>

InHand(r) == \E w \in Workers : hand[w] = r

(* Some worker takes from the Redis queue.                                 *)
QueueIsServed == mode = "queue" /\ alive # {}

(* A queued job that nobody has, or that is in a queue nobody takes from:  *)
(* nothing in the code looks for these.                                    *)
Stranded(r) ==
  /\ job[r] = "queued" /\ r \notin batch /\ ~InHand(r)
  /\ queue[r] = 0 \/ ~QueueIsServed

AtRest ==
  /\ \A r \in Reminder : job[r] \in {"done", "failed"} \/ Stranded(r)
  /\ batch = {}
  /\ \A r \in Reminder : ~InHand(r) /\ (queue[r] = 0 \/ ~QueueIsServed)
Rest == AtRest /\ UNCHANGED vars

Next ==
  \/ \E r \in Reminder : CreateReminder(r) \/ ComeDue(r)
  \/ DispatcherStep
  \/ FetchDueJobs
  \/ \E w \in Workers : ExecutorStep(w) \/ WorkerEnds(w)
  \/ Restart
  \/ Rest

Spec == Init /\ [][Next]_vars

(* Tickers tick, tasks of the runtime that can run are polled, calls       *)
(* answer or time out, and time passes.  A worker owes steps only until    *)
(* its run() returns, which it may do at any moment.                       *)
FairSpec ==
  /\ Spec
  /\ \A r \in Reminder : WF_vars(ComeDue(r))
  /\ WF_vars(DispatcherStep)
  /\ WF_vars(FetchDueJobs)
  /\ \A w \in Workers : WF_vars(ExecutorStep(w))

-----------------------------------------------------------------------------
Working(r) == r \in batch \/ queue[r] > 0 \/ InHand(r)

(* However often Telegram refuses it and the job is put off, claimed or    *)
(* fetched again, a reminder reaches the user once at most, unless         *)
(* something is disturbed; and a disturbance (a lost answer, a redelivery, *)
(* a restart that hands all copies out again) at most doubles that.        *)
DuplicatesAreBounded ==
  \A r \in Reminder : delivered[r] <= 2 ^ disturbed

(* The two tables agree when nobody works on a reminder: done with sent,   *)
(* failed with failed after four attempts that did not deliver.  They are  *)
(* written by separate calls of several workers.                           *)
TablesAgree ==
  disturbed = 0 =>
    \A r \in Reminder : ~Working(r) =>
      /\ job[r] = "done" <=> status[r] = "sent"
      /\ job[r] = "failed" => /\ status[r] = "failed"
                              /\ retries[r] = MaxRetries + 1
                              /\ delivered[r] = 0

(* Whatever fails: a job that is done was delivered, if it is one that     *)
(* goes out at all, and a job is given up only after its fourth failed     *)
(* attempt.                                                                *)
EndsAreEarned ==
  \A r \in Reminder :
    /\ job[r] = "done" /\ r \in reaches => delivered[r] > 0
    /\ job[r] = "failed" => retries[r] > MaxRetries

(* A job is stranded only by a disturbance: claims, pushes, refusals and   *)
(* put-offs leave every queued job with someone who will look at it.       *)
NothingIsStranded == disturbed = 0 => \A r \in Reminder : ~Stranded(r)

(* Every reminder is done, given up or stranded: no refusal, put-off,      *)
(* aborted batch or lost answer, and no worker that ends while another is  *)
(* there, has it go round for ever.                                        *)
RemindersEnd ==
  \A r \in Reminder :
    status[r] # "none" ~> job[r] \in {"done", "failed"} \/ Stranded(r)
=============================================================================
