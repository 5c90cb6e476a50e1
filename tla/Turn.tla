-------------------------------- MODULE Turn --------------------------------
(***************************************************************************)
(* One turn: execute() of src/src/usecase/process_inbound_event.rs from    *)
(* the deduplicated event to the reply that is handed to delivery, or to   *)
(* the end of a turn that has none.  The steps are those between the       *)
(* awaits: calls of the model provider, of the store and of skills, each   *)
(* of which may fail.  What comes before and after, and the interleaving   *)
(* of turns, is in Ingest and InboundPipeline; the run of a plan, step by  *)
(* step, in PlanExecution.                                                 *)
(***************************************************************************)
EXTENDS Routing, Planner

CONSTANTS
  Texts,            \* the messages, a set of Text
  Decisions,        \* what a model may decide, a set of Decision
  Skill,            \* names of skills a model may ask for
  Permissions,      \* effective_principal_permissions()
  CoingeckoAllowed, \* config.policy.http_skill_allowlist has its host
  BasePolicy, Aggressiveness,       \* TeamRuntimeSettings
  MaxSteps, MaxToolCalls, MaxCost,  \* IdentityBudgets
  Goals, Contracts, \* what a request, or a model, may ask to be planned
  MaxRetries,       \* max_retries of a skill's manifest
  MaxFaults         \* bound: storage calls that fail in the turn

Decision == [route : Route, calls : Seq(Skill), writes : BOOLEAN, safe : BOOLEAN]

ASSUME TurnAssumption ==
  /\ Texts \subseteq Text /\ Decisions \subseteq Decision
  /\ Permissions \in [allowed : SUBSET (Skill \cup {"*", "http.fetch"}), denied : SUBSET Skill]
  /\ CoingeckoAllowed \in BOOLEAN
  /\ BasePolicy \in Policy /\ Aggressiveness \in Nat
  /\ MaxSteps \in Nat /\ MaxToolCalls \in Nat /\ MaxCost \in Nat
  /\ Goals # {} /\ Goals \subseteq Request /\ Contracts \subseteq Seq(TaskSeed)
  /\ MaxRetries \in Nat /\ MaxFaults \in Nat

VARIABLES
  text, shift,    \* the message, and whether it leaves the topic of the turns before
  stage,          \* where execute() stands
  live_evidence,  \* the evidence bundle is there
  context,        \* shared_context
  decision,       \* the OrchestrationDecision in force
  plan, preplanned,   \* the plan at hand, and where it comes from
  reply,          \* where the text of the reply comes from
  budget,         \* TurnBudget
  plan_row,       \* status of the row of plans
  task_rows,      \* names with rows in plan_tasks -> their status
  saved,          \* tasks written by the loop under way
  task_results,   \* names of the tasks that ran -> what became of them
  attempts,       \* names with rows in task_attempts, artifacts and reviews
  call,           \* the skill call under way: its number and its attempts
  effects,        \* attempts of each skill call that took effect
  results,        \* tool_results
  recorded,       \* every answer of the provider so far has its row of model_usage
  facts,          \* facts of the decision are queued
  user_turn, assistant_turn, processed,  \* what the turn itself wrote
  faults          \* bound: storage calls that failed

planVars   == <<plan, preplanned, plan_row, task_rows, saved, task_results, attempts>>
skillVars  == <<call, effects, results>>
ledgerVars == <<recorded, facts>>
rowVars    == <<user_turn, assistant_turn, processed>>
vars == <<text, shift, stage, live_evidence, context, decision, reply, budget,
          planVars, skillVars, ledgerVars, rowVars, faults>>

NoPlan == [tasks |-> <<>>, parallelizable_groups |-> <<>>]
Task  == DOMAIN plan.tasks
Name(t) == plan.tasks[t].id
Stage == {"ingest", "evidence", "budget", "strategy", "fast_reply", "plan", "classify",
          "decision", "act", "start_plan", "save_tasks", "execute", "settle_tasks",
          "close_plan", "save_attempts", "integrate", "tools", "skill", "synthesize",
          "writes", "route", "abort", "close",
          "answered", "ignored", "aborted", "failed"}
Ended == {"answered", "ignored", "aborted", "failed"}
Source == {"none", "canned", "fast_reply", "model", "fallback", "tools", "accepted",
           "provisional", "no_artifacts", "refusal"}
NoContext == [loaded |-> FALSE, prior |-> FALSE, evidence |-> FALSE]
NoReply   == [source |-> "none", grounded |-> FALSE]
NoCall    == [nr |-> 0, attempt |-> 0]

LocalPlans == {build_initial_plan(goal) : goal \in Goals}
ModelPlans == {build_plan_from_contract(goal, contract) : goal \in Goals, contract \in Contracts}

Decided(route) == [route |-> route, calls |-> <<>>, writes |-> FALSE, safe |-> TRUE]
Fallback == Decided("AskClarification")
Planning == planning_decision(text, Aggressiveness,
                              effective_turn_performance_policy(BasePolicy, text))
Ran == DOMAIN task_results
ContextualFollowUp ==
  looks_like_follow_up(text) \/ looks_like_conversational_correction(text)

Init ==
  /\ text \in Texts /\ shift = FALSE /\ stage = "ingest"
  /\ live_evidence = FALSE /\ context = NoContext
  /\ decision = Fallback /\ reply = NoReply
  /\ budget = [used_steps |-> 0, used_tool_calls |-> 0, used_cost |-> 0, late |-> FALSE]
  /\ plan = NoPlan /\ preplanned = "none" /\ plan_row = "none"
  /\ task_rows = <<>> /\ saved = 0 /\ task_results = <<>> /\ attempts = {}
  /\ call = NoCall /\ effects = <<>> /\ results = <<>>
  /\ recorded = TRUE /\ facts = FALSE
  /\ user_turn = FALSE /\ assistant_turn = FALSE /\ processed = FALSE
  /\ faults = 0

-----------------------------------------------------------------------------
(* Policy and budgets: src/src/policy/budgets.rs                           *)

Late == IF budget.late THEN {TRUE} ELSE BOOLEAN  \* is_timed_out, at some point

consume_step(ok) ==
  \E late \in Late :
    /\ budget' = [budget EXCEPT !.used_steps = @ + 1, !.late = late]
    /\ ok = (budget.used_steps + 1 <= MaxSteps /\ ~late)

consume_tool_call(ok) ==
  \E late \in Late :
    /\ budget' = [budget EXCEPT !.used_tool_calls = @ + 1, !.late = late]
    /\ ok = (budget.used_tool_calls + 1 <= MaxToolCalls /\ ~late)

add_cost(cost, ok) ==
  \E late \in Late :
    /\ budget' = [budget EXCEPT !.used_cost = @ + cost, !.late = late]
    /\ ok = (budget.used_cost + cost <= MaxCost /\ ~late)

(* The stages at which a call of the store is made whose error is passed   *)
(* on; the others go on without it, or call something else.                *)
StoreCall ==
  \/ stage \in {"ingest", "classify", "start_plan", "save_tasks", "settle_tasks",
               "close_plan", "abort", "close"}
  \/ stage \in {"plan", "decision"} /\ ~context.loaded
  \/ stage = "save_attempts" /\ attempts # Ran
  \/ stage = "route" /\ decision.safe /\ decision.route = "Ignore"

(* Such a call fails, and the turn ends with its error.                    *)
StoreError ==
  /\ StoreCall /\ faults < MaxFaults
  /\ faults' = faults + 1
  /\ stage' = "failed"
  /\ UNCHANGED <<text, shift, live_evidence, context, decision, reply, budget,
                 planVars, skillVars, ledgerVars, rowVars>>

-----------------------------------------------------------------------------
(* From the event to a strategy                                            *)

MayShift == /\ ~ContextualFollowUp /\ ~looks_like_contextual_synthesis(text)
            /\ RawFastPath(text) = {} /\ text.count >= 4

(* Conversation and turns are read; the topic is compared with theirs.     *)
Ingest ==
  /\ stage = "ingest"
  /\ shift' \in IF MayShift THEN BOOLEAN ELSE {FALSE}
  /\ stage' = IF Required(text) THEN "evidence" ELSE "budget"
  /\ UNCHANGED <<text, live_evidence, context, decision, reply, budget, planVars,
                 skillVars, ledgerVars, rowVars, faults>>

(* collect_live_evidence has a source to ask: an address, or an asset.     *)
HasSource ==
  \/ detect_current_data_requirement(text) = "UrlInspection"
  \/ MarketEntities(text) # {}

CollectEvidence ==
  /\ stage = "evidence"
  /\ \/ HasSource /\ live_evidence' = TRUE /\ stage' = "budget"
     \/ UNCHANGED live_evidence /\ stage' = "abort"
  /\ UNCHANGED <<text, shift, context, decision, reply, budget, planVars, skillVars,
                 ledgerVars, rowVars, faults>>

CheckBudget ==
  /\ stage = "budget"
  /\ \E ok \in BOOLEAN :
       /\ consume_step(ok)
       /\ stage' = IF ok THEN "strategy" ELSE "abort"
  /\ UNCHANGED <<text, shift, live_evidence, context, decision, reply, planVars,
                 skillVars, ledgerVars, rowVars, faults>>

MarketTool ==
  ~live_evidence /\ deterministic_market_tool_decision(text, Permissions, CoingeckoAllowed)

(* Mutant: the answer from the turns before is tried in any case.          *)
ContextualAnyway ==
  /\ ~Planning.should_plan
  /\ \/ ContextualFollowUp
     \/ Planning.reason \in {"simple_comparison", "contextual_synthesis"}

Contextual ==
  /\ ~live_evidence /\ ~Planning.should_plan
  /\ \/ ContextualFollowUp
     \/ Planning.reason \in {"simple_comparison", "contextual_synthesis"}

(* Fast path, market tool, answer from context, plan, or classifier.       *)
ChooseStrategy ==
  /\ stage = "strategy"
  /\ \/ \E route \in RawFastPath(text) :
          /\ decision' = Decided(route) /\ stage' = "act"
          /\ reply' = [source |-> "canned", grounded |-> FALSE]
          /\ UNCHANGED <<plan, preplanned>>
     \/ /\ RawFastPath(text) = {} /\ MarketTool
        /\ decision' = [Decided("ToolUse") EXCEPT !.calls = <<"http.fetch">>]
        /\ stage' = "act"
        /\ UNCHANGED <<reply, plan, preplanned>>
     \/ /\ RawFastPath(text) = {} /\ ~MarketTool /\ Contextual
        /\ decision' = Decided(Planning.hint) /\ stage' = "fast_reply"
        /\ UNCHANGED <<reply, plan, preplanned>>
     \/ /\ RawFastPath(text) = {} /\ ~MarketTool /\ ~Contextual /\ Planning.local
        /\ decision' = Decided("PlanThenAct") /\ stage' = "act"
        /\ preplanned' = "local"
        /\ plan' \in LocalPlans
        /\ UNCHANGED reply
     \/ /\ RawFastPath(text) = {} /\ ~MarketTool /\ ~Contextual /\ ~Planning.local
        /\ stage' = IF Planning.should_plan THEN "plan" ELSE "classify"
        /\ UNCHANGED <<decision, reply, plan, preplanned>>
  /\ UNCHANGED <<text, shift, live_evidence, context, budget, plan_row, task_rows,
                 saved, task_results, attempts, skillVars, ledgerVars, rowVars, faults>>

-----------------------------------------------------------------------------
(* Calls of the model.  What does not parse is sent back once to be        *)
(* repaired; of the two answers only one has its row of model_usage.       *)

JsonAnswer(content) ==
  /\ recorded' \in CASE content = "valid"    -> {recorded}
                    [] content = "repaired" -> {FALSE}
                    [] content = "broken"   -> {recorded, FALSE}
  /\ UNCHANGED facts

(* ensure_turn_context, once a turn: build() leaves the conversation out   *)
(* when the topic is another.                                              *)
EnsureContext ==
  /\ stage \in {"plan", "decision", "start_plan"} /\ ~context.loaded
  /\ context' = [loaded |-> TRUE, prior |-> ~shift, evidence |-> live_evidence]
  /\ UNCHANGED <<text, shift, stage, live_evidence, decision, reply, budget, planVars,
                 skillVars, ledgerVars, rowVars, faults>>

(* generate_fast_reply: from the turns before, with the route at hand.     *)
FastReply ==
  /\ stage = "fast_reply"
  /\ \/ /\ \E cost \in {0, 1}, ok \in BOOLEAN : add_cost(cost, ok)
        /\ reply' = [source |-> "fast_reply", grounded |-> FALSE]
        /\ stage' = "act"
     \/ stage' = "decision" /\ UNCHANGED <<reply, budget>>
  /\ UNCHANGED <<text, shift, live_evidence, context, decision, planVars, skillVars,
                 ledgerVars, rowVars, faults>>

(* request_plan never fails: without an answer, or with one that cannot be *)
(* repaired, the plan is the local one.  Over budget it is so too, unless  *)
(* it was the classifier that asked for a plan.                            *)
RequestPlan ==
  /\ stage = "plan" /\ context.loaded
  /\ \/ /\ \E ok \in BOOLEAN : add_cost(0, ok)
        /\ preplanned' = "local" /\ plan' \in LocalPlans
        /\ UNCHANGED ledgerVars
     \/ \E content \in {"valid", "repaired", "broken"}, cost \in {0, 1}, ok \in BOOLEAN :
          /\ JsonAnswer(content)
          /\ add_cost(cost, ok)
          /\ IF content # "broken" /\ (ok \/ decision.route = "PlanThenAct")
             THEN preplanned' = "model" /\ plan' \in ModelPlans
             ELSE preplanned' = "local" /\ plan' \in LocalPlans
  /\ decision' = Decided("PlanThenAct") /\ stage' = "act"
  /\ UNCHANGED <<text, shift, live_evidence, context, reply, plan_row, task_rows, saved,
                 task_results, attempts, skillVars, rowVars, faults>>

(* What the classifier says is followed as far as it is sure of it.        *)
Follow(d, confidence) ==
  CASE d.route = "Ignore" /\ confidence >= 80 -> decision' = d /\ stage' = "act"
    [] d.route \in {"DirectReply", "AskClarification"} /\ confidence >= 55
       /\ ~live_evidence ->
         decision' = [Decided(d.route) EXCEPT !.safe = d.safe] /\ stage' = "fast_reply"
    [] d.route = "PlanThenAct" -> decision' = Decided(d.route) /\ stage' = "plan"
    [] OTHER -> UNCHANGED decision /\ stage' = "decision"

(* request_classifier; without an answer the hint is the route.            *)
Classify ==
  /\ stage = "classify"
  /\ \/ Follow(Decided(Planning.hint), 0) /\ UNCHANGED ledgerVars
     \/ \E d \in Decisions, confidence \in {10, 55, 80}, content \in {"valid", "repaired"} :
          JsonAnswer(content) /\ Follow(d, confidence)
     \/ JsonAnswer("broken") /\ Follow(Fallback, 10)
  /\ UNCHANGED <<text, shift, live_evidence, context, reply, budget, planVars,
                 skillVars, rowVars, faults>>

(* request_decision, or the fixed reply for want of an answer that parses. *)
RequestDecision ==
  /\ stage = "decision" /\ context.loaded
  /\ \/ \E d \in Decisions, content \in {"valid", "repaired"} :
          /\ JsonAnswer(content) /\ decision' = d
          /\ reply' = [source |-> "model", grounded |-> context.evidence]
     \/ /\ JsonAnswer("broken") \/ UNCHANGED ledgerVars
        /\ decision' = Fallback
        /\ reply' = [source |-> "fallback", grounded |-> FALSE]
  /\ stage' = "act"
  /\ UNCHANGED <<text, shift, live_evidence, context, budget, planVars, skillVars,
                 rowVars, faults>>

-----------------------------------------------------------------------------
(* The decision is carried out                                             *)

Act ==
  /\ stage = "act"
  /\ stage' = IF decision.route = "PlanThenAct" THEN "start_plan"
              ELSE IF decision.route = "ToolUse" /\ decision.calls # <<>> THEN "tools"
              ELSE "writes"
  /\ UNCHANGED <<text, shift, live_evidence, context, decision, reply, budget, planVars,
                 skillVars, ledgerVars, rowVars, faults>>

PlanFrame == UNCHANGED <<text, shift, live_evidence, context, decision, budget,
                         skillVars, rowVars, faults>>

(* A plan that was decided on without one is made of the request.          *)
StartPlan ==
  /\ stage = "start_plan" /\ context.loaded
  /\ IF preplanned # "none" THEN UNCHANGED <<plan, preplanned>>
     ELSE /\ preplanned' = "local"
          /\ plan' \in LocalPlans
  /\ plan_row' = "running" /\ stage' = "save_tasks"
  /\ PlanFrame
  /\ UNCHANGED <<reply, task_rows, saved, task_results, attempts, ledgerVars>>

(* upsert_task_json for one task after the other, by its name.             *)
SaveTask(at, status, next) ==
  /\ stage = at
  /\ LET name == Name(saved + 1) IN
       task_rows' = [n \in DOMAIN task_rows \cup {name} |->
                       IF n = name THEN status ELSE task_rows[n]]
  /\ IF saved + 1 = Len(plan.tasks) THEN stage' = next /\ saved' = 0
     ELSE saved' = saved + 1 /\ UNCHANGED stage
  /\ PlanFrame
  /\ UNCHANGED <<reply, plan, preplanned, plan_row, task_results, attempts, ledgerVars>>

(* What a run makes of the tasks: accepted, rejected with a draft of some  *)
(* quality, or failed, when their dependencies are accepted; else nothing. *)
Outcomes ==
  LET runnable == Runnable(plan.tasks) IN
  {outcome \in [Task -> {"accepted", "draft", "failed", "none"}] :
     \A t \in Task :
       outcome[t] # "none" <=>
         /\ t \in runnable
         /\ \A d \in plan.tasks[t].deps : outcome[Named(plan.tasks, d)] = "accepted"}

(* Of two tasks of one name, one is in the results.                        *)
Results(outcome) ==
  LET ran == {t \in Task : outcome[t] # "none"}
  IN {results_of \in [{Name(t) : t \in ran} -> {"accepted", "draft", "failed"}] :
        \A n \in DOMAIN results_of : \E t \in ran : Name(t) = n /\ results_of[n] = outcome[t]}

(* Mutant: the plan is closed as soon as it has run.                       *)
ExecuteAndClose ==
  /\ stage = "execute"
  /\ \E outcome \in Outcomes : task_results' \in Results(outcome)
  /\ plan_row' = "completed" /\ stage' = "settle_tasks"
  /\ PlanFrame
  /\ UNCHANGED <<reply, plan, preplanned, task_rows, saved, attempts, ledgerVars>>

(* execute_plan_parallel, as a whole.                                      *)
ExecutePlan ==
  /\ stage = "execute"
  /\ \E outcome \in Outcomes : task_results' \in Results(outcome)
  /\ stage' = "settle_tasks"
  /\ PlanFrame
  /\ UNCHANGED <<reply, plan, preplanned, plan_row, task_rows, saved, attempts, ledgerVars>>

ClosePlan ==
  /\ stage = "close_plan"
  /\ plan_row' = "completed" /\ stage' = "save_attempts"
  /\ PlanFrame
  /\ UNCHANGED <<reply, plan, preplanned, task_rows, saved, task_results, attempts, ledgerVars>>

(* The results come out of a hash map, in any order.                       *)
SaveAttempt ==
  /\ stage = "save_attempts"
  /\ IF attempts = Ran THEN stage' = "integrate" /\ UNCHANGED attempts
     ELSE /\ \E t \in Ran \ attempts : attempts' = attempts \cup {t}
          /\ UNCHANGED stage
  /\ PlanFrame
  /\ UNCHANGED <<reply, plan, preplanned, plan_row, task_rows, saved, task_results,
                 ledgerVars>>

Ends(kind) == \E n \in Ran : task_results[n] = kind

(* integrate_artifacts: the accepted ones or, if there is none, the drafts *)
(* of a score of 0.45 or more; without a model, their text as it is.       *)
Integrate ==
  /\ stage = "integrate"
  /\ stage' = "writes"
  /\ reply' = [source |-> IF Ends("accepted") THEN "accepted"
                          ELSE IF Ends("draft") THEN "provisional" ELSE "no_artifacts",
               grounded |-> context.evidence]
  /\ recorded' \in IF Ends("accepted") \/ Ends("draft") THEN {recorded, FALSE}
                   ELSE {recorded}
  /\ PlanFrame
  /\ UNCHANGED <<plan, preplanned, plan_row, task_rows, saved, task_results, attempts, facts>>

-----------------------------------------------------------------------------
(* Skills: the loop over tool_calls and src/src/skills/runner.rs           *)

ToolFrame == UNCHANGED <<text, shift, live_evidence, context, decision, planVars,
                         rowVars, faults>>

AfterTools ==
  IF results = <<>> THEN stage' = "writes" /\ UNCHANGED budget
  ELSE \E ok \in BOOLEAN :
         consume_step(ok) /\ stage' = IF ok THEN "synthesize" ELSE "writes"

NextTool ==
  /\ stage = "tools"
  /\ LET nr == call.nr + 1 IN
     \/ /\ call.nr = Len(decision.calls)
        /\ AfterTools
        /\ UNCHANGED <<call, effects>>
     \/ /\ call.nr < Len(decision.calls)
        /\ ~is_skill_allowed(Permissions, decision.calls[nr])
        /\ call' = [nr |-> nr, attempt |-> 0]
        /\ effects' = Append(effects, 0)
        /\ UNCHANGED <<stage, budget>>
     \/ /\ call.nr < Len(decision.calls)
        /\ is_skill_allowed(Permissions, decision.calls[nr])
        /\ \/ consume_tool_call(TRUE) /\ stage' = "skill"
              /\ call' = [nr |-> nr, attempt |-> 0]
              /\ effects' = Append(effects, 0)
           \/ \* out of budget: the rest of the calls is dropped
              /\ consume_tool_call(FALSE)
              /\ call' = [nr |-> Len(decision.calls), attempt |-> 0]
              /\ UNCHANGED <<stage, effects>>
  /\ ToolFrame
  /\ UNCHANGED <<reply, results, ledgerVars>>

Return(ok) ==
  results' = Append(results, [nr |-> call.nr, ok |-> ok]) /\ stage' = "tools"

TookEffect(happened) ==
  effects' = IF happened THEN [effects EXCEPT ![call.nr] = @ + 1] ELSE effects

(* Mutant: the attempts are counted from zero.                             *)
RunSkillOnceMore ==
  /\ stage = "skill"
  /\ \/ call' = call /\ Return(FALSE) /\ TookEffect(FALSE) /\ call.attempt = 0
     \/ call' = [call EXCEPT !.attempt = @ + 1] /\ TookEffect(TRUE) /\ Return(TRUE)
     \/ /\ call' = [call EXCEPT !.attempt = @ + 1]
        /\ \E happened \in BOOLEAN : TookEffect(happened)
        /\ IF call.attempt <= MaxRetries THEN UNCHANGED <<stage, results>> ELSE Return(FALSE)
  /\ ToolFrame
  /\ UNCHANGED <<reply, budget, ledgerVars>>

(* An attempt of execute_with_definition: refused before it runs (unknown  *)
(* skill, input schema); done; done, but against the output schema; failed *)
(* or given up at the timeout, with its effect or without, and tried again *)
(* up to max_retries times.                                                *)
RunSkill ==
  /\ stage = "skill"
  /\ \/ /\ call.attempt = 0 /\ UNCHANGED call
        /\ TookEffect(FALSE) /\ Return(FALSE)
     \/ /\ call' = [call EXCEPT !.attempt = @ + 1]
        /\ TookEffect(TRUE)
        /\ \E valid \in BOOLEAN : Return(valid)
     \/ /\ call' = [call EXCEPT !.attempt = @ + 1]
        /\ \E happened \in BOOLEAN : TookEffect(happened)
        /\ IF call.attempt < MaxRetries THEN UNCHANGED <<stage, results>> ELSE Return(FALSE)
  /\ ToolFrame
  /\ UNCHANGED <<reply, budget, ledgerVars>>

(* synthesize_reply_with_tools; if it fails the decision's reply stands.   *)
Synthesize ==
  /\ stage = "synthesize"
  /\ stage' = "writes"
  /\ \/ /\ \E cost \in {0, 1}, ok \in BOOLEAN : add_cost(cost, ok)
        /\ reply' = [source |-> "tools", grounded |-> FALSE]
     \/ UNCHANGED <<reply, budget>>
  /\ ToolFrame
  /\ UNCHANGED <<skillVars, ledgerVars>>

-----------------------------------------------------------------------------
(* The end of the turn                                                     *)

EndFrame == UNCHANGED <<text, shift, live_evidence, context, decision, budget, planVars,
                        skillVars, recorded, faults>>

(* The facts of the decision are queued, whatever it is.                   *)
QueueFacts ==
  /\ stage = "writes"
  /\ facts' = decision.writes /\ stage' = "route"
  /\ EndFrame
  /\ UNCHANGED <<reply, rowVars>>

(* Unsafe: a refusal is sent.  To be ignored: the user's turn is stored.   *)
RouteReply ==
  /\ stage = "route"
  /\ \/ /\ ~decision.safe
        /\ reply' = [source |-> "refusal", grounded |-> FALSE]
        /\ stage' = "answered" /\ UNCHANGED user_turn
     \/ /\ decision.safe /\ decision.route = "Ignore"
        /\ user_turn' = TRUE /\ stage' = "close"
        /\ UNCHANGED reply
     \/ /\ decision.safe /\ decision.route # "Ignore"
        /\ stage' = "answered"
        /\ UNCHANGED <<reply, user_turn>>
  /\ EndFrame
  /\ UNCHANGED <<facts, assistant_turn, processed>>

(* Mutant: the user's turn is stored with it.                              *)
SafeAbortWithUser ==
  /\ stage = "abort"
  /\ user_turn' = TRUE /\ assistant_turn' = TRUE /\ stage' = "close"
  /\ EndFrame
  /\ UNCHANGED <<reply, facts, processed>>

(* safe_abort stores its own turn, and no other.                           *)
SafeAbort ==
  /\ stage = "abort"
  /\ assistant_turn' = TRUE /\ stage' = "close"
  /\ EndFrame
  /\ UNCHANGED <<reply, facts, user_turn, processed>>

(* mark_inbound_processed                                                  *)
Close ==
  /\ stage = "close"
  /\ processed' = TRUE
  /\ stage' = IF user_turn THEN "ignored" ELSE "aborted"
  /\ EndFrame
  /\ UNCHANGED <<reply, facts, user_turn, assistant_turn>>

Over == stage \in Ended /\ UNCHANGED vars

Next ==
  \/ Ingest \/ CollectEvidence \/ CheckBudget \/ ChooseStrategy \/ StoreError
  \/ EnsureContext \/ FastReply \/ RequestPlan \/ Classify \/ RequestDecision \/ Act
  \/ StartPlan \/ SaveTask("save_tasks", "planned", "execute") \/ ExecutePlan
  \/ SaveTask("settle_tasks", "settled", "close_plan") \/ ClosePlan
  \/ SaveAttempt \/ Integrate
  \/ NextTool \/ RunSkill \/ Synthesize
  \/ QueueFacts \/ RouteReply \/ SafeAbort \/ Close
  \/ Over

(* A turn takes its steps: its calls come back, each with a time limit.    *)
Spec     == Init /\ [][Next]_vars
FairSpec == Spec /\ WF_vars(Next)
-----------------------------------------------------------------------------
TypeOK ==
  /\ text \in Texts /\ shift \in BOOLEAN /\ stage \in Stage
  /\ live_evidence \in BOOLEAN
  /\ context \in [loaded : BOOLEAN, prior : BOOLEAN, evidence : BOOLEAN]
  /\ decision \in [route : Route, calls : Seq(Skill \cup {"http.fetch"}),
                   writes : BOOLEAN, safe : BOOLEAN]
  /\ reply \in [source : Source, grounded : BOOLEAN]
  /\ budget \in [used_steps : Nat, used_tool_calls : Nat, used_cost : Nat, late : BOOLEAN]
  /\ preplanned \in {"none", "local", "model"}
  /\ plan_row \in {"none", "running", "completed"}
  /\ saved \in Nat
  /\ \A n \in DOMAIN task_rows : task_rows[n] \in {"planned", "settled"}
  /\ \A n \in Ran : task_results[n] \in {"accepted", "draft", "failed"}
  /\ attempts \subseteq Ran
  /\ call \in [nr : Nat, attempt : Nat]
  /\ effects \in Seq(Nat) /\ results \in Seq([nr : Nat, ok : BOOLEAN])
  /\ recorded \in BOOLEAN /\ facts \in BOOLEAN
  /\ user_turn \in BOOLEAN /\ assistant_turn \in BOOLEAN /\ processed \in BOOLEAN
  /\ faults \in 0..MaxFaults

(* A message that calls for current data is answered only with evidence at *)
(* hand, never from a canned text or the turns before.  What a decision or *)
(* a plan says to it was said with the evidence in its prompt; tools run   *)
(* only on a decision made so, but the prompt that makes a reply of their  *)
(* results has no evidence.                                                *)
CurrentAnswersHaveSources ==
  stage = "answered" /\ Required(text) =>
    /\ live_evidence
    /\ reply.source \notin {"canned", "fast_reply"}
    /\ reply.source \in {"model", "accepted", "provisional"} => reply.grounded
    /\ reply.source = "tools" => context.evidence

(* A plan whose row says completed has the final state of every task in    *)
(* the rows of its tasks, wherever the turn failed.                        *)
CompletedPlansAreWritten ==
  plan_row = "completed" =>
    \A t \in Task : Name(t) \in DOMAIN task_rows /\ task_rows[Name(t)] = "settled"

(* Whatever a model asks for, a plan is no larger than the team allows,    *)
(* its tasks are for roles the team has and depend on tasks of the plan,   *)
(* and the last one integrates all the others.  How many levels it has is  *)
(* not bounded: plan_max_depth clamps a field of the tasks.                *)
PlansAreBounded ==
  plan # NoPlan =>
    LET n == Len(plan.tasks) IN
    /\ n \in 2..(work_cap + 1) /\ work_cap + 1 <= IF PlanMaxTasks < 2 THEN 2 ELSE PlanMaxTasks
    /\ Name(n) = INTEGRATION_TASK_SLUG
    /\ plan.tasks[n].deps = {Name(t) : t \in 1..(n - 1)}
    /\ \A t \in Task :
         /\ plan.tasks[t].role \in RoleNames /\ plan.tasks[t].route \in RouteKey
         /\ t # n => plan.tasks[t].deps \subseteq {Name(u) : u \in 1..(n - 1)} \ {Name(t)}

(* The levels a plan is shown with put every name once, after all that it  *)
(* depends on.                                                             *)
LevelsAreSound ==
  LET levels == plan.parallelizable_groups IN
  levels # <<>> =>
    \A t \in Task : \E n \in DOMAIN levels :
      /\ \A m \in DOMAIN levels : Name(t) \in levels[m] <=> m = n
      /\ \A d \in plan.tasks[t].deps : \E m \in 1..(n - 1) : d \in levels[m]

(* A plan of distinct names without a cycle can run to its end, level by   *)
(* level, and the plans made of the request alone are such plans.          *)
DistinctNames == \A t, u \in Task : Name(t) = Name(u) => t = u
SoundPlansRun ==
  /\ LevelsAreSound
  /\ DistinctNames /\ plan.parallelizable_groups # <<>> => Runnable(plan.tasks) = Task
  /\ preplanned = "local" => DistinctNames /\ plan.parallelizable_groups # <<>>

(* An unsafe decision is answered with the refusal, whatever its route,    *)
(* and never passed over in silence.                                       *)
UnsafeIsRefused ==
  /\ stage = "answered" /\ ~decision.safe => reply.source = "refusal"
  /\ stage = "ignored" => decision.safe

(* A skill takes effect only if it is allowed, as often as its manifest    *)
(* lets it be retried, for as many calls as the budget has; a call that is *)
(* reported as done took effect.                                           *)
EffectsAreBounded ==
  /\ Cardinality({i \in DOMAIN effects : effects[i] > 0}) <= MaxToolCalls
  /\ \A i \in DOMAIN effects :
       /\ effects[i] <= MaxRetries + 1
       /\ effects[i] > 0 => is_skill_allowed(Permissions, decision.calls[i])
  /\ \A r \in DOMAIN results : results[r].ok => effects[results[r].nr] > 0

(* The price of an asset is never asked of the fixed address: a message    *)
(* that would be is one that calls for evidence, and has it by then.       *)
MarketToolIsIdle == stage = "strategy" => ~MarketTool

(* The turn keeps the contract that the pipeline runs its jobs by.         *)
Outcome ==
  CASE stage \in {"answered", "failed"} -> stage
    [] stage = "close" -> "closing"
    [] stage \in {"ignored", "aborted"} -> "closed"
    [] OTHER -> "open"
Contract == INSTANCE TurnContract WITH outcome <- Outcome
MeetsContract == Contract!Spec
=============================================================================
