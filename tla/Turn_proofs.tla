---------------------------- MODULE Turn_proofs ----------------------------
(***************************************************************************)
(* What holds of one turn for every message, every answer of a model, all  *)
(* settings and budgets, and any number of storage calls that fail: the    *)
(* inductive invariant of Turn and what follows from it.                   *)
(***************************************************************************)
EXTENDS Turn, Planner_proofs

(* The stages before the decision is carried out, and those of a plan.     *)
Early == {"ingest", "evidence", "budget", "strategy", "fast_reply", "plan", "classify",
          "decision", "act", "start_plan"}
Unfinished == {"save_tasks", "execute", "settle_tasks", "close_plan"}
Planned == Unfinished \cup {"save_attempts", "integrate"}

(* The plan at hand fits the team, and there is one when it is run; the    *)
(* loops that write its tasks stay within it.                              *)
PlanInv ==
  /\ plan = NoPlan \/ IsBounded(plan)
  /\ preplanned # "none" => IsBounded(plan)
  /\ stage \in Planned => IsBounded(plan)
  /\ saved # 0 => stage \in {"save_tasks", "settle_tasks", "failed"}
  /\ stage \in {"save_tasks", "settle_tasks"} => saved < Len(plan.tasks)

(* The row of the plan is closed behind those of its tasks, and neither    *)
(* the plan nor the rows change after that.                                *)
WrittenInv ==
  /\ stage \in Early => plan_row = "none"
  /\ stage \in Unfinished => plan_row # "completed"
  /\ stage = "settle_tasks" =>
       \A t \in 1..saved : Name(t) \in DOMAIN task_rows /\ task_rows[Name(t)] = "settled"
  /\ stage = "close_plan" \/ plan_row = "completed" =>
       \A t \in Task : Name(t) \in DOMAIN task_rows /\ task_rows[Name(t)] = "settled"

(* Attempts are written of tasks that ran.                                 *)
AttemptInv == stage \in Early \cup Unfinished => attempts = {}

(* A message that calls for current data has its evidence from the choice  *)
(* of a strategy on, and every prompt after that has it too.               *)
GroundInv ==
  /\ stage \in Planned => context.loaded
  /\ Required(text) =>
       /\ \/ user_turn
          \/ stage \notin {"ingest", "evidence", "abort", "close", "aborted", "failed"}
          => live_evidence
       /\ stage # "fast_reply" /\ reply.source \notin {"canned", "fast_reply"}
       /\ reply.source \in {"model", "accepted", "provisional"} => reply.grounded
       /\ context.loaded => context.evidence
       /\ stage = "act" /\ decision.route = "ToolUse" => context.loaded
       /\ stage \in {"tools", "skill", "synthesize"} => context.loaded
       /\ reply.source = "tools" => context.loaded

(* The calls that were let through: allowed, and within the budget.        *)
Allowed == {i \in DOMAIN effects : is_skill_allowed(Permissions, decision.calls[i])}

EffectInv ==
  /\ stage \in Early \cup Planned => call = NoCall /\ effects = <<>> /\ results = <<>>
  /\ stage \in {"tools", "skill"} /\ call.nr < Len(decision.calls) => Len(effects) = call.nr
  /\ stage = "skill" =>
       /\ Len(effects) = call.nr /\ call.nr \in Allowed
       /\ call.attempt <= MaxRetries /\ effects[call.nr] <= call.attempt
  /\ Cardinality(Allowed) <= budget.used_tool_calls /\ Cardinality(Allowed) <= MaxToolCalls
  /\ \A i \in DOMAIN effects : effects[i] <= MaxRetries + 1 /\ (effects[i] > 0 => i \in Allowed)
  /\ \A r \in DOMAIN results :
       results[r].nr \in DOMAIN effects /\ (results[r].ok => effects[results[r].nr] > 0)

(* The user's turn is stored only by the route to be ignored.              *)
RefusalInv ==
  /\ user_turn => decision.safe /\ stage \in {"close", "ignored", "failed"}
  /\ UnsafeIsRefused

IInv == TypeOK /\ PlanInv /\ WrittenInv /\ AttemptInv /\ GroundInv /\ EffectInv /\ RefusalInv

-----------------------------------------------------------------------------
(* Routes                                                                  *)

LEMMA HintIsARoute ==
  ASSUME NEW t
  PROVE  pick_route_hint(t) \in Route
BY DEF pick_route_hint, Route

(* The fast path, too, decides on routes.                                  *)
LEMMA FastPathIsARoute ==
  ASSUME NEW t
  PROVE  RawFastPath(t) \subseteq Route
BY DEF RawFastPath, fast_path_decision, Route

(* One of the rules of planning_decision applies, and each names a route.  *)
LEMMA PlanningNamesARoute ==
  ASSUME NEW t, NEW aggressiveness, NEW policy
  PROVE  planning_decision(t, aggressiveness, policy).hint \in Route
<1> DEFINE hint  == pick_route_hint(t)
           limit == Threshold(policy, aggressiveness)
           c1 == Empty(t)
           c2 == Has(t, {"subagentes"}) /\ Has(t, {"ranking"})
           c3 == looks_like_conversational_correction(t)
           c4 == Has(t, {"subagentes"})
           c5 == Has(t, {"hoy", "bitcoin", "forecast", "trading"})
           c6 == looks_like_follow_up(t)
           c7 == looks_like_complex_comparison(t)
           c8 == hint = "PlanThenAct"
           c9 == looks_like_contextual_synthesis(t)
           c10 == looks_like_simple_comparison(t)
           c11 == Has(t, {"y", "search"})
           c12 == t.len >= limit[1] \/ t.count >= limit[2]
           c13 == TRUE
           rules == <<
             <<c1, Skip("empty", hint)>>,
             <<c2, Plan("explicit_parallel_decomposition", "PlanThenAct", TRUE)>>,
             <<c3, Skip("follow_up_correction", hint)>>,
             <<c4, Plan("explicit_delegation", "PlanThenAct", TRUE)>>,
             <<c5, Plan("market_or_current_data", "PlanThenAct", TRUE)>>,
             <<c6, Skip("follow_up_reference", hint)>>,
             <<c7, Plan("complex_comparison", "PlanThenAct", TRUE)>>,
             <<c8, Plan("route_hint_plan", hint, FALSE)>>,
             <<c9, Skip("contextual_synthesis", "DirectReply")>>,
             <<c10, Skip("simple_comparison", hint)>>,
             <<c11, Plan("multi_step_markers", hint, FALSE)>>,
             <<c12, Plan("complexity_threshold", hint, FALSE)>>,
             <<c13, Skip("simple_request", hint)>>>>
           applies == {i \in 1..13 : rules[i][1]}
           first == CHOOSE i \in DOMAIN rules : rules[i][1] /\ \A j \in 1..(i - 1) : ~rules[j][1]
<1>1. DOMAIN rules = 1..13
  OBVIOUS
<1>2. \A i \in 1..13 : rules[i][2].hint \in Route
  <2>1. hint \in Route /\ "PlanThenAct" \in Route /\ "DirectReply" \in Route
    BY HintIsARoute DEF Route
  <2> HIDE DEF hint, limit, c1, c2, c3, c4, c5, c6, c7, c8, c9, c10, c11, c12, c13
  <2>2. /\ rules[1][2] = Skip("empty", hint)
        /\ rules[2][2] = Plan("explicit_parallel_decomposition", "PlanThenAct", TRUE)
        /\ rules[3][2] = Skip("follow_up_correction", hint)
        /\ rules[4][2] = Plan("explicit_delegation", "PlanThenAct", TRUE)
        /\ rules[5][2] = Plan("market_or_current_data", "PlanThenAct", TRUE)
        /\ rules[6][2] = Skip("follow_up_reference", hint)
        /\ rules[7][2] = Plan("complex_comparison", "PlanThenAct", TRUE)
        /\ rules[8][2] = Plan("route_hint_plan", hint, FALSE)
        /\ rules[9][2] = Skip("contextual_synthesis", "DirectReply")
        /\ rules[10][2] = Skip("simple_comparison", hint)
        /\ rules[11][2] = Plan("multi_step_markers", hint, FALSE)
        /\ rules[12][2] = Plan("complexity_threshold", hint, FALSE)
        /\ rules[13][2] = Skip("simple_request", hint)
    OBVIOUS
  <2>3. \A i \in 1..13 : i \in {1, 2, 3, 4, 5, 6, 7, 8, 9, 10, 11, 12, 13}
    OBVIOUS
  <2> HIDE DEF rules
  <2>4. /\ rules[1][2].hint \in Route
        /\ rules[2][2].hint \in Route
        /\ rules[3][2].hint \in Route
        /\ rules[4][2].hint \in Route
        /\ rules[5][2].hint \in Route
        /\ rules[6][2].hint \in Route
        /\ rules[7][2].hint \in Route
        /\ rules[8][2].hint \in Route
        /\ rules[9][2].hint \in Route
        /\ rules[10][2].hint \in Route
        /\ rules[11][2].hint \in Route
        /\ rules[12][2].hint \in Route
        /\ rules[13][2].hint \in Route
    BY <2>1, <2>2 DEF Skip, Plan
  <2> QED BY <2>3, <2>4
<1>3. rules[13][1]
  OBVIOUS
<1>4. planning_decision(t, aggressiveness, policy) = rules[first][2]
  BY DEF planning_decision
<1> HIDE DEF rules
<1>5. PICK i \in applies : \A j \in applies : i <= j
  <2>1. IsFiniteSet(1..13)
    <3>1. 1 \in Int /\ 13 \in Int
      OBVIOUS
    <3> QED BY <3>1, FS_Interval
  <2>5. applies \subseteq 1..13
    OBVIOUS
  <2>2. IsFiniteSet(applies)
    BY <2>1, <2>5, FS_Subset
  <2>3. applies \in SUBSET Int
    BY <2>5
  <2>4. 13 \in applies
    BY <1>3
  <2> HIDE DEF applies
  <2> QED BY <2>2, <2>3, <2>4, LeastElement
<1>6. \A j \in 1..(i - 1) : ~rules[j][1]
  <2>1. \A j \in 1..(i - 1) : j \in 1..13 /\ ~(i <= j)
    OBVIOUS
  <2> QED BY <1>5, <2>1
<1>7. first \in 1..13
  BY <1>1, <1>5, <1>6
<1> HIDE DEF first
<1> QED BY <1>2, <1>4, <1>7

(* Both, of the message of the turn.                                       *)
LEMMA HintsAreRoutes == Planning.hint \in Route /\ RawFastPath(text) \subseteq Route
BY PlanningNamesARoute, FastPathIsARoute DEF Planning

-----------------------------------------------------------------------------
(* Types                                                                   *)

(* What a decision may be: with the calls that a model asks for, or the    *)
(* one the market tool makes.                                              *)
DecisionType == [route : Route, calls : Seq(Skill \cup {"http.fetch"}),
                 writes : BOOLEAN, safe : BOOLEAN]

(* Every decision that a step can take is of that type.                    *)
LEMMA DecisionsAreTyped ==
  /\ \A d \in Decisions : d \in DecisionType
  /\ \A route \in Route : Decided(route) \in DecisionType
  /\ \A route \in Route : [Decided(route) EXCEPT !.calls = <<"http.fetch">>] \in DecisionType
  /\ \A route \in Route, safe \in BOOLEAN :
       [Decided(route) EXCEPT !.safe = safe] \in DecisionType
  /\ Fallback \in DecisionType
<1> DEFINE Calls == Seq(Skill \cup {"http.fetch"})
<1>1. ASSUME NEW d \in Decisions PROVE d \in DecisionType
  <2>1. d \in Decision
    BY TurnAssumption
  <2>2. d.calls \in Seq(Skill)
    BY <2>1 DEF Decision
  <2>4. d.calls \in Calls
    BY <2>2
  <2> HIDE DEF Calls
  <2>5. d = [route |-> d.route, calls |-> d.calls, writes |-> d.writes, safe |-> d.safe]
        /\ d.route \in Route /\ d.writes \in BOOLEAN /\ d.safe \in BOOLEAN
    BY <2>1 DEF Decision
  <2>6. [route |-> d.route, calls |-> d.calls, writes |-> d.writes, safe |-> d.safe]
          \in [route : Route, calls : Calls, writes : BOOLEAN, safe : BOOLEAN]
    BY <2>4, <2>5
  <2> QED BY <2>5, <2>6 DEF DecisionType, Calls
<1>2. <<>> \in Calls /\ <<"http.fetch">> \in Calls
  OBVIOUS
<1> HIDE DEF Calls
<1>3. DecisionType = [route : Route, calls : Calls, writes : BOOLEAN, safe : BOOLEAN]
  BY DEF DecisionType, Calls
<1>4. \A route \in Route, safe \in BOOLEAN :
        /\ Decided(route) \in DecisionType
        /\ [Decided(route) EXCEPT !.calls = <<"http.fetch">>] \in DecisionType
        /\ [Decided(route) EXCEPT !.safe = safe] \in DecisionType
  BY <1>2, <1>3 DEF Decided
<1>5. "AskClarification" \in Route
  BY DEF Route
<1> QED BY <1>1, <1>4, <1>5 DEF Fallback

(* Every step keeps the type of the decision,                              *)
LEMMA NextDecision ==
  ASSUME decision \in DecisionType, [Next]_vars
  PROVE  decision' \in DecisionType
<1>1. CASE Ingest
  BY <1>1 DEF Ingest
<1>2. CASE CollectEvidence
  BY <1>2 DEF CollectEvidence
<1>3. CASE CheckBudget
  BY <1>3 DEF CheckBudget
<1>4. CASE ChooseStrategy
  <2>1. \/ \E route \in RawFastPath(text) : decision' = Decided(route)
        \/ decision' = [Decided("ToolUse") EXCEPT !.calls = <<"http.fetch">>]
        \/ decision' = Decided(Planning.hint)
        \/ decision' = Decided("PlanThenAct")
        \/ decision' = decision
    BY <1>4 DEF ChooseStrategy
  <2>2. "ToolUse" \in Route /\ "PlanThenAct" \in Route
    BY DEF Route
  <2> QED BY <2>1, <2>2, HintsAreRoutes, DecisionsAreTyped
<1>5. CASE StoreError
  BY <1>5 DEF StoreError
<1>6. CASE EnsureContext
  BY <1>6 DEF EnsureContext
<1>7. CASE FastReply
  BY <1>7 DEF FastReply
<1>8. CASE RequestPlan
  <2>1. "PlanThenAct" \in Route
    BY DEF Route
  <2> QED BY <1>8, <2>1, DecisionsAreTyped DEF RequestPlan
<1>9. CASE Classify
  <2>1. ASSUME NEW d \in DecisionType, NEW confidence, Follow(d, confidence)
        PROVE  decision' \in DecisionType
    <3>1. d.route \in Route /\ d.safe \in BOOLEAN
      BY DEF DecisionType
    <3>2. decision' \in {d, Decided(d.route), [Decided(d.route) EXCEPT !.safe = d.safe], decision}
      BY <2>1 DEF Follow
    <3> QED BY <3>1, <3>2, DecisionsAreTyped
  <2>2. Decided(Planning.hint) \in DecisionType
    BY HintsAreRoutes, DecisionsAreTyped
  <2> QED BY <1>9, <2>1, <2>2, DecisionsAreTyped DEF Classify
<1>10. CASE RequestDecision
  BY <1>10, DecisionsAreTyped DEF RequestDecision
<1>11. CASE Act
  BY <1>11 DEF Act
<1>12. CASE StartPlan
  BY <1>12 DEF StartPlan, PlanFrame
<1>13. CASE SaveTask("save_tasks", "planned", "execute")
  BY <1>13 DEF SaveTask, PlanFrame
<1>14. CASE ExecutePlan
  BY <1>14 DEF ExecutePlan, PlanFrame
<1>15. CASE SaveTask("settle_tasks", "settled", "close_plan")
  BY <1>15 DEF SaveTask, PlanFrame
<1>16. CASE ClosePlan
  BY <1>16 DEF ClosePlan, PlanFrame
<1>17. CASE SaveAttempt
  BY <1>17 DEF SaveAttempt, PlanFrame
<1>18. CASE Integrate
  BY <1>18 DEF Integrate, PlanFrame
<1>19. CASE NextTool
  BY <1>19 DEF NextTool, ToolFrame
<1>20. CASE RunSkill
  BY <1>20 DEF RunSkill, ToolFrame
<1>21. CASE Synthesize
  BY <1>21 DEF Synthesize, ToolFrame
<1>22. CASE QueueFacts
  BY <1>22 DEF QueueFacts, EndFrame
<1>23. CASE RouteReply
  BY <1>23 DEF RouteReply, EndFrame
<1>24. CASE SafeAbort
  BY <1>24 DEF SafeAbort, EndFrame
<1>25. CASE Close
  BY <1>25 DEF Close, EndFrame
<1>26. CASE Over
  BY <1>26 DEF Over, vars
<1>27. CASE UNCHANGED vars
  BY <1>27 DEF vars
<1> QED
  BY <1>1, <1>2, <1>3, <1>4, <1>5, <1>6, <1>7, <1>8, <1>9, <1>10, <1>11, <1>12, <1>13, <1>14,
     <1>15, <1>16, <1>17, <1>18, <1>19, <1>20, <1>21, <1>22, <1>23, <1>24, <1>25, <1>26, <1>27
  DEF Next

(* The parts of TypeOK: where the turn stands and what it would answer, its*)
(* flags, the budget, the tables of a plan, and the skills.                *)
StageType == stage \in Stage
ReplyType ==
  /\ context \in [loaded : BOOLEAN, prior : BOOLEAN, evidence : BOOLEAN]
  /\ reply \in [source : Source, grounded : BOOLEAN]
PlainType ==
  /\ text \in Texts /\ shift \in BOOLEAN /\ live_evidence \in BOOLEAN
  /\ preplanned \in {"none", "local", "model"}
  /\ plan_row \in {"none", "running", "completed"} /\ saved \in Nat
  /\ user_turn \in BOOLEAN /\ assistant_turn \in BOOLEAN /\ processed \in BOOLEAN
  /\ faults \in 0..MaxFaults
LedgerType == recorded \in BOOLEAN /\ facts \in BOOLEAN
BudgetType ==
  budget \in [used_steps : Nat, used_tool_calls : Nat, used_cost : Nat, late : BOOLEAN]
TableType ==
  /\ \A n \in DOMAIN task_rows : task_rows[n] \in {"planned", "settled"}
  /\ \A n \in Ran : task_results[n] \in {"accepted", "draft", "failed"}
  /\ attempts \subseteq Ran
SkillType ==
  /\ call \in [nr : Nat, attempt : Nat]
  /\ effects \in Seq(Nat) /\ results \in Seq([nr : Nat, ok : BOOLEAN])

(* TypeOK is its parts.                                                    *)
LEMMA TypeParts ==
  TypeOK <=> /\ decision \in DecisionType /\ StageType /\ ReplyType /\ PlainType
             /\ LedgerType /\ BudgetType /\ TableType /\ SkillType
BY DEF TypeOK, DecisionType, StageType, ReplyType, PlainType, LedgerType, BudgetType,
       TableType, SkillType

(* of the stage,                                                           *)
LEMMA NextStage ==
  ASSUME StageType, [Next]_vars
  PROVE  StageType'
<1>1. CASE Ingest
  BY <1>1 DEF Ingest, StageType, Stage
<1>2. CASE CollectEvidence
  BY <1>2 DEF CollectEvidence, StageType, Stage
<1>3. CASE CheckBudget
  BY <1>3 DEF CheckBudget, StageType, Stage
<1>4. CASE ChooseStrategy
  BY <1>4 DEF ChooseStrategy, StageType, Stage
<1>5. CASE StoreError
  BY <1>5 DEF StoreError, StageType, Stage
<1>6. CASE EnsureContext
  BY <1>6 DEF EnsureContext, StageType, Stage
<1>7. CASE FastReply
  BY <1>7 DEF FastReply, StageType, Stage
<1>8. CASE RequestPlan
  BY <1>8 DEF RequestPlan, StageType, Stage
<1>9. CASE Classify
  BY <1>9 DEF Classify, Follow, StageType, Stage
<1>10. CASE RequestDecision
  BY <1>10 DEF RequestDecision, StageType, Stage
<1>11. CASE Act
  BY <1>11 DEF Act, StageType, Stage
<1>12. CASE StartPlan
  BY <1>12 DEF StartPlan, PlanFrame, StageType, Stage
<1>13. CASE SaveTask("save_tasks", "planned", "execute")
  BY <1>13 DEF SaveTask, PlanFrame, StageType, Stage
<1>14. CASE ExecutePlan
  BY <1>14 DEF ExecutePlan, PlanFrame, StageType, Stage
<1>15. CASE SaveTask("settle_tasks", "settled", "close_plan")
  BY <1>15 DEF SaveTask, PlanFrame, StageType, Stage
<1>16. CASE ClosePlan
  BY <1>16 DEF ClosePlan, PlanFrame, StageType, Stage
<1>17. CASE SaveAttempt
  BY <1>17 DEF SaveAttempt, PlanFrame, StageType, Stage
<1>18. CASE Integrate
  BY <1>18 DEF Integrate, PlanFrame, StageType, Stage
<1>19. CASE NextTool
  BY <1>19 DEF NextTool, ToolFrame, AfterTools, StageType, Stage
<1>20. CASE RunSkill
  BY <1>20 DEF RunSkill, ToolFrame, Return, StageType, Stage
<1>21. CASE Synthesize
  BY <1>21 DEF Synthesize, ToolFrame, StageType, Stage
<1>22. CASE QueueFacts
  BY <1>22 DEF QueueFacts, EndFrame, StageType, Stage
<1>23. CASE RouteReply
  BY <1>23 DEF RouteReply, EndFrame, StageType, Stage
<1>24. CASE SafeAbort
  BY <1>24 DEF SafeAbort, EndFrame, StageType, Stage
<1>25. CASE Close
  BY <1>25 DEF Close, EndFrame, StageType, Stage
<1>26. CASE Over
  BY <1>26 DEF Over, vars, StageType, Stage
<1>27. CASE UNCHANGED vars
  BY <1>27 DEF vars, StageType, Stage
<1> QED
  BY <1>1, <1>2, <1>3, <1>4, <1>5, <1>6, <1>7, <1>8, <1>9, <1>10, <1>11, <1>12, <1>13, <1>14,
     <1>15, <1>16, <1>17, <1>18, <1>19, <1>20, <1>21, <1>22, <1>23, <1>24, <1>25, <1>26, <1>27
  DEF Next

(* A reply that is grounded just when a flag says so is a reply.           *)
LEMMA ReplyFrom ==
  ASSUME NEW source \in Source, NEW grounded \in BOOLEAN
  PROVE  [source |-> source, grounded |-> grounded] \in [source : Source, grounded : BOOLEAN]
OBVIOUS

(* The sources of the replies that the steps name.                         *)
LEMMA Sources ==
  {"canned", "fast_reply", "model", "fallback", "tools", "accepted", "provisional",
   "no_artifacts", "refusal"} \subseteq Source
BY DEF Source

(* of the context and the reply,                                           *)
LEMMA NextReply ==
  ASSUME ReplyType, PlainType, [Next]_vars
  PROVE  ReplyType'
<1>1. CASE Ingest
  BY <1>1 DEF Ingest, ReplyType, PlainType
<1>2. CASE CollectEvidence
  BY <1>2 DEF CollectEvidence, ReplyType, PlainType
<1>3. CASE CheckBudget
  BY <1>3 DEF CheckBudget, ReplyType, PlainType
<1>4. CASE ChooseStrategy
  BY <1>4, ReplyFrom, Sources DEF ChooseStrategy, ReplyType, PlainType
<1>5. CASE StoreError
  BY <1>5 DEF StoreError, ReplyType, PlainType
<1>6. CASE EnsureContext
  BY <1>6 DEF EnsureContext, ReplyType, PlainType
<1>7. CASE FastReply
  BY <1>7, ReplyFrom, Sources DEF FastReply, ReplyType, PlainType
<1>8. CASE RequestPlan
  BY <1>8 DEF RequestPlan, ReplyType, PlainType
<1>9. CASE Classify
  BY <1>9 DEF Classify, ReplyType, PlainType
<1>10. CASE RequestDecision
  BY <1>10, ReplyFrom, Sources DEF RequestDecision, ReplyType, PlainType
<1>11. CASE Act
  BY <1>11 DEF Act, ReplyType, PlainType
<1>12. CASE StartPlan
  BY <1>12 DEF StartPlan, PlanFrame, ReplyType, PlainType
<1>13. CASE SaveTask("save_tasks", "planned", "execute")
  BY <1>13 DEF SaveTask, PlanFrame, ReplyType, PlainType
<1>14. CASE ExecutePlan
  BY <1>14 DEF ExecutePlan, PlanFrame, ReplyType, PlainType
<1>15. CASE SaveTask("settle_tasks", "settled", "close_plan")
  BY <1>15 DEF SaveTask, PlanFrame, ReplyType, PlainType
<1>16. CASE ClosePlan
  BY <1>16 DEF ClosePlan, PlanFrame, ReplyType, PlainType
<1>17. CASE SaveAttempt
  BY <1>17 DEF SaveAttempt, PlanFrame, ReplyType, PlainType
<1>18. CASE Integrate
  BY <1>18, ReplyFrom, Sources DEF Integrate, PlanFrame, ReplyType, PlainType
<1>19. CASE NextTool
  BY <1>19 DEF NextTool, ToolFrame, ReplyType, PlainType
<1>20. CASE RunSkill
  BY <1>20 DEF RunSkill, ToolFrame, ReplyType, PlainType
<1>21. CASE Synthesize
  BY <1>21, ReplyFrom, Sources DEF Synthesize, ToolFrame, ReplyType, PlainType
<1>22. CASE QueueFacts
  BY <1>22 DEF QueueFacts, EndFrame, ReplyType, PlainType
<1>23. CASE RouteReply
  BY <1>23, ReplyFrom, Sources DEF RouteReply, EndFrame, ReplyType, PlainType
<1>24. CASE SafeAbort
  BY <1>24 DEF SafeAbort, EndFrame, ReplyType, PlainType
<1>25. CASE Close
  BY <1>25 DEF Close, EndFrame, ReplyType, PlainType
<1>26. CASE Over
  BY <1>26 DEF Over, vars, ReplyType, PlainType
<1>27. CASE UNCHANGED vars
  BY <1>27 DEF vars, ReplyType, PlainType
<1> QED
  BY <1>1, <1>2, <1>3, <1>4, <1>5, <1>6, <1>7, <1>8, <1>9, <1>10, <1>11, <1>12, <1>13, <1>14,
     <1>15, <1>16, <1>17, <1>18, <1>19, <1>20, <1>21, <1>22, <1>23, <1>24, <1>25, <1>26, <1>27
  DEF Next

(* of the flags,                                                           *)
LEMMA NextPlain ==
  ASSUME PlainType, [Next]_vars
  PROVE  PlainType'
<1>1. CASE Ingest
  BY <1>1 DEF Ingest, planVars, rowVars, PlainType
<1>2. CASE CollectEvidence
  BY <1>2 DEF CollectEvidence, planVars, rowVars, PlainType
<1>3. CASE CheckBudget
  BY <1>3 DEF CheckBudget, planVars, rowVars, PlainType
<1>4. CASE ChooseStrategy
  BY <1>4 DEF ChooseStrategy, planVars, rowVars, PlainType
<1>5. CASE StoreError
  BY <1>5, TurnAssumption DEF StoreError, planVars, rowVars, PlainType
<1>6. CASE EnsureContext
  BY <1>6 DEF EnsureContext, planVars, rowVars, PlainType
<1>7. CASE FastReply
  BY <1>7 DEF FastReply, planVars, rowVars, PlainType
<1>8. CASE RequestPlan
  BY <1>8 DEF RequestPlan, planVars, rowVars, PlainType
<1>9. CASE Classify
  BY <1>9 DEF Classify, planVars, rowVars, PlainType
<1>10. CASE RequestDecision
  BY <1>10 DEF RequestDecision, planVars, rowVars, PlainType
<1>11. CASE Act
  BY <1>11 DEF Act, planVars, rowVars, PlainType
<1>12. CASE StartPlan
  BY <1>12 DEF StartPlan, PlanFrame, planVars, rowVars, PlainType
<1>13. CASE SaveTask("save_tasks", "planned", "execute")
  BY <1>13 DEF SaveTask, PlanFrame, planVars, rowVars, PlainType
<1>14. CASE ExecutePlan
  BY <1>14 DEF ExecutePlan, PlanFrame, planVars, rowVars, PlainType
<1>15. CASE SaveTask("settle_tasks", "settled", "close_plan")
  BY <1>15 DEF SaveTask, PlanFrame, planVars, rowVars, PlainType
<1>16. CASE ClosePlan
  BY <1>16 DEF ClosePlan, PlanFrame, planVars, rowVars, PlainType
<1>17. CASE SaveAttempt
  BY <1>17 DEF SaveAttempt, PlanFrame, planVars, rowVars, PlainType
<1>18. CASE Integrate
  BY <1>18 DEF Integrate, PlanFrame, planVars, rowVars, PlainType
<1>19. CASE NextTool
  BY <1>19 DEF NextTool, ToolFrame, planVars, rowVars, PlainType
<1>20. CASE RunSkill
  BY <1>20 DEF RunSkill, ToolFrame, planVars, rowVars, PlainType
<1>21. CASE Synthesize
  BY <1>21 DEF Synthesize, ToolFrame, planVars, rowVars, PlainType
<1>22. CASE QueueFacts
  BY <1>22 DEF QueueFacts, EndFrame, planVars, rowVars, PlainType
<1>23. CASE RouteReply
  BY <1>23 DEF RouteReply, EndFrame, planVars, rowVars, PlainType
<1>24. CASE SafeAbort
  BY <1>24 DEF SafeAbort, EndFrame, planVars, rowVars, PlainType
<1>25. CASE Close
  BY <1>25 DEF Close, EndFrame, planVars, rowVars, PlainType
<1>26. CASE Over
  BY <1>26 DEF Over, vars, planVars, rowVars, PlainType
<1>27. CASE UNCHANGED vars
  BY <1>27 DEF vars, planVars, rowVars, PlainType
<1> QED
  BY <1>1, <1>2, <1>3, <1>4, <1>5, <1>6, <1>7, <1>8, <1>9, <1>10, <1>11, <1>12, <1>13, <1>14,
     <1>15, <1>16, <1>17, <1>18, <1>19, <1>20, <1>21, <1>22, <1>23, <1>24, <1>25, <1>26, <1>27
  DEF Next

(* of the ledgers,                                                         *)
LEMMA NextLedger ==
  ASSUME decision \in DecisionType, LedgerType, [Next]_vars
  PROVE  LedgerType'
<1>1. CASE Ingest
  BY <1>1 DEF Ingest, ledgerVars, LedgerType, DecisionType
<1>2. CASE CollectEvidence
  BY <1>2 DEF CollectEvidence, ledgerVars, LedgerType, DecisionType
<1>3. CASE CheckBudget
  BY <1>3 DEF CheckBudget, ledgerVars, LedgerType, DecisionType
<1>4. CASE ChooseStrategy
  BY <1>4 DEF ChooseStrategy, ledgerVars, LedgerType, DecisionType
<1>5. CASE StoreError
  BY <1>5 DEF StoreError, ledgerVars, LedgerType, DecisionType
<1>6. CASE EnsureContext
  BY <1>6 DEF EnsureContext, ledgerVars, LedgerType, DecisionType
<1>7. CASE FastReply
  BY <1>7 DEF FastReply, ledgerVars, LedgerType, DecisionType
<1>8. CASE RequestPlan
  BY <1>8 DEF RequestPlan, JsonAnswer, ledgerVars, LedgerType, DecisionType
<1>9. CASE Classify
  BY <1>9 DEF Classify, JsonAnswer, ledgerVars, LedgerType, DecisionType
<1>10. CASE RequestDecision
  BY <1>10 DEF RequestDecision, JsonAnswer, ledgerVars, LedgerType, DecisionType
<1>11. CASE Act
  BY <1>11 DEF Act, ledgerVars, LedgerType, DecisionType
<1>12. CASE StartPlan
  BY <1>12 DEF StartPlan, PlanFrame, ledgerVars, LedgerType, DecisionType
<1>13. CASE SaveTask("save_tasks", "planned", "execute")
  BY <1>13 DEF SaveTask, PlanFrame, ledgerVars, LedgerType, DecisionType
<1>14. CASE ExecutePlan
  BY <1>14 DEF ExecutePlan, PlanFrame, ledgerVars, LedgerType, DecisionType
<1>15. CASE SaveTask("settle_tasks", "settled", "close_plan")
  BY <1>15 DEF SaveTask, PlanFrame, ledgerVars, LedgerType, DecisionType
<1>16. CASE ClosePlan
  BY <1>16 DEF ClosePlan, PlanFrame, ledgerVars, LedgerType, DecisionType
<1>17. CASE SaveAttempt
  BY <1>17 DEF SaveAttempt, PlanFrame, ledgerVars, LedgerType, DecisionType
<1>18. CASE Integrate
  BY <1>18 DEF Integrate, PlanFrame, ledgerVars, LedgerType, DecisionType
<1>19. CASE NextTool
  BY <1>19 DEF NextTool, ToolFrame, ledgerVars, LedgerType, DecisionType
<1>20. CASE RunSkill
  BY <1>20 DEF RunSkill, ToolFrame, ledgerVars, LedgerType, DecisionType
<1>21. CASE Synthesize
  BY <1>21 DEF Synthesize, ToolFrame, ledgerVars, LedgerType, DecisionType
<1>22. CASE QueueFacts
  BY <1>22 DEF QueueFacts, EndFrame, ledgerVars, LedgerType, DecisionType
<1>23. CASE RouteReply
  BY <1>23 DEF RouteReply, EndFrame, ledgerVars, LedgerType, DecisionType
<1>24. CASE SafeAbort
  BY <1>24 DEF SafeAbort, EndFrame, ledgerVars, LedgerType, DecisionType
<1>25. CASE Close
  BY <1>25 DEF Close, EndFrame, ledgerVars, LedgerType, DecisionType
<1>26. CASE Over
  BY <1>26 DEF Over, vars, ledgerVars, LedgerType, DecisionType
<1>27. CASE UNCHANGED vars
  BY <1>27 DEF vars, ledgerVars, LedgerType, DecisionType
<1> QED
  BY <1>1, <1>2, <1>3, <1>4, <1>5, <1>6, <1>7, <1>8, <1>9, <1>10, <1>11, <1>12, <1>13, <1>14,
     <1>15, <1>16, <1>17, <1>18, <1>19, <1>20, <1>21, <1>22, <1>23, <1>24, <1>25, <1>26, <1>27
  DEF Next

(* A part of the budget consumed leaves a budget, with no tool call less.  *)
LEMMA BudgetStep ==
  ASSUME BudgetType, NEW ok,
         \/ consume_step(ok) \/ consume_tool_call(ok)
         \/ \E cost \in {0, 1} : add_cost(cost, ok)
  PROVE  BudgetType' /\ budget'.used_tool_calls >= budget.used_tool_calls
<1>1. Late \subseteq BOOLEAN
  BY DEF Late
<1>2. /\ budget.used_steps + 1 \in Nat /\ budget.used_tool_calls + 1 \in Nat
      /\ budget.used_tool_calls \in Nat
      /\ \A cost \in {0, 1} : budget.used_cost + cost \in Nat
  BY DEF BudgetType
<1>3. CASE consume_step(ok)
  <2>1. PICK late \in BOOLEAN : budget' = [budget EXCEPT !.used_steps = @ + 1, !.late = late]
    BY <1>1, <1>3 DEF consume_step
  <2>2. PICK n \in Nat : n = budget.used_steps + 1
    BY <1>2
  <2>3. budget' = [budget EXCEPT !.used_steps = n, !.late = late]
    BY <2>1, <2>2
  <2>4. BudgetType' /\ budget'.used_tool_calls = budget.used_tool_calls
    BY <2>3 DEF BudgetType
  <2> QED BY <1>2, <2>4
<1>4. CASE consume_tool_call(ok)
  <2>1. PICK late \in BOOLEAN :
          budget' = [budget EXCEPT !.used_tool_calls = @ + 1, !.late = late]
    BY <1>1, <1>4 DEF consume_tool_call
  <2>2. PICK n \in Nat : n = budget.used_tool_calls + 1
    BY <1>2
  <2>3. budget' = [budget EXCEPT !.used_tool_calls = n, !.late = late]
    BY <2>1, <2>2
  <2>4. BudgetType' /\ budget'.used_tool_calls = n
    BY <2>3 DEF BudgetType
  <2> QED BY <1>2, <2>2, <2>4
<1>5. CASE \E cost \in {0, 1} : add_cost(cost, ok)
  <2>1. PICK cost \in {0, 1}, late \in BOOLEAN :
          budget' = [budget EXCEPT !.used_cost = @ + cost, !.late = late]
    BY <1>1, <1>5 DEF add_cost
  <2>2. PICK n \in Nat : n = budget.used_cost + cost
    BY <1>2
  <2>3. budget' = [budget EXCEPT !.used_cost = n, !.late = late]
    BY <2>1, <2>2
  <2>4. BudgetType' /\ budget'.used_tool_calls = budget.used_tool_calls
    BY <2>3 DEF BudgetType
  <2> QED BY <1>2, <2>4
<1> QED BY <1>3, <1>4, <1>5

(* of the budget, which only grows,                                        *)
LEMMA NextBudget ==
  ASSUME BudgetType, [Next]_vars
  PROVE  BudgetType' /\ budget'.used_tool_calls >= budget.used_tool_calls
<1>nat. budget.used_tool_calls \in Nat
  BY DEF BudgetType
<1>1. CASE Ingest
  BY <1>1 DEF Ingest, BudgetType
<1>2. CASE CollectEvidence
  BY <1>2 DEF CollectEvidence, BudgetType
<1>3. CASE CheckBudget
  BY <1>3, BudgetStep DEF CheckBudget, BudgetType
<1>4. CASE ChooseStrategy
  BY <1>4 DEF ChooseStrategy, BudgetType
<1>5. CASE StoreError
  BY <1>5 DEF StoreError, BudgetType
<1>6. CASE EnsureContext
  BY <1>6 DEF EnsureContext, BudgetType
<1>7. CASE FastReply
  BY <1>7, BudgetStep DEF FastReply, BudgetType
<1>8. CASE RequestPlan
  BY <1>8, BudgetStep DEF RequestPlan, BudgetType
<1>9. CASE Classify
  BY <1>9 DEF Classify, BudgetType
<1>10. CASE RequestDecision
  BY <1>10 DEF RequestDecision, BudgetType
<1>11. CASE Act
  BY <1>11 DEF Act, BudgetType
<1>12. CASE StartPlan
  BY <1>12 DEF StartPlan, PlanFrame, BudgetType
<1>13. CASE SaveTask("save_tasks", "planned", "execute")
  BY <1>13 DEF SaveTask, PlanFrame, BudgetType
<1>14. CASE ExecutePlan
  BY <1>14 DEF ExecutePlan, PlanFrame, BudgetType
<1>15. CASE SaveTask("settle_tasks", "settled", "close_plan")
  BY <1>15 DEF SaveTask, PlanFrame, BudgetType
<1>16. CASE ClosePlan
  BY <1>16 DEF ClosePlan, PlanFrame, BudgetType
<1>17. CASE SaveAttempt
  BY <1>17 DEF SaveAttempt, PlanFrame, BudgetType
<1>18. CASE Integrate
  BY <1>18 DEF Integrate, PlanFrame, BudgetType
<1>19. CASE NextTool
  <2>1. \/ UNCHANGED budget
        \/ \E ok \in BOOLEAN : consume_step(ok) \/ consume_tool_call(ok)
    BY <1>19 DEF NextTool, AfterTools
  <2>2. CASE UNCHANGED budget
    BY <1>nat, <2>2 DEF BudgetType
  <2>3. CASE \E ok \in BOOLEAN : consume_step(ok) \/ consume_tool_call(ok)
    BY <2>3, BudgetStep
  <2> QED BY <2>1, <2>2, <2>3
<1>20. CASE RunSkill
  BY <1>20 DEF RunSkill, ToolFrame, BudgetType
<1>21. CASE Synthesize
  BY <1>21, BudgetStep DEF Synthesize, BudgetType
<1>22. CASE QueueFacts
  BY <1>22 DEF QueueFacts, EndFrame, BudgetType
<1>23. CASE RouteReply
  BY <1>23 DEF RouteReply, EndFrame, BudgetType
<1>24. CASE SafeAbort
  BY <1>24 DEF SafeAbort, EndFrame, BudgetType
<1>25. CASE Close
  BY <1>25 DEF Close, EndFrame, BudgetType
<1>26. CASE Over
  BY <1>26 DEF Over, vars, BudgetType
<1>27. CASE UNCHANGED vars
  BY <1>27 DEF vars, BudgetType
<1> QED
  BY <1>1, <1>2, <1>3, <1>4, <1>5, <1>6, <1>7, <1>8, <1>9, <1>10, <1>11, <1>12, <1>13, <1>14,
     <1>15, <1>16, <1>17, <1>18, <1>19, <1>20, <1>21, <1>22, <1>23, <1>24, <1>25, <1>26, <1>27
  DEF Next

(* of the tables of a plan,                                                *)
LEMMA NextTables ==
  ASSUME AttemptInv, TableType, [Next]_vars
  PROVE  TableType'
<1>1. CASE Ingest
  BY <1>1 DEF Ingest, planVars, TableType, Ran
<1>2. CASE CollectEvidence
  BY <1>2 DEF CollectEvidence, planVars, TableType, Ran
<1>3. CASE CheckBudget
  BY <1>3 DEF CheckBudget, planVars, TableType, Ran
<1>4. CASE ChooseStrategy
  BY <1>4 DEF ChooseStrategy, planVars, TableType, Ran
<1>5. CASE StoreError
  BY <1>5 DEF StoreError, planVars, TableType, Ran
<1>6. CASE EnsureContext
  BY <1>6 DEF EnsureContext, planVars, TableType, Ran
<1>7. CASE FastReply
  BY <1>7 DEF FastReply, planVars, TableType, Ran
<1>8. CASE RequestPlan
  BY <1>8 DEF RequestPlan, planVars, TableType, Ran
<1>9. CASE Classify
  BY <1>9 DEF Classify, planVars, TableType, Ran
<1>10. CASE RequestDecision
  BY <1>10 DEF RequestDecision, planVars, TableType, Ran
<1>11. CASE Act
  BY <1>11 DEF Act, planVars, TableType, Ran
<1>12. CASE StartPlan
  BY <1>12 DEF StartPlan, PlanFrame, planVars, TableType, Ran
<1>13. CASE SaveTask("save_tasks", "planned", "execute")
  <2>1. PICK name :
          task_rows' = [n \in DOMAIN task_rows \cup {name} |->
                          IF n = name THEN "planned" ELSE task_rows[n]]
    BY <1>13 DEF SaveTask
  <2>2. \A n \in DOMAIN task_rows' : task_rows'[n] \in {"planned", "settled"}
    BY <2>1 DEF TableType
  <2>3. UNCHANGED <<task_results, attempts>>
    BY <1>13 DEF SaveTask
  <2> QED BY <2>2, <2>3 DEF TableType, Ran
<1>14. CASE ExecutePlan
  <2>1. attempts = {} /\ UNCHANGED <<task_rows, attempts>>
    BY <1>14 DEF ExecutePlan, AttemptInv, Unfinished
  <2>2. PICK outcome \in Outcomes : task_results' \in Results(outcome)
    BY <1>14 DEF ExecutePlan
  <2>3. \A n \in DOMAIN task_results' : task_results'[n] \in {"accepted", "draft", "failed"}
    BY <2>2 DEF Results
  <2> QED BY <2>1, <2>3 DEF TableType, Ran
<1>15. CASE SaveTask("settle_tasks", "settled", "close_plan")
  <2>1. PICK name :
          task_rows' = [n \in DOMAIN task_rows \cup {name} |->
                          IF n = name THEN "settled" ELSE task_rows[n]]
    BY <1>15 DEF SaveTask
  <2>2. \A n \in DOMAIN task_rows' : task_rows'[n] \in {"planned", "settled"}
    BY <2>1 DEF TableType
  <2>3. UNCHANGED <<task_results, attempts>>
    BY <1>15 DEF SaveTask
  <2> QED BY <2>2, <2>3 DEF TableType, Ran
<1>16. CASE ClosePlan
  BY <1>16 DEF ClosePlan, PlanFrame, planVars, TableType, Ran
<1>17. CASE SaveAttempt
  BY <1>17 DEF SaveAttempt, PlanFrame, planVars, TableType, Ran
<1>18. CASE Integrate
  BY <1>18 DEF Integrate, PlanFrame, planVars, TableType, Ran
<1>19. CASE NextTool
  BY <1>19 DEF NextTool, ToolFrame, planVars, TableType, Ran
<1>20. CASE RunSkill
  BY <1>20 DEF RunSkill, ToolFrame, planVars, TableType, Ran
<1>21. CASE Synthesize
  BY <1>21 DEF Synthesize, ToolFrame, planVars, TableType, Ran
<1>22. CASE QueueFacts
  BY <1>22 DEF QueueFacts, EndFrame, planVars, TableType, Ran
<1>23. CASE RouteReply
  BY <1>23 DEF RouteReply, EndFrame, planVars, TableType, Ran
<1>24. CASE SafeAbort
  BY <1>24 DEF SafeAbort, EndFrame, planVars, TableType, Ran
<1>25. CASE Close
  BY <1>25 DEF Close, EndFrame, planVars, TableType, Ran
<1>26. CASE Over
  BY <1>26 DEF Over, vars, planVars, TableType, Ran
<1>27. CASE UNCHANGED vars
  BY <1>27 DEF vars, planVars, TableType, Ran
<1> QED
  BY <1>1, <1>2, <1>3, <1>4, <1>5, <1>6, <1>7, <1>8, <1>9, <1>10, <1>11, <1>12, <1>13, <1>14,
     <1>15, <1>16, <1>17, <1>18, <1>19, <1>20, <1>21, <1>22, <1>23, <1>24, <1>25, <1>26, <1>27
  DEF Next

(* With one more effect of the call, the counts are still a sequence.      *)
LEMMA EffectsCount ==
  ASSUME SkillType
  PROVE  LET after == [effects EXCEPT ![call.nr] = @ + 1] IN
         after \in Seq(Nat) /\ Len(after) = Len(effects) /\ DOMAIN after = DOMAIN effects
<1> DEFINE after == [effects EXCEPT ![call.nr] = @ + 1]
           n == Len(effects)
<1>1. n \in Nat /\ effects \in [1..n -> Nat] /\ DOMAIN effects = 1..n /\ call.nr \in Nat
  BY DEF SkillType
<1> HIDE DEF n
<1>2. after \in [1..n -> Nat]
  <2>1. CASE call.nr \in 1..n
    <3>1. effects[call.nr] + 1 \in Nat
      BY <1>1, <2>1
    <3> QED BY <1>1, <3>1
  <2>2. CASE call.nr \notin 1..n
    BY <1>1, <2>2
  <2> QED BY <2>1, <2>2
<1> HIDE DEF after
<1>3. after \in Seq(Nat) /\ Len(after) = n /\ DOMAIN after = 1..n
  BY <1>1, <1>2
<1> QED BY <1>1, <1>3 DEF after, n

(* of the calls of skills and what they did,                               *)
LEMMA NextSkills ==
  ASSUME decision \in DecisionType, SkillType, [Next]_vars
  PROVE  SkillType'
<1>1. CASE Ingest
  BY <1>1 DEF Ingest, skillVars, SkillType
<1>2. CASE CollectEvidence
  BY <1>2 DEF CollectEvidence, skillVars, SkillType
<1>3. CASE CheckBudget
  BY <1>3 DEF CheckBudget, skillVars, SkillType
<1>4. CASE ChooseStrategy
  BY <1>4 DEF ChooseStrategy, skillVars, SkillType
<1>5. CASE StoreError
  BY <1>5 DEF StoreError, skillVars, SkillType
<1>6. CASE EnsureContext
  BY <1>6 DEF EnsureContext, skillVars, SkillType
<1>7. CASE FastReply
  BY <1>7 DEF FastReply, skillVars, SkillType
<1>8. CASE RequestPlan
  BY <1>8 DEF RequestPlan, skillVars, SkillType
<1>9. CASE Classify
  BY <1>9 DEF Classify, skillVars, SkillType
<1>10. CASE RequestDecision
  BY <1>10 DEF RequestDecision, skillVars, SkillType
<1>11. CASE Act
  BY <1>11 DEF Act, skillVars, SkillType
<1>12. CASE StartPlan
  BY <1>12 DEF StartPlan, PlanFrame, skillVars, SkillType
<1>13. CASE SaveTask("save_tasks", "planned", "execute")
  BY <1>13 DEF SaveTask, PlanFrame, skillVars, SkillType
<1>14. CASE ExecutePlan
  BY <1>14 DEF ExecutePlan, PlanFrame, skillVars, SkillType
<1>15. CASE SaveTask("settle_tasks", "settled", "close_plan")
  BY <1>15 DEF SaveTask, PlanFrame, skillVars, SkillType
<1>16. CASE ClosePlan
  BY <1>16 DEF ClosePlan, PlanFrame, skillVars, SkillType
<1>17. CASE SaveAttempt
  BY <1>17 DEF SaveAttempt, PlanFrame, skillVars, SkillType
<1>18. CASE Integrate
  BY <1>18 DEF Integrate, PlanFrame, skillVars, SkillType
<1>19. CASE NextTool
  <2>1. call.nr \in Nat /\ call.nr + 1 \in Nat /\ Len(decision.calls) \in Nat
    BY DEF SkillType, DecisionType
  <2>2. results' = results /\ effects' \in {effects, Append(effects, 0)}
        /\ call' \in {call, [nr |-> call.nr + 1, attempt |-> 0],
                     [nr |-> Len(decision.calls), attempt |-> 0]}
    BY <1>19 DEF NextTool
  <2>3. Append(effects, 0) \in Seq(Nat)
    BY DEF SkillType
  <2>4. call' \in [nr : Nat, attempt : Nat]
    BY <2>1, <2>2 DEF SkillType
  <2> QED BY <2>2, <2>3, <2>4 DEF SkillType
<1>20. CASE RunSkill
  <2>1. call.nr \in Nat /\ call.attempt \in Nat /\ call.attempt + 1 \in Nat
    BY DEF SkillType
  <2>2. call' \in {call, [call EXCEPT !.attempt = @ + 1]}
    BY <1>20 DEF RunSkill
  <2>3. call' \in [nr : Nat, attempt : Nat]
    BY <2>1, <2>2 DEF SkillType
  <2>4. results' = results \/ \E ok \in BOOLEAN : results' = Append(results, [nr |-> call.nr, ok |-> ok])
    BY <1>20 DEF RunSkill, Return
  <2>5. results' \in Seq([nr : Nat, ok : BOOLEAN])
    <3> DEFINE R == [nr : Nat, ok : BOOLEAN]
    <3>1. \A ok \in BOOLEAN : [nr |-> call.nr, ok |-> ok] \in R
      BY <2>1
    <3>2. results \in Seq(R)
      BY DEF SkillType
    <3> HIDE DEF R
    <3>3. ASSUME results' = results PROVE results' \in Seq(R)
      BY <3>2, <3>3
    <3>4. ASSUME \E ok \in BOOLEAN : results' = Append(results, [nr |-> call.nr, ok |-> ok])
          PROVE  results' \in Seq(R)
      <4>1. PICK r \in R : results' = Append(results, r)
        BY <3>1, <3>4
      <4> QED BY <3>2, <4>1
    <3>5. results' \in Seq(R)
      BY <2>4, <3>3, <3>4
    <3> QED BY <3>5 DEF R
  <2>6. effects' \in {effects, [effects EXCEPT ![call.nr] = @ + 1]}
    BY <1>20 DEF RunSkill, TookEffect
  <2>7. [effects EXCEPT ![call.nr] = @ + 1] \in Seq(Nat)
    BY EffectsCount
  <2> QED BY <2>3, <2>5, <2>6, <2>7 DEF SkillType
<1>21. CASE Synthesize
  BY <1>21 DEF Synthesize, ToolFrame, skillVars, SkillType
<1>22. CASE QueueFacts
  BY <1>22 DEF QueueFacts, EndFrame, skillVars, SkillType
<1>23. CASE RouteReply
  BY <1>23 DEF RouteReply, EndFrame, skillVars, SkillType
<1>24. CASE SafeAbort
  BY <1>24 DEF SafeAbort, EndFrame, skillVars, SkillType
<1>25. CASE Close
  BY <1>25 DEF Close, EndFrame, skillVars, SkillType
<1>26. CASE Over
  BY <1>26 DEF Over, vars, skillVars, SkillType
<1>27. CASE UNCHANGED vars
  BY <1>27 DEF vars, skillVars, SkillType
<1> QED
  BY <1>1, <1>2, <1>3, <1>4, <1>5, <1>6, <1>7, <1>8, <1>9, <1>10, <1>11, <1>12, <1>13, <1>14,
     <1>15, <1>16, <1>17, <1>18, <1>19, <1>20, <1>21, <1>22, <1>23, <1>24, <1>25, <1>26, <1>27
  DEF Next

(* and so of all.                                                          *)
LEMMA NextType ==
  ASSUME TypeOK, AttemptInv, [Next]_vars
  PROVE  TypeOK'
<1>1. /\ decision \in DecisionType /\ StageType /\ ReplyType /\ PlainType
      /\ LedgerType /\ BudgetType /\ TableType /\ SkillType
  BY TypeParts
<1>2. decision' \in DecisionType /\ StageType' /\ ReplyType' /\ PlainType'
  BY <1>1, NextDecision, NextStage, NextReply, NextPlain
<1>3. LedgerType' /\ BudgetType' /\ TableType' /\ SkillType'
  BY <1>1, NextLedger, NextBudget, NextTables, NextSkills
<1> QED
  BY <1>2, <1>3 DEF TypeOK, DecisionType, StageType, ReplyType, PlainType, LedgerType,
                    BudgetType, TableType, SkillType

-----------------------------------------------------------------------------
(* The plan                                                                *)

LEMMA PlansFit ==
  /\ \A p \in LocalPlans : IsBounded(p)
  /\ \A p \in ModelPlans : IsBounded(p)
<1>1. \A goal \in Goals : goal \in Request
  BY TurnAssumption
<1>2. \A contract \in Contracts : contract \in Seq(TaskSeed)
  BY TurnAssumption
<1>3. \A goal \in Goals : IsBounded(build_initial_plan(goal))
  BY <1>1, InitialPlanIsBounded
<1>4. \A goal \in Goals, contract \in Contracts :
        IsBounded(build_plan_from_contract(goal, contract))
  BY <1>1, <1>2, ContractPlanIsBounded
<1> QED BY <1>3, <1>4 DEF LocalPlans, ModelPlans

(* A bounded plan has a task to begin with.                                *)
LEMMA BoundedHasTasks ==
  ASSUME NEW p, IsBounded(p)
  PROVE  Len(p.tasks) \in Nat /\ Len(p.tasks) >= 2 /\ DOMAIN p.tasks = 1..Len(p.tasks)
<1>1. work_cap \in Nat
  BY CapType
<1> QED BY <1>1 DEF IsBounded

(* Every step keeps the plan within the bounds.                            *)
LEMMA NextPlan ==
  ASSUME PlainType, PlanInv, [Next]_vars
  PROVE  PlanInv'
<1>1. CASE Ingest
  BY <1>1 DEF Ingest, planVars, PlanInv, Planned, Unfinished
<1>2. CASE CollectEvidence
  BY <1>2 DEF CollectEvidence, planVars, PlanInv, Planned, Unfinished
<1>3. CASE CheckBudget
  BY <1>3 DEF CheckBudget, planVars, PlanInv, Planned, Unfinished
<1>4. CASE ChooseStrategy
  BY <1>4, PlansFit DEF ChooseStrategy, planVars, PlanInv, Planned, Unfinished
<1>5. CASE StoreError
  BY <1>5 DEF StoreError, planVars, PlanInv, Planned, Unfinished
<1>6. CASE EnsureContext
  BY <1>6 DEF EnsureContext, planVars, PlanInv, Planned, Unfinished
<1>7. CASE FastReply
  BY <1>7 DEF FastReply, planVars, PlanInv, Planned, Unfinished
<1>8. CASE RequestPlan
  BY <1>8, PlansFit DEF RequestPlan, planVars, PlanInv, Planned, Unfinished
<1>9. CASE Classify
  BY <1>9 DEF Classify, Follow, planVars, PlanInv, Planned, Unfinished
<1>10. CASE RequestDecision
  BY <1>10 DEF RequestDecision, planVars, PlanInv, Planned, Unfinished
<1>11. CASE Act
  BY <1>11 DEF Act, planVars, PlanInv, Planned, Unfinished
<1>12. CASE StartPlan
  <2>1. IsBounded(plan')
    BY <1>12, PlansFit DEF StartPlan, PlanInv
  <2>2. saved' = saved /\ saved = 0 /\ stage' = "save_tasks" /\ Len(plan'.tasks) > 0
    BY <1>12, <2>1, BoundedHasTasks DEF StartPlan, PlanInv
  <2> QED BY <2>1, <2>2 DEF PlanInv
<1>13. CASE SaveTask("save_tasks", "planned", "execute")
  <2>1. /\ stage = "save_tasks" /\ UNCHANGED <<plan, preplanned>>
        /\ \/ saved + 1 = Len(plan.tasks) /\ stage' = "execute" /\ saved' = 0
           \/ saved + 1 # Len(plan.tasks) /\ stage' = stage /\ saved' = saved + 1
    BY <1>13 DEF SaveTask
  <2>2. IsBounded(plan) /\ saved < Len(plan.tasks)
    BY <2>1 DEF PlanInv, Planned, Unfinished
  <2>3. Len(plan.tasks) \in Nat /\ saved \in Nat
    BY <2>2, BoundedHasTasks DEF PlainType
  <2> QED BY <2>1, <2>2, <2>3 DEF PlanInv
<1>14. CASE ExecutePlan
  <2>1. /\ stage = "execute" /\ stage' = "settle_tasks"
        /\ UNCHANGED <<plan, preplanned, saved>>
    BY <1>14 DEF ExecutePlan
  <2>2. IsBounded(plan) /\ saved = 0
    BY <2>1 DEF PlanInv, Planned, Unfinished
  <2> QED BY <2>1, <2>2, BoundedHasTasks DEF PlanInv
<1>15. CASE SaveTask("settle_tasks", "settled", "close_plan")
  <2>1. /\ stage = "settle_tasks" /\ UNCHANGED <<plan, preplanned>>
        /\ \/ saved + 1 = Len(plan.tasks) /\ stage' = "close_plan" /\ saved' = 0
           \/ saved + 1 # Len(plan.tasks) /\ stage' = stage /\ saved' = saved + 1
    BY <1>15 DEF SaveTask
  <2>2. IsBounded(plan) /\ saved < Len(plan.tasks)
    BY <2>1 DEF PlanInv, Planned, Unfinished
  <2>3. Len(plan.tasks) \in Nat /\ saved \in Nat
    BY <2>2, BoundedHasTasks DEF PlainType
  <2> QED BY <2>1, <2>2, <2>3 DEF PlanInv
<1>16. CASE ClosePlan
  BY <1>16 DEF ClosePlan, PlanFrame, planVars, PlanInv, Planned, Unfinished
<1>17. CASE SaveAttempt
  BY <1>17 DEF SaveAttempt, PlanFrame, planVars, PlanInv, Planned, Unfinished
<1>18. CASE Integrate
  BY <1>18 DEF Integrate, PlanFrame, planVars, PlanInv, Planned, Unfinished
<1>19. CASE NextTool
  BY <1>19 DEF NextTool, ToolFrame, AfterTools, planVars, PlanInv, Planned, Unfinished
<1>20. CASE RunSkill
  BY <1>20 DEF RunSkill, ToolFrame, Return, planVars, PlanInv, Planned, Unfinished
<1>21. CASE Synthesize
  BY <1>21 DEF Synthesize, ToolFrame, planVars, PlanInv, Planned, Unfinished
<1>22. CASE QueueFacts
  BY <1>22 DEF QueueFacts, EndFrame, planVars, PlanInv, Planned, Unfinished
<1>23. CASE RouteReply
  BY <1>23 DEF RouteReply, EndFrame, planVars, PlanInv, Planned, Unfinished
<1>24. CASE SafeAbort
  BY <1>24 DEF SafeAbort, EndFrame, planVars, PlanInv, Planned, Unfinished
<1>25. CASE Close
  BY <1>25 DEF Close, EndFrame, planVars, PlanInv, Planned, Unfinished
<1>26. CASE Over
  BY <1>26 DEF Over, vars, planVars, PlanInv, Planned, Unfinished
<1>27. CASE UNCHANGED vars
  BY <1>27 DEF vars, planVars, PlanInv, Planned, Unfinished
<1> QED
  BY <1>1, <1>2, <1>3, <1>4, <1>5, <1>6, <1>7, <1>8, <1>9, <1>10, <1>11, <1>12, <1>13, <1>14,
     <1>15, <1>16, <1>17, <1>18, <1>19, <1>20, <1>21, <1>22, <1>23, <1>24, <1>25, <1>26, <1>27
  DEF Next

(* No attempt is written before the plan has run.                          *)
LEMMA NextAttempts ==
  ASSUME AttemptInv, [Next]_vars
  PROVE  AttemptInv'
<1>1. CASE Ingest
  BY <1>1 DEF Ingest, planVars, AttemptInv, Early, Unfinished
<1>2. CASE CollectEvidence
  BY <1>2 DEF CollectEvidence, planVars, AttemptInv, Early, Unfinished
<1>3. CASE CheckBudget
  BY <1>3 DEF CheckBudget, planVars, AttemptInv, Early, Unfinished
<1>4. CASE ChooseStrategy
  BY <1>4 DEF ChooseStrategy, planVars, AttemptInv, Early, Unfinished
<1>5. CASE StoreError
  BY <1>5 DEF StoreError, planVars, AttemptInv, Early, Unfinished
<1>6. CASE EnsureContext
  BY <1>6 DEF EnsureContext, planVars, AttemptInv, Early, Unfinished
<1>7. CASE FastReply
  BY <1>7 DEF FastReply, planVars, AttemptInv, Early, Unfinished
<1>8. CASE RequestPlan
  BY <1>8 DEF RequestPlan, planVars, AttemptInv, Early, Unfinished
<1>9. CASE Classify
  BY <1>9 DEF Classify, Follow, planVars, AttemptInv, Early, Unfinished
<1>10. CASE RequestDecision
  BY <1>10 DEF RequestDecision, planVars, AttemptInv, Early, Unfinished
<1>11. CASE Act
  BY <1>11 DEF Act, planVars, AttemptInv, Early, Unfinished
<1>12. CASE StartPlan
  BY <1>12 DEF StartPlan, PlanFrame, planVars, AttemptInv, Early, Unfinished
<1>13. CASE SaveTask("save_tasks", "planned", "execute")
  BY <1>13 DEF SaveTask, PlanFrame, planVars, AttemptInv, Early, Unfinished
<1>14. CASE ExecutePlan
  BY <1>14 DEF ExecutePlan, PlanFrame, planVars, AttemptInv, Early, Unfinished
<1>15. CASE SaveTask("settle_tasks", "settled", "close_plan")
  BY <1>15 DEF SaveTask, PlanFrame, planVars, AttemptInv, Early, Unfinished
<1>16. CASE ClosePlan
  BY <1>16 DEF ClosePlan, PlanFrame, planVars, AttemptInv, Early, Unfinished
<1>17. CASE SaveAttempt
  BY <1>17 DEF SaveAttempt, PlanFrame, planVars, AttemptInv, Early, Unfinished
<1>18. CASE Integrate
  BY <1>18 DEF Integrate, PlanFrame, planVars, AttemptInv, Early, Unfinished
<1>19. CASE NextTool
  BY <1>19 DEF NextTool, ToolFrame, AfterTools, planVars, AttemptInv, Early, Unfinished
<1>20. CASE RunSkill
  BY <1>20 DEF RunSkill, ToolFrame, Return, planVars, AttemptInv, Early, Unfinished
<1>21. CASE Synthesize
  BY <1>21 DEF Synthesize, ToolFrame, planVars, AttemptInv, Early, Unfinished
<1>22. CASE QueueFacts
  BY <1>22 DEF QueueFacts, EndFrame, planVars, AttemptInv, Early, Unfinished
<1>23. CASE RouteReply
  BY <1>23 DEF RouteReply, EndFrame, planVars, AttemptInv, Early, Unfinished
<1>24. CASE SafeAbort
  BY <1>24 DEF SafeAbort, EndFrame, planVars, AttemptInv, Early, Unfinished
<1>25. CASE Close
  BY <1>25 DEF Close, EndFrame, planVars, AttemptInv, Early, Unfinished
<1>26. CASE Over
  BY <1>26 DEF Over, vars, planVars, AttemptInv, Early, Unfinished
<1>27. CASE UNCHANGED vars
  BY <1>27 DEF vars, planVars, AttemptInv, Early, Unfinished
<1> QED
  BY <1>1, <1>2, <1>3, <1>4, <1>5, <1>6, <1>7, <1>8, <1>9, <1>10, <1>11, <1>12, <1>13, <1>14,
     <1>15, <1>16, <1>17, <1>18, <1>19, <1>20, <1>21, <1>22, <1>23, <1>24, <1>25, <1>26, <1>27
  DEF Next

(* Every step keeps the rows of a plan behind its tasks.                   *)
LEMMA NextWritten ==
  ASSUME PlainType, PlanInv, WrittenInv, [Next]_vars
  PROVE  WrittenInv'
<1>1. CASE Ingest
  BY <1>1 DEF Ingest, planVars, WrittenInv, Early, Unfinished, Task, Name
<1>2. CASE CollectEvidence
  BY <1>2 DEF CollectEvidence, planVars, WrittenInv, Early, Unfinished, Task, Name
<1>3. CASE CheckBudget
  BY <1>3 DEF CheckBudget, planVars, WrittenInv, Early, Unfinished, Task, Name
<1>4. CASE ChooseStrategy
  BY <1>4 DEF ChooseStrategy, planVars, WrittenInv, Early, Unfinished, Task, Name
<1>5. CASE StoreError
  BY <1>5 DEF StoreError, planVars, WrittenInv, Early, Unfinished, Task, Name
<1>6. CASE EnsureContext
  BY <1>6 DEF EnsureContext, planVars, WrittenInv, Early, Unfinished, Task, Name
<1>7. CASE FastReply
  BY <1>7 DEF FastReply, planVars, WrittenInv, Early, Unfinished, Task, Name
<1>8. CASE RequestPlan
  BY <1>8 DEF RequestPlan, planVars, WrittenInv, Early, Unfinished, Task, Name
<1>9. CASE Classify
  BY <1>9 DEF Classify, Follow, planVars, WrittenInv, Early, Unfinished, Task, Name
<1>10. CASE RequestDecision
  BY <1>10 DEF RequestDecision, planVars, WrittenInv, Early, Unfinished, Task, Name
<1>11. CASE Act
  BY <1>11 DEF Act, planVars, WrittenInv, Early, Unfinished, Task, Name
<1>12. CASE StartPlan
  BY <1>12 DEF StartPlan, PlanFrame, planVars, WrittenInv, Early, Unfinished, Task, Name
<1>13. CASE SaveTask("save_tasks", "planned", "execute")
  BY <1>13 DEF SaveTask, PlanFrame, planVars, WrittenInv, Early, Unfinished, Task, Name
<1>14. CASE ExecutePlan
  <2>1. /\ stage = "execute" /\ stage' = "settle_tasks"
        /\ UNCHANGED <<plan, plan_row, saved, task_rows>>
    BY <1>14 DEF ExecutePlan
  <2>2. saved = 0 /\ plan_row # "completed"
    BY <2>1 DEF PlanInv, WrittenInv, Unfinished
  <2> QED BY <2>1, <2>2 DEF WrittenInv, Early, Unfinished
<1>15. CASE SaveTask("settle_tasks", "settled", "close_plan")
  <2> DEFINE name == Name(saved + 1)
  <2>1. /\ stage = "settle_tasks" /\ UNCHANGED <<plan, plan_row>>
        /\ task_rows' = [n \in DOMAIN task_rows \cup {name} |->
                           IF n = name THEN "settled" ELSE task_rows[n]]
        /\ \/ saved + 1 = Len(plan.tasks) /\ stage' = "close_plan" /\ saved' = 0
           \/ saved + 1 # Len(plan.tasks) /\ stage' = stage /\ saved' = saved + 1
    BY <1>15 DEF SaveTask
  <2>2. saved \in Nat /\ DOMAIN plan.tasks = 1..Len(plan.tasks)
    BY <2>1, BoundedHasTasks DEF PlainType, PlanInv, Planned, Unfinished
  <2>3. \A t \in 1..(saved + 1) : Name(t) \in DOMAIN task_rows' /\ task_rows'[Name(t)] = "settled"
    <3>1. \A t \in 1..saved : Name(t) \in DOMAIN task_rows /\ task_rows[Name(t)] = "settled"
      BY <2>1 DEF WrittenInv
    <3>2. ASSUME NEW t \in 1..(saved + 1)
          PROVE  t = saved + 1 \/ t \in 1..saved
      BY <2>2
    <3> HIDE DEF name
    <3>3. ASSUME NEW t \in 1..(saved + 1), Name(t) = name
          PROVE  Name(t) \in DOMAIN task_rows' /\ task_rows'[Name(t)] = "settled"
      BY <2>1, <3>3
    <3>4. ASSUME NEW t \in 1..saved
          PROVE  Name(t) \in DOMAIN task_rows' /\ task_rows'[Name(t)] = "settled"
      BY <2>1, <3>1
    <3>5. Name(saved + 1) = name
      BY DEF name
    <3> QED BY <3>2, <3>3, <3>4, <3>5
  <2>4. \A t : Name(t)' = Name(t)
    BY <2>1 DEF Name
  <2>5. plan_row # "completed"
    BY <2>1 DEF WrittenInv, Unfinished
  <2> HIDE DEF name
  <2>6. CASE saved + 1 = Len(plan.tasks) /\ stage' = "close_plan" /\ saved' = 0
    <3>1. \A t \in Task' : t \in 1..(saved + 1)
      BY <2>1, <2>2, <2>6 DEF Task
    <3> QED BY <2>1, <2>3, <2>4, <2>5, <2>6, <3>1 DEF WrittenInv, Early
  <2>7. CASE saved + 1 # Len(plan.tasks) /\ stage' = stage /\ saved' = saved + 1
    BY <2>1, <2>3, <2>4, <2>5, <2>7 DEF WrittenInv, Early
  <2> QED BY <2>1, <2>6, <2>7
<1>16. CASE ClosePlan
  BY <1>16 DEF ClosePlan, PlanFrame, planVars, WrittenInv, Early, Unfinished, Task, Name
<1>17. CASE SaveAttempt
  BY <1>17 DEF SaveAttempt, PlanFrame, planVars, WrittenInv, Early, Unfinished, Task, Name
<1>18. CASE Integrate
  BY <1>18 DEF Integrate, PlanFrame, planVars, WrittenInv, Early, Unfinished, Task, Name
<1>19. CASE NextTool
  BY <1>19 DEF NextTool, ToolFrame, AfterTools, planVars, WrittenInv, Early, Unfinished, Task, Name
<1>20. CASE RunSkill
  BY <1>20 DEF RunSkill, ToolFrame, Return, planVars, WrittenInv, Early, Unfinished, Task, Name
<1>21. CASE Synthesize
  BY <1>21 DEF Synthesize, ToolFrame, planVars, WrittenInv, Early, Unfinished, Task, Name
<1>22. CASE QueueFacts
  BY <1>22 DEF QueueFacts, EndFrame, planVars, WrittenInv, Early, Unfinished, Task, Name
<1>23. CASE RouteReply
  BY <1>23 DEF RouteReply, EndFrame, planVars, WrittenInv, Early, Unfinished, Task, Name
<1>24. CASE SafeAbort
  BY <1>24 DEF SafeAbort, EndFrame, planVars, WrittenInv, Early, Unfinished, Task, Name
<1>25. CASE Close
  BY <1>25 DEF Close, EndFrame, planVars, WrittenInv, Early, Unfinished, Task, Name
<1>26. CASE Over
  BY <1>26 DEF Over, vars, planVars, WrittenInv, Early, Unfinished, Task, Name
<1>27. CASE UNCHANGED vars
  BY <1>27 DEF vars, planVars, WrittenInv, Early, Unfinished, Task, Name
<1> QED
  BY <1>1, <1>2, <1>3, <1>4, <1>5, <1>6, <1>7, <1>8, <1>9, <1>10, <1>11, <1>12, <1>13, <1>14,
     <1>15, <1>16, <1>17, <1>18, <1>19, <1>20, <1>21, <1>22, <1>23, <1>24, <1>25, <1>26, <1>27
  DEF Next

-----------------------------------------------------------------------------
(* Evidence and refusals                                                   *)

LEMMA NextGround ==
  ASSUME GroundInv, [Next]_vars
  PROVE  GroundInv'
<1>1. CASE Ingest
  BY <1>1 DEF Ingest, rowVars, GroundInv, Planned, Unfinished
<1>2. CASE CollectEvidence
  BY <1>2 DEF CollectEvidence, rowVars, GroundInv, Planned, Unfinished
<1>3. CASE CheckBudget
  BY <1>3 DEF CheckBudget, rowVars, GroundInv, Planned, Unfinished
<1>4. CASE ChooseStrategy
  <2>1. stage = "strategy" /\ UNCHANGED <<text, live_evidence, context, user_turn>>
    BY <1>4 DEF ChooseStrategy, rowVars
  <2>2. CASE ~Required(text)
    BY <2>1, <2>2, <1>4 DEF ChooseStrategy, GroundInv, Planned, Unfinished
  <2>3. CASE Required(text)
    <3>1. RawFastPath(text) = {}
      BY <2>3 DEF RawFastPath
    <3>2. live_evidence
      BY <2>1, <2>3 DEF GroundInv
    <3>3. \/ reply' = reply /\ stage' = "act" /\ decision' = Decided("PlanThenAct")
          \/ reply' = reply /\ stage' \in {"plan", "classify"}
      BY <1>4, <3>1, <3>2 DEF ChooseStrategy, MarketTool, Contextual
    <3>4. Decided("PlanThenAct").route # "ToolUse"
      BY DEF Decided
    <3> QED BY <2>1, <2>3, <3>2, <3>3, <3>4 DEF GroundInv, Planned, Unfinished
  <2> QED BY <2>2, <2>3
<1>5. CASE StoreError
  BY <1>5 DEF StoreError, rowVars, GroundInv, Planned, Unfinished
<1>6. CASE EnsureContext
  BY <1>6 DEF EnsureContext, rowVars, GroundInv, Planned, Unfinished
<1>7. CASE FastReply
  BY <1>7 DEF FastReply, rowVars, GroundInv, Planned, Unfinished
<1>8. CASE RequestPlan
  BY <1>8 DEF RequestPlan, rowVars, GroundInv, Planned, Unfinished
<1>9. CASE Classify
  BY <1>9 DEF Classify, Follow, rowVars, GroundInv, Planned, Unfinished
<1>10. CASE RequestDecision
  BY <1>10 DEF RequestDecision, rowVars, GroundInv, Planned, Unfinished
<1>11. CASE Act
  BY <1>11 DEF Act, rowVars, GroundInv, Planned, Unfinished
<1>12. CASE StartPlan
  BY <1>12 DEF StartPlan, PlanFrame, rowVars, GroundInv, Planned, Unfinished
<1>13. CASE SaveTask("save_tasks", "planned", "execute")
  BY <1>13 DEF SaveTask, PlanFrame, rowVars, GroundInv, Planned, Unfinished
<1>14. CASE ExecutePlan
  BY <1>14 DEF ExecutePlan, PlanFrame, rowVars, GroundInv, Planned, Unfinished
<1>15. CASE SaveTask("settle_tasks", "settled", "close_plan")
  BY <1>15 DEF SaveTask, PlanFrame, rowVars, GroundInv, Planned, Unfinished
<1>16. CASE ClosePlan
  BY <1>16 DEF ClosePlan, PlanFrame, rowVars, GroundInv, Planned, Unfinished
<1>17. CASE SaveAttempt
  BY <1>17 DEF SaveAttempt, PlanFrame, rowVars, GroundInv, Planned, Unfinished
<1>18. CASE Integrate
  BY <1>18 DEF Integrate, PlanFrame, rowVars, GroundInv, Planned, Unfinished
<1>19. CASE NextTool
  BY <1>19 DEF NextTool, ToolFrame, AfterTools, rowVars, GroundInv, Planned, Unfinished
<1>20. CASE RunSkill
  BY <1>20 DEF RunSkill, ToolFrame, Return, rowVars, GroundInv, Planned, Unfinished
<1>21. CASE Synthesize
  BY <1>21 DEF Synthesize, ToolFrame, rowVars, GroundInv, Planned, Unfinished
<1>22. CASE QueueFacts
  BY <1>22 DEF QueueFacts, EndFrame, rowVars, GroundInv, Planned, Unfinished
<1>23. CASE RouteReply
  BY <1>23 DEF RouteReply, EndFrame, rowVars, GroundInv, Planned, Unfinished
<1>24. CASE SafeAbort
  BY <1>24 DEF SafeAbort, EndFrame, rowVars, GroundInv, Planned, Unfinished
<1>25. CASE Close
  BY <1>25 DEF Close, EndFrame, rowVars, GroundInv, Planned, Unfinished
<1>26. CASE Over
  BY <1>26 DEF Over, vars, rowVars, GroundInv, Planned, Unfinished
<1>27. CASE UNCHANGED vars
  BY <1>27 DEF vars, rowVars, GroundInv, Planned, Unfinished
<1> QED
  BY <1>1, <1>2, <1>3, <1>4, <1>5, <1>6, <1>7, <1>8, <1>9, <1>10, <1>11, <1>12, <1>13, <1>14,
     <1>15, <1>16, <1>17, <1>18, <1>19, <1>20, <1>21, <1>22, <1>23, <1>24, <1>25, <1>26, <1>27
  DEF Next

(* Every step keeps unsafe decisions from all answers but the refusal.     *)
LEMMA NextRefusal ==
  ASSUME RefusalInv, [Next]_vars
  PROVE  RefusalInv'
<1>1. CASE Ingest
  BY <1>1 DEF Ingest, rowVars, RefusalInv, UnsafeIsRefused
<1>2. CASE CollectEvidence
  BY <1>2 DEF CollectEvidence, rowVars, RefusalInv, UnsafeIsRefused
<1>3. CASE CheckBudget
  BY <1>3 DEF CheckBudget, rowVars, RefusalInv, UnsafeIsRefused
<1>4. CASE ChooseStrategy
  BY <1>4 DEF ChooseStrategy, rowVars, RefusalInv, UnsafeIsRefused
<1>5. CASE StoreError
  BY <1>5 DEF StoreError, rowVars, RefusalInv, UnsafeIsRefused
<1>6. CASE EnsureContext
  BY <1>6 DEF EnsureContext, rowVars, RefusalInv, UnsafeIsRefused
<1>7. CASE FastReply
  BY <1>7 DEF FastReply, rowVars, RefusalInv, UnsafeIsRefused
<1>8. CASE RequestPlan
  BY <1>8 DEF RequestPlan, rowVars, RefusalInv, UnsafeIsRefused
<1>9. CASE Classify
  BY <1>9 DEF Classify, Follow, rowVars, RefusalInv, UnsafeIsRefused
<1>10. CASE RequestDecision
  BY <1>10 DEF RequestDecision, rowVars, RefusalInv, UnsafeIsRefused
<1>11. CASE Act
  BY <1>11 DEF Act, rowVars, RefusalInv, UnsafeIsRefused
<1>12. CASE StartPlan
  BY <1>12 DEF StartPlan, PlanFrame, rowVars, RefusalInv, UnsafeIsRefused
<1>13. CASE SaveTask("save_tasks", "planned", "execute")
  BY <1>13 DEF SaveTask, PlanFrame, rowVars, RefusalInv, UnsafeIsRefused
<1>14. CASE ExecutePlan
  BY <1>14 DEF ExecutePlan, PlanFrame, rowVars, RefusalInv, UnsafeIsRefused
<1>15. CASE SaveTask("settle_tasks", "settled", "close_plan")
  BY <1>15 DEF SaveTask, PlanFrame, rowVars, RefusalInv, UnsafeIsRefused
<1>16. CASE ClosePlan
  BY <1>16 DEF ClosePlan, PlanFrame, rowVars, RefusalInv, UnsafeIsRefused
<1>17. CASE SaveAttempt
  BY <1>17 DEF SaveAttempt, PlanFrame, rowVars, RefusalInv, UnsafeIsRefused
<1>18. CASE Integrate
  BY <1>18 DEF Integrate, PlanFrame, rowVars, RefusalInv, UnsafeIsRefused
<1>19. CASE NextTool
  BY <1>19 DEF NextTool, ToolFrame, AfterTools, rowVars, RefusalInv, UnsafeIsRefused
<1>20. CASE RunSkill
  BY <1>20 DEF RunSkill, ToolFrame, Return, rowVars, RefusalInv, UnsafeIsRefused
<1>21. CASE Synthesize
  BY <1>21 DEF Synthesize, ToolFrame, rowVars, RefusalInv, UnsafeIsRefused
<1>22. CASE QueueFacts
  BY <1>22 DEF QueueFacts, EndFrame, rowVars, RefusalInv, UnsafeIsRefused
<1>23. CASE RouteReply
  BY <1>23 DEF RouteReply, EndFrame, rowVars, RefusalInv, UnsafeIsRefused
<1>24. CASE SafeAbort
  BY <1>24 DEF SafeAbort, EndFrame, rowVars, RefusalInv, UnsafeIsRefused
<1>25. CASE Close
  BY <1>25 DEF Close, EndFrame, rowVars, RefusalInv, UnsafeIsRefused
<1>26. CASE Over
  BY <1>26 DEF Over, vars, rowVars, RefusalInv, UnsafeIsRefused
<1>27. CASE UNCHANGED vars
  BY <1>27 DEF vars, rowVars, RefusalInv, UnsafeIsRefused
<1> QED
  BY <1>1, <1>2, <1>3, <1>4, <1>5, <1>6, <1>7, <1>8, <1>9, <1>10, <1>11, <1>12, <1>13, <1>14,
     <1>15, <1>16, <1>17, <1>18, <1>19, <1>20, <1>21, <1>22, <1>23, <1>24, <1>25, <1>26, <1>27
  DEF Next

-----------------------------------------------------------------------------
(* Effects                                                                 *)

Idle == call = NoCall /\ effects = <<>> /\ results = <<>>

(* The calls let through can be counted.                                   *)
LEMMA AllowedIsFinite ==
  ASSUME SkillType
  PROVE  IsFiniteSet(Allowed) /\ Cardinality(Allowed) \in Nat
<1>1. Len(effects) \in Nat /\ DOMAIN effects = 1..Len(effects)
  BY DEF SkillType
<1>2. Allowed \in SUBSET (1..Len(effects))
  BY <1>1 DEF Allowed
<1> QED BY <1>1, <1>2, PositionsAreFinite

(* Nothing has taken effect before the first call, whatever is decided.    *)
LEMMA IdleEffects ==
  ASSUME BudgetType', Idle', stage' # "skill"
  PROVE  EffectInv'
<1>1. DOMAIN effects' = {} /\ Len(effects') = 0 /\ DOMAIN results' = {} /\ call'.nr = 0
  BY DEF Idle, NoCall
<1>2. Allowed' = {}
  BY <1>1 DEF Allowed
<1>3. Cardinality(Allowed)' = 0
  BY <1>2, FS_EmptySet
<1>4. budget'.used_tool_calls \in Nat /\ MaxToolCalls \in Nat
  BY TurnAssumption DEF BudgetType
<1> QED BY <1>1, <1>3, <1>4 DEF EffectInv, Idle

(* Nor does anything take effect after the last.                           *)
LEMMA LateEffects ==
  ASSUME SkillType, BudgetType, BudgetType', EffectInv, UNCHANGED <<decision, skillVars>>,
         budget'.used_tool_calls >= budget.used_tool_calls,
         stage' \notin Early \cup Planned \cup {"tools", "skill"}
  PROVE  EffectInv'
<1>1. UNCHANGED <<decision, call, effects, results>>
  BY DEF skillVars
<1>2. Allowed' = Allowed
  BY <1>1 DEF Allowed
<1>3. /\ budget.used_tool_calls \in Nat /\ budget'.used_tool_calls \in Nat
      /\ Cardinality(Allowed) \in Nat
  BY AllowedIsFinite DEF BudgetType
<1>4. /\ Cardinality(Allowed) <= budget.used_tool_calls
      /\ Cardinality(Allowed)' = Cardinality(Allowed)
  BY <1>2 DEF EffectInv
<1>5. Cardinality(Allowed)' <= budget'.used_tool_calls
  BY <1>3, <1>4
<1>6. /\ Cardinality(Allowed)' <= MaxToolCalls
      /\ \A i \in DOMAIN effects' :
           effects'[i] <= MaxRetries + 1 /\ (effects'[i] > 0 => i \in Allowed')
      /\ \A r \in DOMAIN results' :
           results'[r].nr \in DOMAIN effects' /\ (results'[r].ok => effects'[results'[r].nr] > 0)
  BY <1>1, <1>2, <1>4 DEF EffectInv
<1>7. stage' \notin Early \cup Planned /\ stage' \notin {"tools", "skill"} /\ stage' # "skill"
  OBVIOUS
<1> QED BY <1>5, <1>6, <1>7 DEF EffectInv

(* The next call: the loop ends, the call is refused, let through, or the  *)
(* budget is used up.                                                      *)
LEMMA ToolEffects ==
  ASSUME decision \in DecisionType, SkillType, SkillType', BudgetType, BudgetType', EffectInv,
         budget'.used_tool_calls >= budget.used_tool_calls, NextTool
  PROVE  EffectInv'
<1> DEFINE nr == call.nr + 1
           used == budget.used_tool_calls
<1>1. /\ stage = "tools" /\ call.nr \in Nat /\ nr \in Nat /\ Len(decision.calls) \in Nat
      /\ used \in Nat /\ budget'.used_tool_calls \in Nat /\ Cardinality(Allowed) \in Nat
      /\ IsFiniteSet(Allowed) /\ effects \in Seq(Nat) /\ Len(effects) \in Nat
      /\ MaxRetries \in Nat /\ MaxToolCalls \in Nat
  BY AllowedIsFinite, TurnAssumption DEF SkillType, BudgetType, DecisionType, NextTool
<1>2. /\ Cardinality(Allowed) <= used /\ Cardinality(Allowed) <= MaxToolCalls
      /\ \A i \in DOMAIN effects : effects[i] <= MaxRetries + 1 /\ (effects[i] > 0 => i \in Allowed)
      /\ \A r \in DOMAIN results :
           results[r].nr \in DOMAIN effects /\ (results[r].ok => effects[results[r].nr] > 0)
  BY DEF EffectInv
<1>3. UNCHANGED <<decision, results>>
  BY DEF NextTool, ToolFrame
<1>4. "tools" \notin Early \cup Planned /\ "skill" \notin Early \cup Planned
  BY DEF Early, Planned, Unfinished
<1>5. CASE AfterTools /\ UNCHANGED <<call, effects>>
  <2>1. stage' \in {"synthesize", "writes"}
    BY <1>5 DEF AfterTools
  <2>2. stage' \notin Early \cup Planned \cup {"tools", "skill"}
    BY <2>1 DEF Early, Planned, Unfinished
  <2> QED BY <1>3, <1>5, <2>2, LateEffects DEF skillVars
<1>6. ASSUME call.nr < Len(decision.calls), effects' = Append(effects, 0)
      PROVE  /\ Len(effects) = call.nr /\ Len(effects') = nr /\ DOMAIN effects' = 1..nr
             /\ DOMAIN effects = 1..call.nr
             /\ \A i \in DOMAIN effects : effects'[i] = effects[i]
             /\ effects'[nr] = 0
             /\ \A i \in DOMAIN effects' : i \in DOMAIN effects \/ i = nr
             /\ DOMAIN effects \subseteq DOMAIN effects' /\ nr \in DOMAIN effects'
             /\ nr \notin DOMAIN effects
  <2>1. Len(effects) = call.nr
    BY <1>1, <1>6 DEF EffectInv
  <2>2. /\ effects' \in Seq(Nat) /\ Len(effects') = Len(effects) + 1
        /\ \A i \in 1..Len(effects) : effects'[i] = effects[i]
        /\ effects'[Len(effects) + 1] = 0
    BY <1>1, <1>6, AppendProperties
  <2>3. DOMAIN effects = 1..Len(effects) /\ DOMAIN effects' = 1..Len(effects')
    BY <1>1, <2>2
  <2> HIDE DEF used
  <2> QED BY <1>1, <2>1, <2>2, <2>3
<1>7. ASSUME call.nr < Len(decision.calls), effects' = Append(effects, 0)
      PROVE  /\ \A i \in DOMAIN effects' :
                  effects'[i] <= MaxRetries + 1 /\ (effects'[i] > 0 => i \in Allowed)
             /\ \A r \in DOMAIN results' :
                  results'[r].nr \in DOMAIN effects' /\ (results'[r].ok => effects'[results'[r].nr] > 0)
  <2>1. 0 <= MaxRetries + 1 /\ ~(0 > 0)
    BY <1>1
  <2> HIDE DEF nr
  <2>2. \A i \in DOMAIN effects' :
          effects'[i] <= MaxRetries + 1 /\ (effects'[i] > 0 => i \in Allowed)
    BY <1>2, <1>6, <1>7, <2>1
  <2>3. \A r \in DOMAIN results :
          results[r].nr \in DOMAIN effects' /\ (results[r].ok => effects'[results[r].nr] > 0)
    BY <1>2, <1>6, <1>7
  <2> QED BY <1>3, <2>2, <2>3
<1>8. CASE /\ call.nr < Len(decision.calls) /\ ~is_skill_allowed(Permissions, decision.calls[nr])
           /\ call' = [nr |-> nr, attempt |-> 0] /\ effects' = Append(effects, 0)
           /\ UNCHANGED <<stage, budget>>
  <2>1. Allowed' = Allowed
    <3> HIDE DEF nr
    <3> QED BY <1>3, <1>6, <1>8 DEF Allowed
  <2>2. call'.nr = nr
    BY <1>8
  <2> HIDE DEF nr
  <2>3. stage' = "tools" /\ stage' \notin Early \cup Planned
    BY <1>1, <1>4, <1>8
  <2>4. call'.nr < Len(decision'.calls) => Len(effects') = call'.nr
    BY <1>6, <1>8, <2>2
  <2>5. Cardinality(Allowed)' <= budget'.used_tool_calls /\ Cardinality(Allowed)' <= MaxToolCalls
    BY <1>2, <1>8, <2>1
  <2>6. \A i \in DOMAIN effects' :
          effects'[i] <= MaxRetries + 1 /\ (effects'[i] > 0 => i \in Allowed')
    BY <1>7, <1>8, <2>1
  <2>7. \A r \in DOMAIN results' :
          results'[r].nr \in DOMAIN effects' /\ (results'[r].ok => effects'[results'[r].nr] > 0)
    <3>1. call.nr < Len(decision.calls) /\ effects' = Append(effects, 0)
      BY <1>8
    <3> QED BY <1>7, <3>1
  <2>8. /\ stage' \in Early \cup Planned => call' = NoCall /\ effects' = <<>> /\ results' = <<>>
        /\ (stage' \in {"tools", "skill"} /\ call'.nr < Len(decision'.calls)) => Len(effects') = call'.nr
        /\ stage' = "skill" =>
             /\ Len(effects') = call'.nr /\ call'.nr \in Allowed'
             /\ call'.attempt <= MaxRetries /\ effects'[call'.nr] <= call'.attempt
    BY <2>3, <2>4
  <2> QED BY <2>5, <2>6, <2>7, <2>8 DEF EffectInv
<1>9. CASE /\ call.nr < Len(decision.calls) /\ is_skill_allowed(Permissions, decision.calls[nr])
           /\ consume_tool_call(TRUE) /\ stage' = "skill"
           /\ call' = [nr |-> nr, attempt |-> 0] /\ effects' = Append(effects, 0)
  <2>1. budget'.used_tool_calls = used + 1 /\ used + 1 <= MaxToolCalls
    BY <1>9, <1>1 DEF consume_tool_call, BudgetType
  <2>2. Allowed' = Allowed \cup {nr} /\ nr \notin Allowed
    <3> HIDE DEF nr
    <3> QED BY <1>3, <1>6, <1>9 DEF Allowed
  <2>3. Cardinality(Allowed)' = Cardinality(Allowed) + 1
    <3> HIDE DEF nr
    <3> QED BY <1>1, <2>2, FS_AddElement
  <2>4. Cardinality(Allowed)' <= budget'.used_tool_calls /\ Cardinality(Allowed)' <= MaxToolCalls
    <3> HIDE DEF nr, used
    <3> QED BY <1>1, <1>2, <2>1, <2>3
  <2>5. call'.nr = nr /\ call'.attempt = 0
    BY <1>9
  <2>6. 0 <= MaxRetries
    BY <1>1
  <2> HIDE DEF nr, used
  <2>7. stage' = "skill" /\ stage' \notin Early \cup Planned
    BY <1>4, <1>9
  <2>8. /\ Len(effects') = call'.nr /\ call'.nr \in Allowed'
        /\ call'.attempt <= MaxRetries /\ effects'[call'.nr] <= call'.attempt
    BY <1>6, <1>9, <2>2, <2>5, <2>6
  <2>9. \A i \in DOMAIN effects' :
          effects'[i] <= MaxRetries + 1 /\ (effects'[i] > 0 => i \in Allowed')
    BY <1>7, <1>9, <2>2
  <2>10. \A r \in DOMAIN results' :
          results'[r].nr \in DOMAIN effects' /\ (results'[r].ok => effects'[results'[r].nr] > 0)
    <3>1. call.nr < Len(decision.calls) /\ effects' = Append(effects, 0)
      BY <1>9
    <3> QED BY <1>7, <3>1
  <2>11. /\ stage' \in Early \cup Planned => call' = NoCall /\ effects' = <<>> /\ results' = <<>>
         /\ (stage' \in {"tools", "skill"} /\ call'.nr < Len(decision'.calls)) => Len(effects') = call'.nr
         /\ stage' = "skill" =>
              /\ Len(effects') = call'.nr /\ call'.nr \in Allowed'
              /\ call'.attempt <= MaxRetries /\ effects'[call'.nr] <= call'.attempt
    BY <2>7, <2>8
  <2> QED BY <2>4, <2>9, <2>10, <2>11 DEF EffectInv
<1>10. CASE /\ consume_tool_call(FALSE) /\ UNCHANGED <<stage, effects>>
            /\ call' = [nr |-> Len(decision.calls), attempt |-> 0]
  <2>1. Allowed' = Allowed
    BY <1>3, <1>10 DEF Allowed
  <2>2. ~(call'.nr < Len(decision'.calls))
    BY <1>1, <1>3, <1>10
  <2>3. Cardinality(Allowed)' <= budget'.used_tool_calls
    <3> HIDE DEF nr
    <3> QED BY <1>1, <1>2, <2>1
  <2> QED BY <1>1, <1>2, <1>3, <1>4, <1>10, <2>1, <2>2, <2>3 DEF EffectInv
<1> QED BY <1>5, <1>8, <1>9, <1>10 DEF NextTool

(* An attempt adds at most one effect to its call, and the attempts of a   *)
(* call are bounded.                                                       *)
LEMMA SkillEffects ==
  ASSUME SkillType, SkillType', BudgetType, EffectInv, RunSkill
  PROVE  EffectInv'
<1> DEFINE nr == call.nr
           n == effects[nr]
<1>1. /\ stage = "skill" /\ nr \in DOMAIN effects /\ Len(effects) = nr /\ nr \in Allowed
      /\ call.attempt \in Nat /\ n \in Nat /\ n <= call.attempt /\ call.attempt <= MaxRetries
      /\ MaxRetries \in Nat
  <2>1. nr \in Allowed /\ stage = "skill" /\ Len(effects) = nr /\ n <= call.attempt
        /\ call.attempt <= MaxRetries
    BY DEF RunSkill, EffectInv
  <2>2. nr \in 1..Len(effects) /\ DOMAIN effects = 1..Len(effects) /\ effects \in Seq(Nat)
    BY <2>1 DEF Allowed, SkillType
  <2>3. n \in Nat
    BY <2>2, ElementOfSeq
  <2> QED BY <2>1, <2>2, <2>3, TurnAssumption DEF SkillType
<1>2. UNCHANGED <<decision, budget>>
  BY DEF RunSkill, ToolFrame
<1>3. ASSUME NEW happened \in BOOLEAN, TookEffect(happened)
      PROVE  /\ DOMAIN effects' = DOMAIN effects /\ Len(effects') = Len(effects)
             /\ \A i \in DOMAIN effects : i # nr => effects'[i] = effects[i]
             /\ effects'[nr] = IF happened THEN n + 1 ELSE n
  <2>1. CASE ~happened
    BY <1>3, <2>1 DEF TookEffect
  <2>2. CASE happened
    <3>1. effects' = [effects EXCEPT ![nr] = @ + 1]
      BY <1>3, <2>2 DEF TookEffect
    <3> QED BY <1>1, <2>2, <3>1, EffectsCount
  <2> QED BY <2>1, <2>2
<1>4. PICK happened \in BOOLEAN : TookEffect(happened)
  BY DEF RunSkill
<1>5. Allowed' = Allowed
  BY <1>2, <1>3, <1>4 DEF Allowed
<1>6. /\ Cardinality(Allowed)' <= budget'.used_tool_calls
      /\ Cardinality(Allowed)' <= MaxToolCalls
  BY <1>2, <1>5 DEF EffectInv
<1>7. \A i \in DOMAIN effects' :
        effects'[i] <= MaxRetries + 1 /\ (effects'[i] > 0 => i \in Allowed')
  <2>1. effects'[nr] <= MaxRetries + 1
    <3> HIDE DEF n
    <3> QED BY <1>1, <1>3, <1>4
  <2>2. \A i \in DOMAIN effects :
          effects[i] <= MaxRetries + 1 /\ (effects[i] > 0 => i \in Allowed)
    BY DEF EffectInv
  <2> HIDE DEF n, nr
  <2> QED BY <1>1, <1>3, <1>4, <1>5, <2>1, <2>2
<1>8. \A r \in DOMAIN results :
        results[r].nr \in DOMAIN effects' /\ (results[r].ok => effects'[results[r].nr] > 0)
  <2>1. \A r \in DOMAIN results :
          results[r].nr \in DOMAIN effects /\ (results[r].ok => effects[results[r].nr] > 0)
    BY DEF EffectInv
  <2>2. n > 0 => effects'[nr] > 0
    <3> HIDE DEF n
    <3> QED BY <1>1, <1>3, <1>4
  <2> HIDE DEF nr
  <2>3. \A i \in DOMAIN effects : effects[i] > 0 => effects'[i] > 0
    BY <1>3, <1>4, <2>2
  <2> QED BY <1>3, <1>4, <2>1, <2>3
<1>9. ASSUME NEW ok \in BOOLEAN, Return(ok), ok => effects'[nr] > 0
      PROVE  \A r \in DOMAIN results' :
               results'[r].nr \in DOMAIN effects' /\ (results'[r].ok => effects'[results'[r].nr] > 0)
  <2> DEFINE R == [nr : Nat, ok : BOOLEAN]
             entry == [nr |-> nr, ok |-> ok]
  <2>1. results' = Append(results, entry)
    BY <1>9 DEF Return
  <2>2. results \in Seq(R) /\ entry \in R
    BY DEF SkillType
  <2>3. entry.nr = nr /\ entry.ok = ok
    OBVIOUS
  <2> HIDE DEF R, entry, nr
  <2>4. /\ Len(results') = Len(results) + 1 /\ DOMAIN results' = 1..Len(results')
        /\ DOMAIN results = 1..Len(results) /\ Len(results) \in Nat
        /\ \A i \in 1..Len(results) : results'[i] = results[i]
        /\ results'[Len(results) + 1] = entry
    <3>1. /\ results' \in Seq(R) /\ Len(results') = Len(results) + 1
          /\ \A i \in 1..Len(results) : results'[i] = results[i]
          /\ results'[Len(results) + 1] = entry
      BY <2>1, <2>2, AppendProperties
    <3>2. Len(results) \in Nat /\ DOMAIN results = 1..Len(results)
      BY <2>2
    <3>3. DOMAIN results' = 1..Len(results')
      BY <3>1
    <3> QED BY <3>1, <3>2, <3>3
  <2>5. \A r \in DOMAIN results' : r \in DOMAIN results \/ r = Len(results) + 1
    BY <2>4
  <2>6. nr \in DOMAIN effects'
    BY <1>1, <1>3, <1>4
  <2>7. \A r \in DOMAIN results : results'[r] = results[r]
    BY <2>4
  <2>8. entry.nr \in DOMAIN effects' /\ (entry.ok => effects'[entry.nr] > 0)
    BY <1>9, <2>3, <2>6
  <2> QED BY <1>8, <2>4, <2>5, <2>7, <2>8
<1>10. CASE call' = call /\ Return(FALSE)
  <2>1. stage' = "tools" /\ "tools" \notin Early \cup Planned
    BY <1>10 DEF Return, Early, Planned, Unfinished
  <2>2. Len(effects') = call'.nr
    BY <1>1, <1>3, <1>4, <1>10
  <2>3. \A r \in DOMAIN results' :
          results'[r].nr \in DOMAIN effects' /\ (results'[r].ok => effects'[results'[r].nr] > 0)
    BY <1>9, <1>10
  <2> QED BY <1>6, <1>7, <2>1, <2>2, <2>3 DEF EffectInv
<1>11. ASSUME NEW ok \in BOOLEAN, call' = [call EXCEPT !.attempt = @ + 1], Return(ok),
              ok => effects'[nr] > 0
       PROVE  EffectInv'
  <2>1. stage' = "tools" /\ "tools" \notin Early \cup Planned
    BY <1>11 DEF Return, Early, Planned, Unfinished
  <2>2. Len(effects') = call'.nr
    BY <1>1, <1>3, <1>4, <1>11 DEF SkillType
  <2>3. \A r \in DOMAIN results' :
          results'[r].nr \in DOMAIN effects' /\ (results'[r].ok => effects'[results'[r].nr] > 0)
    BY <1>9, <1>11
  <2> QED BY <1>6, <1>7, <2>1, <2>2, <2>3 DEF EffectInv
<1>12. CASE /\ call' = [call EXCEPT !.attempt = @ + 1] /\ TookEffect(TRUE)
            /\ \E valid \in BOOLEAN : Return(valid)
  <2>1. effects'[nr] > 0
    <3>1. effects'[nr] = n + 1
      BY <1>3, <1>12
    <3> HIDE DEF n
    <3> QED BY <1>1, <3>1
  <2> QED BY <1>11, <1>12, <2>1
<1>13. CASE /\ call' = [call EXCEPT !.attempt = @ + 1] /\ ~(call.attempt < MaxRetries)
            /\ Return(FALSE)
  BY <1>11, <1>13
<1>14. CASE /\ call' = [call EXCEPT !.attempt = @ + 1] /\ call.attempt < MaxRetries
            /\ UNCHANGED <<stage, results>>
  <2>1. stage' = "skill" /\ "skill" \notin Early \cup Planned
    BY <1>1, <1>14 DEF Early, Planned, Unfinished
  <2>2. call'.nr = nr /\ call'.attempt = call.attempt + 1
    BY <1>14 DEF SkillType
  <2>3. effects'[nr] <= call.attempt + 1 /\ call.attempt + 1 <= MaxRetries
    <3> HIDE DEF n
    <3> QED BY <1>1, <1>3, <1>4, <1>14
  <2>4. /\ Len(effects') = call'.nr /\ call'.nr \in Allowed'
        /\ call'.attempt <= MaxRetries /\ effects'[call'.nr] <= call'.attempt
    <3> HIDE DEF n, nr
    <3> QED BY <1>1, <1>3, <1>4, <1>5, <2>2, <2>3
  <2>5. \A r \in DOMAIN results' :
          results'[r].nr \in DOMAIN effects' /\ (results'[r].ok => effects'[results'[r].nr] > 0)
    BY <1>8, <1>14
  <2> QED BY <1>6, <1>7, <2>1, <2>4, <2>5 DEF EffectInv
<1> QED BY <1>10, <1>12, <1>13, <1>14 DEF RunSkill

(* Every step keeps effects within what was allowed and budgeted.          *)
LEMMA NextEffects ==
  ASSUME decision \in DecisionType, SkillType, BudgetType, EffectInv, [Next]_vars
  PROVE  EffectInv'
<1>types. SkillType' /\ BudgetType' /\ budget'.used_tool_calls >= budget.used_tool_calls
  BY NextSkills, NextBudget
<1>idle. ASSUME stage \in Early \cup Planned, stage' # "skill", UNCHANGED skillVars
         PROVE  EffectInv'
  <2>1. Idle
    BY <1>idle DEF EffectInv, Idle
  <2>2. Idle'
    BY <1>idle, <2>1 DEF skillVars, Idle
  <2> QED BY <1>types, <1>idle, <2>2, IdleEffects
<1>late. ASSUME UNCHANGED <<decision, skillVars>>,
                stage' \notin Early \cup Planned \cup {"tools", "skill"}
         PROVE  EffectInv'
  BY <1>types, <1>late, LateEffects
<1>1. CASE Ingest
  <2>1. stage \in Early \cup Planned /\ stage' # "skill" /\ UNCHANGED skillVars
    BY <1>1 DEF Ingest, Early, Planned, Unfinished
  <2> QED BY <1>idle, <2>1
<1>2. CASE CollectEvidence
  <2>1. stage \in Early \cup Planned /\ stage' # "skill" /\ UNCHANGED skillVars
    BY <1>2 DEF CollectEvidence, Early, Planned, Unfinished
  <2> QED BY <1>idle, <2>1
<1>3. CASE CheckBudget
  <2>1. stage \in Early \cup Planned /\ stage' # "skill" /\ UNCHANGED skillVars
    BY <1>3 DEF CheckBudget, Early, Planned, Unfinished
  <2> QED BY <1>idle, <2>1
<1>4. CASE ChooseStrategy
  <2>1. stage \in Early \cup Planned /\ stage' # "skill" /\ UNCHANGED skillVars
    BY <1>4 DEF ChooseStrategy, Early, Planned, Unfinished
  <2> QED BY <1>idle, <2>1
<1>5. CASE StoreError
  <2>1. /\ UNCHANGED <<decision, skillVars>>
        /\ stage' \notin Early \cup Planned \cup {"tools", "skill"}
    BY <1>5 DEF StoreError, Early, Planned, Unfinished
  <2> QED BY <1>late, <2>1
<1>6. CASE EnsureContext
  <2>1. stage \in Early \cup Planned /\ stage' # "skill" /\ UNCHANGED skillVars
    BY <1>6 DEF EnsureContext, Early, Planned, Unfinished
  <2> QED BY <1>idle, <2>1
<1>7. CASE FastReply
  <2>1. stage \in Early \cup Planned /\ stage' # "skill" /\ UNCHANGED skillVars
    BY <1>7 DEF FastReply, Early, Planned, Unfinished
  <2> QED BY <1>idle, <2>1
<1>8. CASE RequestPlan
  <2>1. stage \in Early \cup Planned /\ stage' # "skill" /\ UNCHANGED skillVars
    BY <1>8 DEF RequestPlan, Early, Planned, Unfinished
  <2> QED BY <1>idle, <2>1
<1>9. CASE Classify
  <2>1. stage \in Early \cup Planned /\ stage' # "skill" /\ UNCHANGED skillVars
    BY <1>9 DEF Classify, Follow, Early, Planned, Unfinished
  <2> QED BY <1>idle, <2>1
<1>10. CASE RequestDecision
  <2>1. stage \in Early \cup Planned /\ stage' # "skill" /\ UNCHANGED skillVars
    BY <1>10 DEF RequestDecision, Early, Planned, Unfinished
  <2> QED BY <1>idle, <2>1
<1>11. CASE Act
  <2>1. stage \in Early \cup Planned /\ stage' # "skill" /\ UNCHANGED skillVars
    BY <1>11 DEF Act, Early, Planned, Unfinished
  <2> QED BY <1>idle, <2>1
<1>12. CASE StartPlan
  <2>1. stage \in Early \cup Planned /\ stage' # "skill" /\ UNCHANGED skillVars
    BY <1>12 DEF StartPlan, PlanFrame, Early, Planned, Unfinished
  <2> QED BY <1>idle, <2>1
<1>13. CASE SaveTask("save_tasks", "planned", "execute")
  <2>1. stage \in Early \cup Planned /\ stage' # "skill" /\ UNCHANGED skillVars
    BY <1>13 DEF SaveTask, PlanFrame, Early, Planned, Unfinished
  <2> QED BY <1>idle, <2>1
<1>14. CASE ExecutePlan
  <2>1. stage \in Early \cup Planned /\ stage' # "skill" /\ UNCHANGED skillVars
    BY <1>14 DEF ExecutePlan, PlanFrame, Early, Planned, Unfinished
  <2> QED BY <1>idle, <2>1
<1>15. CASE SaveTask("settle_tasks", "settled", "close_plan")
  <2>1. stage \in Early \cup Planned /\ stage' # "skill" /\ UNCHANGED skillVars
    BY <1>15 DEF SaveTask, PlanFrame, Early, Planned, Unfinished
  <2> QED BY <1>idle, <2>1
<1>16. CASE ClosePlan
  <2>1. stage \in Early \cup Planned /\ stage' # "skill" /\ UNCHANGED skillVars
    BY <1>16 DEF ClosePlan, PlanFrame, Early, Planned, Unfinished
  <2> QED BY <1>idle, <2>1
<1>17. CASE SaveAttempt
  <2>1. stage \in Early \cup Planned /\ stage' # "skill" /\ UNCHANGED skillVars
    BY <1>17 DEF SaveAttempt, PlanFrame, Early, Planned, Unfinished
  <2> QED BY <1>idle, <2>1
<1>18. CASE Integrate
  <2>1. stage \in Early \cup Planned /\ stage' # "skill" /\ UNCHANGED skillVars
    BY <1>18 DEF Integrate, PlanFrame, Early, Planned, Unfinished
  <2> QED BY <1>idle, <2>1
<1>19. CASE NextTool
  BY <1>19, <1>types, ToolEffects
<1>20. CASE RunSkill
  BY <1>20, <1>types, SkillEffects
<1>21. CASE Synthesize
  <2>1. /\ UNCHANGED <<decision, skillVars>>
        /\ stage' \notin Early \cup Planned \cup {"tools", "skill"}
    BY <1>21 DEF Synthesize, ToolFrame, Early, Planned, Unfinished
  <2> QED BY <1>late, <2>1
<1>22. CASE QueueFacts
  <2>1. /\ UNCHANGED <<decision, skillVars>>
        /\ stage' \notin Early \cup Planned \cup {"tools", "skill"}
    BY <1>22 DEF QueueFacts, EndFrame, Early, Planned, Unfinished
  <2> QED BY <1>late, <2>1
<1>23. CASE RouteReply
  <2>1. /\ UNCHANGED <<decision, skillVars>>
        /\ stage' \notin Early \cup Planned \cup {"tools", "skill"}
    BY <1>23 DEF RouteReply, EndFrame, Early, Planned, Unfinished
  <2> QED BY <1>late, <2>1
<1>24. CASE SafeAbort
  <2>1. /\ UNCHANGED <<decision, skillVars>>
        /\ stage' \notin Early \cup Planned \cup {"tools", "skill"}
    BY <1>24 DEF SafeAbort, EndFrame, Early, Planned, Unfinished
  <2> QED BY <1>late, <2>1
<1>25. CASE Close
  <2>1. /\ UNCHANGED <<decision, skillVars>>
        /\ stage' \notin Early \cup Planned \cup {"tools", "skill"}
    BY <1>25 DEF Close, EndFrame, Early, Planned, Unfinished
  <2> QED BY <1>late, <2>1
<1>26. CASE Over
  <2>1. /\ UNCHANGED <<decision, skillVars, stage>>
        /\ stage' \notin Early \cup Planned \cup {"tools", "skill"}
    BY <1>26 DEF Over, vars, Ended, Early, Planned, Unfinished
  <2> QED BY <1>late, <2>1
<1>27. CASE UNCHANGED vars
  <2>1. UNCHANGED <<stage, decision, budget, call, effects, results>>
    BY <1>27 DEF vars, skillVars
  <2> QED BY <2>1 DEF EffectInv, Allowed
<1> QED
  BY <1>1, <1>2, <1>3, <1>4, <1>5, <1>6, <1>7, <1>8, <1>9, <1>10, <1>11, <1>12, <1>13, <1>14,
     <1>15, <1>16, <1>17, <1>18, <1>19, <1>20, <1>21, <1>22, <1>23, <1>24, <1>25, <1>26, <1>27
  DEF Next


-----------------------------------------------------------------------------
(* The invariant                                                           *)

LEMMA NothingIsAllowedYet ==
  ASSUME effects = <<>>
  PROVE  Allowed = {} /\ Cardinality(Allowed) = 0
<1>1. DOMAIN effects = {}
  OBVIOUS
<1>2. Allowed = {}
  BY <1>1 DEF Allowed
<1> QED BY <1>2, FS_EmptySet

(* The invariant holds before the turn begins,                             *)
LEMMA InitInv == Init => IInv
<1> SUFFICES ASSUME Init PROVE IInv
  OBVIOUS
<1>1. decision \in DecisionType
  BY DecisionsAreTyped DEF Init
<1>2. StageType /\ ReplyType /\ PlainType /\ LedgerType /\ BudgetType
  <2>1. StageType /\ LedgerType
    BY DEF Init, StageType, LedgerType, Stage
  <2>2. ReplyType
    BY DEF Init, ReplyType, Source, NoContext, NoReply
  <2>3. PlainType
    <3>1. 0 \in 0..MaxFaults
      BY TurnAssumption
    <3>2. /\ text \in Texts /\ shift \in BOOLEAN /\ live_evidence \in BOOLEAN
          /\ preplanned = "none" /\ plan_row = "none" /\ saved \in Nat
          /\ user_turn \in BOOLEAN /\ assistant_turn \in BOOLEAN /\ processed \in BOOLEAN
          /\ faults = 0
      BY DEF Init
    <3> QED BY <3>1, <3>2 DEF PlainType
  <2>4. BudgetType
    BY DEF Init, BudgetType
  <2> QED BY <2>1, <2>2, <2>3, <2>4
<1>3. TableType /\ SkillType
  <2>1. DOMAIN task_rows = {} /\ DOMAIN task_results = {} /\ attempts = {}
    BY DEF Init
  <2>2. call \in [nr : Nat, attempt : Nat]
    BY DEF Init, NoCall
  <2>3. effects \in Seq(Nat) /\ results \in Seq([nr : Nat, ok : BOOLEAN])
    BY DEF Init
  <2> QED BY <2>1, <2>2, <2>3 DEF TableType, SkillType, Ran
<1>4. TypeOK
  BY <1>1, <1>2, <1>3, TypeParts
<1>5. PlanInv
  BY DEF Init, PlanInv, Planned, Unfinished
<1>6. WrittenInv
  BY DEF Init, WrittenInv, Early, Unfinished
<1>7. AttemptInv
  BY DEF Init, AttemptInv
<1>8. GroundInv
  BY DEF Init, GroundInv, Planned, Unfinished, NoContext, NoReply
<1>9. EffectInv
  <2>1. effects = <<>> /\ results = <<>> /\ call = NoCall /\ stage = "ingest"
        /\ budget.used_tool_calls = 0
    BY DEF Init
  <2>2. Cardinality(Allowed) = 0
    BY <2>1, NothingIsAllowedYet
  <2>3. DOMAIN effects = {} /\ DOMAIN results = {}
    BY <2>1
  <2>4. Cardinality(Allowed) <= budget.used_tool_calls /\ Cardinality(Allowed) <= MaxToolCalls
    BY <2>1, <2>2, TurnAssumption
  <2> QED BY <2>1, <2>3, <2>4 DEF EffectInv, Early, Planned, Unfinished
<1>10. RefusalInv
  BY DEF Init, RefusalInv, UnsafeIsRefused
<1> QED BY <1>4, <1>5, <1>6, <1>7, <1>8, <1>9, <1>10 DEF IInv

(* and every step keeps it.                                                *)
LEMMA NextInv == IInv /\ [Next]_vars => IInv'
<1> SUFFICES ASSUME IInv, [Next]_vars PROVE IInv'
  OBVIOUS
<1>1. /\ TypeOK /\ PlanInv /\ WrittenInv /\ AttemptInv /\ GroundInv /\ EffectInv /\ RefusalInv
      /\ decision \in DecisionType /\ PlainType /\ SkillType /\ BudgetType
  BY TypeParts DEF IInv
<1>2. TypeOK'
  BY <1>1, NextType
<1>3. PlanInv' /\ WrittenInv' /\ AttemptInv'
  BY <1>1, NextPlan, NextWritten, NextAttempts
<1>4. GroundInv' /\ EffectInv' /\ RefusalInv'
  BY <1>1, NextGround, NextEffects, NextRefusal
<1> QED BY <1>2, <1>3, <1>4 DEF IInv

(* Every conjunct of the invariant holds of every reachable state.         *)
THEOREM InvariantHolds == Spec => []IInv
BY InitInv, NextInv, PTL DEF Spec

-----------------------------------------------------------------------------
(* What follows from it                                                    *)

(* The state of a turn has its type, whatever the models answer.           *)
THEOREM TypeCorrect == Spec => []TypeOK
<1>1. IInv => TypeOK
  BY DEF IInv
<1> QED BY <1>1, InvariantHolds, PTL

(* A message that calls for current data is never answered from a canned   *)
(* text or from the turns before; what answers it has the evidence.        *)
THEOREM CurrentDataIsCited == Spec => []CurrentAnswersHaveSources
<1>1. IInv => CurrentAnswersHaveSources
  <2> SUFFICES ASSUME IInv, stage = "answered", Required(text)
               PROVE  /\ live_evidence
                      /\ reply.source \notin {"canned", "fast_reply"}
                      /\ reply.source \in {"model", "accepted", "provisional"} =>
                           reply.grounded
                      /\ reply.source = "tools" => context.evidence
    BY DEF CurrentAnswersHaveSources
  <2> QED BY DEF IInv, GroundInv
<1> QED BY <1>1, InvariantHolds, PTL

(* The row of a plan says completed only behind the final rows of all its  *)
(* tasks, at whatever call of the store the turn fails.                    *)
THEOREM PlansAreClosedLast == Spec => []CompletedPlansAreWritten
<1>1. IInv => CompletedPlansAreWritten
  BY DEF IInv, WrittenInv, CompletedPlansAreWritten
<1> QED BY <1>1, InvariantHolds, PTL

(* No plan, of the request or of any contract of a model, is larger than   *)
(* the team's settings, for all settings and rosters; each ends with the   *)
(* integration of all its tasks, and none waits for what is not in it.     *)
THEOREM PlansStayWithinBounds == Spec => []PlansAreBounded
<1>1. work_cap + 1 <= IF PlanMaxTasks < 2 THEN 2 ELSE PlanMaxTasks
  BY PlannerAssumption DEF work_cap
<1>2. IInv => PlansAreBounded
  <2> SUFFICES ASSUME IInv, plan # NoPlan PROVE PlansAreBounded
    BY DEF PlansAreBounded
  <2>1. IsBounded(plan)
    BY DEF IInv, PlanInv
  <2> QED BY <2>1, <1>1 DEF IsBounded, PlansAreBounded, Task, Name
<1> QED BY <1>2, InvariantHolds, PTL

(* Skills take effect only where they are allowed, on no more calls than   *)
(* the budget has, and no oftener each than its manifest retries it.       *)
THEOREM SkillsAreBounded == Spec => []EffectsAreBounded
<1>1. IInv => EffectsAreBounded
  <2> SUFFICES ASSUME IInv PROVE EffectsAreBounded
    OBVIOUS
  <2> DEFINE took == {i \in DOMAIN effects : effects[i] > 0}
  <2>1. SkillType /\ EffectInv
    BY TypeParts DEF IInv
  <2>2. \A i \in DOMAIN effects : effects[i] > 0 => i \in Allowed
    BY <2>1 DEF EffectInv
  <2>3. took \subseteq Allowed
    BY <2>2
  <2>4. IsFiniteSet(Allowed) /\ Cardinality(Allowed) \in Nat
    BY <2>1, AllowedIsFinite
  <2>5. Cardinality(took) <= Cardinality(Allowed) /\ Cardinality(took) \in Nat
    BY <2>3, <2>4, FS_Subset, FS_CardinalityType
  <2>6. Cardinality(Allowed) <= MaxToolCalls
    BY <2>1 DEF EffectInv
  <2>7. Cardinality(took) <= MaxToolCalls
    <3> HIDE DEF took
    <3> QED BY <2>4, <2>5, <2>6, TurnAssumption
  <2>8. \A i \in DOMAIN effects :
          /\ effects[i] <= MaxRetries + 1
          /\ effects[i] > 0 => is_skill_allowed(Permissions, decision.calls[i])
    BY <2>1, <2>2 DEF EffectInv, Allowed
  <2>9. \A r \in DOMAIN results : results[r].ok => effects[results[r].nr] > 0
    BY <2>1 DEF EffectInv
  <2> QED BY <2>7, <2>8, <2>9 DEF EffectsAreBounded
<1> QED BY <1>1, InvariantHolds, PTL

(* An unsafe decision is answered by the refusal and never ignored.        *)
THEOREM UnsafeDecisionsAreRefused == Spec => []UnsafeIsRefused
<1>1. IInv => UnsafeIsRefused
  BY DEF IInv, RefusalInv
<1> QED BY <1>1, InvariantHolds, PTL

(* The fixed address for prices is never asked, in any configuration: the  *)
(* messages that would lead to it are all stopped by their evidence.       *)
THEOREM MarketToolIsNeverUsed == Spec => []MarketToolIsIdle
<1>1. IInv => MarketToolIsIdle
  <2> SUFFICES ASSUME IInv, stage = "strategy", Has(text, {"bitcoin", "solana"})
               PROVE  live_evidence
    BY DEF MarketToolIsIdle, MarketTool, deterministic_market_tool_decision
  <2>1. Has(text, {"bitcoin", "solana", "trading", "cotiza"})
    BY DEF Has
  <2>2. Required(text)
    BY <2>1 DEF Required, detect_current_data_requirement
  <2>3. ~user_turn
    BY DEF IInv, RefusalInv
  <2> QED BY <2>2, <2>3 DEF IInv, GroundInv
<1> QED BY <1>1, InvariantHolds, PTL

-----------------------------------------------------------------------------
(* The order of the work                                                   *)

(* The levels of the plan at hand are an order of its tasks, and one made  *)
(* of the request alone has them.                                          *)
SoundInv == IsSound(plan) /\ (preplanned = "local" => HasLevels(plan))

(* The plan at hand stays, or one is made of the request or of a contract. *)
LEMMA PlanChanges ==
  ASSUME [Next]_vars
  PROVE  \/ UNCHANGED <<plan, preplanned>>
         \/ preplanned' = "local" /\ plan' \in LocalPlans
         \/ preplanned' = "model" /\ plan' \in ModelPlans
<1>1. CASE Ingest \/ CollectEvidence \/ CheckBudget
  BY <1>1 DEF Ingest, CollectEvidence, CheckBudget, planVars
<1>2. CASE ChooseStrategy
  BY <1>2 DEF ChooseStrategy
<1>3. CASE StoreError \/ EnsureContext \/ FastReply
  BY <1>3 DEF StoreError, EnsureContext, FastReply, planVars
<1>4. CASE RequestPlan
  BY <1>4 DEF RequestPlan
<1>5. CASE Classify \/ RequestDecision \/ Act
  BY <1>5 DEF Classify, RequestDecision, Act, planVars
<1>6. CASE StartPlan
  BY <1>6 DEF StartPlan
<1>7. CASE \/ SaveTask("save_tasks", "planned", "execute") \/ ExecutePlan
           \/ SaveTask("settle_tasks", "settled", "close_plan") \/ ClosePlan
  BY <1>7 DEF SaveTask, ExecutePlan, ClosePlan
<1>8. CASE SaveAttempt
  BY <1>8 DEF SaveAttempt
<1>9. CASE Integrate
  BY <1>9 DEF Integrate, planVars
<1>10. CASE NextTool \/ RunSkill \/ Synthesize
  BY <1>10 DEF NextTool, RunSkill, Synthesize, ToolFrame, planVars
<1>11. CASE QueueFacts \/ RouteReply
  BY <1>11 DEF QueueFacts, RouteReply, EndFrame, planVars
<1>12. CASE SafeAbort \/ Close
  BY <1>12 DEF SafeAbort, Close, EndFrame, planVars
<1>13. CASE Over \/ UNCHANGED vars
  BY <1>13 DEF Over, vars, planVars
<1> QED
  BY <1>1, <1>2, <1>3, <1>4, <1>5, <1>6, <1>7, <1>8, <1>9, <1>10, <1>11, <1>12, <1>13 DEF Next

(* Every plan there is made is sound, for every goal and contract.         *)
LEMMA PlansAreSound ==
  /\ \A p \in LocalPlans : IsSound(p) /\ HasLevels(p)
  /\ \A p \in ModelPlans : IsSound(p)
<1>1. \A goal \in Goals : goal \in Request
  BY TurnAssumption
<1>2. \A contract \in Contracts : contract \in Seq(TaskSeed)
  BY TurnAssumption
<1>3. \A goal \in Goals : IsSound(build_initial_plan(goal)) /\ HasLevels(build_initial_plan(goal))
  BY <1>1, InitialPlanComesToRun
<1>4. \A goal \in Goals, contract \in Contracts :
        IsSound(build_plan_from_contract(goal, contract))
  BY <1>1, <1>2, ContractPlanIsSound
<1> QED BY <1>3, <1>4 DEF LocalPlans, ModelPlans

(* The levels a plan is shown with put every name once, after all that it  *)
(* depends on; a plan of distinct names that has levels comes to run to    *)
(* its end, and one made of the request alone always does.                 *)
THEOREM SoundPlansComeToRun == Spec => []SoundPlansRun
<1>1. Init => SoundInv
  <2>1. NoPlan.parallelizable_groups = <<>>
    BY DEF NoPlan
  <2> QED BY <2>1 DEF Init, SoundInv, IsSound
<1>2. SoundInv /\ [Next]_vars => SoundInv'
  <2> SUFFICES ASSUME SoundInv, [Next]_vars PROVE SoundInv'
    OBVIOUS
  <2>1. CASE UNCHANGED <<plan, preplanned>>
    BY <2>1 DEF SoundInv
  <2>2. CASE preplanned' = "local" /\ plan' \in LocalPlans
    BY <2>2, PlansAreSound DEF SoundInv
  <2>3. CASE preplanned' = "model" /\ plan' \in ModelPlans
    BY <2>3, PlansAreSound DEF SoundInv
  <2> QED BY <2>1, <2>2, <2>3, PlanChanges
<1>3. SoundInv => SoundPlansRun
  <2> SUFFICES ASSUME SoundInv PROVE SoundPlansRun
    OBVIOUS
  <2>1. DistinctNames <=> DistinctIds(plan.tasks)
    BY DEF DistinctNames, DistinctIds, Task, Name
  <2>2. LevelsAreSound
    BY DEF SoundInv, IsSound, InLevels, LevelsAreSound, Task, Name
  <2>3. DistinctNames /\ plan.parallelizable_groups # <<>> => Runnable(plan.tasks) = Task
    BY <2>1 DEF SoundInv, IsSound, Task
  <2>4. preplanned = "local" => DistinctNames /\ plan.parallelizable_groups # <<>>
    BY <2>1 DEF SoundInv, HasLevels
  <2> QED BY <2>2, <2>3, <2>4 DEF SoundPlansRun
<1> QED BY <1>1, <1>2, <1>3, PTL DEF Spec

-----------------------------------------------------------------------------
(* A step of a turn is a step of the contract its callers count on, or     *)
(* none of it: what makes it sound that InboundPipeline runs its jobs by   *)
(* that contract.  (That every turn has an outcome stays with TLC.)        *)

LEMMA OutcomeOf ==
  /\ stage \in {"answered", "failed"} => Outcome = stage
  /\ stage = "close" => Outcome = "closing"
  /\ stage \in {"ignored", "aborted"} => Outcome = "closed"
  /\ stage \notin {"answered", "failed", "close", "ignored", "aborted"} => Outcome = "open"
BY DEF Outcome

(* The same after a step.                                                  *)
LEMMA OutcomeNext ==
  /\ stage' \in {"answered", "failed"} => Outcome' = stage'
  /\ stage' = "close" => Outcome' = "closing"
  /\ stage' \in {"ignored", "aborted"} => Outcome' = "closed"
  /\ stage' \notin {"answered", "failed", "close", "ignored", "aborted"} => Outcome' = "open"
BY DEF Outcome

(* The stages of a turn that has no outcome yet.                           *)
Open == Stage \ {"answered", "failed", "close", "ignored", "aborted"}

(* Between such stages the contract does not move, if no row is written.   *)
LEMMA OpenStep ==
  ASSUME stage \in Open, stage' \in Open, UNCHANGED rowVars
  PROVE  UNCHANGED Contract!vars
<1>1. Outcome = "open" /\ Outcome' = "open"
  BY OutcomeOf, OutcomeNext DEF Open
<1> QED BY <1>1 DEF Contract!vars, Contract!rows, rowVars

(* Every step is one of the contract, or leaves it as it is.               *)
LEMMA StepMeetsContract ==
  ASSUME StageType, [Next]_vars
  PROVE  [Contract!Next]_(Contract!vars)
<1>types. stage \in Stage /\ stage' \in Stage
  BY NextStage DEF StageType
<1>open. ASSUME stage \in Open, stage' \in Open, UNCHANGED rowVars
         PROVE  [Contract!Next]_(Contract!vars)
  BY <1>open, OpenStep
<1>1. CASE Ingest
  <2>1. stage \in Open /\ stage' \in Open /\ UNCHANGED rowVars
    BY <1>types, <1>1 DEF Ingest, Open
  <2> QED BY <2>1, <1>open
<1>2. CASE CollectEvidence
  <2>1. stage \in Open /\ stage' \in Open /\ UNCHANGED rowVars
    BY <1>types, <1>2 DEF CollectEvidence, Open
  <2> QED BY <2>1, <1>open
<1>3. CASE CheckBudget
  <2>1. stage \in Open /\ stage' \in Open /\ UNCHANGED rowVars
    BY <1>types, <1>3 DEF CheckBudget, Open
  <2> QED BY <2>1, <1>open
<1>4. CASE ChooseStrategy
  <2>1. stage \in Open /\ stage' \in Open /\ UNCHANGED rowVars
    BY <1>types, <1>4 DEF ChooseStrategy, Contextual, Open
  <2> QED BY <2>1, <1>open
<1>5. CASE StoreError
  <2>1. Outcome \in {"open", "closing"} /\ Outcome' = "failed" /\ UNCHANGED rowVars
    BY <1>5, OutcomeOf, OutcomeNext DEF StoreError, StoreCall
  <2>2. Contract!StoreError
    BY <2>1 DEF Contract!StoreError, Contract!rows, rowVars
  <2> QED BY <2>2 DEF Contract!Next
<1>6. CASE EnsureContext
  <2>1. stage \in Open /\ stage' \in Open /\ UNCHANGED rowVars
    BY <1>types, <1>6 DEF EnsureContext, Open
  <2> QED BY <2>1, <1>open
<1>7. CASE FastReply
  <2>1. stage \in Open /\ stage' \in Open /\ UNCHANGED rowVars
    BY <1>types, <1>7 DEF FastReply, Open
  <2> QED BY <2>1, <1>open
<1>8. CASE RequestPlan
  <2>1. stage \in Open /\ stage' \in Open /\ UNCHANGED rowVars
    BY <1>types, <1>8 DEF RequestPlan, Open
  <2> QED BY <2>1, <1>open
<1>9. CASE Classify
  <2>1. stage \in Open /\ stage' \in Open /\ UNCHANGED rowVars
    BY <1>types, <1>9 DEF Classify, Follow, Open
  <2> QED BY <2>1, <1>open
<1>10. CASE RequestDecision
  <2>1. stage \in Open /\ stage' \in Open /\ UNCHANGED rowVars
    BY <1>types, <1>10 DEF RequestDecision, Open
  <2> QED BY <2>1, <1>open
<1>11. CASE Act
  <2>1. stage \in Open /\ stage' \in Open /\ UNCHANGED rowVars
    BY <1>types, <1>11 DEF Act, Open
  <2> QED BY <2>1, <1>open
<1>12. CASE StartPlan
  <2>1. stage \in Open /\ stage' \in Open /\ UNCHANGED rowVars
    BY <1>types, <1>12 DEF StartPlan, PlanFrame, Open
  <2> QED BY <2>1, <1>open
<1>13. CASE SaveTask("save_tasks", "planned", "execute")
  <2>1. stage \in Open /\ stage' \in Open /\ UNCHANGED rowVars
    BY <1>types, <1>13 DEF SaveTask, PlanFrame, Open
  <2> QED BY <2>1, <1>open
<1>14. CASE ExecutePlan
  <2>1. stage \in Open /\ stage' \in Open /\ UNCHANGED rowVars
    BY <1>types, <1>14 DEF ExecutePlan, PlanFrame, Open
  <2> QED BY <2>1, <1>open
<1>15. CASE SaveTask("settle_tasks", "settled", "close_plan")
  <2>1. stage \in Open /\ stage' \in Open /\ UNCHANGED rowVars
    BY <1>types, <1>15 DEF SaveTask, PlanFrame, Open
  <2> QED BY <2>1, <1>open
<1>16. CASE ClosePlan
  <2>1. stage \in Open /\ stage' \in Open /\ UNCHANGED rowVars
    BY <1>types, <1>16 DEF ClosePlan, PlanFrame, Open
  <2> QED BY <2>1, <1>open
<1>17. CASE SaveAttempt
  <2>1. stage \in Open /\ stage' \in Open /\ UNCHANGED rowVars
    BY <1>types, <1>17 DEF SaveAttempt, PlanFrame, Open
  <2> QED BY <2>1, <1>open
<1>18. CASE Integrate
  <2>1. stage \in Open /\ stage' \in Open /\ UNCHANGED rowVars
    BY <1>types, <1>18 DEF Integrate, PlanFrame, Open
  <2> QED BY <2>1, <1>open
<1>19. CASE NextTool
  <2>1. stage \in Open /\ stage' \in Open /\ UNCHANGED rowVars
    BY <1>types, <1>19 DEF NextTool, ToolFrame, AfterTools, Open
  <2> QED BY <2>1, <1>open
<1>20. CASE RunSkill
  <2>1. stage \in Open /\ stage' \in Open /\ UNCHANGED rowVars
    BY <1>types, <1>20 DEF RunSkill, ToolFrame, Return, Open
  <2> QED BY <2>1, <1>open
<1>21. CASE Synthesize
  <2>1. stage \in Open /\ stage' \in Open /\ UNCHANGED rowVars
    BY <1>types, <1>21 DEF Synthesize, ToolFrame, Open
  <2> QED BY <2>1, <1>open
<1>22. CASE QueueFacts
  <2>1. stage \in Open /\ stage' \in Open /\ UNCHANGED rowVars
    BY <1>types, <1>22 DEF QueueFacts, EndFrame, Open
  <2> QED BY <2>1, <1>open
<1>23. CASE RouteReply
  <2>1. Outcome = "open"
    BY <1>23, OutcomeOf DEF RouteReply
  <2>2. \/ stage' = "answered" /\ UNCHANGED rowVars
        \/ stage' = "close" /\ user_turn' = TRUE /\ UNCHANGED <<assistant_turn, processed>>
    BY <1>23 DEF RouteReply, rowVars
  <2>3. Contract!Answer \/ Contract!Ignore
    BY <2>1, <2>2, OutcomeNext DEF Contract!Answer, Contract!Ignore, Contract!rows, rowVars
  <2> QED BY <2>3 DEF Contract!Next
<1>24. CASE SafeAbort
  <2>1. /\ Outcome = "open" /\ Outcome' = "closing"
        /\ assistant_turn' = TRUE /\ UNCHANGED <<user_turn, processed>>
    BY <1>24, OutcomeOf, OutcomeNext DEF SafeAbort
  <2>2. Contract!Abort
    BY <2>1 DEF Contract!Abort
  <2> QED BY <2>2 DEF Contract!Next
<1>25. CASE Close
  <2>1. stage = "close" /\ stage' \in {"ignored", "aborted"}
        /\ processed' = TRUE /\ UNCHANGED <<user_turn, assistant_turn>>
    BY <1>25 DEF Close
  <2>2. Contract!Close
    BY <2>1, OutcomeOf, OutcomeNext DEF Contract!Close
  <2> QED BY <2>2 DEF Contract!Next
<1>26. CASE Over
  BY <1>26 DEF Over, vars, rowVars, Outcome, Contract!vars, Contract!rows
<1>27. CASE UNCHANGED vars
  BY <1>27 DEF vars, rowVars, Outcome, Contract!vars, Contract!rows
<1> QED
  BY <1>1, <1>2, <1>3, <1>4, <1>5, <1>6, <1>7, <1>8, <1>9, <1>10, <1>11, <1>12, <1>13, <1>14,
     <1>15, <1>16, <1>17, <1>18, <1>19, <1>20, <1>21, <1>22, <1>23, <1>24, <1>25, <1>26, <1>27
  DEF Next

(* Every turn, whatever fails in it, is one that the contract allows.      *)
THEOREM TurnKeepsItsContract ==
  Spec => Contract!Init /\ [][Contract!Next]_(Contract!vars)
<1>1. Init => Contract!Init
  BY OutcomeOf DEF Init, Contract!Init
<1>2. IInv => StageType
  BY TypeParts DEF IInv
<1>3. IInv /\ [Next]_vars => [Contract!Next]_(Contract!vars)
  BY <1>2, StepMeetsContract
<1> QED BY <1>1, <1>3, InvariantHolds, PTL DEF Spec
=============================================================================
