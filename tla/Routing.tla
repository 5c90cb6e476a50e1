------------------------------ MODULE Routing ------------------------------
(***************************************************************************)
(* What execute() in src/src/usecase/process_inbound_event.rs reads off a  *)
(* message before any model sees it: src/src/usecase/analysis.rs, the      *)
(* looks_like_* helpers, fast_path_decision, planning_decision,            *)
(* deterministic_market_tool_decision and src/src/orchestrator/router.rs.  *)
(* The code looks for words of fixed lists.  A text is the set of the      *)
(* listed words it holds, the one it begins with and its size; Word has    *)
(* one word for each of the groups that the lists tell apart.              *)
(***************************************************************************)
EXTENDS Naturals, FiniteSets

\* "url" stands for an address, "hablame" for "hablame en español", "con eso" for
\* the references to what was said before, "criterios" for three of the criteria
\* of a comparison.
Word == {"url", "bitcoin", "solana", "hoy", "forecast", "trading", "cotiza",
         "noticias", "teorema", "hola", "gracias", "ayuda", "estado", "hablame",
         "pero", "ese", "cual", "sus modelos", "subagentes", "ranking", "compara",
         "criterios", "plan", "search", "remind", "password", "con eso",
         "recomendacion", "y"}
NoWord == "none"

Route  == {"DirectReply", "AskClarification", "ToolUse", "PlanThenAct", "Ignore"}
Policy == {"Fast", "BalancedFast", "MaxQuality"}
Intent == {"None", "MarketData", "WebResearch", "UrlInspection"}

Text == [words : SUBSET Word, first : Word \cup {NoWord},
         len : Nat, count : Nat]  \* length in bytes and in words

Has(text, list)    == text.words \cap list # {}
Starts(text, list) == text.first \in list
Empty(text)        == text.count = 0

-----------------------------------------------------------------------------
(* src/src/usecase/analysis.rs                                             *)

classify_analysis_complexity(text) ==
  CASE Has(text, {"teorema"}) -> "Theoretical"
    [] Has(text, {"bitcoin", "solana", "forecast", "trading"})
       /\ ~Has(text, {"teorema"}) -> "Deep"
    [] OTHER -> IF text.count >= 40 \/ Has(text, {"compara", "ranking", "subagentes"})
                THEN "Structured" ELSE "Simple"

MarketEntities(text) == text.words \cap {"bitcoin", "solana"}

(* The evidence the message calls for: the intent is not None just when    *)
(* current data is required.                                               *)
detect_current_data_requirement(text) ==
  IF Has(text, {"url"}) THEN "UrlInspection"
  ELSE IF Has(text, {"bitcoin", "solana", "trading", "cotiza"}) THEN "MarketData"
  ELSE IF Has(text, {"noticias"}) THEN "WebResearch"
  ELSE "None"

Required(text) == detect_current_data_requirement(text) # "None"

effective_turn_performance_policy(base, text) ==
  IF \/ Required(text)
     \/ classify_analysis_complexity(text) \in {"Deep", "Theoretical"} /\ base # "Fast"
  THEN "MaxQuality" ELSE base

-----------------------------------------------------------------------------
(* The helpers of process_inbound_event.rs                                 *)

looks_like_plain_ack_or_greeting(text) == Starts(text, {"hola", "gracias"})

looks_like_follow_up(text) ==
  /\ ~Empty(text) /\ ~looks_like_plain_ack_or_greeting(text)
  /\ \/ Starts(text, {"pero", "hablame"})
     \/ Has(text, {"sus modelos"})
     \/ text.count <= 6 /\ Starts(text, {"cual"})
     \/ text.count <= 4 /\ Starts(text, {"ese"})

looks_like_conversational_correction(text) == Has(text, {"hablame", "pero", "ese"})

looks_like_contextual_synthesis(text) ==
  Has(text, {"con eso"}) /\ Has(text, {"recomendacion"})

looks_like_simple_comparison(text) ==
  /\ Has(text, {"compara"})
  /\ ~Has(text, {"hoy", "search", "bitcoin", "trading", "forecast"})
  /\ text.count <= 24 /\ text.len <= 180

looks_like_complex_comparison(text) ==
  Has(text, {"compara", "ranking"}) /\ Has(text, {"ranking", "criterios"})

pick_route_hint(text) ==
  IF Empty(text) THEN "Ignore"
  ELSE IF Starts(text, {"hola"}) THEN "DirectReply"
  ELSE IF Has(text, {"remind", "search", "url"}) THEN "ToolUse"
  ELSE IF Has(text, {"password"}) THEN "AskClarification"
  ELSE IF text.len > 240 \/ Has(text, {"plan", "subagentes", "ranking", "forecast",
                                       "trading", "bitcoin"})
  THEN "PlanThenAct" ELSE "DirectReply"

(* The canned answer, if there is one: the route it goes out on.           *)
fast_path_decision(text) ==
  IF Empty(text) THEN {"Ignore"}
  ELSE IF \/ Starts(text, {"hola"})
          \/ Has(text, {"ayuda", "estado"})
          \/ Has(text, {"hablame"}) /\ ~Has(text, {"compara", "recomendacion", "cual", "ranking"})
  THEN {"DirectReply"} ELSE {}

RawFastPath(text) == IF Required(text) THEN {} ELSE fast_path_decision(text)

(* is_skill_allowed and skill_allowed: a skill is denied, or listed.       *)
is_skill_allowed(permissions, skill) ==
  /\ skill \notin permissions.denied
  /\ {"*", skill} \cap permissions.allowed # {}

(* The price of a crypto asset is asked of a fixed address.                *)
deterministic_market_tool_decision(text, permissions, coingecko_allowed) ==
  /\ is_skill_allowed(permissions, "http.fetch")
  /\ Has(text, {"hoy", "cotiza", "forecast"})
  /\ coingecko_allowed
  /\ Has(text, {"bitcoin", "solana"})

(* How long a message may be and still be answered without a plan.         *)
Threshold(policy, aggressiveness) ==
  CASE policy = "Fast"       -> <<72, 12>>
    [] policy = "MaxQuality" -> <<36, 6>>
    [] OTHER -> IF aggressiveness >= 75 THEN <<40, 7>>
                ELSE IF aggressiveness <= 30 THEN <<64, 10>> ELSE <<48, 8>>

Skip(reason, hint) == [should_plan |-> FALSE, reason |-> reason, hint |-> hint, local |-> FALSE]
Plan(reason, hint, local) ==
  [should_plan |-> TRUE, reason |-> reason, hint |-> hint, local |-> local]

(* The first rule that applies decides.                                    *)
planning_decision(text, aggressiveness, policy) ==
  LET hint  == pick_route_hint(text)
      limit == Threshold(policy, aggressiveness)
      rules == <<
        <<Empty(text), Skip("empty", hint)>>,
        <<Has(text, {"subagentes"}) /\ Has(text, {"ranking"}),
          Plan("explicit_parallel_decomposition", "PlanThenAct", TRUE)>>,
        <<looks_like_conversational_correction(text), Skip("follow_up_correction", hint)>>,
        <<Has(text, {"subagentes"}), Plan("explicit_delegation", "PlanThenAct", TRUE)>>,
        <<Has(text, {"hoy", "bitcoin", "forecast", "trading"}),
          Plan("market_or_current_data", "PlanThenAct", TRUE)>>,
        <<looks_like_follow_up(text), Skip("follow_up_reference", hint)>>,
        <<looks_like_complex_comparison(text),
          Plan("complex_comparison", "PlanThenAct", TRUE)>>,
        <<hint = "PlanThenAct", Plan("route_hint_plan", hint, FALSE)>>,
        <<looks_like_contextual_synthesis(text),
          Skip("contextual_synthesis", "DirectReply")>>,
        <<looks_like_simple_comparison(text), Skip("simple_comparison", hint)>>,
        <<Has(text, {"y", "search"}), Plan("multi_step_markers", hint, FALSE)>>,
        <<text.len >= limit[1] \/ text.count >= limit[2],
          Plan("complexity_threshold", hint, FALSE)>>,
        <<TRUE, Skip("simple_request", hint)>> >>
      first == CHOOSE i \in DOMAIN rules :
                 rules[i][1] /\ \A j \in 1..(i - 1) : ~rules[j][1]
  IN rules[first][2]
=============================================================================
