------------------------------ MODULE MC_Turn ------------------------------
(* Small instances of Turn for TLC.                                        *)
EXTENDS Turn

(* Messages of one word or two that the lists know, most of them short.    *)
Message(words, first, len, count) ==
  [words |-> words, first |-> first, len |-> len, count |-> count]
Short(words, first) == Message(words, first, 34, 4)

MCTexts ==
  {Message({}, NoWord, 0, 0), Short({}, NoWord), Message({}, NoWord, 190, 30)}
  \cup {Short({w}, w) : w \in {"url", "solana", "hoy", "cotiza", "noticias", "hola",
                               "estado", "pero", "subagentes", "compara"}}
  \cup {Short({"compara", w}, w) : w \in {"bitcoin", "hoy", "url"}}
  \cup {Message({"con eso", "recomendacion", w}, NoWord, 50, 8)
          : w \in {"plan", "noticias", "y"}}
  \cup {Short({"pero", w}, "pero") : w \in {"plan", "solana", "search"}}
  \cup {Short({"solana", "cotiza"}, NoWord)}

MCDecisions ==
  [route : {"DirectReply", "AskClarification", "Ignore", "PlanThenAct"}, calls : {<<>>},
   writes : {FALSE}, safe : BOOLEAN]
  \cup [route : {"ToolUse"}, calls : {<<>>, <<"a", "a">>, <<"denied", "a">>},
        writes : {TRUE}, safe : BOOLEAN]

MCPermissions == [allowed |-> {"*"}, denied |-> {"denied"}]

-----------------------------------------------------------------------------
MCRoles == <<"researcher", "verifier", "integrator">>
MCOverride == [r \in {MCRoles[i] : i \in DOMAIN MCRoles} |->
                 CASE r = "researcher" -> NoRoute
                   [] r = "verifier"   -> "reviewer_strict"
                   [] r = "integrator" -> "unknown"]

Goal(criteria, axes, long, parts) ==
  [compares |-> criteria # {}, criteria |-> criteria, ranking |-> long, axes |-> axes,
   long_list |-> long, parts |-> parts, strict |-> long]

MCGoals ==
  {Goal({}, {}, FALSE, 1), Goal({}, {}, FALSE, 5), Goal({"motor"}, {}, TRUE, 1),
   Goal(Criterion \ {"motor", "diversion"}, {}, FALSE, 1),
   Goal({}, {"regulatory_risk"}, TRUE, 1)}

(* A task of a contract: its name as the model wrote it, and those it      *)
(* names as its dependencies.                                              *)
C(id, deps) == Seed(id, deps, NoRole, NoRoute)

MCContracts ==
  {<<>>, <<[C("a", {}) EXCEPT !.described = FALSE], C("task-integrate", {})>>,
   <<C("a", {}), C("b", {"A", "zz"}), C("c", {"b"})>>,           \* a chain
   <<C("a", {}), C("b", {}), C("c", {}), C("d", {"a"})>>,       \* more than the cap
   <<C("a", {"b"}), C("b", {"a"})>>,                            \* a circle
   <<C("a", {}), C("A", {"a"}), C("b", {"a"})>>,                \* two names that are one
   <<C("--", {}), C("task-1", {"task-1"})>>,                    \* a name made up for one
   <<C("task_integrate", {}), C("b", {"task_integrate"})>>}     \* the integration's name
=============================================================================
