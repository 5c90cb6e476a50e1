---------------------------- MODULE BrainMemory ----------------------------
(***************************************************************************)
(* What the assistant remembers of a message (CaptureBrainMemoryUseCase,   *)
(* src/src/usecase/brain_memory.rs), how a memory meets the one it is      *)
(* about (src/src/memory/brain.rs, save_or_merge_brain_candidate of        *)
(* src/src/storage/postgres.rs) and which memories a turn is given         *)
(* (RetrieveBrainMemoryUseCase).                                           *)
(*                                                                         *)
(* A message is a phrase, the words that make an extractor read it, and    *)
(* what it is about.  There is one user and one conversation.              *)
(***************************************************************************)
EXTENDS Integers, Sequences, FiniteSets, SequencesExt, Subsequences

CONSTANTS
  Messages,        \* what the user may say, a set of Message
  Slug,            \* of what a message is about: its first eight words, as in a memory_key
  AutoWriteMode,   \* identity.memory().auto_write_mode()
  ConversationLimit, UserLimit  \* of the memories a turn is given

Kind == {"preference", "goal", "constraint", "decision", "lesson", "source_location",
         "profile_fact"}
Phrase == {"ok", "text", "reply in", "brief", "my name is", "avoid", "no use", "use",
           "i want", "i want because", "learned that", "path", "bare path"}
Message == [phrase : Phrase, about : STRING, split : BOOLEAN]

ASSUME BrainAssumption ==
  /\ Messages \subseteq Message /\ Messages # {}
  /\ AutoWriteMode \in {"aggressive", "conservative", "disabled"}
  /\ ConversationLimit \in Nat /\ UserLimit \in Nat

(* Besides its value a candidate has what is written down of it: whether a *)
(* reason was given, and whether something was learned of the answer.      *)
(* Where it applies is the same for all of a scope.                        *)
Candidate(scope, kind, key, value, confidence) ==
  [scope |-> scope, kind |-> kind, key |-> key, value |-> value, why |-> FALSE, learned |-> FALSE,
   confidence |-> confidence]

-----------------------------------------------------------------------------
(* Extractors.  A marker is looked for as a substring: "use" is found in   *)
(* "no use" and in "because" too.                                          *)
contains_any(m, marker) ==
  CASE marker = "use" -> m.phrase \in {"use", "no use", "i want because"}
    [] marker = "i want" -> m.phrase \in {"i want", "i want because"}
    [] marker = "path" -> m.phrase \in {"path", "bare path"}
    [] OTHER -> m.phrase = marker

(* A memory_key "kind.name" is a pair.  A memory of the conversation has   *)
(* one made from its value.                                                *)
stable_memory_key(kind, value) == <<kind, Slug[value]>>
OfConversation(kind, value, confidence) ==
  Candidate("conversation", kind, stable_memory_key(kind, value), value, confidence)
When(cond, candidate) == IF cond THEN <<candidate>> ELSE <<>>

(* The clause of a reason: "because".  learned: the answer speaks of how    *)
(* things are already (assistant_learning_snippet).                        *)
Explained(candidate, m, learned) ==
  [candidate EXCEPT !.why = m.phrase = "i want because", !.learned = learned]

extract_language_preference(m) == When(contains_any(m, "reply in"),
  Candidate("user", "preference", <<"preference", "assistant_language">>, m.about, 97))
extract_response_style_preference(m) == When(contains_any(m, "brief"),
  Candidate("user", "preference", <<"preference", "assistant_style">>, m.about, 90))
extract_profile_fact(m) == When(contains_any(m, "my name is"),
  Candidate("user", "profile_fact", <<"profile_fact", "user_name">>, m.about, 88))
extract_constraint(m) ==
  When(contains_any(m, "avoid") \/ contains_any(m, "no use"), OfConversation("constraint", m.about, 90))
extract_decision(m, learned) ==
  When(contains_any(m, "use"), Explained(OfConversation("decision", m.about, 92), m, learned))
extract_goal(m, learned) ==
  When(contains_any(m, "i want"), Explained(OfConversation("goal", m.about, 86), m, learned))
extract_lesson(m)   == When(contains_any(m, "learned that"), OfConversation("lesson", m.about, 84))
extract_source_location(m) ==
  When(contains_any(m, "path"), OfConversation("source_location", m.about, 82))

is_noise_message(m) == m.phrase = "ok"

(* The text of a message, as far as it may be all of a memory's value.     *)
Content(m) == IF m.phrase = "bare path" THEN m.about ELSE m.phrase

(* No candidate twice, and none that one of the last four turns says word  *)
(* for word.  contents: the texts of the recent turns.                     *)
dedupe_candidates(candidates, contents) ==
  LET corpus == {contents[i] : i \in {j \in DOMAIN contents : j > Len(contents) - 4}}
      First(i) == \A j \in 1..(i - 1) :
        <<candidates[j].scope, candidates[j].key, candidates[j].value>> #
          <<candidates[i].scope, candidates[i].key, candidates[i].value>>
  IN  Subsequence(candidates,
                  {i \in DOMAIN candidates : First(i) /\ candidates[i].value \notin corpus})

capture_brain(m, learned, contents) ==
  IF AutoWriteMode = "disabled" \/ is_noise_message(m)
  THEN <<>>
  ELSE dedupe_candidates(
         extract_language_preference(m) \o extract_response_style_preference(m)
           \o extract_profile_fact(m) \o extract_constraint(m)
           \o extract_decision(m, learned)
           \o (IF AutoWriteMode = "aggressive"
               THEN extract_goal(m, learned) \o extract_lesson(m) \o extract_source_location(m)
               ELSE <<>>),
         contents)

-----------------------------------------------------------------------------
(* Rows of brain_memories.  A row's id is its place in the table.          *)
NoRow == 0
Now(rows) == 1 + Max({0} \cup {rows[i].updated_at : i \in DOMAIN rows})
Row(c, turn, now) ==
  [scope |-> c.scope, kind |-> c.kind, key |-> c.key, value |-> c.value,
   why |-> c.why, learned |-> c.learned, confidence |-> c.confidence,
   status |-> "active", superseded_by |-> NoRow, source_turn_id |-> turn, updated_at |-> now]

same_content(row, c) ==
  <<row.value, row.why, row.learned>> = <<c.value, c.why, c.learned>>

(* turn: the source_turn_id of the candidate.                              *)
newer_turn(row, turn) == turn # NoRow /\ (row.source_turn_id = NoRow \/ turn >= row.source_turn_id)
(* Mutant: a memory yields only to a more confident one.                   *)
supersede_when_surer(row, c, turn) == ~same_content(row, c) /\ c.confidence > row.confidence

candidate_should_supersede(row, c, turn) ==
  ~same_content(row, c) /\ (newer_turn(row, turn) \/ c.confidence + 5 >= row.confidence)

(* The row a candidate is compared with: the last active one of its key.   *)
ActiveRows(rows, key) == {i \in DOMAIN rows : rows[i].key = key /\ rows[i].status = "active"}
existing_row(rows, key) ==
  IF ActiveRows(rows, key) = {} THEN NoRow
  ELSE CHOOSE i \in ActiveRows(rows, key) : \A j \in ActiveRows(rows, key) : j <= i

Larger(a, b) == IF a >= b THEN a ELSE b

insert_brain_candidate(rows, c, turn) == Append(rows, Row(c, turn, Now(rows)))
merge_brain_candidate(rows, existing, c, turn) ==
  [rows EXCEPT ![existing].confidence = Larger(@, c.confidence),
               ![existing].source_turn_id = IF turn # NoRow THEN turn ELSE @,
               ![existing].updated_at = Now(rows)]
supersede_brain_memory(rows, existing, by) ==
  [rows EXCEPT ![existing].status = "superseded", ![existing].superseded_by = by,
               ![existing].updated_at = Now(rows)]

(* Mutant: the memory that is replaced stays active.                       *)
save_without_superseding(rows, existing, c, turn) ==
  IF existing # NoRow /\ same_content(rows[existing], c)
  THEN merge_brain_candidate(rows, existing, c, turn)
  ELSE insert_brain_candidate(rows, c, turn)

(* What is written for a candidate, existing being the row that was read.  *)
save_or_merge_brain_candidate(rows, existing, c, turn) ==
  CASE existing = NoRow -> insert_brain_candidate(rows, c, turn)
    [] existing # NoRow /\ same_content(rows[existing], c) ->
         merge_brain_candidate(rows, existing, c, turn)
    [] existing # NoRow /\ candidate_should_supersede(rows[existing], c, turn) ->
         supersede_brain_memory(insert_brain_candidate(rows, c, turn), existing, Len(rows) + 1)
    [] OTHER -> rows

-----------------------------------------------------------------------------
(* Retrieval.  An item is a row with its id, as it was when it was read.   *)
Item(rows, i) == [id |-> i, row |-> rows[i]]
LimitOf(scope, conversation_limit) ==
  IF scope = "conversation" THEN conversation_limit ELSE UserLimit

InScope(rows, scope) == {i \in DOMAIN rows : rows[i].scope = scope /\ rows[i].status = "active"}
StickyKinds(scope) == IF scope = "user" THEN {"preference", "constraint", "profile_fact"}
                      ELSE {"goal", "decision", "constraint", "source_location"}

Newer(rows, S, i) == {j \in S : rows[j].updated_at > rows[i].updated_at}
NewestFirst(rows, S) ==
  [k \in 1..Cardinality(S) |-> CHOOSE i \in S : Cardinality(Newer(rows, S, i)) = k - 1]
Items(rows, C, U) ==
  LET ids == NewestFirst(rows, C) \o NewestFirst(rows, U)
  IN  [k \in DOMAIN ids |-> Item(rows, ids[k])]

(* The last that were written of each scope, at most two.                  *)
recent_active_brain(rows, conversation_limit) ==
  LET Of(scope) == {i \in InScope(rows, scope) : rows[i].kind \in StickyKinds(scope)}
      Latest(S, n) == {i \in S : Cardinality(Newer(rows, S, i)) < n}
      Limit(scope) == Min({LimitOf(scope, conversation_limit), 2})
  IN  Items(rows, Latest(Of("conversation"), Limit("conversation")), Latest(Of("user"), Limit("user")))

(* The best matches with the words of the message: which rows match, and   *)
(* how well, is left open.                                                 *)
search_active_brain(rows, conversation_limit) ==
  LET Of(scope) == {S \in SUBSET InScope(rows, scope) :
                      Cardinality(S) <= LimitOf(scope, conversation_limit)}
  IN  {Items(rows, C, U) : C \in Of("conversation"), U \in Of("user")}

Ids(items) == {items[k].id : k \in DOMAIN items}
CountOf(items, scope) == Cardinality({k \in DOMAIN items : items[k].row.scope = scope})

Added(merged, item, fits) ==
  IF item.id \notin Ids(merged) /\ fits THEN Append(merged, item) ELSE merged

(* Mutant: the limit of a scope is not looked at again.                    *)
merge_without_limit(matched, sticky, conversation_limit) ==
  LET items == matched \o sticky
      merged[k \in 0..Len(items)] ==
        IF k = 0 THEN <<>> ELSE Added(merged[k - 1], items[k], TRUE)
  IN  merged[Len(items)]

merge_brain_memories(matched, sticky, conversation_limit) ==
  LET items == matched \o sticky
      Fits(before, item) ==
        CountOf(before, item.row.scope) < LimitOf(item.row.scope, conversation_limit)
      merged[k \in 0..Len(items)] ==
        IF k = 0 THEN <<>>
        ELSE Added(merged[k - 1], items[k], Fits(merged[k - 1], items[k]))
  IN  merged[Len(items)]
=============================================================================
