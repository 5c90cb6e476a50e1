---------------------- MODULE ConversationMemory_proofs ----------------------
(***************************************************************************)
(* What holds of ConversationMemory for every message, limit, number of    *)
(* turns, consumers and disturbances.                                      *)
(***************************************************************************)
EXTENDS ConversationMemory, OrderLemmas

-----------------------------------------------------------------------------
(* Types                                                                   *)

About == {m.about : m \in Messages}
KeyName == {Slug[a] : a \in About} \cup {"assistant_language", "assistant_style", "user_name"}
Key == Kind \X KeyName
ScopeName == {"user", "conversation"}

(* A key is given one confidence, whatever is said of it.                  *)
ConfidenceOf(key) ==
  CASE key[1] = "preference"      -> IF key[2] = "assistant_style" THEN 90 ELSE 97
    [] key[1] = "profile_fact"    -> 88
    [] key[1] = "constraint"      -> 90
    [] key[1] = "decision"        -> 92
    [] key[1] = "goal"            -> 86
    [] key[1] = "lesson"          -> 84
    [] key[1] = "source_location" -> 82

Proposal == {c \in [scope : ScopeName, kind : Kind, key : Key, value : About, why : BOOLEAN,
                   learned : BOOLEAN, confidence : Nat] :
               c.confidence = ConfidenceOf(c.key)}

RowSet == [scope : ScopeName, kind : Kind, key : Key, value : About, why : BOOLEAN,
           learned : BOOLEAN, confidence : Nat, status : {"active", "superseded"}, superseded_by : Nat,
           source_turn_id : Nat, updated_at : Nat]

(* What is written down: that two of it are the same is same_content.       *)
Text(x) == <<x.value, x.why, x.learned>>

(* Proposals of which no two are about the same.                           *)
Distinct(s) == \A i, j \in 1..Len(s) : i # j => s[i].key # s[j].key
Keyed(s, K) == /\ s \in Seq(Proposal) /\ Distinct(s)
               /\ \A i \in 1..Len(s) : s[i].key \in K

-----------------------------------------------------------------------------
(* What a message proposes to remember                                     *)

LEMMA KeyedWhen ==
  ASSUME NEW cond \in BOOLEAN, NEW c \in Proposal
  PROVE  Keyed(When(cond, c), {c.key})
<1>1. CASE cond
  <2>1. When(cond, c) = <<c>>
    BY <1>1 DEF When
  <2>2. <<c>> \in Seq(Proposal) /\ Len(<<c>>) = 1 /\ <<c>>[1] = c
    OBVIOUS
  <2>3. \A i \in 1..1 : i = 1
    OBVIOUS
  <2> QED BY <2>1, <2>2, <2>3 DEF Keyed, Distinct
<1>2. CASE ~cond
  <2>1. When(cond, c) = <<>>
    BY <1>2 DEF When
  <2>2. <<>> \in Seq(Proposal) /\ Len(<<>>) = 0
    OBVIOUS
  <2> QED BY <2>1, <2>2 DEF Keyed, Distinct
<1> QED BY <1>1, <1>2

LEMMA KeyedWider ==
  ASSUME NEW s, NEW K, NEW L, Keyed(s, K), K \subseteq L
  PROVE  Keyed(s, L)
BY DEF Keyed

LEMMA KeyedConcat ==
  ASSUME NEW s, NEW t, NEW K, NEW L, Keyed(s, K), Keyed(t, L), K \cap L = {}
  PROVE  Keyed(s \o t, K \cup L)
<1>1. s \in Seq(Proposal) /\ t \in Seq(Proposal) /\ Len(s) \in Nat /\ Len(t) \in Nat
  BY DEF Keyed
<1>2. /\ s \o t \in Seq(Proposal) /\ Len(s \o t) = Len(s) + Len(t)
      /\ \A i \in 1..(Len(s) + Len(t)) :
           (s \o t)[i] = IF i <= Len(s) THEN s[i] ELSE t[i - Len(s)]
  BY <1>1, ConcatProperties
<1> DEFINE st == s \o t
<1> HIDE DEF st
<1>3. ASSUME NEW i \in 1..(Len(s) + Len(t))
      PROVE  \/ i \in 1..Len(s) /\ st[i] = s[i] /\ st[i].key \in K
             \/ i - Len(s) \in 1..Len(t) /\ st[i] = t[i - Len(s)] /\ st[i].key \in L
  BY <1>1, <1>2 DEF Keyed, st
<1>4. ASSUME NEW i \in 1..Len(st), NEW j \in 1..Len(st), i # j PROVE st[i].key # st[j].key
  <2>1. i \in 1..(Len(s) + Len(t)) /\ j \in 1..(Len(s) + Len(t))
    BY <1>2 DEF st
  <2>2. i - Len(s) # j - Len(s)
    BY <1>4, <1>1
  <2> QED BY <1>3, <1>4, <2>1, <2>2 DEF Keyed, Distinct
<1>5. \A i \in 1..Len(st) : st[i].key \in K \cup L
  BY <1>2, <1>3 DEF st
<1> QED BY <1>2, <1>4, <1>5 DEF Keyed, Distinct, st

(* What is dropped of proposals leaves them apart.                         *)
LEMMA KeyedSubsequence ==
  ASSUME NEW s, NEW K, Keyed(s, K), NEW at \in SUBSET DOMAIN s
  PROVE  Keyed(Subsequence(s, at), K)
<1>1. s \in Seq(Proposal) /\ Len(s) \in Nat /\ DOMAIN s = 1..Len(s)
  BY DEF Keyed
<1> DEFINE u == Subsequence(s, at)
<1>2. u \in Seq(Proposal) /\ Len(u) = Cardinality(at)
  BY <1>1, SubsequenceType
<1>3. PICK from \in [1..Cardinality(at) -> at] :
        /\ \A k, l \in 1..Cardinality(at) : k # l => from[k] # from[l]
        /\ \A k \in 1..Cardinality(at) : u[k] = s[from[k]]
  BY <1>1, SubsequencePositions
<1> HIDE DEF u
<1>4. \A k \in 1..Len(u) : from[k] \in 1..Len(s) /\ u[k] = s[from[k]]
  BY <1>1, <1>2, <1>3
<1>5. Distinct(u)
  BY <1>2, <1>3, <1>4 DEF Keyed, Distinct
<1>6. \A i \in 1..Len(u) : u[i].key \in K
  BY <1>4 DEF Keyed
<1> QED BY <1>2, <1>5, <1>6 DEF Keyed, u

(* A message proposes at most one thing for each key.                      *)
LEMMA CaptureIsKeyed ==
  ASSUME NEW m \in Messages, NEW learned \in BOOLEAN, NEW contents
  PROVE  Keyed(capture_brain(m, learned, contents), Key)
<1> DEFINE For(kind) == {k \in Key : k[1] = kind}
           Language == {<<"preference", "assistant_language">>}
           Style == {<<"preference", "assistant_style">>}
<1>1. m.about \in About
  BY DEF About
<1>2. Language \subseteq Key /\ Style \subseteq Key /\ <<"profile_fact", "user_name">> \in Key
  BY DEF Key, KeyName, Kind
<1>3. ASSUME NEW kind \in Kind PROVE <<kind, Slug[m.about]>> \in Key
  BY <1>1 DEF Key, KeyName
<1>4. Keyed(extract_language_preference(m), Language)
  <2> DEFINE c == Candidate("user", "preference", <<"preference", "assistant_language">>, m.about, 97)
  <2>1. c \in Proposal /\ c.key \in Language
    BY <1>1, <1>2, <1>3 DEF Candidate, Proposal, ConfidenceOf, Kind, ScopeName
  <2> HIDE DEF c
  <2>2. (contains_any(m, "reply in")) \in BOOLEAN
    BY DEF contains_any
  <2>3. {c.key} \subseteq Language
    BY <2>1
  <2>4. Keyed(When(contains_any(m, "reply in"), c), {c.key})
    BY <2>1, <2>2, KeyedWhen
  <2>5. Keyed(When(contains_any(m, "reply in"), c), Language)
    <3> HIDE DEF For, Language, Style
    <3> QED BY <2>3, <2>4, KeyedWider
  <2> QED BY <2>5 DEF extract_language_preference, c
<1>5. Keyed(extract_response_style_preference(m), Style)
  <2> DEFINE c == Candidate("user", "preference", <<"preference", "assistant_style">>, m.about, 90)
  <2>1. c \in Proposal /\ c.key \in Style
    BY <1>1, <1>2, <1>3 DEF Candidate, Proposal, ConfidenceOf, Kind, ScopeName
  <2> HIDE DEF c
  <2>2. (contains_any(m, "brief")) \in BOOLEAN
    BY DEF contains_any
  <2>3. {c.key} \subseteq Style
    BY <2>1
  <2>4. Keyed(When(contains_any(m, "brief"), c), {c.key})
    BY <2>1, <2>2, KeyedWhen
  <2>5. Keyed(When(contains_any(m, "brief"), c), Style)
    <3> HIDE DEF For, Language, Style
    <3> QED BY <2>3, <2>4, KeyedWider
  <2> QED BY <2>5 DEF extract_response_style_preference, c
<1>6. Keyed(extract_profile_fact(m), For("profile_fact"))
  <2> DEFINE c == Candidate("user", "profile_fact", <<"profile_fact", "user_name">>, m.about, 88)
  <2>1. c \in Proposal /\ c.key \in For("profile_fact")
    BY <1>1, <1>2, <1>3 DEF Candidate, Proposal, ConfidenceOf, Kind, ScopeName
  <2> HIDE DEF c
  <2>2. (contains_any(m, "my name is")) \in BOOLEAN
    BY DEF contains_any
  <2>3. {c.key} \subseteq For("profile_fact")
    BY <2>1
  <2>4. Keyed(When(contains_any(m, "my name is"), c), {c.key})
    BY <2>1, <2>2, KeyedWhen
  <2>5. Keyed(When(contains_any(m, "my name is"), c), For("profile_fact"))
    <3> HIDE DEF For, Language, Style
    <3> QED BY <2>3, <2>4, KeyedWider
  <2> QED BY <2>5 DEF extract_profile_fact, c
<1>7. Keyed(extract_constraint(m), For("constraint"))
  <2> DEFINE c == Candidate("conversation", "constraint", <<"constraint", Slug[m.about]>>, m.about, 90)
  <2>1. c \in Proposal /\ c.key \in For("constraint")
    BY <1>1, <1>2, <1>3 DEF Candidate, Proposal, ConfidenceOf, Kind, ScopeName, OfConversation, stable_memory_key
  <2> HIDE DEF c
  <2>2. (contains_any(m, "avoid") \/ contains_any(m, "no use")) \in BOOLEAN
    BY DEF contains_any
  <2>3. {c.key} \subseteq For("constraint")
    BY <2>1
  <2>4. Keyed(When(contains_any(m, "avoid") \/ contains_any(m, "no use"), c), {c.key})
    BY <2>1, <2>2, KeyedWhen
  <2>5. Keyed(When(contains_any(m, "avoid") \/ contains_any(m, "no use"), c), For("constraint"))
    <3> HIDE DEF For, Language, Style
    <3> QED BY <2>3, <2>4, KeyedWider
  <2> QED BY <2>5 DEF extract_constraint, c, OfConversation, stable_memory_key
<1>8. Keyed(extract_decision(m, learned), For("decision"))
  <2> DEFINE c == Explained(Candidate("conversation", "decision", <<"decision", Slug[m.about]>>,
                                    m.about, 92), m, learned)
  <2> DEFINE plain == Candidate("conversation", "decision", <<"decision", Slug[m.about]>>, m.about, 92)
             why == m.phrase = "i want because"
  <2>0. plain \in Proposal /\ plain.key \in For("decision")
    BY <1>1, <1>2, <1>3 DEF Candidate, Proposal, ConfidenceOf, Kind, ScopeName
  <2> HIDE DEF plain, why
  <2>1. c \in Proposal /\ c.key \in For("decision")
    <3>1. c = [plain EXCEPT !.why = why, !.learned = learned]
      BY DEF Explained, plain, why
    <3>2. why \in BOOLEAN
      BY DEF why
    <3> HIDE DEF c
    <3> QED BY <2>0, <3>1, <3>2 DEF Proposal
  <2> HIDE DEF c
  <2>2. (contains_any(m, "use")) \in BOOLEAN
    BY DEF contains_any
  <2>3. {c.key} \subseteq For("decision")
    BY <2>1
  <2>4. Keyed(When(contains_any(m, "use"), c), {c.key})
    BY <2>1, <2>2, KeyedWhen
  <2>5. Keyed(When(contains_any(m, "use"), c), For("decision"))
    <3> HIDE DEF For, Language, Style
    <3> QED BY <2>3, <2>4, KeyedWider
  <2> QED BY <2>5 DEF extract_decision, c, OfConversation, stable_memory_key
<1>9. Keyed(extract_goal(m, learned), For("goal"))
  <2> DEFINE c == Explained(Candidate("conversation", "goal", <<"goal", Slug[m.about]>>,
                                    m.about, 86), m, learned)
  <2> DEFINE plain == Candidate("conversation", "goal", <<"goal", Slug[m.about]>>, m.about, 86)
             why == m.phrase = "i want because"
  <2>0. plain \in Proposal /\ plain.key \in For("goal")
    BY <1>1, <1>2, <1>3 DEF Candidate, Proposal, ConfidenceOf, Kind, ScopeName
  <2> HIDE DEF plain, why
  <2>1. c \in Proposal /\ c.key \in For("goal")
    <3>1. c = [plain EXCEPT !.why = why, !.learned = learned]
      BY DEF Explained, plain, why
    <3>2. why \in BOOLEAN
      BY DEF why
    <3> HIDE DEF c
    <3> QED BY <2>0, <3>1, <3>2 DEF Proposal
  <2> HIDE DEF c
  <2>2. (contains_any(m, "i want")) \in BOOLEAN
    BY DEF contains_any
  <2>3. {c.key} \subseteq For("goal")
    BY <2>1
  <2>4. Keyed(When(contains_any(m, "i want"), c), {c.key})
    BY <2>1, <2>2, KeyedWhen
  <2>5. Keyed(When(contains_any(m, "i want"), c), For("goal"))
    <3> HIDE DEF For, Language, Style
    <3> QED BY <2>3, <2>4, KeyedWider
  <2> QED BY <2>5 DEF extract_goal, c, OfConversation, stable_memory_key
<1>10. Keyed(extract_lesson(m), For("lesson"))
  <2> DEFINE c == Candidate("conversation", "lesson", <<"lesson", Slug[m.about]>>, m.about, 84)
  <2>1. c \in Proposal /\ c.key \in For("lesson")
    BY <1>1, <1>2, <1>3 DEF Candidate, Proposal, ConfidenceOf, Kind, ScopeName, OfConversation, stable_memory_key
  <2> HIDE DEF c
  <2>2. (contains_any(m, "learned that")) \in BOOLEAN
    BY DEF contains_any
  <2>3. {c.key} \subseteq For("lesson")
    BY <2>1
  <2>4. Keyed(When(contains_any(m, "learned that"), c), {c.key})
    BY <2>1, <2>2, KeyedWhen
  <2>5. Keyed(When(contains_any(m, "learned that"), c), For("lesson"))
    <3> HIDE DEF For, Language, Style
    <3> QED BY <2>3, <2>4, KeyedWider
  <2> QED BY <2>5 DEF extract_lesson, c, OfConversation, stable_memory_key
<1>11. Keyed(extract_source_location(m), For("source_location"))
  <2> DEFINE c == Candidate("conversation", "source_location", <<"source_location", Slug[m.about]>>, m.about, 82)
  <2>1. c \in Proposal /\ c.key \in For("source_location")
    BY <1>1, <1>2, <1>3 DEF Candidate, Proposal, ConfidenceOf, Kind, ScopeName, OfConversation, stable_memory_key
  <2> HIDE DEF c
  <2>2. (contains_any(m, "path")) \in BOOLEAN
    BY DEF contains_any
  <2>3. {c.key} \subseteq For("source_location")
    BY <2>1
  <2>4. Keyed(When(contains_any(m, "path"), c), {c.key})
    BY <2>1, <2>2, KeyedWhen
  <2>5. Keyed(When(contains_any(m, "path"), c), For("source_location"))
    <3> HIDE DEF For, Language, Style
    <3> QED BY <2>3, <2>4, KeyedWider
  <2> QED BY <2>5 DEF extract_source_location, c, OfConversation, stable_memory_key
<1> DEFINE k1 == extract_language_preference(m)
           k2 == extract_response_style_preference(m)
           k3 == extract_profile_fact(m)
           k4 == extract_constraint(m)
           k5 == extract_decision(m, learned)
           k6 == extract_goal(m, learned)
           k7 == extract_lesson(m)
           k8 == extract_source_location(m)
<1>12. /\ Language \cap Style = {}
       /\ (Language \cup Style) \cap For("profile_fact") = {}
       /\ (Language \cup Style \cup For("profile_fact")) \cap For("constraint") = {}
       /\ (Language \cup Style \cup For("profile_fact") \cup For("constraint"))
            \cap For("decision") = {}
       /\ For("goal") \cap For("lesson") = {}
       /\ (For("goal") \cup For("lesson")) \cap For("source_location") = {}
       /\ (Language \cup Style \cup For("profile_fact") \cup For("constraint")
             \cup For("decision")) \cap (For("goal") \cup For("lesson")
             \cup For("source_location")) = {}
  OBVIOUS
<1>13. /\ Language \subseteq Key /\ Style \subseteq Key
       /\ \A kind : For(kind) \subseteq Key
  BY <1>2
<1> DEFINE Explicit == Language \cup Style \cup For("profile_fact") \cup For("constraint")
                         \cup For("decision")
           Implied == For("goal") \cup For("lesson") \cup For("source_location")
<1>14. Explicit \subseteq Key /\ Implied \subseteq Key
  BY <1>13
<1> HIDE DEF For, Language, Style, k1, k2, k3, k4, k5, k6, k7, k8
<1>15. Keyed(k1 \o k2 \o k3 \o k4 \o k5, Explicit)
  <2>1. Keyed(k1 \o k2, Language \cup Style)
    BY <1>4, <1>5, <1>12, KeyedConcat DEF k1, k2
  <2>2. Keyed(k1 \o k2 \o k3, Language \cup Style \cup For("profile_fact"))
    BY <2>1, <1>6, <1>12, KeyedConcat DEF k3
  <2>3. Keyed(k1 \o k2 \o k3 \o k4, Language \cup Style \cup For("profile_fact")
                                       \cup For("constraint"))
    BY <2>2, <1>7, <1>12, KeyedConcat DEF k4
  <2> QED BY <2>3, <1>8, <1>12, KeyedConcat DEF k5
<1>16. Keyed(k6 \o k7 \o k8, Implied)
  <2>1. Keyed(k6 \o k7, For("goal") \cup For("lesson"))
    BY <1>9, <1>10, <1>12, KeyedConcat DEF k6, k7
  <2> QED BY <2>1, <1>11, <1>12, KeyedConcat DEF k8
<1>17. Keyed(<<>>, Implied)
  BY DEF Keyed, Distinct
<1>18. Explicit \cap Implied = {}
  BY <1>12
<1> DEFINE more == IF AutoWriteMode = "aggressive" THEN k6 \o k7 \o k8 ELSE <<>>
           all == k1 \o k2 \o k3 \o k4 \o k5 \o more
<1> HIDE DEF Explicit, Implied
<1>19. Keyed(more, Implied)
  BY <1>16, <1>17
<1>20. Keyed(all, Key)
  <2> HIDE DEF more
  <2>1. Keyed(all, Explicit \cup Implied)
    BY <1>15, <1>18, <1>19, KeyedConcat
  <2> HIDE DEF all
  <2> QED BY <2>1, <1>14, KeyedWider
<1>21. Keyed(dedupe_candidates(all, contents), Key)
  <2> HIDE DEF all
  <2> DEFINE corpus == {contents[i] : i \in {j \in DOMAIN contents : j > Len(contents) - 4}}
             First(i) == \A j \in 1..(i - 1) :
               <<all[j].scope, all[j].key, all[j].value>> #
                 <<all[i].scope, all[i].key, all[i].value>>
             at == {i \in DOMAIN all : First(i) /\ all[i].value \notin corpus}
  <2>1. dedupe_candidates(all, contents) = Subsequence(all, at)
    BY DEF dedupe_candidates
  <2>2. at \in SUBSET DOMAIN all
    OBVIOUS
  <2> HIDE DEF at
  <2> QED BY <2>1, <2>2, <1>20, KeyedSubsequence
<1>22. capture_brain(m, learned, contents) \in {<<>>, dedupe_candidates(all, contents)}
  BY DEF capture_brain, k1, k2, k3, k4, k5, k6, k7, k8
<1>23. Keyed(<<>>, Key)
  BY DEF Keyed, Distinct
<1> QED BY <1>21, <1>22, <1>23

-----------------------------------------------------------------------------
(* The table of memories                                                   *)

(* What is superseded leads to a later row about the same.                 *)
Chained(rows) ==
  \A i \in 1..Len(rows) : rows[i].status = "superseded" =>
    /\ rows[i].superseded_by \in (i + 1)..Len(rows)
    /\ rows[rows[i].superseded_by].key = rows[i].key
(* What was said of something has an active row.                           *)
Kept(rows) == \A i \in 1..Len(rows) : \E j \in 1..Len(rows) :
                rows[j].key = rows[i].key /\ rows[j].status = "active"
(* No two rows were written at once.                                       *)
Timed(rows) == \A i, j \in 1..Len(rows) : i # j => rows[i].updated_at # rows[j].updated_at
Sure(rows) == \A i \in 1..Len(rows) : rows[i].confidence = ConfidenceOf(rows[i].key)
Sound(rows) == rows \in Seq(RowSet) /\ Chained(rows) /\ Kept(rows) /\ Timed(rows) /\ Sure(rows)

OneActive(rows) == \A i, j \in 1..Len(rows) :
  /\ rows[i].key = rows[j].key
  /\ rows[i].status = "active" /\ rows[j].status = "active"
  => i = j

(* Max is the greatest element.                                            *)
LEMMA MaxIsGreatest ==
  ASSUME NEW S \in SUBSET Int, IsFiniteSet(S), S # {}
  PROVE  Max(S) \in S /\ \A x \in S : x <= Max(S)
<1>1. \E x \in S : \A y \in S : x >= y
  <2>1. PICK x \in S : \A y \in S : y <= x
    BY GreatestElement
  <2> QED BY <2>1
<1> QED BY <1>1 DEF Max

(* Now is later than any row.                                              *)
LEMMA NowIsLater ==
  ASSUME NEW rows \in Seq(RowSet)
  PROVE  Now(rows) \in Nat /\ \A i \in 1..Len(rows) : rows[i].updated_at < Now(rows)
<1> DEFINE n == Len(rows)
           T == {rows[i].updated_at : i \in DOMAIN rows}
           f == [i \in DOMAIN rows |-> rows[i].updated_at]
<1>1. n \in Nat /\ DOMAIN rows = 1..n
  OBVIOUS
<1>2. \A i \in 1..n : rows[i] \in RowSet
  OBVIOUS
<1>3. \A i \in 1..n : rows[i].updated_at \in Nat
  BY <1>2 DEF RowSet
<1>4. f \in Surjection(DOMAIN rows, T)
  BY DEF Surjection
<1>5. IsFiniteSet(DOMAIN rows)
  BY <1>1, FS_Interval
<1>6. IsFiniteSet(T)
  <2> HIDE DEF f, T
  <2> QED BY <1>4, <1>5, FS_Surjection
<1>7. T \subseteq Nat
  BY <1>1, <1>3
<1>8. IsFiniteSet({0} \cup T)
  <2>1. IsFiniteSet({0})
    BY FS_Singleton
  <2> HIDE DEF T
  <2> QED BY <1>6, <2>1, FS_Union
<1>9. Max({0} \cup T) \in {0} \cup T /\ \A x \in {0} \cup T : x <= Max({0} \cup T)
  <2> HIDE DEF T
  <2>1. {0} \cup T \in SUBSET Int /\ {0} \cup T # {}
    BY <1>7
  <2> QED BY <1>8, <2>1, MaxIsGreatest
<1>10. \A i \in 1..n : rows[i].updated_at \in T
  BY <1>1
<1> DEFINE last == Max({0} \cup T)
<1>11. Now(rows) = 1 + last
  BY DEF Now
<1>12. last \in {0} \cup T /\ \A x \in {0} \cup T : x <= last
  BY <1>9
<1> HIDE DEF T, last
<1>13. last \in Nat
  BY <1>7, <1>12
<1>14. \A i \in 1..n : rows[i].updated_at <= last
  BY <1>10, <1>12
<1> QED BY <1>3, <1>11, <1>13, <1>14

(* What a proposal for a row the table has, or had, makes of it.           *)
Refers(rows, e, c) == e = NoRow \/ (e \in 1..Len(rows) /\ rows[e].key = c.key)
Extends(new, rows, c) ==
  /\ Len(new) >= Len(rows)
  /\ \A i \in 1..Len(rows) : /\ new[i].key = rows[i].key
                             /\ rows[i].key # c.key => new[i] = rows[i]
  /\ \A i \in (Len(rows) + 1)..Len(new) : new[i].key = c.key

LEMMA RowType ==
  ASSUME NEW c \in Proposal, NEW turn_id \in Nat, NEW now \in Nat
  PROVE  /\ Row(c, turn_id, now) \in RowSet /\ Row(c, turn_id, now).key = c.key
         /\ Row(c, turn_id, now).status = "active" /\ Row(c, turn_id, now).updated_at = now
         /\ Text(Row(c, turn_id, now)) = Text(c)
         /\ Row(c, turn_id, now).confidence = ConfidenceOf(c.key)
BY DEF Row, RowSet, Proposal, NoRow, Text

LEMMA InsertIsSound ==
  ASSUME NEW rows, Sound(rows), NEW c \in Proposal, NEW turn_id \in Nat
  PROVE  LET new == insert_brain_candidate(rows, c, turn_id) IN
         /\ Sound(new) /\ Extends(new, rows, c) /\ Len(new) = Len(rows) + 1
         /\ \A i \in 1..Len(rows) : new[i] = rows[i]
         /\ new[Len(new)].key = c.key /\ new[Len(new)].status = "active"
         /\ Text(new[Len(new)]) = Text(c)
<1> DEFINE r == Row(c, turn_id, Now(rows))
           new == insert_brain_candidate(rows, c, turn_id)
           n == Len(rows)
<1>1. rows \in Seq(RowSet) /\ n \in Nat
  BY DEF Sound
<1>2. Now(rows) \in Nat /\ \A i \in 1..n : rows[i].updated_at < Now(rows)
  BY <1>1, NowIsLater
<1>3. /\ r \in RowSet /\ r.key = c.key /\ r.status = "active" /\ r.updated_at = Now(rows)
      /\ Text(r) = Text(c) /\ r.confidence = ConfidenceOf(c.key)
  BY <1>2, RowType
<1> HIDE DEF r
<1>4. /\ new \in Seq(RowSet) /\ Len(new) = n + 1
      /\ \A i \in 1..n : new[i] = rows[i]
      /\ new[n + 1] = r
  BY <1>1, <1>3, AppendProperties DEF insert_brain_candidate, r
<1> HIDE DEF new
<1>5. \A i \in 1..(n + 1) : i \in 1..n \/ i = n + 1
  BY <1>1
<1>6. \A i \in 1..n : rows[i].updated_at \in Nat
  <2>1. \A i \in 1..n : rows[i] \in RowSet
    BY <1>1
  <2> QED BY <2>1 DEF RowSet
<1>7. Chained(new)
  <2>1. ASSUME NEW i \in 1..n, rows[i].status = "superseded"
        PROVE  /\ rows[i].superseded_by \in 1..n /\ rows[i].superseded_by \in (i + 1)..(n + 1)
               /\ rows[rows[i].superseded_by].key = rows[i].key
    BY <1>1, <2>1 DEF Sound, Chained
  <2> QED BY <2>1, <1>3, <1>4, <1>5 DEF Chained
<1>8. Kept(new)
  <2>1. \A i \in 1..n : i \in 1..(n + 1)
    BY <1>1
  <2>2. n + 1 \in 1..(n + 1)
    BY <1>1
  <2>3. ASSUME NEW i \in 1..n
        PROVE  \E j \in 1..(n + 1) : new[j].key = new[i].key /\ new[j].status = "active"
    <3>1. PICK j \in 1..n : rows[j].key = rows[i].key /\ rows[j].status = "active"
      BY DEF Sound, Kept
    <3> QED BY <3>1, <2>1, <1>4
  <2> QED BY <1>3, <1>4, <1>5, <2>2, <2>3 DEF Kept
<1>9. Timed(new)
  <2>1. \A i \in 1..n : rows[i].updated_at # r.updated_at
    BY <1>2, <1>3, <1>6
  <2> QED BY <1>4, <1>5, <2>1 DEF Sound, Timed
<1>10. Sure(new)
  BY <1>3, <1>4, <1>5 DEF Sound, Sure
<1>11. Extends(new, rows, c)
  <2>1. \A i \in (n + 1)..(n + 1) : i = n + 1
    BY <1>1
  <2>2. n + 1 >= n
    BY <1>1
  <2> QED BY <1>3, <1>4, <2>1, <2>2 DEF Extends
<1> QED BY <1>3, <1>4, <1>7, <1>8, <1>9, <1>10, <1>11 DEF Sound, new
LEMMA MergeIsSound ==
  ASSUME NEW rows, Sound(rows), NEW c \in Proposal, NEW turn_id \in Nat,
         NEW e \in 1..Len(rows), rows[e].key = c.key
  PROVE  LET new == merge_brain_candidate(rows, e, c, turn_id) IN
         /\ Sound(new) /\ Extends(new, rows, c) /\ Len(new) = Len(rows)
         /\ \A i \in 1..Len(rows) : new[i].status = rows[i].status /\ Text(new[i]) = Text(rows[i])
<1> DEFINE now == Now(rows)
           new == merge_brain_candidate(rows, e, c, turn_id)
           n == Len(rows)
           old == rows[e]
           r == [old EXCEPT !.confidence = Larger(@, c.confidence),
                            !.source_turn_id = IF turn_id # NoRow THEN turn_id ELSE @,
                            !.updated_at = now]
<1>1. rows \in Seq(RowSet) /\ n \in Nat /\ \A i \in 1..n : rows[i] \in RowSet
  BY DEF Sound
<1>2. now \in Nat /\ \A i \in 1..n : rows[i].updated_at < now
  BY <1>1, NowIsLater
<1>3. old \in RowSet /\ old.confidence = ConfidenceOf(c.key)
  BY <1>1 DEF Sound, Sure
<1>4. c.confidence = old.confidence /\ old.confidence \in Nat
  BY <1>3 DEF Proposal, RowSet
<1> HIDE DEF old, now
<1>5. Larger(old.confidence, c.confidence) = old.confidence
  BY <1>4 DEF Larger
<1>6. /\ r \in RowSet /\ r.key = old.key /\ r.status = old.status /\ Text(r) = Text(old)
      /\ r.superseded_by = old.superseded_by /\ r.confidence = old.confidence
      /\ r.updated_at = now
  BY <1>2, <1>3, <1>5 DEF RowSet, NoRow, Text
<1>7. new = [rows EXCEPT ![e] = r]
  BY <1>1 DEF merge_brain_candidate, now, old
<1> HIDE DEF r, new
<1>8. /\ new \in Seq(RowSet) /\ Len(new) = n
      /\ \A i \in 1..n : new[i] = IF i = e THEN r ELSE rows[i]
  BY <1>1, <1>6, <1>7, ExceptSeq
<1>9. \A i \in 1..n : /\ new[i].key = rows[i].key /\ new[i].status = rows[i].status
                      /\ Text(new[i]) = Text(rows[i]) /\ new[i].confidence = rows[i].confidence
                      /\ new[i].superseded_by = rows[i].superseded_by
  BY <1>6, <1>8 DEF old
<1>10. Chained(new)
  <2>1. ASSUME NEW i \in 1..n, rows[i].status = "superseded"
        PROVE  /\ rows[i].superseded_by \in 1..n /\ rows[i].superseded_by \in (i + 1)..n
               /\ rows[rows[i].superseded_by].key = rows[i].key
    BY <1>1, <2>1 DEF Sound, Chained
  <2> QED BY <2>1, <1>8, <1>9 DEF Chained
<1>11. Kept(new)
  <2>1. ASSUME NEW i \in 1..n
        PROVE  \E j \in 1..n : new[j].key = new[i].key /\ new[j].status = "active"
    <3>1. PICK j \in 1..n : rows[j].key = rows[i].key /\ rows[j].status = "active"
      BY DEF Sound, Kept
    <3> QED BY <3>1, <1>9
  <2>2. Len(new) = n
    BY <1>8
  <2> QED BY <2>1, <2>2 DEF Kept
<1>12. Timed(new)
  <2>1. \A i \in 1..n : rows[i].updated_at # now
    <3>1. \A i \in 1..n : rows[i].updated_at \in Nat
      BY <1>1 DEF RowSet
    <3> QED BY <1>2, <3>1
  <2> QED BY <1>6, <1>8, <2>1 DEF Sound, Timed
<1>13. Sure(new)
  BY <1>8, <1>9 DEF Sound, Sure
<1>14. Extends(new, rows, c)
  <2>1. \A i \in 1..n : rows[i].key # c.key => new[i] = rows[i]
    BY <1>8
  <2> QED BY <1>1, <1>8, <1>9, <2>1 DEF Extends
<1> QED BY <1>8, <1>9, <1>10, <1>11, <1>12, <1>13, <1>14 DEF Sound, new

LEMMA SupersedeIsSound ==
  ASSUME NEW rows, Sound(rows), NEW by \in 1..Len(rows), rows[by].status = "active",
         NEW e \in 1..(by - 1), rows[e].key = rows[by].key
  PROVE  LET new == supersede_brain_memory(rows, e, by) IN
         /\ Sound(new) /\ Len(new) = Len(rows)
         /\ \A i \in 1..Len(rows) : new[i].key = rows[i].key /\ (i # e => new[i] = rows[i])
         /\ new[e].status = "superseded"
<1> DEFINE now == Now(rows)
           new == supersede_brain_memory(rows, e, by)
           n == Len(rows)
           old == rows[e]
           r == [old EXCEPT !.status = "superseded", !.superseded_by = by, !.updated_at = now]
<1>1. rows \in Seq(RowSet) /\ n \in Nat /\ \A i \in 1..n : rows[i] \in RowSet
  BY DEF Sound
<1>2. now \in Nat /\ \A i \in 1..n : rows[i].updated_at < now
  BY <1>1, NowIsLater
<1>3. e \in 1..n /\ by \in (e + 1)..n /\ e # by /\ by \in Nat
  BY <1>1
<1>4. old \in RowSet
  BY <1>1, <1>3
<1> HIDE DEF old, now
<1>5. /\ r \in RowSet /\ r.key = old.key /\ r.status = "superseded" /\ r.superseded_by = by
      /\ r.confidence = old.confidence /\ r.updated_at = now
  BY <1>2, <1>3, <1>4 DEF RowSet
<1>6. new = [rows EXCEPT ![e] = r]
  BY <1>1, <1>3 DEF supersede_brain_memory, now, old
<1> HIDE DEF r, new
<1>7. /\ new \in Seq(RowSet) /\ Len(new) = n
      /\ \A i \in 1..n : new[i] = IF i = e THEN r ELSE rows[i]
  BY <1>1, <1>3, <1>5, <1>6, ExceptSeq
<1>8. \A i \in 1..n : new[i].key = rows[i].key /\ new[i].confidence = rows[i].confidence
  BY <1>5, <1>7 DEF old
<1>9. Chained(new)
  <2>1. ASSUME NEW i \in 1..n, i # e, rows[i].status = "superseded"
        PROVE  /\ rows[i].superseded_by \in 1..n /\ rows[i].superseded_by \in (i + 1)..n
               /\ rows[rows[i].superseded_by].key = rows[i].key
    BY <1>1, <2>1 DEF Sound, Chained
  <2>2. new[by].key = new[e].key /\ new[e].superseded_by = by
    BY <1>3, <1>5, <1>7, <1>8
  <2>3. ASSUME NEW i \in 1..n, new[i].status = "superseded"
        PROVE  new[i].superseded_by \in (i + 1)..n /\ new[new[i].superseded_by].key = new[i].key
    <3>1. CASE i = e
      BY <3>1, <2>2, <1>3
    <3>2. CASE i # e
      <4>1. new[i] = rows[i]
        BY <3>2, <1>7
      <4> QED BY <4>1, <3>2, <2>1, <2>3, <1>8
    <3> QED BY <3>1, <3>2
  <2> QED BY <2>3, <1>7 DEF Chained
<1>10. Kept(new)
  <2>1. ASSUME NEW i \in 1..n
        PROVE  \E j \in 1..n : new[j].key = new[i].key /\ new[j].status = "active"
    <3>1. PICK j \in 1..n : rows[j].key = rows[i].key /\ rows[j].status = "active"
      BY DEF Sound, Kept
    <3>2. CASE j # e
      BY <3>1, <3>2, <1>7, <1>8
    <3>3. CASE j = e
      <4>1. new[by].key = new[i].key /\ new[by].status = "active"
        BY <3>1, <3>3, <1>3, <1>7, <1>8
      <4> QED BY <4>1, <1>3
    <3> QED BY <3>2, <3>3
  <2> QED BY <2>1, <1>7 DEF Kept
<1>11. Timed(new)
  <2>1. \A i \in 1..n : rows[i].updated_at # now
    <3>1. \A i \in 1..n : rows[i].updated_at \in Nat
      BY <1>1 DEF RowSet
    <3> QED BY <1>2, <3>1
  <2> QED BY <1>5, <1>7, <2>1 DEF Sound, Timed
<1>12. Sure(new)
  BY <1>7, <1>8 DEF Sound, Sure
<1> QED BY <1>3, <1>5, <1>7, <1>8, <1>9, <1>10, <1>11, <1>12 DEF Sound, new

(* Whatever row was read, the table stays sound.                           *)
LEMMA SaveIsSound ==
  ASSUME NEW rows, Sound(rows), NEW c \in Proposal, NEW turn_id \in Nat, NEW e,
         Refers(rows, e, c)
  PROVE  LET new == save_or_merge_brain_candidate(rows, e, c, turn_id) IN
         Sound(new) /\ Extends(new, rows, c)
<1> DEFINE new == save_or_merge_brain_candidate(rows, e, c, turn_id)
<1>0. Len(rows) \in Nat
  BY DEF Sound
<1>1. CASE e = NoRow
  <2>1. new = insert_brain_candidate(rows, c, turn_id)
    BY <1>1 DEF save_or_merge_brain_candidate
  <2> QED BY <2>1, InsertIsSound
<1>2. CASE e # NoRow /\ same_content(rows[e], c)
  <2>1. new = merge_brain_candidate(rows, e, c, turn_id)
    BY <1>2 DEF save_or_merge_brain_candidate, candidate_should_supersede
  <2> QED BY <2>1, <1>2, MergeIsSound DEF Refers
<1>3. CASE e # NoRow /\ ~same_content(rows[e], c) /\ candidate_should_supersede(rows[e], c, turn_id)
  <2> DEFINE by == Len(rows) + 1
             mid == insert_brain_candidate(rows, c, turn_id)
  <2>1. new = supersede_brain_memory(mid, e, by)
    BY <1>3 DEF save_or_merge_brain_candidate
  <2>2. /\ Sound(mid) /\ Extends(mid, rows, c) /\ Len(mid) = by
        /\ \A i \in 1..Len(rows) : mid[i] = rows[i]
        /\ mid[by].key = c.key /\ mid[by].status = "active"
    BY InsertIsSound
  <2>3. e \in 1..Len(rows) /\ rows[e].key = c.key
    BY <1>3 DEF Refers
  <2>4. e \in 1..(by - 1) /\ by \in 1..by /\ mid[e].key = c.key
    BY <1>0, <2>2, <2>3
  <2> HIDE DEF mid, by
  <2>5. /\ Sound(new) /\ Len(new) = by
        /\ \A i \in 1..by : new[i].key = mid[i].key /\ (i # e => new[i] = mid[i])
    <3>1. by \in 1..Len(mid) /\ mid[e].key = mid[by].key
      BY <2>2, <2>4
    <3> HIDE DEF new
    <3> QED BY <2>1, <2>2, <2>4, <3>1, SupersedeIsSound
  <2> HIDE DEF new
  <2>6. Extends(new, rows, c)
    <3>1. \A i \in 1..Len(rows) : i \in 1..by
      BY <1>0 DEF by
    <3>2. \A i \in (Len(rows) + 1)..by : i = by /\ i \in 1..by
      BY <1>0 DEF by
    <3>3. by >= Len(rows)
      BY <1>0 DEF by
    <3>4. \A i \in 1..Len(rows) : new[i].key = rows[i].key /\ (rows[i].key # c.key => new[i] = rows[i])
      BY <2>2, <2>3, <2>5, <3>1
    <3> QED BY <2>2, <2>5, <3>2, <3>3, <3>4 DEF Extends
  <2> QED BY <2>5, <2>6 DEF new
<1>4. CASE e # NoRow /\ ~same_content(rows[e], c) /\ ~candidate_should_supersede(rows[e], c, turn_id)
  <2>1. new = rows
    BY <1>4 DEF save_or_merge_brain_candidate
  <2> QED BY <2>1, <1>0 DEF Extends
<1> HIDE DEF new
<1> QED BY <1>1, <1>2, <1>3, <1>4 DEF new
(* The row read for a key is active, or there is none.                     *)
LEMMA ExistingRow ==
  ASSUME NEW rows \in Seq(RowSet), NEW key
  PROVE  \/ existing_row(rows, key) = NoRow /\ ActiveRows(rows, key) = {}
         \/ existing_row(rows, key) \in ActiveRows(rows, key)
<1> DEFINE A == ActiveRows(rows, key)
<1>1. A \subseteq 1..Len(rows) /\ Len(rows) \in Nat
  BY DEF ActiveRows
<1>2. ASSUME A # {} PROVE \E i \in A : \A j \in A : j <= i
  <2>1. A \in SUBSET Int /\ IsFiniteSet(A)
    <3>1. IsFiniteSet(1..Len(rows))
      BY <1>1, FS_Interval
    <3>2. 1..Len(rows) \subseteq Int
      OBVIOUS
    <3> HIDE DEF A
    <3>3. A \in SUBSET (1..Len(rows))
      BY <1>1
    <3> QED BY <3>1, <3>2, <3>3, FS_Subset
  <2> HIDE DEF A
  <2> QED BY <1>2, <2>1, GreatestElement
<1>3. CASE A = {}
  BY <1>3 DEF existing_row
<1>4. CASE A # {}
  <2>1. existing_row(rows, key) = CHOOSE i \in A : \A j \in A : j <= i
    BY <1>4 DEF existing_row
  <2> HIDE DEF A
  <2>2. existing_row(rows, key) \in A
    BY <1>2, <1>4, <2>1
  <2> QED BY <2>2 DEF A
<1> HIDE DEF A
<1> QED BY <1>3, <1>4

Remembered(rows, c) ==
  \E i \in 1..Len(rows) : /\ rows[i].key = c.key /\ rows[i].status = "active"
                          /\ Text(rows[i]) = Text(c)

(* If the row that was read is the one there is, what is said is what is   *)
(* remembered, alone.                                                      *)
LEMMA SaveIsCurrent ==
  ASSUME NEW rows, Sound(rows), OneActive(rows), NEW c \in Proposal, NEW turn_id \in Nat
  PROVE  LET new == save_or_merge_brain_candidate(rows, existing_row(rows, c.key), c, turn_id) IN
         OneActive(new) /\ Remembered(new, c)
<1> DEFINE e == existing_row(rows, c.key)
           new == save_or_merge_brain_candidate(rows, e, c, turn_id)
           n == Len(rows)
<1>1. rows \in Seq(RowSet) /\ n \in Nat /\ DOMAIN rows = 1..n
  BY DEF Sound
<1>2. \/ e = NoRow /\ \A i \in 1..n : ~(rows[i].key = c.key /\ rows[i].status = "active")
      \/ e \in 1..n /\ rows[e].key = c.key /\ rows[e].status = "active"
  BY <1>1, ExistingRow DEF ActiveRows
<1> HIDE DEF e
<1>3. \A i, j \in 1..n : rows[i].key = rows[j].key /\ rows[i].status = "active"
                           /\ rows[j].status = "active" => i = j
  BY DEF OneActive
<1>4. CASE e = NoRow
  <2>1. new = insert_brain_candidate(rows, c, turn_id)
    BY <1>4 DEF save_or_merge_brain_candidate
  <2>2. /\ Len(new) = n + 1 /\ \A i \in 1..n : new[i] = rows[i]
        /\ new[n + 1].key = c.key /\ new[n + 1].status = "active" /\ Text(new[n + 1]) = Text(c)
    BY <2>1, InsertIsSound
  <2>3. \A i \in 1..n : ~(rows[i].key = c.key /\ rows[i].status = "active")
    BY <1>2, <1>4, <1>1 DEF NoRow
  <2>4. n + 1 \in 1..(n + 1) /\ \A i \in 1..(n + 1) : i \in 1..n \/ i = n + 1
    BY <1>1
  <2> HIDE DEF new
  <2>5. OneActive(new)
    <3>1. ASSUME NEW i \in 1..(n + 1), NEW j \in 1..(n + 1), new[i].key = new[j].key,
                 new[i].status = "active", new[j].status = "active"
          PROVE  i = j
      <4>1. CASE i = n + 1 /\ j = n + 1
        BY <4>1
      <4>2. CASE i \in 1..n /\ j \in 1..n
        BY <4>2, <3>1, <2>2, <1>3
      <4>3. CASE i \in 1..n /\ j = n + 1
        BY <4>3, <3>1, <2>2, <2>3
      <4>4. CASE i = n + 1 /\ j \in 1..n
        BY <4>4, <3>1, <2>2, <2>3
      <4> QED BY <2>4, <4>1, <4>2, <4>3, <4>4
    <3> QED BY <3>1, <2>2 DEF OneActive
  <2>6. Remembered(new, c)
    BY <2>2, <2>4 DEF Remembered
  <2> QED BY <2>5, <2>6 DEF new, e
<1>5. CASE e # NoRow /\ same_content(rows[e], c)
  <2>1. new = merge_brain_candidate(rows, e, c, turn_id)
    BY <1>5 DEF save_or_merge_brain_candidate, candidate_should_supersede
  <2>2. e \in 1..n /\ rows[e].key = c.key /\ rows[e].status = "active" /\ Text(rows[e]) = Text(c)
    BY <1>2, <1>5 DEF same_content, Text
  <2>3. /\ Len(new) = n /\ Extends(new, rows, c)
        /\ \A i \in 1..n : new[i].status = rows[i].status /\ Text(new[i]) = Text(rows[i])
    <3>1. e \in 1..Len(rows) /\ rows[e].key = c.key
      BY <2>2
    <3> HIDE DEF new
    <3> QED BY <2>1, <3>1, MergeIsSound
  <2>4. \A i \in 1..n : new[i].key = rows[i].key
    BY <2>3 DEF Extends
  <2> HIDE DEF new
  <2>5. OneActive(new)
    BY <2>3, <2>4, <1>3 DEF OneActive
  <2>6. Remembered(new, c)
    BY <2>2, <2>3, <2>4 DEF Remembered
  <2> QED BY <2>5, <2>6 DEF new, e
<1>6. CASE e # NoRow /\ ~same_content(rows[e], c)
  <2> DEFINE by == n + 1
             mid == insert_brain_candidate(rows, c, turn_id)
  <2>1. e \in 1..n /\ rows[e].key = c.key /\ rows[e].status = "active"
    BY <1>2, <1>6
  <2>2. candidate_should_supersede(rows[e], c, turn_id)
    <3>1. rows[e].confidence = c.confidence /\ c.confidence \in Nat
      BY <2>1 DEF Sound, Sure, Proposal
    <3>2. c.confidence + 5 >= rows[e].confidence
      BY <3>1
    <3> QED BY <1>6, <3>2 DEF candidate_should_supersede
  <2>3. new = supersede_brain_memory(mid, e, by)
    BY <1>6, <2>2 DEF save_or_merge_brain_candidate
  <2>4. /\ Sound(mid) /\ Len(mid) = by
        /\ \A i \in 1..n : mid[i] = rows[i]
        /\ mid[by].key = c.key /\ mid[by].status = "active" /\ Text(mid[by]) = Text(c)
    BY InsertIsSound
  <2>5. e \in 1..(by - 1) /\ by \in 1..by /\ e # by /\ mid[e].key = c.key
    BY <1>1, <2>1, <2>4
  <2>6. \A i \in 1..by : i \in 1..n \/ i = by
    BY <1>1
  <2> HIDE DEF mid, by
  <2>7. /\ Len(new) = by /\ new[e].status = "superseded"
        /\ \A i \in 1..by : new[i].key = mid[i].key /\ (i # e => new[i] = mid[i])
    <3>1. by \in 1..Len(mid) /\ mid[e].key = mid[by].key
      BY <2>4, <2>5
    <3> HIDE DEF new
    <3> QED BY <2>3, <2>4, <2>5, <3>1, SupersedeIsSound
  <2> HIDE DEF new
  <2>8. OneActive(new)
    <3>1. ASSUME NEW i \in 1..by, new[i].key = c.key, new[i].status = "active" PROVE i = by
      <4>1. i # e
        BY <3>1, <2>7
      <4>2. CASE i \in 1..n
        <5>1. rows[i].key = c.key /\ rows[i].status = "active"
          BY <4>1, <4>2, <3>1, <2>4, <2>7
        <5> QED BY <5>1, <4>1, <4>2, <2>1, <1>3
      <4> QED BY <4>2, <2>6
    <3>2. ASSUME NEW i \in 1..by, NEW j \in 1..by, new[i].key = new[j].key,
                 new[i].status = "active", new[j].status = "active"
          PROVE  i = j
      <4>1. CASE new[i].key = c.key
        BY <4>1, <3>1, <3>2
      <4>2. CASE new[i].key # c.key
        <5>1. i # by /\ j # by /\ i # e /\ j # e
          BY <4>2, <3>2, <2>4, <2>7, <2>5
        <5>2. i \in 1..n /\ j \in 1..n /\ new[i] = rows[i] /\ new[j] = rows[j]
          BY <5>1, <2>4, <2>6, <2>7
        <5> QED BY <5>2, <3>2, <1>3
      <4> QED BY <4>1, <4>2
    <3> QED BY <3>2, <2>7 DEF OneActive
  <2>9. Remembered(new, c)
    BY <2>4, <2>5, <2>7 DEF Remembered
  <2> QED BY <2>8, <2>9 DEF new, e
<1> HIDE DEF new
<1> QED BY <1>4, <1>5, <1>6 DEF new, e

(* The table after the first k candidates of a transaction.                *)
Saves(table, rows, cs, read, source) ==
  /\ table[0] = rows /\ table[Len(cs)] = saved_brain(rows, cs, read, source)
  /\ \A k \in 1..Len(cs) :
       table[k] = save_or_merge_brain_candidate(table[k - 1], read[k], cs[k], source)
  /\ \A k \in 0..Len(cs) : /\ Sound(table[k]) /\ Len(table[k]) >= Len(rows)
                           /\ \A i \in 1..Len(rows) : table[k][i].key = rows[i].key
LEMMA SavedInSteps ==
  ASSUME NEW rows, Sound(rows), NEW cs \in Seq(Proposal), NEW read, NEW source \in Nat,
         \A k \in 1..Len(cs) : Refers(rows, read[k], cs[k])
  PROVE  \E table : Saves(table, rows, cs, read, source)
<1> DEFINE n == Len(cs)
           S == {tb \in Seq(RowSet) : /\ Sound(tb) /\ Len(tb) >= Len(rows)
                                      /\ \A i \in 1..Len(rows) : tb[i].key = rows[i].key}
           next(tb, k) == save_or_merge_brain_candidate(tb, read[k], cs[k], source)
           Fills(f) == f = [k \in 0..n |-> IF k = 0 THEN rows ELSE next(f[k - 1], k)]
           table == CHOOSE f : Fills(f)
<1>1. n \in Nat /\ rows \in Seq(RowSet) /\ Len(rows) \in Nat
  BY DEF Sound
<1>2. rows \in S
  BY <1>1
<1>3. ASSUME NEW tb \in S, NEW k \in 1..n PROVE next(tb, k) \in S
  <2>1. cs[k] \in Proposal
    OBVIOUS
  <2>2. Sound(tb) /\ Len(tb) \in Nat /\ Len(tb) >= Len(rows)
        /\ \A i \in 1..Len(rows) : tb[i].key = rows[i].key
    BY DEF Sound
  <2>3. Refers(tb, read[k], cs[k])
    <3>1. Refers(rows, read[k], cs[k])
      OBVIOUS
    <3> QED BY <3>1, <2>2, <1>1 DEF Refers
  <2>4. Sound(next(tb, k)) /\ Extends(next(tb, k), tb, cs[k])
    BY <2>1, <2>2, <2>3, SaveIsSound
  <2> HIDE DEF next
  <2>5. Len(next(tb, k)) \in Nat /\ next(tb, k) \in Seq(RowSet)
    BY <2>4 DEF Sound
  <2> QED BY <1>1, <2>2, <2>4, <2>5 DEF Extends
<1>4. \E f : Fills(f)
  <2> DEFINE step == [p \in S \X (1..n) |-> next(p[1], p[2])]
  <2>1. step \in [S \X (1..n) -> S]
    <3> HIDE DEF S, next
    <3> QED BY <1>3
  <2>2. \A tb \in S, k \in 1..n : step[<<tb, k>>] = next(tb, k)
    <3> HIDE DEF S, next
    <3> QED OBVIOUS
  <2> HIDE DEF S, step, next, n
  <2>3. PICK f : IsTable(f, S, rows, n, step)
    <3>1. n \in Nat
      BY <1>1 DEF n
    <3> QED BY <1>2, <2>1, <3>1, TableIsMade
  <2>3a. f \in [0..n -> S] /\ f[0] = rows /\ \A k \in 1..n : f[k] = step[<<f[k - 1], k>>]
    BY <2>3 DEF IsTable
  <2>4. \A k \in 1..n : f[k] = next(f[k - 1], k)
    <3>1. \A k \in 1..n : k - 1 \in 0..n
      BY <1>1 DEF n
    <3> QED BY <2>2, <2>3a, <3>1
  <2>5. f = [k \in 0..n |-> f[k]]
    BY <2>3a
  <2>6. \A k \in 0..n : f[k] = IF k = 0 THEN rows ELSE next(f[k - 1], k)
    <3>1. \A k \in 0..n : k = 0 \/ k \in 1..n
      BY <1>1 DEF n
    <3> QED BY <2>3a, <2>4, <3>1
  <2>7. Fills(f)
    BY <2>5, <2>6
  <2> QED BY <2>7
<1>5. Fills(table)
  <2> HIDE DEF Fills
  <2> QED BY <1>4
<1>6. saved_brain(rows, cs, read, source) = table[n]
  BY DEF saved_brain
<1> HIDE DEF S, next
<1>7. table[0] = rows /\ \A k \in 1..n : table[k] = next(table[k - 1], k)
  <2>1. 0 \in 0..n /\ \A k \in 1..n : k \in 0..n /\ k # 0
    BY <1>1
  <2> DEFINE at(f, k) == IF k = 0 THEN rows ELSE next(f[k - 1], k)
  <2>2. table = [k \in 0..n |-> at(table, k)]
    BY <1>5
  <2> HIDE DEF at, table
  <2>3. \A k \in 0..n : table[k] = at(table, k)
    BY <2>2
  <2> QED BY <2>1, <2>3 DEF at
<1> HIDE DEF table, Fills
<1>8. \A k \in 0..n : table[k] \in S
  <2> DEFINE T == {k \in 0..n : table[k] \in S}
  <2>1. 0 \in T
    BY <1>1, <1>2, <1>7
  <2>2. ASSUME NEW k \in 1..n, k - 1 \in T PROVE k \in T
    BY <2>2, <1>1, <1>3, <1>7
  <2>3. T \in SUBSET (0..n)
    OBVIOUS
  <2> HIDE DEF T
  <2>4. T = 0..n
    BY <1>1, <2>1, <2>2, <2>3, IntervalInduction
  <2> QED BY <2>4 DEF T
<1>9. \A k \in 0..n : /\ Sound(table[k]) /\ Len(table[k]) >= Len(rows)
                        /\ \A i \in 1..Len(rows) : table[k][i].key = rows[i].key
  BY <1>8 DEF S
<1>10. Saves(table, rows, cs, read, source)
  BY <1>6, <1>7, <1>9 DEF next, Saves
<1> QED BY <1>10
(* What is remembered of one key is untouched.                             *)
Same(new, rows, key) ==
  /\ Len(new) >= Len(rows)
  /\ \A i \in 1..Len(rows) : /\ rows[i].key = key => new[i] = rows[i]
                             /\ new[i].key = rows[i].key
  /\ \A i \in (Len(rows) + 1)..Len(new) : new[i].key # key

LEMMA SameIsRemembered ==
  ASSUME NEW rows \in Seq(RowSet), NEW new \in Seq(RowSet), NEW key, Same(new, rows, key)
  PROVE  /\ existing_row(new, key) = existing_row(rows, key)
         /\ \A c : c.key = key /\ Remembered(rows, c) => Remembered(new, c)
<1>1. Len(rows) \in Nat /\ Len(new) \in Nat /\ DOMAIN rows = 1..Len(rows) /\ DOMAIN new = 1..Len(new)
  OBVIOUS
<1>2. \A i \in 1..Len(new) : i \in 1..Len(rows) \/ i \in (Len(rows) + 1)..Len(new)
  BY <1>1
<1>3. \A i \in 1..Len(rows) : i \in 1..Len(new)
  BY <1>1 DEF Same
<1>4. ActiveRows(new, key) = ActiveRows(rows, key)
  BY <1>1, <1>2, <1>3 DEF ActiveRows, Same
<1>5. existing_row(new, key) = existing_row(rows, key)
  BY <1>4 DEF existing_row
<1>6. ASSUME NEW c, c.key = key, Remembered(rows, c) PROVE Remembered(new, c)
  BY <1>3, <1>6 DEF Remembered, Same
<1> QED BY <1>5, <1>6

(* What a transaction makes of the table, whatever had been read.          *)
LEMMA SavedBrainIsSound ==
  ASSUME NEW rows, Sound(rows), NEW cs \in Seq(Proposal), NEW read, NEW source \in Nat,
         \A k \in 1..Len(cs) : Refers(rows, read[k], cs[k])
  PROVE  LET new == saved_brain(rows, cs, read, source) IN
         /\ Sound(new) /\ Len(new) >= Len(rows)
         /\ \A i \in 1..Len(rows) : new[i].key = rows[i].key
<1>1. PICK table : Saves(table, rows, cs, read, source)
  BY SavedInSteps
<1>2. Len(cs) \in 0..Len(cs)
  OBVIOUS
<1> QED BY <1>1, <1>2 DEF Saves

(* What it makes of a table that has not changed since its rows were read. *)
LEMMA SavedBrainIsCurrent ==
  ASSUME NEW rows, Sound(rows), OneActive(rows), NEW cs \in Seq(Proposal), Distinct(cs), NEW read,
         NEW source \in Nat,
         \A k \in 1..Len(cs) : read[k] = existing_row(rows, cs[k].key)
  PROVE  LET new == saved_brain(rows, cs, read, source) IN
         /\ OneActive(new)
         /\ \A k \in 1..Len(cs) : Remembered(new, cs[k])
         /\ \A c : Remembered(rows, c) /\ (\A k \in 1..Len(cs) : cs[k].key # c.key)
                     => Remembered(new, c)
<1> DEFINE n == Len(cs)
           Proper(tb, k) ==
             /\ OneActive(tb)
             /\ \A j \in 1..k : Remembered(tb, cs[j])
             /\ \A j \in (k + 1)..n : existing_row(tb, cs[j].key) = existing_row(rows, cs[j].key)
             /\ \A c : Remembered(rows, c) /\ (\A j \in 1..n : cs[j].key # c.key) => Remembered(tb, c)
<1>1. n \in Nat /\ rows \in Seq(RowSet)
  BY DEF Sound
<1>2. \A k \in 1..n : Refers(rows, read[k], cs[k])
  <2>1. ASSUME NEW k \in 1..n PROVE Refers(rows, read[k], cs[k])
    BY <1>1, ExistingRow DEF Refers, ActiveRows
  <2> QED BY <2>1
<1>3a. PICK table : Saves(table, rows, cs, read, source)
  BY <1>2, SavedInSteps
<1>3. /\ table[0] = rows /\ table[n] = saved_brain(rows, cs, read, source)
      /\ \A k \in 1..n :
           table[k] = save_or_merge_brain_candidate(table[k - 1], read[k], cs[k], source)
      /\ \A k \in 0..n : /\ Sound(table[k]) /\ Len(table[k]) >= Len(rows)
                         /\ \A i \in 1..Len(rows) : table[k][i].key = rows[i].key
  BY <1>3a DEF Saves
<1>4. Proper(rows, 0)
  OBVIOUS
<1>5. ASSUME NEW k \in 1..n, Proper(table[k - 1], k - 1) PROVE Proper(table[k], k)
  <2> DEFINE old == table[k - 1]
             new == table[k]
  <2>1. k - 1 \in 0..n /\ k \in 0..n /\ k \in (k - 1 + 1)..n /\ k - 1 + 1 = k
    BY <1>1
  <2>2. Sound(old) /\ Sound(new) /\ cs[k] \in Proposal
    BY <1>3, <2>1
  <2>3. read[k] = existing_row(old, cs[k].key)
    BY <1>5, <2>1
  <2>4. new = save_or_merge_brain_candidate(old, existing_row(old, cs[k].key), cs[k], source)
    BY <1>3, <2>3
  <2>5. OneActive(old)
    BY <1>5
  <2> HIDE DEF old, new
  <2>6. OneActive(new) /\ Remembered(new, cs[k])
    BY <2>2, <2>4, <2>5, SaveIsCurrent
  <2>7. old \in Seq(RowSet) /\ new \in Seq(RowSet)
    BY <2>2 DEF Sound
  <2>8. Refers(old, existing_row(old, cs[k].key), cs[k])
    BY <2>7, ExistingRow DEF Refers, ActiveRows
  <2>9. Extends(new, old, cs[k])
    BY <2>2, <2>4, <2>8, SaveIsSound
  <2>10. ASSUME NEW key, key # cs[k].key PROVE Same(new, old, key)
    BY <2>9, <2>10 DEF Same, Extends
  <2>11. ASSUME NEW key, key # cs[k].key
         PROVE  /\ existing_row(new, key) = existing_row(old, key)
                /\ \A c : c.key = key /\ Remembered(old, c) => Remembered(new, c)
    BY <2>7, <2>10, <2>11, SameIsRemembered
  <2>12. ASSUME NEW j \in 1..k PROVE Remembered(new, cs[j])
    <3>1. CASE j = k
      BY <2>6, <3>1
    <3>2. CASE j # k
      <4>1. j \in 1..(k - 1) /\ j \in 1..n
        BY <3>2, <1>1
      <4>2. cs[j].key # cs[k].key
        BY <3>2, <4>1 DEF Distinct
      <4>3. Remembered(old, cs[j])
        BY <1>5, <4>1 DEF old
      <4> QED BY <2>11, <4>2, <4>3
    <3> QED BY <3>1, <3>2
  <2>13. ASSUME NEW j \in (k + 1)..n PROVE existing_row(new, cs[j].key) = existing_row(rows, cs[j].key)
    <3>1. j \in (k - 1 + 1)..n /\ j \in 1..n /\ j # k
      BY <1>1
    <3>2. cs[j].key # cs[k].key
      BY <3>1 DEF Distinct
    <3>3. existing_row(old, cs[j].key) = existing_row(rows, cs[j].key)
      BY <1>5, <3>1 DEF old
    <3> QED BY <2>11, <3>2, <3>3
  <2>14. ASSUME NEW c, Remembered(rows, c), \A j \in 1..n : cs[j].key # c.key
         PROVE  Remembered(new, c)
    <3>1. Remembered(old, c)
      BY <1>5, <2>14 DEF old
    <3>2. c.key # cs[k].key
      BY <2>14
    <3> QED BY <2>11, <3>1, <3>2
  <2> QED BY <2>6, <2>12, <2>13, <2>14 DEF new
<1>6. Proper(table[n], n)
  <2> DEFINE T == {k \in 0..n : Proper(table[k], k)}
  <2> HIDE DEF Proper
  <2>1. 0 \in T
    BY <1>1, <1>3, <1>4
  <2>2. ASSUME NEW k \in 1..n, k - 1 \in T PROVE k \in T
    <3>1. Proper(table[k - 1], k - 1) /\ k \in 0..n
      BY <2>2
    <3> QED BY <3>1, <1>5
  <2>3. T \in SUBSET (0..n)
    OBVIOUS
  <2> HIDE DEF T
  <2>4. T = 0..n
    BY <1>1, <2>1, <2>2, <2>3, IntervalInduction
  <2>5. n \in T
    BY <1>1, <2>4
  <2> QED BY <2>5 DEF T
<1> QED BY <1>3, <1>6

-----------------------------------------------------------------------------
(* Sequences                                                               *)

Smaller(a, b) == IF a <= b THEN a ELSE b

LEMMA LastOfIs ==
  ASSUME NEW T, NEW s \in Seq(T), NEW n \in Nat, n >= 1
  PROVE  /\ LastOf(s, n) \in Seq(T) /\ Len(LastOf(s, n)) = Smaller(Len(s), n)
         /\ \A i \in 1..Smaller(Len(s), n) : LastOf(s, n)[i] = s[Len(s) - Smaller(Len(s), n) + i]
<1> DEFINE m == Smaller(Len(s), n)
           a == Larger(1, Len(s) - n + 1)
           b == Len(s)
<1>1. b \in Nat /\ m \in Nat /\ b - m + 1 = a /\ a \in Int /\ a >= 1
  BY DEF Larger, Smaller
<1> HIDE DEF m, a
<1>2. \A i \in a..b : s[i] \in T
  BY <1>1
<1>3. LastOf(s, n) = SubSeq(s, a, b)
  BY DEF LastOf, a
<1>4. /\ SubSeq(s, a, b) \in Seq(T)
      /\ Len(SubSeq(s, a, b)) = IF a <= b THEN b - a + 1 ELSE 0
      /\ \A i \in 1..(b - a + 1) : SubSeq(s, a, b)[i] = s[a + i - 1]
  <2> HIDE DEF b
  <2> QED BY <1>1, <1>2, SubSeqProperties
<1>5. (IF a <= b THEN b - a + 1 ELSE 0) = m /\ b - a + 1 = m
  BY <1>1 DEF m, Smaller
<1>6. \A i \in 1..m : a + i - 1 = b - m + i
  BY <1>1
<1> QED BY <1>3, <1>4, <1>5, <1>6 DEF m

(* The end of the end is the end.                                          *)
LEMMA LastOfLast ==
  ASSUME NEW T, NEW s \in Seq(T), NEW n \in Nat, NEW k \in Nat, n >= k, k >= 1
  PROVE  LastOf(LastOf(s, n), k) = LastOf(s, k)
<1> DEFINE u == LastOf(s, n)
           m == Smaller(Len(s), n)
           v == LastOf(u, k)
           w == LastOf(s, k)
           p == Smaller(m, k)
           q == Smaller(Len(s), k)
<1>1. u \in Seq(T) /\ Len(u) = m /\ \A i \in 1..m : u[i] = s[Len(s) - m + i]
  <2>1. n >= 1
    OBVIOUS
  <2> QED BY <2>1, LastOfIs
<1>2. m \in Nat /\ Len(s) \in Nat /\ p = q /\ p \in Nat /\ p <= m
  BY DEF Smaller
<1> HIDE DEF u, m
<1>3. v \in Seq(T) /\ Len(v) = p /\ \A i \in 1..p : v[i] = u[m - p + i]
  <2>1. /\ v \in Seq(T) /\ Len(v) = Smaller(Len(u), k)
        /\ \A i \in 1..Smaller(Len(u), k) : v[i] = u[Len(u) - Smaller(Len(u), k) + i]
    BY <1>1, LastOfIs
  <2> QED BY <1>1, <2>1
<1>4. w \in Seq(T) /\ Len(w) = q /\ \A i \in 1..q : w[i] = s[Len(s) - q + i]
  BY LastOfIs
<1> HIDE DEF v, w, p, q
<1>5. \A i \in 1..p : v[i] = w[i]
  <2>1. ASSUME NEW i \in 1..p PROVE v[i] = w[i]
    <3>1. m - p + i \in 1..m /\ Len(s) - m + (m - p + i) = Len(s) - q + i /\ i \in 1..q
      BY <1>2
    <3>2. v[i] = u[m - p + i] /\ u[m - p + i] = s[Len(s) - m + (m - p + i)]
      BY <1>1, <1>3, <3>1
    <3>3. w[i] = s[Len(s) - q + i]
      BY <1>4, <3>1
    <3> QED BY <3>1, <3>2, <3>3
  <2> QED BY <2>1
<1>6. v = w
  BY <1>2, <1>3, <1>4, <1>5, SeqEqual
<1> QED BY <1>6 DEF u, v, w

(* What was said last is the end of what is hot.                           *)
LEMMA LastOfPair ==
  ASSUME NEW T, NEW s \in Seq(T), NEW a \in T, NEW b \in T, NEW n \in Nat, n >= 2
  PROVE  LastOf(LastOf(s \o <<a, b>>, n), 2) = <<a, b>>
<1> DEFINE e == <<a, b>>
           u == s \o e
           w == LastOf(u, 2)
<1>1. e \in Seq(T) /\ Len(e) = 2 /\ e[1] = a /\ e[2] = b
  OBVIOUS
<1> HIDE DEF e
<1>2. /\ u \in Seq(T) /\ Len(u) = Len(s) + 2 /\ Len(s) \in Nat
      /\ \A i \in 1..(Len(s) + 2) : u[i] = IF i <= Len(s) THEN s[i] ELSE e[i - Len(s)]
  <2>1. /\ u \in Seq(T) /\ Len(u) = Len(s) + Len(e)
        /\ \A i \in 1..(Len(s) + Len(e)) : u[i] = IF i <= Len(s) THEN s[i] ELSE e[i - Len(s)]
    BY <1>1, ConcatProperties
  <2> QED BY <1>1, <2>1
<1> HIDE DEF u
<1>3. w \in Seq(T) /\ Len(w) = 2 /\ \A i \in 1..2 : w[i] = u[Len(u) - 2 + i]
  <2>1. Smaller(Len(u), 2) = 2
    BY <1>2 DEF Smaller
  <2>2. /\ w \in Seq(T) /\ Len(w) = Smaller(Len(u), 2)
        /\ \A i \in 1..Smaller(Len(u), 2) : w[i] = u[Len(u) - Smaller(Len(u), 2) + i]
    <3>1. u \in Seq(T) /\ 2 \in Nat /\ 2 >= 1
      BY <1>2
    <3> QED BY <3>1, LastOfIs
  <2> HIDE DEF w
  <2> QED BY <2>1, <2>2
<1> HIDE DEF w
<1>4. \A i \in 1..2 : w[i] = e[i]
  BY <1>2, <1>3
<1>5. w = e
  BY <1>1, <1>3, <1>4, SeqEqual
<1>6. LastOf(LastOf(u, n), 2) = LastOf(u, 2)
  BY <1>2, LastOfLast
<1> QED BY <1>5, <1>6 DEF e, u, w

LEMMA RemoveAtIs ==
  ASSUME NEW T, NEW s \in Seq(T), NEW i \in 1..Len(s)
  PROVE  /\ RemoveAt(s, i) \in Seq(T) /\ Len(RemoveAt(s, i)) = Len(s) - 1
         /\ \A j \in 1..(Len(s) - 1) : RemoveAt(s, i)[j] = IF j < i THEN s[j] ELSE s[j + 1]
<1> DEFINE n == Len(s)
           a == SubSeq(s, 1, i - 1)
           b == SubSeq(s, i + 1, n)
<1>1. n \in Nat /\ i \in Nat /\ i - 1 \in Int /\ i + 1 \in Int /\ i >= 1 /\ i <= n
  OBVIOUS
<1>2. a \in Seq(T) /\ Len(a) = i - 1 /\ \A j \in 1..(i - 1) : a[j] = s[j]
  <2>1. \A j \in 1..(i - 1) : s[j] \in T
    BY <1>1
  <2>2. /\ a \in Seq(T) /\ Len(a) = IF 1 <= i - 1 THEN i - 1 - 1 + 1 ELSE 0
        /\ \A j \in 1..(i - 1 - 1 + 1) : a[j] = s[1 + j - 1]
    BY <1>1, <2>1, SubSeqProperties
  <2> HIDE DEF a
  <2>3. i - 1 - 1 + 1 = i - 1 /\ \A j \in 1..(i - 1) : 1 + j - 1 = j
    BY <1>1
  <2> QED BY <1>1, <2>2, <2>3
<1>3. b \in Seq(T) /\ Len(b) = n - i /\ \A j \in 1..(n - i) : b[j] = s[i + j]
  <2>1. \A j \in (i + 1)..n : s[j] \in T
    BY <1>1
  <2>2. /\ b \in Seq(T) /\ Len(b) = IF i + 1 <= n THEN n - (i + 1) + 1 ELSE 0
        /\ \A j \in 1..(n - (i + 1) + 1) : b[j] = s[i + 1 + j - 1]
    <3> HIDE DEF n
    <3> QED BY <1>1, <2>1, SubSeqProperties
  <2> HIDE DEF b, n
  <2>3. n - (i + 1) + 1 = n - i /\ \A j \in 1..(n - i) : i + 1 + j - 1 = i + j
    BY <1>1
  <2> QED BY <1>1, <2>2, <2>3
<1> HIDE DEF a, b
<1>4. /\ a \o b \in Seq(T) /\ Len(a \o b) = Len(a) + Len(b)
      /\ \A j \in 1..(Len(a) + Len(b)) : (a \o b)[j] = IF j <= Len(a) THEN a[j] ELSE b[j - Len(a)]
  BY <1>2, <1>3, ConcatProperties
<1>5. RemoveAt(s, i) = a \o b
  BY DEF RemoveAt, a, b
<1> DEFINE r == a \o b
<1> HIDE DEF r, n
<1>6. Len(r) = n - 1 /\ r \in Seq(T)
  BY <1>1, <1>2, <1>3, <1>4 DEF r
<1>7. ASSUME NEW j \in 1..(n - 1) PROVE r[j] = IF j < i THEN s[j] ELSE s[j + 1]
  <2>1. j \in 1..(Len(a) + Len(b)) /\ Len(a) = i - 1
    BY <1>1, <1>2, <1>3
  <2>2. r[j] = IF j <= i - 1 THEN a[j] ELSE b[j - (i - 1)]
    BY <1>4, <2>1 DEF r
  <2>3. CASE j < i
    <3>1. j \in 1..(i - 1)
      BY <1>1, <2>3
    <3> QED BY <1>2, <2>2, <3>1, <2>3
  <2>4. CASE ~(j < i)
    <3>1. j - (i - 1) \in 1..(n - i) /\ i + (j - (i - 1)) = j + 1 /\ ~(j <= i - 1)
      BY <1>1, <2>4
    <3> QED BY <1>3, <2>2, <3>1, <2>4
  <2> QED BY <2>3, <2>4
<1> QED BY <1>5, <1>6, <1>7 DEF r, n

-----------------------------------------------------------------------------
(* What a turn is given                                                    *)

(* No two rows have as many newer ones.                                    *)
LEMMA RankOfRow ==
  ASSUME NEW rows \in Seq(RowSet), Timed(rows), NEW S \in SUBSET (1..Len(rows))
  PROVE  /\ IsFiniteSet(S) /\ Cardinality(S) \in Nat
         /\ \A k \in 1..Cardinality(S) : \E i \in S : Cardinality(Newer(rows, S, i)) = k - 1
<1> DEFINE n == Cardinality(S)
           above(i) == Newer(rows, S, i)
           rank == [i \in S |-> Cardinality(above(i))]
<1>1. Len(rows) \in Nat /\ \A i \in 1..Len(rows) : rows[i] \in RowSet
  OBVIOUS
<1>2. \A i \in S : i \in 1..Len(rows) /\ rows[i].updated_at \in Nat
  BY <1>1 DEF RowSet
<1>3. IsFiniteSet(S) /\ n \in Nat
  <2>1. IsFiniteSet(1..Len(rows))
    BY <1>1, FS_Interval
  <2>2. IsFiniteSet(S)
    BY <2>1, FS_Subset
  <2> QED BY <2>2, FS_CardinalityType
<1>4. ASSUME NEW i \in S
      PROVE  /\ above(i) \subseteq S \ {i} /\ IsFiniteSet(above(i))
             /\ Cardinality(above(i)) \in 0..(n - 1)
  <2>1. above(i) \subseteq S \ {i}
    BY <1>2 DEF Newer
  <2> HIDE DEF above, n
  <2>2. IsFiniteSet(S \ {i}) /\ Cardinality(S \ {i}) = n - 1
    BY <1>3, FS_RemoveElement DEF n
  <2>3. IsFiniteSet(above(i)) /\ Cardinality(above(i)) <= n - 1 /\ Cardinality(above(i)) \in Nat
    BY <2>1, <2>2, FS_Subset, FS_CardinalityType
  <2> QED BY <2>1, <2>3, <1>3
<1>5. ASSUME NEW i \in S, NEW j \in S, rows[i].updated_at > rows[j].updated_at
      PROVE  Cardinality(above(i)) # Cardinality(above(j))
  <2>0. /\ rows[i].updated_at \in Nat /\ rows[j].updated_at \in Nat
        /\ \A k \in S : rows[k].updated_at \in Nat
    BY <1>2
  <2>1. above(i) \subseteq above(j) /\ i \in above(j) /\ i \notin above(i)
    <3>1. \A k \in S : rows[k].updated_at > rows[i].updated_at =>
                        rows[k].updated_at > rows[j].updated_at
      BY <2>0, <1>5
    <3>2. above(i) \subseteq above(j)
      BY <3>1 DEF Newer
    <3>3. i \in above(j)
      BY <1>5 DEF Newer
    <3>4. ~(rows[i].updated_at > rows[i].updated_at)
      BY <2>0
    <3>5. i \notin above(i)
      BY <3>4 DEF Newer
    <3> QED BY <3>2, <3>3, <3>5
  <2> HIDE DEF above
  <2>2. Cardinality(above(i)) = Cardinality(above(j)) => above(i) = above(j)
    BY <1>4, <2>1, FS_Subset
  <2> QED BY <2>1, <2>2
<1>6. ASSUME NEW i \in S, NEW j \in S, i # j PROVE rank[i] # rank[j]
  <2>1. rows[i].updated_at # rows[j].updated_at
    BY <1>2, <1>6 DEF Timed
  <2>2. rows[i].updated_at > rows[j].updated_at \/ rows[j].updated_at > rows[i].updated_at
    BY <1>2, <2>1
  <2>3. rank[i] = Cardinality(above(i)) /\ rank[j] = Cardinality(above(j))
    OBVIOUS
  <2> HIDE DEF above, rank
  <2> QED BY <1>5, <2>2, <2>3
<1>7. rank \in Injection(S, 0..(n - 1))
  <2>1. rank \in [S -> 0..(n - 1)]
    <3> HIDE DEF above, n
    <3> QED BY <1>4
  <2> HIDE DEF rank
  <2> QED BY <1>6, <2>1 DEF Injection, IsInjective
<1>8. IsFiniteSet(0..(n - 1)) /\ Cardinality(0..(n - 1)) = n
  <2>1. IsFiniteSet(0..(n - 1)) /\ Cardinality(0..(n - 1)) = IF 0 > n - 1 THEN 0 ELSE n - 1 - 0 + 1
    <3> HIDE DEF n
    <3> QED BY <1>3, FS_Interval
  <2> QED BY <2>1, <1>3
<1>9. rank \in Surjection(S, 0..(n - 1))
  <2> HIDE DEF rank
  <2> QED BY <1>7, <1>8, FS_Injection DEF n
<1>10. ASSUME NEW k \in 1..n PROVE \E i \in S : Cardinality(above(i)) = k - 1
  <2>1. k - 1 \in 0..(n - 1)
    BY <1>3
  <2>2. PICK i \in S : rank[i] = k - 1
    <3> HIDE DEF rank
    <3> QED BY <1>9, <2>1 DEF Surjection
  <2> QED BY <2>2
<1> QED BY <1>3, <1>10

LEMMA NewestFirstIs ==
  ASSUME NEW rows \in Seq(RowSet), Timed(rows), NEW S \in SUBSET (1..Len(rows))
  PROVE  /\ NewestFirst(rows, S) \in Seq(S) /\ Len(NewestFirst(rows, S)) = Cardinality(S)
         /\ \A k, l \in 1..Cardinality(S) :
              NewestFirst(rows, S)[k] = NewestFirst(rows, S)[l] => k = l
<1> DEFINE n == Cardinality(S)
           nth(k) == CHOOSE i \in S : Cardinality(Newer(rows, S, i)) = k - 1
           f == NewestFirst(rows, S)
<1>1. n \in Nat
  BY RankOfRow
<1>2. ASSUME NEW k \in 1..n PROVE nth(k) \in S /\ Cardinality(Newer(rows, S, nth(k))) = k - 1
  <2>1. \E i \in S : Cardinality(Newer(rows, S, i)) = k - 1
    BY RankOfRow
  <2> QED BY <2>1
<1>3. f = [k \in 1..n |-> nth(k)]
  BY DEF NewestFirst
<1> HIDE DEF f, nth, n
<1>4. f \in Seq(S) /\ Len(f) = n /\ \A k \in 1..n : f[k] = nth(k)
  <2>1. f \in [1..n -> S]
    BY <1>2, <1>3
  <2> QED BY <1>1, <1>3, <2>1
<1>5. ASSUME NEW k \in 1..n, NEW l \in 1..n, f[k] = f[l] PROVE k = l
  <2>1. Cardinality(Newer(rows, S, nth(k))) = k - 1 /\ Cardinality(Newer(rows, S, nth(l))) = l - 1
    BY <1>2
  <2>2. nth(k) = nth(l)
    BY <1>4, <1>5
  <2>3. k - 1 = l - 1
    BY <2>1, <2>2
  <2> QED BY <1>1, <2>3
<1> QED BY <1>4, <1>5 DEF n, f
ItemSet == [id : Nat, row : RowSet]

(* Items that were active when they were read; and such that no row is     *)
(* there twice and the limits are kept.                                    *)
Proffered(items) == /\ items \in Seq(ItemSet)
                    /\ \A k \in 1..Len(items) : items[k].row.status = "active"
Offered(items, limit) ==
  /\ Proffered(items)
  /\ \A k, l \in 1..Len(items) : items[k].id = items[l].id => k = l
  /\ \A scope \in ScopeName : CountOf(items, scope) <= LimitOf(scope, limit)

Active(rows, scope) == {i \in 1..Len(rows) : rows[i].scope = scope /\ rows[i].status = "active"}

LEMMA ItemsAreOffered ==
  ASSUME NEW rows \in Seq(RowSet), Timed(rows), NEW C \in SUBSET Active(rows, "conversation"),
         NEW U \in SUBSET Active(rows, "user"), NEW limit
  PROVE  /\ Proffered(Items(rows, C, U))
         /\ Cardinality(C) <= limit /\ Cardinality(U) <= UserLimit => Offered(Items(rows, C, U), limit)
<1> DEFINE c == NewestFirst(rows, C)
           u == NewestFirst(rows, U)
           ids == c \o u
           items == Items(rows, C, U)
           nc == Cardinality(C)
           nu == Cardinality(U)
           N == 1..Len(rows)
<1>1. Len(rows) \in Nat /\ \A i \in N : rows[i] \in RowSet
  OBVIOUS
<1>2. C \in SUBSET N /\ U \in SUBSET N
  BY DEF Active
<1>3. nc \in Nat /\ nu \in Nat
  BY <1>2, RankOfRow
<1>4. /\ c \in Seq(C) /\ Len(c) = nc /\ \A k, l \in 1..nc : c[k] = c[l] => k = l
      /\ u \in Seq(U) /\ Len(u) = nu /\ \A k, l \in 1..nu : u[k] = u[l] => k = l
  BY <1>2, NewestFirstIs
<1> HIDE DEF c, u, nc, nu
<1>5. /\ \A k \in 1..nc : c[k] \in C
      /\ \A k \in 1..nu : u[k] \in U
  BY <1>4
<1>6. c \in Seq(N) /\ u \in Seq(N)
  <2>1. C \subseteq N /\ U \subseteq N
    BY <1>2
  <2>2. c \in Seq(C) /\ u \in Seq(U)
    BY <1>4
  <2> HIDE DEF N
  <2> QED BY <2>1, <2>2
<1>7. /\ ids \in Seq(N) /\ Len(ids) = nc + nu
      /\ \A k \in 1..(nc + nu) : ids[k] = IF k <= nc THEN c[k] ELSE u[k - nc]
  <2>1. /\ ids \in Seq(N) /\ Len(ids) = Len(c) + Len(u)
        /\ \A k \in 1..(Len(c) + Len(u)) : ids[k] = IF k <= Len(c) THEN c[k] ELSE u[k - Len(c)]
    <3> HIDE DEF N
    <3> QED BY <1>6, ConcatProperties
  <2> QED BY <1>4, <2>1
<1>8. items = [k \in DOMAIN ids |-> Item(rows, ids[k])]
  BY DEF Items, c, u
<1> DEFINE n == nc + nu
<1> HIDE DEF ids, items
<1>9. DOMAIN ids = 1..n /\ n \in Nat
  BY <1>3, <1>7
<1>10. ASSUME NEW k \in 1..n
       PROVE  \/ k \in 1..nc /\ ids[k] = c[k] /\ ids[k] \in C
              \/ k - nc \in 1..nu /\ ids[k] = u[k - nc] /\ ids[k] \in U
  <2>1. CASE k <= nc
    <3>1. k \in 1..nc
      BY <2>1, <1>3
    <3> QED BY <3>1, <2>1, <1>5, <1>7
  <2>2. CASE ~(k <= nc)
    <3>1. k - nc \in 1..nu
      BY <2>2, <1>3
    <3> QED BY <3>1, <2>2, <1>5, <1>7
  <2> QED BY <2>1, <2>2
<1>11. ASSUME NEW k \in 1..n
       PROVE  /\ items[k] \in ItemSet /\ items[k].id = ids[k] /\ items[k].row = rows[ids[k]]
              /\ items[k].row.status = "active"
              /\ items[k].row.scope = IF k <= nc THEN "conversation" ELSE "user"
  <2>1. items[k] = [id |-> ids[k], row |-> rows[ids[k]]]
    BY <1>8, <1>9 DEF Item
  <2>2. ids[k] \in N
    BY <1>2, <1>10
  <2>3. rows[ids[k]] \in RowSet /\ ids[k] \in Nat
    BY <1>1, <2>2
  <2>4. items[k] \in ItemSet /\ items[k].id = ids[k] /\ items[k].row = rows[ids[k]]
    BY <2>1, <2>3 DEF ItemSet
  <2>5. rows[ids[k]].status = "active"
    BY <1>10 DEF Active
  <2>6. rows[ids[k]].scope = IF k <= nc THEN "conversation" ELSE "user"
    <3>1. CASE k <= nc
      <4>1. ids[k] \in C
        BY <1>3, <1>10, <3>1
      <4> QED BY <3>1, <4>1 DEF Active
    <3>2. CASE ~(k <= nc)
      <4>1. ids[k] \in U
        BY <1>3, <1>10, <3>2
      <4> QED BY <3>2, <4>1 DEF Active
    <3> QED BY <3>1, <3>2
  <2> QED BY <2>4, <2>5, <2>6
<1>12. items \in Seq(ItemSet) /\ Len(items) = n
  <2>1. items = [k \in 1..n |-> items[k]]
    BY <1>8, <1>9
  <2>2. items \in [1..n -> ItemSet]
    BY <1>11, <2>1
  <2> QED BY <1>9, <2>2
<1>13. Proffered(items)
  BY <1>11, <1>12 DEF Proffered
<1>14. ASSUME NEW k \in 1..n, NEW l \in 1..n, items[k].id = items[l].id PROVE k = l
  <2>1. ids[k] = ids[l]
    BY <1>11, <1>14
  <2>2. C \cap U = {}
    BY DEF Active
  <2>3. \/ k \in 1..nc /\ l \in 1..nc /\ c[k] = c[l]
        \/ k - nc \in 1..nu /\ l - nc \in 1..nu /\ u[k - nc] = u[l - nc]
    BY <1>10, <2>1, <2>2
  <2>4. k = l \/ k - nc = l - nc
    BY <1>4, <2>3
  <2> QED BY <1>3, <2>4
<1>15. ASSUME nc <= limit, nu <= UserLimit
       PROVE  \A scope \in ScopeName : CountOf(items, scope) <= LimitOf(scope, limit)
  <2>1. CountOf(items, "conversation") = nc
    <3>1. {k \in DOMAIN items : items[k].row.scope = "conversation"} = 1..nc
      <4>1. \A k \in 1..n : items[k].row.scope = "conversation" <=> k <= nc
        BY <1>11
      <4>2. DOMAIN items = 1..n /\ \A k \in 1..nc : k \in 1..n /\ k <= nc
        BY <1>3, <1>12
      <4>3. \A k \in 1..n : k <= nc => k \in 1..nc
        BY <1>3
      <4> HIDE DEF n
      <4> QED BY <4>1, <4>2, <4>3
    <3>2. Cardinality(1..nc) = nc
      BY <1>3, FS_Interval
    <3> QED BY <3>1, <3>2 DEF CountOf
  <2>2. CountOf(items, "user") = nu
    <3>1. {k \in DOMAIN items : items[k].row.scope = "user"} = (nc + 1)..n
      <4>1. \A k \in 1..n : items[k].row.scope = "user" <=> ~(k <= nc)
        BY <1>11
      <4>2. DOMAIN items = 1..n /\ \A k \in (nc + 1)..n : k \in 1..n /\ ~(k <= nc)
        BY <1>3, <1>12
      <4>3. \A k \in 1..n : ~(k <= nc) => k \in (nc + 1)..n
        BY <1>3
      <4> HIDE DEF n
      <4> QED BY <4>1, <4>2, <4>3
    <3>2. Cardinality((nc + 1)..n) = nu
      <4>1. Cardinality((nc + 1)..n) = IF nc + 1 > n THEN 0 ELSE n - (nc + 1) + 1
        <5>1. nc + 1 \in Int /\ n \in Int
          BY <1>3
        <5> HIDE DEF n
        <5> QED BY <5>1, FS_Interval
      <4> QED BY <4>1, <1>3
    <3> QED BY <3>1, <3>2 DEF CountOf
  <2> QED BY <1>15, <2>1, <2>2 DEF ScopeName, LimitOf
<1>16. ASSUME nc <= limit, nu <= UserLimit PROVE Offered(items, limit)
  BY <1>12, <1>13, <1>14, <1>15, <1>16 DEF Offered
<1> QED BY <1>13, <1>16 DEF items, nc, nu
(* One item more.                                                          *)
LEMMA CountOfAppended ==
  ASSUME NEW items \in Seq(ItemSet), NEW item \in ItemSet, NEW scope
  PROVE  /\ CountOf(items, scope) \in Nat
         /\ CountOf(Append(items, item), scope) =
              CountOf(items, scope) + IF item.row.scope = scope THEN 1 ELSE 0
         /\ Ids(Append(items, item)) = Ids(items) \cup {item.id}
<1> DEFINE n == Len(items)
           more == Append(items, item)
           S == {k \in DOMAIN items : items[k].row.scope = scope}
           M == {k \in DOMAIN more : more[k].row.scope = scope}
<1>1. n \in Nat /\ DOMAIN items = 1..n
  OBVIOUS
<1>2. /\ more \in Seq(ItemSet) /\ Len(more) = n + 1
      /\ \A k \in 1..n : more[k] = items[k]
      /\ more[n + 1] = item
  BY AppendProperties
<1>3. DOMAIN more = 1..(n + 1) /\ \A k \in 1..(n + 1) : k \in 1..n \/ k = n + 1
  BY <1>1, <1>2
<1>4. n + 1 \in 1..(n + 1) /\ n + 1 \notin 1..n /\ \A k \in 1..n : k \in 1..(n + 1)
  BY <1>1
<1>5. IsFiniteSet(S) /\ Cardinality(S) \in Nat
  <2>1. IsFiniteSet(1..n) /\ S \in SUBSET (1..n)
    BY <1>1, FS_Interval
  <2> HIDE DEF S
  <2>2. IsFiniteSet(S)
    BY <2>1, FS_Subset
  <2> QED BY <2>2, FS_CardinalityType
<1> HIDE DEF more
<1>6. M = IF item.row.scope = scope THEN S \cup {n + 1} ELSE S
  BY <1>1, <1>2, <1>3, <1>4
<1>7. n + 1 \notin S
  BY <1>1, <1>4
<1>8. Ids(more) = Ids(items) \cup {item.id}
  BY <1>1, <1>2, <1>3, <1>4 DEF Ids
<1>9. CountOf(items, scope) = Cardinality(S) /\ CountOf(more, scope) = Cardinality(M)
  BY DEF CountOf
<1> HIDE DEF S, M, n
<1>10. Cardinality(M) = Cardinality(S) + IF item.row.scope = scope THEN 1 ELSE 0
  <2>1. CASE item.row.scope = scope
    <3>1. M = S \cup {n + 1}
      BY <1>6, <2>1
    <3>2. Cardinality(M) = Cardinality(S) + 1
      BY <1>5, <1>7, <3>1, FS_AddElement
    <3> QED BY <2>1, <3>2, <1>5
  <2>2. CASE item.row.scope # scope
    BY <1>5, <1>6, <2>2
  <2> QED BY <2>1, <2>2
<1> QED BY <1>5, <1>8, <1>9, <1>10 DEF more

(* What is merged keeps the limits, and leaves out only what is there or   *)
(* for what its scope is full.                                             *)
There(items, item, limit) ==
  \/ item.id \in Ids(items)
  \/ CountOf(items, item.row.scope) = LimitOf(item.row.scope, limit)

Fitting(items, item, limit) ==
  Added(items, item, CountOf(items, item.row.scope) < LimitOf(item.row.scope, limit))

LEMMA AddedIsOffered ==
  ASSUME NEW limit \in Nat, NEW items, Offered(items, limit), NEW item \in ItemSet,
         item.row.status = "active"
  PROVE  LET new == Fitting(items, item, limit) IN
         /\ Offered(new, limit) /\ There(new, item, limit)
         /\ \A other \in ItemSet : There(items, other, limit) => There(new, other, limit)
<1> DEFINE n == Len(items)
           new == Fitting(items, item, limit)
           more == Append(items, item)
           scope == item.row.scope
<1>1. items \in Seq(ItemSet) /\ n \in Nat /\ \A k \in 1..n : items[k].row.status = "active"
  BY DEF Offered, Proffered
<1>2. scope \in ScopeName
  BY DEF ItemSet, RowSet
<1>3. \A sc \in ScopeName : /\ CountOf(items, sc) \in Nat /\ LimitOf(sc, limit) \in Nat
                            /\ CountOf(items, sc) <= LimitOf(sc, limit)
  BY <1>1, CountOfAppended, BrainAssumption DEF Offered, LimitOf
<1>4. CASE item.id \notin Ids(items) /\ CountOf(items, scope) < LimitOf(scope, limit)
  <2>1. new = more
    BY <1>4 DEF Fitting, Added
  <2>2. /\ more \in Seq(ItemSet) /\ Len(more) = n + 1
        /\ \A k \in 1..n : more[k] = items[k]
        /\ more[n + 1] = item
    BY <1>1, AppendProperties
  <2>3. Ids(more) = Ids(items) \cup {item.id}
    BY <1>1, CountOfAppended
  <2>4. \A sc : CountOf(more, sc) = CountOf(items, sc) + IF scope = sc THEN 1 ELSE 0
    BY <1>1, CountOfAppended
  <2> HIDE DEF more, scope
  <2>5. \A k \in 1..(n + 1) : k \in 1..n \/ k = n + 1
    BY <1>1
  <2>6. Proffered(more)
    BY <1>1, <2>2, <2>5 DEF Proffered
  <2>7. \A k \in 1..n : items[k].id \in Ids(items)
    BY <1>1 DEF Ids
  <2>8. ASSUME NEW k \in 1..(n + 1), NEW l \in 1..(n + 1), more[k].id = more[l].id PROVE k = l
    <3>1. \A i, j \in 1..n : items[i].id = items[j].id => i = j
      BY DEF Offered
    <3>2. \A i \in 1..n : items[i].id # item.id
      BY <1>4, <2>7
    <3> QED BY <2>2, <2>5, <2>8, <3>1, <3>2
  <2>9. ASSUME NEW sc \in ScopeName PROVE CountOf(more, sc) <= LimitOf(sc, limit)
    <3>1. CASE sc = scope
      BY <3>1, <2>4, <1>3, <1>4
    <3>2. CASE sc # scope
      BY <3>2, <2>4, <1>3
    <3> QED BY <3>1, <3>2
  <2>10. Offered(more, limit)
    BY <2>2, <2>6, <2>8, <2>9 DEF Offered
  <2>11. There(more, item, limit)
    BY <2>3 DEF There
  <2>12. ASSUME NEW other \in ItemSet, There(items, other, limit) PROVE There(more, other, limit)
    <3>1. CASE other.id \in Ids(items)
      BY <3>1, <2>3 DEF There
    <3>2. CASE other.id \notin Ids(items)
      <4>1. CountOf(items, other.row.scope) = LimitOf(other.row.scope, limit)
        BY <2>12, <3>2 DEF There
      <4>2. other.row.scope \in ScopeName
        BY DEF ItemSet, RowSet
      <4>3. other.row.scope # scope
        BY <4>1, <1>3, <1>4, <1>2 DEF scope
      <4>4. CountOf(more, other.row.scope) = CountOf(items, other.row.scope)
        BY <2>4, <4>2, <4>3, <1>3
      <4> QED BY <4>1, <4>4 DEF There
    <3> QED BY <3>1, <3>2
  <2> QED BY <2>1, <2>10, <2>11, <2>12
<1>5. CASE ~(item.id \notin Ids(items) /\ CountOf(items, scope) < LimitOf(scope, limit))
  <2>1. new = items
    BY <1>5 DEF Fitting, Added
  <2>2. There(items, item, limit)
    BY <1>2, <1>3, <1>5 DEF There
  <2> QED BY <2>1, <2>2
<1> HIDE DEF new
<1> QED BY <1>4, <1>5 DEF new

(* What is merged of n items, one by one.                                  *)
Merges(table, items, limit) ==
  /\ table[0] = <<>>
  /\ \A k \in 1..Len(items) : table[k] = Fitting(table[k - 1], items[k], limit)
  /\ \A k \in 0..Len(items) : Offered(table[k], limit)

LEMMA MergedInSteps ==
  ASSUME NEW limit \in Nat, NEW matched, Proffered(matched), NEW sticky, Proffered(sticky)
  PROVE  \E table : /\ Merges(table, matched \o sticky, limit)
                    /\ table[Len(matched \o sticky)] = merge_brain_memories(matched, sticky, limit)
<1> DEFINE items == matched \o sticky
           n == Len(items)
           S == {x \in Seq(ItemSet) : Offered(x, limit)}
           next(x, k) == Added(x, items[k], CountOf(x, items[k].row.scope) < LimitOf(items[k].row.scope, limit))
           Fills(f) == f = [k \in 0..n |-> IF k = 0 THEN <<>> ELSE next(f[k - 1], k)]
           table == CHOOSE f : Fills(f)
<1>1. matched \in Seq(ItemSet) /\ sticky \in Seq(ItemSet)
  BY DEF Proffered
<1>2. /\ items \in Seq(ItemSet) /\ n = Len(matched) + Len(sticky)
      /\ \A k \in 1..(Len(matched) + Len(sticky)) :
           items[k] = IF k <= Len(matched) THEN matched[k] ELSE sticky[k - Len(matched)]
  BY <1>1, ConcatProperties
<1>3. n \in Nat /\ Len(matched) \in Nat /\ Len(sticky) \in Nat
  BY <1>1, <1>2
<1> HIDE DEF items, n
<1>4. ASSUME NEW k \in 1..n PROVE items[k] \in ItemSet /\ items[k].row.status = "active"
  <2>1. items[k] \in ItemSet
    BY <1>2 DEF n
  <2>2. CASE k <= Len(matched)
    <3>1. k \in 1..Len(matched) /\ items[k] = matched[k]
      BY <1>2, <1>3, <2>2
    <3> QED BY <2>1, <3>1 DEF Proffered
  <2>3. CASE ~(k <= Len(matched))
    <3>1. k - Len(matched) \in 1..Len(sticky) /\ items[k] = sticky[k - Len(matched)]
      BY <1>2, <1>3, <2>3
    <3> QED BY <2>1, <3>1 DEF Proffered
  <2> QED BY <2>2, <2>3
<1>5. \A x, k : next(x, k) = Fitting(x, items[k], limit)
  BY DEF Fitting
<1> HIDE DEF next
<1>6. <<>> \in S
  <2>1. \A scope \in ScopeName : CountOf(<<>>, scope) = 0 /\ LimitOf(scope, limit) \in Nat
    <3>1. ASSUME NEW scope PROVE CountOf(<<>>, scope) = 0
      <4>1. {k \in DOMAIN <<>> : <<>>[k].row.scope = scope} = {}
        OBVIOUS
      <4> QED BY <4>1, FS_EmptySet DEF CountOf
    <3> QED BY <3>1, BrainAssumption DEF LimitOf
  <2>2. <<>> \in Seq(ItemSet) /\ Len(<<>>) = 0
    OBVIOUS
  <2> QED BY <2>1, <2>2 DEF Offered, Proffered
<1>7. ASSUME NEW x \in S, NEW k \in 1..n PROVE next(x, k) \in S
  <2>1. Offered(next(x, k), limit)
    BY <1>4, <1>5, AddedIsOffered
  <2> QED BY <2>1 DEF Offered, Proffered
<1>8. \E f : Fills(f)
  <2> DEFINE step == [p \in S \X (1..n) |-> next(p[1], p[2])]
  <2> HIDE DEF S
  <2>1. step \in [S \X (1..n) -> S]
    BY <1>7
  <2>2. \A x \in S, k \in 1..n : step[<<x, k>>] = next(x, k)
    OBVIOUS
  <2> HIDE DEF step
  <2>3. PICK f : IsTable(f, S, <<>>, n, step)
    BY <1>3, <1>6, <2>1, TableIsMade
  <2>4. f \in [0..n -> S] /\ f[0] = <<>> /\ \A k \in 1..n : f[k] = step[<<f[k - 1], k>>]
    BY <2>3 DEF IsTable
  <2>5. \A k \in 1..n : f[k] = next(f[k - 1], k)
    <3>1. \A k \in 1..n : k - 1 \in 0..n
      BY <1>3
    <3> QED BY <2>2, <2>4, <3>1
  <2>6. f = [k \in 0..n |-> f[k]]
    BY <2>4
  <2>7. \A k \in 0..n : f[k] = IF k = 0 THEN <<>> ELSE next(f[k - 1], k)
    <3>1. \A k \in 0..n : k = 0 \/ k \in 1..n
      BY <1>3
    <3> QED BY <2>4, <2>5, <3>1
  <2>8. Fills(f)
    BY <2>6, <2>7
  <2> QED BY <2>8
<1>9. Fills(table)
  <2> HIDE DEF Fills
  <2> QED BY <1>8
<1>10. merge_brain_memories(matched, sticky, limit) = table[n]
  BY DEF merge_brain_memories, items, n, next
<1>11. table[0] = <<>> /\ \A k \in 1..n : table[k] = next(table[k - 1], k)
  <2>1. 0 \in 0..n /\ \A k \in 1..n : k \in 0..n /\ k # 0
    BY <1>3
  <2> DEFINE at(f, k) == IF k = 0 THEN <<>> ELSE next(f[k - 1], k)
  <2>2. table = [k \in 0..n |-> at(table, k)]
    BY <1>9
  <2> HIDE DEF at, table
  <2>3. \A k \in 0..n : table[k] = at(table, k)
    BY <2>2
  <2> QED BY <2>1, <2>3 DEF at
<1> HIDE DEF table, Fills, S
<1>12. \A k \in 0..n : table[k] \in S
  <2> DEFINE T == {k \in 0..n : table[k] \in S}
  <2>1. 0 \in T
    BY <1>3, <1>6, <1>11
  <2>2. ASSUME NEW k \in 1..n, k - 1 \in T PROVE k \in T
    BY <2>2, <1>3, <1>7, <1>11
  <2>3. T \in SUBSET (0..n)
    OBVIOUS
  <2> HIDE DEF T
  <2>4. T = 0..n
    BY <1>3, <2>1, <2>2, <2>3, IntervalInduction
  <2> QED BY <2>4 DEF T
<1>13. Merges(table, items, limit)
  BY <1>5, <1>11, <1>12 DEF Merges, S, n
<1> QED BY <1>10, <1>13 DEF items, n

LEMMA MergeIsOffered ==
  ASSUME NEW limit \in Nat, NEW matched, Proffered(matched), NEW sticky, Proffered(sticky)
  PROVE  LET given == merge_brain_memories(matched, sticky, limit) IN
         /\ Offered(given, limit)
         /\ \A k \in 1..Len(sticky) : There(given, sticky[k], limit)
<1> DEFINE items == matched \o sticky
           n == Len(items)
           m == Len(matched)
<1>1. PICK table : /\ Merges(table, items, limit)
                   /\ table[n] = merge_brain_memories(matched, sticky, limit)
  BY MergedInSteps
<1>2. matched \in Seq(ItemSet) /\ sticky \in Seq(ItemSet)
  BY DEF Proffered
<1>3. /\ items \in Seq(ItemSet) /\ n = Len(matched) + Len(sticky)
      /\ \A k \in 1..(Len(matched) + Len(sticky)) :
           items[k] = IF k <= Len(matched) THEN matched[k] ELSE sticky[k - Len(matched)]
  BY <1>2, ConcatProperties
<1>4. n \in Nat /\ m \in Nat /\ Len(sticky) \in Nat /\ n = m + Len(sticky)
  BY <1>2, <1>3
<1>5. \A k \in 1..Len(sticky) : k + m \in 1..n /\ items[k + m] = sticky[k]
  BY <1>3, <1>4
<1> HIDE DEF items, n, m
<1>6. \A k \in 1..n : items[k] \in ItemSet
  BY <1>3 DEF n
<1>7. ASSUME NEW k \in 1..n PROVE items[k].row.status = "active"
  <2>1. CASE k <= m
    <3>1. k \in 1..m /\ items[k] = matched[k]
      BY <1>3, <1>4, <2>1 DEF m
    <3> QED BY <3>1 DEF Proffered, m
  <2>2. CASE ~(k <= m)
    <3>1. k - m \in 1..Len(sticky) /\ items[k] = sticky[k - m]
      BY <1>3, <1>4, <2>2 DEF m
    <3> QED BY <3>1 DEF Proffered
  <2> QED BY <2>1, <2>2
<1>8. \A k \in 0..n : Offered(table[k], limit)
  BY <1>1 DEF Merges, n
<1> DEFINE All(k) == \A j \in 1..k : There(table[k], items[j], limit)
<1>9. ASSUME NEW k \in 1..n, All(k - 1) PROVE All(k)
  <2>1. k - 1 \in 0..n
    BY <1>4
  <2>2. Offered(table[k - 1], limit) /\ items[k] \in ItemSet /\ items[k].row.status = "active"
    BY <1>6, <1>7, <1>8, <2>1
  <2>3. table[k] = Fitting(table[k - 1], items[k], limit)
    BY <1>1 DEF Merges, n
  <2>4. /\ There(table[k], items[k], limit)
        /\ \A other \in ItemSet : There(table[k - 1], other, limit) => There(table[k], other, limit)
    BY <2>2, <2>3, AddedIsOffered
  <2>5. \A j \in 1..k : j \in 1..n /\ (j = k \/ j \in 1..(k - 1))
    BY <1>4
  <2> QED BY <1>6, <1>9, <2>4, <2>5
<1>10. All(0)
  OBVIOUS
<1>11. All(n)
  <2> HIDE DEF All
  <2> DEFINE T == {k \in 0..n : All(k)}
  <2>1. 0 \in T
    BY <1>4, <1>10
  <2>2. ASSUME NEW k \in 1..n, k - 1 \in T PROVE k \in T
    <3>1. All(k - 1) /\ k \in 0..n
      BY <2>2
    <3> QED BY <3>1, <1>9
  <2>3. T \in SUBSET (0..n)
    OBVIOUS
  <2> HIDE DEF T
  <2>4. T = 0..n
    BY <1>4, <2>1, <2>2, <2>3, IntervalInduction
  <2>5. n \in T
    BY <1>4, <2>4
  <2> QED BY <2>5 DEF T
<1>12. n \in 0..n
  BY <1>4
<1>13. \A k \in 1..Len(sticky) : There(table[n], sticky[k], limit)
  BY <1>5, <1>11
<1> QED BY <1>1, <1>8, <1>12, <1>13
LEMMA SearchIsOffered ==
  ASSUME NEW rows \in Seq(RowSet), Timed(rows), NEW limit, NEW matched \in search_active_brain(rows, limit)
  PROVE  Offered(matched, limit)
<1> DEFINE Of(scope) == {S \in SUBSET InScope(rows, scope) : Cardinality(S) <= LimitOf(scope, limit)}
<1>1. PICK C \in Of("conversation"), U \in Of("user") : matched = Items(rows, C, U)
  BY DEF search_active_brain
<1>2. DOMAIN rows = 1..Len(rows)
  OBVIOUS
<1>3. \A scope : InScope(rows, scope) = Active(rows, scope)
  BY <1>2 DEF InScope, Active
<1>4. /\ C \in SUBSET Active(rows, "conversation") /\ U \in SUBSET Active(rows, "user")
      /\ Cardinality(C) <= limit /\ Cardinality(U) <= UserLimit
  BY <1>3 DEF LimitOf
<1> QED BY <1>1, <1>4, ItemsAreOffered

LEMMA RecentIsProffered ==
  ASSUME NEW rows \in Seq(RowSet), Timed(rows), NEW limit
  PROVE  Proffered(recent_active_brain(rows, limit))
<1> DEFINE Of(scope) == {i \in InScope(rows, scope) : rows[i].kind \in StickyKinds(scope)}
           Latest(S, n) == {i \in S : Cardinality(Newer(rows, S, i)) < n}
           Limit(scope) == Min({LimitOf(scope, limit), 2})
           C == Latest(Of("conversation"), Limit("conversation"))
           U == Latest(Of("user"), Limit("user"))
<1>1. recent_active_brain(rows, limit) = Items(rows, C, U)
  BY DEF recent_active_brain
<1>2. DOMAIN rows = 1..Len(rows)
  OBVIOUS
<1>3. C \in SUBSET Active(rows, "conversation") /\ U \in SUBSET Active(rows, "user")
  BY <1>2 DEF InScope, Active
<1> HIDE DEF C, U
<1> QED BY <1>1, <1>3, ItemsAreOffered

-----------------------------------------------------------------------------
(* Types of the state, and of the rows that consumers have read            *)

Stage == InTurn \cup {"idle", "done", "aborted", "lost"}
Step == {"none", "user", "assistant", "count", "summarize", "queue", "brain", "done",
         "panicked", "lost"}
MaybeTurn == Turn \cup {NoTurn}
EntrySet == [of : Turn, role : {"user", "assistant"}]
SnapshotSet == [recent : Seq(EntrySet), summary : MaybeTurn, there : BOOLEAN]
TurnSet == [stage : Stage, message : Messages, shift : BOOLEAN, era : Nat, life : Nat,
            loaded : SnapshotSet, missed : BOOLEAN, matched : Seq(ItemSet), given : Seq(ItemSet)]
Proposals == {s \in Seq(Proposal) : Distinct(s)}
FinalizerSet == [step : Step, row : Nat, summary : MaybeTurn, captured : Proposals]
EventSet == [kind : {"none", "summary", "brain"}, of : MaybeTurn, summary : MaybeTurn,
             candidates : Proposals, row : Nat]
WorkerSet == [event : EventSet, read : Seq(Nat), stale : BOOLEAN]
HotSet == [recent : Seq(EntrySet), summary : MaybeTurn]

TypeInv ==
  /\ era \in Nat /\ life \in Nat /\ conversation \in BOOLEAN
  /\ turn \in [Turn -> TurnSet] /\ finalizer \in [Turn -> FinalizerSet]
  /\ hot \in HotSet /\ cached \in SnapshotSet
  /\ turns \in Seq(EntrySet) /\ summaries \in Seq(MaybeTurn) /\ brain \in Seq(RowSet)
  /\ bus \in Seq(EventSet) /\ claimed \in [Consumers -> Seq(EventSet)]
  /\ worker \in [Consumers -> WorkerSet] /\ written \in Seq(MaybeTurn)
  /\ raced \in BOOLEAN /\ disturbed \in 0..MaxDisturbances

RowInv ==
  /\ Sound(brain)
  /\ \A c \in Consumers :
       LET event == worker[c].event
       IN  /\ Len(worker[c].read) = Len(event.candidates)
           /\ \A k \in 1..Len(event.candidates) : Refers(brain, worker[c].read[k], event.candidates[k])

(* What nothing has happened to yet.                                       *)
LEMMA RestIsTyped ==
  /\ NoSnapshot \in SnapshotSet /\ Unborn \in TurnSet /\ Unspawned \in FinalizerSet
  /\ AtRest \in EventSet /\ Waiting \in WorkerSet /\ Cold \in HotSet
  /\ <<>> \in Proposals /\ Len(<<>>) = 0
<1>1. <<>> \in Proposals /\ Len(<<>>) = 0
  BY DEF Proposals, Distinct
<1>2. NoSnapshot \in SnapshotSet
  BY DEF NoSnapshot, SnapshotSet, MaybeTurn
<1>3. (CHOOSE m \in Messages : TRUE) \in Messages
  BY BrainAssumption
<1>4. Unborn \in TurnSet
  <2> DEFINE m == CHOOSE mm \in Messages : TRUE
  <2>1. m \in Messages
    BY <1>3
  <2>2. Unborn = [stage |-> "idle", message |-> m, shift |-> FALSE, era |-> 0, life |-> 0,
                  loaded |-> NoSnapshot, missed |-> FALSE, matched |-> <<>>, given |-> <<>>]
    BY DEF Unborn
  <2> HIDE DEF m
  <2> QED BY <2>1, <2>2, <1>2 DEF TurnSet, Stage, InTurn
<1>5. Unspawned \in FinalizerSet /\ AtRest \in EventSet
  BY <1>1 DEF Unspawned, FinalizerSet, Step, MaybeTurn, NoRow, AtRest, EventSet
<1>6. Waiting \in WorkerSet
  BY <1>5 DEF Waiting, WorkerSet
<1>7. Cold \in HotSet
  BY DEF Cold, HotSet, MaybeTurn
<1> QED BY <1>1, <1>2, <1>4, <1>5, <1>6, <1>7

LEMMA EntryIsTyped ==
  ASSUME NEW t \in Turn
  PROVE  /\ Entry(t, "user") \in EntrySet /\ Entry(t, "assistant") \in EntrySet
         /\ Exchange(t) \in Seq(EntrySet)
BY DEF Entry, EntrySet, Exchange

LEMMA TypesAtInit == Init => TypeInv /\ RowInv
<1> SUFFICES ASSUME Init PROVE TypeInv /\ RowInv
  OBVIOUS
<1>1. turn \in [Turn -> TurnSet] /\ finalizer \in [Turn -> FinalizerSet]
  BY RestIsTyped DEF Init
<1>2. worker \in [Consumers -> WorkerSet] /\ hot \in HotSet /\ cached \in SnapshotSet
  BY RestIsTyped DEF Init
<1>3. TypeInv
  <2>1. disturbed \in 0..MaxDisturbances /\ era \in Nat /\ life \in Nat
    BY MemoryAssumption DEF Init
  <2>2. turns \in Seq(EntrySet) /\ summaries \in Seq(MaybeTurn) /\ brain \in Seq(RowSet) /\ bus \in Seq(EventSet)
    BY DEF Init
  <2>3. conversation \in BOOLEAN /\ raced \in BOOLEAN /\ written \in Seq(MaybeTurn)
    <3>1. <<>> \in Seq(MaybeTurn)
      OBVIOUS
    <3> QED BY <3>1 DEF Init
  <2>4. claimed \in [Consumers -> Seq(EventSet)]
    <3>1. <<>> \in Seq(EventSet)
      OBVIOUS
    <3> QED BY <3>1 DEF Init
  <2> QED BY <1>1, <1>2, <2>1, <2>2, <2>3, <2>4 DEF TypeInv
<1>4. Sound(brain)
  BY DEF Init, Sound, Chained, Kept, Timed, Sure
<1>5. \A c \in Consumers : worker[c].read = <<>> /\ worker[c].event.candidates = <<>>
  BY DEF Init, Waiting, AtRest
<1>6. RowInv
  BY <1>4, <1>5, RestIsTyped DEF RowInv
<1> QED BY <1>3, <1>6
RowVars == <<brain, worker>>
LEMMA RowsStay == ASSUME RowInv, UNCHANGED RowVars PROVE RowInv'
BY DEF RowInv, RowVars

(* A step is counted as a disturbance or is none.                          *)
LEMMA Counted == ASSUME TypeInv, Calm \/ Disturb PROVE disturbed' \in 0..MaxDisturbances
BY MemoryAssumption DEF Calm, Disturb, TypeInv

LEMMA BeginTypes ==
  ASSUME TypeInv, RowInv, NEW t \in Turn, Begin(t)
  PROVE  TypeInv' /\ RowInv'
<1>1. PICK m \in Messages, shift \in BOOLEAN :
        turn' = [turn EXCEPT ![t] = [Unborn EXCEPT !.stage = "load", !.message = m, !.shift = shift,
                                                   !.era = era, !.life = life]]
  BY DEF Begin
<1> DEFINE r == [Unborn EXCEPT !.stage = "load", !.message = m, !.shift = shift,
                               !.era = era, !.life = life]
<1>2. r \in TurnSet
  BY RestIsTyped DEF TurnSet, TypeInv, Stage, InTurn
<1> HIDE DEF r
<1>3. turn' \in [Turn -> TurnSet]
  BY <1>1, <1>2 DEF TypeInv, r
<1>4. RowInv'
  BY RowsStay DEF Begin, RowVars, tableVars, busVars
<1> QED BY <1>3, <1>4 DEF TypeInv, Begin, tableVars, busVars

LEMMA LoadTypes ==
  ASSUME TypeInv, RowInv, NEW t \in Turn, LoadSnapshot(t)
  PROVE  TypeInv' /\ RowInv'
<1>1. ASSUME NEW snapshot \in SnapshotSet, NEW next \in {"match", "fill"}, NEW missed \in BOOLEAN,
             turn' = [turn EXCEPT ![t].loaded = snapshot, ![t].stage = next, ![t].missed = missed]
      PROVE  turn' \in [Turn -> TurnSet]
  <2> DEFINE r == [turn[t] EXCEPT !.loaded = snapshot, !.stage = next, !.missed = missed]
  <2>1. turn[t] \in TurnSet
    BY DEF TypeInv
  <2>2. r \in TurnSet
    BY <2>1 DEF TurnSet, Stage, InTurn
  <2>3. turn' = [turn EXCEPT ![t] = r]
    BY <1>1, <2>1 DEF TypeInv, TurnSet
  <2> HIDE DEF r
  <2> QED BY <2>2, <2>3 DEF TypeInv
<1>2. /\ LastOf(hot.recent, ContextLimit) \in Seq(EntrySet) /\ LastOf(turns, ContextLimit) \in Seq(EntrySet)
      /\ hot.summary \in MaybeTurn
  <2>1. hot.recent \in Seq(EntrySet) /\ turns \in Seq(EntrySet) /\ hot.summary \in MaybeTurn
    BY DEF TypeInv, HotSet
  <2>2. ContextLimit \in Nat /\ ContextLimit >= 1
    BY MemoryAssumption
  <2> QED BY <2>1, <2>2, LastOfIs
<1>3. NewestOf(summaries) \in MaybeTurn
  <2>1. summaries \in Seq(MaybeTurn)
    BY DEF TypeInv
  <2> QED BY <2>1 DEF NewestOf, MaybeTurn
<1>4. Snapshot(LastOf(hot.recent, ContextLimit), hot.summary) \in SnapshotSet
  BY <1>2 DEF Snapshot, SnapshotSet
<1>5. Snapshot(LastOf(turns, ContextLimit), NewestOf(summaries)) \in SnapshotSet
  BY <1>2, <1>3 DEF Snapshot, SnapshotSet
<1>6. cached \in SnapshotSet
  BY DEF TypeInv
<1>7. turn' \in [Turn -> TurnSet]
  BY <1>1, <1>4, <1>5, <1>6 DEF LoadSnapshot
<1>8. RowInv'
  BY RowsStay DEF LoadSnapshot, RowVars, tableVars, busVars
<1>9. disturbed' \in 0..MaxDisturbances
  BY Counted DEF LoadSnapshot
<1> QED BY <1>7, <1>8, <1>9 DEF TypeInv, LoadSnapshot, worldVars, tableVars, busVars

LEMMA FillTypes ==
  ASSUME TypeInv, RowInv, NEW t \in Turn, FillCache(t)
  PROVE  TypeInv' /\ RowInv'
<1> DEFINE r == [turn[t] EXCEPT !.stage = "match"]
<1>1. turn[t] \in TurnSet
  BY DEF TypeInv
<1>2. r \in TurnSet /\ turn[t].loaded \in SnapshotSet
  BY <1>1 DEF TurnSet, Stage, InTurn
<1>3. turn' = [turn EXCEPT ![t] = r]
  BY <1>1 DEF TypeInv, TurnSet, FillCache
<1> HIDE DEF r
<1>4. turn' \in [Turn -> TurnSet] /\ cached' \in SnapshotSet
  BY <1>2, <1>3 DEF TypeInv, FillCache
<1>5. RowInv'
  BY RowsStay DEF FillCache, RowVars, tableVars, busVars
<1> QED BY <1>4, <1>5 DEF TypeInv, FillCache, worldVars, tableVars, busVars

LEMMA GivenTypes ==
  ASSUME TypeInv, NEW t \in Turn, NEW memories \in Seq(ItemSet), Given(t, memories)
  PROVE  turn' \in [Turn -> TurnSet]
<1> DEFINE loaded == IF turn[t].shift THEN Snapshot(<<>>, NoTurn) ELSE turn[t].loaded
           r == [turn[t] EXCEPT !.matched = <<>>, !.given = memories, !.stage = "reply", !.loaded = loaded]
<1>1. turn[t] \in TurnSet
  BY DEF TypeInv
<1>2. loaded \in SnapshotSet
  BY <1>1 DEF TurnSet, Snapshot, SnapshotSet, MaybeTurn
<1>3. turn' = [turn EXCEPT ![t] = r]
  BY <1>1 DEF TypeInv, TurnSet, Given
<1> HIDE DEF loaded
<1>4. r \in TurnSet
  <2>1. <<>> \in Seq(ItemSet)
    OBVIOUS
  <2> QED BY <1>1, <1>2, <2>1 DEF TurnSet, Stage, InTurn
<1> HIDE DEF r
<1> QED BY <1>3, <1>4 DEF TypeInv

LEMMA SearchTypes ==
  ASSUME TypeInv, RowInv, NEW t \in Turn, SearchBrain(t)
  PROVE  TypeInv' /\ RowInv'
<1>1. ASSUME NEW matched \in search_active_brain(brain, ConversationLimitOf(t)),
             turn' = [turn EXCEPT ![t].matched = matched, ![t].stage = "sticky"]
      PROVE  turn' \in [Turn -> TurnSet]
  <2> DEFINE r == [turn[t] EXCEPT !.matched = matched, !.stage = "sticky"]
  <2>1. turn[t] \in TurnSet
    BY DEF TypeInv
  <2>2. matched \in Seq(ItemSet)
    BY SearchIsOffered DEF TypeInv, RowInv, Sound, Offered, Proffered
  <2>3. r \in TurnSet
    BY <2>1, <2>2 DEF TurnSet, Stage, InTurn
  <2>4. turn' = [turn EXCEPT ![t] = r]
    BY <1>1, <2>1 DEF TypeInv, TurnSet
  <2> HIDE DEF r
  <2> QED BY <2>3, <2>4 DEF TypeInv
<1>2. Given(t, <<>>) => turn' \in [Turn -> TurnSet]
  <2>1. <<>> \in Seq(ItemSet)
    OBVIOUS
  <2> QED BY <2>1, GivenTypes
<1>3. turn' \in [Turn -> TurnSet]
  BY <1>1, <1>2 DEF SearchBrain
<1>4. RowInv'
  BY RowsStay DEF SearchBrain, RowVars, tableVars, busVars
<1>5. disturbed' \in 0..MaxDisturbances
  BY Counted DEF SearchBrain
<1> QED BY <1>3, <1>4, <1>5 DEF TypeInv, SearchBrain, worldVars, tableVars, busVars

LEMMA LimitType ==
  ASSUME NEW t \in Turn
  PROVE  ConversationLimitOf(t) \in Nat
BY BrainAssumption DEF ConversationLimitOf

LEMMA RecentTypes ==
  ASSUME TypeInv, RowInv, NEW t \in Turn, RecentBrain(t), Proffered(turn[t].matched)
  PROVE  TypeInv' /\ RowInv'
<1> DEFINE limit == ConversationLimitOf(t)
           given == merge_brain_memories(turn[t].matched, recent_active_brain(brain, limit), limit)
<1>1. given \in Seq(ItemSet)
  <2>1. Proffered(recent_active_brain(brain, limit))
    BY RecentIsProffered DEF TypeInv, RowInv, Sound
  <2> QED BY <2>1, LimitType, MergeIsOffered DEF Offered, Proffered
<1>2. Given(t, given) \/ Given(t, <<>>)
  BY DEF RecentBrain
<1> HIDE DEF given
<1>3. turn' \in [Turn -> TurnSet]
  <2>1. <<>> \in Seq(ItemSet)
    OBVIOUS
  <2> QED BY <1>1, <1>2, <2>1, GivenTypes
<1>4. RowInv'
  BY RowsStay DEF RecentBrain, RowVars, tableVars, busVars
<1>5. disturbed' \in 0..MaxDisturbances
  BY Counted DEF RecentBrain
<1> QED BY <1>3, <1>4, <1>5 DEF TypeInv, RecentBrain, worldVars, tableVars, busVars

LEMMA SettledTypes ==
  ASSUME TypeInv, NEW t \in Turn, NEW stage \in Stage, Settled(t, stage)
  PROVE  turn' \in [Turn -> TurnSet]
<1> DEFINE r == [Unborn EXCEPT !.stage = stage, !.message = turn[t].message, !.era = turn[t].era,
                               !.life = turn[t].life]
<1>1. turn[t] \in TurnSet
  BY DEF TypeInv
<1>2. r \in TurnSet
  BY <1>1, RestIsTyped DEF TurnSet
<1>3. turn' = [turn EXCEPT ![t] = r]
  BY DEF Settled
<1> HIDE DEF r
<1> QED BY <1>2, <1>3 DEF TypeInv

LEMMA ReplyTypes ==
  ASSUME TypeInv, RowInv, NEW t \in Turn, Reply(t)
  PROVE  TypeInv' /\ RowInv'
<1>1. turn' \in [Turn -> TurnSet]
  BY SettledTypes DEF Reply, Stage
<1>2. hot' \in HotSet
  <2>1. hot.recent \in Seq(EntrySet) /\ Exchange(t) \in Seq(EntrySet)
    BY EntryIsTyped DEF TypeInv, HotSet
  <2>2. hot.recent \o Exchange(t) \in Seq(EntrySet)
    BY <2>1, ConcatProperties
  <2>3. HotCap \in Nat /\ HotCap >= 1
    BY MemoryAssumption
  <2>4. LastOf(hot.recent \o Exchange(t), HotCap) \in Seq(EntrySet)
    BY <2>2, <2>3, LastOfIs
  <2>5. hot' = [hot EXCEPT !.recent = LastOf(hot.recent \o Exchange(t), HotCap)]
    BY DEF Reply, publish_hot_turns
  <2> QED BY <2>4, <2>5 DEF TypeInv, HotSet
<1>3. finalizer' \in [Turn -> FinalizerSet]
  <2> DEFINE r == [finalizer[t] EXCEPT !.step = "user"]
  <2>1. finalizer[t] \in FinalizerSet
    BY DEF TypeInv
  <2>2. r \in FinalizerSet
    BY <2>1 DEF FinalizerSet, Step
  <2>3. finalizer' = [finalizer EXCEPT ![t] = r]
    BY <2>1 DEF Reply, TypeInv, FinalizerSet
  <2> HIDE DEF r
  <2> QED BY <2>2, <2>3 DEF TypeInv
<1>4. RowInv'
  BY RowsStay DEF Reply, RowVars, tableVars, busVars
<1> QED BY <1>1, <1>2, <1>3, <1>4 DEF TypeInv, Reply, worldVars, tableVars, busVars
LEMMA AppendTypes ==
  ASSUME TypeInv, NEW t \in Turn, NEW role \in {"user", "assistant"}, append_turn(t, role)
  PROVE  /\ turns' \in Seq(EntrySet) /\ Len(turns') = Len(turns) + 1 /\ Len(turns) \in Nat
         /\ \A i \in 1..Len(turns) : turns'[i] = turns[i]
         /\ turns'[Len(turns) + 1] = Entry(t, role)
         /\ cached' \in SnapshotSet /\ disturbed' \in 0..MaxDisturbances
         /\ conversation
<1>1. Entry(t, role) \in EntrySet /\ turns \in Seq(EntrySet)
  BY EntryIsTyped DEF TypeInv
<1>2. turns' = Append(turns, Entry(t, role)) /\ conversation
  BY DEF append_turn
<1>3. cached' \in SnapshotSet
  BY RestIsTyped DEF append_turn, TypeInv
<1>4. disturbed' \in 0..MaxDisturbances
  BY MemoryAssumption DEF append_turn, TypeInv, Calm, Disturb
<1> QED BY <1>1, <1>2, <1>3, <1>4, AppendProperties

LEMMA AppendFailTypes ==
  ASSUME TypeInv, append_fails
  PROVE  /\ turns' = turns /\ cached' = cached /\ disturbed' \in 0..MaxDisturbances
         /\ conversation => disturbed' > 0
  BY MemoryAssumption DEF append_fails, TypeInv, Calm, Disturb

LEMMA AbortTypes ==
  ASSUME TypeInv, RowInv, NEW t \in Turn, Abort(t)
  PROVE  TypeInv' /\ RowInv'
<1>1. turn' \in [Turn -> TurnSet]
  BY SettledTypes DEF Abort, Stage
<1>2. turns' \in Seq(EntrySet) /\ cached' \in SnapshotSet /\ disturbed' \in 0..MaxDisturbances
  BY AppendTypes, AppendFailTypes DEF Abort, TypeInv
<1>3. RowInv'
  BY RowsStay DEF Abort, RowVars, busVars
<1> QED BY <1>1, <1>2, <1>3 DEF TypeInv, Abort, worldVars, busVars

LEMMA StoreUserTypes ==
  ASSUME TypeInv, RowInv, NEW t \in Turn, StoreUserTurn(t)
  PROVE  TypeInv' /\ RowInv'
<1>1. turns' \in Seq(EntrySet) /\ cached' \in SnapshotSet /\ disturbed' \in 0..MaxDisturbances
  BY AppendTypes, AppendFailTypes DEF StoreUserTurn, TypeInv
<1>2. Len(turns') \in Nat
  BY <1>1
<1>3. finalizer' \in [Turn -> FinalizerSet]
  <2> DEFINE r == [finalizer[t] EXCEPT !.step = "assistant", !.row = Len(turns')]
             q == [finalizer[t] EXCEPT !.step = "assistant"]
  <2>1. finalizer[t] \in FinalizerSet
    BY DEF TypeInv
  <2>2. r \in FinalizerSet /\ q \in FinalizerSet
    BY <1>2, <2>1 DEF FinalizerSet, Step
  <2>3. finalizer' = [finalizer EXCEPT ![t] = r] \/ finalizer' = [finalizer EXCEPT ![t] = q]
    BY <2>1 DEF StoreUserTurn, TypeInv, FinalizerSet
  <2> HIDE DEF r, q
  <2> QED BY <2>2, <2>3 DEF TypeInv
<1>4. RowInv'
  BY RowsStay DEF StoreUserTurn, RowVars, busVars
<1> QED BY <1>1, <1>3, <1>4 DEF TypeInv, StoreUserTurn, worldVars, busVars

LEMMA StoreAssistantTypes ==
  ASSUME TypeInv, RowInv, NEW t \in Turn, StoreAssistantTurn(t)
  PROVE  TypeInv' /\ RowInv'
<1>1. turns' \in Seq(EntrySet) /\ cached' \in SnapshotSet /\ disturbed' \in 0..MaxDisturbances
  BY AppendTypes, AppendFailTypes DEF StoreAssistantTurn, TypeInv
<1>2. Len(turns') \in Nat
  BY <1>1
<1>3. finalizer' \in [Turn -> FinalizerSet]
  <2> DEFINE row == IF finalizer[t].row = NoRow THEN Len(turns') ELSE finalizer[t].row
             r == [finalizer[t] EXCEPT !.step = "count", !.row = row]
             q == [finalizer[t] EXCEPT !.step = "count"]
  <2>1. finalizer[t] \in FinalizerSet
    BY DEF TypeInv
  <2>2. row \in Nat
    BY <1>2, <2>1 DEF FinalizerSet
  <2>3. finalizer' = [finalizer EXCEPT ![t] = r] \/ finalizer' = [finalizer EXCEPT ![t] = q]
    BY <2>1 DEF StoreAssistantTurn, TypeInv, FinalizerSet
  <2> HIDE DEF row
  <2>4. r \in FinalizerSet /\ q \in FinalizerSet
    BY <2>1, <2>2 DEF FinalizerSet, Step
  <2> HIDE DEF r, q
  <2> QED BY <2>3, <2>4 DEF TypeInv
<1>4. RowInv'
  BY RowsStay DEF StoreAssistantTurn, RowVars, busVars
<1> QED BY <1>1, <1>3, <1>4 DEF TypeInv, StoreAssistantTurn, worldVars, busVars

LEMMA CountTypes ==
  ASSUME TypeInv, RowInv, NEW t \in Turn, CountTurns(t)
  PROVE  TypeInv' /\ RowInv'
<1>1. PICK step \in {"summarize", "brain"} : finalizer' = [finalizer EXCEPT ![t].step = step]
  BY DEF CountTurns
<1> DEFINE r == [finalizer[t] EXCEPT !.step = step]
<1>2. finalizer[t] \in FinalizerSet
  BY DEF TypeInv
<1>3. finalizer' = [finalizer EXCEPT ![t] = r]
  BY <1>1, <1>2 DEF TypeInv, FinalizerSet
<1>4. r \in FinalizerSet
  BY <1>2 DEF FinalizerSet, Step
<1> HIDE DEF r
<1>5. finalizer' \in [Turn -> FinalizerSet]
  BY <1>3, <1>4 DEF TypeInv
<1>6. RowInv'
  BY RowsStay DEF CountTurns, RowVars, tableVars, busVars
<1>7. disturbed' \in 0..MaxDisturbances
  BY Counted DEF CountTurns
<1> QED BY <1>5, <1>6, <1>7 DEF TypeInv, CountTurns, worldVars, tableVars, busVars

LEMMA RecentIsTyped ==
  ASSUME TypeInv
  PROVE  Recent \in Seq(EntrySet)
<1>1. hot.recent \in Seq(EntrySet) /\ turns \in Seq(EntrySet)
  BY DEF TypeInv, HotSet
<1>2. HotCap \in Nat /\ HotCap >= 1
  BY MemoryAssumption
<1>3. LastOf(turns, HotCap) \in Seq(EntrySet)
  BY <1>1, <1>2, LastOfIs
<1> QED BY <1>1, <1>3 DEF Recent

LEMMA SummarizeTypes ==
  ASSUME TypeInv, RowInv, NEW t \in Turn, Summarize(t)
  PROVE  TypeInv' /\ RowInv'
<1> DEFINE step == IF Panics(Recent) THEN "panicked" ELSE "queue"
           summary == IF Recent = <<>> THEN NoTurn ELSE Recent[Len(Recent)].of
           r == [finalizer[t] EXCEPT !.step = step, !.summary = summary]
           q == [finalizer[t] EXCEPT !.step = "brain"]
<1>1. finalizer[t] \in FinalizerSet /\ step \in Step
  BY DEF TypeInv, Step
<1>2. summary \in MaybeTurn
  <2>1. Recent \in Seq(EntrySet)
    BY RecentIsTyped
  <2>2. Recent # <<>> => Recent[Len(Recent)] \in EntrySet
    BY <2>1
  <2> QED BY <2>2 DEF EntrySet, MaybeTurn
<1>3. finalizer' = [finalizer EXCEPT ![t] = r] \/ finalizer' = [finalizer EXCEPT ![t] = q]
  BY <1>1 DEF TypeInv, FinalizerSet, Summarize
<1> HIDE DEF step, summary
<1>4. r \in FinalizerSet /\ q \in FinalizerSet
  BY <1>1, <1>2 DEF FinalizerSet, Step
<1> HIDE DEF r, q
<1>5. finalizer' \in [Turn -> FinalizerSet]
  BY <1>3, <1>4 DEF TypeInv
<1>6. RowInv'
  BY RowsStay DEF Summarize, RowVars, tableVars, busVars
<1>7. disturbed' \in 0..MaxDisturbances
  BY Counted DEF Summarize
<1> QED BY <1>5, <1>6, <1>7 DEF TypeInv, Summarize, worldVars, tableVars, busVars

LEMMA QueueSummaryTypes ==
  ASSUME TypeInv, RowInv, NEW t \in Turn, QueueSummary(t)
  PROVE  TypeInv' /\ RowInv'
<1> DEFINE r == [finalizer[t] EXCEPT !.step = "brain"]
           event == [AtRest EXCEPT !.kind = "summary", !.of = t, !.summary = finalizer[t].summary]
<1>1. finalizer[t] \in FinalizerSet
  BY DEF TypeInv
<1>2. r \in FinalizerSet
  BY <1>1 DEF FinalizerSet, Step
<1>3. finalizer' = [finalizer EXCEPT ![t] = r]
  BY <1>1 DEF TypeInv, FinalizerSet, QueueSummary
<1>4. event \in EventSet
  BY <1>1, RestIsTyped DEF FinalizerSet, EventSet, MaybeTurn
<1>5. bus' = Append(bus, event) \/ bus' = bus
  BY DEF QueueSummary, Queue
<1> HIDE DEF r, event
<1>6. finalizer' \in [Turn -> FinalizerSet] /\ bus' \in Seq(EventSet)
  <2>1. finalizer' \in [Turn -> FinalizerSet]
    BY <1>2, <1>3 DEF TypeInv
  <2>2. bus \in Seq(EventSet)
    BY DEF TypeInv
  <2>3. Append(bus, event) \in Seq(EventSet)
    BY <1>4, <2>2, AppendProperties
  <2> QED BY <1>5, <2>1, <2>2, <2>3
<1>7. disturbed' \in 0..MaxDisturbances
  BY MemoryAssumption DEF QueueSummary, Calm, Disturb, TypeInv
<1>8. RowInv'
  BY RowsStay DEF QueueSummary, RowVars, tableVars
<1> QED BY <1>6, <1>7, <1>8 DEF TypeInv, QueueSummary, worldVars, tableVars

LEMMA QueueBrainTypes ==
  ASSUME TypeInv, RowInv, NEW t \in Turn, QueueBrain(t)
  PROVE  TypeInv' /\ RowInv'
<1>0. PICK learned \in BOOLEAN : QueueBrain(t)!2!(learned)
  BY DEF QueueBrain
<1> DEFINE candidates == capture_brain(turn[t].message, learned, Contents(LastOf(Recent, 8)))
           r == [finalizer[t] EXCEPT !.step = "done", !.captured = candidates]
           q == [finalizer[t] EXCEPT !.step = "done"]
           event == [AtRest EXCEPT !.kind = "brain", !.of = t, !.candidates = candidates,
                                   !.row = finalizer[t].row]
<1>1. finalizer[t] \in FinalizerSet
  BY DEF TypeInv
<1>2. candidates \in Proposals
  <2>1. turn[t].message \in Messages
    BY DEF TypeInv, TurnSet
  <2> QED BY <2>1, CaptureIsKeyed DEF Keyed, Proposals
<1>3. finalizer' = [finalizer EXCEPT ![t] = r] \/ finalizer' = [finalizer EXCEPT ![t] = q]
  BY <1>0, <1>1 DEF TypeInv, FinalizerSet
<1>4. bus' = Append(bus, event) \/ bus' = bus
  BY <1>0 DEF Queue
<1> HIDE DEF candidates
<1>5. r \in FinalizerSet /\ q \in FinalizerSet
  BY <1>1, <1>2 DEF FinalizerSet, Step
<1>6. event \in EventSet
  BY <1>1, <1>2, RestIsTyped DEF FinalizerSet, EventSet, MaybeTurn
<1> HIDE DEF r, q, event
<1>7. finalizer' \in [Turn -> FinalizerSet] /\ bus' \in Seq(EventSet)
  <2>1. finalizer' \in [Turn -> FinalizerSet]
    BY <1>3, <1>5 DEF TypeInv
  <2>2. bus \in Seq(EventSet)
    BY DEF TypeInv
  <2>3. Append(bus, event) \in Seq(EventSet)
    BY <1>6, <2>2, AppendProperties
  <2> QED BY <1>4, <2>1, <2>2, <2>3
<1>8. disturbed' \in 0..MaxDisturbances
  BY <1>0, Counted
<1>9. RowInv'
  BY RowsStay DEF QueueBrain, RowVars, tableVars
<1> QED BY <1>7, <1>8, <1>9 DEF TypeInv, QueueBrain, worldVars, tableVars

-----------------------------------------------------------------------------
(* Consumers and the world                                                 *)

LEMMA WorkerType ==
  ASSUME TypeInv, NEW c \in Consumers
  PROVE  /\ worker[c] \in WorkerSet /\ worker[c].event \in EventSet /\ worker[c].read \in Seq(Nat)
         /\ worker[c].event.candidates \in Seq(Proposal) /\ Distinct(worker[c].event.candidates)
         /\ worker[c].event.row \in Nat /\ worker[c].event.summary \in MaybeTurn
         /\ worker[c].event.of \in MaybeTurn /\ worker[c].stale \in BOOLEAN
<1>1. worker[c] \in WorkerSet
  BY DEF TypeInv
<1>2. worker[c].event \in EventSet /\ worker[c].read \in Seq(Nat) /\ worker[c].stale \in BOOLEAN
  BY <1>1 DEF WorkerSet
<1>3. /\ worker[c].event.candidates \in Proposals /\ worker[c].event.row \in Nat
      /\ worker[c].event.summary \in MaybeTurn /\ worker[c].event.of \in MaybeTurn
  BY <1>2 DEF EventSet
<1> QED BY <1>1, <1>2, <1>3 DEF Proposals

LEMMA BatchIs ==
  ASSUME NEW T, NEW s \in Seq(T), NEW at \in SUBSET DOMAIN s
  PROVE  /\ Subsequence(s, at) \in Seq(T)
         /\ \A k \in 1..Len(Subsequence(s, at)) : \E i \in 1..Len(s) : Subsequence(s, at)[k] = s[i]
<1>1. Len(s) \in Nat /\ DOMAIN s = 1..Len(s)
  OBVIOUS
<1> DEFINE u == Subsequence(s, at)
<1>2. u \in Seq(T) /\ Len(u) = Cardinality(at)
  BY <1>1, SubsequenceType
<1>3. PICK from \in [1..Cardinality(at) -> at] :
        /\ \A k, l \in 1..Cardinality(at) : k # l => from[k] # from[l]
        /\ \A k \in 1..Cardinality(at) : u[k] = s[from[k]]
  BY <1>1, SubsequencePositions
<1> HIDE DEF u
<1>4. \A k \in 1..Len(u) : from[k] \in 1..Len(s) /\ u[k] = s[from[k]]
  BY <1>1, <1>2, <1>3
<1> QED BY <1>2, <1>4 DEF u

(* A batch is made of events on the bus.                                   *)
LEMMA ClaimEffect ==
  ASSUME TypeInv, NEW c \in Consumers, Claim(c)
  PROVE  /\ claimed' \in [Consumers -> Seq(EventSet)]
         /\ \A d \in Consumers \ {c} : claimed'[d] = claimed[d]
         /\ \A k \in 1..Len(claimed'[c]) : \E i \in 1..Len(bus) : claimed'[c][k] = bus[i]
<1>1. PICK batch \in (SUBSET Untaken) \ {{}} : claimed' = [claimed EXCEPT ![c] = Subsequence(bus, batch)]
  BY DEF Claim
<1> DEFINE s == Subsequence(bus, batch)
<1>2. bus \in Seq(EventSet) /\ batch \in SUBSET DOMAIN bus
  BY DEF TypeInv, Untaken
<1>3. s \in Seq(EventSet) /\ \A k \in 1..Len(s) : \E i \in 1..Len(bus) : s[k] = bus[i]
  BY <1>2, BatchIs
<1> HIDE DEF s
<1> QED BY <1>1, <1>3 DEF TypeInv, s

LEMMA ClaimTypes ==
  ASSUME TypeInv, RowInv, NEW c \in Consumers, Claim(c)
  PROVE  TypeInv' /\ RowInv'
<1>1. claimed' \in [Consumers -> Seq(EventSet)]
  BY ClaimEffect
<1>2. RowInv'
  BY RowsStay DEF Claim, RowVars, tableVars
<1> QED BY <1>1, <1>2 DEF TypeInv, Claim, worldVars, turnVars, tableVars

(* A consumer that takes an event has read the rows it is about.           *)
LEMMA TakeEffect ==
  ASSUME TypeInv, RowInv, NEW c \in Consumers, Take(c)
  PROVE  \E event \in EventSet :
           /\ Len(claimed[c]) > 0 /\ event = claimed[c][1]
           /\ worker'[c] \in WorkerSet /\ worker'[c].event = event /\ worker'[c].stale = FALSE
           /\ Len(worker'[c].read) = Len(event.candidates)
           /\ \A k \in 1..Len(event.candidates) :
                /\ worker'[c].read[k] = existing_row(brain, event.candidates[k].key)
                /\ Refers(brain, worker'[c].read[k], event.candidates[k])
           /\ worker' \in [Consumers -> WorkerSet] /\ \A d \in Consumers \ {c} : worker'[d] = worker[d]
           /\ \/ event.kind = "summary" /\ hot' = [hot EXCEPT !.summary = event.summary]
              \/ event.kind = "brain" /\ hot' = hot
           /\ claimed' \in [Consumers -> Seq(EventSet)]
           /\ \A d \in Consumers \ {c} : claimed'[d] = claimed[d]
           /\ \A k \in 1..Len(claimed'[c]) : k + 1 \in 1..Len(claimed[c]) /\ claimed'[c][k] = claimed[c][k + 1]
<1> DEFINE event == Head(claimed[c])
           cs == event.candidates
           n == Len(cs)
           read == [k \in DOMAIN cs |-> existing_row(brain, cs[k].key)]
           w == [event |-> event, stale |-> FALSE, read |-> read]
<1>1. /\ worker' = [worker EXCEPT ![c] = w] /\ claimed' = [claimed EXCEPT ![c] = Tail(claimed[c])]
      /\ \/ event.kind = "summary" /\ publish_hot_summary(event)
         \/ event.kind = "brain" /\ UNCHANGED hot
      /\ claimed[c] # <<>>
  BY DEF Take, TypeInv
<1>2. /\ claimed[c] \in Seq(EventSet) /\ Len(claimed[c]) > 0 /\ event = claimed[c][1]
      /\ event \in EventSet
  <2>1. claimed[c] \in Seq(EventSet)
    BY DEF TypeInv
  <2> QED BY <1>1, <2>1
<1>3. cs \in Seq(Proposal) /\ n \in Nat /\ DOMAIN cs = 1..n
  BY <1>2 DEF EventSet, Proposals
<1>4. brain \in Seq(RowSet)
  BY DEF TypeInv
<1>5. ASSUME NEW k \in 1..n
      PROVE  existing_row(brain, cs[k].key) \in Nat /\ Refers(brain, existing_row(brain, cs[k].key), cs[k])
  <2>1. \/ existing_row(brain, cs[k].key) = NoRow
        \/ existing_row(brain, cs[k].key) \in ActiveRows(brain, cs[k].key)
    BY <1>4, ExistingRow
  <2> QED BY <1>4, <2>1 DEF ActiveRows, Refers, NoRow
<1> HIDE DEF event
<1>6. w \in WorkerSet /\ Len(read) = n /\ \A k \in 1..n : read[k] = existing_row(brain, cs[k].key)
  <2>1. read = [k \in 1..n |-> existing_row(brain, cs[k].key)]
    BY <1>3
  <2> HIDE DEF read
  <2>2. read \in [1..n -> Nat]
    BY <1>5, <2>1
  <2>3. read \in Seq(Nat) /\ Len(read) = n
    BY <1>3, <2>1, <2>2
  <2> HIDE DEF cs, n
  <2>4. w \in WorkerSet
    BY <1>2, <2>3 DEF WorkerSet
  <2> QED BY <2>1, <2>3, <2>4
<1>7. w.event = event /\ w.stale = FALSE /\ w.read = read
  OBVIOUS
<1> HIDE DEF w, read
<1>8. /\ worker'[c] = w /\ worker' \in [Consumers -> WorkerSet]
      /\ \A d \in Consumers \ {c} : worker'[d] = worker[d]
  BY <1>1, <1>6 DEF TypeInv
<1>9. \/ event.kind = "summary" /\ hot' = [hot EXCEPT !.summary = event.summary]
      \/ event.kind = "brain" /\ hot' = hot
  BY <1>1 DEF publish_hot_summary
<1>10. /\ worker'[c] \in WorkerSet /\ worker'[c].event = event /\ worker'[c].stale = FALSE
       /\ Len(worker'[c].read) = n
       /\ \A k \in 1..n : /\ worker'[c].read[k] = existing_row(brain, cs[k].key)
                          /\ Refers(brain, worker'[c].read[k], cs[k])
  BY <1>5, <1>6, <1>7, <1>8
<1>11. /\ claimed' \in [Consumers -> Seq(EventSet)] /\ \A d \in Consumers \ {c} : claimed'[d] = claimed[d]
       /\ \A k \in 1..Len(claimed'[c]) : k + 1 \in 1..Len(claimed[c]) /\ claimed'[c][k] = claimed[c][k + 1]
  <2> DEFINE s == claimed[c]
             r == Tail(claimed[c])
  <2>1. /\ r \in Seq(EventSet) /\ Len(r) = Len(s) - 1 /\ Len(s) \in Nat
        /\ \A k \in 1..Len(r) : r[k] = s[k + 1]
    BY <1>1, <1>2
  <2> HIDE DEF r
  <2>2. claimed' = [claimed EXCEPT ![c] = r] /\ claimed \in [Consumers -> Seq(EventSet)]
    BY <1>1 DEF r, TypeInv
  <2>3. claimed'[c] = r /\ claimed' \in [Consumers -> Seq(EventSet)]
    BY <2>1, <2>2
  <2>4. \A d \in Consumers \ {c} : claimed'[d] = claimed[d]
    BY <2>2
  <2>5. \A k \in 1..Len(r) : k + 1 \in 1..Len(s)
    BY <2>1
  <2> QED BY <2>1, <2>3, <2>4, <2>5
<1> HIDE DEF cs, n
<1> QED BY <1>2, <1>8, <1>9, <1>10, <1>11 DEF cs, n

LEMMA TakeTypes ==
  ASSUME TypeInv, RowInv, NEW c \in Consumers, Take(c)
  PROVE  TypeInv' /\ RowInv'
<1>1. PICK event \in EventSet :
           /\ worker'[c] \in WorkerSet /\ worker'[c].event = event /\ worker'[c].stale = FALSE
           /\ Len(worker'[c].read) = Len(event.candidates)
           /\ \A k \in 1..Len(event.candidates) :
                /\ worker'[c].read[k] = existing_row(brain, event.candidates[k].key)
                /\ Refers(brain, worker'[c].read[k], event.candidates[k])
           /\ worker' \in [Consumers -> WorkerSet] /\ \A d \in Consumers \ {c} : worker'[d] = worker[d]
           /\ \/ event.kind = "summary" /\ hot' = [hot EXCEPT !.summary = event.summary]
              \/ event.kind = "brain" /\ hot' = hot
           /\ claimed' \in [Consumers -> Seq(EventSet)]
  BY TakeEffect
<1>2. brain' = brain
  BY DEF Take, tableVars
<1>3. hot' \in HotSet
  BY <1>1 DEF TypeInv, HotSet, EventSet
<1>4. RowInv'
  <2>1. Sound(brain')
    BY <1>2 DEF RowInv
  <2>2. ASSUME NEW d \in Consumers
        PROVE  /\ Len(worker'[d].read) = Len(worker'[d].event.candidates)
               /\ \A k \in 1..Len(worker'[d].event.candidates) :
                    Refers(brain', worker'[d].read[k], worker'[d].event.candidates[k])
    <3>1. CASE d = c
      BY <1>1, <1>2, <3>1
    <3>2. CASE d # c
      BY <1>1, <1>2, <3>2 DEF RowInv
    <3> QED BY <3>1, <3>2
  <2> QED BY <2>1, <2>2 DEF RowInv
<1> QED BY <1>1, <1>3, <1>4 DEF TypeInv, Take, worldVars, turnVars, tableVars

LEMMA FinishEffect ==
  ASSUME TypeInv, NEW c \in Consumers, Finish(c)
  PROVE  /\ worker' \in [Consumers -> WorkerSet] /\ worker'[c] = Waiting
         /\ \A d \in Consumers \ {c} :
              /\ worker'[d].event = worker[d].event /\ worker'[d].read = worker[d].read
              /\ worker'[d].stale = (worker[d].stale \/ worker[d].event.kind = worker[c].event.kind)
         /\ raced' = (raced \/ worker[c].stale) /\ raced' \in BOOLEAN
<1> DEFINE W(d) == CASE d = c -> Waiting
                     [] d # c /\ worker[d].event.kind = worker[c].event.kind ->
                          [worker[d] EXCEPT !.stale = TRUE]
                     [] OTHER -> worker[d]
<1>1. worker' = [d \in Consumers |-> W(d)]
  BY DEF Finish
<1>2. ASSUME NEW d \in Consumers, d # c, worker[d].event.kind = worker[c].event.kind
      PROVE  /\ W(d) = [worker[d] EXCEPT !.stale = TRUE] /\ W(d) \in WorkerSet
             /\ W(d).event = worker[d].event /\ W(d).read = worker[d].read /\ W(d).stale = TRUE
  <2>1. worker[d] \in WorkerSet
    BY DEF TypeInv
  <2>2. W(d) = [worker[d] EXCEPT !.stale = TRUE]
    BY <1>2
  <2> QED BY <2>1, <2>2 DEF WorkerSet
<1>3. ASSUME NEW d \in Consumers, d # c, worker[d].event.kind # worker[c].event.kind
      PROVE  W(d) = worker[d] /\ W(d) \in WorkerSet
  BY <1>3 DEF TypeInv
<1>4. W(c) = Waiting /\ W(c) \in WorkerSet
  BY RestIsTyped
<1> HIDE DEF W
<1>5. \A d \in Consumers : W(d) \in WorkerSet /\ worker'[d] = W(d)
  BY <1>1, <1>2, <1>3, <1>4
<1>6. worker' \in [Consumers -> WorkerSet] /\ worker'[c] = Waiting
  BY <1>1, <1>4, <1>5
<1>7. \A d \in Consumers : worker[d].stale \in BOOLEAN
  BY WorkerType
<1>8. ASSUME NEW d \in Consumers \ {c}
      PROVE  /\ worker'[d].event = worker[d].event /\ worker'[d].read = worker[d].read
             /\ worker'[d].stale = (worker[d].stale \/ worker[d].event.kind = worker[c].event.kind)
  <2>1. CASE worker[d].event.kind = worker[c].event.kind
    BY <2>1, <1>2, <1>5, <1>7
  <2>2. CASE worker[d].event.kind # worker[c].event.kind
    BY <2>2, <1>3, <1>5, <1>7
  <2> QED BY <2>1, <2>2
<1>9. raced' = (raced \/ worker[c].stale) /\ raced' \in BOOLEAN
  BY <1>7 DEF Finish, TypeInv
<1> QED BY <1>6, <1>8, <1>9

(* One event less, or none of that kind.                                   *)
Removes(event) ==
  \E i \in 1..Len(bus) :
    /\ bus[i] = event /\ Len(bus') = Len(bus) - 1
    /\ \A j \in 1..(Len(bus) - 1) : bus'[j] = IF j < i THEN bus[j] ELSE bus[j + 1]

LEMMA AcknowledgedEffect ==
  ASSUME TypeInv, NEW event, Acknowledged(event)
  PROVE  bus' \in Seq(EventSet) /\ (Removes(event) \/ bus' = bus)
<1>1. bus \in Seq(EventSet) /\ DOMAIN bus = 1..Len(bus)
  BY DEF TypeInv
<1>2. CASE \E i \in DOMAIN bus : bus[i] = event /\ bus' = RemoveAt(bus, i)
  <2>1. PICK i \in 1..Len(bus) : bus[i] = event /\ bus' = RemoveAt(bus, i)
    BY <1>1, <1>2
  <2>2. /\ RemoveAt(bus, i) \in Seq(EventSet) /\ Len(RemoveAt(bus, i)) = Len(bus) - 1
        /\ \A j \in 1..(Len(bus) - 1) : RemoveAt(bus, i)[j] = IF j < i THEN bus[j] ELSE bus[j + 1]
    BY <1>1, RemoveAtIs
  <2> QED BY <2>1, <2>2 DEF Removes
<1>3. CASE bus' = bus
  BY <1>1, <1>3
<1> QED BY <1>2, <1>3 DEF Acknowledged

(* A batch loses its rest, or nothing.                                     *)
Leaves(c) ==
  /\ claimed' \in [Consumers -> Seq(EventSet)]
  /\ \A d \in Consumers : claimed'[d] = claimed[d] \/ claimed'[d] = <<>>

LEMMA LeavesEffect ==
  ASSUME TypeInv, NEW c \in Consumers, LeavesTheRest(c) \/ UNCHANGED claimed
  PROVE  Leaves(c)
<1>1. <<>> \in Seq(EventSet)
  OBVIOUS
<1> QED BY <1>1 DEF LeavesTheRest, Leaves, TypeInv

LEMMA AcknowledgeEffect ==
  ASSUME TypeInv, NEW c \in Consumers, Acknowledge(c)
  PROVE  /\ bus' \in Seq(EventSet) /\ Leaves(c) /\ (Calm \/ Disturb)
         /\ Removes(worker[c].event) \/ bus' = bus
BY AcknowledgedEffect, LeavesEffect DEF Acknowledge, TypeInv

LEMMA SummaryIsAcknowledged ==
  ASSUME TypeInv, NEW c \in Consumers, WriteSummary(c)
  PROVE  /\ bus' \in Seq(EventSet) /\ Leaves(c) /\ (Calm \/ Disturb)
         /\ Removes(worker[c].event) \/ bus' = bus
BY AcknowledgedEffect, AcknowledgeEffect, LeavesEffect DEF WriteSummary

LEMMA WriteSummaryTypes ==
  ASSUME TypeInv, RowInv, NEW c \in Consumers, WriteSummary(c)
  PROVE  TypeInv' /\ RowInv'
<1>1. /\ worker' \in [Consumers -> WorkerSet] /\ worker'[c] = Waiting
      /\ \A d \in Consumers \ {c} :
           worker'[d].event = worker[d].event /\ worker'[d].read = worker[d].read
      /\ raced' \in BOOLEAN
  BY FinishEffect DEF WriteSummary
<1>2. /\ bus' \in Seq(EventSet) /\ claimed' \in [Consumers -> Seq(EventSet)]
      /\ disturbed' \in 0..MaxDisturbances
  BY SummaryIsAcknowledged, Counted DEF Leaves
<1>3. summaries' \in Seq(MaybeTurn) /\ cached' \in SnapshotSet
  <2>1. worker[c].event.summary \in MaybeTurn
    BY WorkerType
  <2> QED BY <2>1, RestIsTyped DEF WriteSummary, TypeInv
<1>4. RowInv'
  <2>1. brain' = brain
    BY DEF WriteSummary
  <2>2. worker'[c].read = <<>> /\ worker'[c].event.candidates = <<>> /\ Len(<<>>) = 0
    BY <1>1 DEF Waiting, AtRest
  <2>3. ASSUME NEW d \in Consumers
        PROVE  /\ Len(worker'[d].read) = Len(worker'[d].event.candidates)
               /\ \A k \in 1..Len(worker'[d].event.candidates) :
                    Refers(brain', worker'[d].read[k], worker'[d].event.candidates[k])
    <3>1. CASE d = c
      BY <2>2, <3>1
    <3>2. CASE d # c
      BY <1>1, <2>1, <3>2 DEF RowInv
    <3> QED BY <3>1, <3>2
  <2> QED BY <2>1, <2>3 DEF RowInv
<1> QED BY <1>1, <1>2, <1>3, <1>4 DEF TypeInv, WriteSummary, worldVars, turnVars

LEMMA WriteBrainTypes ==
  ASSUME TypeInv, RowInv, NEW c \in Consumers, WriteBrain(c)
  PROVE  TypeInv' /\ RowInv'
<1>1. /\ worker' \in [Consumers -> WorkerSet] /\ worker'[c] = Waiting
      /\ \A d \in Consumers \ {c} :
           worker'[d].event = worker[d].event /\ worker'[d].read = worker[d].read
      /\ raced' \in BOOLEAN
  BY FinishEffect DEF WriteBrain
<1>2. /\ bus' \in Seq(EventSet) /\ claimed' \in [Consumers -> Seq(EventSet)]
      /\ disturbed' \in 0..MaxDisturbances
  BY AcknowledgeEffect, Counted DEF WriteBrain, Leaves
<1>3. /\ Sound(brain') /\ Len(brain') >= Len(brain)
      /\ \A i \in 1..Len(brain) : brain'[i].key = brain[i].key
  <2> DEFINE cs == worker[c].event.candidates
  <2>1. cs \in Seq(Proposal) /\ worker[c].event.row \in Nat
    BY WorkerType
  <2>2. \A k \in 1..Len(cs) : Refers(brain, worker[c].read[k], cs[k])
    BY DEF RowInv
  <2>3. Sound(brain)
    BY DEF RowInv
  <2>4. brain' = saved_brain(brain, cs, worker[c].read, worker[c].event.row)
    BY DEF WriteBrain
  <2> HIDE DEF cs
  <2> QED BY <2>1, <2>2, <2>3, <2>4, SavedBrainIsSound
<1>4. RowInv'
  <2>1. worker'[c].read = <<>> /\ worker'[c].event.candidates = <<>> /\ Len(<<>>) = 0
    BY <1>1 DEF Waiting, AtRest
  <2>2. Len(brain) \in Nat /\ Len(brain') \in Nat
    BY <1>3 DEF TypeInv, Sound
  <2>3. ASSUME NEW d \in Consumers
        PROVE  /\ Len(worker'[d].read) = Len(worker'[d].event.candidates)
               /\ \A k \in 1..Len(worker'[d].event.candidates) :
                    Refers(brain', worker'[d].read[k], worker'[d].event.candidates[k])
    <3>1. CASE d = c
      BY <2>1, <3>1
    <3>2. CASE d # c
      <4>1. \A k \in 1..Len(worker[d].event.candidates) :
              Refers(brain, worker[d].read[k], worker[d].event.candidates[k])
        BY DEF RowInv
      <4>2. ASSUME NEW e, NEW proposal, Refers(brain, e, proposal) PROVE Refers(brain', e, proposal)
        BY <1>3, <2>2, <4>2 DEF Refers
      <4>3. worker'[d].event = worker[d].event /\ worker'[d].read = worker[d].read
        BY <1>1, <3>2
      <4>4. Len(worker[d].read) = Len(worker[d].event.candidates)
        BY DEF RowInv
      <4> QED BY <4>1, <4>2, <4>3, <4>4
    <3> QED BY <3>1, <3>2
  <2> QED BY <1>3, <2>3 DEF RowInv
<1>5. written' \in Seq(MaybeTurn)
  <2>1. worker[c].event.of \in MaybeTurn /\ written \in Seq(MaybeTurn)
    BY WorkerType DEF TypeInv
  <2>2. written' = Append(written, worker[c].event.of)
    BY DEF WriteBrain
  <2> QED BY <2>1, <2>2, AppendProperties
<1> QED BY <1>1, <1>2, <1>3, <1>4, <1>5 DEF TypeInv, Sound, WriteBrain, worldVars, turnVars

LEMMA HandlerFailsTypes ==
  ASSUME TypeInv, RowInv, NEW c \in Consumers, HandlerFails(c)
  PROVE  TypeInv' /\ RowInv'
<1>1. worker' = [worker EXCEPT ![c] = Waiting] /\ worker' \in [Consumers -> WorkerSet]
  BY RestIsTyped DEF HandlerFails, TypeInv
<1>2. disturbed' \in 0..MaxDisturbances /\ claimed' \in [Consumers -> Seq(EventSet)]
  BY Counted, LeavesEffect DEF HandlerFails, Leaves
<1>3. RowInv'
  <2>1. brain' = brain
    BY DEF HandlerFails, tableVars
  <2>2. worker'[c].read = <<>> /\ worker'[c].event.candidates = <<>> /\ Len(<<>>) = 0
    BY <1>1 DEF Waiting, AtRest, TypeInv
  <2>3. \A d \in Consumers \ {c} : worker'[d] = worker[d]
    BY <1>1 DEF TypeInv
  <2>4. ASSUME NEW d \in Consumers
        PROVE  /\ Len(worker'[d].read) = Len(worker'[d].event.candidates)
               /\ \A k \in 1..Len(worker'[d].event.candidates) :
                    Refers(brain', worker'[d].read[k], worker'[d].event.candidates[k])
    <3>1. CASE d = c
      BY <2>2, <3>1
    <3>2. CASE d # c
      BY <2>1, <2>3, <3>2 DEF RowInv
    <3> QED BY <3>1, <3>2
  <2> QED BY <2>1, <2>4 DEF RowInv
<1>4. cached' \in SnapshotSet
  BY RestIsTyped DEF HandlerFails, TypeInv
<1> QED BY <1>1, <1>2, <1>3, <1>4 DEF TypeInv, HandlerFails, worldVars, turnVars, tableVars

LEMMA ExpireTypes ==
  ASSUME TypeInv, RowInv, Expire
  PROVE  TypeInv' /\ RowInv'
<1>1. RowInv'
  BY RowsStay DEF Expire, RowVars, tableVars, busVars
<1>2. cached' \in SnapshotSet
  BY RestIsTyped DEF Expire
<1> QED BY <1>1, <1>2 DEF TypeInv, Expire, worldVars, turnVars, tableVars, busVars

(* What is under way ends with the process.                                *)
LEMMA RestartEffect ==
  ASSUME TypeInv, Restart
  PROVE  /\ life' = life + 1 /\ hot' = Cold /\ disturbed' \in 0..MaxDisturbances /\ disturbed' > 0
         /\ worker' \in [Consumers -> WorkerSet] /\ \A c \in Consumers : worker'[c] = Waiting
         /\ turn' \in [Turn -> TurnSet] /\ finalizer' \in [Turn -> FinalizerSet]
         /\ \A t \in Turn :
              /\ turn[t].stage \in InTurn => turn'[t].stage = "lost" /\ turn'[t].life = 0
              /\ turn[t].stage \notin InTurn => turn'[t] = turn[t]
              /\ finalizer[t].step \in {"none", "done", "panicked"} => finalizer'[t] = finalizer[t]
              /\ finalizer[t].step \notin {"none", "done", "panicked"} => finalizer'[t].step = "lost"
<1>1. life' = life + 1 /\ hot' = Cold /\ worker' = [c \in Consumers |-> Waiting]
  BY DEF Restart
<1>2. disturbed' \in 0..MaxDisturbances /\ disturbed' > 0
  <2>1. disturbed \in 0..MaxDisturbances /\ MaxDisturbances \in Nat
    BY MemoryAssumption DEF TypeInv
  <2>2. disturbed < MaxDisturbances /\ disturbed' = disturbed + 1
    BY DEF Restart, Disturb
  <2> QED BY <2>1, <2>2
<1>3. worker' \in [Consumers -> WorkerSet] /\ \A c \in Consumers : worker'[c] = Waiting
  BY <1>1, RestIsTyped
<1> DEFINE lost(t) == [Unborn EXCEPT !.stage = "lost", !.message = turn[t].message]
           ended(t) == [finalizer[t] EXCEPT !.step = "lost"]
           T(t) == IF turn[t].stage \in InTurn THEN lost(t) ELSE turn[t]
           F(t) == IF finalizer[t].step \in {"none", "done", "panicked"} THEN finalizer[t] ELSE ended(t)
<1>4. turn' = [t \in Turn |-> T(t)] /\ finalizer' = [t \in Turn |-> F(t)]
  BY DEF Restart
<1>5. ASSUME NEW t \in Turn
      PROVE  /\ lost(t) \in TurnSet /\ lost(t).stage = "lost" /\ lost(t).life = 0
             /\ ended(t) \in FinalizerSet /\ ended(t).step = "lost"
             /\ turn[t] \in TurnSet /\ finalizer[t] \in FinalizerSet
  <2>1. turn[t] \in TurnSet /\ finalizer[t] \in FinalizerSet
    BY DEF TypeInv
  <2>2. turn[t].message \in Messages
    BY <2>1 DEF TurnSet
  <2>3. lost(t) \in TurnSet /\ lost(t).stage = "lost"
    BY <2>2, RestIsTyped DEF TurnSet, Stage
  <2>4. lost(t).life = 0
    BY DEF Unborn
  <2>5. ended(t) \in FinalizerSet /\ ended(t).step = "lost"
    BY <2>1 DEF FinalizerSet, Step
  <2> QED BY <2>1, <2>3, <2>4, <2>5
<1> HIDE DEF lost, ended
<1>6. \A t \in Turn : T(t) \in TurnSet /\ F(t) \in FinalizerSet
  BY <1>5
<1>7. \A t \in Turn : turn'[t] = T(t) /\ finalizer'[t] = F(t)
  BY <1>4
<1>8. turn' \in [Turn -> TurnSet] /\ finalizer' \in [Turn -> FinalizerSet]
  <2> HIDE DEF T, F
  <2> QED BY <1>4, <1>6
<1>9. ASSUME NEW t \in Turn
      PROVE  /\ turn[t].stage \in InTurn => turn'[t].stage = "lost" /\ turn'[t].life = 0
             /\ turn[t].stage \notin InTurn => turn'[t] = turn[t]
             /\ finalizer[t].step \in {"none", "done", "panicked"} => finalizer'[t] = finalizer[t]
             /\ finalizer[t].step \notin {"none", "done", "panicked"} => finalizer'[t].step = "lost"
  BY <1>5, <1>7
<1> QED BY <1>1, <1>2, <1>3, <1>8, <1>9

LEMMA RestartTypes ==
  ASSUME TypeInv, RowInv, Restart
  PROVE  TypeInv' /\ RowInv'
<1>1. /\ life' = life + 1 /\ hot' = Cold /\ disturbed' \in 0..MaxDisturbances
      /\ worker' \in [Consumers -> WorkerSet] /\ \A c \in Consumers : worker'[c] = Waiting
      /\ turn' \in [Turn -> TurnSet] /\ finalizer' \in [Turn -> FinalizerSet]
  BY RestartEffect
<1>2. hot' \in HotSet /\ life' \in Nat
  BY <1>1, RestIsTyped DEF TypeInv
<1>3. \A c \in Consumers : worker'[c].read = <<>> /\ worker'[c].event.candidates = <<>>
  BY <1>1 DEF Waiting, AtRest
<1>4. RowInv'
  <2>1. Sound(brain') /\ Len(<<>>) = 0
    BY DEF RowInv, Restart, tableVars
  <2> QED BY <1>3, <2>1 DEF RowInv
<1>5. claimed' \in [Consumers -> Seq(EventSet)]
  <2>1. <<>> \in Seq(EventSet)
    OBVIOUS
  <2> QED BY <2>1 DEF Restart
<1> QED BY <1>1, <1>2, <1>4, <1>5 DEF TypeInv, Restart, tableVars

LEMMA ResetEffect ==
  ASSUME TypeInv, ResetData
  PROVE  /\ worker' \in [Consumers -> WorkerSet]
         /\ \A c \in Consumers :
              /\ worker'[c].event = worker[c].event /\ worker'[c].stale = worker[c].stale
              /\ Len(worker'[c].read) = Len(worker[c].read)
              /\ \A k \in 1..Len(worker[c].read) : worker'[c].read[k] = NoRow
         /\ disturbed' \in 0..MaxDisturbances /\ disturbed' > 0
         /\ brain' = <<>> /\ bus' = <<>>
<1> DEFINE none(c) == [k \in DOMAIN worker[c].read |-> NoRow]
           w(c) == [worker[c] EXCEPT !.read = none(c)]
<1>1. worker' = [c \in Consumers |-> w(c)]
  BY DEF ResetData
<1>2. ASSUME NEW c \in Consumers
      PROVE  /\ w(c) \in WorkerSet /\ w(c).event = worker[c].event /\ w(c).stale = worker[c].stale
             /\ Len(w(c).read) = Len(worker[c].read)
             /\ \A k \in 1..Len(worker[c].read) : w(c).read[k] = NoRow
  <2> DEFINE n == Len(worker[c].read)
             z == none(c)
             x == w(c)
  <2>1. worker[c] \in WorkerSet /\ worker[c].read \in Seq(Nat)
    BY WorkerType
  <2>2. n \in Nat /\ z = [k \in 1..n |-> NoRow]
    BY <2>1
  <2>3. z \in Seq(Nat) /\ Len(z) = n /\ \A k \in 1..n : z[k] = NoRow
    <3> HIDE DEF z, n
    <3>1. z \in [1..n -> Nat]
      BY <2>2 DEF NoRow
    <3> QED BY <2>2, <3>1
  <2> HIDE DEF z, n
  <2>4. x = [worker[c] EXCEPT !.read = z]
    BY DEF z
  <2> HIDE DEF x
  <2>5. x \in WorkerSet /\ x.event = worker[c].event /\ x.stale = worker[c].stale /\ x.read = z
    BY <2>1, <2>3, <2>4 DEF WorkerSet
  <2> QED BY <2>3, <2>5 DEF n, x
<1> HIDE DEF w
<1>3. worker' \in [Consumers -> WorkerSet] /\ \A c \in Consumers : worker'[c] = w(c)
  BY <1>1, <1>2
<1>4. disturbed' \in 0..MaxDisturbances /\ disturbed' > 0
  <2>1. disturbed \in 0..MaxDisturbances /\ MaxDisturbances \in Nat
    BY MemoryAssumption DEF TypeInv
  <2>2. disturbed < MaxDisturbances /\ disturbed' = disturbed + 1
    BY DEF ResetData, Disturb
  <2> QED BY <2>1, <2>2
<1>5. brain' = <<>> /\ bus' = <<>>
  BY DEF ResetData
<1> QED BY <1>2, <1>3, <1>4, <1>5

LEMMA ResetTypes ==
  ASSUME TypeInv, RowInv, ResetData
  PROVE  TypeInv' /\ RowInv'
<1>1. /\ worker' \in [Consumers -> WorkerSet]
      /\ \A c \in Consumers :
           /\ worker'[c].event = worker[c].event
           /\ Len(worker'[c].read) = Len(worker[c].read)
           /\ \A k \in 1..Len(worker[c].read) : worker'[c].read[k] = NoRow
      /\ disturbed' \in 0..MaxDisturbances
  BY ResetEffect
<1>2. Sound(brain')
  BY DEF ResetData, Sound, Chained, Kept, Timed, Sure
<1>3. RowInv'
  <2>1. ASSUME NEW d \in Consumers
        PROVE  /\ Len(worker'[d].read) = Len(worker'[d].event.candidates)
               /\ \A k \in 1..Len(worker'[d].event.candidates) :
                    Refers(brain', worker'[d].read[k], worker'[d].event.candidates[k])
    BY <1>1 DEF RowInv, Refers
  <2> QED BY <1>2, <2>1 DEF RowInv
<1>4. /\ turns' \in Seq(EntrySet) /\ summaries' \in Seq(MaybeTurn) /\ brain' \in Seq(RowSet)
      /\ bus' \in Seq(EventSet) /\ era' \in Nat /\ conversation' \in BOOLEAN /\ cached' \in SnapshotSet
      /\ written' \in Seq(MaybeTurn)
  <2>1. era \in Nat /\ era' = era + 1
    BY DEF ResetData, TypeInv
  <2>2. turns' = <<>> /\ summaries' = <<>> /\ brain' = <<>> /\ bus' = <<>> /\ conversation' = FALSE
        /\ written' = <<>>
    BY DEF ResetData
  <2>3. cached' \in SnapshotSet
    BY RestIsTyped DEF ResetData
  <2>4. turns' \in Seq(EntrySet) /\ summaries' \in Seq(MaybeTurn) /\ brain' \in Seq(RowSet)
    <3>1. <<>> \in Seq(EntrySet)
      OBVIOUS
    <3>2. <<>> \in Seq(MaybeTurn)
      OBVIOUS
    <3>3. <<>> \in Seq(RowSet)
      OBVIOUS
    <3> QED BY <2>2, <3>1, <3>2, <3>3
  <2>5. bus' \in Seq(EventSet) /\ conversation' \in BOOLEAN /\ written' \in Seq(MaybeTurn)
    <3>1. <<>> \in Seq(EventSet)
      OBVIOUS
    <3>2. <<>> \in Seq(MaybeTurn)
      OBVIOUS
    <3> QED BY <2>2, <3>1, <3>2
  <2>6. era' \in Nat
    BY <2>1
  <2> QED BY <2>3, <2>4, <2>5, <2>6
<1> QED BY <1>1, <1>3, <1>4 DEF TypeInv, ResetData, turnVars

(* What matched a turn's message was active, and is within the limits.     *)
MatchInv ==
  \A t \in Turn : turn[t].stage = "sticky" => Offered(turn[t].matched, ConversationLimitOf(t))

LEMMA StillMatched ==
  ASSUME TypeInv, MatchInv,
         \A t \in Turn : turn'[t].stage = "sticky" =>
                           turn[t].stage = "sticky" /\ turn'[t].matched = turn[t].matched
                             /\ turn'[t].shift = turn[t].shift
  PROVE  MatchInv'
BY DEF MatchInv, ConversationLimitOf

-----------------------------------------------------------------------------
(* What the actions of a turn make of it                                   *)

OnlyTurn(t) == \A u \in Turn \ {t} : turn'[u] = turn[u]
SameTurn(t) == turn'[t].life = turn[t].life
SameView(t) == turn'[t].shift = turn[t].shift /\ turn'[t].missed = turn[t].missed

LEMMA OneTurn ==
  ASSUME TypeInv, NEW t \in Turn, NEW r, turn' = [turn EXCEPT ![t] = r]
  PROVE  OnlyTurn(t) /\ turn'[t] = r
BY DEF TypeInv, OnlyTurn

LEMMA TurnIsTyped ==
  ASSUME TypeInv, NEW t \in Turn
  PROVE  turn[t] \in TurnSet
BY DEF TypeInv

LEMMA BeginEffect ==
  ASSUME TypeInv, NEW t \in Turn, Begin(t)
  PROVE  OnlyTurn(t) /\ turn'[t].stage = "load" /\ turn'[t].life = life
<1>1. PICK m \in Messages, shift \in BOOLEAN :
        turn' = [turn EXCEPT ![t] = [Unborn EXCEPT !.stage = "load", !.message = m, !.shift = shift,
                                                   !.era = era, !.life = life]]
  BY DEF Begin
<1> DEFINE r == [Unborn EXCEPT !.stage = "load", !.message = m, !.shift = shift,
                               !.era = era, !.life = life]
<1>2. r.stage = "load" /\ r.life = life
  BY DEF Unborn
<1> HIDE DEF r
<1> QED BY <1>1, <1>2, OneTurn DEF r

(* What is loaded is what is hot, or the turn has missed it.               *)
LEMMA LoadEffect ==
  ASSUME TypeInv, NEW t \in Turn, LoadSnapshot(t)
  PROVE  /\ OnlyTurn(t) /\ SameTurn(t) /\ turn'[t].stage \in {"match", "fill"}
         /\ hot.recent # <<>> /\ ~turn'[t].missed =>
              turn'[t].loaded.recent = LastOf(hot.recent, ContextLimit)
<1>1. ASSUME NEW snapshot, NEW next \in {"match", "fill"}, NEW missed,
             turn' = [turn EXCEPT ![t].loaded = snapshot, ![t].stage = next, ![t].missed = missed]
      PROVE  /\ OnlyTurn(t) /\ SameTurn(t) /\ turn'[t].stage = next /\ turn'[t].loaded = snapshot
             /\ turn'[t].missed = missed
  <2> DEFINE r == [turn[t] EXCEPT !.loaded = snapshot, !.stage = next, !.missed = missed]
  <2>1. r.stage = next /\ r.loaded = snapshot /\ r.life = turn[t].life /\ r.missed = missed
    BY TurnIsTyped DEF TurnSet
  <2>2. turn' = [turn EXCEPT ![t] = r]
    BY <1>1, TurnIsTyped DEF TypeInv, TurnSet
  <2> HIDE DEF r
  <2> QED BY <2>1, <2>2, OneTurn DEF SameTurn
<1> DEFINE Loaded(snapshot, next, missed) ==
      turn' = [turn EXCEPT ![t].loaded = snapshot, ![t].stage = next, ![t].missed = missed]
           s == Snapshot(LastOf(hot.recent, ContextLimit), hot.summary)
           z == Snapshot(LastOf(turns, ContextLimit), NewestOf(summaries))
<1>2. CASE hot.recent # <<>> /\ Loaded(s, "match", FALSE)
  <2>1. s.recent = LastOf(hot.recent, ContextLimit)
    BY DEF Snapshot
  <2> HIDE DEF s
  <2> QED BY <1>1, <1>2, <2>1
<1>3. CASE \E missed \in BOOLEAN : /\ Loaded(cached, "match", missed) \/ Loaded(z, "fill", missed)
                                   /\ hot.recent # <<>> => missed
  <2> HIDE DEF z
  <2>1. PICK missed \in BOOLEAN : /\ Loaded(cached, "match", missed) \/ Loaded(z, "fill", missed)
                                  /\ hot.recent # <<>> => missed
    BY <1>3
  <2> QED BY <1>1, <2>1
<1>4. \/ hot.recent # <<>> /\ Loaded(s, "match", FALSE)
      \/ \E missed \in BOOLEAN : /\ Loaded(cached, "match", missed) \/ Loaded(z, "fill", missed)
                                 /\ hot.recent # <<>> => missed
  BY DEF LoadSnapshot
<1> QED BY <1>2, <1>3, <1>4

LEMMA FillEffect ==
  ASSUME TypeInv, NEW t \in Turn, FillCache(t)
  PROVE  /\ OnlyTurn(t) /\ SameTurn(t) /\ SameView(t)
         /\ turn'[t].stage = "match" /\ turn'[t].loaded = turn[t].loaded
<1> DEFINE r == [turn[t] EXCEPT !.stage = "match"]
<1>1. /\ r.stage = "match" /\ r.loaded = turn[t].loaded /\ r.life = turn[t].life
      /\ r.shift = turn[t].shift /\ r.missed = turn[t].missed
  BY TurnIsTyped DEF TurnSet
<1>2. turn' = [turn EXCEPT ![t] = r]
  BY TurnIsTyped DEF TypeInv, TurnSet, FillCache
<1> HIDE DEF r
<1> QED BY <1>1, <1>2, OneTurn DEF SameTurn, SameView

LEMMA GivenEffect ==
  ASSUME TypeInv, NEW t \in Turn, NEW memories, Given(t, memories)
  PROVE  /\ OnlyTurn(t) /\ SameTurn(t) /\ SameView(t)
         /\ turn'[t].stage = "reply" /\ turn'[t].given = memories
         /\ ~turn[t].shift => turn'[t].loaded = turn[t].loaded
<1> DEFINE loaded == IF turn[t].shift THEN Snapshot(<<>>, NoTurn) ELSE turn[t].loaded
           r == [turn[t] EXCEPT !.matched = <<>>, !.given = memories, !.stage = "reply", !.loaded = loaded]
<1>1. turn' = [turn EXCEPT ![t] = r]
  BY TurnIsTyped DEF TypeInv, TurnSet, Given
<1>2. ~turn[t].shift => loaded = turn[t].loaded
  OBVIOUS
<1> HIDE DEF loaded
<1>3. /\ r.stage = "reply" /\ r.given = memories /\ r.loaded = loaded
      /\ r.life = turn[t].life /\ r.shift = turn[t].shift /\ r.missed = turn[t].missed
  BY TurnIsTyped DEF TurnSet
<1> HIDE DEF r
<1> QED BY <1>1, <1>2, <1>3, OneTurn DEF SameTurn, SameView

(* The turn goes on with what matched, or without memories.                *)
LEMMA SearchEffect ==
  ASSUME TypeInv, NEW t \in Turn, SearchBrain(t)
  PROVE  /\ OnlyTurn(t) /\ SameTurn(t) /\ SameView(t)
         /\ ~turn[t].shift => turn'[t].loaded = turn[t].loaded
         /\ \/ /\ turn'[t].stage = "sticky" /\ turn'[t].loaded = turn[t].loaded
               /\ turn'[t].matched \in search_active_brain(brain, ConversationLimitOf(t))
            \/ turn'[t].stage = "reply"
<1>1. ASSUME NEW matched \in search_active_brain(brain, ConversationLimitOf(t)),
             turn' = [turn EXCEPT ![t].matched = matched, ![t].stage = "sticky"]
      PROVE  /\ OnlyTurn(t) /\ SameTurn(t) /\ SameView(t) /\ turn'[t].loaded = turn[t].loaded
             /\ turn'[t].stage = "sticky" /\ turn'[t].matched = matched
  <2> DEFINE r == [turn[t] EXCEPT !.matched = matched, !.stage = "sticky"]
  <2>1. /\ r.stage = "sticky" /\ r.matched = matched /\ r.loaded = turn[t].loaded
        /\ r.life = turn[t].life /\ r.shift = turn[t].shift /\ r.missed = turn[t].missed
    BY TurnIsTyped DEF TurnSet
  <2>2. turn' = [turn EXCEPT ![t] = r]
    BY <1>1, TurnIsTyped DEF TypeInv, TurnSet
  <2> HIDE DEF r
  <2> QED BY <2>1, <2>2, OneTurn DEF SameTurn, SameView
<1>2. CASE Given(t, <<>>)
  BY <1>2, GivenEffect
<1>3. CASE \E matched \in search_active_brain(brain, ConversationLimitOf(t)) :
             turn' = [turn EXCEPT ![t].matched = matched, ![t].stage = "sticky"]
  BY <1>1, <1>3
<1> QED BY <1>2, <1>3 DEF SearchBrain

LEMMA RecentEffect ==
  ASSUME TypeInv, NEW t \in Turn, RecentBrain(t)
  PROVE  /\ OnlyTurn(t) /\ SameTurn(t) /\ SameView(t) /\ turn'[t].stage = "reply"
         /\ ~turn[t].shift => turn'[t].loaded = turn[t].loaded
         /\ \/ turn'[t].given = <<>> /\ disturbed' > disturbed
            \/ turn'[t].given = merge_brain_memories(turn[t].matched,
                 recent_active_brain(brain, ConversationLimitOf(t)), ConversationLimitOf(t))
<1> DEFINE given == merge_brain_memories(turn[t].matched,
                      recent_active_brain(brain, ConversationLimitOf(t)), ConversationLimitOf(t))
<1>1. Given(t, given) \/ (Disturb /\ Given(t, <<>>))
  BY DEF RecentBrain
<1> HIDE DEF given
<1>2. Disturb => disturbed' > disturbed
  BY DEF Disturb, TypeInv
<1>3. CASE Given(t, given)
  BY <1>3, GivenEffect DEF given
<1>4. CASE Disturb /\ Given(t, <<>>)
  BY <1>2, <1>4, GivenEffect
<1> QED BY <1>1, <1>3, <1>4

LEMMA SettledEffect ==
  ASSUME TypeInv, NEW t \in Turn, NEW stage, Settled(t, stage)
  PROVE  OnlyTurn(t) /\ SameTurn(t) /\ turn'[t].stage = stage
<1> DEFINE r == [Unborn EXCEPT !.stage = stage, !.message = turn[t].message,
                               !.era = turn[t].era, !.life = turn[t].life]
<1>1. r.stage = stage /\ r.life = turn[t].life
  BY DEF Unborn
<1>2. turn' = [turn EXCEPT ![t] = r]
  BY DEF Settled
<1> HIDE DEF r
<1> QED BY <1>1, <1>2, OneTurn DEF SameTurn

-----------------------------------------------------------------------------
(* The first layer: types, rows, matches                                   *)

StateInv == TypeInv /\ RowInv /\ MatchInv

LEMMA StateAtInit == Init => StateInv
<1> SUFFICES ASSUME Init PROVE StateInv
  OBVIOUS
<1>1. TypeInv /\ RowInv
  BY TypesAtInit
<1>2. \A t \in Turn : turn[t].stage = "idle"
  BY DEF Init, Unborn
<1> QED BY <1>1, <1>2 DEF StateInv, MatchInv

LEMMA OtherMatches ==
  ASSUME StateInv, NEW t \in Turn, OnlyTurn(t), turn'[t].stage # "sticky"
  PROVE  MatchInv'
BY StillMatched DEF StateInv, OnlyTurn

LEMMA StateStep == StateInv /\ [Next]_vars => StateInv'
<1> SUFFICES ASSUME StateInv, [Next]_vars PROVE StateInv'
  OBVIOUS
<1>0. TypeInv /\ RowInv /\ MatchInv
  BY DEF StateInv
<1> USE <1>0
<1>t. ASSUME turn' = turn PROVE MatchInv'
  BY <1>t, StillMatched
<1>1. ASSUME NEW t \in Turn, Begin(t) PROVE StateInv'
  BY <1>1, BeginTypes, BeginEffect, OtherMatches DEF StateInv
<1>2. ASSUME NEW t \in Turn, LoadSnapshot(t) PROVE StateInv'
  BY <1>2, LoadTypes, LoadEffect, OtherMatches DEF StateInv
<1>3. ASSUME NEW t \in Turn, FillCache(t) PROVE StateInv'
  BY <1>3, FillTypes, FillEffect, OtherMatches DEF StateInv
<1>4. ASSUME NEW t \in Turn, SearchBrain(t) PROVE StateInv'
  <2>1. OnlyTurn(t) /\ SameView(t)
    BY <1>4, SearchEffect
  <2>2. ASSUME turn'[t].stage = "sticky" PROVE MatchInv'
    <3>1. turn'[t].matched \in search_active_brain(brain, ConversationLimitOf(t))
      BY <1>4, <2>2, SearchEffect
    <3>2. Offered(turn'[t].matched, ConversationLimitOf(t))
      BY <3>1, SearchIsOffered DEF TypeInv, RowInv, Sound
    <3>3. ConversationLimitOf(t)' = ConversationLimitOf(t)
      BY <2>1 DEF ConversationLimitOf, SameView
    <3>4. ASSUME NEW u \in Turn, turn'[u].stage = "sticky"
          PROVE  Offered(turn[u].matched, ConversationLimitOf(u))'
      <4>1. CASE u = t
        BY <4>1, <3>2, <3>3
      <4>2. CASE u # t
        <5>1. turn'[u] = turn[u]
          BY <4>2, <2>1 DEF OnlyTurn
        <5> QED BY <5>1, <3>4 DEF MatchInv, ConversationLimitOf
      <4> QED BY <4>1, <4>2
    <3> QED BY <3>4 DEF MatchInv
  <2>3. ASSUME turn'[t].stage # "sticky" PROVE MatchInv'
    BY <2>1, <2>3, OtherMatches DEF StateInv
  <2>4. MatchInv'
    BY <2>2, <2>3
  <2> QED BY <2>4, <1>4, SearchTypes DEF StateInv
<1>5. ASSUME NEW t \in Turn, RecentBrain(t) PROVE StateInv'
  <2>1. Proffered(turn[t].matched)
    BY <1>5 DEF RecentBrain, MatchInv, Offered
  <2> QED BY <1>5, <2>1, RecentTypes, RecentEffect, OtherMatches DEF StateInv
<1>6. ASSUME NEW t \in Turn, Reply(t) PROVE StateInv'
  <2>1. OnlyTurn(t) /\ turn'[t].stage = "done"
    BY <1>6, SettledEffect DEF Reply
  <2>2. MatchInv'
    BY <2>1, OtherMatches DEF StateInv
  <2> QED BY <1>6, <2>2, ReplyTypes DEF StateInv
<1>7. ASSUME NEW t \in Turn, Abort(t) PROVE StateInv'
  BY <1>7, AbortTypes, SettledEffect, OtherMatches DEF StateInv, Abort
<1>8. ASSUME NEW t \in Turn, StoreUserTurn(t) PROVE StateInv'
  BY <1>8, <1>t, StoreUserTypes DEF StateInv, StoreUserTurn
<1>9. ASSUME NEW t \in Turn, StoreAssistantTurn(t) PROVE StateInv'
  BY <1>9, <1>t, StoreAssistantTypes DEF StateInv, StoreAssistantTurn
<1>10. ASSUME NEW t \in Turn, CountTurns(t) PROVE StateInv'
  BY <1>10, <1>t, CountTypes DEF StateInv, CountTurns
<1>11. ASSUME NEW t \in Turn, Summarize(t) PROVE StateInv'
  BY <1>11, <1>t, SummarizeTypes DEF StateInv, Summarize
<1>12. ASSUME NEW t \in Turn, QueueSummary(t) PROVE StateInv'
  BY <1>12, <1>t, QueueSummaryTypes DEF StateInv, QueueSummary
<1>13. ASSUME NEW t \in Turn, QueueBrain(t) PROVE StateInv'
  BY <1>13, <1>t, QueueBrainTypes DEF StateInv, QueueBrain
<1>14. ASSUME NEW c \in Consumers, Take(c) PROVE StateInv'
  BY <1>14, <1>t, TakeTypes DEF StateInv, Take, turnVars
<1>c. ASSUME NEW c \in Consumers, Claim(c) PROVE StateInv'
  BY <1>c, <1>t, ClaimTypes DEF StateInv, Claim, turnVars
<1>15. ASSUME NEW c \in Consumers, WriteSummary(c) PROVE StateInv'
  BY <1>15, <1>t, WriteSummaryTypes DEF StateInv, WriteSummary, turnVars
<1>16. ASSUME NEW c \in Consumers, WriteBrain(c) PROVE StateInv'
  BY <1>16, <1>t, WriteBrainTypes DEF StateInv, WriteBrain, turnVars
<1>17. ASSUME NEW c \in Consumers, HandlerFails(c) PROVE StateInv'
  BY <1>17, <1>t, HandlerFailsTypes DEF StateInv, HandlerFails, turnVars
<1>18. ASSUME Expire PROVE StateInv'
  BY <1>18, <1>t, ExpireTypes DEF StateInv, Expire, turnVars
<1>19. ASSUME Restart PROVE StateInv'
  <2>1. \A t \in Turn : turn'[t].stage = "lost" \/ turn'[t] = turn[t]
    BY <1>19, RestartEffect
  <2>2. MatchInv'
    BY <2>1, StillMatched
  <2> QED BY <1>19, <2>2, RestartTypes DEF StateInv
<1>20. ASSUME ResetData PROVE StateInv'
  BY <1>20, <1>t, ResetTypes DEF StateInv, ResetData, turnVars
<1>21. ASSUME UNCHANGED vars PROVE StateInv'
  <2>1. RowInv'
    BY <1>21, RowsStay DEF vars, RowVars, tableVars, busVars
  <2>2. MatchInv'
    BY <1>21, <1>t DEF vars, turnVars
  <2>3. TypeInv'
    BY <1>21 DEF TypeInv, vars, worldVars, turnVars, tableVars, busVars
  <2> QED BY <2>1, <2>2, <2>3 DEF StateInv
<1> QED BY <1>1, <1>2, <1>3, <1>4, <1>5, <1>6, <1>7, <1>8, <1>9, <1>10, <1>11, <1>12, <1>13,
           <1>14, <1>c, <1>15, <1>16, <1>17, <1>18, <1>19, <1>20, <1>21 DEF Next, Over

(* In every state each variable has its type, the table of memories is     *)
(* sound, the rows a consumer has read are about its candidates, and what  *)
(* matched a message is active and within the limits.                      *)
THEOREM StateIsTyped == Spec => []StateInv
BY StateAtInit, StateStep, PTL DEF Spec

LEMMA OnlyRecentReplies ==
  ASSUME StateInv, [Next]_vars, NEW t \in Turn, turn[t].stage = "sticky", turn'[t].stage = "reply"
  PROVE  RecentBrain(t)
<1>1. TypeInv
  BY DEF StateInv
<1>2. ASSUME turn' = turn PROVE FALSE
  BY <1>2
<1>3. ASSUME NEW u \in Turn, OnlyTurn(u), u # t PROVE FALSE
  BY <1>3 DEF OnlyTurn
<1>4. ASSUME NEW u \in Turn, Begin(u) PROVE FALSE
  BY <1>1, <1>3, <1>4, BeginEffect
<1>5. ASSUME NEW u \in Turn, LoadSnapshot(u) PROVE FALSE
  BY <1>1, <1>3, <1>5, LoadEffect
<1>6. ASSUME NEW u \in Turn, FillCache(u) PROVE FALSE
  BY <1>1, <1>3, <1>6, FillEffect
<1>7. ASSUME NEW u \in Turn, SearchBrain(u) PROVE FALSE
  BY <1>1, <1>3, <1>7, SearchEffect DEF SearchBrain
<1>8. ASSUME NEW u \in Turn, RecentBrain(u) PROVE u = t
  BY <1>1, <1>3, <1>8, RecentEffect
<1>9. ASSUME NEW u \in Turn, Reply(u) PROVE FALSE
  <2>1. OnlyTurn(u) /\ turn'[u].stage = "done"
    BY <1>1, <1>9, SettledEffect DEF Reply
  <2> QED BY <1>3, <2>1
<1>10. ASSUME NEW u \in Turn, Abort(u) PROVE FALSE
  <2>1. OnlyTurn(u) /\ turn'[u].stage \in {"aborted", "lost"}
    BY <1>1, <1>10, SettledEffect DEF Abort
  <2> QED BY <1>3, <2>1
<1>11. ASSUME Restart PROVE FALSE
  BY <1>1, <1>11, RestartEffect
<1>12. ASSUME NEW u \in Turn,
              \/ StoreUserTurn(u) \/ StoreAssistantTurn(u) \/ CountTurns(u)
              \/ Summarize(u) \/ QueueSummary(u) \/ QueueBrain(u)
       PROVE  FALSE
  BY <1>2, <1>12 DEF StoreUserTurn, StoreAssistantTurn, CountTurns, Summarize, QueueSummary, QueueBrain
<1>13. ASSUME NEW c \in Consumers,
              Claim(c) \/ Take(c) \/ WriteSummary(c) \/ WriteBrain(c) \/ HandlerFails(c)
       PROVE  FALSE
  BY <1>2, <1>13 DEF Claim, Take, WriteSummary, WriteBrain, HandlerFails, turnVars
<1>14. ASSUME Expire \/ ResetData \/ UNCHANGED vars PROVE FALSE
  BY <1>2, <1>14 DEF Expire, ResetData, vars, turnVars
<1> QED BY <1>4, <1>5, <1>6, <1>7, <1>8, <1>9, <1>10, <1>11, <1>12, <1>13, <1>14 DEF Next, Over

(* No turn is given a memory that is not active, one of the conversation   *)
(* it has left, or more than the limits; and none of the last is missing   *)
(* but for a limit that is reached (brain_memory.rs:51), unless the query  *)
(* failed and the turn is given none at all (context.rs:97).               *)
THEOREM GivenMemoriesAreSound == Spec => RetrievalIsSound
<1> DEFINE Good == \A t \in Turn : turn[t].stage = "sticky" /\ turn'[t].stage = "reply" =>
       LET given == turn'[t].given
           limit(scope) == LimitOf(scope, ConversationLimitOf(t))
       IN  /\ \A k \in DOMAIN given : given[k].row.status = "active"
           /\ Cardinality(Ids(given)) = Len(given)
           /\ \A scope \in {"user", "conversation"} : CountOf(given, scope) <= limit(scope)
           /\ \/ given = <<>> /\ disturbed' > disturbed
              \/ \A item \in Range(recent_active_brain(brain, ConversationLimitOf(t))) :
                   \/ item.id \in Ids(given)
                   \/ CountOf(given, item.row.scope) = limit(item.row.scope)
<1>1. StateInv /\ [Next]_vars => Good
  <2> SUFFICES ASSUME StateInv, [Next]_vars, NEW t \in Turn,
                      turn[t].stage = "sticky", turn'[t].stage = "reply"
               PROVE  LET given == turn'[t].given
                          limit(scope) == LimitOf(scope, ConversationLimitOf(t))
                      IN  /\ \A k \in DOMAIN given : given[k].row.status = "active"
                          /\ Cardinality(Ids(given)) = Len(given)
                          /\ \A scope \in {"user", "conversation"} : CountOf(given, scope) <= limit(scope)
                          /\ \/ given = <<>> /\ disturbed' > disturbed
                             \/ \A item \in Range(recent_active_brain(brain, ConversationLimitOf(t))) :
                                  \/ item.id \in Ids(given)
                                  \/ CountOf(given, item.row.scope) = limit(item.row.scope)
    OBVIOUS
  <2>0. TypeInv /\ RowInv /\ MatchInv
    BY DEF StateInv
  <2>1. RecentBrain(t)
    BY OnlyRecentReplies
  <2> DEFINE limit == ConversationLimitOf(t)
             sticky == recent_active_brain(brain, limit)
             given == merge_brain_memories(turn[t].matched, sticky, limit)
  <2>2. turn'[t].given = given \/ (turn'[t].given = <<>> /\ disturbed' > disturbed)
    BY <2>0, <2>1, RecentEffect
  <2>3. Proffered(sticky) /\ Proffered(turn[t].matched) /\ limit \in Nat
    BY <2>0, RecentIsProffered, LimitType DEF TypeInv, RowInv, Sound, MatchInv, Offered
  <2> HIDE DEF limit, sticky
  <2>4. CASE turn'[t].given = <<>> /\ disturbed' > disturbed
    <3> DEFINE none == turn'[t].given
    <3>1. none = <<>> /\ Len(<<>>) = 0 /\ DOMAIN <<>> = {}
      BY <2>4
    <3> HIDE DEF none
    <3>2. Ids(none) = {} /\ \A scope : {k \in DOMAIN none : none[k].row.scope = scope} = {}
      BY <3>1 DEF Ids
    <3>3. Cardinality({}) = 0
      BY FS_EmptySet
    <3>4. \A scope : CountOf(none, scope) = 0
      BY <3>2, <3>3 DEF CountOf
    <3>5. \A scope : LimitOf(scope, limit) \in Nat
      BY <2>3, BrainAssumption DEF LimitOf
    <3>6. \A scope : CountOf(none, scope) <= LimitOf(scope, limit)
      BY <3>4, <3>5
    <3>7. \A k \in DOMAIN none : none[k].row.status = "active"
      BY <3>1
    <3>8. Cardinality(Ids(none)) = Len(none)
      BY <3>1, <3>2, <3>3
    <3> QED BY <2>4, <3>6, <3>7, <3>8 DEF limit, none
  <2>5. CASE turn'[t].given = given
    <3>4. Offered(given, limit) /\ \A k \in 1..Len(sticky) : There(given, sticky[k], limit)
      BY <2>3, MergeIsOffered
    <3> HIDE DEF given
    <3>5. given \in Seq(ItemSet) /\ DOMAIN given = 1..Len(given) /\ Len(given) \in Nat
          /\ sticky \in Seq(ItemSet) /\ DOMAIN sticky = 1..Len(sticky)
      BY <2>3, <3>4 DEF Offered, Proffered
    <3>6. Cardinality(Ids(given)) = Len(given)
      <4> DEFINE f == [k \in 1..Len(given) |-> given[k].id]
      <4>1. f \in Surjection(1..Len(given), Ids(given))
        BY <3>5 DEF Surjection, Ids
      <4>2. f \in Injection(1..Len(given), Ids(given))
        BY <3>4, <4>1 DEF Injection, IsInjective, Surjection, Offered
      <4> HIDE DEF f
      <4>3. IsFiniteSet(1..Len(given)) /\ Cardinality(1..Len(given)) = Len(given)
        <5>1. ASSUME NEW n \in Nat PROVE IsFiniteSet(1..n) /\ Cardinality(1..n) = n
          BY FS_Interval
        <5> QED BY <3>5, <5>1
      <4> QED BY <4>1, <4>2, <4>3, FS_Surjection
    <3>7. \A item \in Range(sticky) : \/ item.id \in Ids(given)
                                      \/ CountOf(given, item.row.scope) = LimitOf(item.row.scope, limit)
      BY <3>4, <3>5 DEF Range, There
    <3>8. \A k \in DOMAIN given : given[k].row.status = "active"
      BY <3>4, <3>5 DEF Offered, Proffered
    <3>9. \A scope \in {"user", "conversation"} : CountOf(given, scope) <= LimitOf(scope, limit)
      BY <3>4 DEF Offered, ScopeName
    <3> QED BY <2>5, <3>6, <3>7, <3>8, <3>9 DEF limit, sticky
  <2> QED BY <2>2, <2>4, <2>5
<1>2. Spec => []StateInv
  BY StateIsTyped
<1>3. [][Good]_vars <=> RetrievalIsSound
  BY DEF RetrievalIsSound
<1> HIDE DEF Good
<1>4. Spec => [][Good]_vars
  BY <1>1, <1>2, PTL DEF Spec
<1> QED BY <1>3, <1>4, PTL

-----------------------------------------------------------------------------
(* What the actions of a finalizer make of it                              *)

OnlyFinalizer(t) == \A u \in Turn \ {t} : finalizer'[u] = finalizer[u]

LEMMA OneFinalizer ==
  ASSUME TypeInv, NEW t \in Turn, NEW r, finalizer' = [finalizer EXCEPT ![t] = r]
  PROVE  OnlyFinalizer(t) /\ finalizer'[t] = r
BY DEF TypeInv, OnlyFinalizer

LEMMA FinalizerIsTyped ==
  ASSUME TypeInv, NEW t \in Turn
  PROVE  finalizer[t] \in FinalizerSet
BY DEF TypeInv

LEMMA StepOnly ==
  ASSUME TypeInv, NEW t \in Turn, NEW step, finalizer' = [finalizer EXCEPT ![t].step = step]
  PROVE  /\ OnlyFinalizer(t) /\ finalizer'[t].step = step
         /\ finalizer'[t].captured = finalizer[t].captured
<1> DEFINE r == [finalizer[t] EXCEPT !.step = step]
<1>1. r.step = step /\ r.captured = finalizer[t].captured
  BY FinalizerIsTyped DEF FinalizerSet
<1>2. finalizer' = [finalizer EXCEPT ![t] = r]
  BY FinalizerIsTyped DEF TypeInv, FinalizerSet
<1> HIDE DEF r
<1> QED BY <1>1, <1>2, OneFinalizer

LEMMA StepAndRow ==
  ASSUME TypeInv, NEW t \in Turn, NEW step, NEW row,
         finalizer' = [finalizer EXCEPT ![t].step = step, ![t].row = row]
  PROVE  /\ OnlyFinalizer(t) /\ finalizer'[t].step = step
         /\ finalizer'[t].captured = finalizer[t].captured
<1> DEFINE r == [finalizer[t] EXCEPT !.step = step, !.row = row]
<1>1. r.step = step /\ r.captured = finalizer[t].captured
  BY FinalizerIsTyped DEF FinalizerSet
<1>2. finalizer' = [finalizer EXCEPT ![t] = r]
  BY FinalizerIsTyped DEF TypeInv, FinalizerSet
<1> HIDE DEF r
<1> QED BY <1>1, <1>2, OneFinalizer

LEMMA StoreUserEffect ==
  ASSUME TypeInv, NEW t \in Turn, StoreUserTurn(t)
  PROVE  /\ OnlyFinalizer(t) /\ finalizer'[t].step = "assistant"
         /\ finalizer'[t].captured = finalizer[t].captured
<1>1. CASE finalizer' = [finalizer EXCEPT ![t].step = "assistant", ![t].row = Len(turns')]
  <2> DEFINE row == Len(turns')
  <2>1. finalizer' = [finalizer EXCEPT ![t].step = "assistant", ![t].row = row]
    BY <1>1
  <2> HIDE DEF row
  <2> QED BY <2>1, StepAndRow
<1>2. CASE finalizer' = [finalizer EXCEPT ![t].step = "assistant"]
  BY <1>2, StepOnly
<1> QED BY <1>1, <1>2 DEF StoreUserTurn

LEMMA StoreAssistantEffect ==
  ASSUME TypeInv, NEW t \in Turn, StoreAssistantTurn(t)
  PROVE  /\ OnlyFinalizer(t) /\ finalizer'[t].step = "count"
         /\ finalizer'[t].captured = finalizer[t].captured
<1> DEFINE row == IF finalizer[t].row = NoRow THEN Len(turns') ELSE finalizer[t].row
           r == [finalizer[t] EXCEPT !.step = "count", !.row = row]
<1>1. CASE finalizer' = [finalizer EXCEPT ![t].step = "count",
                                         ![t].row = IF @ = NoRow THEN Len(turns') ELSE @]
  <2>1. finalizer' = [finalizer EXCEPT ![t] = r]
    BY <1>1, FinalizerIsTyped DEF TypeInv, FinalizerSet
  <2> HIDE DEF row
  <2>2. r.step = "count" /\ r.captured = finalizer[t].captured
    BY FinalizerIsTyped DEF FinalizerSet
  <2> HIDE DEF r
  <2> QED BY <2>1, <2>2, OneFinalizer
<1>2. CASE finalizer' = [finalizer EXCEPT ![t].step = "count"]
  BY <1>2, StepOnly
<1> QED BY <1>1, <1>2 DEF StoreAssistantTurn

LEMMA CountEffect ==
  ASSUME TypeInv, NEW t \in Turn, CountTurns(t)
  PROVE  /\ OnlyFinalizer(t) /\ finalizer'[t].step \in {"summarize", "brain"}
         /\ finalizer'[t].captured = finalizer[t].captured
<1>1. \E step \in {"summarize", "brain"} : finalizer' = [finalizer EXCEPT ![t].step = step]
  BY DEF CountTurns
<1> QED BY <1>1, StepOnly

LEMMA SummarizeEffect ==
  ASSUME TypeInv, NEW t \in Turn, Summarize(t)
  PROVE  /\ OnlyFinalizer(t) /\ finalizer'[t].step \in {"panicked", "queue", "brain"}
         /\ finalizer'[t].captured = finalizer[t].captured
<1> DEFINE step == IF Panics(Recent) THEN "panicked" ELSE "queue"
           summary == IF Recent = <<>> THEN NoTurn ELSE Recent[Len(Recent)].of
           r == [finalizer[t] EXCEPT !.step = step, !.summary = summary]
<1>1. CASE finalizer' = [finalizer EXCEPT ![t].step = step, ![t].summary = summary]
  <2>1. finalizer' = [finalizer EXCEPT ![t] = r]
    BY <1>1, FinalizerIsTyped DEF TypeInv, FinalizerSet
  <2>2. step \in {"panicked", "queue", "brain"}
    OBVIOUS
  <2> HIDE DEF step, summary
  <2>3. r.step = step /\ r.captured = finalizer[t].captured
    BY FinalizerIsTyped DEF FinalizerSet
  <2> HIDE DEF r
  <2> QED BY <2>1, <2>2, <2>3, OneFinalizer
<1>2. CASE finalizer' = [finalizer EXCEPT ![t].step = "brain"]
  BY <1>2, StepOnly
<1> QED BY <1>1, <1>2 DEF Summarize

LEMMA QueueSummaryEffect ==
  ASSUME TypeInv, NEW t \in Turn, QueueSummary(t)
  PROVE  /\ OnlyFinalizer(t) /\ finalizer'[t].step = "brain"
         /\ finalizer'[t].captured = finalizer[t].captured
BY StepOnly DEF QueueSummary

LEMMA QueueBrainEffect ==
  ASSUME TypeInv, NEW t \in Turn, QueueBrain(t)
  PROVE  /\ OnlyFinalizer(t) /\ finalizer'[t].step = "done"
         /\ \/ finalizer'[t].captured = finalizer[t].captured /\ bus' = bus
            \/ \E e \in EventSet :
                 /\ e.kind = "brain" /\ e.of = t /\ e.candidates = finalizer'[t].captured
                 /\ bus' = Append(bus, e)
<1>1. PICK learned \in BOOLEAN : QueueBrain(t)!2!(learned)
  BY DEF QueueBrain
<1> DEFINE candidates == capture_brain(turn[t].message, learned, Contents(LastOf(Recent, 8)))
           r == [finalizer[t] EXCEPT !.step = "done", !.captured = candidates]
           e == [AtRest EXCEPT !.kind = "brain", !.of = t, !.candidates = candidates,
                               !.row = finalizer[t].row]
<1>2. finalizer[t] \in FinalizerSet /\ finalizer[t].row \in Nat
  BY FinalizerIsTyped DEF FinalizerSet
<1>3. candidates \in Proposals
  <2>1. turn[t].message \in Messages
    BY DEF TypeInv, TurnSet
  <2> QED BY <2>1, CaptureIsKeyed DEF Keyed, Proposals
<1>4. \/ finalizer' = [finalizer EXCEPT ![t].step = "done"] /\ bus' = bus
      \/ finalizer' = [finalizer EXCEPT ![t].step = "done", ![t].captured = candidates] /\ Queue(e)
  BY <1>1
<1> HIDE DEF candidates
<1>5. CASE finalizer' = [finalizer EXCEPT ![t].step = "done"] /\ bus' = bus
  BY <1>5, StepOnly
<1>6. CASE finalizer' = [finalizer EXCEPT ![t].step = "done", ![t].captured = candidates] /\ Queue(e)
  <2>1. finalizer' = [finalizer EXCEPT ![t] = r]
    BY <1>6, <1>2 DEF TypeInv, FinalizerSet
  <2>2. r.step = "done" /\ r.captured = candidates
    BY <1>2 DEF FinalizerSet
  <2>3. e \in EventSet /\ e.kind = "brain" /\ e.of = t /\ e.candidates = candidates
    BY <1>2, <1>3, RestIsTyped DEF EventSet, MaybeTurn
  <2> HIDE DEF r, e
  <2>4. OnlyFinalizer(t) /\ finalizer'[t].step = "done" /\ finalizer'[t].captured = candidates
    BY <2>1, <2>2, OneFinalizer
  <2>5. bus' = Append(bus, e)
    BY <1>6 DEF Queue
  <2> QED BY <2>3, <2>4, <2>5
<1> QED BY <1>4, <1>5, <1>6

LEMMA ReplyFinalizer ==
  ASSUME TypeInv, NEW t \in Turn, Reply(t)
  PROVE  /\ OnlyFinalizer(t) /\ finalizer'[t].step = "user"
         /\ finalizer'[t].captured = finalizer[t].captured
BY StepOnly DEF Reply

(* What the steps of a finalizer leave alone.                              *)
FinalizerStep(t) == \/ StoreUserTurn(t) \/ StoreAssistantTurn(t) \/ CountTurns(t)
                    \/ Summarize(t) \/ QueueSummary(t) \/ QueueBrain(t)

LEMMA FinalizerMoves ==
  ASSUME TypeInv, NEW t \in Turn, FinalizerStep(t)
  PROVE  /\ OnlyFinalizer(t) /\ finalizer[t].step # "none" /\ finalizer'[t].step # "none"
         /\ turn' = turn /\ life' = life /\ hot' = hot /\ conversation' = conversation
<1>1. CASE StoreUserTurn(t)
  BY <1>1, StoreUserEffect DEF StoreUserTurn, worldVars
<1>2. CASE StoreAssistantTurn(t)
  BY <1>2, StoreAssistantEffect DEF StoreAssistantTurn, worldVars
<1>3. CASE CountTurns(t)
  BY <1>3, CountEffect DEF CountTurns, worldVars
<1>4. CASE Summarize(t)
  BY <1>4, SummarizeEffect DEF Summarize, worldVars
<1>5. CASE QueueSummary(t)
  BY <1>5, QueueSummaryEffect DEF QueueSummary, worldVars
<1>6. CASE QueueBrain(t)
  <2>1. OnlyFinalizer(t) /\ finalizer'[t].step = "done"
    BY <1>6, QueueBrainEffect
  <2> QED BY <1>6, <2>1 DEF QueueBrain, worldVars
<1> QED BY <1>1, <1>2, <1>3, <1>4, <1>5, <1>6 DEF FinalizerStep

(* What the steps of a consumer leave alone.                               *)
ConsumerStep(c) == Claim(c) \/ Take(c) \/ WriteSummary(c) \/ WriteBrain(c) \/ HandlerFails(c)

LEMMA ConsumerMoves ==
  ASSUME TypeInv, NEW c \in Consumers, ConsumerStep(c)
  PROVE  /\ turn' = turn /\ finalizer' = finalizer /\ life' = life /\ conversation' = conversation
         /\ hot'.recent = hot.recent /\ turns' = turns
<1>1. CASE Take(c)
  <2>1. hot' = hot \/ \E s : hot' = [hot EXCEPT !.summary = s]
    BY <1>1 DEF Take, publish_hot_summary
  <2>2. hot'.recent = hot.recent
    <3>1. ASSUME NEW s, hot' = [hot EXCEPT !.summary = s] PROVE hot'.recent = hot.recent
      BY <3>1 DEF TypeInv
    <3> QED BY <2>1, <3>1
  <2> QED BY <1>1, <2>2 DEF Take, worldVars, turnVars, tableVars
<1>2. CASE WriteSummary(c)
  BY <1>2 DEF WriteSummary, worldVars, turnVars
<1>3. CASE WriteBrain(c)
  BY <1>3 DEF WriteBrain, worldVars, turnVars
<1>4. CASE HandlerFails(c)
  BY <1>4 DEF HandlerFails, worldVars, turnVars, tableVars
<1>5. CASE Claim(c)
  BY <1>5 DEF Claim, worldVars, turnVars, tableVars
<1> QED BY <1>1, <1>2, <1>3, <1>4, <1>5 DEF ConsumerStep

(* The steps, by who takes them.                                           *)
TurnStep(t) == \/ LoadSnapshot(t) \/ FillCache(t) \/ SearchBrain(t) \/ RecentBrain(t)

LEMMA StepsOfNext ==
  ASSUME [Next]_vars
  PROVE  \/ \E t \in Turn : Begin(t) \/ TurnStep(t) \/ Reply(t) \/ Abort(t) \/ FinalizerStep(t)
         \/ \E c \in Consumers : ConsumerStep(c)
         \/ Expire \/ Restart \/ ResetData \/ UNCHANGED vars
BY DEF Next, Over, TurnStep, FinalizerStep, ConsumerStep

-----------------------------------------------------------------------------
(* The second layer: one turn at a time, which sees what was said before   *)

(* One turn at a time, in this life; a finalizer for each that was         *)
(* answered.                                                               *)
InOrder == \A t, u \in Turn : u < t /\ turn[t].stage # "idle" => turn[u].stage \notin InTurn \cup {"idle"}
InThisLife == \A t \in Turn : /\ turn[t].life <= life
                              /\ turn[t].stage \in InTurn => turn[t].life = life
Spawned == \A t \in Turn : finalizer[t].step # "none" <=> turn[t].stage = "done"
GateInv == InOrder /\ InThisLife /\ Spawned

LEMMA OneInTurn ==
  ASSUME GateInv, NEW t \in Turn, NEW u \in Turn, turn[t].stage \in InTurn, turn[u].stage \in InTurn
  PROVE  t = u
<1>1. ~(t < u) /\ ~(u < t)
  BY DEF GateInv, InOrder, InTurn
<1> QED BY <1>1, MemoryAssumption DEF Turn

(* A turn under way goes on or ends; no other is begun.                    *)
LEMMA OrderIsKept ==
  ASSUME TypeInv, GateInv, NEW t \in Turn, OnlyTurn(t), turn[t].stage \in InTurn,
         turn'[t].stage # "idle"
  PROVE  InOrder'
<1> SUFFICES ASSUME NEW v \in Turn, NEW u \in Turn, u < v, turn'[v].stage # "idle"
             PROVE  turn'[u].stage \notin InTurn \cup {"idle"}
  BY DEF InOrder
<1>1. turn[v].stage # "idle"
  BY DEF OnlyTurn, InTurn
<1>2. turn[u].stage \notin InTurn \cup {"idle"}
  BY <1>1 DEF GateInv, InOrder
<1>3. u # t
  BY <1>2
<1> QED BY <1>2, <1>3 DEF OnlyTurn

LEMMA LifeIsKept ==
  ASSUME TypeInv, GateInv, NEW t \in Turn, OnlyTurn(t), SameTurn(t), turn[t].stage \in InTurn,
         life' = life
  PROVE  InThisLife'
BY DEF GateInv, InThisLife, OnlyTurn, SameTurn

LEMMA GateMoves ==
  ASSUME TypeInv, GateInv, NEW t \in Turn, OnlyTurn(t), SameTurn(t), turn[t].stage \in InTurn,
         turn'[t].stage \notin {"idle", "done"}, life' = life, finalizer' = finalizer
  PROVE  GateInv'
<1>1. InOrder' /\ InThisLife'
  BY OrderIsKept, LifeIsKept
<1>2. Spawned'
  BY DEF Spawned, GateInv, OnlyTurn, InTurn
<1> QED BY <1>1, <1>2 DEF GateInv

LEMMA GateStays ==
  ASSUME TypeInv, GateInv, turn' = turn, life' = life,
         \A u \in Turn : finalizer'[u].step = "none" <=> finalizer[u].step = "none"
  PROVE  GateInv'
BY DEF GateInv, InOrder, InThisLife, Spawned

LEMMA TurnStepMoves ==
  ASSUME TypeInv, NEW t \in Turn, TurnStep(t)
  PROVE  /\ OnlyTurn(t) /\ SameTurn(t) /\ turn[t].stage \in InTurn /\ turn'[t].stage \in InTurn
         /\ life' = life /\ finalizer' = finalizer /\ hot' = hot
<1>1. CASE LoadSnapshot(t)
  BY <1>1, LoadEffect DEF LoadSnapshot, InTurn, worldVars
<1>2. CASE FillCache(t)
  BY <1>2, FillEffect DEF FillCache, InTurn, worldVars
<1>3. CASE SearchBrain(t)
  BY <1>3, SearchEffect DEF SearchBrain, InTurn, worldVars
<1>4. CASE RecentBrain(t)
  BY <1>4, RecentEffect DEF RecentBrain, InTurn, worldVars
<1> QED BY <1>1, <1>2, <1>3, <1>4 DEF TurnStep

LEMMA AbortMoves ==
  ASSUME TypeInv, NEW t \in Turn, Abort(t)
  PROVE  /\ OnlyTurn(t) /\ SameTurn(t) /\ turn[t].stage \in InTurn
         /\ turn'[t].stage \in {"aborted", "lost"}
         /\ life' = life /\ finalizer' = finalizer /\ hot' = hot
<1>1. Settled(t, "aborted") \/ Settled(t, "lost")
  BY DEF Abort
<1> QED BY <1>1, SettledEffect DEF Abort, worldVars

LEMMA ReplyMoves ==
  ASSUME TypeInv, NEW t \in Turn, Reply(t)
  PROVE  /\ OnlyTurn(t) /\ SameTurn(t) /\ turn[t].stage = "reply" /\ turn'[t].stage = "done"
         /\ life' = life /\ OnlyFinalizer(t) /\ finalizer'[t].step = "user"
<1>1. Settled(t, "done")
  BY DEF Reply
<1> QED BY <1>1, SettledEffect, ReplyFinalizer DEF Reply, worldVars

LEMMA GateStep ==
  ASSUME StateInv, GateInv, [Next]_vars
  PROVE  GateInv'
<1>0. TypeInv
  BY DEF StateInv
<1> USE <1>0
<1>1. ASSUME NEW t \in Turn, Begin(t) PROVE GateInv'
  <2>1. OnlyTurn(t) /\ turn'[t].stage = "load" /\ turn'[t].life = life
    BY <1>1, BeginEffect
  <2>2. /\ turn[t].stage = "idle" /\ finalizer' = finalizer /\ life' = life
        /\ \A u \in Turn : u < t => turn[u].stage \notin InTurn \cup {"idle"}
    BY <1>1 DEF Begin
  <2>3. InOrder'
    <3> SUFFICES ASSUME NEW v \in Turn, NEW u \in Turn, u < v, turn'[v].stage # "idle"
                 PROVE  turn'[u].stage \notin InTurn \cup {"idle"}
      BY DEF InOrder
    <3>1. CASE v = t
      BY <3>1, <2>1, <2>2, MemoryAssumption DEF OnlyTurn, Turn
    <3>2. CASE v # t
      <4>1. turn[u].stage \notin InTurn \cup {"idle"}
        BY <3>2, <2>1 DEF OnlyTurn, GateInv, InOrder
      <4>2. u # t
        BY <4>1, <2>2
      <4> QED BY <4>1, <4>2, <2>1 DEF OnlyTurn
    <3> QED BY <3>1, <3>2
  <2>4. InThisLife'
    <3>1. life \in Nat
      BY DEF TypeInv
    <3> QED BY <3>1, <2>1, <2>2 DEF InThisLife, GateInv, OnlyTurn
  <2>5. Spawned'
    BY <2>1, <2>2 DEF Spawned, GateInv, OnlyTurn
  <2> QED BY <2>3, <2>4, <2>5 DEF GateInv
<1>2. ASSUME NEW t \in Turn, TurnStep(t) PROVE GateInv'
  BY <1>2, TurnStepMoves, GateMoves DEF InTurn
<1>3. ASSUME NEW t \in Turn, Reply(t) PROVE GateInv'
  <2>1. /\ OnlyTurn(t) /\ SameTurn(t) /\ turn[t].stage = "reply" /\ turn'[t].stage = "done"
        /\ life' = life /\ OnlyFinalizer(t) /\ finalizer'[t].step = "user"
    BY <1>3, ReplyMoves
  <2>2. InOrder' /\ InThisLife'
    BY <2>1, OrderIsKept, LifeIsKept DEF InTurn
  <2>3. Spawned'
    BY <2>1 DEF Spawned, GateInv, OnlyTurn, OnlyFinalizer
  <2> QED BY <2>2, <2>3 DEF GateInv
<1>4. ASSUME NEW t \in Turn, Abort(t) PROVE GateInv'
  BY <1>4, AbortMoves, GateMoves
<1>5. ASSUME NEW t \in Turn, FinalizerStep(t) PROVE GateInv'
  BY <1>5, FinalizerMoves, GateStays DEF OnlyFinalizer
<1>6. ASSUME NEW c \in Consumers, ConsumerStep(c) PROVE GateInv'
  BY <1>6, ConsumerMoves, GateStays
<1>7. ASSUME Expire \/ ResetData \/ UNCHANGED vars PROVE GateInv'
  BY <1>7, GateStays DEF Expire, ResetData, vars, turnVars, worldVars
<1>8. ASSUME Restart PROVE GateInv'
  <2>1. /\ life' = life + 1
        /\ \A t \in Turn :
              /\ turn[t].stage \in InTurn => turn'[t].stage = "lost" /\ turn'[t].life = 0
              /\ turn[t].stage \notin InTurn => turn'[t] = turn[t]
              /\ finalizer[t].step \in {"none", "done", "panicked"} => finalizer'[t] = finalizer[t]
              /\ finalizer[t].step \notin {"none", "done", "panicked"} => finalizer'[t].step = "lost"
    BY <1>8, RestartEffect
  <2>2. \A t \in Turn : turn'[t].stage \notin InTurn
    BY <2>1 DEF InTurn
  <2>3. InOrder'
    BY <2>1, <2>2 DEF InOrder, GateInv, InTurn
  <2>4. InThisLife'
    <3>1. life \in Nat /\ life' \in Nat
      BY <2>1 DEF TypeInv
    <3>2. \A t \in Turn : turn[t].life \in Nat
      BY TurnIsTyped DEF TurnSet
    <3> QED BY <3>1, <3>2, <2>1, <2>2 DEF InThisLife, GateInv
  <2>5. Spawned'
    BY <2>1 DEF Spawned, GateInv, InTurn
  <2> QED BY <2>3, <2>4, <2>5 DEF GateInv
<1> QED BY StepsOfNext, <1>1, <1>2, <1>3, <1>4, <1>5, <1>6, <1>7, <1>8

LEMMA NothingOfNothing ==
  ASSUME NEW T, NEW s \in Seq(T), Len(LastOf(s, 2)) = 2
  PROVE  s # <<>>
<1>1. Len(LastOf(s, 2)) = Smaller(Len(s), 2)
  BY LastOfIs
<1>2. Len(s) # 0
  BY <1>1 DEF Smaller
<1> QED BY <1>2

(* What is hot ends with the last exchange of this life, and so does what  *)
(* a turn has loaded that has not missed it.                               *)
AnsweredNow == {u \in Turn : turn[u].stage = "done" /\ turn[u].life = life}
Ends(recent, exchanges) == exchanges # {} => LastOf(recent, 2) = Exchange(Max(exchanges))
Sees(t) ==
  /\ ~turn[t].missed
  /\ turn[t].stage \in {"fill", "match", "sticky"} \/ (turn[t].stage = "reply" /\ ~turn[t].shift)
HotInv == Ends(hot.recent, AnsweredNow)
SeenInv == \A t \in Turn : Sees(t) => Ends(turn[t].loaded.recent, Answered(t))

LEMMA SeeingIsInTurn ==
  ASSUME NEW t \in Turn, Sees(t)
  PROVE  turn[t].stage \in InTurn
BY DEF Sees, InTurn

LEMMA TurnsAreFinite == ASSUME NEW S \in SUBSET Turn PROVE IsFiniteSet(S)
<1>1. IsFiniteSet(Turn)
  BY FS_Interval, MemoryAssumption DEF Turn
<1> QED BY <1>1, FS_Subset

(* The exchanges before a turn under way are those of this life.           *)
LEMMA BeforeIsNow ==
  ASSUME GateInv, NEW t \in Turn, turn[t].stage \in InTurn
  PROVE  Answered(t) = AnsweredNow
<1>1. turn[t].life = life
  BY DEF GateInv, InThisLife
<1>2. ASSUME NEW u \in Turn, turn[u].stage = "done" PROVE u < t
  <2>1. u # t /\ turn[u].stage # "idle"
    BY <1>2 DEF InTurn
  <2>2. ~(t < u)
    BY <2>1 DEF GateInv, InOrder
  <2> QED BY <2>1, <2>2, MemoryAssumption DEF Turn
<1> QED BY <1>1, <1>2 DEF Answered, AnsweredNow

LEMMA NowStays ==
  ASSUME TypeInv, NEW t \in Turn, OnlyTurn(t), turn[t].stage # "done", turn'[t].stage # "done", life' = life
  PROVE  AnsweredNow' = AnsweredNow
BY DEF AnsweredNow, OnlyTurn

LEMMA HotStays ==
  ASSUME HotInv, hot'.recent = hot.recent, AnsweredNow' = AnsweredNow
  PROVE  HotInv'
BY DEF HotInv, Ends

LEMMA NoneSees ==
  ASSUME \A t \in Turn : ~Sees(t)'
  PROVE  SeenInv'
BY DEF SeenInv

LEMMA SightStays ==
  ASSUME SeenInv, turn' = turn
  PROVE  SeenInv'
BY DEF SeenInv, Sees, Answered, Ends

(* A turn alone under way goes on with what it has loaded.                 *)
LEMMA SightMoves ==
  ASSUME TypeInv, GateInv, SeenInv, NEW t \in Turn, OnlyTurn(t), SameTurn(t), life' = life,
         turn[t].stage \in InTurn, turn'[t].stage \in InTurn,
         Sees(t)' => Ends(turn'[t].loaded.recent, AnsweredNow)
  PROVE  SeenInv'
<1>1. AnsweredNow' = AnsweredNow
  BY NowStays DEF InTurn
<1>2. ASSUME NEW u \in Turn, Sees(u)' PROVE u = t
  <2>1. turn'[u].stage \in InTurn
    BY <1>2 DEF Sees, InTurn
  <2>2. ASSUME u # t PROVE FALSE
    <3>1. turn[u].stage \in InTurn
      BY <2>1, <2>2 DEF OnlyTurn
    <3> QED BY <3>1, <2>2, OneInTurn
  <2> QED BY <2>2
<1>3. Answered(t)' = AnsweredNow
  <2>1. turn[t].life = life /\ Answered(t) = AnsweredNow
    BY BeforeIsNow DEF GateInv, InThisLife
  <2>2. Answered(t)' = Answered(t)
    BY DEF Answered, OnlyTurn, SameTurn, InTurn
  <2> QED BY <2>1, <2>2
<1> QED BY <1>2, <1>3 DEF SeenInv, Ends

LEMMA SeenStep ==
  ASSUME StateInv, GateInv, HotInv, SeenInv, [Next]_vars
  PROVE  HotInv' /\ SeenInv'
<1>0. TypeInv
  BY DEF StateInv
<1> USE <1>0
<1>1. ASSUME NEW t \in Turn, Begin(t) PROVE HotInv' /\ SeenInv'
  <2>1. /\ OnlyTurn(t) /\ turn'[t].stage = "load" /\ turn[t].stage = "idle"
        /\ life' = life /\ hot' = hot
        /\ \A u \in Turn : u < t => turn[u].stage \notin InTurn \cup {"idle"}
    BY <1>1, BeginEffect DEF Begin
  <2>2. ASSUME NEW u \in Turn, Sees(u)' PROVE FALSE
    <3>1. u # t /\ turn[u].stage \in InTurn
      BY <2>1, <2>2 DEF Sees, InTurn, OnlyTurn
    <3>2. ~(u < t) /\ ~(t < u)
      BY <2>1, <3>1 DEF GateInv, InOrder, InTurn
    <3> QED BY <3>1, <3>2, MemoryAssumption DEF Turn
  <2> QED BY <2>1, <2>2, NowStays, HotStays, NoneSees
<1>2. ASSUME NEW t \in Turn, TurnStep(t) PROVE HotInv' /\ SeenInv'
  <2>1. /\ OnlyTurn(t) /\ SameTurn(t) /\ turn[t].stage \in InTurn /\ turn'[t].stage \in InTurn
        /\ life' = life /\ hot' = hot
    BY <1>2, TurnStepMoves
  <2>2. HotInv'
    BY <2>1, NowStays, HotStays DEF InTurn
  <2>3. ASSUME Sees(t), turn'[t].loaded = turn[t].loaded
        PROVE  Ends(turn'[t].loaded.recent, AnsweredNow)
    BY <2>1, <2>3, BeforeIsNow DEF SeenInv
  <2>4. Sees(t)' => Ends(turn'[t].loaded.recent, AnsweredNow)
    <3>1. CASE LoadSnapshot(t)
      <4>1. hot.recent # <<>> /\ ~turn'[t].missed =>
              turn'[t].loaded.recent = LastOf(hot.recent, ContextLimit)
        BY <3>1, LoadEffect
      <4>2. hot.recent \in Seq(EntrySet)
        BY DEF TypeInv, HotSet
      <4>3. ASSUME AnsweredNow # {}, ~turn'[t].missed
            PROVE  LastOf(turn'[t].loaded.recent, 2) = Exchange(Max(AnsweredNow))
        <5>1. LastOf(hot.recent, 2) = Exchange(Max(AnsweredNow))
          BY <4>3 DEF HotInv, Ends
        <5>2. hot.recent # <<>>
          <6>1. Len(LastOf(hot.recent, 2)) = 2
            BY <5>1 DEF Exchange
          <6> QED BY <4>2, <6>1, NothingOfNothing
        <5>3. LastOf(LastOf(hot.recent, ContextLimit), 2) = LastOf(hot.recent, 2)
          BY <4>2, LastOfLast, MemoryAssumption
        <5> QED BY <4>1, <4>3, <5>1, <5>2, <5>3
      <4> QED BY <4>3 DEF Ends, Sees
    <3>2. CASE FillCache(t)
      BY <3>2, <2>3, FillEffect DEF FillCache, Sees, SameView
    <3>3. CASE SearchBrain(t)
      <4>1. /\ turn[t].stage = "match" /\ turn'[t].stage \in {"sticky", "reply"} /\ SameView(t)
            /\ turn'[t].stage = "sticky" \/ ~turn[t].shift => turn'[t].loaded = turn[t].loaded
        BY <3>3, SearchEffect DEF SearchBrain
      <4> QED BY <4>1, <2>3 DEF Sees, SameView
    <3>4. CASE RecentBrain(t)
      <4>1. /\ turn[t].stage = "sticky" /\ turn'[t].stage = "reply" /\ SameView(t)
            /\ ~turn[t].shift => turn'[t].loaded = turn[t].loaded
        BY <3>4, RecentEffect DEF RecentBrain
      <4> QED BY <4>1, <2>3 DEF Sees, SameView
    <3> QED BY <1>2, <3>1, <3>2, <3>3, <3>4 DEF TurnStep
  <2> QED BY <2>1, <2>2, <2>4, SightMoves
<1>3. ASSUME NEW t \in Turn, Reply(t) PROVE HotInv' /\ SeenInv'
  <2>1. /\ OnlyTurn(t) /\ SameTurn(t) /\ turn[t].stage = "reply" /\ turn'[t].stage = "done" /\ life' = life
    BY <1>3, ReplyMoves
  <2>2. turn[t].stage \in InTurn /\ turn[t].life = life
    BY <2>1 DEF GateInv, InThisLife, InTurn
  <2>3. ASSUME NEW u \in Turn, Sees(u)' PROVE FALSE
    <3>1. u # t /\ turn[u].stage \in InTurn
      BY <2>1, <2>3 DEF Sees, InTurn, OnlyTurn
    <3> QED BY <2>2, <3>1, OneInTurn
  <2>4. LastOf(hot'.recent, 2) = Exchange(t)
    <3>1. hot.recent \in Seq(EntrySet) /\ Entry(t, "user") \in EntrySet /\ Entry(t, "assistant") \in EntrySet
      BY EntryIsTyped DEF TypeInv, HotSet
    <3>2. hot'.recent = LastOf(hot.recent \o Exchange(t), HotCap)
      BY <1>3 DEF Reply, publish_hot_turns, TypeInv
    <3> QED BY <3>1, <3>2, LastOfPair, MemoryAssumption DEF Exchange
  <2>5. Max(AnsweredNow') = t
    <3>1. t \in AnsweredNow'
      BY <2>1, <2>2 DEF AnsweredNow, SameTurn
    <3>2. \A u \in AnsweredNow' : u <= t
      <4>1. ASSUME NEW u \in Turn, turn'[u].stage = "done", t < u PROVE FALSE
        <5>1. turn[u].stage = "done"
          BY <4>1, <2>1, MemoryAssumption DEF OnlyTurn, Turn
        <5> QED BY <4>1, <5>1, <2>2 DEF GateInv, InOrder
      <4> QED BY <4>1, MemoryAssumption DEF AnsweredNow, Turn
    <3>3. AnsweredNow' \in SUBSET Turn
      BY DEF AnsweredNow
    <3> DEFINE S == AnsweredNow'
    <3>4. IsFiniteSet(S) /\ S # {} /\ S \in SUBSET Int
      <4>1. IsFiniteSet(S)
        BY <3>3, TurnsAreFinite
      <4> QED BY <4>1, <3>1, <3>3 DEF Turn
    <3>5. t \in S /\ \A u \in S : u <= t
      BY <3>1, <3>2
    <3> HIDE DEF S
    <3>6. Max(S) \in S /\ \A x \in S : x <= Max(S)
      BY <3>4, MaxIsGreatest
    <3>7. Max(S) \in Int /\ t \in Int
      BY <3>4, <3>5, <3>6
    <3>8. Max(S) = t
      BY <3>5, <3>6, <3>7
    <3> QED BY <3>8 DEF S
  <2>6. HotInv'
    BY <2>4, <2>5 DEF HotInv, Ends
  <2> QED BY <2>3, <2>6, NoneSees
<1>4. ASSUME NEW t \in Turn, Abort(t) PROVE HotInv' /\ SeenInv'
  <2>1. /\ OnlyTurn(t) /\ SameTurn(t) /\ turn[t].stage \in InTurn
        /\ turn'[t].stage \in {"aborted", "lost"} /\ life' = life /\ hot' = hot
    BY <1>4, AbortMoves
  <2>2. ASSUME NEW u \in Turn, Sees(u)' PROVE FALSE
    <3>1. u # t /\ turn[u].stage \in InTurn
      BY <2>1, <2>2 DEF Sees, InTurn, OnlyTurn
    <3> QED BY <2>1, <3>1, OneInTurn
  <2> QED BY <2>1, <2>2, NowStays, HotStays, NoneSees DEF InTurn
<1>s. ASSUME turn' = turn, life' = life, hot'.recent = hot.recent PROVE HotInv' /\ SeenInv'
  <2>1. AnsweredNow' = AnsweredNow
    BY <1>s DEF AnsweredNow
  <2> QED BY <1>s, <2>1, HotStays, SightStays
<1>5. ASSUME NEW t \in Turn, FinalizerStep(t) PROVE HotInv' /\ SeenInv'
  BY <1>5, <1>s, FinalizerMoves
<1>6. ASSUME NEW c \in Consumers, ConsumerStep(c) PROVE HotInv' /\ SeenInv'
  BY <1>6, <1>s, ConsumerMoves
<1>7. ASSUME Expire \/ ResetData \/ UNCHANGED vars PROVE HotInv' /\ SeenInv'
  BY <1>7, <1>s DEF Expire, ResetData, vars, turnVars, worldVars
<1>8. ASSUME Restart PROVE HotInv' /\ SeenInv'
  <2>1. /\ life' = life + 1
        /\ \A t \in Turn :
              /\ turn[t].stage \in InTurn => turn'[t].stage = "lost" /\ turn'[t].life = 0
              /\ turn[t].stage \notin InTurn => turn'[t] = turn[t]
    BY <1>8, RestartEffect
  <2>2. \A t \in Turn : ~Sees(t)'
    BY <2>1 DEF Sees, InTurn
  <2>3. ASSUME NEW t \in Turn, turn'[t].stage = "done", turn'[t].life = life' PROVE FALSE
    <3>1. turn'[t] = turn[t] /\ turn[t].life <= life /\ life \in Nat /\ turn[t].life \in Nat
      BY <2>1, <2>3, TurnIsTyped DEF TurnSet, GateInv, InThisLife, TypeInv
    <3> QED BY <2>1, <2>3, <3>1
  <2>4. AnsweredNow' = {}
    BY <2>3 DEF AnsweredNow
  <2>5. HotInv'
    BY <2>4 DEF HotInv, Ends
  <2> QED BY <2>2, <2>5, NoneSees
<1> QED BY StepsOfNext, <1>1, <1>2, <1>3, <1>4, <1>5, <1>6, <1>7, <1>8

SightInv == StateInv /\ GateInv /\ HotInv /\ SeenInv

LEMMA SightAtInit == Init => SightInv
<1> SUFFICES ASSUME Init PROVE SightInv
  OBVIOUS
<1>1. /\ \A t \in Turn : /\ turn[t].stage = "idle" /\ turn[t].life = 0
                         /\ finalizer[t].step = "none"
      /\ life = 0
  BY DEF Init, Unborn, Unspawned
<1>2. GateInv
  BY <1>1 DEF GateInv, InOrder, InThisLife, Spawned, InTurn
<1>3. AnsweredNow = {} /\ \A t \in Turn : ~Sees(t)
  BY <1>1 DEF AnsweredNow, Sees
<1> QED BY <1>2, <1>3, StateAtInit DEF SightInv, HotInv, SeenInv, Ends

LEMMA SightStep == SightInv /\ [Next]_vars => SightInv'
BY StateStep, GateStep, SeenStep DEF SightInv

THEOREM SightIsKept == Spec => []SightInv
BY SightAtInit, SightStep, PTL DEF Spec

(* A turn that stays on the topic is answered with the whole exchange      *)
(* before it, if this process has answered that one, however late the      *)
(* finalizer stores it (process_inbound_event.rs:1411), unless the query   *)
(* of the memory documents failed (store.rs:544).                          *)
THEOREM TheExchangeBeforeIsSeen == Spec => []PreviousExchangeIsSeen
<1>1. SightInv => PreviousExchangeIsSeen
  BY DEF SightInv, SeenInv, Ends, Sees, PreviousExchangeIsSeen
<1> QED BY <1>1, SightIsKept, PTL

-----------------------------------------------------------------------------
(* The third layer: what is stored of the turns                            *)

FinalizerPast == {"count", "summarize", "queue", "brain"}

LEMMA FinalizerAdvances ==
  ASSUME TypeInv, NEW t \in Turn, FinalizerStep(t)
  PROVE  \/ StoreUserTurn(t) /\ finalizer[t].step = "user" /\ finalizer'[t].step = "assistant"
         \/ StoreAssistantTurn(t) /\ finalizer[t].step = "assistant" /\ finalizer'[t].step = "count"
         \/ /\ finalizer[t].step \in FinalizerPast /\ turns' = turns
            /\ finalizer'[t].step \in {"summarize", "queue", "panicked", "brain", "done"}
<1>1. CASE StoreUserTurn(t)
  BY <1>1, StoreUserEffect DEF StoreUserTurn
<1>2. CASE StoreAssistantTurn(t)
  BY <1>2, StoreAssistantEffect DEF StoreAssistantTurn
<1>3. CASE CountTurns(t)
  BY <1>3, CountEffect DEF CountTurns, tableVars, FinalizerPast
<1>4. CASE Summarize(t)
  BY <1>4, SummarizeEffect DEF Summarize, tableVars, FinalizerPast
<1>5. CASE QueueSummary(t)
  BY <1>5, QueueSummaryEffect DEF QueueSummary, tableVars, FinalizerPast
<1>6. CASE QueueBrain(t)
  <2>1. finalizer'[t].step = "done"
    BY <1>6, QueueBrainEffect
  <2> QED BY <1>6, <2>1 DEF QueueBrain, tableVars, FinalizerPast
<1> QED BY <1>1, <1>2, <1>3, <1>4, <1>5, <1>6 DEF FinalizerStep

(* What may be stored: of a message what its finalizer is past, an answer  *)
(* also when its turn was aborted.                                         *)
UserMayBe(t) == finalizer[t].step \notin {"none", "user"}
AnswerMayBe(t) == finalizer[t].step \notin {"none", "user", "assistant"} \/ turn[t].stage = "aborted"
MayBe(e) == IF e.role = "user" THEN UserMayBe(e.of) ELSE AnswerMayBe(e.of)

(* A turn is stored at most once, the message before its answer.           *)
Once(s) == \A i, j \in 1..Len(s) : i < j => /\ s[i] # s[j]
                                            /\ s[i].of = s[j].of => s[i].role = "user"
StoredInv == (\A i \in 1..Len(turns) : MayBe(turns[i])) /\ Once(turns)

(* What may be stored may be stored ever after.                            *)
LEMMA MayBeStays ==
  ASSUME StateInv, GateInv, [Next]_vars, NEW t \in Turn
  PROVE  (UserMayBe(t) => UserMayBe(t)') /\ (AnswerMayBe(t) => AnswerMayBe(t)')
<1>0. TypeInv
  BY DEF StateInv
<1> USE <1>0
<1>1. ASSUME NEW u \in Turn, OnlyTurn(u), turn[u].stage # "aborted", finalizer'[t] = finalizer[t]
      PROVE  (UserMayBe(t) => UserMayBe(t)') /\ (AnswerMayBe(t) => AnswerMayBe(t)')
  BY <1>1 DEF UserMayBe, AnswerMayBe, OnlyTurn
<1>2. ASSUME turn' = turn, finalizer' = finalizer
      PROVE  (UserMayBe(t) => UserMayBe(t)') /\ (AnswerMayBe(t) => AnswerMayBe(t)')
  BY <1>2 DEF UserMayBe, AnswerMayBe
<1>3. ASSUME NEW u \in Turn, Begin(u)
      PROVE  (UserMayBe(t) => UserMayBe(t)') /\ (AnswerMayBe(t) => AnswerMayBe(t)')
  BY <1>1, <1>3, BeginEffect DEF Begin
<1>4. ASSUME NEW u \in Turn, TurnStep(u)
      PROVE  (UserMayBe(t) => UserMayBe(t)') /\ (AnswerMayBe(t) => AnswerMayBe(t)')
  BY <1>1, <1>4, TurnStepMoves DEF InTurn
<1>5. ASSUME NEW u \in Turn, Abort(u)
      PROVE  (UserMayBe(t) => UserMayBe(t)') /\ (AnswerMayBe(t) => AnswerMayBe(t)')
  BY <1>1, <1>5, AbortMoves DEF InTurn
<1>6. ASSUME NEW u \in Turn, Reply(u)
      PROVE  (UserMayBe(t) => UserMayBe(t)') /\ (AnswerMayBe(t) => AnswerMayBe(t)')
  <2>1. OnlyTurn(u) /\ turn[u].stage = "reply" /\ OnlyFinalizer(u)
    BY <1>6, ReplyMoves
  <2>2. finalizer[u].step = "none"
    BY <2>1 DEF GateInv, Spawned
  <2> QED BY <2>1, <2>2 DEF UserMayBe, AnswerMayBe, OnlyTurn, OnlyFinalizer
<1>7. ASSUME NEW u \in Turn, FinalizerStep(u)
      PROVE  (UserMayBe(t) => UserMayBe(t)') /\ (AnswerMayBe(t) => AnswerMayBe(t)')
  BY <1>7, FinalizerMoves, FinalizerAdvances DEF UserMayBe, AnswerMayBe, OnlyFinalizer, FinalizerPast
<1>8. ASSUME NEW c \in Consumers, ConsumerStep(c)
      PROVE  (UserMayBe(t) => UserMayBe(t)') /\ (AnswerMayBe(t) => AnswerMayBe(t)')
  BY <1>2, <1>8, ConsumerMoves
<1>9. ASSUME Expire \/ ResetData \/ UNCHANGED vars
      PROVE  (UserMayBe(t) => UserMayBe(t)') /\ (AnswerMayBe(t) => AnswerMayBe(t)')
  BY <1>2, <1>9 DEF Expire, ResetData, vars, turnVars
<1>10. ASSUME Restart
       PROVE  (UserMayBe(t) => UserMayBe(t)') /\ (AnswerMayBe(t) => AnswerMayBe(t)')
  <2>1. /\ turn[t].stage \notin InTurn => turn'[t] = turn[t]
        /\ finalizer[t].step \in {"none", "done", "panicked"} => finalizer'[t] = finalizer[t]
        /\ finalizer[t].step \notin {"none", "done", "panicked"} => finalizer'[t].step = "lost"
    BY <1>10, RestartEffect
  <2> QED BY <2>1 DEF UserMayBe, AnswerMayBe, InTurn
<1> QED BY StepsOfNext, <1>3, <1>4, <1>5, <1>6, <1>7, <1>8, <1>9, <1>10

(* What a step makes of the table.                                         *)
Appends(t, role) == conversation /\ turns' = Append(turns, Entry(t, role))
LEMMA TurnsChange ==
  ASSUME StateInv, [Next]_vars
  PROVE  \/ turns' = turns
         \/ turns' = <<>> /\ disturbed' > 0
         \/ \E t \in Turn : StoreUserTurn(t) /\ Appends(t, "user")
         \/ \E t \in Turn : StoreAssistantTurn(t) /\ Appends(t, "assistant")
         \/ \E t \in Turn : Abort(t) /\ Appends(t, "assistant") /\ Settled(t, "aborted")
<1>0. TypeInv
  BY DEF StateInv
<1>1. ASSUME NEW t \in Turn, Begin(t) \/ TurnStep(t) \/ Reply(t) PROVE turns' = turns
  BY <1>1 DEF Begin, TurnStep, LoadSnapshot, FillCache, SearchBrain, RecentBrain, Reply, tableVars
<1>2. ASSUME NEW t \in Turn, Abort(t)
      PROVE  turns' = turns \/ (Appends(t, "assistant") /\ Settled(t, "aborted"))
  BY <1>2 DEF Abort, append_turn, append_fails, Appends
<1>3. ASSUME NEW t \in Turn, FinalizerStep(t)
      PROVE  \/ turns' = turns
             \/ StoreUserTurn(t) /\ Appends(t, "user")
             \/ StoreAssistantTurn(t) /\ Appends(t, "assistant")
  BY <1>0, <1>3, FinalizerAdvances DEF StoreUserTurn, StoreAssistantTurn, append_turn, append_fails, Appends
<1>4. ASSUME NEW c \in Consumers, ConsumerStep(c) PROVE turns' = turns
  BY <1>0, <1>4, ConsumerMoves
<1>5. ASSUME Expire \/ Restart \/ UNCHANGED vars PROVE turns' = turns
  BY <1>5 DEF Expire, Restart, vars, tableVars
<1>6. ASSUME ResetData PROVE turns' = <<>> /\ disturbed' > 0
  BY <1>0, <1>6, ResetEffect DEF ResetData
<1> QED BY StepsOfNext, <1>1, <1>2, <1>3, <1>4, <1>5, <1>6

(* A row for what could not be stored before.                              *)
LEMMA OnceMore ==
  ASSUME NEW s \in Seq(EntrySet), NEW e \in EntrySet, Once(s),
         \A i \in 1..Len(s) : s[i] # e /\ (s[i].of = e.of => s[i].role = "user")
  PROVE  Once(Append(s, e))
<1> DEFINE u == Append(s, e)
<1>1. Len(u) = Len(s) + 1 /\ u[Len(s) + 1] = e /\ (\A i \in 1..Len(s) : u[i] = s[i]) /\ Len(s) \in Nat
  OBVIOUS
<1> HIDE DEF u
<1>2. ASSUME NEW i \in 1..Len(u), NEW j \in 1..Len(u), i < j
      PROVE  u[i] # u[j] /\ (u[i].of = u[j].of => u[i].role = "user")
  <2>1. i \in 1..Len(s) /\ u[i] = s[i]
    BY <1>1, <1>2
  <2>2. CASE j = Len(s) + 1
    BY <1>1, <2>1, <2>2
  <2>3. CASE j # Len(s) + 1
    <3>1. j \in 1..Len(s) /\ u[j] = s[j]
      BY <1>1, <2>3
    <3> QED BY <2>1, <3>1, <1>2 DEF Once
  <2> QED BY <2>2, <2>3
<1>3. Once(u)
  BY <1>2 DEF Once
<1> QED BY <1>3 DEF u

LEMMA StoredMore ==
  ASSUME StateInv, StoredInv, NEW t \in Turn, NEW role \in {"user", "assistant"}, Appends(t, role),
         \A u \in Turn : (UserMayBe(u) => UserMayBe(u)') /\ (AnswerMayBe(u) => AnswerMayBe(u)'),
         MayBe(Entry(t, role))', ~MayBe(Entry(t, role)), ~AnswerMayBe(t)
  PROVE  StoredInv'
<1> DEFINE e == Entry(t, role)
<1>1. turns \in Seq(EntrySet) /\ e \in EntrySet /\ e.of = t /\ e.role = role
  BY EntryIsTyped DEF StateInv, TypeInv, Entry
<1>2. \A i \in 1..Len(turns) : turns[i] \in EntrySet
  BY <1>1
<1>3. \A i \in 1..Len(turns) : turns[i].of \in Turn /\ turns[i].role \in {"user", "assistant"}
  BY <1>2 DEF EntrySet
<1>4. turns' = Append(turns, e)
  BY DEF Appends
<1> HIDE DEF e
<1>5. ASSUME NEW i \in 1..Len(turns)
      PROVE  turns[i] # e /\ (turns[i].of = e.of => turns[i].role = "user")
  <2>1. MayBe(turns[i])
    BY DEF StoredInv
  <2>2. turns[i] # e
    BY <2>1 DEF e
  <2> QED BY <2>1, <2>2, <1>1, <1>3 DEF MayBe
<1>6. Once(turns')
  BY <1>1, <1>4, <1>5, OnceMore DEF StoredInv
<1>7. ASSUME NEW i \in 1..Len(turns') PROVE MayBe(turns[i])'
  <2>1. Len(turns') = Len(turns) + 1 /\ Len(turns) \in Nat /\ turns'[Len(turns) + 1] = e
        /\ \A k \in 1..Len(turns) : turns'[k] = turns[k]
    BY <1>1, <1>4
  <2>2. CASE i = Len(turns) + 1
    BY <2>1, <2>2 DEF e
  <2>3. CASE i # Len(turns) + 1
    <3>1. i \in 1..Len(turns) /\ turns'[i] = turns[i]
      BY <2>1, <2>3
    <3>2. MayBe(turns[i])
      BY <3>1 DEF StoredInv
    <3> QED BY <3>1, <3>2, <1>3 DEF MayBe
  <2> QED BY <2>2, <2>3
<1> QED BY <1>6, <1>7 DEF StoredInv

LEMMA StoredStep ==
  ASSUME StateInv, GateInv, StoredInv, [Next]_vars
  PROVE  StoredInv'
<1>0. TypeInv
  BY DEF StateInv
<1>1. \A u \in Turn : (UserMayBe(u) => UserMayBe(u)') /\ (AnswerMayBe(u) => AnswerMayBe(u)')
  BY MayBeStays
<1>2. CASE turns' = turns
  <2>1. \A i \in 1..Len(turns) : turns[i] \in EntrySet
    BY <1>0 DEF TypeInv
  <2>2. \A i \in 1..Len(turns) : turns[i].of \in Turn
    BY <2>1 DEF EntrySet
  <2> QED BY <1>1, <1>2, <2>2 DEF StoredInv, MayBe
<1>3. CASE turns' = <<>>
  <2>1. Len(turns') = 0
    BY <1>3
  <2> QED BY <2>1 DEF StoredInv, Once
<1>4. ASSUME NEW t \in Turn, StoreUserTurn(t), Appends(t, "user") PROVE StoredInv'
  <2>1. finalizer[t].step = "user" /\ finalizer'[t].step = "assistant"
    BY <1>0, <1>4, StoreUserEffect DEF StoreUserTurn
  <2>2. turn[t].stage = "done"
    BY <2>1 DEF GateInv, Spawned
  <2>3. Entry(t, "user").role = "user" /\ Entry(t, "user").of = t
    BY DEF Entry
  <2>4. MayBe(Entry(t, "user"))' /\ ~MayBe(Entry(t, "user")) /\ ~AnswerMayBe(t)
    BY <2>1, <2>2, <2>3 DEF MayBe, UserMayBe, AnswerMayBe
  <2> QED BY <1>1, <1>4, <2>4, StoredMore
<1>5. ASSUME NEW t \in Turn, Appends(t, "assistant"), AnswerMayBe(t)', ~AnswerMayBe(t)
      PROVE  StoredInv'
  <2>1. Entry(t, "assistant").role = "assistant" /\ Entry(t, "assistant").of = t
    BY DEF Entry
  <2>2. MayBe(Entry(t, "assistant"))' /\ ~MayBe(Entry(t, "assistant"))
    BY <1>5, <2>1 DEF MayBe
  <2> QED BY <1>1, <1>5, <2>2, StoredMore
<1>6. ASSUME NEW t \in Turn, StoreAssistantTurn(t), Appends(t, "assistant") PROVE StoredInv'
  <2>1. finalizer[t].step = "assistant" /\ finalizer'[t].step = "count"
    BY <1>0, <1>6, StoreAssistantEffect DEF StoreAssistantTurn
  <2>2. turn[t].stage = "done"
    BY <2>1 DEF GateInv, Spawned
  <2> QED BY <1>5, <1>6, <2>1, <2>2 DEF AnswerMayBe
<1>7. ASSUME NEW t \in Turn, Abort(t), Appends(t, "assistant"), Settled(t, "aborted") PROVE StoredInv'
  <2>1. turn[t].stage \in InTurn /\ turn'[t].stage = "aborted"
    BY <1>0, <1>7, SettledEffect DEF Abort
  <2>2. finalizer[t].step = "none"
    BY <2>1 DEF GateInv, Spawned, InTurn
  <2> QED BY <1>5, <1>7, <2>1, <2>2 DEF AnswerMayBe, InTurn
<1> QED BY TurnsChange, <1>2, <1>3, <1>4, <1>6, <1>7

(* If nothing failed: the conversation is there once there is something to *)
(* say of it, and what the finalizers are past is stored.                  *)
AnswerPast(t) == finalizer[t].step \notin {"none", "user", "assistant"}
IsStored(t, role) == \E i \in 1..Len(turns) : turns[i] = Entry(t, role)
Born == ~conversation => /\ \A t \in Turn : turn[t].stage = "idle"
                         /\ bus = <<>> /\ \A c \in Consumers : worker[c] = Waiting /\ claimed[c] = <<>>
AllStored == \A t \in Turn : /\ UserMayBe(t) => IsStored(t, "user")
                             /\ AnswerPast(t) => IsStored(t, "assistant")
CalmInv == disturbed = 0 => Born /\ AllStored

(* What has disturbed the conversation has disturbed it.                   *)
LEMMA DisturbedGrows ==
  ASSUME StateInv, [Next]_vars
  PROVE  disturbed' >= disturbed
<1>0. TypeInv /\ disturbed \in Int
  BY DEF StateInv, TypeInv
<1>1. ASSUME Calm \/ Disturb \/ UNCHANGED disturbed PROVE disturbed' >= disturbed
  BY <1>0, <1>1 DEF Calm, Disturb
<1>2. ASSUME NEW t \in Turn, Begin(t) \/ TurnStep(t) \/ Reply(t) PROVE disturbed' >= disturbed
  BY <1>1, <1>2 DEF Begin, TurnStep, LoadSnapshot, FillCache, SearchBrain, RecentBrain, Reply
<1>3. ASSUME NEW t \in Turn, Abort(t) PROVE disturbed' >= disturbed
  BY <1>1, <1>3 DEF Abort, append_turn, append_fails
<1>4. ASSUME NEW t \in Turn, FinalizerStep(t) PROVE disturbed' >= disturbed
  BY <1>1, <1>4 DEF FinalizerStep, StoreUserTurn, StoreAssistantTurn, append_turn, append_fails,
                    CountTurns, Summarize, QueueSummary, QueueBrain
<1>5. ASSUME NEW c \in Consumers, ConsumerStep(c) PROVE disturbed' >= disturbed
  BY <1>1, <1>5 DEF ConsumerStep, Claim, Take, WriteSummary, WriteBrain, HandlerFails, Acknowledge
<1>6. ASSUME Expire \/ Restart \/ ResetData \/ UNCHANGED vars PROVE disturbed' >= disturbed
  BY <1>1, <1>6 DEF Expire, Restart, ResetData, vars
<1> QED BY StepsOfNext, <1>2, <1>3, <1>4, <1>5, <1>6

LEMMA CalmSteps ==
  ASSUME StateInv, [Next]_vars, disturbed' = 0
  PROVE  /\ disturbed = 0 /\ ~Restart /\ ~ResetData
         /\ \/ \E t \in Turn : Begin(t) \/ TurnStep(t) \/ Reply(t) \/ Abort(t) \/ FinalizerStep(t)
            \/ \E c \in Consumers : ConsumerStep(c)
            \/ Expire \/ UNCHANGED vars
<1>1. TypeInv /\ disturbed \in Nat
  BY DEF StateInv, TypeInv
<1>2. disturbed = 0
  BY <1>1, DisturbedGrows
<1>3. ~Restart /\ ~ResetData
  BY <1>1, RestartEffect, ResetEffect
<1> QED BY <1>2, <1>3, StepsOfNext

LEMMA BornStep ==
  ASSUME StateInv, GateInv, Born, [Next]_vars, disturbed' = 0
  PROVE  Born'
<1>0. TypeInv
  BY DEF StateInv
<1>1. CASE conversation
  <2>1. conversation'
    <3>1. ASSUME NEW t \in Turn, Begin(t) \/ TurnStep(t) \/ Reply(t) \/ Abort(t) PROVE conversation'
      BY <1>1, <3>1 DEF Begin, TurnStep, LoadSnapshot, FillCache, SearchBrain, RecentBrain, Reply,
                        Abort, worldVars
    <3>2. ASSUME NEW t \in Turn, FinalizerStep(t) PROVE conversation'
      BY <1>0, <1>1, <3>2, FinalizerMoves
    <3>3. ASSUME NEW c \in Consumers, ConsumerStep(c) PROVE conversation'
      BY <1>0, <1>1, <3>3, ConsumerMoves
    <3>4. ASSUME Expire \/ UNCHANGED vars PROVE conversation'
      BY <1>1, <3>4 DEF Expire, vars, worldVars
    <3> QED BY CalmSteps, <3>1, <3>2, <3>3, <3>4
  <2> QED BY <2>1 DEF Born
<1>2. CASE ~conversation
  <2>1. /\ \A t \in Turn : turn[t].stage = "idle" /\ finalizer[t].step = "none"
        /\ bus = <<>> /\ \A c \in Consumers : worker[c] = Waiting /\ claimed[c] = <<>>
    BY <1>2 DEF Born, GateInv, Spawned
  <2>2. ASSUME NEW t \in Turn, Begin(t) PROVE Born'
    BY <2>2 DEF Begin, Born
  <2>3. ASSUME NEW t \in Turn, TurnStep(t) \/ Reply(t) \/ Abort(t) PROVE FALSE
    <3>1. turn[t].stage \in InTurn
      BY <1>0, <2>3, TurnStepMoves, ReplyMoves, AbortMoves DEF InTurn
    <3> QED BY <2>1, <3>1 DEF InTurn
  <2>4. ASSUME NEW t \in Turn, FinalizerStep(t) PROVE FALSE
    BY <1>0, <2>1, <2>4, FinalizerMoves
  <2>5. ASSUME NEW c \in Consumers, ConsumerStep(c) PROVE FALSE
    <3>0. Waiting.event.kind = "none"
      BY DEF Waiting, AtRest
    <3>1. worker[c] = Waiting /\ worker[c].event.kind = "none" /\ claimed[c] = <<>>
      BY <2>1, <3>0
    <3>2. Untaken = {}
      BY <2>1 DEF Untaken
    <3>3. ~Claim(c)
      <4>1. (SUBSET Untaken) \ {{}} = {}
        <5>1. \A batch \in SUBSET Untaken : batch = {}
          BY <3>2
        <5> QED BY <5>1
      <4>2. Claim(c) => \E batch \in (SUBSET Untaken) \ {{}} : TRUE
        BY DEF Claim
      <4> QED BY <4>1, <4>2
    <3> QED BY <2>5, <3>1, <3>3 DEF ConsumerStep, Take, WriteSummary, WriteBrain, HandlerFails
  <2>6. ASSUME Expire \/ UNCHANGED vars PROVE Born'
    BY <2>6 DEF Born, Expire, vars, worldVars, turnVars, busVars
  <2> QED BY CalmSteps, <2>2, <2>3, <2>4, <2>5, <2>6
<1> QED BY <1>1, <1>2

(* Nothing failed: what a finalizer stores is stored.                      *)
LEMMA CalmlyStored ==
  ASSUME StateInv, GateInv, Born, disturbed' = 0, NEW t \in Turn
  PROVE  /\ StoreUserTurn(t) => Appends(t, "user")
         /\ StoreAssistantTurn(t) => Appends(t, "assistant")
<1>0. TypeInv /\ disturbed \in Nat
  BY DEF StateInv, TypeInv
<1>1. ASSUME finalizer[t].step # "none" PROVE conversation
  BY <1>1 DEF Born, GateInv, Spawned
<1>2. ~Disturb
  BY <1>0 DEF Disturb
<1> QED BY <1>1, <1>2 DEF StoreUserTurn, StoreAssistantTurn, append_turn, append_fails, Appends

(* The table only grows.                                                   *)
LEMMA TurnsGrow ==
  ASSUME StateInv, [Next]_vars, disturbed' = 0, NEW t \in Turn, NEW role, IsStored(t, role)
  PROVE  IsStored(t, role)'
<1>1. turns \in Seq(EntrySet)
  BY DEF StateInv, TypeInv
<1>2. turns' = turns \/ \E u \in Turn : Appends(u, "user") \/ Appends(u, "assistant")
  BY TurnsChange
<1>3. ASSUME NEW e, turns' = Append(turns, e) PROVE IsStored(t, role)'
  BY <1>1, <1>3 DEF IsStored
<1> QED BY <1>2, <1>3 DEF IsStored, Appends

LEMMA AppendedIsStored ==
  ASSUME StateInv, NEW t \in Turn, NEW role, Appends(t, role)
  PROVE  IsStored(t, role)'
<1>1. turns \in Seq(EntrySet) /\ turns' = Append(turns, Entry(t, role))
  BY DEF StateInv, TypeInv, Appends
<1>2. Len(turns') = Len(turns) + 1 /\ Len(turns) \in Nat /\ turns'[Len(turns) + 1] = Entry(t, role)
  BY <1>1
<1> QED BY <1>2 DEF IsStored

LEMMA PastSteps ==
  ASSUME StateInv, GateInv, [Next]_vars, disturbed' = 0, NEW t \in Turn
  PROVE  /\ UserMayBe(t)' => UserMayBe(t) \/ StoreUserTurn(t)
         /\ AnswerPast(t)' => AnswerPast(t) \/ StoreAssistantTurn(t)
<1>0. TypeInv
  BY DEF StateInv
<1>1. ASSUME finalizer'[t] = finalizer[t]
      PROVE  (UserMayBe(t)' => UserMayBe(t)) /\ (AnswerPast(t)' => AnswerPast(t))
  BY <1>1 DEF UserMayBe, AnswerPast
<1>2. ASSUME NEW u \in Turn, Begin(u) \/ TurnStep(u) \/ Abort(u)
      PROVE  (UserMayBe(t)' => UserMayBe(t)) /\ (AnswerPast(t)' => AnswerPast(t))
  BY <1>0, <1>1, <1>2, TurnStepMoves, AbortMoves DEF Begin
<1>3. ASSUME NEW u \in Turn, Reply(u)
      PROVE  (UserMayBe(t)' => UserMayBe(t)) /\ (AnswerPast(t)' => AnswerPast(t))
  <2>1. OnlyFinalizer(u) /\ finalizer'[u].step = "user"
    BY <1>0, <1>3, ReplyMoves
  <2> QED BY <1>1, <2>1 DEF UserMayBe, AnswerPast, OnlyFinalizer
<1>4. ASSUME NEW u \in Turn, FinalizerStep(u)
      PROVE  /\ UserMayBe(t)' => UserMayBe(t) \/ StoreUserTurn(t)
             /\ AnswerPast(t)' => AnswerPast(t) \/ StoreAssistantTurn(t)
  <2>1. OnlyFinalizer(u)
    BY <1>0, <1>4, FinalizerMoves
  <2>2. CASE u = t
    BY <1>0, <1>4, <2>2, FinalizerAdvances DEF UserMayBe, AnswerPast, FinalizerPast
  <2>3. CASE u # t
    BY <1>1, <2>1, <2>3 DEF OnlyFinalizer
  <2> QED BY <2>2, <2>3
<1>5. ASSUME NEW c \in Consumers, ConsumerStep(c)
      PROVE  (UserMayBe(t)' => UserMayBe(t)) /\ (AnswerPast(t)' => AnswerPast(t))
  BY <1>0, <1>1, <1>5, ConsumerMoves
<1>6. ASSUME Expire \/ UNCHANGED vars
      PROVE  (UserMayBe(t)' => UserMayBe(t)) /\ (AnswerPast(t)' => AnswerPast(t))
  BY <1>1, <1>6 DEF Expire, vars, turnVars
<1> QED BY CalmSteps, <1>2, <1>3, <1>4, <1>5, <1>6

LEMMA CalmStep ==
  ASSUME StateInv, GateInv, CalmInv, [Next]_vars
  PROVE  CalmInv'
<1> SUFFICES ASSUME disturbed' = 0 PROVE Born' /\ AllStored'
  BY DEF CalmInv
<1>1. Born /\ AllStored
  BY CalmSteps DEF CalmInv
<1>2. ASSUME NEW t \in Turn PROVE /\ UserMayBe(t)' => IsStored(t, "user")'
                                  /\ AnswerPast(t)' => IsStored(t, "assistant")'
  BY <1>1, PastSteps, CalmlyStored, AppendedIsStored, TurnsGrow DEF AllStored
<1> QED BY <1>1, <1>2, BornStep DEF AllStored

TableInv == SightInv /\ StoredInv /\ CalmInv

LEMMA TableAtInit == Init => TableInv
<1> SUFFICES ASSUME Init PROVE TableInv
  OBVIOUS
<1>1. /\ turns = <<>> /\ bus = <<>> /\ \A c \in Consumers : worker[c] = Waiting /\ claimed[c] = <<>>
      /\ \A t \in Turn : turn[t].stage = "idle" /\ finalizer[t].step = "none"
  BY DEF Init, Unborn, Unspawned
<1>2. StoredInv
  <2>1. Len(turns) = 0
    BY <1>1
  <2> QED BY <2>1 DEF StoredInv, Once
<1>3. CalmInv
  BY <1>1 DEF CalmInv, Born, AllStored, UserMayBe, AnswerPast
<1> QED BY <1>2, <1>3, SightAtInit DEF TableInv

LEMMA TableStep == TableInv /\ [Next]_vars => TableInv'
<1> SUFFICES ASSUME TableInv, [Next]_vars PROVE TableInv'
  OBVIOUS
<1>1. StateInv /\ GateInv /\ SightInv /\ StoredInv /\ CalmInv
  BY DEF TableInv, SightInv
<1>2. SightInv'
  BY <1>1, SightStep
<1>3. StoredInv' /\ CalmInv'
  BY <1>1, StoredStep, CalmStep
<1> QED BY <1>2, <1>3 DEF TableInv

THEOREM TableIsKept == Spec => []TableInv
BY TableAtInit, TableStep, PTL DEF Spec

(* A turn is stored at most once, the message before its answer; nothing   *)
(* failed and the finalizers ended: every exchange is there, whole         *)
(* (process_inbound_event.rs:1515).                                        *)
THEOREM ExchangesAreStoredOnce == Spec => []TurnsAreStoredOnce
<1>1. TableInv => TurnsAreStoredOnce
  <2> SUFFICES ASSUME TableInv PROVE TurnsAreStoredOnce
    OBVIOUS
  <2>0. TypeInv /\ GateInv /\ StoredInv /\ CalmInv
    BY DEF TableInv, SightInv, StateInv
  <2>1. DOMAIN turns = 1..Len(turns)
    BY <2>0 DEF TypeInv
  <2>2. \A i, j \in DOMAIN turns : i < j =>
          /\ turns[i] # turns[j]
          /\ turns[i].of = turns[j].of => turns[i].role = "user"
    BY <2>0, <2>1 DEF StoredInv, Once
  <2>3. ASSUME Quiet, disturbed = 0, NEW t \in Turn, turn[t].stage = "done"
        PROVE  Range(Exchange(t)) \subseteq Range(turns)
    <3>1. UserMayBe(t) /\ AnswerPast(t)
      BY <2>0, <2>3 DEF Quiet, GateInv, Spawned, UserMayBe, AnswerPast
    <3>2. IsStored(t, "user") /\ IsStored(t, "assistant")
      BY <2>0, <2>3, <3>1 DEF CalmInv, AllStored
    <3>3. Entry(t, "user") \in Range(turns) /\ Entry(t, "assistant") \in Range(turns)
      BY <2>1, <3>2 DEF IsStored, Range
    <3>4. Range(Exchange(t)) = {Entry(t, "user"), Entry(t, "assistant")}
      <4>1. DOMAIN Exchange(t) = {1, 2}
        BY DEF Exchange
      <4> QED BY <4>1 DEF Exchange, Range
    <3> QED BY <3>3, <3>4
  <2> QED BY <2>2, <2>3 DEF TurnsAreStoredOnce
<1> QED BY <1>1, TableIsKept, PTL

-----------------------------------------------------------------------------
(* The fourth layer: what consumers make of the tables                     *)

(* What turns and finalizers leave to the consumers.                       *)
LEMMA ConsumersRest ==
  ASSUME TypeInv, NEW t \in Turn,
         Begin(t) \/ TurnStep(t) \/ Reply(t) \/ Abort(t) \/ FinalizerStep(t)
  PROVE  /\ worker' = worker /\ claimed' = claimed /\ raced' = raced /\ written' = written
         /\ summaries' = summaries /\ brain' = brain /\ hot'.summary = hot.summary
<1>1. CASE Begin(t) \/ TurnStep(t) \/ Abort(t)
  BY <1>1 DEF Begin, TurnStep, LoadSnapshot, FillCache, SearchBrain, RecentBrain, Abort, tableVars, busVars
<1>2. CASE Reply(t)
  <2>1. hot'.summary = hot.summary
    BY <1>2 DEF Reply, publish_hot_turns, TypeInv, HotSet
  <2> QED BY <1>2, <2>1 DEF Reply, tableVars, busVars
<1>3. CASE FinalizerStep(t)
  BY <1>3 DEF FinalizerStep, StoreUserTurn, StoreAssistantTurn, CountTurns, Summarize, QueueSummary,
              QueueBrain, tableVars, busVars
<1> QED BY <1>1, <1>2, <1>3

WaitingKind == Waiting.event.kind = "none" /\ Waiting.event.candidates = <<>> /\ Waiting.stale = FALSE

LEMMA WaitsForNothing == WaitingKind
BY DEF WaitingKind, Waiting, AtRest

LEMMA HandlerFailsEffect ==
  ASSUME StateInv, NEW c \in Consumers, HandlerFails(c)
  PROVE  /\ worker'[c] = Waiting /\ \A d \in Consumers \ {c} : worker'[d] = worker[d]
         /\ brain' = brain /\ raced' = raced /\ bus' = bus
         /\ Born => disturbed' > 0
<1>1. worker' = [worker EXCEPT ![c] = Waiting] /\ worker \in [Consumers -> WorkerSet] /\ disturbed \in Nat
  BY DEF HandlerFails, StateInv, TypeInv
<1>2. ASSUME Born PROVE disturbed' > 0
  <2>1. conversation
    BY <1>2 DEF HandlerFails, Born
  <2> QED BY <1>1, <2>1 DEF HandlerFails, Disturb
<1> QED BY <1>1, <1>2 DEF HandlerFails, tableVars

(* A consumer that alone has a summary in hand has made it hot.            *)
HasSummary(c) == worker[c].event.kind = "summary"
SummaryInv ==
  disturbed = 0 /\ ~raced =>
    /\ (\A c \in Consumers : ~HasSummary(c)) => hot.summary = NewestOf(summaries)
    /\ \A c \in Consumers : /\ HasSummary(c) /\ ~worker[c].stale
                            /\ \A d \in Consumers \ {c} : ~HasSummary(d)
                            => hot.summary = worker[c].event.summary

LEMMA SummaryStep ==
  ASSUME StateInv, GateInv, CalmInv, SummaryInv, [Next]_vars
  PROVE  SummaryInv'
<1> SUFFICES ASSUME disturbed' = 0, ~raced' PROVE SummaryInv'
  BY DEF SummaryInv
<1>0. TypeInv /\ RowInv /\ disturbed = 0 /\ Born
  BY CalmSteps DEF StateInv, CalmInv
<1>1. ASSUME worker' = worker, raced' = raced, summaries' = summaries, hot'.summary = hot.summary
      PROVE  SummaryInv'
  BY <1>0, <1>1 DEF SummaryInv, HasSummary
<1>2. ASSUME NEW t \in Turn, Begin(t) \/ TurnStep(t) \/ Reply(t) \/ Abort(t) \/ FinalizerStep(t)
      PROVE  SummaryInv'
  BY <1>0, <1>1, <1>2, ConsumersRest
<1>3. ASSUME NEW c \in Consumers, Take(c) PROVE SummaryInv'
  <2>1. PICK event \in EventSet :
           /\ worker'[c] \in WorkerSet /\ worker'[c].event = event /\ worker'[c].stale = FALSE
           /\ Len(worker'[c].read) = Len(event.candidates)
           /\ \A k \in 1..Len(event.candidates) :
                /\ worker'[c].read[k] = existing_row(brain, event.candidates[k].key)
                /\ Refers(brain, worker'[c].read[k], event.candidates[k])
           /\ worker' \in [Consumers -> WorkerSet] /\ \A d \in Consumers \ {c} : worker'[d] = worker[d]
           /\ \/ event.kind = "summary" /\ hot' = [hot EXCEPT !.summary = event.summary]
              \/ event.kind = "brain" /\ hot' = hot
    BY <1>0, <1>3, TakeEffect
  <2>2. worker[c] = Waiting /\ ~HasSummary(c) /\ raced' = raced /\ summaries' = summaries
    BY <1>3, WaitsForNothing DEF Take, tableVars, HasSummary, WaitingKind
  <2>3. CASE event.kind = "summary" /\ hot' = [hot EXCEPT !.summary = event.summary]
    <3>1. HasSummary(c)' /\ hot'.summary = worker'[c].event.summary
      BY <1>0, <2>1, <2>3 DEF HasSummary, TypeInv, HotSet
    <3> QED BY <3>1 DEF SummaryInv
  <2>4. CASE event.kind = "brain" /\ hot' = hot
    <3>1. ~HasSummary(c)' /\ \A d \in Consumers \ {c} : worker'[d] = worker[d]
      BY <2>1, <2>4 DEF HasSummary
    <3> QED BY <1>0, <2>2, <2>4, <3>1 DEF SummaryInv, HasSummary
  <2> QED BY <2>1, <2>3, <2>4
<1>4. ASSUME NEW c \in Consumers, WriteSummary(c) PROVE SummaryInv'
  <2>1. /\ worker'[c] = Waiting
        /\ \A d \in Consumers \ {c} :
              /\ worker'[d].event = worker[d].event
              /\ worker'[d].stale = (worker[d].stale \/ worker[d].event.kind = worker[c].event.kind)
        /\ raced' = (raced \/ worker[c].stale)
    BY <1>0, <1>4, FinishEffect DEF WriteSummary
  <2>2. ~raced /\ ~worker[c].stale /\ HasSummary(c) /\ hot' = hot
    BY <1>4, <2>1 DEF WriteSummary, HasSummary
  <2>3. NewestOf(summaries') = worker[c].event.summary
    <3>1. summaries \in Seq(MaybeTurn) /\ worker[c].event.summary \in MaybeTurn
      BY <1>0, WorkerType DEF TypeInv
    <3>2. summaries' = Append(summaries, worker[c].event.summary)
      BY <1>4 DEF WriteSummary
    <3> QED BY <3>1, <3>2 DEF NewestOf
  <2>4. ~HasSummary(c)' /\ \A d \in Consumers \ {c} : HasSummary(d)' <=> HasSummary(d)
    BY <2>1, WaitsForNothing DEF HasSummary, WaitingKind
  <2>5. \A d \in Consumers \ {c} : HasSummary(d)' => worker'[d].stale
    BY <2>1, <2>2, <2>4 DEF HasSummary
  <2>6. (\A d \in Consumers : ~HasSummary(d)') => hot'.summary = NewestOf(summaries')
    BY <1>0, <2>2, <2>3, <2>4 DEF SummaryInv
  <2> QED BY <2>4, <2>5, <2>6 DEF SummaryInv
<1>5. ASSUME NEW c \in Consumers, WriteBrain(c) PROVE SummaryInv'
  <2>1. /\ worker'[c] = Waiting
        /\ \A d \in Consumers \ {c} :
              /\ worker'[d].event = worker[d].event
              /\ worker'[d].stale = (worker[d].stale \/ worker[d].event.kind = worker[c].event.kind)
        /\ raced' = (raced \/ worker[c].stale)
    BY <1>0, <1>5, FinishEffect DEF WriteBrain
  <2>2. ~raced /\ worker[c].event.kind = "brain" /\ hot' = hot /\ summaries' = summaries
    BY <1>5, <2>1 DEF WriteBrain
  <2>3. ~HasSummary(c) /\ ~HasSummary(c)' /\ \A d \in Consumers \ {c} : HasSummary(d)' <=> HasSummary(d)
    BY <2>1, <2>2, WaitsForNothing DEF HasSummary, WaitingKind
  <2>4. \A d \in Consumers \ {c} : ~worker'[d].stale => ~worker[d].stale
    BY <2>1
  <2>5. \A d \in Consumers \ {c} : worker'[d].event = worker[d].event
    BY <2>1
  <2> QED BY <1>0, <2>2, <2>3, <2>4, <2>5 DEF SummaryInv
<1>6. ASSUME NEW c \in Consumers, HandlerFails(c) PROVE SummaryInv'
  BY <1>0, <1>6, HandlerFailsEffect
<1>7. ASSUME Expire \/ UNCHANGED vars PROVE SummaryInv'
  BY <1>1, <1>7 DEF Expire, vars, tableVars, busVars
<1>8. ASSUME NEW c \in Consumers, Claim(c) PROVE SummaryInv'
  BY <1>1, <1>8 DEF Claim, tableVars
<1> QED BY CalmSteps, <1>2, <1>3, <1>4, <1>5, <1>6, <1>7, <1>8 DEF ConsumerStep

(* A consumer that no other has overtaken has read the rows there are, and *)
(* so of each key at most one row is active.                               *)
ReadsAreCurrent ==
  \A c \in Consumers : worker[c].event.kind = "brain" /\ ~worker[c].stale =>
    \A k \in 1..Len(worker[c].event.candidates) :
      worker[c].read[k] = existing_row(brain, worker[c].event.candidates[k].key)
CurrentInv == (~raced => OneActive(brain)) /\ ReadsAreCurrent

(* Rows written by a consumer that none has overtaken are current.         *)
LEMMA WriteIsCurrent ==
  ASSUME StateInv, CurrentInv, NEW c \in Consumers, WriteBrain(c), ~raced, ~worker[c].stale
  PROVE  /\ OneActive(brain')
         /\ \A k \in 1..Len(worker[c].event.candidates) :
              Remembered(brain', worker[c].event.candidates[k])
         /\ \A x : /\ Remembered(brain, x)
                   /\ \A k \in 1..Len(worker[c].event.candidates) :
                        worker[c].event.candidates[k].key # x.key
                   => Remembered(brain', x)
<1> DEFINE cs == worker[c].event.candidates
           read == worker[c].read
           source == worker[c].event.row
<1>1. cs \in Seq(Proposal) /\ Distinct(cs) /\ source \in Nat
  BY WorkerType DEF StateInv
<1>2. Sound(brain) /\ OneActive(brain)
  BY DEF StateInv, RowInv, CurrentInv
<1>3. worker[c].event.kind = "brain" /\ brain' = saved_brain(brain, cs, read, source)
  BY DEF WriteBrain
<1>4. \A k \in 1..Len(cs) : read[k] = existing_row(brain, cs[k].key)
  BY <1>3 DEF CurrentInv, ReadsAreCurrent
<1> DEFINE new == saved_brain(brain, cs, read, source)
<1> HIDE DEF cs, read, source
<1>5. /\ OneActive(new) /\ \A k \in 1..Len(cs) : Remembered(new, cs[k])
      /\ \A x : Remembered(brain, x) /\ (\A k \in 1..Len(cs) : cs[k].key # x.key) => Remembered(new, x)
  BY <1>1, <1>2, <1>4, SavedBrainIsCurrent
<1>6. brain' = new
  BY <1>3 DEF cs, read, source
<1> HIDE DEF new
<1> QED BY <1>5, <1>6 DEF cs

LEMMA CurrentStep ==
  ASSUME StateInv, CurrentInv, [Next]_vars
  PROVE  CurrentInv'
<1>0. TypeInv /\ RowInv
  BY DEF StateInv
<1>1. ASSUME worker' = worker, raced' = raced, brain' = brain PROVE CurrentInv'
  BY <1>1 DEF CurrentInv, ReadsAreCurrent
<1>2. ASSUME NEW t \in Turn, Begin(t) \/ TurnStep(t) \/ Reply(t) \/ Abort(t) \/ FinalizerStep(t)
      PROVE  CurrentInv'
  BY <1>0, <1>1, <1>2, ConsumersRest
<1>3. ASSUME NEW c \in Consumers, Take(c) PROVE CurrentInv'
  <2>1. PICK event \in EventSet :
           /\ worker'[c] \in WorkerSet /\ worker'[c].event = event /\ worker'[c].stale = FALSE
           /\ Len(worker'[c].read) = Len(event.candidates)
           /\ \A k \in 1..Len(event.candidates) :
                /\ worker'[c].read[k] = existing_row(brain, event.candidates[k].key)
                /\ Refers(brain, worker'[c].read[k], event.candidates[k])
           /\ worker' \in [Consumers -> WorkerSet] /\ \A d \in Consumers \ {c} : worker'[d] = worker[d]
           /\ \/ event.kind = "summary" /\ hot' = [hot EXCEPT !.summary = event.summary]
              \/ event.kind = "brain" /\ hot' = hot
    BY <1>0, <1>3, TakeEffect
  <2>2. raced' = raced /\ brain' = brain
    BY <1>3 DEF Take, tableVars
  <2>3. ReadsAreCurrent'
    BY <2>1, <2>2 DEF CurrentInv, ReadsAreCurrent
  <2> QED BY <2>2, <2>3 DEF CurrentInv
<1>4. ASSUME NEW c \in Consumers, WriteSummary(c) PROVE CurrentInv'
  <2>1. /\ worker'[c] = Waiting
        /\ \A d \in Consumers \ {c} :
              /\ worker'[d].event = worker[d].event /\ worker'[d].read = worker[d].read
              /\ worker'[d].stale = (worker[d].stale \/ worker[d].event.kind = worker[c].event.kind)
        /\ raced' = (raced \/ worker[c].stale) /\ brain' = brain
    BY <1>0, <1>4, FinishEffect DEF WriteSummary
  <2>2. ReadsAreCurrent'
    BY <2>1, WaitsForNothing DEF CurrentInv, ReadsAreCurrent, WaitingKind
  <2> QED BY <2>1, <2>2 DEF CurrentInv
<1>5. ASSUME NEW c \in Consumers, WriteBrain(c) PROVE CurrentInv'
  <2>1. /\ worker'[c] = Waiting
        /\ \A d \in Consumers \ {c} :
              /\ worker'[d].event = worker[d].event /\ worker'[d].read = worker[d].read
              /\ worker'[d].stale = (worker[d].stale \/ worker[d].event.kind = worker[c].event.kind)
        /\ raced' = (raced \/ worker[c].stale) /\ worker[c].event.kind = "brain"
    BY <1>0, <1>5, FinishEffect DEF WriteBrain
  <2>2. ReadsAreCurrent'
    BY <2>1, WaitsForNothing DEF ReadsAreCurrent, WaitingKind
  <2>3. ASSUME ~raced' PROVE OneActive(brain')
    BY <1>5, <2>1, <2>3, WriteIsCurrent
  <2> QED BY <2>2, <2>3 DEF CurrentInv
<1>6. ASSUME NEW c \in Consumers, HandlerFails(c) PROVE CurrentInv'
  <2>1. /\ worker'[c] = Waiting /\ \A d \in Consumers \ {c} : worker'[d] = worker[d]
        /\ brain' = brain /\ raced' = raced
    BY <1>6, HandlerFailsEffect
  <2>2. ReadsAreCurrent'
    BY <2>1, WaitsForNothing DEF CurrentInv, ReadsAreCurrent, WaitingKind
  <2> QED BY <2>1, <2>2 DEF CurrentInv
<1>7. ASSUME Expire \/ UNCHANGED vars PROVE CurrentInv'
  BY <1>1, <1>7 DEF Expire, vars, tableVars, busVars
<1>8. ASSUME Restart PROVE CurrentInv'
  <2>1. (\A c \in Consumers : worker'[c] = Waiting) /\ brain' = brain /\ raced' = raced
    BY <1>0, <1>8, RestartEffect DEF Restart, tableVars
  <2>2. ReadsAreCurrent'
    BY <2>1, WaitsForNothing DEF ReadsAreCurrent, WaitingKind
  <2> QED BY <2>1, <2>2 DEF CurrentInv
<1>9. ASSUME ResetData PROVE CurrentInv'
  <2>1. /\ \A c \in Consumers :
              /\ worker'[c].event = worker[c].event
              /\ \A k \in 1..Len(worker[c].read) : worker'[c].read[k] = NoRow
        /\ brain' = <<>>
    BY <1>0, <1>9, ResetEffect
  <2>2. \A key : existing_row(<<>>, key) = NoRow
    <3>1. \A key : ActiveRows(<<>>, key) = {}
      BY DEF ActiveRows
    <3> QED BY <3>1 DEF existing_row
  <2>3. \A c \in Consumers : Len(worker[c].read) = Len(worker[c].event.candidates)
    BY <1>0 DEF RowInv
  <2>4. ReadsAreCurrent'
    BY <2>1, <2>2, <2>3 DEF ReadsAreCurrent
  <2>5. OneActive(brain')
    BY <2>1 DEF OneActive
  <2> QED BY <2>4, <2>5 DEF CurrentInv
<1>10. ASSUME NEW c \in Consumers, Claim(c) PROVE CurrentInv'
  BY <1>1, <1>10 DEF Claim, tableVars
<1> QED BY StepsOfNext, <1>2, <1>3, <1>4, <1>5, <1>6, <1>7, <1>8, <1>9, <1>10 DEF ConsumerStep

BrainTableInv == TableInv /\ SummaryInv /\ CurrentInv

LEMMA BrainTableAtInit == Init => BrainTableInv
<1> SUFFICES ASSUME Init PROVE BrainTableInv
  OBVIOUS
<1>1. /\ \A c \in Consumers : worker[c] = Waiting
      /\ hot.summary = NoTurn /\ summaries = <<>> /\ brain = <<>>
  BY DEF Init, Cold
<1>2. SummaryInv
  BY <1>1, WaitsForNothing DEF SummaryInv, HasSummary, NewestOf, WaitingKind
<1>3. CurrentInv
  BY <1>1, WaitsForNothing DEF CurrentInv, ReadsAreCurrent, OneActive, WaitingKind
<1> QED BY <1>2, <1>3, TableAtInit DEF BrainTableInv

LEMMA BrainTableStep == BrainTableInv /\ [Next]_vars => BrainTableInv'
<1> SUFFICES ASSUME BrainTableInv, [Next]_vars PROVE BrainTableInv'
  OBVIOUS
<1>1. TableInv /\ StateInv /\ GateInv /\ CalmInv /\ SummaryInv /\ CurrentInv
  BY DEF BrainTableInv, TableInv, SightInv
<1>2. TableInv'
  BY <1>1, TableStep
<1> QED BY <1>1, <1>2, SummaryStep, CurrentStep DEF BrainTableInv

THEOREM BrainTableIsKept == Spec => []BrainTableInv
BY BrainTableAtInit, BrainTableStep, PTL DEF Spec

(* All is written, nothing failed, no two consumers wrote summaries at     *)
(* once: what the process answers with is the last row of the table        *)
(* (storage/store.rs:157).                                                 *)
THEOREM TheHotSummaryIsStored == Spec => []HotSummaryIsStored
<1>1. BrainTableInv => HotSummaryIsStored
  <2> SUFFICES ASSUME BrainTableInv, Quiet, disturbed = 0, ~raced
               PROVE  hot.summary = NewestOf(summaries)
    BY DEF HotSummaryIsStored
  <2>1. \A c \in Consumers : ~HasSummary(c)
    BY WaitsForNothing DEF Quiet, HasSummary, WaitingKind
  <2> QED BY <2>1 DEF BrainTableInv, SummaryInv
<1> QED BY <1>1, BrainTableIsKept, PTL

(* Whatever is restarted, redelivered or lost, what is superseded leads to *)
(* a later row about the same, of which one is active; and unless two      *)
(* consumers raced it is the only one (postgres.rs:1511).                  *)
THEOREM MemoriesAreSuperseded == Spec => []OneMemoryIsActive
<1>1. BrainTableInv => OneMemoryIsActive
  <2> SUFFICES ASSUME BrainTableInv PROVE OneMemoryIsActive
    OBVIOUS
  <2>1. Sound(brain) /\ CurrentInv
    BY DEF BrainTableInv, TableInv, SightInv, StateInv, RowInv
  <2>2. DOMAIN brain = 1..Len(brain)
    BY <2>1 DEF Sound
  <2> SUFFICES ASSUME NEW i \in 1..Len(brain)
               PROVE  LET actives == ActiveRows(brain, brain[i].key)
                      IN  /\ actives # {} /\ (Cardinality(actives) = 1 \/ raced)
                          /\ brain[i].status = "superseded" =>
                               /\ brain[i].superseded_by \in (i + 1)..Len(brain)
                               /\ brain[brain[i].superseded_by].key = brain[i].key
    BY <2>2 DEF OneMemoryIsActive
  <2> DEFINE actives == ActiveRows(brain, brain[i].key)
  <2>3. PICK j \in 1..Len(brain) : brain[j].key = brain[i].key /\ brain[j].status = "active"
    BY <2>1 DEF Sound, Kept
  <2>4. j \in actives
    BY <2>2, <2>3 DEF ActiveRows
  <2>5. ASSUME ~raced PROVE Cardinality(actives) = 1
    <3>1. actives = {j}
      BY <2>1, <2>2, <2>3, <2>4, <2>5 DEF ActiveRows, CurrentInv, OneActive
    <3> QED BY <3>1, FS_Singleton
  <2>6. brain[i].status = "superseded" =>
          /\ brain[i].superseded_by \in (i + 1)..Len(brain)
          /\ brain[brain[i].superseded_by].key = brain[i].key
    BY <2>1 DEF Sound, Chained
  <2> QED BY <2>4, <2>5, <2>6
<1> QED BY <1>1, BrainTableIsKept, PTL

-----------------------------------------------------------------------------
(* The fifth layer: what was captured of the turns is written              *)

(* A finalizer captures what it captures at its end.                       *)
CapturedAtEnd == \A t \in Turn : finalizer[t].captured # <<>> => finalizer[t].step = "done"

LEMMA FinalizersGoOn ==
  ASSUME StateInv, GateInv, [Next]_vars, NEW u \in Turn
  PROVE  /\ finalizer[u].step = "done" => /\ finalizer'[u].step = "done"
                                          /\ finalizer'[u].captured = finalizer[u].captured
         /\ finalizer'[u].captured = finalizer[u].captured \/ finalizer'[u].step = "done"
<1>0. TypeInv
  BY DEF StateInv
<1> DEFINE GoesOn == /\ finalizer[u].step = "done" => /\ finalizer'[u].step = "done"
                                                      /\ finalizer'[u].captured = finalizer[u].captured
                     /\ finalizer'[u].captured = finalizer[u].captured \/ finalizer'[u].step = "done"
<1>1. ASSUME finalizer'[u] = finalizer[u] PROVE GoesOn
  BY <1>1
<1>2. ASSUME NEW t \in Turn, Begin(t) \/ TurnStep(t) \/ Abort(t) PROVE GoesOn
  BY <1>0, <1>1, <1>2, TurnStepMoves, AbortMoves DEF Begin
<1>3. ASSUME NEW t \in Turn, Reply(t) PROVE GoesOn
  <2>1. OnlyFinalizer(t) /\ turn[t].stage = "reply"
    BY <1>0, <1>3, ReplyMoves
  <2>2. finalizer[t].step = "none" /\ finalizer'[t].captured = finalizer[t].captured
    BY <1>0, <1>3, <2>1, ReplyFinalizer DEF GateInv, Spawned
  <2>3. CASE u = t
    BY <2>2, <2>3
  <2>4. CASE u # t
    BY <1>1, <2>1, <2>4 DEF OnlyFinalizer
  <2> QED BY <2>3, <2>4
<1>4. ASSUME NEW t \in Turn, FinalizerStep(t) PROVE GoesOn
  <2>1. OnlyFinalizer(t)
    BY <1>0, <1>4, FinalizerMoves
  <2>2. CASE u # t
    BY <1>1, <2>1, <2>2 DEF OnlyFinalizer
  <2>3. CASE u = t
    <3>1. CASE StoreUserTurn(t)
      BY <1>0, <2>3, <3>1, StoreUserEffect DEF StoreUserTurn
    <3>2. CASE StoreAssistantTurn(t)
      BY <1>0, <2>3, <3>2, StoreAssistantEffect DEF StoreAssistantTurn
    <3>3. CASE CountTurns(t)
      BY <1>0, <2>3, <3>3, CountEffect DEF CountTurns
    <3>4. CASE Summarize(t)
      BY <1>0, <2>3, <3>4, SummarizeEffect DEF Summarize
    <3>5. CASE QueueSummary(t)
      BY <1>0, <2>3, <3>5, QueueSummaryEffect DEF QueueSummary
    <3>6. CASE QueueBrain(t)
      <4>1. finalizer'[t].step = "done"
        BY <1>0, <3>6, QueueBrainEffect
      <4> QED BY <2>3, <3>6, <4>1 DEF QueueBrain
    <3> QED BY <1>4, <3>1, <3>2, <3>3, <3>4, <3>5, <3>6 DEF FinalizerStep
  <2> QED BY <2>2, <2>3
<1>5. ASSUME NEW c \in Consumers, ConsumerStep(c) PROVE GoesOn
  BY <1>0, <1>1, <1>5, ConsumerMoves
<1>6. ASSUME Expire \/ ResetData \/ UNCHANGED vars PROVE GoesOn
  BY <1>1, <1>6 DEF Expire, ResetData, vars, turnVars
<1>7. ASSUME Restart PROVE GoesOn
  <2> DEFINE F(t) == IF finalizer[t].step \in {"none", "done", "panicked"}
                     THEN finalizer[t] ELSE [finalizer[t] EXCEPT !.step = "lost"]
  <2>1. finalizer' = [t \in Turn |-> F(t)]
    BY <1>7 DEF Restart
  <2>2. finalizer[u] \in FinalizerSet
    BY <1>0, FinalizerIsTyped
  <2>3. F(u).captured = finalizer[u].captured /\ (finalizer[u].step = "done" => F(u).step = "done")
    BY <2>2 DEF FinalizerSet
  <2> HIDE DEF F
  <2>4. finalizer'[u] = F(u)
    BY <2>1
  <2> QED BY <2>3, <2>4
<1> QED BY StepsOfNext, <1>2, <1>3, <1>4, <1>5, <1>6, <1>7

LEMMA CapturedStep ==
  ASSUME StateInv, GateInv, CapturedAtEnd, [Next]_vars
  PROVE  CapturedAtEnd'
BY FinalizersGoOn DEF CapturedAtEnd

(* The memories on the bus, and those that consumers have, are what was    *)
(* captured of a turn whose finalizer has ended.                           *)
Ended(t) == t \in Turn /\ finalizer[t].step = "done"
Known(e) == e.kind = "brain" => Ended(e.of) /\ e.candidates = finalizer[e.of].captured
KnownInv == /\ \A i \in 1..Len(bus) : Known(bus[i])
            /\ \A c \in Consumers : Known(worker[c].event)
            /\ \A c \in Consumers : \A k \in 1..Len(claimed[c]) : Known(claimed[c][k])

LEMMA KnownStays ==
  ASSUME StateInv, GateInv, [Next]_vars, NEW e, Known(e)
  PROVE  e.kind = "brain" => /\ e.of \in Turn /\ finalizer'[e.of].step = "done"
                             /\ e.candidates = finalizer'[e.of].captured
BY FinalizersGoOn DEF Known, Ended

(* Where the events come from that are on the bus after a step.            *)
LEMMA BusOf ==
  ASSUME StateInv, [Next]_vars, NEW i \in 1..Len(bus')
  PROVE  \/ \E j \in 1..Len(bus) : bus'[i] = bus[j]
         \/ bus'[i].kind = "summary"
         \/ \E t \in Turn : /\ finalizer'[t].step = "done" /\ bus'[i].of = t
                            /\ bus'[i].candidates = finalizer'[t].captured
<1>0. TypeInv /\ bus \in Seq(EventSet) /\ Len(bus) \in Nat
  BY DEF StateInv, TypeInv
<1>1. ASSUME bus' = bus PROVE \E j \in 1..Len(bus) : bus'[i] = bus[j]
  BY <1>1
<1>2. ASSUME NEW e, bus' = Append(bus, e) PROVE bus'[i] = e \/ \E j \in 1..Len(bus) : bus'[i] = bus[j]
  <2>1. /\ Len(bus') = Len(bus) + 1 /\ bus'[Len(bus) + 1] = e
        /\ \A j \in 1..Len(bus) : bus'[j] = bus[j]
    BY <1>0, <1>2
  <2> QED BY <1>0, <2>1
<1>3. ASSUME NEW e, Removes(e) PROVE \E j \in 1..Len(bus) : bus'[i] = bus[j]
  <2>1. PICK k \in 1..Len(bus) :
          /\ bus[k] = e /\ Len(bus') = Len(bus) - 1
          /\ \A j \in 1..(Len(bus) - 1) : bus'[j] = IF j < k THEN bus[j] ELSE bus[j + 1]
    BY <1>3 DEF Removes
  <2>2. i \in 1..(Len(bus) - 1) /\ i \in 1..Len(bus) /\ i + 1 \in 1..Len(bus)
    BY <1>0, <2>1
  <2> QED BY <2>1, <2>2
<1>4. ASSUME NEW t \in Turn, Begin(t) \/ TurnStep(t) \/ Reply(t) \/ Abort(t) PROVE bus' = bus
  BY <1>4 DEF Begin, TurnStep, LoadSnapshot, FillCache, SearchBrain, RecentBrain, Reply, Abort, busVars
<1>5. ASSUME NEW t \in Turn,
             StoreUserTurn(t) \/ StoreAssistantTurn(t) \/ CountTurns(t) \/ Summarize(t)
      PROVE  bus' = bus
  BY <1>5 DEF StoreUserTurn, StoreAssistantTurn, CountTurns, Summarize, busVars
<1>6. ASSUME NEW t \in Turn, QueueSummary(t)
      PROVE  bus' = bus \/ \E e : e.kind = "summary" /\ bus' = Append(bus, e)
  <2> DEFINE e == [AtRest EXCEPT !.kind = "summary", !.of = t, !.summary = finalizer[t].summary]
  <2>1. e.kind = "summary"
    BY DEF AtRest
  <2>2. bus' = bus \/ bus' = Append(bus, e)
    BY <1>6 DEF QueueSummary, Queue
  <2> HIDE DEF e
  <2> QED BY <2>1, <2>2
<1>7. ASSUME NEW t \in Turn, QueueBrain(t)
      PROVE  \/ bus' = bus
             \/ \E e : /\ finalizer'[t].step = "done" /\ e.of = t /\ e.candidates = finalizer'[t].captured
                       /\ bus' = Append(bus, e)
  BY <1>0, <1>7, QueueBrainEffect
<1>8. ASSUME NEW c \in Consumers, Claim(c) \/ Take(c) \/ HandlerFails(c) PROVE bus' = bus
  BY <1>8 DEF Claim, Take, HandlerFails
<1>9. ASSUME NEW c \in Consumers, WriteSummary(c) \/ WriteBrain(c)
      PROVE  bus' = bus \/ Removes(worker[c].event)
  BY <1>0, <1>9, SummaryIsAcknowledged, AcknowledgeEffect DEF WriteBrain
<1>10. ASSUME Expire \/ Restart \/ UNCHANGED vars PROVE bus' = bus
  BY <1>10 DEF Expire, Restart, vars, busVars
<1>11. ASSUME ResetData PROVE FALSE
  BY <1>11 DEF ResetData
<1>12. ASSUME NEW t \in Turn, FinalizerStep(t)
       PROVE  \/ \E j \in 1..Len(bus) : bus'[i] = bus[j]
              \/ bus'[i].kind = "summary"
              \/ \E u \in Turn : /\ finalizer'[u].step = "done" /\ bus'[i].of = u
                                 /\ bus'[i].candidates = finalizer'[u].captured
  <2>1. CASE QueueSummary(t)
    BY <2>1, <1>1, <1>2, <1>6
  <2>2. CASE QueueBrain(t)
    BY <2>2, <1>1, <1>2, <1>7
  <2> QED BY <1>12, <2>1, <2>2, <1>1, <1>5 DEF FinalizerStep
<1>13. ASSUME NEW c \in Consumers, ConsumerStep(c) PROVE \E j \in 1..Len(bus) : bus'[i] = bus[j]
  BY <1>13, <1>1, <1>3, <1>8, <1>9 DEF ConsumerStep
<1> QED BY StepsOfNext, <1>1, <1>4, <1>10, <1>11, <1>12, <1>13

(* Where those come from that consumers have.                              *)
LEMMA WorkersOf ==
  ASSUME StateInv, [Next]_vars, NEW c \in Consumers
  PROVE  \/ worker'[c].event.kind = "none"
         \/ worker'[c].event = worker[c].event
         \/ \E k \in 1..Len(claimed[c]) : worker'[c].event = claimed[c][k]
<1>0. TypeInv /\ RowInv
  BY DEF StateInv
<1>1. ASSUME worker' = worker PROVE worker'[c].event = worker[c].event
  BY <1>1
<1>2. ASSUME NEW t \in Turn, Begin(t) \/ TurnStep(t) \/ Reply(t) \/ Abort(t) \/ FinalizerStep(t)
      PROVE  worker' = worker
  BY <1>0, <1>2, ConsumersRest
<1>3. ASSUME NEW d \in Consumers, Claim(d) PROVE worker' = worker
  BY <1>3 DEF Claim
<1>4. ASSUME NEW d \in Consumers, Take(d)
      PROVE  \/ worker'[c].event = worker[c].event
             \/ \E k \in 1..Len(claimed[c]) : worker'[c].event = claimed[c][k]
  <2>1. /\ Len(claimed[d]) > 0 /\ worker'[d].event = claimed[d][1]
        /\ \A x \in Consumers \ {d} : worker'[x] = worker[x]
    BY <1>0, <1>4, TakeEffect
  <2>2. Len(claimed[d]) \in Nat
    BY <1>0 DEF TypeInv
  <2>3. 1 \in 1..Len(claimed[d])
    BY <2>1, <2>2
  <2> QED BY <2>1, <2>3
<1>5. ASSUME NEW d \in Consumers, WriteSummary(d) \/ WriteBrain(d)
      PROVE  worker'[c].event.kind = "none" \/ worker'[c].event = worker[c].event
  <2>1. /\ worker'[d] = Waiting
        /\ \A x \in Consumers \ {d} : worker'[x].event = worker[x].event
    BY <1>0, <1>5, FinishEffect DEF WriteSummary, WriteBrain
  <2> QED BY <2>1, WaitsForNothing DEF WaitingKind
<1>6. ASSUME NEW d \in Consumers, HandlerFails(d)
      PROVE  worker'[c].event.kind = "none" \/ worker'[c].event = worker[c].event
  <2>1. worker'[d] = Waiting /\ \A x \in Consumers \ {d} : worker'[x] = worker[x]
    BY <1>6, HandlerFailsEffect
  <2> QED BY <2>1, WaitsForNothing DEF WaitingKind
<1>7. ASSUME Expire \/ UNCHANGED vars PROVE worker' = worker
  BY <1>7 DEF Expire, vars, busVars
<1>8. ASSUME Restart PROVE worker'[c].event.kind = "none"
  BY <1>0, <1>8, RestartEffect, WaitsForNothing DEF WaitingKind
<1>9. ASSUME ResetData PROVE worker'[c].event = worker[c].event
  BY <1>0, <1>9, ResetEffect
<1> QED BY StepsOfNext, <1>1, <1>2, <1>3, <1>4, <1>5, <1>6, <1>7, <1>8, <1>9 DEF ConsumerStep

LEMMA ClaimedOf ==
  ASSUME StateInv, [Next]_vars, NEW c \in Consumers, NEW k \in 1..Len(claimed'[c])
  PROVE  \/ \E i \in 1..Len(bus) : claimed'[c][k] = bus[i]
         \/ \E l \in 1..Len(claimed[c]) : claimed'[c][k] = claimed[c][l]
<1>0. TypeInv /\ RowInv
  BY DEF StateInv
<1>1. ASSUME claimed'[c] = claimed[c] \/ claimed'[c] = <<>>
      PROVE  \E l \in 1..Len(claimed[c]) : claimed'[c][k] = claimed[c][l]
  BY <1>1
<1>2. ASSUME NEW t \in Turn, Begin(t) \/ TurnStep(t) \/ Reply(t) \/ Abort(t) \/ FinalizerStep(t)
      PROVE  claimed' = claimed
  BY <1>0, <1>2, ConsumersRest
<1>3. ASSUME NEW d \in Consumers, Claim(d)
      PROVE  claimed'[c] = claimed[c] \/ \E i \in 1..Len(bus) : claimed'[c][k] = bus[i]
  BY <1>0, <1>3, ClaimEffect
<1>4. ASSUME NEW d \in Consumers, Take(d)
      PROVE  claimed'[c] = claimed[c] \/ \E l \in 1..Len(claimed[c]) : claimed'[c][k] = claimed[c][l]
  <2>1. /\ \A x \in Consumers \ {d} : claimed'[x] = claimed[x]
        /\ \A l \in 1..Len(claimed'[d]) :
             l + 1 \in 1..Len(claimed[d]) /\ claimed'[d][l] = claimed[d][l + 1]
    BY <1>0, <1>4, TakeEffect
  <2> QED BY <2>1
<1>5. ASSUME NEW d \in Consumers, WriteSummary(d) \/ WriteBrain(d) \/ HandlerFails(d)
      PROVE  claimed'[c] = claimed[c] \/ claimed'[c] = <<>>
  <2>1. Leaves(d)
    BY <1>0, <1>5, SummaryIsAcknowledged, AcknowledgeEffect, LeavesEffect DEF WriteBrain, HandlerFails
  <2> QED BY <2>1 DEF Leaves
<1>6. ASSUME Expire \/ ResetData \/ UNCHANGED vars PROVE claimed' = claimed
  BY <1>6 DEF Expire, ResetData, vars, busVars
<1>7. ASSUME Restart PROVE claimed'[c] = <<>>
  BY <1>7 DEF Restart
<1> QED BY StepsOfNext, <1>1, <1>2, <1>3, <1>4, <1>5, <1>6, <1>7 DEF ConsumerStep

LEMMA KnownStep ==
  ASSUME StateInv, GateInv, KnownInv, [Next]_vars
  PROVE  KnownInv'
<1>1. ASSUME NEW e, Known(e), e.kind = "brain"
      PROVE  e.of \in Turn /\ finalizer'[e.of].step = "done" /\ e.candidates = finalizer'[e.of].captured
  BY <1>1, KnownStays
<1>2. ASSUME NEW i \in 1..Len(bus') PROVE Known(bus[i])'
  BY <1>1, BusOf DEF KnownInv, Known, Ended
<1>3. ASSUME NEW c \in Consumers PROVE Known(worker[c].event)'
  BY <1>1, WorkersOf DEF KnownInv, Known, Ended
<1>4. ASSUME NEW c \in Consumers, NEW k \in 1..Len(claimed'[c]) PROVE Known(claimed[c][k])'
  <2>1. ASSUME NEW e, Known(e), claimed'[c][k] = e PROVE Known(claimed[c][k])'
    BY <1>1, <2>1 DEF Known, Ended
  <2>2. CASE \E i \in 1..Len(bus) : claimed'[c][k] = bus[i]
    BY <2>1, <2>2 DEF KnownInv
  <2>3. CASE \E l \in 1..Len(claimed[c]) : claimed'[c][k] = claimed[c][l]
    BY <2>1, <2>3 DEF KnownInv
  <2> QED BY <2>2, <2>3, ClaimedOf
<1> QED BY <1>2, <1>3, <1>4 DEF KnownInv

(* What was written last of a thing is remembered, if no two consumers     *)
(* handled memories at once.                                               *)
SaidAgain(i, key) ==
  \E j \in 1..Len(written) :
    j > i /\ \E k \in 1..Len(finalizer[written[j]].captured) :
               finalizer[written[j]].captured[k].key = key
WordsKept ==
  \A i \in 1..Len(written) : \A k \in 1..Len(finalizer[written[i]].captured) :
    \/ SaidAgain(i, finalizer[written[i]].captured[k].key)
    \/ Remembered(brain, finalizer[written[i]].captured[k])
WordInv == (\A i \in 1..Len(written) : Ended(written[i])) /\ (~raced => WordsKept)

LEMMA WordsRest ==
  ASSUME StateInv, GateInv, WordInv, [Next]_vars,
         written' = written, brain' = brain, raced => raced'
  PROVE  WordInv'
<1>1. \A i \in 1..Len(written) :
        /\ written[i] \in Turn /\ finalizer'[written[i]].step = "done"
        /\ finalizer'[written[i]].captured = finalizer[written[i]].captured
  BY FinalizersGoOn DEF WordInv, Ended
<1>2. ASSUME ~raced' PROVE WordsKept'
  <2>1. WordsKept
    BY <1>2 DEF WordInv
  <2> SUFFICES ASSUME NEW i \in 1..Len(written), NEW k \in 1..Len(finalizer[written[i]].captured)
               PROVE  \/ SaidAgain(i, finalizer[written[i]].captured[k].key)'
                      \/ Remembered(brain, finalizer[written[i]].captured[k])'
    BY <1>1 DEF WordsKept
  <2>2. CASE Remembered(brain, finalizer[written[i]].captured[k])
    BY <1>1, <2>2 DEF Remembered
  <2>3. CASE SaidAgain(i, finalizer[written[i]].captured[k].key)
    BY <1>1, <2>3 DEF SaidAgain
  <2> QED BY <2>1, <2>2, <2>3 DEF WordsKept
<1>3. \A i \in 1..Len(written') : Ended(written[i])'
  BY <1>1 DEF Ended
<1> QED BY <1>2, <1>3 DEF WordInv

LEMMA WordsWritten ==
  ASSUME StateInv, GateInv, CurrentInv, KnownInv, WordInv, NEW c \in Consumers, WriteBrain(c)
  PROVE  WordInv'
<1> DEFINE u == worker[c].event.of
           n == Len(written)
           cs == worker[c].event.candidates
<1>0. TypeInv
  BY DEF StateInv
<1>1. /\ worker[c].event.kind = "brain" /\ written' = Append(written, u) /\ finalizer' = finalizer
  BY DEF WriteBrain, turnVars
<1>2. Ended(u) /\ cs = finalizer[u].captured
  BY <1>1 DEF KnownInv, Known
<1>3. /\ n \in Nat /\ Len(written') = n + 1 /\ written'[n + 1] = u
      /\ \A i \in 1..n : written'[i] = written[i]
  BY <1>0, <1>1 DEF TypeInv
<1> HIDE DEF u, n
<1>4. ASSUME NEW i \in 1..(n + 1) PROVE i = n + 1 \/ i \in 1..n
  BY <1>3
<1>5. \A i \in 1..Len(written') : Ended(written[i])'
  BY <1>1, <1>2, <1>3, <1>4 DEF WordInv, Ended, n
<1>6. ASSUME ~raced' PROVE WordsKept'
  <2>1. ~raced /\ ~worker[c].stale
    BY <1>6 DEF WriteBrain, Finish
  <2>2. /\ \A k \in 1..Len(cs) : Remembered(brain', cs[k])
        /\ \A x : /\ Remembered(brain, x)
                  /\ \A k \in 1..Len(cs) : cs[k].key # x.key
                  => Remembered(brain', x)
    BY <2>1, WriteIsCurrent
  <2> SUFFICES ASSUME NEW i \in 1..(n + 1), NEW k \in 1..Len(finalizer[written'[i]].captured)
               PROVE  \/ SaidAgain(i, finalizer[written[i]].captured[k].key)'
                      \/ Remembered(brain, finalizer[written[i]].captured[k])'
    BY <1>1, <1>3 DEF WordsKept
  <2> DEFINE word == finalizer[written'[i]].captured[k]
  <2>3. CASE i = n + 1
    <3>1. finalizer[written'[i]].captured = cs
      BY <1>2, <1>3, <2>3
    <3>2. Remembered(brain', word)
      BY <2>2, <3>1
    <3> QED BY <1>1, <3>2 DEF Remembered
  <2>4. CASE i \in 1..n
    <3>1. written'[i] = written[i] /\ k \in 1..Len(finalizer[written[i]].captured)
      BY <1>3, <2>4
    <3>2. SaidAgain(i, word.key) \/ Remembered(brain, word)
      BY <2>1, <2>4, <3>1 DEF WordInv, WordsKept, n
    <3>3. CASE SaidAgain(i, word.key)
      <4>1. PICK j \in 1..n : j > i /\ \E l \in 1..Len(finalizer[written[j]].captured) :
                                         finalizer[written[j]].captured[l].key = word.key
        BY <3>3 DEF SaidAgain, n
      <4>2. j \in 1..Len(written') /\ written'[j] = written[j]
        BY <1>3, <4>1
      <4> QED BY <1>1, <4>1, <4>2 DEF SaidAgain
    <3>4. CASE Remembered(brain, word) /\ \E l \in 1..Len(cs) : cs[l].key = word.key
      <4>1. n + 1 \in 1..Len(written') /\ n + 1 > i
        BY <1>3, <2>4
      <4>2. finalizer'[written'[n + 1]].captured = cs
        BY <1>1, <1>2, <1>3
      <4>3. \E l \in 1..Len(finalizer'[written'[n + 1]].captured) :
              finalizer'[written'[n + 1]].captured[l].key = word.key
        BY <3>4, <4>2
      <4>4. finalizer'[written'[i]].captured[k].key = word.key
        BY <1>1
      <4> QED BY <4>1, <4>3, <4>4 DEF SaidAgain
    <3>5. CASE Remembered(brain, word) /\ \A l \in 1..Len(cs) : cs[l].key # word.key
      <4>1. Remembered(brain', word)
        BY <2>2, <3>5
      <4> QED BY <1>1, <4>1 DEF Remembered
    <3> QED BY <3>2, <3>3, <3>4, <3>5
  <2> QED BY <1>4, <2>3, <2>4
<1> QED BY <1>5, <1>6 DEF WordInv

LEMMA WordStep ==
  ASSUME StateInv, GateInv, CurrentInv, KnownInv, WordInv, [Next]_vars
  PROVE  WordInv'
<1>0. TypeInv
  BY DEF StateInv
<1>1. ASSUME NEW t \in Turn, Begin(t) \/ TurnStep(t) \/ Reply(t) \/ Abort(t) \/ FinalizerStep(t)
      PROVE  WordInv'
  BY <1>0, <1>1, ConsumersRest, WordsRest
<1>2. ASSUME NEW c \in Consumers, Claim(c) \/ Take(c) \/ HandlerFails(c) PROVE WordInv'
  BY <1>2, WordsRest DEF Claim, Take, HandlerFails, tableVars
<1>3. ASSUME NEW c \in Consumers, WriteSummary(c) PROVE WordInv'
  BY <1>3, WordsRest DEF WriteSummary, Finish
<1>4. ASSUME NEW c \in Consumers, WriteBrain(c) PROVE WordInv'
  BY <1>4, WordsWritten
<1>5. ASSUME Expire \/ Restart \/ UNCHANGED vars PROVE WordInv'
  <2>1. CASE Expire
    <3>1. written' = written /\ brain' = brain /\ raced' = raced
      BY <2>1 DEF Expire, tableVars, busVars
    <3> QED BY <3>1, WordsRest
  <2>2. CASE Restart
    <3>1. written' = written /\ brain' = brain /\ raced' = raced
      BY <2>2 DEF Restart, tableVars
    <3> QED BY <3>1, WordsRest
  <2>3. CASE UNCHANGED vars
    <3>1. written' = written /\ brain' = brain /\ raced' = raced
      BY <2>3 DEF vars, tableVars, busVars
    <3> QED BY <3>1, WordsRest
  <2> QED BY <1>5, <2>1, <2>2, <2>3
<1>6. ASSUME ResetData PROVE WordInv'
  <2>1. written' = <<>> /\ Len(<<>>) = 0
    BY <1>6 DEF ResetData
  <2> QED BY <2>1 DEF WordInv, WordsKept
<1> QED BY StepsOfNext, <1>1, <1>2, <1>3, <1>4, <1>5, <1>6 DEF ConsumerStep

(* What was captured of a turn is written or on the bus, unless something  *)
(* failed.                                                                 *)
OnTheBus(t) == \E i \in 1..Len(bus) : bus[i].kind = "brain" /\ bus[i].of = t
IsWritten(t) == \E i \in 1..Len(written) : written[i] = t
PendingInv ==
  disturbed = 0 => \A t \in Turn : finalizer[t].captured # <<>> => IsWritten(t) \/ OnTheBus(t)

(* Nothing leaves the bus but what is written.                             *)
LEMMA StillPending ==
  ASSUME TypeInv, NEW t \in Turn, OnTheBus(t), NEW e, Removes(e), ~(e.kind = "brain" /\ e.of = t)
  PROVE  OnTheBus(t)'
<1>0. Len(bus) \in Nat
  BY DEF TypeInv
<1>1. PICK k \in 1..Len(bus) :
        /\ bus[k] = e /\ Len(bus') = Len(bus) - 1
        /\ \A j \in 1..(Len(bus) - 1) : bus'[j] = IF j < k THEN bus[j] ELSE bus[j + 1]
  BY DEF Removes
<1>2. PICK i \in 1..Len(bus) : bus[i].kind = "brain" /\ bus[i].of = t
  BY DEF OnTheBus
<1>3. i # k
  BY <1>1, <1>2
<1>4. CASE i < k
  <2>1. i \in 1..Len(bus') /\ bus'[i] = bus[i]
    BY <1>0, <1>1, <1>4
  <2> QED BY <1>2, <2>1 DEF OnTheBus
<1>5. CASE i > k
  <2>1. i - 1 \in 1..Len(bus') /\ bus'[i - 1] = bus[i]
    BY <1>0, <1>1, <1>5
  <2> QED BY <1>2, <2>1 DEF OnTheBus
<1> QED BY <1>3, <1>4, <1>5

LEMMA PendingStays ==
  ASSUME NEW t \in Turn, finalizer[t].captured # <<>> => IsWritten(t) \/ OnTheBus(t),
         finalizer'[t].captured = finalizer[t].captured, bus' = bus, written' = written
  PROVE  finalizer'[t].captured # <<>> => IsWritten(t)' \/ OnTheBus(t)'
BY DEF IsWritten, OnTheBus

LEMMA PendingStep ==
  ASSUME StateInv, GateInv, CalmInv, PendingInv, [Next]_vars
  PROVE  PendingInv'
<1> SUFFICES ASSUME disturbed' = 0, NEW u \in Turn
             PROVE  finalizer'[u].captured # <<>> => IsWritten(u)' \/ OnTheBus(u)'
  BY DEF PendingInv
<1>0. TypeInv /\ (finalizer[u].captured # <<>> => IsWritten(u) \/ OnTheBus(u))
      /\ bus \in Seq(EventSet) /\ Len(bus) \in Nat /\ written \in Seq(MaybeTurn)
  BY CalmSteps DEF PendingInv, StateInv, TypeInv
<1> DEFINE Good == finalizer'[u].captured # <<>> => IsWritten(u)' \/ OnTheBus(u)'
<1>1. ASSUME NEW t \in Turn, Begin(t) \/ TurnStep(t) \/ Abort(t) PROVE Good
  <2>1. finalizer' = finalizer
    BY <1>0, <1>1, TurnStepMoves, AbortMoves DEF Begin
  <2>2. bus' = bus /\ written' = written
    BY <1>1 DEF Begin, TurnStep, LoadSnapshot, FillCache, SearchBrain, RecentBrain, Abort, busVars
  <2> QED BY <1>0, <2>1, <2>2, PendingStays
<1>2. ASSUME NEW t \in Turn, OnlyFinalizer(t), finalizer'[t].captured = finalizer[t].captured
      PROVE  finalizer'[u].captured = finalizer[u].captured
  BY <1>2 DEF OnlyFinalizer
<1>3. ASSUME NEW t \in Turn, Reply(t) PROVE Good
  <2>1. finalizer'[u].captured = finalizer[u].captured
    BY <1>0, <1>2, <1>3, ReplyFinalizer
  <2>2. bus' = bus /\ written' = written
    BY <1>3 DEF Reply, busVars
  <2> QED BY <1>0, <2>1, <2>2, PendingStays
<1>4. ASSUME NEW t \in Turn,
             StoreUserTurn(t) \/ StoreAssistantTurn(t) \/ CountTurns(t) \/ Summarize(t)
      PROVE  Good
  <2>1. finalizer'[u].captured = finalizer[u].captured
    BY <1>0, <1>2, <1>4, StoreUserEffect, StoreAssistantEffect, CountEffect, SummarizeEffect
  <2>2. bus' = bus /\ written' = written
    BY <1>4 DEF StoreUserTurn, StoreAssistantTurn, CountTurns, Summarize, busVars
  <2> QED BY <1>0, <2>1, <2>2, PendingStays
<1>5. ASSUME NEW e, bus' = Append(bus, e)
      PROVE  (OnTheBus(u) => OnTheBus(u)') /\ (e.kind = "brain" /\ e.of = u => OnTheBus(u)')
  <2>1. /\ Len(bus') = Len(bus) + 1 /\ bus'[Len(bus) + 1] = e
        /\ \A j \in 1..Len(bus) : bus'[j] = bus[j]
    BY <1>0, <1>5
  <2> QED BY <1>0, <2>1 DEF OnTheBus
<1>6. ASSUME NEW t \in Turn, QueueSummary(t) PROVE Good
  <2>1. finalizer'[u].captured = finalizer[u].captured
    BY <1>0, <1>2, <1>6, QueueSummaryEffect
  <2>2. written' = written /\ (bus' = bus \/ \E e : bus' = Append(bus, e))
    BY <1>6 DEF QueueSummary, Queue
  <2>3. (OnTheBus(u) => OnTheBus(u)') /\ (IsWritten(u) => IsWritten(u)')
    BY <1>5, <2>2 DEF OnTheBus, IsWritten
  <2> QED BY <1>0, <2>1, <2>3
<1>7. ASSUME NEW t \in Turn, QueueBrain(t) PROVE Good
  <2>1. written' = written /\ OnlyFinalizer(t)
    BY <1>0, <1>7, QueueBrainEffect DEF QueueBrain
  <2>2. IsWritten(u) => IsWritten(u)'
    BY <2>1 DEF IsWritten
  <2>3. CASE finalizer'[t].captured = finalizer[t].captured /\ bus' = bus
    BY <1>0, <1>2, <2>1, <2>3, PendingStays
  <2>4. CASE \E e \in EventSet : /\ e.kind = "brain" /\ e.of = t
                                 /\ e.candidates = finalizer'[t].captured
                                 /\ bus' = Append(bus, e)
    BY <1>0, <1>5, <2>1, <2>2, <2>4 DEF OnlyFinalizer
  <2> QED BY <1>0, <1>7, <2>3, <2>4, QueueBrainEffect
<1>8. ASSUME NEW c \in Consumers, Claim(c) \/ Take(c) \/ HandlerFails(c) PROVE Good
  <2>1. finalizer' = finalizer /\ bus' = bus /\ written' = written
    BY <1>8 DEF Claim, Take, HandlerFails, turnVars
  <2> QED BY <1>0, <2>1, PendingStays
<1>9. ASSUME NEW c \in Consumers, WriteSummary(c) PROVE Good
  <2>1. /\ finalizer' = finalizer /\ written' = written /\ worker[c].event.kind = "summary"
    BY <1>9 DEF WriteSummary, turnVars
  <2>2. Removes(worker[c].event) \/ bus' = bus
    BY <1>0, <1>9, SummaryIsAcknowledged
  <2>3. OnTheBus(u) => OnTheBus(u)'
    BY <1>0, <2>1, <2>2, StillPending DEF OnTheBus
  <2>4. IsWritten(u) => IsWritten(u)'
    BY <2>1 DEF IsWritten
  <2> QED BY <1>0, <2>1, <2>3, <2>4
<1>10. ASSUME NEW c \in Consumers, WriteBrain(c) PROVE Good
  <2> DEFINE e == worker[c].event
  <2>1. finalizer' = finalizer /\ written' = Append(written, e.of)
    BY <1>10 DEF WriteBrain, turnVars
  <2>2. Removes(e) \/ bus' = bus
    BY <1>0, <1>10, AcknowledgeEffect DEF WriteBrain
  <2> HIDE DEF e
  <2>3. /\ Len(written') = Len(written) + 1 /\ Len(written) \in Nat /\ written'[Len(written) + 1] = e.of
        /\ \A j \in 1..Len(written) : written'[j] = written[j]
    BY <1>0, <2>1
  <2>4. (IsWritten(u) => IsWritten(u)') /\ (e.of = u => IsWritten(u)')
    BY <2>3 DEF IsWritten
  <2>5. OnTheBus(u) => e.of = u \/ OnTheBus(u)'
    BY <1>0, <2>2, StillPending DEF OnTheBus
  <2> QED BY <1>0, <2>1, <2>4, <2>5
<1>11. ASSUME Expire \/ UNCHANGED vars PROVE Good
  <2>1. finalizer' = finalizer /\ bus' = bus /\ written' = written
    BY <1>11 DEF Expire, vars, busVars, turnVars
  <2> QED BY <1>0, <2>1, PendingStays
<1> QED BY CalmSteps, <1>1, <1>3, <1>4, <1>6, <1>7, <1>8, <1>9, <1>10, <1>11 DEF FinalizerStep, ConsumerStep

MemoryInv == BrainTableInv /\ CapturedAtEnd /\ KnownInv /\ WordInv /\ PendingInv

LEMMA MemoryAtInit == Init => MemoryInv
<1> SUFFICES ASSUME Init PROVE MemoryInv
  OBVIOUS
<1>1. /\ \A c \in Consumers : worker[c] = Waiting /\ claimed[c] = <<>>
      /\ \A t \in Turn : finalizer[t].captured = <<>>
      /\ bus = <<>> /\ written = <<>> /\ Len(<<>>) = 0
  BY DEF Init, Unspawned
<1>2. CapturedAtEnd /\ PendingInv
  BY <1>1 DEF CapturedAtEnd, PendingInv
<1>3. KnownInv
  BY <1>1, WaitsForNothing DEF KnownInv, Known, WaitingKind
<1>4. WordInv
  BY <1>1 DEF WordInv, WordsKept
<1> QED BY <1>2, <1>3, <1>4, BrainTableAtInit DEF MemoryInv

LEMMA MemoryStep == MemoryInv /\ [Next]_vars => MemoryInv'
<1> SUFFICES ASSUME MemoryInv, [Next]_vars PROVE MemoryInv'
  OBVIOUS
<1>1. /\ BrainTableInv /\ CapturedAtEnd /\ KnownInv /\ WordInv /\ PendingInv
      /\ StateInv /\ GateInv /\ CalmInv /\ CurrentInv
  BY DEF MemoryInv, BrainTableInv, TableInv, SightInv
<1>2. BrainTableInv'
  BY <1>1, BrainTableStep
<1> QED BY <1>1, <1>2, CapturedStep, KnownStep, WordStep, PendingStep DEF MemoryInv

(* The inductive invariant of the conversation's memory: of each event of  *)
(* the bus, and of each that a consumer has of a batch, it is known whose  *)
(* words it brings, in whatever order the batches are written.             *)
THEOREM MemoryIsKept == Spec => []MemoryInv
BY MemoryAtInit, MemoryStep, PTL DEF Spec

(* What was written last of a thing is what is remembered of it, with its  *)
(* reason and what was learned, whatever order batches of events arrive    *)
(* in, unless two consumers worked at once; and nothing failed: all that   *)
(* was captured is written once the bus is empty                           *)
(* (candidate_should_supersede, memory/brain.rs:249).                      *)
THEOREM TheLastWordIsRemembered == Spec => []LastWordWins
<1>1. MemoryInv => LastWordWins
  <2> SUFFICES ASSUME MemoryInv PROVE LastWordWins
    OBVIOUS
  <2>0. TypeInv /\ WordInv /\ PendingInv
    BY DEF MemoryInv, BrainTableInv, TableInv, SightInv, StateInv
  <2>1. DOMAIN written = 1..Len(written) /\ DOMAIN brain = 1..Len(brain)
    BY <2>0 DEF TypeInv
  <2>2. \A i \in 1..Len(written) : written[i] \in Turn
    BY <2>0 DEF WordInv, Ended
  <2>3. \A t \in Turn : DOMAIN finalizer[t].captured = 1..Len(finalizer[t].captured)
    <3>1. \A t \in Turn : finalizer[t].captured \in Seq(Proposal)
      BY <2>0, FinalizerIsTyped DEF FinalizerSet, Proposals
    <3> QED BY <3>1
  <2>4. ASSUME ~raced, NEW i \in DOMAIN written, NEW word \in Words(written[i])
        PROVE  \/ IsSaidAgain(i, word.key)
               \/ \E r \in ActiveRows(brain, word.key) : same_content(brain[r], word)
    <3>1. PICK k \in 1..Len(finalizer[written[i]].captured) : word = finalizer[written[i]].captured[k]
      BY <2>1, <2>2, <2>3 DEF Words, Range
    <3>2. SaidAgain(i, word.key) \/ Remembered(brain, word)
      BY <2>0, <2>1, <2>4, <3>1 DEF WordInv, WordsKept
    <3>3. CASE Remembered(brain, word)
      BY <2>1, <3>3 DEF Remembered, ActiveRows, same_content, Text
    <3>4. CASE SaidAgain(i, word.key)
      <4>1. PICK j \in 1..Len(written) : j > i /\ \E l \in 1..Len(finalizer[written[j]].captured) :
                                                    finalizer[written[j]].captured[l].key = word.key
        BY <3>4 DEF SaidAgain
      <4>2. PICK l \in 1..Len(finalizer[written[j]].captured) :
              finalizer[written[j]].captured[l].key = word.key
        BY <4>1
      <4>3. finalizer[written[j]].captured[l] \in Words(written[j])
        BY <2>2, <2>3, <4>1, <4>2 DEF Words, Range
      <4> QED BY <2>1, <4>1, <4>2, <4>3 DEF IsSaidAgain
    <3> QED BY <3>2, <3>3, <3>4
  <2>5. ASSUME Quiet, disturbed = 0, NEW t \in Turn, finalizer[t].captured # <<>>
        PROVE  t \in Range(written)
    <3>1. IsWritten(t) \/ OnTheBus(t)
      BY <2>0, <2>5 DEF PendingInv
    <3>2. bus = <<>> /\ Len(<<>>) = 0
      BY <2>5 DEF Quiet
    <3>3. IsWritten(t)
      BY <3>1, <3>2 DEF OnTheBus
    <3> QED BY <2>1, <3>3 DEF IsWritten, Range
  <2> QED BY <2>4, <2>5 DEF LastWordWins
<1> QED BY <1>1, MemoryIsKept, PTL
=============================================================================
