----------------------- MODULE MC_ConversationMemory -----------------------
EXTENDS ConversationMemory

Say(phrase, about, split) == [phrase |-> phrase, about |-> about, split |-> split]
MC_Messages ==
  {Say("reply in", "en", TRUE), Say("no use", "lists", FALSE)}
MC_Slug == [about \in {m.about : m \in MC_Messages} |-> about]
MC_Symmetry == Permutations(Consumers)
=============================================================================
