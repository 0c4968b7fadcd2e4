--------------------------- MODULE MCConversation ---------------------------
EXTENDS ConversationProps, TLC

Everything == [t \in Turns |-> Routes]

Symmetry == Permutations(Turns) \cup Permutations(Agents)
=============================================================================
