---------------------------- MODULE MCChatSession ----------------------------
(* Instances of ChatSession for TLC.                                         *)
EXTENDS ChatSession, TLC

Symmetry == Permutations(Chats) \cup Permutations(Messages) \cup Permutations(Claims)
=============================================================================
