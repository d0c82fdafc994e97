------------------------ MODULE MCConversationStore ------------------------
(***************************************************************************)
(* ConversationStore for TLC: peers are interchangeable, and so are         *)
(* messages without attachment.                                            *)
(***************************************************************************)
EXTENDS ConversationStore, TLC

Symmetry == Permutations(Peer) \cup Permutations(Message)
=============================================================================
