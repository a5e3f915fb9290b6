--------------------------- MODULE MCConversation ---------------------------
(* Instances of Conversation for TLC.                                        *)
EXTENDS Conversation, TLC

(* Slots, calls and clusters of one kind are interchangeable.                *)
Symmetry == Permutations(Runs) \cup Permutations(Senders) \cup Permutations(Approvers)
            \cup Permutations(Writes) \cup Permutations(Rebinders) \cup Permutations(Cluster)
=============================================================================
