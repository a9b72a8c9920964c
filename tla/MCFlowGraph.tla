---------------------------- MODULE MCFlowGraph -----------------------------
(***************************************************************************)
(* Small instances of FlowGraphChangeManager.                              *)
(***************************************************************************)
EXTENDS FlowGraphChangeManager

\* The optimisations with and without merging and purging.
MergeAndPurge == SUBSET {"merge_changes_to_same_arc", "purge_changes_before_node_removal"}

\* The defaults of the three flags.
Default == {Flags}
MergeOnly == {{"merge_changes_to_same_arc"}}

\* The changes logged before the first export and between the first two.
Small == <<3, 4>>
Longer == <<3, 5>>
=============================================================================
