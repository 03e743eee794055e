---------------------------- MODULE MCBranchUpdater ----------------------------
(* A draft that merges by itself, one of a fork and a draft: the pass may  *)
(* update the first, and the others give the rest of the world time.       *)
EXTENDS BranchUpdater

MCPrs ==
  << [fork |-> FALSE, draft |-> TRUE, auto_merge |-> TRUE],
     [fork |-> TRUE, draft |-> FALSE, auto_merge |-> FALSE],
     [fork |-> FALSE, draft |-> TRUE, auto_merge |-> FALSE] >>
===============================================================================
