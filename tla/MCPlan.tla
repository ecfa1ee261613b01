------------------------------- MODULE MCPlan -------------------------------
(* Plan on a small instance: two repos of one name, an example file of two   *)
(* places, and a model server that is down, empty, or serves a model.        *)
EXTENDS Plan, MCSettings

MCExample == <<Hint("HOST_HOOKS", "no")>>
MCMains == {<<>>, <<Assign("HOST_HOOKS", "yes")>>}
MCEdits == {Assign("HOST_HOOKS", "no"), Assign("OPENCODE", "yes"), Assign("REPO_ROOT", "tools")}
SameName == Permutations(Repos)
=============================================================================
