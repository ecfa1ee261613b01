------------------------------- MODULE MCExec -------------------------------
(* Exec on a small instance: a line in two pieces, one cut off, the log of a *)
(* boot and of a verification; a session that outgrows the archive's cap.    *)
EXTENDS Exec

MCHosts == {[direct |-> TRUE, token |-> TRUE], [direct |-> FALSE, token |-> TRUE],
            [direct |-> FALSE, token |-> FALSE]}

MCGlyph == {NL, "wait", "done", "chk", "ok", "warn"}
MCPrints == {<<"wait", NL, "done", NL>>, <<"chk", "ok", NL, "chk">>}
MCComplains == {<<"warn", NL>>}
=============================================================================
