----------------------------- MODULE MCInstall -----------------------------
(* Install on a small instance: a settings file with a place for every key *)
(* and an older one that had a key since retired.                          *)
EXTENDS Install, MCSettings

\* A Mac with a shell ptrbox knows, and a Windows PC.
MCHosts == {[forwards |-> f, links |-> f, startup |-> f] : f \in BOOLEAN}

\* On a terminal, answered either way, which has all a script does; and with
\* `-y --update`.
MCInvocations == {[update |-> FALSE, yes |-> FALSE, ask |-> TRUE],
                  [update |-> TRUE, yes |-> TRUE, ask |-> FALSE]}

MCDocumented == <<"REPO_ROOT", "DISTRO", "IMAGE_URL", "GO", "UV", "NODE", "PLAYWRIGHT", "OPENCODE", "CPUS",
                  "PORT_MIN", "PORT_MAX", "GIT_USER_NAME", "GIT_USER_EMAIL", "HOST_HOOKS", "LMSTUDIO_PORT">>
MCExample == <<Prose>> \o [i \in DOMAIN MCDocumented |-> Hint(MCDocumented[i], MCDefault[MCDocumented[i]])]
OldExample == <<Hint("CPUS", "n1"), Hint("TOOLCHAIN", "")>>

\* A fresh host, but for a sparse per-VM file; one an older build seeded, with a
\* retired key set and a template once cut short.
MCFound ==
  {VMFile :> <<Assign("CPUS", "n2")>>,
   (Main :> OldExample \o <<Assign("TOOLCHAIN", "tools"), Assign("CPUS", "n1")>>) @@ (Template :> <<>>)
     @@ (VMFile :> <<Header(VMFile)>> \o OldExample)}

\* A plain setting, one that goes through a name that is no setting, and a slip.
MCEdits == {Assign("CPUS", "n2"), Assign("REPO_ROOT", "TOOLCHAIN"), Garbage}
=============================================================================
