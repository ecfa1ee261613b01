------------------------------- MODULE Guest -------------------------------
(***************************************************************************)
(* One sandbox guest: the scripts of vm/provision over its boots, and the  *)
(* calls of `new` and `start` that wait for them (internal/cli/new.go,     *)
(* internal/multipass, vm/verify.sh).                                      *)
(*                                                                         *)
(* Every script runs on every boot, in order, whatever became of the one   *)
(* before; each but 90-harden exits at once behind its done-marker.  A     *)
(* script may fail where it fetches something, and the host may go down    *)
(* between any two steps.  What a script puts in place is nothing, a part  *)
(* or the whole; the firewall's parts are told apart, since they decide    *)
(* what a later boot runs with.                                            *)
(*                                                                         *)
(* The two backends differ in the order of the scripts, in what a start    *)
(* waits for, and in the mount.  One command works on the guest at a time, *)
(* and the proxy is taken to run.  Nothing here is bounded: what a guest   *)
(* can be is finite.                                                       *)
(***************************************************************************)
EXTENDS Naturals, Sequences

VARIABLES
  backend,    \* "lima" or "multipass", for good
  equipped,   \* the image comes with git, curl and nft, for good
  power,      \* "none" (no VM), "off", "boot" (scripts run) or "up"
  at, step,   \* the script this boot is at, and how far into it
  marker,     \* the scripts whose done-marker is there
  work,       \* [Scripts -> none, part or whole]: what each has put in place
  refused,    \* extra-packages.failed is there
  rules, enabled, pinned,  \* the ruleset's file, its unit, resolv.conf
  wall,       \* this boot loaded the ruleset
  root,       \* the agent has a way to root: a sudoers grant or a setuid bit
  bad,        \* a script of this boot failed
  mount,      \* the repo in the guest: "alive", "dead" or "absent"
  pc,         \* what the command in hand does next
  isNew,      \* that command is `new`
  token       \* the Claude token is in the guest

kind == <<backend, equipped>>
boot == <<at, step, wall, root, bad>>
firewall == <<rules, enabled, pinned>>
disk == <<marker, work, refused, firewall, token>>
host == <<pc, isNew>>
vars == <<kind, power, boot, disk, mount, host>>

Scripts == {"apt", "base", "extra", "firewall", "services", "toolchain", "userenv", "harden"}

\* lima runs the user's scripts last; cloud-init knows one list.
Order ==
  IF backend = "lima"
  THEN <<"apt", "base", "extra", "firewall", "services", "harden", "toolchain", "userenv">>
  ELSE <<"apt", "base", "extra", "firewall", "services", "toolchain", "userenv", "harden">>

Current == Order[at]

\* git, curl and nft come with the image or with 10-base.
HasTools == equipped \/ work["base"] = "whole"

TypeOK ==
  /\ backend \in {"lima", "multipass"}
  /\ power \in {"none", "off", "boot", "up"}
  /\ at \in 1 .. 9 /\ step \in {"enter", "work", "enable", "pin", "touch"}
  /\ marker \subseteq Scripts
  /\ work \in [Scripts -> {"none", "part", "whole"}]
  /\ rules \in {"none", "part", "whole"}
  /\ {equipped, refused, enabled, pinned, wall, root, bad, isNew, token} \subseteq BOOLEAN
  /\ mount \in {"alive", "dead", "absent"}
  /\ pc \in {"idle", "create", "halt", "start", "started", "probe", "restarted",
             "verify", "inject", "usable"}
  /\ step # "enter" => at < 9
  /\ step \in {"enable", "pin"} => Current = "firewall"
  /\ pc # "idle" => power # "none"

\* No work done: the image as it comes.
NoWork == [s \in Scripts |-> "none"]

Init ==
  /\ backend \in {"lima", "multipass"} /\ equipped \in BOOLEAN
  /\ power = "none" /\ at = 1 /\ step = "enter"
  /\ marker = {} /\ work = NoWork /\ refused = FALSE
  /\ rules = "none" /\ enabled = FALSE /\ pinned = FALSE
  /\ wall = FALSE /\ root = TRUE /\ bad = FALSE
  /\ mount = "absent" /\ token = FALSE
  /\ pc = "idle" /\ isNew = FALSE

----------------------------------------------------------------------------
(* A boot.                                                                 *)

\* The guest comes up: systemd loads what is enabled, the scripts begin, and
\* a sudoers file or a setuid bit may be back.
BootWith(m) ==
  /\ power' = "boot"
  /\ at' = 1 /\ step' = "enter" /\ bad' = FALSE
  /\ wall' = (enabled /\ rules = "whole" /\ HasTools)
  /\ root' \in {root, TRUE}
  /\ mount' = m

\* Where the repo may be after a boot: lima's mount is part of the VM,
\* multipass's has to be made again, and may be disabled on the host.
MountAfterBoot == IF backend = "lima" THEN {"alive"} ELSE {"alive", "dead", "absent"}

AtScript(s) == power = "boot" /\ at <= Len(Order) /\ Current = s

NextScript == at' = at + 1 /\ step' = "enter"

SkipScript ==
  /\ power = "boot" /\ at <= Len(Order) /\ step = "enter"
  /\ Current \in marker
  /\ NextScript
  /\ UNCHANGED <<kind, power, wall, root, bad, disk, mount, host>>

\* Mutant of EnterScript: 20-firewall has no guard and empties its file anew.
EnterUnguardedFirewall ==
  /\ power = "boot" /\ at <= Len(Order) /\ step = "enter"
  /\ Current \notin (marker \ {"firewall"}) \cup {"harden"}
  /\ step' = "work"
  /\ work' = [work EXCEPT ![Current] = IF @ = "whole" THEN "whole" ELSE "part"]
  /\ refused' = (refused /\ Current # "extra")
  /\ rules' = IF Current = "firewall" THEN "part" ELSE rules
  /\ UNCHANGED <<kind, power, at, wall, root, bad, marker, enabled, pinned, token, mount,
                 host>>

\* Past its guard a script starts over: 15-extra drops its verdict of an
\* earlier boot, 20-firewall begins to write the ruleset's file anew.
EnterScript ==
  /\ power = "boot" /\ at <= Len(Order) /\ step = "enter"
  /\ Current \notin marker \cup {"harden"}
  /\ step' = "work"
  /\ work' = [work EXCEPT ![Current] = IF @ = "whole" THEN "whole" ELSE "part"]
  /\ refused' = (refused /\ Current # "extra")
  /\ rules' = IF Current = "firewall" THEN "part" ELSE rules
  /\ UNCHANGED <<kind, power, at, wall, root, bad, marker, enabled, pinned, token, mount,
                 host>>

\* The script has put everything in place; its marker comes next.
Complete(s) ==
  /\ AtScript(s) /\ step = "work"
  /\ work' = [work EXCEPT ![s] = "whole"]
  /\ step' = "touch"
  /\ UNCHANGED <<kind, power, at, wall, root, bad, marker, refused, firewall, token, mount,
                 host>>

SetUpApt == Complete("apt")
SetUpServices == Complete("services")

\* The mirrors are not on the allowlist, but a re-run behind the wall works
\* off what an earlier boot downloaded, and may succeed too.
InstallBase == Complete("base")
InstallExtra == Complete("extra")

\* Everything the toolchain consists of may be on the allowlist.
InstallToolchain == (HasTools \/ work["toolchain"] = "whole") /\ Complete("toolchain")

\* `curl ... | bash` has bash's status: of a download that fails, set -e
\* hears nothing, and the script goes on to its marker.
MissToolchain ==
  /\ AtScript("toolchain") /\ step = "work"
  /\ step' = "touch"
  /\ UNCHANGED <<kind, power, at, wall, root, bad, disk, mount, host>>

\* git config needs git.
SetUpUser == HasTools /\ Complete("userenv")

WriteRules ==
  /\ AtScript("firewall") /\ step = "work"
  /\ rules' = "whole"
  /\ step' = "enable"
  /\ UNCHANGED <<kind, power, at, wall, root, bad, marker, work, refused, enabled, pinned,
                 token, mount, host>>

\* Enabled, not started: the network stays open until the next boot.
EnableFirewall ==
  /\ AtScript("firewall") /\ step = "enable"
  /\ enabled' = TRUE
  /\ step' = "pin"
  /\ UNCHANGED <<kind, power, at, wall, root, bad, marker, work, refused, rules, pinned,
                 token, mount, host>>

\* resolv.conf is replaced and made immutable.
PinResolver ==
  /\ AtScript("firewall") /\ step = "pin" /\ ~pinned
  /\ pinned' = TRUE
  /\ work' = [work EXCEPT !["firewall"] = "whole"]
  /\ step' = "touch"
  /\ UNCHANGED <<kind, power, at, wall, root, bad, marker, refused, rules, enabled, token,
                 mount, host>>

Touch ==
  /\ power = "boot" /\ step = "touch"
  /\ marker' = marker \cup {Current}
  /\ NextScript
  /\ UNCHANGED <<kind, power, wall, root, bad, work, refused, firewall, token, mount, host>>

\* Where a script may fail: a download, git that is not there, and an
\* immutable resolv.conf that rm cannot remove a second time.
MayFail ==
  \/ step = "work" /\ Current \in {"base", "extra", "toolchain"}
  \/ step = "work" /\ Current = "userenv" /\ ~HasTools
  \/ step = "pin" /\ pinned

\* Mutant of ScriptFails: the script goes on after the failure.
ScriptGoesOn ==
  /\ power = "boot" /\ MayFail
  /\ step' = "touch"
  /\ refused' = (refused \/ Current = "extra")
  /\ UNCHANGED <<kind, power, at, wall, root, bad, marker, work, firewall, token, mount, host>>

\* Mutant of ScriptFails: the verdict on extra packages is not written down.
ScriptFailsSilently ==
  /\ power = "boot" /\ MayFail
  /\ bad' = TRUE
  /\ NextScript
  /\ UNCHANGED <<kind, power, wall, root, marker, work, refused, firewall, token, mount, host>>

\* set -e ends the script; of the verdicts only 15-extra's is written down.
ScriptFails ==
  /\ power = "boot" /\ MayFail
  /\ bad' = TRUE
  /\ refused' = (refused \/ Current = "extra")
  /\ NextScript
  /\ UNCHANGED <<kind, power, wall, root, marker, work, firewall, token, mount, host>>

\* Mutant of Harden: it does its work once, like every other script.
HardenOnce ==
  /\ AtScript("harden")
  /\ root' = (root /\ "harden" \in marker)
  /\ marker' = marker \cup {"harden"}
  /\ NextScript
  /\ UNCHANGED <<kind, power, wall, bad, work, refused, firewall, token, mount, host>>

\* 90-harden has no marker: it takes root away on every boot.
Harden ==
  /\ AtScript("harden")
  /\ root' = FALSE
  /\ NextScript
  /\ UNCHANGED <<kind, power, wall, bad, disk, mount, host>>

BootEnds ==
  /\ power = "boot" /\ at > Len(Order)
  /\ power' = "up"
  /\ UNCHANGED <<kind, boot, disk, mount, host>>

----------------------------------------------------------------------------
(* The commands.                                                           *)

Free == pc \in {"idle", "usable"}

\* A command ends with an error; the guest stays as it is.
Fail == pc' = "idle" /\ UNCHANGED isNew

Proceed == pc' = IF isNew THEN "verify" ELSE "usable"

\* `new` creates the VM, and boot 1 begins over an open network.
New ==
  /\ Free /\ power = "none"
  /\ pc' = "create" /\ isNew' = TRUE
  /\ \E m \in MountAfterBoot : BootWith(m)
  /\ UNCHANGED <<kind, disk>>

\* lima waits for its probe, which looks for git; multipass asks cloud-init
\* and then the guest whether the mount is there.
CreateReturns ==
  /\ pc = "create" /\ power = "up"
  /\ IF IF backend = "lima" THEN HasTools ELSE ~bad /\ mount = "alive"
     THEN pc' = "halt" /\ UNCHANGED isNew
     ELSE Fail
  /\ UNCHANGED <<kind, power, boot, disk, mount>>

\* The reboot that raises the wall: a stop and a start.
Halt ==
  /\ pc = "halt" /\ power = "up"
  /\ power' = "off" /\ pc' = "start"
  /\ UNCHANGED <<kind, boot, disk, mount, isNew>>

StartVM ==
  /\ pc = "start" /\ power = "off"
  /\ \E m \in MountAfterBoot : BootWith(m)
  /\ pc' = "started"
  /\ UNCHANGED <<kind, disk, isNew>>

StartReturns ==
  /\ pc = "started" /\ power = "up"
  /\ IF backend = "lima"
     THEN IF HasTools THEN Proceed ELSE pc' = "idle"
     ELSE pc' = IF bad THEN "idle" ELSE "probe"
  /\ UNCHANGED <<kind, power, boot, disk, mount, isNew>>

\* multipass's Ready asks the guest about the mount; lima's asks nothing.
Probe ==
  /\ pc = "probe" /\ mount = "alive"
  /\ Proceed
  /\ UNCHANGED <<kind, power, boot, disk, mount, isNew>>

\* The mount is dead or absent, or the question could not be asked.
Restart ==
  /\ pc = "probe"
  /\ \E m \in MountAfterBoot : BootWith(m)
  /\ pc' = "restarted"
  /\ UNCHANGED <<kind, disk, isNew>>

\* Mutant of RestartReturns: the mount is not asked for again.
RestartTrusted ==
  /\ pc = "restarted" /\ power = "up"
  /\ IF bad THEN pc' = "idle" ELSE Proceed
  /\ UNCHANGED <<kind, power, boot, disk, mount, isNew>>

\* A mount still missing after the one restart is a failed start.
RestartReturns ==
  /\ pc = "restarted" /\ power = "up"
  /\ IF bad \/ mount # "alive" THEN pc' = "idle" ELSE Proceed
  /\ UNCHANGED <<kind, power, boot, disk, mount, isNew>>

\* The checks of vm/verify.sh, section by section.
IsolationHolds == mount = "alive"
PrivilegeGone == ~root
EgressClamped == wall /\ work["services"] # "none"
ProxyReached == HasTools /\ work["userenv"] # "none"
ToolsPresent == HasTools /\ work["toolchain"] = "whole" /\ ~refused

Verify ==
  /\ pc = "verify" /\ power = "up"
  /\ pc' = IF IsolationHolds /\ PrivilegeGone /\ EgressClamped /\ ProxyReached /\ ToolsPresent
           THEN "inject" ELSE "idle"
  /\ UNCHANGED <<kind, power, boot, disk, mount, isNew>>

\* Without a token in the keychain the sandbox is handed over all the same.
InjectToken ==
  /\ pc = "inject" /\ power = "up"
  /\ token' \in BOOLEAN
  /\ pc' = "usable"
  /\ UNCHANGED <<kind, power, boot, marker, work, refused, firewall, mount, isNew>>

\* `start`: Running is not ready, so a running VM is asked about its mount.
Start ==
  /\ Free /\ power # "none"
  /\ isNew' = FALSE
  /\ pc' = IF power = "off" THEN "start" ELSE IF backend = "lima" THEN "usable" ELSE "probe"
  /\ UNCHANGED <<kind, power, boot, disk, mount>>

Stop ==
  /\ Free /\ power \in {"boot", "up"}
  /\ power' = "off" /\ pc' = "idle"
  /\ UNCHANGED <<kind, boot, disk, mount, isNew>>

\* Everything in the guest goes with its disk.
Remove ==
  /\ Free /\ power # "none"
  /\ power' = "none" /\ at' = 1 /\ step' = "enter"
  /\ marker' = {} /\ work' = NoWork /\ refused' = FALSE
  /\ rules' = "none" /\ enabled' = FALSE /\ pinned' = FALSE
  /\ wall' = FALSE /\ root' = TRUE /\ bad' = FALSE
  /\ mount' = "absent" /\ token' = FALSE
  /\ pc' = "idle" /\ isNew' = FALSE
  /\ UNCHANGED kind

\* A command dies, times out or is refused; the guest goes on.
Abandon ==
  /\ ~Free
  /\ Fail
  /\ UNCHANGED <<kind, power, boot, disk, mount>>

\* The host goes down, and the command in hand with it.  multipass's daemon
\* brings a running VM back: booted without its mount, or resumed with a dead
\* one.
Cut ==
  /\ power \in {"boot", "up"}
  /\ Fail
  /\ \/ power' = "off" /\ UNCHANGED <<boot, mount>>
     \/ backend = "multipass" /\ \E m \in {"dead", "absent"} : BootWith(m)
     \/ backend = "multipass" /\ mount' = "dead" /\ UNCHANGED <<power, boot>>
  /\ UNCHANGED <<kind, disk>>

----------------------------------------------------------------------------
Boot ==
  \/ SkipScript \/ EnterScript \/ Touch \/ ScriptFails
  \/ SetUpApt \/ InstallBase \/ InstallExtra \/ WriteRules \/ EnableFirewall \/ PinResolver
  \/ SetUpServices \/ InstallToolchain \/ MissToolchain \/ SetUpUser \/ Harden \/ BootEnds

Command ==
  \/ New \/ CreateReturns \/ Halt \/ StartVM \/ StartReturns \/ Probe \/ Restart
  \/ RestartReturns \/ Verify \/ InjectToken \/ Start \/ Stop \/ Remove \/ Abandon

Next == Boot \/ Command \/ Cut

Spec == Init /\ [][Next]_vars

----------------------------------------------------------------------------
(* Properties.                                                             *)

\* A done-marker stands for the whole of a script's work, whatever failed
\* and however often the host went down: later boots skip on its word.  Not
\* 30-toolchain's, which does not hear of a download that failed.
MarkerMeansWhole ==
  /\ \A s \in marker \ {"toolchain"} : work[s] = "whole"
  /\ "firewall" \in marker => rules = "whole" /\ enabled /\ pinned

\* Once 20-firewall is done, every later boot begins behind the wall, in a
\* guest never verified too: no half-written ruleset is loaded again.
MarkedMeansWalled ==
  power = "boot" /\ at = 1 /\ "firewall" \in marker /\ HasTools => wall

\* A guest that holds the token has what its owner asked for, although the
\* scripts that install it may fail with nobody watching (15-extra-packages)
\* or leave their marker all the same (30-toolchain).
TokenMeansAsked == token => work["extra"] = "whole" /\ work["toolchain"] = "whole"

\* "only after every security assertion has passed", and for good: whenever
\* a guest that holds the token is up, the wall stands and root is gone.
ClampedWhenUp == token /\ power = "up" => wall /\ ~root

\* `start` and `new` report success on multipass only with the repo alive in
\* the guest: "a mount still missing after it is a failed start".
UsableHasMount == pc = "usable" /\ backend = "multipass" => mount = "alive"

\* README: "Egress is default-deny, per sandbox."  A sandbox `start` or `new`
\* handed over is, once it is up, behind its wall.
HandedOverWalled == pc = "usable" /\ power = "up" => wall

=============================================================================
