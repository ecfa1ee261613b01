----------------------------- MODULE Lifecycle -----------------------------
(***************************************************************************)
(* The commands that bring sandboxes up and down - new, start, shell,      *)
(* stop, rm and sync-proxy of internal/cli - around the one proxy VM they  *)
(* share: Ensure brings it up before a sandbox, StopIfIdle takes it down   *)
(* after the last, and Sync tells squid which port is whose in between.    *)
(*                                                                         *)
(* Each command is a host process without any lock.  A terminal runs one   *)
(* at a time; it may fail or be killed between any two backend commands,   *)
(* and what it did stays.  Ports looks closer at how a port is allocated   *)
(* and ProxySync at the steps of Sync; here an allocation is one step and  *)
(* a Sync is three: read the host, write the VM's disk, have squid load it.*)
(***************************************************************************)
EXTENDS Naturals

CONSTANTS
  VMs,           \* sandbox names
  Terminals,     \* places `ptrbox` is run from, one command each at a time
  Port,          \* the proxy's per-sandbox ports
  NoPort, NoVM,
  ListingFails,  \* whether `limactl list` may fail and answer "no VMs"
  SyncDies       \* whether a Sync may end between its writes and the load

ASSUME LifecycleAssumption ==
  /\ Port \subseteq Nat
  /\ NoPort \notin Port
  /\ NoVM \notin VMs
  /\ ListingFails \in BOOLEAN /\ SyncDies \in BOOLEAN

VARIABLES
  yaml,    \* [VMs -> Port or NoPort]: the generated config, with its port
  slot,    \* [VMs -> Port or NoPort]: the proxy-port sidecar
  vm,      \* [VMs -> what the backend has under that name]
  proxy,   \* status of the proxy VM
  disk,    \* [VMs -> Port or NoPort]: the port map in the proxy VM's files
  served,  \* the same as squid has it loaded
  cmd, pc, target,  \* [Terminals -> ...]: command, next step, sandbox
  want,    \* [Terminals -> port map]: what the running Sync read
  seen     \* [Terminals -> SUBSET VMs]: the listing StopIfIdle goes by

artifacts == <<yaml, slot>>
squid == <<proxy, disk, served>>
local == <<want, seen>>
vars == <<artifacts, vm, squid, cmd, pc, target, local>>

PortMap == [VMs -> Port \cup {NoPort}]
NoMap == [v \in VMs |-> NoPort]

\* A sandbox: its firewall's port, whether that firewall is installed, whether
\* this boot runs without it, and whether vm/verify.sh passed and the token is in.
Machine == [status : {"none", "running", "stopped"}, port : Port \cup {NoPort},
            wall : BOOLEAN, open : BOOLEAN, verified : BOOLEAN, token : BOOLEAN]
NoMachine == [status |-> "none", port |-> NoPort, wall |-> FALSE, open |-> FALSE,
              verified |-> FALSE, token |-> FALSE]

Commands == {"none", "new", "start", "shell", "stop", "rm", "sync-proxy"}
Steps == {"idle", "prepare", "ensure", "read", "push", "load", "create", "provision",
          "halt", "boot", "verify", "inject", "enter", "inside",
          "delete", "unlink", "retire", "list", "count", "stopproxy"}

TypeOK ==
  /\ yaml \in PortMap /\ slot \in PortMap
  /\ vm \in [VMs -> Machine]
  /\ proxy \in {"none", "running", "stopped"}
  /\ disk \in PortMap /\ served \in PortMap
  /\ cmd \in [Terminals -> Commands]
  /\ pc \in [Terminals -> Steps]
  /\ target \in [Terminals -> VMs \cup {NoVM}]
  /\ want \in [Terminals -> PortMap]
  /\ seen \in [Terminals -> SUBSET VMs]

Init ==
  /\ yaml = NoMap /\ slot = NoMap
  /\ vm = [v \in VMs |-> NoMachine]
  /\ proxy = "none"
  /\ disk = NoMap /\ served = NoMap
  /\ cmd = [t \in Terminals |-> "none"]
  /\ pc = [t \in Terminals |-> "idle"]
  /\ target = [t \in Terminals |-> NoVM]
  /\ want = [t \in Terminals |-> NoMap]
  /\ seen = [t \in Terminals |-> {}]

----------------------------------------------------------------------------
(* Helpers of the handlers.                                                *)

Exists(v) == vm[v].status # "none"
Running(v) == vm[v].status = "running"

\* What Backend.Exists and Backend.Running answer when the listing fails.
SaysMissing(v) == ~Exists(v) \/ ListingFails
SaysNotRunning(v) == ~Running(v) \/ ListingFails

GoTo(t, step) == pc' = [pc EXCEPT ![t] = step] /\ UNCHANGED <<cmd, target>>

Invoke(t, command, v, step) ==
  /\ pc[t] = "idle"
  /\ cmd' = [cmd EXCEPT ![t] = command]
  /\ target' = [target EXCEPT ![t] = v]
  /\ pc' = [pc EXCEPT ![t] = step]
  /\ UNCHANGED <<artifacts, vm, squid, local>>

Leave(t) ==
  /\ cmd' = [cmd EXCEPT ![t] = "none"]
  /\ pc' = [pc EXCEPT ![t] = "idle"]
  /\ target' = [target EXCEPT ![t] = NoVM]
  /\ want' = [want EXCEPT ![t] = NoMap]
  /\ seen' = [seen EXCEPT ![t] = {}]

----------------------------------------------------------------------------
(* The commands, up to their first change.                                 *)

New(t, v) == SaysMissing(v) /\ Invoke(t, "new", v, "prepare")

\* Mutant of Start: the sandbox boots without the proxy being ensured.
StartAlone(t, v) == Exists(v) /\ Invoke(t, "start", v, "boot")

Start(t, v) == Exists(v) /\ Invoke(t, "start", v, "ensure")

Shell(t, v) ==
  \/ Running(v) /\ Invoke(t, "shell", v, "enter")
  \/ SaysNotRunning(v) /\ Exists(v) /\ Invoke(t, "shell", v, "ensure")

Stop(t, v) ==
  /\ Exists(v)
  /\ \/ Running(v) /\ Invoke(t, "stop", v, "halt")
     \/ SaysNotRunning(v) /\ Invoke(t, "stop", v, "list")

\* A name without a VM may still have what a failed create left.
Rm(t, v) ==
  \/ Exists(v) /\ Invoke(t, "rm", v, "delete")
  \/ /\ SaysMissing(v)
     /\ yaml[v] # NoPort \/ slot[v] # NoPort
     /\ Invoke(t, "rm", v, "unlink")

SyncProxy(t) == proxy = "running" /\ Invoke(t, "sync-proxy", NoVM, "read")

----------------------------------------------------------------------------
(* The shared proxy: Ensure, Sync and StopIfIdle.                          *)

\* A proxy VM that boots loads its disk; one just created has an empty map.
Ensure(t) ==
  /\ pc[t] = "ensure"
  /\ proxy' = "running"
  /\ disk' = IF proxy = "none" THEN NoMap ELSE disk
  /\ served' = CASE proxy = "none" -> NoMap [] proxy = "stopped" -> disk [] OTHER -> served
  /\ GoTo(t, "read")
  /\ UNCHANGED <<artifacts, vm, local>>

SyncRead(t) ==
  /\ pc[t] = "read"
  /\ want' = [want EXCEPT ![t] = slot]
  /\ GoTo(t, "push")
  /\ UNCHANGED <<artifacts, vm, squid, seen>>

\* What follows the Sync a command asked for.
Synced(t) ==
  CASE cmd[t] = "new" -> GoTo(t, "create") /\ UNCHANGED local
    [] cmd[t] \in {"start", "shell"} -> GoTo(t, "boot") /\ UNCHANGED local
    [] cmd[t] = "rm" -> GoTo(t, "list") /\ UNCHANGED local
    [] OTHER -> Leave(t)

SyncUnchanged(t) ==
  /\ pc[t] = "push"
  /\ proxy = "running"
  /\ disk = want[t]
  /\ Synced(t)
  /\ UNCHANGED <<artifacts, vm, squid>>

SyncPush(t) ==
  /\ pc[t] = "push"
  /\ proxy = "running"
  /\ disk # want[t]
  /\ disk' = want[t]
  /\ GoTo(t, "load")
  /\ UNCHANGED <<artifacts, vm, proxy, served, local>>

SyncLoad(t) ==
  /\ pc[t] = "load"
  /\ proxy = "running"
  /\ served' = disk
  /\ Synced(t)
  /\ UNCHANGED <<artifacts, vm, proxy, disk>>

\* StopIfIdle: nothing to do, or nothing certain, leaves the proxy alone.
IdleList(t) ==
  /\ pc[t] = "list"
  /\ \/ /\ proxy # "running" \/ ListingFails
        /\ Leave(t)
     \/ /\ proxy = "running"
        /\ seen' = [seen EXCEPT ![t] = {v \in VMs : Running(v)}]
        /\ GoTo(t, "count")
        /\ UNCHANGED want
  /\ UNCHANGED <<artifacts, vm, squid>>

\* Mutant of IdleCount: the first sandbox to stop takes the proxy along.
IdleUncounted(t) ==
  /\ pc[t] = "count"
  /\ GoTo(t, "stopproxy")
  /\ UNCHANGED <<artifacts, vm, squid, local>>

\* A sandbox is a running VM with a generated config.
IdleCount(t) ==
  /\ pc[t] = "count"
  /\ IF \E v \in seen[t] : yaml[v] # NoPort
     THEN Leave(t)
     ELSE GoTo(t, "stopproxy") /\ UNCHANGED local
  /\ UNCHANGED <<artifacts, vm, squid>>

IdleStop(t) ==
  /\ pc[t] = "stopproxy"
  /\ proxy' = "stopped"
  /\ Leave(t)
  /\ UNCHANGED <<artifacts, vm, disk, served>>

----------------------------------------------------------------------------
(* `new`, and the parts of it that start, shell and stop share.            *)

\* Mutant of Prepare: only the slots of existing VMs counted as taken.
PrepareAmongExisting(t) ==
  /\ pc[t] = "prepare"
  /\ LET v == target[t]
         free == {p \in Port : \A w \in VMs : Exists(w) => slot[w] # p}
     IN  \E p \in Port :
           /\ IF slot[v] # NoPort THEN p = slot[v] ELSE p \in free /\ \A q \in free : p <= q
           /\ slot' = [slot EXCEPT ![v] = p]
           /\ yaml' = [yaml EXCEPT ![v] = p]
  /\ GoTo(t, "ensure")
  /\ UNCHANGED <<vm, squid, local>>

\* AllocatePort, then the config rendered with the port.
Prepare(t) ==
  /\ pc[t] = "prepare"
  /\ LET v == target[t]
         free == {p \in Port : \A w \in VMs : slot[w] # p}
     IN  \E p \in Port :
           /\ IF slot[v] # NoPort THEN p = slot[v] ELSE p \in free /\ \A q \in free : p <= q
           /\ slot' = [slot EXCEPT ![v] = p]
           /\ yaml' = [yaml EXCEPT ![v] = p]
  /\ GoTo(t, "ensure")
  /\ UNCHANGED <<vm, squid, local>>

\* Boot 1 runs on an open network.
Create(t) ==
  /\ pc[t] = "create"
  /\ ~Exists(target[t])
  /\ yaml[target[t]] # NoPort
  /\ vm' = [vm EXCEPT ![target[t]] =
              [NoMachine EXCEPT !.status = "running", !.port = yaml[target[t]], !.open = TRUE]]
  /\ GoTo(t, "provision")
  /\ UNCHANGED <<artifacts, squid, local>>

\* The boot scripts of a running guest install the firewall, for the next boot;
\* with or without the `new` that waits for them.
Provisioned(v) ==
  /\ Running(v)
  /\ ~vm[v].wall
  /\ vm' = [vm EXCEPT ![v].wall = TRUE]
  /\ UNCHANGED <<artifacts, squid, cmd, pc, target, local>>

CreateReturns(t) ==
  /\ pc[t] = "provision"
  /\ Running(target[t]) /\ vm[target[t]].wall
  /\ GoTo(t, "halt")
  /\ UNCHANGED <<artifacts, vm, squid, local>>

\* Backend.Stop: on to the second boot of `new`, or to the end of `stop`.
Halt(t) ==
  /\ pc[t] = "halt"
  /\ Exists(target[t])
  /\ vm' = [vm EXCEPT ![target[t]].status = "stopped", ![target[t]].open = FALSE]
  /\ GoTo(t, IF cmd[t] = "new" THEN "boot" ELSE "list")
  /\ UNCHANGED <<artifacts, squid, local>>

\* Mutant of Boot: `new` goes on to the token without its checks.
BootThenInject(t) ==
  /\ pc[t] = "boot"
  /\ Exists(target[t])
  /\ vm' = IF Running(target[t]) THEN vm
           ELSE [vm EXCEPT ![target[t]].status = "running",
                           ![target[t]].open = ~vm[target[t]].wall]
  /\ CASE cmd[t] = "new" -> GoTo(t, "inject") /\ UNCHANGED local
       [] cmd[t] = "shell" -> GoTo(t, "enter") /\ UNCHANGED local
       [] OTHER -> Leave(t)
  /\ UNCHANGED <<artifacts, squid>>

\* Mutant of Boot: the firewall is started by `new`, not enabled for every boot.
BootOpenLater(t) ==
  /\ pc[t] = "boot"
  /\ Exists(target[t])
  /\ vm' = IF Running(target[t]) THEN vm
           ELSE [vm EXCEPT ![target[t]].status = "running",
                           ![target[t]].open = (cmd[t] # "new")]
  /\ CASE cmd[t] = "new" -> GoTo(t, "verify") /\ UNCHANGED local
       [] cmd[t] = "shell" -> GoTo(t, "enter") /\ UNCHANGED local
       [] OTHER -> Leave(t)
  /\ UNCHANGED <<artifacts, squid>>

\* Backend.Start; a VM that runs already is left as it is.
Boot(t) ==
  /\ pc[t] = "boot"
  /\ Exists(target[t])
  /\ vm' = IF Running(target[t]) THEN vm
           ELSE [vm EXCEPT ![target[t]].status = "running",
                           ![target[t]].open = ~vm[target[t]].wall]
  /\ CASE cmd[t] = "new" -> GoTo(t, "verify") /\ UNCHANGED local
       [] cmd[t] = "shell" -> GoTo(t, "enter") /\ UNCHANGED local
       [] OTHER -> Leave(t)
  /\ UNCHANGED <<artifacts, squid>>

\* vm/verify.sh passes where direct egress is blocked and the proxy, asked at
\* the sandbox's port, opens the few domains every list has.
Verify(t) ==
  /\ pc[t] = "verify"
  /\ LET v == target[t]
     IN  /\ Running(v) /\ ~vm[v].open
         /\ proxy = "running" /\ \E w \in VMs : served[w] = vm[v].port
         /\ vm' = [vm EXCEPT ![v].verified = TRUE]
  /\ GoTo(t, "inject")
  /\ UNCHANGED <<artifacts, squid, local>>

Inject(t) ==
  /\ pc[t] = "inject"
  /\ Running(target[t])
  /\ vm' = [vm EXCEPT ![target[t]].token = TRUE]
  /\ Leave(t)
  /\ UNCHANGED <<artifacts, squid>>

\* Backend.Shell: the session lasts until the command is left.
Enter(t) ==
  /\ pc[t] = "enter"
  /\ Running(target[t])
  /\ GoTo(t, "inside")
  /\ UNCHANGED <<artifacts, vm, squid, local>>

----------------------------------------------------------------------------
(* `rm`.                                                                   *)

Delete(t) ==
  /\ pc[t] = "delete"
  /\ vm' = [vm EXCEPT ![target[t]] = NoMachine]
  /\ GoTo(t, "unlink")
  /\ UNCHANGED <<artifacts, squid, local>>

RemoveArtifacts(t) ==
  /\ pc[t] = "unlink"
  /\ yaml' = [yaml EXCEPT ![target[t]] = NoPort]
  /\ slot' = [slot EXCEPT ![target[t]] = NoPort]
  /\ GoTo(t, "retire")
  /\ UNCHANGED <<vm, squid, local>>

\* Mutant of RetireFromProxy: the proxy is not told.
RetireUntold(t) ==
  /\ pc[t] = "retire"
  /\ GoTo(t, "list")
  /\ UNCHANGED <<artifacts, vm, squid, local>>

RetireFromProxy(t) ==
  /\ pc[t] = "retire"
  /\ \/ proxy = "running" /\ GoTo(t, "read")
     \/ (proxy # "running" \/ ListingFails) /\ GoTo(t, "list")
  /\ UNCHANGED <<artifacts, vm, squid, local>>

----------------------------------------------------------------------------
(* What cuts a command short.                                              *)

\* An error return, a failed check, squid's refusal or a killed process, before
\* the pending step; the end of a shell session.
Abandon(t) ==
  /\ pc[t] # "idle"
  /\ pc[t] = "load" => SyncDies
  /\ Leave(t)
  /\ UNCHANGED <<artifacts, vm, squid>>

\* Every VM stops and every terminal is gone; files stay.
HostReboots ==
  /\ \A t \in Terminals : pc[t] = "load" => SyncDies
  /\ vm' = [v \in VMs |-> IF Running(v) THEN [vm[v] EXCEPT !.status = "stopped", !.open = FALSE]
                                        ELSE vm[v]]
  /\ proxy' = IF proxy = "running" THEN "stopped" ELSE proxy
  /\ cmd' = [t \in Terminals |-> "none"]
  /\ pc' = [t \in Terminals |-> "idle"]
  /\ target' = [t \in Terminals |-> NoVM]
  /\ want' = [t \in Terminals |-> NoMap]
  /\ seen' = [t \in Terminals |-> {}]
  /\ UNCHANGED <<artifacts, disk, served>>

Next ==
  \/ \E t \in Terminals :
       \/ \E v \in VMs : New(t, v) \/ Start(t, v) \/ Shell(t, v) \/ Stop(t, v) \/ Rm(t, v)
       \/ SyncProxy(t)
       \/ Ensure(t) \/ SyncRead(t) \/ SyncUnchanged(t) \/ SyncPush(t) \/ SyncLoad(t)
       \/ IdleList(t) \/ IdleCount(t) \/ IdleStop(t)
       \/ Prepare(t) \/ Create(t) \/ CreateReturns(t) \/ Halt(t) \/ Boot(t)
       \/ Verify(t) \/ Inject(t) \/ Enter(t)
       \/ Delete(t) \/ RemoveArtifacts(t) \/ RetireFromProxy(t)
       \/ Abandon(t)
  \/ \E v \in VMs : Provisioned(v)
  \/ HostReboots

Spec == Init /\ [][Next]_vars

----------------------------------------------------------------------------
(* Properties.                                                             *)

\* The token is only in a VM that passed verification, this VM and not an
\* earlier one of its name ("an unverified VM does not get credentials").
TokenVerified == \A v \in VMs : vm[v].token => vm[v].verified

\* A VM that passed verification never runs on an open network again.
VerifiedIsClamped == \A v \in VMs : vm[v].verified => vm[v].wall /\ ~vm[v].open

\* Every sandbox that runs has its way out: the proxy is up, and at the port
\* the sandbox's firewall leads to squid applies that sandbox's list.
HasEgress ==
  \A v \in VMs : Running(v) => proxy = "running" /\ served[v] = vm[v].port

\* ... and no other sandbox's list: what is granted to one is granted to it alone.
OwnListOnly ==
  \A v, w \in VMs : Running(v) /\ served[w] = vm[v].port => v = w

\* ptrbox never stops the proxy VM under a sandbox that runs.
NeverUnderSandbox ==
  [][proxy = "running" /\ proxy' = "stopped" /\ UNCHANGED vm => \A v \in VMs : ~Running(v)]_vars

\* Once `rm` is past its Sync, squid has no rules left for the name, so that
\* the freed port serves deny-all.
DepartedUnserved ==
  \A t \in Terminals :
    cmd[t] = "rm" /\ pc[t] \in {"list", "count", "stopproxy"} /\ proxy = "running" =>
      served[target[t]] = NoPort
=============================================================================
