------------------------------- MODULE Ports -------------------------------
(***************************************************************************)
(* The proxy port of a sandbox: internal/proxy/ports.go, the parts of      *)
(* `ptrbox new` that use a port and the parts of `ptrbox rm` that free it. *)
(*                                                                         *)
(* Squid sees every sandbox arrive as 127.0.0.1, so the port a sandbox     *)
(* dials IS its identity.  The port lives in three places:                 *)
(*   - the sidecar file <vm>.proxy-port, the allocation on record;         *)
(*   - the generated VM config <vm>.yaml, which the port is rendered into; *)
(*   - the nftables ruleset of the guest, baked in when the VM is created  *)
(*     from that config and unchangeable afterwards.                       *)
(* Every ptrbox invocation is a separate host process without any lock; a  *)
(* terminal runs one at a time, and one may die (an error return, Ctrl-C)  *)
(* between any two of its steps.                                           *)
(***************************************************************************)
EXTENDS Integers

CONSTANTS
  VMs,          \* sandbox names
  Terminals,    \* places `ptrbox` is run from, one invocation each at a time
  PortMin,      \* config.SandboxPortMin
  PortMax,      \* config.SandboxPortMax
  NoPort,       \* no file, no ruleset
  Torn,         \* a sidecar whose write was cut short: not a port number
  NoVM,         \* the target of a terminal that runs nothing
  ListingFails  \* whether `limactl list` may fail and answer "no VMs"

Port == PortMin .. PortMax

ASSUME PortsAssumption ==
  /\ PortMin \in Int /\ PortMax \in Int
  /\ NoPort \notin Int /\ Torn \notin Int /\ NoPort # Torn
  /\ NoVM \notin VMs
  /\ ListingFails \in BOOLEAN

VARIABLES
  sidecar,   \* [VMs -> Port, NoPort or Torn]: <vm>.proxy-port
  config,    \* [VMs -> Port or NoPort]: the port rendered into <vm>.yaml
  guest,     \* [VMs -> Port or NoPort]: the port in the guest's firewall;
             \* NoPort when the backend has no such VM
  pc,        \* [Terminals -> step of the invocation it runs]
  target,    \* [Terminals -> the sandbox that invocation is about]
  chosen     \* [Terminals -> the port AllocatePort settled on]

vars == <<sidecar, config, guest, pc, target, chosen>>

Steps == {"idle", "allocate", "write", "render", "create",
          "delete", "rmconfig", "rmport"}

TypeOK ==
  /\ sidecar \in [VMs -> Port \cup {NoPort, Torn}]
  /\ config \in [VMs -> Port \cup {NoPort}]
  /\ guest \in [VMs -> Port \cup {NoPort}]
  /\ pc \in [Terminals -> Steps]
  /\ target \in [Terminals -> VMs \cup {NoVM}]
  /\ chosen \in [Terminals -> Port \cup {NoPort}]
  /\ \A t \in Terminals : pc[t] # "idle" => target[t] \in VMs
  /\ \A t \in Terminals : pc[t] \in {"write", "render", "create"} => chosen[t] \in Port

Init ==
  /\ sidecar = [v \in VMs |-> NoPort]
  /\ config  = [v \in VMs |-> NoPort]
  /\ guest   = [v \in VMs |-> NoPort]
  /\ pc      = [t \in Terminals |-> "idle"]
  /\ target  = [t \in Terminals |-> NoVM]
  /\ chosen  = [t \in Terminals |-> NoPort]

----------------------------------------------------------------------------
(* Helpers of the handlers.                                                *)

GoTo(t, step) == pc' = [pc EXCEPT ![t] = step]

\* The invocation of t is over: it returned, failed or was killed.
Leave(t) ==
  /\ pc'     = [pc EXCEPT ![t] = "idle"]
  /\ target' = [target EXCEPT ![t] = NoVM]
  /\ chosen' = [chosen EXCEPT ![t] = NoPort]

\* What Backend.Exists may answer: a listing that fails says no VM exists.
SaysExists(v) == guest[v] # NoPort
SaysMissing(v) == guest[v] = NoPort \/ ListingFails

\* PortAllocations refuses the whole directory over one unreadable sidecar.
Readable == \A v \in VMs : sidecar[v] # Torn

\* Mutant of FreePorts: a record without a VM not counted.
FreePortsOfExisting == {p \in Port : \A v \in VMs : guest[v] # NoPort => sidecar[v] # p}

FreePorts == {p \in Port : \A v \in VMs : sidecar[v] # p}

IsLowest(p, S) == p \in S /\ \A q \in S : p <= q

----------------------------------------------------------------------------
(* `ptrbox new`.                                                           *)

NewBegin(t, v) ==
  /\ pc[t] = "idle"
  /\ SaysMissing(v)
  /\ GoTo(t, "allocate")
  /\ target' = [target EXCEPT ![t] = v]
  /\ UNCHANGED <<sidecar, config, guest, chosen>>

\* AllocatePort for a sandbox that holds a port: the same port again.
KeepHeld(t) ==
  /\ pc[t] = "allocate"
  /\ Readable
  /\ sidecar[target[t]] # NoPort
  /\ chosen' = [chosen EXCEPT ![t] = sidecar[target[t]]]
  /\ GoTo(t, "render")
  /\ UNCHANGED <<sidecar, config, guest, target>>

\* Mutant of PickLowest: a sandbox that holds a port is given one all the same.
PickLowestAlways(t) ==
  /\ pc[t] = "allocate"
  /\ Readable
  /\ \E p \in FreePorts : IsLowest(p, FreePorts) /\ chosen' = [chosen EXCEPT ![t] = p]
  /\ GoTo(t, "write")
  /\ UNCHANGED <<sidecar, config, guest, target>>

\* AllocatePort for one that holds none: the lowest port no sidecar names,
\* decided from what was read and written down only in the next step.  With
\* every port taken there is no such step: the invocation can only fail.
PickLowest(t) ==
  /\ pc[t] = "allocate"
  /\ Readable
  /\ sidecar[target[t]] = NoPort
  /\ \E p \in FreePorts : IsLowest(p, FreePorts) /\ chosen' = [chosen EXCEPT ![t] = p]
  /\ GoTo(t, "write")
  /\ UNCHANGED <<sidecar, config, guest, target>>

WriteSidecar(t) ==
  /\ pc[t] = "write"
  /\ sidecar' = [sidecar EXCEPT ![target[t]] = chosen[t]]
  /\ GoTo(t, "render")
  /\ UNCHANGED <<config, guest, target, chosen>>

\* RenderFile renames a finished file into place: never half-written.
RenderConfig(t) ==
  /\ pc[t] = "render"
  /\ config' = [config EXCEPT ![target[t]] = chosen[t]]
  /\ GoTo(t, "create")
  /\ UNCHANGED <<sidecar, guest, target, chosen>>

\* The backend reads the config file itself and refuses a name it already has.
CreateVM(t) ==
  /\ pc[t] = "create"
  /\ config[target[t]] # NoPort
  /\ guest[target[t]] = NoPort
  /\ guest' = [guest EXCEPT ![target[t]] = config[target[t]]]
  /\ Leave(t)
  /\ UNCHANGED <<sidecar, config>>

----------------------------------------------------------------------------
(* `ptrbox rm`.                                                            *)

RmExisting(t, v) ==
  /\ pc[t] = "idle"
  /\ SaysExists(v)
  /\ GoTo(t, "delete")
  /\ target' = [target EXCEPT ![t] = v]
  /\ UNCHANGED <<sidecar, config, guest, chosen>>

\* Mutant of RmArtifacts: nobody asks whether the VM is still there.
RmArtifactsUnasked(t, v) ==
  /\ pc[t] = "idle"
  /\ sidecar[v] # NoPort \/ config[v] # NoPort
  /\ GoTo(t, "rmconfig")
  /\ target' = [target EXCEPT ![t] = v]
  /\ UNCHANGED <<sidecar, config, guest, chosen>>

\* No such VM, but the artifacts of a failed create: they are what goes.
RmArtifacts(t, v) ==
  /\ pc[t] = "idle"
  /\ SaysMissing(v)
  /\ sidecar[v] # NoPort \/ config[v] # NoPort
  /\ GoTo(t, "rmconfig")
  /\ target' = [target EXCEPT ![t] = v]
  /\ UNCHANGED <<sidecar, config, guest, chosen>>

DeleteVM(t) ==
  /\ pc[t] = "delete"
  /\ guest' = [guest EXCEPT ![target[t]] = NoPort]
  /\ GoTo(t, "rmconfig")
  /\ UNCHANGED <<sidecar, config, target, chosen>>

RemoveConfig(t) ==
  /\ pc[t] = "rmconfig"
  /\ config' = [config EXCEPT ![target[t]] = NoPort]
  /\ GoTo(t, "rmport")
  /\ UNCHANGED <<sidecar, guest, target, chosen>>

ReleasePort(t) ==
  /\ pc[t] = "rmport"
  /\ sidecar' = [sidecar EXCEPT ![target[t]] = NoPort]
  /\ Leave(t)
  /\ UNCHANGED <<config, guest>>

----------------------------------------------------------------------------
(* What cuts an invocation short, and the world around it.                 *)

\* An error return or a killed process, before the pending step.
Abandon(t) ==
  /\ pc[t] # "idle"
  /\ Leave(t)
  /\ UNCHANGED <<sidecar, config, guest>>

\* os.WriteFile truncates before it writes: killed in between, the sidecar is
\* there and holds no number.
AbandonWrite(t) ==
  /\ pc[t] = "write"
  /\ sidecar' = [sidecar EXCEPT ![target[t]] = Torn]
  /\ Leave(t)
  /\ UNCHANGED <<config, guest>>

\* `limactl delete` behind ptrbox's back: the artifacts stay.
DeletedOutside(v) ==
  /\ guest[v] # NoPort
  /\ guest' = [guest EXCEPT ![v] = NoPort]
  /\ UNCHANGED <<sidecar, config, pc, target, chosen>>

Next ==
  \/ \E t \in Terminals :
       \/ \E v \in VMs : NewBegin(t, v) \/ RmExisting(t, v) \/ RmArtifacts(t, v)
       \/ KeepHeld(t) \/ PickLowest(t) \/ WriteSidecar(t) \/ RenderConfig(t)
       \/ CreateVM(t) \/ DeleteVM(t) \/ RemoveConfig(t) \/ ReleasePort(t)
       \/ Abandon(t) \/ AbandonWrite(t)
  \/ \E v \in VMs : DeletedOutside(v)

Spec == Init /\ [][Next]_vars

----------------------------------------------------------------------------
(* Properties.                                                             *)

\* No two existing sandboxes dial the same port: their firewalls were rendered
\* with different ones (ports.go: "VM A physically cannot dial VM B's port").
DistinctIdentity ==
  \A v, w \in VMs : guest[v] # NoPort /\ guest[v] = guest[w] => v = w

\* An existing sandbox's firewall holds the port the sidecar records for it
\* ("the rendered firewall and the recorded allocation cannot disagree").
RecordAgrees ==
  \A v \in VMs : guest[v] # NoPort => sidecar[v] = guest[v]

\* The sidecars never give one port to two sandboxes, whatever crashed.
DistinctRecords ==
  \A v, w \in VMs : sidecar[v] \in Port /\ sidecar[v] = sidecar[w] => v = w

\* A recorded port is replaced by no other: it is kept until the sidecar is
\* removed, so a re-run of a failed `new` gets the port it already holds.
KeepsSlot ==
  [][\A v \in VMs : sidecar[v] \in Port => sidecar'[v] \in {sidecar[v], NoPort}]_vars
=============================================================================
