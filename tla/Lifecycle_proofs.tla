-------------------------- MODULE Lifecycle_proofs --------------------------
(***************************************************************************)
(* What holds of Lifecycle for every set of sandboxes and ports: of a      *)
(* verified VM whatever runs beside it and whatever fails; and, with one   *)
(* command at a time, a listing that does not lie and no Sync cut short,   *)
(* of every sandbox's way out through the proxy.                           *)
(***************************************************************************)
EXTENDS Lifecycle, TLAPS

OneTerminal == \A s, t \in Terminals : s = t

----------------------------------------------------------------------------
(* Control: which steps belong to which command.                           *)

ControlType ==
  /\ cmd \in [Terminals -> Commands]
  /\ pc \in [Terminals -> Steps]
  /\ target \in [Terminals -> VMs \cup {NoVM}]

ControlInv ==
  /\ ControlType
  /\ \A t \in Terminals :
       /\ pc[t] = "idle" <=> cmd[t] = "none"
       /\ cmd[t] \notin {"none", "sync-proxy"} => target[t] \in VMs
       /\ cmd[t] = "sync-proxy" => pc[t] \in {"read", "push", "load"}
       /\ pc[t] \in {"prepare", "create", "provision", "verify", "inject"} => cmd[t] = "new"
       /\ pc[t] \in {"delete", "unlink", "retire"} => cmd[t] = "rm"
       /\ pc[t] \in {"list", "count", "stopproxy"} => cmd[t] \in {"stop", "rm"}
       /\ pc[t] = "ensure" => cmd[t] \in {"new", "start", "shell"}
       /\ pc[t] = "halt" => cmd[t] \in {"new", "stop"}
       /\ pc[t] = "boot" => cmd[t] \in {"new", "start", "shell"}

\* Every step keeps the commands and their steps together.
LEMMA ControlStep == ControlInv /\ [Next]_vars => ControlInv'
<1> SUFFICES ASSUME ControlInv, [Next]_vars PROVE ControlInv'
  OBVIOUS
<1> USE LifecycleAssumption DEF ControlInv, ControlType, Steps, Commands
<1>1. ASSUME NEW t \in Terminals, NEW v \in VMs, New(t, v) PROVE ControlInv'
  BY <1>1 DEF New, Invoke, SaysMissing, SaysNotRunning, artifacts, squid, local
<1>2. ASSUME NEW t \in Terminals, NEW v \in VMs, Start(t, v) PROVE ControlInv'
  BY <1>2 DEF Start, Invoke, SaysMissing, SaysNotRunning, artifacts, squid, local
<1>3. ASSUME NEW t \in Terminals, NEW v \in VMs, Shell(t, v) PROVE ControlInv'
  BY <1>3 DEF Shell, Invoke, SaysMissing, SaysNotRunning, artifacts, squid, local
<1>4. ASSUME NEW t \in Terminals, NEW v \in VMs, Stop(t, v) PROVE ControlInv'
  BY <1>4 DEF Stop, Invoke, SaysMissing, SaysNotRunning, artifacts, squid, local
<1>5. ASSUME NEW t \in Terminals, NEW v \in VMs, Rm(t, v) PROVE ControlInv'
  BY <1>5 DEF Rm, Invoke, SaysMissing, SaysNotRunning, artifacts, squid, local
<1>6. ASSUME NEW t \in Terminals, SyncProxy(t) PROVE ControlInv'
  BY <1>6 DEF SyncProxy, Invoke, Leave, artifacts, squid, local
<1>7. ASSUME NEW t \in Terminals, Ensure(t) PROVE ControlInv'
  BY <1>7 DEF Ensure, GoTo, Leave, artifacts, squid, local
<1>8. ASSUME NEW t \in Terminals, SyncRead(t) PROVE ControlInv'
  BY <1>8 DEF SyncRead, GoTo, Leave, artifacts, squid, local
<1>9. ASSUME NEW t \in Terminals, SyncUnchanged(t) PROVE ControlInv'
  BY <1>9 DEF SyncUnchanged, GoTo, Leave, Synced, artifacts, squid, local
<1>10. ASSUME NEW t \in Terminals, SyncPush(t) PROVE ControlInv'
  BY <1>10 DEF SyncPush, GoTo, Leave, artifacts, squid, local
<1>11. ASSUME NEW t \in Terminals, SyncLoad(t) PROVE ControlInv'
  BY <1>11 DEF SyncLoad, GoTo, Leave, Synced, artifacts, squid, local
<1>12. ASSUME NEW t \in Terminals, IdleList(t) PROVE ControlInv'
  BY <1>12 DEF IdleList, GoTo, Leave, artifacts, squid, local
<1>13. ASSUME NEW t \in Terminals, IdleCount(t) PROVE ControlInv'
  BY <1>13 DEF IdleCount, GoTo, Leave, artifacts, squid, local
<1>14. ASSUME NEW t \in Terminals, IdleStop(t) PROVE ControlInv'
  BY <1>14 DEF IdleStop, GoTo, Leave, artifacts, squid, local
<1>15. ASSUME NEW t \in Terminals, Prepare(t) PROVE ControlInv'
  BY <1>15 DEF Prepare, GoTo, Leave, artifacts, squid, local
<1>16. ASSUME NEW t \in Terminals, Create(t) PROVE ControlInv'
  BY <1>16 DEF Create, GoTo, Leave, artifacts, squid, local
<1>17. ASSUME NEW t \in Terminals, CreateReturns(t) PROVE ControlInv'
  BY <1>17 DEF CreateReturns, GoTo, Leave, artifacts, squid, local
<1>18. ASSUME NEW t \in Terminals, Halt(t) PROVE ControlInv'
  BY <1>18 DEF Halt, GoTo, Leave, artifacts, squid, local
<1>19. ASSUME NEW t \in Terminals, Boot(t) PROVE ControlInv'
  BY <1>19 DEF Boot, GoTo, Leave, artifacts, squid, local
<1>20. ASSUME NEW t \in Terminals, Verify(t) PROVE ControlInv'
  BY <1>20 DEF Verify, GoTo, Leave, artifacts, squid, local
<1>21. ASSUME NEW t \in Terminals, Inject(t) PROVE ControlInv'
  BY <1>21 DEF Inject, GoTo, Leave, artifacts, squid, local
<1>22. ASSUME NEW t \in Terminals, Enter(t) PROVE ControlInv'
  BY <1>22 DEF Enter, GoTo, Leave, artifacts, squid, local
<1>23. ASSUME NEW t \in Terminals, Delete(t) PROVE ControlInv'
  BY <1>23 DEF Delete, GoTo, Leave, artifacts, squid, local
<1>24. ASSUME NEW t \in Terminals, RemoveArtifacts(t) PROVE ControlInv'
  BY <1>24 DEF RemoveArtifacts, GoTo, Leave, artifacts, squid, local
<1>25. ASSUME NEW t \in Terminals, RetireFromProxy(t) PROVE ControlInv'
  BY <1>25 DEF RetireFromProxy, GoTo, Leave, artifacts, squid, local
<1>26. ASSUME NEW t \in Terminals, Abandon(t) PROVE ControlInv'
  BY <1>26 DEF Abandon, GoTo, Leave, artifacts, squid, local
<1>27. ASSUME NEW v \in VMs, Provisioned(v) PROVE ControlInv'
  BY <1>27 DEF Provisioned, artifacts, squid, local
<1>28. CASE HostReboots
  BY <1>28 DEF HostReboots, artifacts
<1>29. CASE UNCHANGED vars
  BY <1>29 DEF vars, artifacts, squid, local
<1>. QED
  BY <1>1, <1>2, <1>3, <1>4, <1>5, <1>6, <1>7, <1>8, <1>9, <1>10, <1>11, <1>12, <1>13, <1>14,
     <1>15, <1>16, <1>17, <1>18, <1>19, <1>20, <1>21, <1>22, <1>23, <1>24, <1>25, <1>26, <1>27,
     <1>28, <1>29 DEF Next

\* ControlInv is an invariant, for any number of terminals and any faults.
LEMMA ControlInvariant == Spec => []ControlInv
<1>1. Init => ControlInv
  BY DEF Init, ControlInv, ControlType, Steps, Commands
<1>. QED
  BY <1>1, ControlStep, PTL DEF Spec

----------------------------------------------------------------------------
(* Types.                                                                  *)

DataType ==
  /\ yaml \in PortMap /\ slot \in PortMap
  /\ vm \in [VMs -> Machine]
  /\ proxy \in {"none", "running", "stopped"}
  /\ disk \in PortMap /\ served \in PortMap
  /\ want \in [Terminals -> PortMap]
  /\ seen \in [Terminals -> SUBSET VMs]

\* The record for no VM is a Machine, ...
LEMMA NoMachineType == NoMachine \in Machine
BY DEF Machine, NoMachine

\* ... a Machine stays one when the guest, `new` or its checks mark it, ...
LEMMA MachineType ==
  ASSUME NEW m \in Machine
  PROVE  /\ m.status \in {"none", "running", "stopped"} /\ m.port \in Port \cup {NoPort}
         /\ m.wall \in BOOLEAN /\ m.open \in BOOLEAN
         /\ [m EXCEPT !.wall = TRUE] \in Machine
         /\ [m EXCEPT !.verified = TRUE] \in Machine
         /\ [m EXCEPT !.token = TRUE] \in Machine
BY DEF Machine

\* ... when it starts or stops, ...
LEMMA MachineStatus ==
  ASSUME NEW m \in Machine, NEW s \in {"none", "running", "stopped"}, NEW b \in BOOLEAN
  PROVE  [m EXCEPT !.status = s, !.open = b] \in Machine
BY DEF Machine

\* ... and when it is created.
LEMMA MachineCreated ==
  ASSUME NEW p \in Port \cup {NoPort}
  PROVE  [NoMachine EXCEPT !.status = "running", !.port = p, !.open = TRUE] \in Machine
BY DEF Machine, NoMachine

\* The VM a step replaces is one of the type's, and so is what replaces it.
LEMMA Replaced ==
  ASSUME vm \in [VMs -> Machine], NEW v, NEW m, vm' = [vm EXCEPT ![v] = m],
         v \in VMs => m \in Machine
  PROVE  vm' \in [VMs -> Machine]
OBVIOUS

\* The empty port map is a port map.
LEMMA MapFacts == NoMap \in PortMap
BY DEF NoMap, PortMap

\* Every step keeps files, VMs and proxy in their types.
LEMMA DataStep == ControlInv /\ DataType /\ [Next]_vars => DataType'
<1> SUFFICES ASSUME ControlInv, DataType, [Next]_vars PROVE DataType'
  OBVIOUS
<1> USE LifecycleAssumption, MapFacts DEF DataType
<1>1. ASSUME NEW t \in Terminals, NEW v \in VMs, New(t, v) PROVE DataType'
  BY <1>1 DEF New, Invoke, SaysMissing, SaysNotRunning, artifacts, squid, local
<1>2. ASSUME NEW t \in Terminals, NEW v \in VMs, Start(t, v) PROVE DataType'
  BY <1>2 DEF Start, Invoke, SaysMissing, SaysNotRunning, artifacts, squid, local
<1>3. ASSUME NEW t \in Terminals, NEW v \in VMs, Shell(t, v) PROVE DataType'
  BY <1>3 DEF Shell, Invoke, SaysMissing, SaysNotRunning, artifacts, squid, local
<1>4. ASSUME NEW t \in Terminals, NEW v \in VMs, Stop(t, v) PROVE DataType'
  BY <1>4 DEF Stop, Invoke, SaysMissing, SaysNotRunning, artifacts, squid, local
<1>5. ASSUME NEW t \in Terminals, NEW v \in VMs, Rm(t, v) PROVE DataType'
  BY <1>5 DEF Rm, Invoke, SaysMissing, SaysNotRunning, artifacts, squid, local
<1>6. ASSUME NEW t \in Terminals, SyncProxy(t) PROVE DataType'
  BY <1>6 DEF SyncProxy, Invoke, Leave, artifacts, squid, local
<1>7. ASSUME NEW t \in Terminals, Ensure(t) PROVE DataType'
  BY <1>7 DEF Ensure, GoTo, Leave, artifacts, squid, local
<1>8. ASSUME NEW t \in Terminals, SyncRead(t) PROVE DataType'
  BY <1>8 DEF SyncRead, squid, artifacts
<1>9. ASSUME NEW t \in Terminals, SyncUnchanged(t) PROVE DataType'
  BY <1>9 DEF SyncUnchanged, GoTo, Leave, Synced, artifacts, squid, local
<1>10. ASSUME NEW t \in Terminals, SyncPush(t) PROVE DataType'
  BY <1>10 DEF SyncPush, GoTo, Leave, artifacts, squid, local
<1>11. ASSUME NEW t \in Terminals, SyncLoad(t) PROVE DataType'
  BY <1>11 DEF SyncLoad, GoTo, Leave, Synced, artifacts, squid, local
<1>12. ASSUME NEW t \in Terminals, IdleList(t) PROVE DataType'
  BY <1>12 DEF IdleList, GoTo, Leave, artifacts, squid, local
<1>13. ASSUME NEW t \in Terminals, IdleCount(t) PROVE DataType'
  BY <1>13 DEF IdleCount, GoTo, Leave, artifacts, squid, local
<1>14. ASSUME NEW t \in Terminals, IdleStop(t) PROVE DataType'
  BY <1>14 DEF IdleStop, GoTo, Leave, artifacts, squid, local
<1>15. ASSUME NEW t \in Terminals, Prepare(t) PROVE DataType'
  <2>1. PICK p \in Port : slot' = [slot EXCEPT ![target[t]] = p] /\ yaml' = [yaml EXCEPT ![target[t]] = p]
    BY <1>15 DEF Prepare
  <2>. QED
    BY <1>15, <2>1 DEF Prepare, squid, local, PortMap
<1>16. ASSUME NEW t \in Terminals, Create(t) PROVE DataType'
  <2>1. target[t] \in VMs /\ yaml[target[t]] \in Port \cup {NoPort}
    BY <1>16 DEF Create, ControlInv, PortMap, Commands
  <2>2. vm' \in [VMs -> Machine]
    BY <1>16, <2>1, MachineCreated DEF Create
  <2>. QED
    BY <1>16, <2>2 DEF Create, artifacts, squid, local
<1>17. ASSUME NEW t \in Terminals, CreateReturns(t) PROVE DataType'
  BY <1>17 DEF CreateReturns, GoTo, Leave, artifacts, squid, local
<1>18. ASSUME NEW t \in Terminals, Halt(t) PROVE DataType'
  <2>1. vm' = [vm EXCEPT ![target[t]] = [vm[target[t]] EXCEPT !.status = "stopped", !.open = FALSE]]
    BY <1>18 DEF Halt
  <2>2. vm' \in [VMs -> Machine]
    BY <2>1, MachineStatus, Replaced
  <2>. QED
    BY <1>18, <2>2 DEF Halt, artifacts, squid, local
<1>19. ASSUME NEW t \in Terminals, Boot(t) PROVE DataType'
  <2> DEFINE v == target[t]
  <2>1. vm' = vm \/ vm' = [vm EXCEPT ![v] = [vm[v] EXCEPT !.status = "running", !.open = ~vm[v].wall]]
    BY <1>19 DEF Boot
  <2>2. (~vm[v].wall) \in BOOLEAN
    OBVIOUS
  <2>3. vm' \in [VMs -> Machine]
    BY <2>1, <2>2, MachineStatus, Replaced
  <2>. QED
    BY <1>19, <2>3 DEF Boot, artifacts, squid, local, Leave
<1>20. ASSUME NEW t \in Terminals, Verify(t) PROVE DataType'
  <2>1. vm' = [vm EXCEPT ![target[t]] = [vm[target[t]] EXCEPT !.verified = TRUE]]
    BY <1>20 DEF Verify
  <2>2. vm' \in [VMs -> Machine]
    BY <2>1, MachineType, Replaced
  <2>. QED
    BY <1>20, <2>2 DEF Verify, artifacts, squid, local
<1>21. ASSUME NEW t \in Terminals, Inject(t) PROVE DataType'
  <2>1. vm' = [vm EXCEPT ![target[t]] = [vm[target[t]] EXCEPT !.token = TRUE]]
    BY <1>21 DEF Inject
  <2>2. vm' \in [VMs -> Machine]
    BY <2>1, MachineType, Replaced
  <2>. QED
    BY <1>21, <2>2 DEF Inject, artifacts, squid, Leave
<1>22. ASSUME NEW t \in Terminals, Enter(t) PROVE DataType'
  BY <1>22 DEF Enter, GoTo, Leave, artifacts, squid, local
<1>23. ASSUME NEW t \in Terminals, Delete(t) PROVE DataType'
  BY <1>23, NoMachineType DEF Delete, artifacts, squid, local
<1>24. ASSUME NEW t \in Terminals, RemoveArtifacts(t) PROVE DataType'
  BY <1>24 DEF RemoveArtifacts, squid, local, PortMap
<1>25. ASSUME NEW t \in Terminals, RetireFromProxy(t) PROVE DataType'
  BY <1>25 DEF RetireFromProxy, GoTo, Leave, artifacts, squid, local
<1>26. ASSUME NEW t \in Terminals, Abandon(t) PROVE DataType'
  BY <1>26 DEF Abandon, GoTo, Leave, artifacts, squid, local
<1>27. ASSUME NEW v \in VMs, Provisioned(v) PROVE DataType'
  <2>1. vm' = [vm EXCEPT ![v] = [vm[v] EXCEPT !.wall = TRUE]]
    BY <1>27 DEF Provisioned
  <2>2. vm' \in [VMs -> Machine]
    BY <2>1, MachineType, Replaced
  <2>. QED
    BY <1>27, <2>2 DEF Provisioned, artifacts, squid, local
<1>28. CASE HostReboots
  <2>1. \A v \in VMs : [vm[v] EXCEPT !.status = "stopped", !.open = FALSE] \in Machine
    BY MachineStatus
  <2>2. vm' \in [VMs -> Machine]
    BY <1>28, <2>1 DEF HostReboots
  <2>. QED
    BY <1>28, <2>2 DEF HostReboots, artifacts
<1>29. CASE UNCHANGED vars
  BY <1>29 DEF vars, artifacts, squid, local
<1>. QED
  BY <1>1, <1>2, <1>3, <1>4, <1>5, <1>6, <1>7, <1>8, <1>9, <1>10, <1>11, <1>12, <1>13, <1>14,
     <1>15, <1>16, <1>17, <1>18, <1>19, <1>20, <1>21, <1>22, <1>23, <1>24, <1>25, <1>26, <1>27,
     <1>28, <1>29 DEF Next

\* DataType is an invariant, for any number of terminals and any faults.
LEMMA DataInvariant == Spec => []DataType
<1>1. Init => DataType
  BY NoMachineType, MapFacts DEF Init, DataType
<1>. QED
  BY <1>1, DataStep, ControlInvariant, PTL DEF Spec

\* Lifecycle is type-correct, for any number of terminals and any faults.
THEOREM LifecycleTypeCorrect == Spec => []TypeOK
<1>1. ControlInv /\ DataType => TypeOK
  BY DEF ControlInv, ControlType, DataType, TypeOK
<1>. QED
  BY <1>1, ControlInvariant, DataInvariant, PTL

----------------------------------------------------------------------------
(* Verified VMs, whatever runs beside them.                                *)

\* A VM that runs without being open has its firewall installed: it booted with it.
OpenUntilWalled == \A v \in VMs : Running(v) /\ ~vm[v].open => vm[v].wall

ClampInv == OpenUntilWalled /\ VerifiedIsClamped

\* No step opens a VM whose firewall is installed, or verifies an open one.
LEMMA ClampStep == ControlInv /\ DataType /\ ClampInv /\ [Next]_vars => ClampInv'
<1> SUFFICES ASSUME ControlInv, DataType, ClampInv, [Next]_vars PROVE ClampInv'
  OBVIOUS
<1> USE LifecycleAssumption DEF DataType, ClampInv, OpenUntilWalled, VerifiedIsClamped,
                                Machine, NoMachine, Running
<1>1. ASSUME NEW t \in Terminals, NEW v \in VMs, New(t, v) PROVE ClampInv'
  BY <1>1 DEF New, Invoke, SaysMissing, SaysNotRunning, artifacts, squid, local
<1>2. ASSUME NEW t \in Terminals, NEW v \in VMs, Start(t, v) PROVE ClampInv'
  BY <1>2 DEF Start, Invoke, SaysMissing, SaysNotRunning, artifacts, squid, local
<1>3. ASSUME NEW t \in Terminals, NEW v \in VMs, Shell(t, v) PROVE ClampInv'
  BY <1>3 DEF Shell, Invoke, SaysMissing, SaysNotRunning, artifacts, squid, local
<1>4. ASSUME NEW t \in Terminals, NEW v \in VMs, Stop(t, v) PROVE ClampInv'
  BY <1>4 DEF Stop, Invoke, SaysMissing, SaysNotRunning, artifacts, squid, local
<1>5. ASSUME NEW t \in Terminals, NEW v \in VMs, Rm(t, v) PROVE ClampInv'
  BY <1>5 DEF Rm, Invoke, SaysMissing, SaysNotRunning, artifacts, squid, local
<1>6. ASSUME NEW t \in Terminals, SyncProxy(t) PROVE ClampInv'
  BY <1>6 DEF SyncProxy, Invoke, Leave, artifacts, squid, local
<1>7. ASSUME NEW t \in Terminals, Ensure(t) PROVE ClampInv'
  BY <1>7 DEF Ensure, GoTo, Leave, artifacts, squid, local
<1>8. ASSUME NEW t \in Terminals, SyncRead(t) PROVE ClampInv'
  BY <1>8 DEF SyncRead, GoTo, Leave, artifacts, squid, local
<1>9. ASSUME NEW t \in Terminals, SyncUnchanged(t) PROVE ClampInv'
  BY <1>9 DEF SyncUnchanged, GoTo, Leave, Synced, artifacts, squid, local
<1>10. ASSUME NEW t \in Terminals, SyncPush(t) PROVE ClampInv'
  BY <1>10 DEF SyncPush, GoTo, Leave, artifacts, squid, local
<1>11. ASSUME NEW t \in Terminals, SyncLoad(t) PROVE ClampInv'
  BY <1>11 DEF SyncLoad, GoTo, Leave, Synced, artifacts, squid, local
<1>12. ASSUME NEW t \in Terminals, IdleList(t) PROVE ClampInv'
  BY <1>12 DEF IdleList, GoTo, Leave, artifacts, squid, local
<1>13. ASSUME NEW t \in Terminals, IdleCount(t) PROVE ClampInv'
  BY <1>13 DEF IdleCount, GoTo, Leave, artifacts, squid, local
<1>14. ASSUME NEW t \in Terminals, IdleStop(t) PROVE ClampInv'
  BY <1>14 DEF IdleStop, GoTo, Leave, artifacts, squid, local
<1>15. ASSUME NEW t \in Terminals, Prepare(t) PROVE ClampInv'
  BY <1>15 DEF Prepare, GoTo, Leave, artifacts, squid, local
<1>16. ASSUME NEW t \in Terminals, Create(t) PROVE ClampInv'
  BY <1>16 DEF Create, GoTo, Leave, artifacts, squid, local
<1>17. ASSUME NEW t \in Terminals, CreateReturns(t) PROVE ClampInv'
  BY <1>17 DEF CreateReturns, GoTo, Leave, artifacts, squid, local
<1>18. ASSUME NEW t \in Terminals, Halt(t) PROVE ClampInv'
  BY <1>18 DEF Halt, GoTo, Leave, artifacts, squid, local
<1>19. ASSUME NEW t \in Terminals, Boot(t) PROVE ClampInv'
  BY <1>19 DEF Boot, GoTo, Leave, artifacts, squid, local
<1>20. ASSUME NEW t \in Terminals, Verify(t) PROVE ClampInv'
  BY <1>20 DEF Verify, GoTo, Leave, artifacts, squid, local
<1>21. ASSUME NEW t \in Terminals, Inject(t) PROVE ClampInv'
  BY <1>21 DEF Inject, GoTo, Leave, artifacts, squid, local
<1>22. ASSUME NEW t \in Terminals, Enter(t) PROVE ClampInv'
  BY <1>22 DEF Enter, GoTo, Leave, artifacts, squid, local
<1>23. ASSUME NEW t \in Terminals, Delete(t) PROVE ClampInv'
  BY <1>23 DEF Delete, GoTo, Leave, artifacts, squid, local
<1>24. ASSUME NEW t \in Terminals, RemoveArtifacts(t) PROVE ClampInv'
  BY <1>24 DEF RemoveArtifacts, GoTo, Leave, artifacts, squid, local
<1>25. ASSUME NEW t \in Terminals, RetireFromProxy(t) PROVE ClampInv'
  BY <1>25 DEF RetireFromProxy, GoTo, Leave, artifacts, squid, local
<1>26. ASSUME NEW t \in Terminals, Abandon(t) PROVE ClampInv'
  BY <1>26 DEF Abandon, GoTo, Leave, artifacts, squid, local
<1>27. ASSUME NEW v \in VMs, Provisioned(v) PROVE ClampInv'
  BY <1>27 DEF Provisioned, artifacts, squid, local
<1>28. CASE HostReboots
  BY <1>28 DEF HostReboots, artifacts
<1>29. CASE UNCHANGED vars
  BY <1>29 DEF vars, artifacts, squid, local
<1>. QED
  BY <1>1, <1>2, <1>3, <1>4, <1>5, <1>6, <1>7, <1>8, <1>9, <1>10, <1>11, <1>12, <1>13, <1>14,
     <1>15, <1>16, <1>17, <1>18, <1>19, <1>20, <1>21, <1>22, <1>23, <1>24, <1>25, <1>26, <1>27,
     <1>28, <1>29 DEF Next

\* A VM that passed verification keeps its firewall through every stop, start
\* and reboot, for any number of terminals and whatever fails.
THEOREM VerifiedStaysClamped == Spec => []VerifiedIsClamped
<1>1. Init => ClampInv
  BY DEF Init, ClampInv, OpenUntilWalled, VerifiedIsClamped, Running, NoMachine
<1>2. ClampInv => VerifiedIsClamped
  BY DEF ClampInv
<1>. QED
  BY <1>1, <1>2, ClampStep, ControlInvariant, DataInvariant, PTL DEF Spec

----------------------------------------------------------------------------
(* One command at a time, a listing that does not lie, no Sync cut short.  *)

\* The records agree with the VMs, and no two name one port.
SlotInv ==
  /\ yaml = slot
  /\ \A v \in VMs : Exists(v) => slot[v] = vm[v].port /\ slot[v] \in Port
  /\ \A v, w \in VMs : slot[v] = slot[w] /\ slot[v] # NoPort => v = w

\* `new` works on a name no VM has until it creates it, `rm` on one no VM has
\* any more from the delete on, and its slot is free once it was unlinked.
TargetInv ==
  \A t \in Terminals :
    /\ cmd[t] = "new" /\ pc[t] \in {"prepare", "ensure", "read", "push", "load", "create"} =>
         ~Exists(target[t])
    /\ pc[t] = "unlink" => ~Exists(target[t])
    /\ cmd[t] = "rm" /\ pc[t] \in {"retire", "read", "push", "load", "list", "count", "stopproxy"} =>
         ~Exists(target[t]) /\ slot[target[t]] = NoPort

\* Between two Syncs squid has loaded what is on disk, and the end of a Sync
\* leaves it with what the slots say.
SyncInv ==
  /\ (\A t \in Terminals : pc[t] # "load") => disk = served
  /\ \A t \in Terminals :
       /\ pc[t] \in {"read", "push", "load"} => proxy = "running"
       /\ pc[t] \in {"push", "load"} => want[t] = slot
       /\ pc[t] = "load" => disk = slot
       /\ pc[t] \in {"create", "provision", "boot"} \/ (pc[t] = "halt" /\ cmd[t] = "new") =>
            proxy = "running" /\ served = slot
       /\ cmd[t] = "rm" /\ pc[t] \in {"list", "count", "stopproxy"} /\ proxy = "running" =>
            served[target[t]] = NoPort

\* A sandbox that runs is served at its slot, and alone there.
ServedInv ==
  \A v \in VMs : Running(v) =>
    /\ proxy = "running"
    /\ \A w \in VMs : served[w] = slot[v] <=> w = v

\* StopIfIdle's listing is still the truth when it is acted on.
IdleInv ==
  \A t \in Terminals :
    /\ pc[t] = "count" => seen[t] = {v \in VMs : Running(v)}
    /\ pc[t] = "stopproxy" => \A v \in VMs : ~Running(v)

EgressInv == SlotInv /\ TargetInv /\ SyncInv /\ ServedInv /\ IdleInv

\* A reboot of the host stops every VM and changes nothing else of it.
LEMMA RebootFacts ==
  ASSUME DataType, HostReboots
  PROVE  \A v \in VMs : /\ vm'[v].status # "running"
                        /\ vm'[v].status = "none" <=> vm[v].status = "none"
                        /\ vm'[v].port = vm[v].port
                        /\ vm'[v].verified = vm[v].verified
                        /\ vm'[v].token = vm[v].token
BY DEF DataType, Machine, HostReboots, Running

\* No step makes the records and the VMs disagree, or two records name one port.
LEMMA SlotStep ==
  ASSUME OneTerminal, ~ListingFails, ~SyncDies,
         ControlInv, DataType, SlotInv, TargetInv, [Next]_vars
  PROVE  SlotInv'
<1> USE LifecycleAssumption DEF OneTerminal, DataType, PortMap, Machine, NoMachine, Exists, Running,
        SlotInv, TargetInv, ControlInv, Commands
<1>1. ASSUME NEW t \in Terminals, NEW v \in VMs, New(t, v) PROVE SlotInv'
  BY <1>1 DEF New, Invoke, SaysMissing, SaysNotRunning, artifacts, squid, local
<1>2. ASSUME NEW t \in Terminals, NEW v \in VMs, Start(t, v) PROVE SlotInv'
  BY <1>2 DEF Start, Invoke, SaysMissing, SaysNotRunning, artifacts, squid, local
<1>3. ASSUME NEW t \in Terminals, NEW v \in VMs, Shell(t, v) PROVE SlotInv'
  BY <1>3 DEF Shell, Invoke, SaysMissing, SaysNotRunning, artifacts, squid, local
<1>4. ASSUME NEW t \in Terminals, NEW v \in VMs, Stop(t, v) PROVE SlotInv'
  BY <1>4 DEF Stop, Invoke, SaysMissing, SaysNotRunning, artifacts, squid, local
<1>5. ASSUME NEW t \in Terminals, NEW v \in VMs, Rm(t, v) PROVE SlotInv'
  BY <1>5 DEF Rm, Invoke, SaysMissing, SaysNotRunning, artifacts, squid, local
<1>6. ASSUME NEW t \in Terminals, SyncProxy(t) PROVE SlotInv'
  BY <1>6 DEF SyncProxy, Invoke, Leave, artifacts, squid, local
<1>7. ASSUME NEW t \in Terminals, Ensure(t) PROVE SlotInv'
  BY <1>7 DEF Ensure, GoTo, Leave, artifacts, squid, local
<1>8. ASSUME NEW t \in Terminals, SyncRead(t) PROVE SlotInv'
  BY <1>8 DEF SyncRead, GoTo, Leave, artifacts, squid, local
<1>9. ASSUME NEW t \in Terminals, SyncUnchanged(t) PROVE SlotInv'
  BY <1>9 DEF SyncUnchanged, GoTo, Leave, Synced, artifacts, squid, local
<1>10. ASSUME NEW t \in Terminals, SyncPush(t) PROVE SlotInv'
  BY <1>10 DEF SyncPush, GoTo, Leave, artifacts, squid, local
<1>11. ASSUME NEW t \in Terminals, SyncLoad(t) PROVE SlotInv'
  BY <1>11 DEF SyncLoad, GoTo, Leave, Synced, artifacts, squid, local
<1>12. ASSUME NEW t \in Terminals, IdleList(t) PROVE SlotInv'
  BY <1>12 DEF IdleList, GoTo, Leave, artifacts, squid, local
<1>13. ASSUME NEW t \in Terminals, IdleCount(t) PROVE SlotInv'
  BY <1>13 DEF IdleCount, GoTo, Leave, artifacts, squid, local
<1>14. ASSUME NEW t \in Terminals, IdleStop(t) PROVE SlotInv'
  BY <1>14 DEF IdleStop, GoTo, Leave, artifacts, squid, local
<1>15. ASSUME NEW t \in Terminals, Prepare(t) PROVE SlotInv'
  BY <1>15 DEF Prepare, GoTo, Leave, artifacts, squid, local
<1>16. ASSUME NEW t \in Terminals, Create(t) PROVE SlotInv'
  BY <1>16 DEF Create, GoTo, Leave, artifacts, squid, local
<1>17. ASSUME NEW t \in Terminals, CreateReturns(t) PROVE SlotInv'
  BY <1>17 DEF CreateReturns, GoTo, Leave, artifacts, squid, local
<1>18. ASSUME NEW t \in Terminals, Halt(t) PROVE SlotInv'
  BY <1>18 DEF Halt, GoTo, Leave, artifacts, squid, local
<1>19. ASSUME NEW t \in Terminals, Boot(t) PROVE SlotInv'
  BY <1>19 DEF Boot, GoTo, Leave, artifacts, squid, local
<1>20. ASSUME NEW t \in Terminals, Verify(t) PROVE SlotInv'
  BY <1>20 DEF Verify, GoTo, Leave, artifacts, squid, local
<1>21. ASSUME NEW t \in Terminals, Inject(t) PROVE SlotInv'
  BY <1>21 DEF Inject, GoTo, Leave, artifacts, squid, local
<1>22. ASSUME NEW t \in Terminals, Enter(t) PROVE SlotInv'
  BY <1>22 DEF Enter, GoTo, Leave, artifacts, squid, local
<1>23. ASSUME NEW t \in Terminals, Delete(t) PROVE SlotInv'
  BY <1>23 DEF Delete, GoTo, Leave, artifacts, squid, local
<1>24. ASSUME NEW t \in Terminals, RemoveArtifacts(t) PROVE SlotInv'
  BY <1>24 DEF RemoveArtifacts, GoTo, Leave, artifacts, squid, local
<1>25. ASSUME NEW t \in Terminals, RetireFromProxy(t) PROVE SlotInv'
  BY <1>25 DEF RetireFromProxy, GoTo, Leave, artifacts, squid, local
<1>26. ASSUME NEW t \in Terminals, Abandon(t) PROVE SlotInv'
  BY <1>26 DEF Abandon, GoTo, Leave, artifacts, squid, local
<1>27. ASSUME NEW v \in VMs, Provisioned(v) PROVE SlotInv'
  BY <1>27 DEF Provisioned, artifacts, squid, local
<1>28. CASE HostReboots
  <2>1. UNCHANGED <<yaml, slot>>
    BY <1>28 DEF HostReboots, artifacts
  <2>2. \A v \in VMs : vm'[v].status = "none" <=> vm[v].status = "none"
    BY <1>28, RebootFacts
  <2>3. \A v \in VMs : vm'[v].port = vm[v].port
    BY <1>28, RebootFacts
  <2>. QED
    BY <2>1, <2>2, <2>3
<1>29. CASE UNCHANGED vars
  BY <1>29 DEF vars, artifacts, squid, local
<1>. QED
  BY <1>1, <1>2, <1>3, <1>4, <1>5, <1>6, <1>7, <1>8, <1>9, <1>10, <1>11, <1>12, <1>13, <1>14,
     <1>15, <1>16, <1>17, <1>18, <1>19, <1>20, <1>21, <1>22, <1>23, <1>24, <1>25, <1>26, <1>27,
     <1>28, <1>29 DEF Next

\* A name `new` works on stays without a VM, and one `rm` gave up stays free.
LEMMA TargetStep ==
  ASSUME OneTerminal, ~ListingFails, ~SyncDies,
         ControlInv, DataType, SlotInv, TargetInv, SyncInv, [Next]_vars
  PROVE  TargetInv'
<1> USE LifecycleAssumption DEF OneTerminal, DataType, PortMap, Machine, NoMachine, Exists, Running,
        TargetInv, ControlInv, ControlType, Commands
<1>1. ASSUME NEW t \in Terminals, NEW v \in VMs, New(t, v) PROVE TargetInv'
  BY <1>1 DEF New, Invoke, SaysMissing, SaysNotRunning, artifacts, squid, local
<1>2. ASSUME NEW t \in Terminals, NEW v \in VMs, Start(t, v) PROVE TargetInv'
  BY <1>2 DEF Start, Invoke, SaysMissing, SaysNotRunning, artifacts, squid, local
<1>3. ASSUME NEW t \in Terminals, NEW v \in VMs, Shell(t, v) PROVE TargetInv'
  BY <1>3 DEF Shell, Invoke, SaysMissing, SaysNotRunning, artifacts, squid, local
<1>4. ASSUME NEW t \in Terminals, NEW v \in VMs, Stop(t, v) PROVE TargetInv'
  BY <1>4 DEF Stop, Invoke, SaysMissing, SaysNotRunning, artifacts, squid, local
<1>5. ASSUME NEW t \in Terminals, NEW v \in VMs, Rm(t, v) PROVE TargetInv'
  BY <1>5 DEF Rm, Invoke, SaysMissing, SaysNotRunning, artifacts, squid, local
<1>6. ASSUME NEW t \in Terminals, SyncProxy(t) PROVE TargetInv'
  BY <1>6 DEF SyncProxy, Invoke, Leave, artifacts, squid, local
<1>7. ASSUME NEW t \in Terminals, Ensure(t) PROVE TargetInv'
  BY <1>7 DEF Ensure, GoTo, Leave, artifacts, squid, local
<1>8. ASSUME NEW t \in Terminals, SyncRead(t) PROVE TargetInv'
  BY <1>8 DEF SyncRead, GoTo, Leave, artifacts, squid, local
<1>9. ASSUME NEW t \in Terminals, SyncUnchanged(t) PROVE TargetInv'
  BY <1>9 DEF SyncUnchanged, GoTo, Leave, Synced, artifacts, squid, local
<1>10. ASSUME NEW t \in Terminals, SyncPush(t) PROVE TargetInv'
  BY <1>10 DEF SyncPush, GoTo, Leave, artifacts, squid, local
<1>11. ASSUME NEW t \in Terminals, SyncLoad(t) PROVE TargetInv'
  BY <1>11 DEF SyncLoad, GoTo, Leave, Synced, artifacts, squid, local
<1>12. ASSUME NEW t \in Terminals, IdleList(t) PROVE TargetInv'
  BY <1>12 DEF IdleList, GoTo, Leave, artifacts, squid, local
<1>13. ASSUME NEW t \in Terminals, IdleCount(t) PROVE TargetInv'
  BY <1>13 DEF IdleCount, GoTo, Leave, artifacts, squid, local
<1>14. ASSUME NEW t \in Terminals, IdleStop(t) PROVE TargetInv'
  BY <1>14 DEF IdleStop, GoTo, Leave, artifacts, squid, local
<1>15. ASSUME NEW t \in Terminals, Prepare(t) PROVE TargetInv'
  BY <1>15 DEF Prepare, GoTo, Leave, artifacts, squid, local
<1>16. ASSUME NEW t \in Terminals, Create(t) PROVE TargetInv'
  BY <1>16 DEF Create, GoTo, Leave, artifacts, squid, local
<1>17. ASSUME NEW t \in Terminals, CreateReturns(t) PROVE TargetInv'
  BY <1>17 DEF CreateReturns, GoTo, Leave, artifacts, squid, local
<1>18. ASSUME NEW t \in Terminals, Halt(t) PROVE TargetInv'
  BY <1>18 DEF Halt, GoTo, Leave, artifacts, squid, local
<1>19. ASSUME NEW t \in Terminals, Boot(t) PROVE TargetInv'
  BY <1>19 DEF Boot, GoTo, Leave, artifacts, squid, local
<1>20. ASSUME NEW t \in Terminals, Verify(t) PROVE TargetInv'
  BY <1>20 DEF Verify, GoTo, Leave, artifacts, squid, local
<1>21. ASSUME NEW t \in Terminals, Inject(t) PROVE TargetInv'
  BY <1>21 DEF Inject, GoTo, Leave, artifacts, squid, local
<1>22. ASSUME NEW t \in Terminals, Enter(t) PROVE TargetInv'
  BY <1>22 DEF Enter, GoTo, Leave, artifacts, squid, local
<1>23. ASSUME NEW t \in Terminals, Delete(t) PROVE TargetInv'
  BY <1>23 DEF Delete, GoTo, Leave, artifacts, squid, local
<1>24. ASSUME NEW t \in Terminals, RemoveArtifacts(t) PROVE TargetInv'
  BY <1>24 DEF RemoveArtifacts, GoTo, Leave, artifacts, squid, local
<1>25. ASSUME NEW t \in Terminals, RetireFromProxy(t) PROVE TargetInv'
  BY <1>25 DEF RetireFromProxy, GoTo, Leave, artifacts, squid, local
<1>26. ASSUME NEW t \in Terminals, Abandon(t) PROVE TargetInv'
  BY <1>26 DEF Abandon, GoTo, Leave, artifacts, squid, local
<1>27. ASSUME NEW v \in VMs, Provisioned(v) PROVE TargetInv'
  BY <1>27 DEF Provisioned, artifacts, squid, local
<1>28. CASE HostReboots
  BY <1>28 DEF HostReboots, artifacts
<1>29. CASE UNCHANGED vars
  BY <1>29 DEF vars, artifacts, squid, local
<1>. QED
  BY <1>1, <1>2, <1>3, <1>4, <1>5, <1>6, <1>7, <1>8, <1>9, <1>10, <1>11, <1>12, <1>13, <1>14,
     <1>15, <1>16, <1>17, <1>18, <1>19, <1>20, <1>21, <1>22, <1>23, <1>24, <1>25, <1>26, <1>27,
     <1>28, <1>29 DEF Next

\* A Sync that is not cut short leaves squid with what the slots say.
LEMMA SyncStep ==
  ASSUME OneTerminal, ~ListingFails, ~SyncDies,
         ControlInv, DataType, SlotInv, TargetInv, SyncInv, ServedInv, [Next]_vars
  PROVE  SyncInv'
<1> USE LifecycleAssumption DEF OneTerminal, DataType, PortMap, Machine, NoMachine, Exists, Running,
        SlotInv, TargetInv, SyncInv, ControlInv, ControlType, Commands
<1>1. ASSUME NEW t \in Terminals, NEW v \in VMs, New(t, v) PROVE SyncInv'
  BY <1>1 DEF New, Invoke, SaysMissing, SaysNotRunning, artifacts, squid, local
<1>2. ASSUME NEW t \in Terminals, NEW v \in VMs, Start(t, v) PROVE SyncInv'
  BY <1>2 DEF Start, Invoke, SaysMissing, SaysNotRunning, artifacts, squid, local
<1>3. ASSUME NEW t \in Terminals, NEW v \in VMs, Shell(t, v) PROVE SyncInv'
  BY <1>3 DEF Shell, Invoke, SaysMissing, SaysNotRunning, artifacts, squid, local
<1>4. ASSUME NEW t \in Terminals, NEW v \in VMs, Stop(t, v) PROVE SyncInv'
  BY <1>4 DEF Stop, Invoke, SaysMissing, SaysNotRunning, artifacts, squid, local
<1>5. ASSUME NEW t \in Terminals, NEW v \in VMs, Rm(t, v) PROVE SyncInv'
  BY <1>5 DEF Rm, Invoke, SaysMissing, SaysNotRunning, artifacts, squid, local
<1>6. ASSUME NEW t \in Terminals, SyncProxy(t) PROVE SyncInv'
  BY <1>6 DEF SyncProxy, Invoke, Leave, artifacts, squid, local
<1>7. ASSUME NEW t \in Terminals, Ensure(t) PROVE SyncInv'
  BY <1>7 DEF Ensure, GoTo, Leave, artifacts, squid, local
<1>8. ASSUME NEW t \in Terminals, SyncRead(t) PROVE SyncInv'
  BY <1>8 DEF SyncRead, GoTo, Leave, artifacts, squid, local
<1>9. ASSUME NEW t \in Terminals, SyncUnchanged(t) PROVE SyncInv'
  BY <1>9 DEF SyncUnchanged, GoTo, Leave, Synced, artifacts, squid, local
<1>10. ASSUME NEW t \in Terminals, SyncPush(t) PROVE SyncInv'
  BY <1>10 DEF SyncPush, GoTo, Leave, artifacts, squid, local
<1>11. ASSUME NEW t \in Terminals, SyncLoad(t) PROVE SyncInv'
  BY <1>11 DEF SyncLoad, GoTo, Leave, Synced, artifacts, squid, local
<1>12. ASSUME NEW t \in Terminals, IdleList(t) PROVE SyncInv'
  BY <1>12 DEF IdleList, GoTo, Leave, artifacts, squid, local
<1>13. ASSUME NEW t \in Terminals, IdleCount(t) PROVE SyncInv'
  BY <1>13 DEF IdleCount, GoTo, Leave, artifacts, squid, local
<1>14. ASSUME NEW t \in Terminals, IdleStop(t) PROVE SyncInv'
  BY <1>14 DEF IdleStop, GoTo, Leave, artifacts, squid, local
<1>15. ASSUME NEW t \in Terminals, Prepare(t) PROVE SyncInv'
  BY <1>15 DEF Prepare, GoTo, Leave, artifacts, squid, local
<1>16. ASSUME NEW t \in Terminals, Create(t) PROVE SyncInv'
  BY <1>16 DEF Create, GoTo, Leave, artifacts, squid, local
<1>17. ASSUME NEW t \in Terminals, CreateReturns(t) PROVE SyncInv'
  BY <1>17 DEF CreateReturns, GoTo, Leave, artifacts, squid, local
<1>18. ASSUME NEW t \in Terminals, Halt(t) PROVE SyncInv'
  BY <1>18 DEF Halt, GoTo, Leave, artifacts, squid, local
<1>19. ASSUME NEW t \in Terminals, Boot(t) PROVE SyncInv'
  BY <1>19 DEF Boot, GoTo, Leave, artifacts, squid, local
<1>20. ASSUME NEW t \in Terminals, Verify(t) PROVE SyncInv'
  BY <1>20 DEF Verify, GoTo, Leave, artifacts, squid, local
<1>21. ASSUME NEW t \in Terminals, Inject(t) PROVE SyncInv'
  BY <1>21 DEF Inject, GoTo, Leave, artifacts, squid, local
<1>22. ASSUME NEW t \in Terminals, Enter(t) PROVE SyncInv'
  BY <1>22 DEF Enter, GoTo, Leave, artifacts, squid, local
<1>23. ASSUME NEW t \in Terminals, Delete(t) PROVE SyncInv'
  BY <1>23 DEF Delete, GoTo, Leave, artifacts, squid, local
<1>24. ASSUME NEW t \in Terminals, RemoveArtifacts(t) PROVE SyncInv'
  BY <1>24 DEF RemoveArtifacts, GoTo, Leave, artifacts, squid, local
<1>25. ASSUME NEW t \in Terminals, RetireFromProxy(t) PROVE SyncInv'
  BY <1>25 DEF RetireFromProxy, GoTo, Leave, artifacts, squid, local
<1>26. ASSUME NEW t \in Terminals, Abandon(t) PROVE SyncInv'
  BY <1>26 DEF Abandon, GoTo, Leave, artifacts, squid, local
<1>27. ASSUME NEW v \in VMs, Provisioned(v) PROVE SyncInv'
  BY <1>27 DEF Provisioned, artifacts, squid, local
<1>28. CASE HostReboots
  BY <1>28 DEF HostReboots, artifacts
<1>29. CASE UNCHANGED vars
  BY <1>29 DEF vars, artifacts, squid, local
<1>. QED
  BY <1>1, <1>2, <1>3, <1>4, <1>5, <1>6, <1>7, <1>8, <1>9, <1>10, <1>11, <1>12, <1>13, <1>14,
     <1>15, <1>16, <1>17, <1>18, <1>19, <1>20, <1>21, <1>22, <1>23, <1>24, <1>25, <1>26, <1>27,
     <1>28, <1>29 DEF Next

\* No step takes a running sandbox its way out, or gives it to another.
LEMMA ServedStep ==
  ASSUME OneTerminal, ~ListingFails, ~SyncDies,
         ControlInv, DataType, SlotInv, TargetInv, SyncInv, ServedInv, IdleInv, [Next]_vars
  PROVE  ServedInv'
<1> USE LifecycleAssumption DEF OneTerminal, DataType, PortMap, Machine, NoMachine, Exists, Running,
        SlotInv, TargetInv, SyncInv, ServedInv, IdleInv, ControlInv, Commands
<1>1. ASSUME NEW t \in Terminals, NEW v \in VMs, New(t, v) PROVE ServedInv'
  BY <1>1 DEF New, Invoke, SaysMissing, SaysNotRunning, artifacts, squid, local
<1>2. ASSUME NEW t \in Terminals, NEW v \in VMs, Start(t, v) PROVE ServedInv'
  BY <1>2 DEF Start, Invoke, SaysMissing, SaysNotRunning, artifacts, squid, local
<1>3. ASSUME NEW t \in Terminals, NEW v \in VMs, Shell(t, v) PROVE ServedInv'
  BY <1>3 DEF Shell, Invoke, SaysMissing, SaysNotRunning, artifacts, squid, local
<1>4. ASSUME NEW t \in Terminals, NEW v \in VMs, Stop(t, v) PROVE ServedInv'
  BY <1>4 DEF Stop, Invoke, SaysMissing, SaysNotRunning, artifacts, squid, local
<1>5. ASSUME NEW t \in Terminals, NEW v \in VMs, Rm(t, v) PROVE ServedInv'
  BY <1>5 DEF Rm, Invoke, SaysMissing, SaysNotRunning, artifacts, squid, local
<1>6. ASSUME NEW t \in Terminals, SyncProxy(t) PROVE ServedInv'
  BY <1>6 DEF SyncProxy, Invoke, Leave, artifacts, squid, local
<1>7. ASSUME NEW t \in Terminals, Ensure(t) PROVE ServedInv'
  BY <1>7 DEF Ensure, GoTo, Leave, artifacts, squid, local
<1>8. ASSUME NEW t \in Terminals, SyncRead(t) PROVE ServedInv'
  BY <1>8 DEF SyncRead, GoTo, Leave, artifacts, squid, local
<1>9. ASSUME NEW t \in Terminals, SyncUnchanged(t) PROVE ServedInv'
  BY <1>9 DEF SyncUnchanged, GoTo, Leave, Synced, artifacts, squid, local
<1>10. ASSUME NEW t \in Terminals, SyncPush(t) PROVE ServedInv'
  BY <1>10 DEF SyncPush, GoTo, Leave, artifacts, squid, local
<1>11. ASSUME NEW t \in Terminals, SyncLoad(t) PROVE ServedInv'
  BY <1>11 DEF SyncLoad, GoTo, Leave, Synced, artifacts, squid, local
<1>12. ASSUME NEW t \in Terminals, IdleList(t) PROVE ServedInv'
  BY <1>12 DEF IdleList, GoTo, Leave, artifacts, squid, local
<1>13. ASSUME NEW t \in Terminals, IdleCount(t) PROVE ServedInv'
  BY <1>13 DEF IdleCount, GoTo, Leave, artifacts, squid, local
<1>14. ASSUME NEW t \in Terminals, IdleStop(t) PROVE ServedInv'
  BY <1>14 DEF IdleStop, GoTo, Leave, artifacts, squid, local
<1>15. ASSUME NEW t \in Terminals, Prepare(t) PROVE ServedInv'
  BY <1>15 DEF Prepare, GoTo, Leave, artifacts, squid, local
<1>16. ASSUME NEW t \in Terminals, Create(t) PROVE ServedInv'
  BY <1>16 DEF Create, GoTo, Leave, artifacts, squid, local
<1>17. ASSUME NEW t \in Terminals, CreateReturns(t) PROVE ServedInv'
  BY <1>17 DEF CreateReturns, GoTo, Leave, artifacts, squid, local
<1>18. ASSUME NEW t \in Terminals, Halt(t) PROVE ServedInv'
  BY <1>18 DEF Halt, GoTo, Leave, artifacts, squid, local
<1>19. ASSUME NEW t \in Terminals, Boot(t) PROVE ServedInv'
  BY <1>19 DEF Boot, GoTo, Leave, artifacts, squid, local
<1>20. ASSUME NEW t \in Terminals, Verify(t) PROVE ServedInv'
  BY <1>20 DEF Verify, GoTo, Leave, artifacts, squid, local
<1>21. ASSUME NEW t \in Terminals, Inject(t) PROVE ServedInv'
  BY <1>21 DEF Inject, GoTo, Leave, artifacts, squid, local
<1>22. ASSUME NEW t \in Terminals, Enter(t) PROVE ServedInv'
  BY <1>22 DEF Enter, GoTo, Leave, artifacts, squid, local
<1>23. ASSUME NEW t \in Terminals, Delete(t) PROVE ServedInv'
  BY <1>23 DEF Delete, GoTo, Leave, artifacts, squid, local
<1>24. ASSUME NEW t \in Terminals, RemoveArtifacts(t) PROVE ServedInv'
  BY <1>24 DEF RemoveArtifacts, GoTo, Leave, artifacts, squid, local
<1>25. ASSUME NEW t \in Terminals, RetireFromProxy(t) PROVE ServedInv'
  BY <1>25 DEF RetireFromProxy, GoTo, Leave, artifacts, squid, local
<1>26. ASSUME NEW t \in Terminals, Abandon(t) PROVE ServedInv'
  BY <1>26 DEF Abandon, GoTo, Leave, artifacts, squid, local
<1>27. ASSUME NEW v \in VMs, Provisioned(v) PROVE ServedInv'
  BY <1>27 DEF Provisioned, artifacts, squid, local
<1>28. CASE HostReboots
  BY <1>28, RebootFacts DEF HostReboots, artifacts
<1>29. CASE UNCHANGED vars
  BY <1>29 DEF vars, artifacts, squid, local
<1>. QED
  BY <1>1, <1>2, <1>3, <1>4, <1>5, <1>6, <1>7, <1>8, <1>9, <1>10, <1>11, <1>12, <1>13, <1>14,
     <1>15, <1>16, <1>17, <1>18, <1>19, <1>20, <1>21, <1>22, <1>23, <1>24, <1>25, <1>26, <1>27,
     <1>28, <1>29 DEF Next

\* With nobody else at work, the listing StopIfIdle acts on is not stale.
LEMMA IdleStep ==
  ASSUME OneTerminal, ~ListingFails, ~SyncDies,
         ControlInv, DataType, IdleInv, SlotInv, [Next]_vars
  PROVE  IdleInv'
<1> USE LifecycleAssumption DEF OneTerminal, DataType, PortMap, Machine, NoMachine, Exists, Running,
        IdleInv, SlotInv, ControlInv, ControlType, Commands
<1>1. ASSUME NEW t \in Terminals, NEW v \in VMs, New(t, v) PROVE IdleInv'
  BY <1>1 DEF New, Invoke, SaysMissing, SaysNotRunning, artifacts, squid, local
<1>2. ASSUME NEW t \in Terminals, NEW v \in VMs, Start(t, v) PROVE IdleInv'
  BY <1>2 DEF Start, Invoke, SaysMissing, SaysNotRunning, artifacts, squid, local
<1>3. ASSUME NEW t \in Terminals, NEW v \in VMs, Shell(t, v) PROVE IdleInv'
  BY <1>3 DEF Shell, Invoke, SaysMissing, SaysNotRunning, artifacts, squid, local
<1>4. ASSUME NEW t \in Terminals, NEW v \in VMs, Stop(t, v) PROVE IdleInv'
  BY <1>4 DEF Stop, Invoke, SaysMissing, SaysNotRunning, artifacts, squid, local
<1>5. ASSUME NEW t \in Terminals, NEW v \in VMs, Rm(t, v) PROVE IdleInv'
  BY <1>5 DEF Rm, Invoke, SaysMissing, SaysNotRunning, artifacts, squid, local
<1>6. ASSUME NEW t \in Terminals, SyncProxy(t) PROVE IdleInv'
  BY <1>6 DEF SyncProxy, Invoke, Leave, artifacts, squid, local
<1>7. ASSUME NEW t \in Terminals, Ensure(t) PROVE IdleInv'
  BY <1>7 DEF Ensure, GoTo, Leave, artifacts, squid, local
<1>8. ASSUME NEW t \in Terminals, SyncRead(t) PROVE IdleInv'
  BY <1>8 DEF SyncRead, GoTo, Leave, artifacts, squid, local
<1>9. ASSUME NEW t \in Terminals, SyncUnchanged(t) PROVE IdleInv'
  BY <1>9 DEF SyncUnchanged, GoTo, Leave, Synced, artifacts, squid, local
<1>10. ASSUME NEW t \in Terminals, SyncPush(t) PROVE IdleInv'
  BY <1>10 DEF SyncPush, GoTo, Leave, artifacts, squid, local
<1>11. ASSUME NEW t \in Terminals, SyncLoad(t) PROVE IdleInv'
  BY <1>11 DEF SyncLoad, GoTo, Leave, Synced, artifacts, squid, local
<1>12. ASSUME NEW t \in Terminals, IdleList(t) PROVE IdleInv'
  BY <1>12 DEF IdleList, GoTo, Leave, artifacts, squid, local
<1>13. ASSUME NEW t \in Terminals, IdleCount(t) PROVE IdleInv'
  BY <1>13 DEF IdleCount, GoTo, Leave, artifacts, squid, local
<1>14. ASSUME NEW t \in Terminals, IdleStop(t) PROVE IdleInv'
  BY <1>14 DEF IdleStop, GoTo, Leave, artifacts, squid, local
<1>15. ASSUME NEW t \in Terminals, Prepare(t) PROVE IdleInv'
  BY <1>15 DEF Prepare, GoTo, Leave, artifacts, squid, local
<1>16. ASSUME NEW t \in Terminals, Create(t) PROVE IdleInv'
  BY <1>16 DEF Create, GoTo, Leave, artifacts, squid, local
<1>17. ASSUME NEW t \in Terminals, CreateReturns(t) PROVE IdleInv'
  BY <1>17 DEF CreateReturns, GoTo, Leave, artifacts, squid, local
<1>18. ASSUME NEW t \in Terminals, Halt(t) PROVE IdleInv'
  BY <1>18 DEF Halt, GoTo, Leave, artifacts, squid, local
<1>19. ASSUME NEW t \in Terminals, Boot(t) PROVE IdleInv'
  BY <1>19 DEF Boot, GoTo, Leave, artifacts, squid, local
<1>20. ASSUME NEW t \in Terminals, Verify(t) PROVE IdleInv'
  BY <1>20 DEF Verify, GoTo, Leave, artifacts, squid, local
<1>21. ASSUME NEW t \in Terminals, Inject(t) PROVE IdleInv'
  BY <1>21 DEF Inject, GoTo, Leave, artifacts, squid, local
<1>22. ASSUME NEW t \in Terminals, Enter(t) PROVE IdleInv'
  BY <1>22 DEF Enter, GoTo, Leave, artifacts, squid, local
<1>23. ASSUME NEW t \in Terminals, Delete(t) PROVE IdleInv'
  BY <1>23 DEF Delete, GoTo, Leave, artifacts, squid, local
<1>24. ASSUME NEW t \in Terminals, RemoveArtifacts(t) PROVE IdleInv'
  BY <1>24 DEF RemoveArtifacts, GoTo, Leave, artifacts, squid, local
<1>25. ASSUME NEW t \in Terminals, RetireFromProxy(t) PROVE IdleInv'
  BY <1>25 DEF RetireFromProxy, GoTo, Leave, artifacts, squid, local
<1>26. ASSUME NEW t \in Terminals, Abandon(t) PROVE IdleInv'
  BY <1>26 DEF Abandon, GoTo, Leave, artifacts, squid, local
<1>27. ASSUME NEW v \in VMs, Provisioned(v) PROVE IdleInv'
  BY <1>27 DEF Provisioned, artifacts, squid, local
<1>28. CASE HostReboots
  BY <1>28 DEF HostReboots, artifacts
<1>29. CASE UNCHANGED vars
  BY <1>29 DEF vars, artifacts, squid, local
<1>. QED
  BY <1>1, <1>2, <1>3, <1>4, <1>5, <1>6, <1>7, <1>8, <1>9, <1>10, <1>11, <1>12, <1>13, <1>14,
     <1>15, <1>16, <1>17, <1>18, <1>19, <1>20, <1>21, <1>22, <1>23, <1>24, <1>25, <1>26, <1>27,
     <1>28, <1>29 DEF Next

\* EgressInv is an invariant under the assumptions of RunningHasEgress.
LEMMA EgressInvariant ==
  OneTerminal /\ ~ListingFails /\ ~SyncDies => (Spec => []EgressInv)
<1> SUFFICES ASSUME OneTerminal, ~ListingFails, ~SyncDies PROVE Spec => []EgressInv
  OBVIOUS
<1>1. Init => EgressInv
  BY LifecycleAssumption
     DEF Init, EgressInv, SlotInv, TargetInv, SyncInv, ServedInv, IdleInv, NoMap, NoMachine,
         Exists, Running
<1>2. ControlInv /\ DataType /\ EgressInv /\ [Next]_vars => EgressInv'
  BY SlotStep, TargetStep, SyncStep, ServedStep, IdleStep DEF EgressInv
<1>. QED
  BY <1>1, <1>2, ControlInvariant, DataInvariant, PTL DEF Spec

\* A sandbox that runs has the proxy up and its list at its port, ...
THEOREM RunningHasEgress == OneTerminal /\ ~ListingFails /\ ~SyncDies => (Spec => []HasEgress)
<1>1. EgressInv => HasEgress
  BY DEF EgressInv, SlotInv, ServedInv, HasEgress, Exists, Running
<1>. QED
  BY <1>1, EgressInvariant, PTL

\* ... and no list but its own.
THEOREM RunningHasOwnList == OneTerminal /\ ~ListingFails /\ ~SyncDies => (Spec => []OwnListOnly)
<1>1. EgressInv => OwnListOnly
  BY DEF EgressInv, SlotInv, ServedInv, OwnListOnly, Exists, Running
<1>. QED
  BY <1>1, EgressInvariant, PTL

\* After the Sync of an `rm`, squid serves nothing under the departed name.
THEOREM DepartedIsUnserved ==
  OneTerminal /\ ~ListingFails /\ ~SyncDies => (Spec => []DepartedUnserved)
<1>1. EgressInv => DepartedUnserved
  BY DEF EgressInv, SyncInv, DepartedUnserved
<1>. QED
  BY <1>1, EgressInvariant, PTL

\* ptrbox does not stop the proxy under a running sandbox.
THEOREM ProxyOutlivesSandboxes ==
  OneTerminal /\ ~ListingFails /\ ~SyncDies => (Spec => NeverUnderSandbox)
<1> SUFFICES ASSUME OneTerminal, ~ListingFails, ~SyncDies PROVE Spec => NeverUnderSandbox
  OBVIOUS
<1> DEFINE Kept == proxy = "running" /\ proxy' = "stopped" /\ UNCHANGED vm =>
                     \A v \in VMs : ~Running(v)
<1>1. DataType /\ EgressInv /\ [Next]_vars => [Kept]_vars
  <2> SUFFICES ASSUME DataType, EgressInv, [Next]_vars,
                      proxy = "running", proxy' = "stopped", UNCHANGED vm
               PROVE  \A v \in VMs : ~Running(v)
    OBVIOUS
  <2>1. ASSUME NEW t \in Terminals, IdleStop(t) PROVE \A v \in VMs : ~Running(v)
    BY <2>1 DEF IdleStop, EgressInv, IdleInv
  <2>2. CASE HostReboots
    BY <2>2, RebootFacts DEF Running
  <2>. QED
    BY <2>1, <2>2
       DEF Next, New, Start, Shell, Stop, Rm, SyncProxy, Invoke, Ensure, SyncRead, SyncUnchanged,
           SyncPush, SyncLoad, IdleList, IdleCount, Prepare, Create, CreateReturns, Halt, Boot,
           Verify, Inject, Enter, Delete, RemoveArtifacts, RetireFromProxy, Abandon, Provisioned,
           vars, squid
<1>. QED
  BY <1>1, DataInvariant, EgressInvariant, PTL DEF Spec, NeverUnderSandbox

----------------------------------------------------------------------------
\* One command at a time, the VM the token is sent to is the one verified.
TokenInv ==
  /\ TokenVerified
  /\ \A t \in Terminals : pc[t] = "inject" => vm[target[t]].verified

\* No step hands the token to a VM that did not pass its checks.
LEMMA TokenStep ==
  ASSUME OneTerminal, ControlInv, DataType, TokenInv, [Next]_vars
  PROVE  TokenInv'
<1> USE LifecycleAssumption DEF OneTerminal, TokenInv, TokenVerified, ControlInv, ControlType, DataType,
                                Commands, Machine, NoMachine
<1>1. ASSUME NEW t \in Terminals, NEW v \in VMs, New(t, v) PROVE TokenInv'
  BY <1>1 DEF New, Invoke, SaysMissing, SaysNotRunning, artifacts, squid, local
<1>2. ASSUME NEW t \in Terminals, NEW v \in VMs, Start(t, v) PROVE TokenInv'
  BY <1>2 DEF Start, Invoke, SaysMissing, SaysNotRunning, artifacts, squid, local
<1>3. ASSUME NEW t \in Terminals, NEW v \in VMs, Shell(t, v) PROVE TokenInv'
  BY <1>3 DEF Shell, Invoke, SaysMissing, SaysNotRunning, artifacts, squid, local
<1>4. ASSUME NEW t \in Terminals, NEW v \in VMs, Stop(t, v) PROVE TokenInv'
  BY <1>4 DEF Stop, Invoke, SaysMissing, SaysNotRunning, artifacts, squid, local
<1>5. ASSUME NEW t \in Terminals, NEW v \in VMs, Rm(t, v) PROVE TokenInv'
  BY <1>5 DEF Rm, Invoke, SaysMissing, SaysNotRunning, artifacts, squid, local
<1>6. ASSUME NEW t \in Terminals, SyncProxy(t) PROVE TokenInv'
  BY <1>6 DEF SyncProxy, Invoke, Leave, artifacts, squid, local
<1>7. ASSUME NEW t \in Terminals, Ensure(t) PROVE TokenInv'
  BY <1>7 DEF Ensure, GoTo, Leave, artifacts, squid, local
<1>8. ASSUME NEW t \in Terminals, SyncRead(t) PROVE TokenInv'
  BY <1>8 DEF SyncRead, GoTo, Leave, artifacts, squid, local
<1>9. ASSUME NEW t \in Terminals, SyncUnchanged(t) PROVE TokenInv'
  BY <1>9 DEF SyncUnchanged, GoTo, Leave, Synced, artifacts, squid, local
<1>10. ASSUME NEW t \in Terminals, SyncPush(t) PROVE TokenInv'
  BY <1>10 DEF SyncPush, GoTo, Leave, artifacts, squid, local
<1>11. ASSUME NEW t \in Terminals, SyncLoad(t) PROVE TokenInv'
  BY <1>11 DEF SyncLoad, GoTo, Leave, Synced, artifacts, squid, local
<1>12. ASSUME NEW t \in Terminals, IdleList(t) PROVE TokenInv'
  BY <1>12 DEF IdleList, GoTo, Leave, artifacts, squid, local
<1>13. ASSUME NEW t \in Terminals, IdleCount(t) PROVE TokenInv'
  BY <1>13 DEF IdleCount, GoTo, Leave, artifacts, squid, local
<1>14. ASSUME NEW t \in Terminals, IdleStop(t) PROVE TokenInv'
  BY <1>14 DEF IdleStop, GoTo, Leave, artifacts, squid, local
<1>15. ASSUME NEW t \in Terminals, Prepare(t) PROVE TokenInv'
  BY <1>15 DEF Prepare, GoTo, Leave, artifacts, squid, local
<1>16. ASSUME NEW t \in Terminals, Create(t) PROVE TokenInv'
  BY <1>16 DEF Create, GoTo, Leave, artifacts, squid, local
<1>17. ASSUME NEW t \in Terminals, CreateReturns(t) PROVE TokenInv'
  BY <1>17 DEF CreateReturns, GoTo, Leave, artifacts, squid, local
<1>18. ASSUME NEW t \in Terminals, Halt(t) PROVE TokenInv'
  BY <1>18 DEF Halt, GoTo, Leave, artifacts, squid, local
<1>19. ASSUME NEW t \in Terminals, Boot(t) PROVE TokenInv'
  BY <1>19 DEF Boot, GoTo, Leave, artifacts, squid, local
<1>20. ASSUME NEW t \in Terminals, Verify(t) PROVE TokenInv'
  BY <1>20 DEF Verify, GoTo, Leave, artifacts, squid, local
<1>21. ASSUME NEW t \in Terminals, Inject(t) PROVE TokenInv'
  BY <1>21 DEF Inject, GoTo, Leave, artifacts, squid, local
<1>22. ASSUME NEW t \in Terminals, Enter(t) PROVE TokenInv'
  BY <1>22 DEF Enter, GoTo, Leave, artifacts, squid, local
<1>23. ASSUME NEW t \in Terminals, Delete(t) PROVE TokenInv'
  BY <1>23 DEF Delete, GoTo, Leave, artifacts, squid, local
<1>24. ASSUME NEW t \in Terminals, RemoveArtifacts(t) PROVE TokenInv'
  BY <1>24 DEF RemoveArtifacts, GoTo, Leave, artifacts, squid, local
<1>25. ASSUME NEW t \in Terminals, RetireFromProxy(t) PROVE TokenInv'
  BY <1>25 DEF RetireFromProxy, GoTo, Leave, artifacts, squid, local
<1>26. ASSUME NEW t \in Terminals, Abandon(t) PROVE TokenInv'
  BY <1>26 DEF Abandon, GoTo, Leave, artifacts, squid, local
<1>27. ASSUME NEW v \in VMs, Provisioned(v) PROVE TokenInv'
  BY <1>27 DEF Provisioned, artifacts, squid, local
<1>28. CASE HostReboots
  BY <1>28, RebootFacts, ZenonT(30) DEF HostReboots, artifacts
<1>29. CASE UNCHANGED vars
  BY <1>29 DEF vars, artifacts, squid, local
<1>. QED
  BY <1>1, <1>2, <1>3, <1>4, <1>5, <1>6, <1>7, <1>8, <1>9, <1>10, <1>11, <1>12, <1>13, <1>14,
     <1>15, <1>16, <1>17, <1>18, <1>19, <1>20, <1>21, <1>22, <1>23, <1>24, <1>25, <1>26, <1>27,
     <1>28, <1>29 DEF Next

\* One command at a time, no VM holds the token that did not pass verification,
\* whatever fails or is killed in between.
THEOREM TokenNeedsVerification == OneTerminal => (Spec => []TokenVerified)
<1> SUFFICES ASSUME OneTerminal PROVE Spec => []TokenVerified
  OBVIOUS
<1>1. Init => TokenInv
  BY DEF Init, TokenInv, TokenVerified, NoMachine
<1>2. ControlInv /\ DataType /\ TokenInv /\ [Next]_vars => TokenInv'
  BY TokenStep
<1>3. TokenInv => TokenVerified
  BY DEF TokenInv
<1>. QED
  BY <1>1, <1>2, <1>3, ControlInvariant, DataInvariant, PTL DEF Spec
=============================================================================
