---------------------------- MODULE Ports_proofs ----------------------------
(***************************************************************************)
(* What holds of Ports for every set of sandboxes and every port range:    *)
(* with one invocation at a time (OneTerminal), the records are distinct   *)
(* and kept whatever crashes or misreads; with a listing that does not lie *)
(* besides, the firewalls agree with the records and so are distinct too.  *)
(***************************************************************************)
EXTENDS Ports, TLAPS

OneTerminal == \A s, t \in Terminals : s = t

\* AllocatePort's decision is still true when it is written down.
PendingWriteIsFree ==
  \A t \in Terminals : pc[t] = "write" =>
    sidecar[target[t]] = NoPort /\ \A v \in VMs : sidecar[v] # chosen[t]

RecordInv == TypeOK /\ DistinctRecords /\ PendingWriteIsFree

\* From the decision to the create, `new` works on a name no VM has, with the
\* port its sidecar records.
NewInv ==
  \A t \in Terminals :
    /\ pc[t] \in {"allocate", "write", "render", "create"} => guest[target[t]] = NoPort
    /\ pc[t] \in {"render", "create"} => sidecar[target[t]] = chosen[t]
    /\ pc[t] = "create" => config[target[t]] = chosen[t]

\* `rm` removes artifacts only once the VM is gone.
RmInv ==
  \A t \in Terminals : pc[t] \in {"rmconfig", "rmport"} => guest[target[t]] = NoPort

IdentityInv == TypeOK /\ RecordAgrees /\ NewInv /\ RmInv

----------------------------------------------------------------------------
\* Every step keeps the variables of Ports in their types.
LEMMA TypeStep == TypeOK /\ [Next]_vars => TypeOK'
<1> SUFFICES ASSUME TypeOK, [Next]_vars PROVE TypeOK'
  OBVIOUS
<1> USE PortsAssumption DEF TypeOK, Steps, Port
<1>1. ASSUME NEW t \in Terminals, NEW v \in VMs, NewBegin(t, v) PROVE TypeOK'
  BY <1>1 DEF NewBegin, GoTo, SaysExists, SaysMissing
<1>2. ASSUME NEW t \in Terminals, NEW v \in VMs, RmExisting(t, v) PROVE TypeOK'
  BY <1>2 DEF RmExisting, GoTo, SaysExists, SaysMissing
<1>3. ASSUME NEW t \in Terminals, NEW v \in VMs, RmArtifacts(t, v) PROVE TypeOK'
  BY <1>3 DEF RmArtifacts, GoTo, SaysExists, SaysMissing
<1>4. ASSUME NEW t \in Terminals, KeepHeld(t) PROVE TypeOK'
  BY <1>4 DEF KeepHeld, GoTo, Readable
<1>5. ASSUME NEW t \in Terminals, PickLowest(t) PROVE TypeOK'
  BY <1>5 DEF PickLowest, GoTo, FreePorts, IsLowest
<1>6. ASSUME NEW t \in Terminals, WriteSidecar(t) PROVE TypeOK'
  BY <1>6 DEF WriteSidecar, GoTo, Leave, FreePorts, IsLowest
<1>7. ASSUME NEW t \in Terminals, RenderConfig(t) PROVE TypeOK'
  BY <1>7 DEF RenderConfig, GoTo, Leave, FreePorts, IsLowest
<1>8. ASSUME NEW t \in Terminals, CreateVM(t) PROVE TypeOK'
  BY <1>8 DEF CreateVM, GoTo, Leave, FreePorts, IsLowest
<1>9. ASSUME NEW t \in Terminals, DeleteVM(t) PROVE TypeOK'
  BY <1>9 DEF DeleteVM, GoTo, Leave, FreePorts, IsLowest
<1>10. ASSUME NEW t \in Terminals, RemoveConfig(t) PROVE TypeOK'
  BY <1>10 DEF RemoveConfig, GoTo, Leave, FreePorts, IsLowest
<1>11. ASSUME NEW t \in Terminals, ReleasePort(t) PROVE TypeOK'
  BY <1>11 DEF ReleasePort, GoTo, Leave, FreePorts, IsLowest
<1>12. ASSUME NEW t \in Terminals, Abandon(t) PROVE TypeOK'
  BY <1>12 DEF Abandon, GoTo, Leave, FreePorts, IsLowest
<1>13. ASSUME NEW t \in Terminals, AbandonWrite(t) PROVE TypeOK'
  BY <1>13 DEF AbandonWrite, GoTo, Leave, FreePorts, IsLowest
<1>14. ASSUME NEW v \in VMs, DeletedOutside(v) PROVE TypeOK'
  BY <1>14 DEF DeletedOutside
<1>15. CASE UNCHANGED vars
  BY <1>15 DEF vars
<1>. QED
  BY <1>1, <1>2, <1>3, <1>4, <1>5, <1>6, <1>7, <1>8, <1>9, <1>10, <1>11, <1>12, <1>13, <1>14, <1>15 DEF Next

\* Ports is type-correct, for any number of terminals and any faults.
THEOREM PortsTypeCorrect == Spec => []TypeOK
<1>1. Init => TypeOK
  BY DEF Init, TypeOK, Steps
<1>. QED
  BY <1>1, TypeStep, PTL DEF Spec

----------------------------------------------------------------------------
\* One invocation at a time: what is about to be written down stays free until
\* it is, so two records never name one port.
LEMMA RecordStep ==
  ASSUME OneTerminal, RecordInv, [Next]_vars
  PROVE  DistinctRecords' /\ PendingWriteIsFree'
<1> USE PortsAssumption DEF OneTerminal, RecordInv, TypeOK, Steps, Port,
                            DistinctRecords, PendingWriteIsFree
<1>1. ASSUME NEW t \in Terminals, NEW v \in VMs, NewBegin(t, v) PROVE DistinctRecords' /\ PendingWriteIsFree'
  BY <1>1 DEF NewBegin, GoTo, SaysExists, SaysMissing
<1>2. ASSUME NEW t \in Terminals, NEW v \in VMs, RmExisting(t, v) PROVE DistinctRecords' /\ PendingWriteIsFree'
  BY <1>2 DEF RmExisting, GoTo, SaysExists, SaysMissing
<1>3. ASSUME NEW t \in Terminals, NEW v \in VMs, RmArtifacts(t, v) PROVE DistinctRecords' /\ PendingWriteIsFree'
  BY <1>3 DEF RmArtifacts, GoTo, SaysExists, SaysMissing
<1>4. ASSUME NEW t \in Terminals, KeepHeld(t) PROVE DistinctRecords' /\ PendingWriteIsFree'
  BY <1>4 DEF KeepHeld, GoTo, Readable
<1>5. ASSUME NEW t \in Terminals, PickLowest(t) PROVE DistinctRecords' /\ PendingWriteIsFree'
  BY <1>5 DEF PickLowest, GoTo, FreePorts, IsLowest
<1>6. ASSUME NEW t \in Terminals, WriteSidecar(t) PROVE DistinctRecords' /\ PendingWriteIsFree'
  BY <1>6 DEF WriteSidecar, GoTo
<1>7. ASSUME NEW t \in Terminals, RenderConfig(t) PROVE DistinctRecords' /\ PendingWriteIsFree'
  BY <1>7 DEF RenderConfig, GoTo
<1>8. ASSUME NEW t \in Terminals, CreateVM(t) PROVE DistinctRecords' /\ PendingWriteIsFree'
  BY <1>8 DEF CreateVM, Leave
<1>9. ASSUME NEW t \in Terminals, DeleteVM(t) PROVE DistinctRecords' /\ PendingWriteIsFree'
  BY <1>9 DEF DeleteVM, GoTo
<1>10. ASSUME NEW t \in Terminals, RemoveConfig(t) PROVE DistinctRecords' /\ PendingWriteIsFree'
  BY <1>10 DEF RemoveConfig, GoTo
<1>11. ASSUME NEW t \in Terminals, ReleasePort(t) PROVE DistinctRecords' /\ PendingWriteIsFree'
  BY <1>11 DEF ReleasePort, Leave
<1>12. ASSUME NEW t \in Terminals, Abandon(t) PROVE DistinctRecords' /\ PendingWriteIsFree'
  BY <1>12 DEF Abandon, Leave
<1>13. ASSUME NEW t \in Terminals, AbandonWrite(t) PROVE DistinctRecords' /\ PendingWriteIsFree'
  BY <1>13 DEF AbandonWrite, Leave
<1>14. ASSUME NEW v \in VMs, DeletedOutside(v) PROVE DistinctRecords' /\ PendingWriteIsFree'
  BY <1>14 DEF DeletedOutside
<1>15. CASE UNCHANGED vars
  BY <1>15 DEF vars
<1>. QED
  BY <1>1, <1>2, <1>3, <1>4, <1>5, <1>6, <1>7, <1>8, <1>9, <1>10, <1>11, <1>12, <1>13, <1>14, <1>15 DEF Next

\* RecordInv is an invariant when one invocation runs at a time.
LEMMA RecordInvariant == OneTerminal => (Spec => []RecordInv)
<1> SUFFICES ASSUME OneTerminal PROVE Spec => []RecordInv
  OBVIOUS
<1>1. Init => RecordInv
  BY PortsAssumption DEF Init, RecordInv, TypeOK, Steps, Port, DistinctRecords, PendingWriteIsFree
<1>2. RecordInv /\ [Next]_vars => RecordInv'
  BY RecordStep, TypeStep DEF RecordInv
<1>. QED
  BY <1>1, <1>2, PTL DEF Spec

\* With one invocation at a time no two sidecars ever name one port: a crash,
\* a torn write or a listing that fails cannot double an allocation.
THEOREM RecordsDistinct == OneTerminal => (Spec => []DistinctRecords)
<1>1. RecordInv => DistinctRecords
  BY DEF RecordInv
<1>. QED
  BY <1>1, RecordInvariant, PTL

\* ... and a recorded port is kept until its sidecar is removed.
THEOREM SlotsKept == OneTerminal => (Spec => KeepsSlot)
<1> SUFFICES ASSUME OneTerminal PROVE Spec => KeepsSlot
  OBVIOUS
<1> DEFINE Kept == \A v \in VMs : sidecar[v] \in Port => sidecar'[v] \in {sidecar[v], NoPort}
<1>1. RecordInv /\ [Next]_vars => [Kept]_vars
  <2> SUFFICES ASSUME RecordInv, [Next]_vars, UNCHANGED vars => FALSE PROVE Kept
    BY DEF vars
  <2> USE PortsAssumption DEF RecordInv, TypeOK, Steps, Port, PendingWriteIsFree
  <2>1. ASSUME NEW t \in Terminals, WriteSidecar(t) PROVE Kept
    BY <2>1 DEF WriteSidecar
  <2>2. ASSUME NEW t \in Terminals, AbandonWrite(t) PROVE Kept
    BY <2>2 DEF AbandonWrite
  <2>3. ASSUME NEW t \in Terminals, ReleasePort(t) PROVE Kept
    BY <2>3 DEF ReleasePort
  <2>4. ASSUME UNCHANGED sidecar PROVE Kept
    BY <2>4
  <2>. QED
    BY <2>1, <2>2, <2>3, <2>4
       DEF Next, NewBegin, RmExisting, RmArtifacts, KeepHeld, PickLowest, RenderConfig,
           CreateVM, DeleteVM, RemoveConfig, Abandon, DeletedOutside
<1>. QED
  BY <1>1, RecordInvariant, PTL DEF Spec, KeepsSlot

----------------------------------------------------------------------------
\* With a listing that does not fail, `new` never starts on a live VM's name
\* and `rm` never takes a live VM's artifacts.
LEMMA IdentityStep ==
  ASSUME OneTerminal, ~ListingFails, IdentityInv, [Next]_vars
  PROVE  RecordAgrees' /\ NewInv' /\ RmInv'
<1> USE PortsAssumption DEF OneTerminal, IdentityInv, TypeOK, Steps, Port,
                            RecordAgrees, NewInv, RmInv
<1>1. ASSUME NEW t \in Terminals, NEW v \in VMs, NewBegin(t, v) PROVE RecordAgrees' /\ NewInv' /\ RmInv'
  BY <1>1 DEF NewBegin, GoTo, SaysExists, SaysMissing
<1>2. ASSUME NEW t \in Terminals, NEW v \in VMs, RmExisting(t, v) PROVE RecordAgrees' /\ NewInv' /\ RmInv'
  BY <1>2 DEF RmExisting, GoTo, SaysExists, SaysMissing
<1>3. ASSUME NEW t \in Terminals, NEW v \in VMs, RmArtifacts(t, v) PROVE RecordAgrees' /\ NewInv' /\ RmInv'
  BY <1>3 DEF RmArtifacts, GoTo, SaysExists, SaysMissing
<1>4. ASSUME NEW t \in Terminals, KeepHeld(t) PROVE RecordAgrees' /\ NewInv' /\ RmInv'
  BY <1>4 DEF KeepHeld, GoTo, Readable
<1>5. ASSUME NEW t \in Terminals, PickLowest(t) PROVE RecordAgrees' /\ NewInv' /\ RmInv'
  BY <1>5 DEF PickLowest, GoTo, FreePorts, IsLowest
<1>6. ASSUME NEW t \in Terminals, WriteSidecar(t) PROVE RecordAgrees' /\ NewInv' /\ RmInv'
  BY <1>6 DEF WriteSidecar, GoTo
<1>7. ASSUME NEW t \in Terminals, RenderConfig(t) PROVE RecordAgrees' /\ NewInv' /\ RmInv'
  BY <1>7 DEF RenderConfig, GoTo
<1>8. ASSUME NEW t \in Terminals, CreateVM(t) PROVE RecordAgrees' /\ NewInv' /\ RmInv'
  BY <1>8 DEF CreateVM, Leave
<1>9. ASSUME NEW t \in Terminals, DeleteVM(t) PROVE RecordAgrees' /\ NewInv' /\ RmInv'
  BY <1>9 DEF DeleteVM, GoTo
<1>10. ASSUME NEW t \in Terminals, RemoveConfig(t) PROVE RecordAgrees' /\ NewInv' /\ RmInv'
  BY <1>10 DEF RemoveConfig, GoTo
<1>11. ASSUME NEW t \in Terminals, ReleasePort(t) PROVE RecordAgrees' /\ NewInv' /\ RmInv'
  BY <1>11 DEF ReleasePort, Leave
<1>12. ASSUME NEW t \in Terminals, Abandon(t) PROVE RecordAgrees' /\ NewInv' /\ RmInv'
  BY <1>12 DEF Abandon, Leave
<1>13. ASSUME NEW t \in Terminals, AbandonWrite(t) PROVE RecordAgrees' /\ NewInv' /\ RmInv'
  BY <1>13 DEF AbandonWrite, Leave
<1>14. ASSUME NEW v \in VMs, DeletedOutside(v) PROVE RecordAgrees' /\ NewInv' /\ RmInv'
  BY <1>14 DEF DeletedOutside
<1>15. CASE UNCHANGED vars
  BY <1>15 DEF vars
<1>. QED
  BY <1>1, <1>2, <1>3, <1>4, <1>5, <1>6, <1>7, <1>8, <1>9, <1>10, <1>11, <1>12, <1>13, <1>14, <1>15 DEF Next

\* IdentityInv is an invariant when, besides, the listing does not lie.
LEMMA IdentityInvariant == OneTerminal /\ ~ListingFails => (Spec => []IdentityInv)
<1> SUFFICES ASSUME OneTerminal, ~ListingFails PROVE Spec => []IdentityInv
  OBVIOUS
<1>1. Init => IdentityInv
  BY PortsAssumption DEF Init, IdentityInv, TypeOK, Steps, RecordAgrees, NewInv, RmInv
<1>2. IdentityInv /\ [Next]_vars => IdentityInv'
  BY IdentityStep, TypeStep DEF IdentityInv
<1>. QED
  BY <1>1, <1>2, PTL DEF Spec

\* The firewall of every existing sandbox holds the port on record for it.
THEOREM FirewallMatchesRecord == OneTerminal /\ ~ListingFails => (Spec => []RecordAgrees)
<1>1. IdentityInv => RecordAgrees
  BY DEF IdentityInv
<1>. QED
  BY <1>1, IdentityInvariant, PTL

\* No two existing sandboxes share a port: the port is an identity.
THEOREM IdentityDistinct == OneTerminal /\ ~ListingFails => (Spec => []DistinctIdentity)
<1>1. RecordInv /\ IdentityInv => DistinctIdentity
  BY PortsAssumption DEF RecordInv, IdentityInv, TypeOK, RecordAgrees, DistinctRecords, DistinctIdentity, Port
<1>. QED
  BY <1>1, RecordInvariant, IdentityInvariant, PTL
=============================================================================
