-------------------------- MODULE ProxySync_proofs --------------------------
(***************************************************************************)
(* What holds of ProxySync for every set of sandboxes, ports, contents and *)
(* versions, and any number of edits.                                      *)
(***************************************************************************)
EXTENDS ProxySync, TLAPS

----------------------------------------------------------------------------
(* Types.                                                                  *)

\* The paths in the VM are pairwise different, and squid.conf is never pushed.
LEMMA PathFacts ==
  /\ Template \in Pushable /\ Access \in Pushable /\ Conf \in Paths /\ Conf \notin Pushable
  /\ Template \notin Sandboxes /\ Access \notin Sandboxes /\ Conf \notin Sandboxes
  /\ Template # Access /\ Template # Conf /\ Access # Conf
  /\ Sandboxes \subseteq Pushable /\ Pushable \subseteq Paths
BY SyncAssumption DEF Pushable, Paths

\* A proxy VM just created has well-typed files.
LEMMA FreshType == Fresh \in [Paths -> Contents]
BY SyncAssumption DEF Fresh, Contents

\* Squid loads a policy, or nothing, or does not run.
LEMMA LoadType ==
  ASSUME NEW d \in [Paths -> Contents] PROVE Load(d) \in Policies \cup {Nothing, Down}
BY SyncAssumption DEF Load, Policies, Contents

\* What Sync asks for: every mapped sandbox has a list, no other file is there.
LEMMA WantedType ==
  ASSUME TypeOK
  PROVE  /\ Seeded \in [Sandboxes -> Bodies \cup {Absent}]
         /\ Wanted \in Policies
         /\ Wanted[Template] \in Bodies /\ Wanted[Conf] \in Versions
         /\ Wanted[Access] \in Allocations
         /\ \A v \in Sandboxes : IF Wanted[Access][v] = NoPort THEN Wanted[v] = Absent
                                                              ELSE Wanted[v] \in Bodies
<1> USE SyncAssumption DEF TypeOK
<1>1. Seeded \in [Sandboxes -> Bodies \cup {Absent}]
  BY DEF Seeded
<1>2. \A v \in Sandboxes : alloc[v] # NoPort => Seeded[v] \in Bodies
  BY DEF Seeded
<1>3. /\ Wanted[Template] = tmpl /\ Wanted[Access] = alloc /\ Wanted[Conf] = version
      /\ \A v \in Sandboxes : Wanted[v] = IF alloc[v] = NoPort THEN Absent ELSE Seeded[v]
  BY PathFacts DEF Wanted
<1>4. Wanted \in Policies
  <2>1. \A f \in Paths : Wanted[f] \in Contents
    BY <1>1, <1>3 DEF Contents, Paths, Pushable
  <2>. QED
    BY <2>1 DEF Wanted, Policies
<1>. QED
  BY <1>1, <1>2, <1>3, <1>4

\* A Sync that returns leaves its variables in their types.
LEMMA FinishType ==
  ASSUME TypeOK, NEW r \in Outcomes, Finish(r)
  PROVE  /\ pc' \in Steps /\ goal' \in Policies /\ todo' \subseteq Pushable
         /\ pushes' \subseteq Pushable /\ saved' \in [Pushable -> Contents]
         /\ newConf' \in BOOLEAN /\ misses' \in BOOLEAN /\ outcome' \in Outcomes
         /\ before' \in [Paths -> Contents]
BY DEF TypeOK, Finish, Steps, Contents

\* Every step keeps the variables of ProxySync in their types.
LEMMA TypeStep == TypeOK /\ [Next]_vars => TypeOK'
<1> SUFFICES ASSUME TypeOK, [Next]_vars PROVE TypeOK'
  OBVIOUS
<1>0. /\ disk \in [Paths -> Contents] /\ goal \in [Paths -> Contents]
      /\ \A f \in Pushable : goal[f] \in Contents /\ saved[f] \in Contents
      /\ Absent \in Contents
  BY PathFacts DEF TypeOK, Policies, Contents
<1>1. CASE Begin
  BY <1>1, WantedType DEF Begin, TypeOK, Steps, Outcomes, vm
<1>2. CASE Compare
  <2>1. PICK lost \in SUBSET (Needed \cup {Conf}) : (lost # {} => CatLies) /\ CompareWith(lost)
    BY <1>2 DEF Compare
  <2> DEFINE seen == [f \in Paths |-> IF f \in lost THEN Absent ELSE disk[f]]
             differing == {f \in Needed : seen[f] # goal[f]}
  <2>2. UNCHANGED <<host, vm, trusted>>
    BY <1>2 DEF Compare
  <2>3. CASE Finish("Unchanged")
    BY <2>2, <2>3, FinishType DEF TypeOK, Outcomes, host, vm
  <2>4. CASE ~Finish("Unchanged")
    <3>1. differing \subseteq Pushable /\ \A f \in Pushable : seen[f] \in Contents
      BY <1>0, PathFacts DEF Needed
    <3>2. todo' = differing /\ pushes' = differing
      BY <2>1, <2>4 DEF CompareWith
    <3>3. saved' \in [Pushable -> Contents]
      BY <2>1, <2>4, <3>1, <1>0 DEF CompareWith
    <3>4. newConf' \in BOOLEAN /\ pc' \in {"stage", "push"} /\ UNCHANGED <<goal, misses, outcome, before>>
      BY <2>1, <2>4 DEF CompareWith
    <3>. QED
      BY <2>2, <3>1, <3>2, <3>3, <3>4 DEF TypeOK, Steps, host, vm
  <2>. QED
    BY <2>3, <2>4
<1>3. CASE Push
  BY <1>3, <1>0 DEF Push, TypeOK, Steps, host
<1>4. CASE Stage
  BY <1>4, <1>0, PathFacts DEF Stage, TypeOK, Steps, host, local
<1>5. CASE CandidateParses \/ CandidateRefused \/ LiveParses
  BY <1>5 DEF CandidateParses, CandidateRefused, LiveParses, TypeOK, Steps, host, vm, local
<1>6. CASE Unstage
  <2>1. CASE pushes = {}
    BY <1>6, <2>1, <1>0, FinishType DEF Unstage, TypeOK, Outcomes, host
  <2>2. CASE pushes # {}
    BY <1>6, <2>2, <1>0 DEF Unstage, TypeOK, Steps, host
  <2>. QED
    BY <2>1, <2>2
<1>7. CASE Install
  BY <1>7, <1>0, PathFacts DEF Install, TypeOK, Steps, host, local
<1>8. CASE Restart \/ Reload \/ AnswerLost
  <2>1. Load(disk) \in Policies \cup {Nothing, Down}
    BY <1>0, LoadType
  <2>2. serving' \in Policies \cup {Nothing, Down} /\ trusted' \in BOOLEAN
    BY <1>8, <2>1 DEF Restart, Reload, AnswerLost
  <2>3. Finish("failed") \/ Finish("Applied")
    BY <1>8 DEF Restart, Reload, AnswerLost
  <2>4. UNCHANGED <<host, disk, candidate>>
    BY <1>8 DEF Restart, Reload, AnswerLost
  <2>. QED
    BY <2>2, <2>3, <2>4, FinishType DEF TypeOK, Outcomes, host
<1>9. CASE LiveRefused
  BY <1>9 DEF LiveRefused, TypeOK, Steps, host, vm
<1>10. CASE RollBack
  <2>1. PICK f \in todo, missed \in BOOLEAN :
          LET anyMiss == misses \/ missed
          IN  /\ disk' = IF missed THEN disk ELSE [disk EXCEPT ![f] = saved[f]]
              /\ IF todo = {f}
                 THEN /\ Finish(IF anyMiss THEN "failed" ELSE "Rejected")
                      /\ trusted' = (trusted /\ ~anyMiss)
                 ELSE /\ todo' = todo \ {f}
                      /\ misses' = anyMiss
                      /\ UNCHANGED <<pc, goal, pushes, saved, newConf, outcome, before, trusted>>
    BY <1>10 DEF RollBack
  <2>2. UNCHANGED <<host, candidate, serving>>
    BY <1>10 DEF RollBack
  <2>3. disk' \in [Paths -> Contents]
    BY <2>1, <1>0 DEF TypeOK
  <2>4. CASE todo = {f}
    <3>1. (Finish("failed") \/ Finish("Rejected")) /\ trusted' \in BOOLEAN
      BY <2>1, <2>4 DEF TypeOK
    <3>. QED
      BY <3>1, <2>2, <2>3, FinishType DEF TypeOK, Outcomes, host
  <2>5. CASE todo # {f}
    BY <2>1, <2>2, <2>3, <2>5 DEF TypeOK, host
  <2>. QED
    BY <2>4, <2>5
<1>11. CASE Interrupt
  BY <1>11, FinishType DEF Interrupt, TypeOK, Outcomes, host, vm
<1>12. CASE HostStep
  <2>1. edits' \in 0 .. MaxEdits /\ UNCHANGED <<vm, pc, local, outcome, trusted>>
    BY <1>12, SyncAssumption
       DEF HostStep, HostChange, EditTemplate, EditList, AllocatePort, ReleasePort, Upgrade, TypeOK
  <2>2. /\ tmpl' \in Bodies /\ list' \in [Sandboxes -> Bodies \cup {Absent}]
        /\ alloc' \in Allocations /\ version' \in Versions
    BY <1>12, SyncAssumption
       DEF HostStep, EditTemplate, EditList, AllocatePort, ReleasePort, Upgrade, TypeOK, Allocations
  <2>. QED
    BY <2>1, <2>2 DEF TypeOK, vm, local
<1>13. CASE ProxyReboots
  BY <1>13, <1>0, LoadType DEF ProxyReboots, TypeOK, host, local
<1>14. CASE ProxyReplaced
  BY <1>14, FreshType, SyncAssumption DEF ProxyReplaced, TypeOK, Contents, Outcomes, local
<1>15. CASE UNCHANGED vars
  BY <1>15 DEF vars, host, vm, local, TypeOK
<1>. QED
  BY <1>1, <1>2, <1>3, <1>4, <1>5, <1>6, <1>7, <1>8, <1>9, <1>10, <1>11, <1>12, <1>13, <1>14, <1>15
     DEF Next, SyncStep

\* ProxySync is type-correct, whatever fails and however often it is run.
THEOREM SyncTypeCorrect == Spec => []TypeOK
<1>1. ASSUME Init PROVE TypeOK
  <2>1. /\ tmpl \in Bodies /\ list \in [Sandboxes -> Bodies \cup {Absent}]
        /\ alloc \in Allocations /\ version \in Versions /\ edits \in 0 .. MaxEdits
    BY <1>1, SyncAssumption DEF Init, Allocations
  <2>2. /\ disk \in [Paths -> Contents] /\ candidate \in Contents
        /\ serving \in Policies \cup {Nothing, Down} /\ trusted \in BOOLEAN
    BY <1>1, FreshType DEF Init, Contents
  <2>3. /\ goal \in Policies /\ before \in [Paths -> Contents]
        /\ saved \in [Pushable -> Contents]
    BY <1>1, FreshType DEF Init, Contents, Policies
  <2>4. /\ pc \in Steps /\ todo \subseteq Pushable /\ pushes \subseteq Pushable
        /\ newConf \in BOOLEAN /\ misses \in BOOLEAN /\ outcome \in Outcomes
    BY <1>1 DEF Init, Steps, Outcomes
  <2>. QED
    BY <2>1, <2>2, <2>3, <2>4 DEF TypeOK
<1>. QED
  BY <1>1, TypeStep, PTL DEF Spec

----------------------------------------------------------------------------
(* What Applied means, and why squid is never loaded into a refusal: the   *)
(* files match the goal from the end of the pushes on, and what is loaded  *)
(* has been parsed as it is.  None of it needs a `cat` to tell the truth:  *)
(* a file taken for absent is pushed again.                                *)

\* A goal names a list for the sandboxes on the port map and no others.
GoalShape(g) ==
  /\ g[Template] \in Bodies /\ g[Conf] \in Versions /\ g[Access] \in Allocations
  /\ \A v \in Sandboxes : IF g[Access][v] = NoPort THEN g[v] = Absent ELSE g[v] \in Bodies

Matches == \A f \in Needed : disk[f] = goal[f]

GoalInv ==
  /\ (pc = "idle") <=> (outcome # "running")
  /\ outcome # "none" => GoalShape(goal)

PushInv ==
  /\ pc = "push" =>
       /\ todo # {} /\ todo \subseteq Needed
       /\ \A f \in Needed \ todo : disk[f] = goal[f]
       /\ ~newConf => disk[Conf] = goal[Conf]
  /\ pc \in {"stage", "try", "install", "restart", "parse", "reload"} => Matches

LoadInv ==
  /\ pc \in {"try", "install"} => candidate = goal[Conf]
  /\ pc = "install" => Parses(disk, candidate)
  /\ pc \in {"restart", "parse", "reload"} => disk[Conf] = goal[Conf]
  /\ pc \in {"restart", "reload"} => Parses(disk, disk[Conf])

AppliedInv == outcome = "Applied" => serving = goal /\ Load(disk) = goal

ServeInv == TypeOK /\ GoalInv /\ PushInv /\ LoadInv /\ AppliedInv

\* Files that match the goal and parse are the goal once loaded, and a goal
\* that can be loaded is one squid accepts.
LEMMA LoadGoal ==
  ASSUME TypeOK, GoalShape(goal), Matches, disk[Conf] = goal[Conf], Load(disk) # Down
  PROVE  Load(disk) = goal /\ goal \in Acceptable /\ Parses(disk, disk[Conf])
<1> USE SyncAssumption, PathFacts DEF GoalShape, Matches, Needed
<1>1. Parses(disk, disk[Conf]) /\ disk[Conf] # Stock
  BY DEF Load
<1>2. disk[Template] = goal[Template] /\ disk[Access] = goal[Access]
  BY DEF Contents
<1>3. \A v \in Sandboxes : goal[Access][v] # NoPort => disk[v] = goal[v]
  OBVIOUS
<1>4. goal \in [Paths -> Contents]
  BY DEF TypeOK, Policies
<1>5. Load(disk) = [f \in Paths |-> IF f \in Sandboxes /\ disk[Access][f] = NoPort
                                   THEN Absent ELSE disk[f]]
  BY <1>1 DEF Load
<1>6. \A f \in Paths : Load(disk)[f] = goal[f]
  BY <1>2, <1>3, <1>5 DEF Paths, Pushable
<1>7. Load(disk) = goal
  BY <1>4, <1>5, <1>6
<1>8. Parses(goal, goal[Conf])
  BY <1>1, <1>2, <1>3 DEF Parses
<1>. QED
  BY <1>1, <1>7, <1>8 DEF Acceptable, TypeOK

\* Conversely, files that match an acceptable goal are loaded.
LEMMA GoalLoads ==
  ASSUME GoalShape(goal), Matches, NEW c, c = goal[Conf], goal \in Acceptable
  PROVE  Parses(disk, c)
<1> USE SyncAssumption, PathFacts DEF GoalShape, Matches, Needed
<1>1. disk[Template] = goal[Template] /\ disk[Access] = goal[Access]
  BY DEF Contents
<1>2. \A v \in Sandboxes : goal[Access][v] # NoPort => disk[v] = goal[v]
  OBVIOUS
<1>. QED
  BY <1>1, <1>2 DEF Parses, Acceptable

\* Squid runs on whatever `squid -k parse` accepted.
LEMMA ParsedLoads ==
  ASSUME NEW d \in [Paths -> Contents], Parses(d, d[Conf]) PROVE Load(d) # Down
<1>1. [f \in Paths |-> IF f \in Sandboxes /\ d[Access][f] = NoPort THEN Absent ELSE d[f]]
        \in [Paths -> Contents]
  BY DEF Contents
<1>. QED
  BY <1>1, SyncAssumption DEF Load

\* Each step of a Sync, and each change around it, keeps ServeInv.
LEMMA ServeStep == ServeInv /\ [Next]_vars => ServeInv'
<1> SUFFICES ASSUME ServeInv, [Next]_vars PROVE (GoalInv /\ PushInv /\ LoadInv /\ AppliedInv)'
  BY TypeStep DEF ServeInv
<1> USE DEF ServeInv
<1>0. disk \in [Paths -> Contents]
  BY DEF TypeOK
<1>1. CASE Begin
  BY <1>1, WantedType DEF Begin, GoalShape, GoalInv, PushInv, LoadInv, AppliedInv
<1>2. CASE Compare
  <2>1. PICK lost \in SUBSET (Needed \cup {Conf}) : (lost # {} => CatLies) /\ CompareWith(lost)
    BY <1>2 DEF Compare
  <2> DEFINE seen == [f \in Paths |-> IF f \in lost THEN Absent ELSE disk[f]]
             differing == {f \in Needed : seen[f] # goal[f]}
  <2>2. UNCHANGED <<host, vm, trusted>> /\ pc = "compare"
    BY <1>2 DEF Compare
  <2>3. CASE Finish("Unchanged")
    BY <2>2, <2>3 DEF Finish, vm, GoalInv, PushInv, LoadInv, AppliedInv
  <2>4. CASE ~Finish("Unchanged")
    <3>1. /\ todo' = differing /\ newConf' = (seen[Conf] # goal[Conf])
          /\ pc' = IF differing = {} THEN "stage" ELSE "push"
          /\ UNCHANGED <<goal, outcome>>
      BY <2>1, <2>4 DEF CompareWith
    <3>2. GoalShape(goal) /\ outcome = "running"
      BY <2>2 DEF GoalInv, TypeOK, Outcomes
    <3>3. \A f \in Needed \ differing : disk[f] = goal[f]
      BY PathFacts DEF Needed
    <3>4. seen[Conf] = goal[Conf] => disk[Conf] = goal[Conf]
      BY <3>2, PathFacts, SyncAssumption DEF GoalShape
    <3>. QED
      BY <2>2, <3>1, <3>2, <3>3, <3>4 DEF vm, GoalInv, PushInv, LoadInv, AppliedInv, Matches, Needed
  <2>. QED
    BY <2>3, <2>4
<1>3. CASE Push
  <2>1. PICK f \in todo : /\ disk' = [disk EXCEPT ![f] = goal[f]]
                          /\ todo' = todo \ {f}
                          /\ pc' = IF todo \ {f} # {} THEN "push" ELSE IF newConf THEN "stage" ELSE "parse"
    BY <1>3 DEF Push
  <2>2. pc = "push" /\ UNCHANGED <<goal, newConf, outcome>>
    BY <1>3 DEF Push
  <2>3. \A g \in Needed \ todo' : disk'[g] = goal[g]
    BY <1>0, <2>1, <2>2, PathFacts DEF PushInv, Needed
  <2>4. disk'[Conf] = disk[Conf]
    BY <1>0, <2>1, <2>2, PathFacts DEF TypeOK
  <2>. QED
    BY <2>1, <2>2, <2>3, <2>4 DEF GoalInv, PushInv, LoadInv, AppliedInv, Matches, Needed
<1>4. CASE Stage
  BY <1>4 DEF Stage, local, GoalInv, PushInv, LoadInv, AppliedInv, Matches, Needed
<1>5. CASE CandidateParses
  BY <1>5 DEF CandidateParses, local, vm, GoalInv, PushInv, LoadInv, AppliedInv, Matches, Needed
<1>6. CASE CandidateRefused \/ LiveRefused
  BY <1>6 DEF CandidateRefused, LiveRefused, local, vm, GoalInv, PushInv, LoadInv, AppliedInv
<1>7. CASE Unstage
  BY <1>7 DEF Unstage, Finish, GoalInv, PushInv, LoadInv, AppliedInv
<1>8. CASE Install
  <2>1. /\ \A f \in Needed : disk'[f] = disk[f]
        /\ disk'[Conf] = candidate
    BY <1>8, <1>0, PathFacts DEF Install, Needed
  <2>2. Parses(disk', candidate)
    BY <1>8, <1>0, <2>1, PathFacts DEF Install, LoadInv, Parses, Paths
  <2>. QED
    BY <1>8, <2>1, <2>2 DEF Install, local, GoalInv, PushInv, LoadInv, AppliedInv, Matches, Needed
<1>9. CASE Restart \/ Reload
  <2>1. Load(disk) = goal
    BY <1>9, <1>0, LoadGoal, ParsedLoads DEF Restart, Reload, GoalInv, PushInv, LoadInv
  <2>2. outcome' = "Applied" => serving' = Load(disk)
    BY <1>9 DEF Restart, Reload, Finish
  <2>. QED
    BY <1>9, <2>1, <2>2 DEF Restart, Reload, Finish, GoalInv, PushInv, LoadInv, AppliedInv
<1>10. CASE LiveParses
  BY <1>10 DEF LiveParses, local, vm, GoalInv, PushInv, LoadInv, AppliedInv, Matches, Needed
<1>11. CASE RollBack
  BY <1>11 DEF RollBack, Finish, GoalInv, PushInv, LoadInv, AppliedInv
<1>12. CASE Interrupt \/ AnswerLost
  BY <1>12 DEF Interrupt, AnswerLost, Finish, vm, GoalInv, PushInv, LoadInv, AppliedInv
<1>13. CASE HostStep
  <2>1. UNCHANGED <<vm, pc, local, outcome, trusted>>
    BY <1>13 DEF HostStep, HostChange, EditTemplate, EditList, AllocatePort, ReleasePort, Upgrade
  <2>. QED
    BY <2>1 DEF vm, local, GoalInv, PushInv, LoadInv, AppliedInv, Matches, Needed
<1>14. CASE ProxyReboots
  BY <1>14 DEF ProxyReboots, local, GoalInv, PushInv, LoadInv, AppliedInv
<1>15. CASE ProxyReplaced
  BY <1>15 DEF ProxyReplaced, local, GoalInv, PushInv, LoadInv, AppliedInv
<1>16. CASE UNCHANGED vars
  BY <1>16 DEF vars, vm, local, GoalInv, PushInv, LoadInv, AppliedInv, Matches, Needed
<1>. QED
  BY <1>1, <1>2, <1>3, <1>4, <1>5, <1>6, <1>7, <1>8, <1>9, <1>10, <1>11, <1>12, <1>13,
     <1>14, <1>15, <1>16 DEF Next, SyncStep

\* ServeInv is an invariant, whatever fails.
LEMMA ServeInvariant == Spec => []ServeInv
<1>1. Init => GoalInv /\ PushInv /\ LoadInv /\ AppliedInv
  BY DEF Init, GoalInv, PushInv, LoadInv, AppliedInv
<1>2. Spec => []TypeOK /\ (Init => TypeOK)
  BY SyncTypeCorrect, PTL DEF Spec
<1>3. ServeInv /\ [Next]_vars => ServeInv'
  BY ServeStep
<1>. QED
  BY <1>1, <1>2, <1>3, PTL DEF Spec, ServeInv

\* After Applied squid serves the goal, whatever failed before and after.
THEOREM AppliedIsServed == Spec => []AppliedServes
<1>1. ServeInv => AppliedServes
  BY DEF ServeInv, AppliedInv, AppliedServes
<1>. QED
  BY <1>1, ServeInvariant, PTL

\* No step of a Sync takes a running squid out of service.
THEOREM SyncKeepsServing == Spec => KeepsServing
<1> DEFINE Kept == pc # "idle" /\ serving # Down => serving' # Down
<1>1. ServeInv /\ [Next]_vars => [Kept]_vars
  <2> SUFFICES ASSUME ServeInv, [Next]_vars, pc # "idle", serving # Down PROVE serving' # Down
    BY DEF vars
  <2>1. CASE Restart \/ Reload \/ AnswerLost
    <3>1. Load(disk) # Down
      BY <2>1, ParsedLoads DEF Restart, Reload, AnswerLost, ServeInv, LoadInv, TypeOK
    <3>. QED
      BY <2>1, <3>1 DEF Restart, Reload, AnswerLost
  <2>2. CASE UNCHANGED serving
    BY <2>2
  <2>. QED
    BY <2>1, <2>2
       DEF Next, SyncStep, Begin, Compare, Push, Stage, CandidateParses, CandidateRefused, Unstage,
           Install, LiveParses, LiveRefused, RollBack, Interrupt, HostStep, HostChange, EditTemplate,
           EditList, AllocatePort, ReleasePort, Upgrade, ProxyReboots, ProxyReplaced, vars, vm
<1>. QED
  BY <1>1, ServeInvariant, PTL DEF Spec, KeepsServing

----------------------------------------------------------------------------
(* What Rejected and Unchanged mean, given that a `cat` tells the truth:   *)
(* what is not pushed is as it was before, what is pushed was read as it   *)
(* was before, and a rollback restores the latter.                         *)

\* The disk is as it was before, but for the files in a set.
SameBut(S) == \A f \in Paths \ S : disk[f] = before[f]

DiskInv ==
  /\ pc = "compare" => disk = before
  /\ pc \in {"push", "stage", "try", "unstage", "parse"} => SameBut(pushes)
  /\ pc \in {"push", "stage", "try", "unstage", "parse", "rollback"} =>
       \A f \in pushes : saved[f] = before[f]
  /\ pc = "rollback" => todo # {} /\ todo \subseteq pushes /\ (~misses => SameBut(todo))
  /\ pc = "push" => todo \subseteq pushes
  /\ pc \in {"push", "parse"} => pushes # {}
  /\ outcome = "Rejected" => disk = before

TrustInv ==
  /\ trusted => serving # Down
  /\ trusted /\ pc = "idle" => serving = Load(disk)
  /\ trusted /\ pc # "idle" => serving = Load(before)
  /\ outcome = "Unchanged" => Matches /\ disk[Conf] = goal[Conf]

RestoreInv == ServeInv /\ DiskInv /\ TrustInv

\* Each step of a Sync, and each change around it, keeps RestoreInv.
LEMMA RestoreStep ==
  ASSUME ~CatLies, RestoreInv, [Next]_vars
  PROVE  (DiskInv /\ TrustInv)'
<1> USE DEF RestoreInv
<1>0. /\ disk \in [Paths -> Contents] /\ before \in [Paths -> Contents]
      /\ pushes \subseteq Pushable /\ Pushable \subseteq Paths
      /\ (pc = "idle") <=> (outcome # "running")
  BY PathFacts DEF ServeInv, TypeOK, GoalInv
<1>1. CASE Begin
  BY <1>1 DEF Begin, vm, DiskInv, TrustInv
<1>2. CASE Compare
  <2>1. CompareWith({}) /\ pc = "compare" /\ UNCHANGED <<host, vm, trusted>>
    BY <1>2 DEF Compare
  <2> DEFINE differing == {f \in Needed : disk[f] # goal[f]}
  <2>2. disk = [f \in Paths |-> IF f \in {} THEN Absent ELSE disk[f]]
    BY <1>0
  <2>3. CASE Finish("Unchanged") /\ differing = {} /\ disk[Conf] = goal[Conf]
    BY <1>0, <2>1, <2>3 DEF Finish, vm, DiskInv, TrustInv, Matches, Needed
  <2>4. CASE ~(Finish("Unchanged") /\ differing = {} /\ disk[Conf] = goal[Conf])
    <3>1. /\ pushes' = differing /\ todo' = differing
          /\ saved' = [f \in Pushable |-> IF f \in differing THEN disk[f] ELSE Absent]
          /\ pc' = IF differing = {} THEN "stage" ELSE "push"
          /\ UNCHANGED <<goal, outcome, before>>
      BY <2>1, <2>2, <2>4 DEF CompareWith
    <3>2. differing \subseteq Pushable
      BY DEF Needed
    <3>. QED
      BY <1>0, <2>1, <3>1, <3>2 DEF vm, DiskInv, TrustInv, SameBut
  <2>. QED
    BY <2>3, <2>4
<1>3. CASE Push
  <2>1. PICK f \in todo : disk' = [disk EXCEPT ![f] = goal[f]]
    BY <1>3 DEF Push
  <2>2. f \in pushes
    BY <1>3, <2>1 DEF Push, DiskInv
  <2>. QED
    BY <1>0, <1>3, <2>1, <2>2 DEF Push, DiskInv, TrustInv, SameBut
<1>4. CASE Stage \/ CandidateParses \/ LiveParses
  BY <1>0, <1>4 DEF Stage, CandidateParses, LiveParses, vm, local, DiskInv, Matches, Needed, TrustInv, SameBut
<1>5. CASE CandidateRefused \/ LiveRefused
  BY <1>0, <1>5 DEF CandidateRefused, LiveRefused, vm, local, DiskInv, TrustInv, SameBut
<1>6. CASE Unstage
  BY <1>0, <1>6 DEF Unstage, Finish, DiskInv, TrustInv, SameBut
<1>7. CASE Install
  BY <1>0, <1>7 DEF Install, local, DiskInv, TrustInv
<1>8. CASE Restart \/ Reload
  BY <1>0, <1>8 DEF Restart, Reload, Finish, DiskInv, TrustInv
<1>9. CASE RollBack
  <2>1. PICK f \in todo, missed \in BOOLEAN :
          LET anyMiss == misses \/ missed
          IN  /\ disk' = IF missed THEN disk ELSE [disk EXCEPT ![f] = saved[f]]
              /\ IF todo = {f}
                 THEN /\ Finish(IF anyMiss THEN "failed" ELSE "Rejected")
                      /\ trusted' = (trusted /\ ~anyMiss)
                 ELSE /\ todo' = todo \ {f}
                      /\ misses' = anyMiss
                      /\ UNCHANGED <<pc, goal, pushes, saved, newConf, outcome, before, trusted>>
    BY <1>9 DEF RollBack
  <2>2. pc = "rollback" /\ UNCHANGED serving
    BY <1>9 DEF RollBack
  <2>3. ~misses /\ ~missed => \A g \in Paths \ (todo \ {f}) : disk'[g] = before[g]
    BY <1>0, <2>1, <2>2 DEF DiskInv, SameBut
  <2>4. CASE todo = {f}
    <3>1. disk' \in [Paths -> Contents]
      BY <1>0, <2>1 DEF ServeInv, TypeOK
    <3>2. ~misses /\ ~missed => disk' = before
      BY <1>0, <3>1, <2>3, <2>4
    <3>. QED
      BY <2>1, <2>2, <2>4, <3>2 DEF Finish, DiskInv, TrustInv
  <2>5. CASE todo # {f}
    BY <1>0, <2>1, <2>2, <2>3, <2>5 DEF DiskInv, TrustInv, SameBut
  <2>. QED
    BY <2>4, <2>5
<1>10. CASE Interrupt \/ AnswerLost
  BY <1>10 DEF Interrupt, AnswerLost, Finish, vm, DiskInv, TrustInv
<1>11. CASE HostStep
  <2>1. UNCHANGED <<vm, pc, local, outcome, trusted>>
    BY <1>11 DEF HostStep, HostChange, EditTemplate, EditList, AllocatePort, ReleasePort, Upgrade
  <2>. QED
    BY <2>1 DEF vm, local, DiskInv, TrustInv, SameBut, Matches, Needed
<1>12. CASE ProxyReboots
  BY <1>0, <1>12 DEF ProxyReboots, local, DiskInv, TrustInv, Matches, Needed
<1>13. CASE ProxyReplaced
  <2>1. Load(Fresh) = Nothing
    BY SyncAssumption, PathFacts DEF Load, Fresh, Parses
  <2>. QED
    BY <1>0, <1>13, <2>1, SyncAssumption DEF ProxyReplaced, local, DiskInv, TrustInv
<1>14. CASE UNCHANGED vars
  BY <1>14 DEF vars, vm, local, DiskInv, TrustInv, SameBut, Matches, Needed
<1>. QED
  BY <1>1, <1>2, <1>3, <1>4, <1>5, <1>6, <1>7, <1>8, <1>9, <1>10, <1>11, <1>12, <1>13, <1>14
     DEF Next, SyncStep

\* RestoreInv is an invariant when a `cat` does not lie.
LEMMA RestoreInvariant == ~CatLies => (Spec => []RestoreInv)
<1> SUFFICES ASSUME ~CatLies PROVE Spec => []RestoreInv
  OBVIOUS
<1>1. Load(Fresh) = Nothing
  BY SyncAssumption, PathFacts DEF Load, Fresh, Parses
<1>2. Init => DiskInv /\ TrustInv
  BY <1>1, SyncAssumption DEF Init, DiskInv, TrustInv
<1>3. Spec => Init /\ []ServeInv /\ (ServeInv /\ Init => RestoreInv)
  BY <1>2, ServeInvariant, PTL DEF Spec, RestoreInv
<1>4. ServeInv /\ ServeInv' /\ RestoreInv /\ [Next]_vars => RestoreInv'
  BY RestoreStep DEF RestoreInv
<1>. QED
  BY <1>3, <1>4, PTL DEF Spec

\* Rejected means that every file in the VM is what it was before the Sync.
THEOREM RejectedIsRestored == ~CatLies => (Spec => []RejectedRestores)
<1>1. RestoreInv => RejectedRestores
  BY DEF RestoreInv, DiskInv, RejectedRestores
<1>. QED
  BY <1>1, RestoreInvariant, PTL

\* While no Sync was cut short since squid last loaded, both reports of
\* success are true of what squid serves.
THEOREM ReportsAreTrue == ~CatLies => (Spec => []ReportsHold)
<1>1. ASSUME RestoreInv PROVE ReportsHold
  <2> SUFFICES ASSUME pc = "idle", trusted, outcome = "Unchanged" PROVE serving = goal
    BY <1>1 DEF RestoreInv, ServeInv, AppliedInv, AppliedServes, ReportsHold
  <2>1. serving = Load(disk) /\ Load(disk) # Down /\ Matches /\ disk[Conf] = goal[Conf]
    BY <1>1 DEF RestoreInv, TrustInv
  <2>. QED
    BY <1>1, <2>1, LoadGoal DEF RestoreInv, ServeInv, GoalInv
<1>. QED
  BY <1>1, RestoreInvariant, PTL

----------------------------------------------------------------------------
(* Without faults, the steps of Sync amount to the contract.               *)

\* A refusal under way is of a goal squid refuses, and nothing is doubted.
FaultlessInv ==
  /\ trusted
  /\ pc \in {"unstage", "rollback"} => goal \notin Acceptable
  /\ ~misses
  /\ outcome # "failed"

ContractInv == RestoreInv /\ FaultlessInv

\* Each step of Next without faults keeps FaultlessInv and is a step of the
\* contract, or none of its variables changes.
LEMMA ContractStep ==
  ASSUME ~CatLies, ~Interrupts, ContractInv, [Next]_vars
  PROVE  FaultlessInv' /\ [Contract!Next]_(Contract!vars)
<1> USE DEF ContractInv, FaultlessInv, Contract!Next, Contract!vars
<1>0. /\ disk \in [Paths -> Contents]
      /\ (pc = "idle") <=> (outcome # "running")
      /\ serving # Down
  BY DEF RestoreInv, TrustInv, ServeInv, TypeOK, GoalInv
<1>1. CASE Begin
  BY <1>0, <1>1, WantedType DEF Begin, vm, RestoreInv, ServeInv, Contract!Ask
<1>2. CASE Compare
  <2>1. CompareWith({}) /\ pc = "compare" /\ UNCHANGED <<host, vm, trusted>>
    BY <1>2 DEF Compare
  <2>2. disk = [f \in Paths |-> IF f \in {} THEN Absent ELSE disk[f]]
    BY <1>0
  <2>3. CASE pc' # "idle"
    BY <2>1, <2>3 DEF CompareWith, Finish, vm
  <2>4. CASE pc' = "idle"
    <3>1. Finish("Unchanged") /\ Matches /\ disk[Conf] = goal[Conf]
      BY <2>1, <2>2, <2>4 DEF CompareWith, Matches
    <3>2. GoalShape(goal) /\ disk = before /\ serving = Load(disk)
      BY <1>0, <2>1 DEF RestoreInv, DiskInv, TrustInv, ServeInv, GoalInv, TypeOK, Outcomes
    <3>3. serving = goal
      BY <1>0, <3>1, <3>2, LoadGoal DEF RestoreInv, ServeInv
    <3>. QED
      BY <1>0, <2>1, <3>1, <3>3 DEF Finish, vm, Contract!Confirm
  <2>. QED
    BY <2>3, <2>4
<1>3. CASE Push \/ Stage \/ CandidateParses \/ LiveParses \/ Install
  <2>1. pc' \notin {"unstage", "rollback"} /\ UNCHANGED <<goal, serving, outcome, misses, trusted>>
    BY <1>3 DEF Push, Stage, CandidateParses, LiveParses, Install, vm, local
  <2>. QED
    BY <2>1
<1>4. CASE CandidateRefused
  <2>1. goal \notin Acceptable
    BY <1>4, GoalLoads
       DEF CandidateRefused, RestoreInv, ServeInv, GoalInv, PushInv, LoadInv, TypeOK, Outcomes
  <2>. QED
    BY <1>4, <2>1 DEF CandidateRefused, vm, local
<1>5. CASE LiveRefused
  <2>1. goal \notin Acceptable
    BY <1>5, GoalLoads
       DEF LiveRefused, RestoreInv, ServeInv, GoalInv, PushInv, LoadInv, TypeOK, Outcomes
  <2>. QED
    BY <1>5, <2>1 DEF LiveRefused, vm, local
<1>6. CASE Unstage
  BY <1>0, <1>6 DEF Unstage, Finish, Contract!Refuse
<1>7. CASE RollBack
  BY <1>0, <1>7 DEF RollBack, Finish, Contract!Refuse
<1>8. CASE Restart \/ Reload
  <2>1. Matches /\ disk[Conf] = goal[Conf] /\ Load(disk) # Down
    BY <1>0, <1>8, ParsedLoads DEF Restart, Reload, RestoreInv, ServeInv, PushInv, LoadInv
  <2>2. Load(disk) = goal /\ goal \in Acceptable
    BY <1>0, <1>8, <2>1, LoadGoal
       DEF Restart, Reload, RestoreInv, ServeInv, GoalInv, TypeOK, Outcomes
  <2>. QED
    BY <1>0, <1>8, <2>1, <2>2 DEF Restart, Reload, Finish, Contract!Apply
<1>9. CASE Interrupt \/ AnswerLost
  BY <1>9 DEF Interrupt, AnswerLost
<1>10. CASE HostStep
  <2>1. UNCHANGED <<vm, pc, local, outcome, trusted>>
    BY <1>10 DEF HostStep, HostChange, EditTemplate, EditList, AllocatePort, ReleasePort, Upgrade
  <2>. QED
    BY <2>1 DEF vm, local
<1>11. CASE ProxyReboots
  BY <1>0, <1>11 DEF ProxyReboots, local, RestoreInv, TrustInv
<1>12. CASE ProxyReplaced
  BY <1>0, <1>12 DEF ProxyReplaced, local, Contract!Replace
<1>13. CASE UNCHANGED vars
  BY <1>13 DEF vars, vm, local
<1>. QED
  BY <1>1, <1>2, <1>3, <1>4, <1>5, <1>6, <1>7, <1>8, <1>9, <1>10, <1>11, <1>12, <1>13
     DEF Next, SyncStep

\* Sync implements EgressPolicy: when no command fails and no process dies, it
\* applies the whole of what was asked or refuses the whole, and says which.
THEOREM SyncImplementsContract == ~CatLies /\ ~Interrupts => (Spec => ImplementsContract)
<1> SUFFICES ASSUME ~CatLies, ~Interrupts PROVE Spec => ImplementsContract
  OBVIOUS
<1>1. Init => FaultlessInv
  BY DEF Init, FaultlessInv
<1>2. ASSUME Init PROVE Contract!Init
  <2>1. goal \in Policies
    BY <1>2, FreshType DEF Init, Policies
  <2>. QED
    BY <1>2, <2>1 DEF Init, Contract!Init
<1>3. RestoreInv /\ FaultlessInv /\ [Next]_vars => FaultlessInv' /\ [Contract!Next]_(Contract!vars)
  BY ContractStep DEF ContractInv
<1>4. Spec => []RestoreInv
  BY RestoreInvariant
<1>. QED
  BY <1>1, <1>2, <1>3, <1>4, PTL DEF Spec, ImplementsContract, Contract!Spec
=============================================================================
