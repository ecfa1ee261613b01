----------------------------- MODULE Plan_proofs -----------------------------
(***************************************************************************)
(* Theorems about Plan, for any settings, files, repos and model servers:  *)
(* type correctness; that the VM is the one the last plan showed; that the *)
(* list, the mount and the hooks `start` asserts are that VM's.            *)
(***************************************************************************)
EXTENDS Plan, TLAPS

LEMMA LoadIsConfig == \A m, v : IsConfig(Load(m, v)) /\ IsConfig(Failed)
BY DEF IsConfig, Load, Resolved, Failed

LEMMA InitTypes == Init => TypeOK
<1> SUFFICES ASSUME Init PROVE TypeOK
  OBVIOUS
<1>1. IsPlan(shown)
  BY LoadIsConfig DEF Init, NoPlan, IsPlan
<1>2. IsBuild(vm) /\ IsBuild(config)
  BY <1>1 DEF Init, IsBuild
<1>3. hooks \in [Repos -> {"null", "live"}]
  BY DEF Init, Neutralised
<1>4. list \in [there : BOOLEAN, groups : SUBSET Features, own : BOOLEAN]
  BY DEF Init, NoList
<1>5. run \in [repo : Repos \cup {Unset}, ask : BOOLEAN]
  BY DEF Init, NoRun
<1>6. edits \in 0 .. MaxEdits
  BY PlanAssumption DEF Init, PlanAssumption
<1>. QED
  BY <1>1, <1>2, <1>3, <1>4, <1>5, <1>6, LoadIsConfig DEF Init, TypeOK, Steps

\* What a step that reads the settings, or ends the command, leaves in own.
LEMMA OwnTypes ==
  ASSUME TypeOK,
         \/ \E to \in Steps : Go(to)
         \/ \E to \in Steps : \E m, v : GoWith(to, Load(m, v))
         \/ Stop
  PROVE  /\ pc' \in Steps /\ run' \in [repo : Repos \cup {Unset}, ask : BOOLEAN]
         /\ IsConfig(cfg') /\ models' \in Answers \cup {Unset} /\ IsPlan(shown')
         /\ moved' \in BOOLEAN
<1>1. CASE \E to \in Steps : Go(to)
  BY <1>1 DEF Go, own, TypeOK
<1>2. CASE \E to \in Steps : \E m, v : GoWith(to, Load(m, v))
  <2>1. PICK to \in Steps : \E m, v : GoWith(to, Load(m, v))
    BY <1>2
  <2>2. PICK m, v : GoWith(to, Load(m, v))
    BY <2>1
  <2>. QED
    BY <2>2, LoadIsConfig DEF GoWith, TypeOK
<1>3. CASE Stop
  <2>1. NoRun \in [repo : Repos \cup {Unset}, ask : BOOLEAN]
    BY DEF NoRun
  <2>. QED
    BY <1>3, <2>1, LoadIsConfig DEF Stop, TypeOK, Steps
<1>. QED
  BY <1>1, <1>2, <1>3

\* The allowlist, as new makes it or brings it in line.
LEMMA ListTypes ==
  ASSUME TypeOK, NEW c
  PROVE  /\ SeededList(c) \in [there : BOOLEAN, groups : SUBSET Features, own : BOOLEAN]
         /\ [there |-> TRUE, groups |-> Features, own |-> TRUE] \in [there : BOOLEAN, groups : SUBSET Features, own : BOOLEAN]
         /\ \A l \in Reconciled(c) :
              /\ l \in [there : BOOLEAN, groups : SUBSET Features, own : BOOLEAN]
              /\ l.there = list.there /\ l.own = list.own
              /\ ~list.own => l.groups = Groups(c)
<1>1. list \in [there : BOOLEAN, groups : SUBSET Features, own : BOOLEAN] /\ Groups(c) \subseteq Features
  BY DEF TypeOK, Groups
<1>2. SeededList(c) \in [there : BOOLEAN, groups : SUBSET Features, own : BOOLEAN]
  BY <1>1 DEF SeededList
<1>3. ASSUME NEW l \in Reconciled(c)
      PROVE  /\ l \in [there : BOOLEAN, groups : SUBSET Features, own : BOOLEAN]
             /\ l.there = list.there /\ l.own = list.own
             /\ ~list.own => l.groups = Groups(c)
  <2>1. PICK g : g \subseteq Features /\ l = [list EXCEPT !.groups = g] /\ (~list.own => g = Groups(c))
    <3>1. \A g \in SUBSET Groups(c) : g \subseteq Features
      BY <1>1
    <3>. QED
      BY <1>1, <1>3, <3>1 DEF Reconciled
  <2>2. /\ l.there = list.there /\ l.own = list.own /\ l.groups = g
        /\ l \in [there : BOOLEAN, groups : SUBSET Features, own : BOOLEAN]
    BY <1>1, <2>1
  <2>. QED
    BY <2>1, <2>2
<1>. QED
  BY <1>2, <1>3

LEMMA TypeStep == TypeOK /\ [Next]_vars => TypeOK'
<1> SUFFICES ASSUME TypeOK, [Next]_vars PROVE TypeOK'
  OBVIOUS
<1> USE DEF files, made
<1>1. CASE EditFiles
  BY <1>1, PlanAssumption DEF EditFiles, TypeOK, PlanAssumption
<1>2. CASE AgentWrites
  BY <1>2 DEF AgentWrites, own, TypeOK
<1>3. CASE New
  BY <1>3, LoadIsConfig DEF New, TypeOK, Steps
<1>4. CASE PrepareRepo \/ DeclineConfig \/ DeclineList
  BY <1>4, OwnTypes DEF PrepareRepo, DeclineConfig, DeclineList, TypeOK, Steps
<1>5. CASE LoadFirst \/ LoadAgain
  <2>1. (\E to \in Steps : \E m, v : GoWith(to, Load(m, v))) \/ Stop
    BY <1>5 DEF LoadFirst, LoadAgain, LoadVM, Steps
  <2>. QED
    BY <1>5, <2>1, OwnTypes DEF LoadFirst, LoadAgain, LoadVM, TypeOK
<1>6. CASE NeutraliseHooks
  <2>1. hooks' \in [Repos -> {"null", "live"}]
    BY <1>6 DEF NeutraliseHooks, Neutralised, TypeOK
  <2>. QED
    BY <1>6, <2>1, OwnTypes DEF NeutraliseHooks, TypeOK, Steps
<1>7. CASE FirstPlan \/ SecondPlan
  <2>1. CASE Stop
    BY <1>7, <2>1, OwnTypes DEF FirstPlan, SecondPlan, PrintPlan, TypeOK
  <2>2. CASE ~Stop
    <3>1. /\ models' \in Answers \cup {Unset} /\ shown' = [cfg |-> cfg, models |-> models']
          /\ pc' \in Steps /\ UNCHANGED <<run, cfg, moved>>
      BY <1>7, <2>2 DEF FirstPlan, SecondPlan, PrintPlan, Steps
    <3>2. IsPlan(shown')
      BY <3>1 DEF IsPlan, TypeOK
    <3>. QED
      BY <1>7, <3>1, <3>2 DEF FirstPlan, SecondPlan, PrintPlan, TypeOK
  <2>. QED
    BY <2>1, <2>2
<1>8. CASE EditConfig
  <2>1. (\E to \in Steps : Go(to)) \/ Stop
    BY <1>8 DEF EditConfig, Steps
  <2>2. edits' \in 0 .. MaxEdits
    BY <1>8, PlanAssumption DEF EditConfig, TypeOK, PlanAssumption
  <2>3. UNCHANGED <<main, list, hooks, made>>
    BY <1>8 DEF EditConfig
  <2>. QED
    BY <2>1, <2>2, <2>3, OwnTypes DEF TypeOK
<1>9. CASE ReconcileAllowlist
  <2>1. (\E to \in Steps : Go(to)) \/ Stop
    BY <1>9 DEF ReconcileAllowlist, Steps
  <2>2. list' \in [there : BOOLEAN, groups : SUBSET Features, own : BOOLEAN]
    BY <1>9, ListTypes DEF ReconcileAllowlist, TypeOK
  <2>3. UNCHANGED <<main, vmfile, hooks, made, edits>>
    BY <1>9 DEF ReconcileAllowlist
  <2>. QED
    BY <2>1, <2>2, <2>3, OwnTypes DEF TypeOK
<1>10. CASE EditList
  <2>1. (\E to \in Steps : Go(to)) \/ Stop
    BY <1>10 DEF EditList, Steps
  <2>2. list' \in [there : BOOLEAN, groups : SUBSET Features, own : BOOLEAN]
    BY <1>10, ListTypes DEF EditList, TypeOK
  <2>3. UNCHANGED <<main, vmfile, hooks, made, edits>>
    BY <1>10 DEF EditList
  <2>. QED
    BY <2>1, <2>2, <2>3, OwnTypes DEF TypeOK
<1>11. CASE Render
  <2>1. IsBuild(config')
    BY <1>11 DEF Render, IsBuild, IsPlan, TypeOK
  <2>. QED
    BY <1>11, <2>1, OwnTypes DEF Render, TypeOK, Steps
<1>12. CASE RecordRepo
  BY <1>12, OwnTypes DEF RecordRepo, TypeOK, Steps
<1>13. CASE Create
  <2>1. list' \in [there : BOOLEAN, groups : SUBSET Features, own : BOOLEAN]
    BY <1>13, ListTypes DEF Create, TypeOK
  <2>2. Stop /\ UNCHANGED <<main, vmfile, hooks, config, sidecar, edits>>
    BY <1>13 DEF Create
  <2>3. IsBuild(vm') /\ up' \in BOOLEAN
    BY <1>13 DEF Create, TypeOK
  <2>. QED
    BY <2>1, <2>2, <2>3, OwnTypes DEF TypeOK
<1>14. CASE Start
  BY <1>14, OwnTypes DEF Start, TypeOK, Steps
<1>15. CASE AssertHooks
  <2>1. hooks' \in [Repos -> {"null", "live"}]
    BY <1>15 DEF AssertHooks, Neutralised, TypeOK
  <2>2. \/ \E to \in Steps : Go(to)
        \/ \E to \in Steps : \E m, v : GoWith(to, Load(m, v))
        \/ Stop
    BY <1>15 DEF AssertHooks, Steps
  <2>3. UNCHANGED <<main, vmfile, list, made, edits>>
    BY <1>15 DEF AssertHooks
  <2>. QED
    BY <2>1, <2>2, <2>3, OwnTypes DEF TypeOK
<1>16. CASE StartVM \/ Die
  BY <1>16, OwnTypes DEF StartVM, Die, TypeOK
<1>17. CASE StopVM
  BY <1>17 DEF StopVM, own, TypeOK
<1>18. CASE Delete
  BY <1>18, OwnTypes DEF Delete, TypeOK, Steps, IsBuild
<1>19. CASE RemoveArtifacts
  BY <1>19, OwnTypes DEF RemoveArtifacts, TypeOK, IsBuild
<1>20. CASE UNCHANGED vars
  BY <1>20 DEF vars, own, TypeOK
<1>. QED
  BY <1>1, <1>2, <1>3, <1>4, <1>5, <1>6, <1>7, <1>8, <1>9, <1>10, <1>11, <1>12, <1>13, <1>14, <1>15, <1>16, <1>17, <1>18, <1>19, <1>20
     DEF Next, NewSteps

\* Plan is type-correct.
THEOREM PlanTypeCorrect == Spec => []TypeOK
BY InitTypes, TypeStep, PTL DEF Spec

----------------------------------------------------------------------------
(* What holds between the steps of a command.                              *)

Building == {"vmconf", "hooks", "plan", "offer", "again", "replan", "list",
             "offerlist", "render", "record", "create"}

\* A `new` is of one repo, and past its first look there is no VM.
Fresh == /\ pc \in Building => vm = NoVM
         /\ pc \in Building \cup {"repo"} => run.repo \in Repos
         /\ pc = "gone" => vm = NoVM
         /\ pc \in {"assert", "boot"} => vm # NoVM
         /\ vm # NoVM => vm.repo \in Repos
         /\ pc \in {"record", "create"} => config.repo = run.repo

\* Between a plan and the creation the settings and models are the plan's.
AsShown == /\ pc \in {"offer", "list", "offerlist", "render", "record", "create"} =>
                shown = [cfg |-> cfg, models |-> models]
           /\ pc \in {"record", "create"} =>
                config = [built |-> TRUE, plan |-> shown, repo |-> run.repo]

\* The sidecar is written before there is a VM that needs it.
Recorded == MountKnown /\ (pc = "create" => sidecar = run.repo)

\* Once `start` has asserted the hooks, only the VM could turn them on.
Asserted == pc = "boot" /\ ~up => hooks[vm.repo] = "null" \/ Wants(cfg, "HOST_HOOKS")

\* The settings are the files', and the list is the settings'.
InStep == ~moved =>
  /\ pc \in Building \ {"vmconf", "again"} => cfg = Load(main, vmfile)
  /\ pc \in {"offerlist", "render", "record", "create"} /\ list.there /\ ~list.own =>
       list.groups = Groups(cfg)

Between == AsShown /\ InStep

\* While no listing fails, what is recorded and asserted is of the VM there is.
Known == Fresh /\ Recorded /\ Asserted

LEMMA InitBetween == Init => Between /\ Known
BY DEF Init, Between, Known, Fresh, AsShown, Recorded, Asserted, InStep, Building, MountKnown, MountedRepo, NoVM

LEMMA BetweenStep == TypeOK /\ Between /\ [Next]_vars => Between'
<1> SUFFICES ASSUME TypeOK, Between, [Next]_vars PROVE Between'
  OBVIOUS
<1> USE DEF files, made, own, Between, AsShown, InStep, Building
<1>1. CASE EditFiles
  BY <1>1 DEF EditFiles
<1>2. CASE AgentWrites
  BY <1>2 DEF AgentWrites
<1>3. CASE New
  BY <1>3 DEF New
<1>4. CASE PrepareRepo
  BY <1>4 DEF PrepareRepo, Go, Stop
<1>5. CASE DeclineConfig
  BY <1>5 DEF DeclineConfig, Go
<1>6. CASE DeclineList
  BY <1>6 DEF DeclineList, Go
<1>7. CASE LoadFirst
  BY <1>7 DEF LoadFirst, LoadVM, GoWith, Stop
<1>8. CASE LoadAgain
  BY <1>8 DEF LoadAgain, LoadVM, GoWith, Stop
<1>9. CASE NeutraliseHooks
  BY <1>9 DEF NeutraliseHooks, Go
<1>10. CASE FirstPlan
  BY <1>10 DEF FirstPlan, PrintPlan, Stop
<1>11. CASE SecondPlan
  BY <1>11 DEF SecondPlan, PrintPlan, Stop
<1>12. CASE EditConfig
  BY <1>12 DEF EditConfig, Go, Stop
<1>13. CASE ReconcileAllowlist
  BY <1>13, ListTypes DEF ReconcileAllowlist, Go, Stop
<1>14. CASE EditList
  BY <1>14 DEF EditList, SeededList, Go, Stop
<1>15. CASE Render
  BY <1>15 DEF Render, Go
<1>16. CASE RecordRepo
  BY <1>16 DEF RecordRepo, Go, Stop
<1>17. CASE Create
  BY <1>17 DEF Create, Stop
<1>18. CASE Start
  BY <1>18 DEF Start, GoWith
<1>19. CASE AssertHooks
  BY <1>19 DEF AssertHooks, Go, GoWith, Stop
<1>20. CASE StartVM
  BY <1>20 DEF StartVM, Stop
<1>21. CASE StopVM
  BY <1>21 DEF StopVM
<1>22. CASE Delete
  BY <1>22 DEF Delete, Go
<1>23. CASE RemoveArtifacts
  BY <1>23 DEF RemoveArtifacts, Stop
<1>24. CASE Die
  BY <1>24 DEF Die, Stop
<1>25. CASE UNCHANGED vars
  BY <1>25 DEF vars
<1>. QED
  BY <1>1, <1>2, <1>3, <1>4, <1>5, <1>6, <1>7, <1>8, <1>9, <1>10, <1>11, <1>12, <1>13, <1>14, <1>15, <1>16, <1>17, <1>18, <1>19, <1>20, <1>21, <1>22, <1>23, <1>24, <1>25
     DEF Next, NewSteps

LEMMA KnownStep == ~ListingFails /\ TypeOK /\ Known /\ [Next]_vars => Known'
<1> SUFFICES ASSUME ~ListingFails, TypeOK, Known, [Next]_vars PROVE Known'
  OBVIOUS
<1> USE DEF files, made, own, Known, Fresh, Recorded, Asserted, Building, MountKnown
<1>1. CASE EditFiles
  BY <1>1 DEF EditFiles, MountedRepo
<1>2. CASE AgentWrites
  BY <1>2 DEF AgentWrites, MountedRepo
<1>3. CASE New
  BY <1>3 DEF New, MountedRepo
<1>4. CASE PrepareRepo
  BY <1>4 DEF PrepareRepo, SaysMissing, SaysExists, Go, Stop, MountedRepo
<1>5. CASE DeclineConfig
  BY <1>5 DEF DeclineConfig, Go, MountedRepo
<1>6. CASE DeclineList
  BY <1>6 DEF DeclineList, Go, MountedRepo
<1>7. CASE LoadFirst
  BY <1>7 DEF LoadFirst, LoadVM, GoWith, Stop, MountedRepo
<1>8. CASE LoadAgain
  BY <1>8 DEF LoadAgain, LoadVM, GoWith, Stop, MountedRepo
<1>9. CASE NeutraliseHooks
  BY <1>9 DEF NeutraliseHooks, Go, MountedRepo
<1>10. CASE FirstPlan
  BY <1>10 DEF FirstPlan, PrintPlan, Stop, MountedRepo
<1>11. CASE SecondPlan
  BY <1>11 DEF SecondPlan, PrintPlan, Stop, MountedRepo
<1>12. CASE EditConfig
  BY <1>12 DEF EditConfig, Go, Stop, MountedRepo
<1>13. CASE ReconcileAllowlist
  BY <1>13 DEF ReconcileAllowlist, Go, Stop, MountedRepo
<1>14. CASE EditList
  BY <1>14 DEF EditList, Go, Stop, MountedRepo
<1>15. CASE Render
  BY <1>15 DEF Render, Go
<1>16. CASE RecordRepo
  BY <1>16 DEF RecordRepo, Go, Stop
<1>17. CASE Create
  BY <1>17, PlanAssumption DEF Create, Stop, MountedRepo, NoVM, PlanAssumption
<1>18. CASE Start
  BY <1>18 DEF Start, GoWith, MountedRepo
<1>19. CASE AssertHooks
  BY <1>19, PlanAssumption DEF AssertHooks, Go, GoWith, Stop, Neutralised, TypeOK, PlanAssumption, MountedRepo
<1>20. CASE StartVM
  BY <1>20 DEF StartVM, Stop, MountedRepo
<1>21. CASE StopVM
  BY <1>21 DEF StopVM, MountedRepo
<1>22. CASE Delete
  BY <1>22 DEF Delete, SaysMissing, SaysExists, Go, NoVM
<1>23. CASE RemoveArtifacts
  BY <1>23 DEF RemoveArtifacts, Stop
<1>24. CASE Die
  BY <1>24 DEF Die, Stop, MountedRepo
<1>25. CASE UNCHANGED vars
  BY <1>25 DEF vars, MountedRepo
<1>. QED
  BY <1>1, <1>2, <1>3, <1>4, <1>5, <1>6, <1>7, <1>8, <1>9, <1>10, <1>11, <1>12, <1>13, <1>14, <1>15, <1>16, <1>17, <1>18, <1>19, <1>20, <1>21, <1>22, <1>23, <1>24, <1>25
     DEF Next, NewSteps

LEMMA Betweens == Spec => [](TypeOK /\ Between)
<1>1. Init => Between
  BY InitBetween
<1>. QED
  BY <1>1, InitTypes, TypeStep, BetweenStep, PTL DEF Spec

LEMMA Knowns == ~ListingFails => (Spec => [](TypeOK /\ Known))
<1> SUFFICES ASSUME ~ListingFails PROVE Spec => [](TypeOK /\ Known)
  OBVIOUS
<1>1. Init => Known
  BY InitBetween
<1>. QED
  BY <1>1, InitTypes, TypeStep, KnownStep, PTL DEF Spec

\* A VM is made only by the last step of `new`.
LEMMA Creation ==
  ASSUME [Next]_vars, vm = NoVM, vm' # NoVM PROVE Create /\ vm' = config
<1>1. Create
  BY DEF Next, NewSteps, vars, files, made, own, EditFiles, AgentWrites, New, PrepareRepo, LoadFirst,
         LoadAgain, LoadVM, NeutraliseHooks, FirstPlan, SecondPlan, PrintPlan, DeclineConfig, EditConfig,
         ReconcileAllowlist, DeclineList, EditList, Render, RecordRepo, Start, AssertHooks, StartVM,
         StopVM, Delete, RemoveArtifacts, Die
<1>. QED
  BY <1>1 DEF Create

\* The VM is what the last plan said, whatever files and servers did.
THEOREM BuiltAsShown == Spec => BuiltIsShown
<1>1. TypeOK /\ Between /\ [Next]_vars => ((vm = NoVM /\ vm' # NoVM) => vm'.plan = shown)
  <2> SUFFICES ASSUME Between, [Next]_vars, vm = NoVM, vm' # NoVM PROVE vm'.plan = shown
    OBVIOUS
  <2>1. pc = "create" /\ vm' = config
    BY Creation DEF Create
  <2>. QED
    BY <2>1 DEF Between, AsShown
<1>. QED
  BY <1>1, Betweens, PTL DEF Spec, BuiltIsShown

\* While no listing fails, `start` runs git in the repo the VM has mounted.
THEOREM MountIsKnown == ~ListingFails => (Spec => []MountKnown)
<1> SUFFICES ASSUME ~ListingFails PROVE Spec => []MountKnown
  OBVIOUS
<1>1. TypeOK /\ Known => MountKnown
  BY DEF Known, Recorded
<1>. QED
  BY <1>1, Knowns, PTL

\* While no listing fails, a stopped VM starts with its repo's hooks off, unless
\* its settings allow them.
THEOREM HooksOffAtStart == ~ListingFails => (Spec => StartsHooksOff)
<1> SUFFICES ASSUME ~ListingFails PROVE Spec => StartsHooksOff
  OBVIOUS
<1>1. TypeOK /\ Known /\ [Next]_vars =>
        ((pc = "boot" /\ ~up /\ up') => hooks[vm.repo] = "null" \/ Wants(cfg, "HOST_HOOKS"))
  BY DEF Known, Asserted
<1>. QED
  BY <1>1, Knowns, PTL DEF Spec, StartsHooksOff

\* A VM comes into being with the allowlist groups of its features.
THEOREM ListFollows == Spec => ListFollowsBuilt
<1>1. TypeOK /\ Between /\ [Next]_vars =>
        ((vm = NoVM /\ vm' # NoVM /\ ~moved /\ ~list.own) => list'.groups = Groups(vm'.plan.cfg))
  <2> SUFFICES ASSUME Between, [Next]_vars, vm = NoVM, vm' # NoVM, ~moved, ~list.own
               PROVE  list'.groups = Groups(vm'.plan.cfg)
    OBVIOUS
  <2>1. Create
    BY Creation
  <2>2. /\ list' = SeededList(Load(main, vmfile)) /\ vm' = config
        /\ config.plan.cfg = cfg /\ cfg = Load(main, vmfile)
        /\ list.there => list.groups = Groups(cfg)
    BY <2>1 DEF Create, Between, AsShown, InStep, Building
  <2>. QED
    BY <2>2 DEF SeededList
<1>. QED
  BY <1>1, Betweens, PTL DEF Spec, ListFollowsBuilt
=============================================================================
