-------------------------------- MODULE Plan --------------------------------
(***************************************************************************)
(* What a sandbox will be, settled on the host: `ptrbox new` from its      *)
(* arguments to the created VM (internal/cli/new.go), with the settings,   *)
(* the plan and its two editors, the repo's git hooks, and what `start`,   *)
(* `stop` and `rm` do of them (lifecycle.go).  One VM name, which several  *)
(* repos may have; one terminal, and a person who edits files beside it.   *)
(*                                                                         *)
(* The proxy, the boots and the verification of the VM are in Lifecycle.   *)
(***************************************************************************)
EXTENDS Settings

CONSTANTS
  Repos,         \* repos whose VM has this name
  Example,       \* the lines of the shipped settings file
  Mains,         \* what the host's settings file may hold
  Edits,         \* the lines a person adds to the per-VM file
  Answers,       \* what the model server may answer
  Served,        \* those of them that name a model, all names fit to render
  HostServices,  \* the backend reaches services on the host
  MountInConfig, \* the backend's rendered config names the mount
  ListingFails,  \* whether the backend's list may fail and answer "no VMs"
  MaxEdits       \* bound

ASSUME PlanAssumption ==
  /\ Served \subseteq Answers /\ Unset \notin Answers /\ Unset \notin Repos
  /\ {HostServices, MountInConfig, ListingFails} \subseteq BOOLEAN
  /\ MaxEdits \in Nat

NoFile == <<>>
NoVM == [built |-> FALSE]

VARIABLES
  main,    \* the host's settings file
  vmfile,  \* the per-VM file's lines, or NoFile
  list,    \* the VM's allowlist: whether it is there, and its groups with entries
  hooks,   \* per repo, its git hooks on the host: "null" with core.hooksPath
           \* at /dev/null, "live" with anything else
  config,  \* the rendered VM config: the settings, models and repo in it, or NoVM
  sidecar, \* the repo sidecar: a repo, "part" of a path, or Unset
  vm, up,  \* what the VM was built with, or NoVM; whether it runs
  pc,      \* what the command does next
  run,     \* [repo, ask]: of this `new`, and whether it may ask
  cfg,     \* the settings the command goes by
  models,  \* what the model server told it
  shown,   \* the last plan printed
  moved,   \* the files changed since the command last read them for a plan
  edits

files == <<main, vmfile, list, hooks>>
made == <<config, sidecar, vm, up>>
own == <<run, cfg, models, moved, shown>>
vars == <<files, made, pc, own, edits>>

\* A configuration, a plan, and what is rendered or built.
IsConfig(c) == DOMAIN c = Keys
IsPlan(p) == DOMAIN p = {"cfg", "models"} /\ IsConfig(p.cfg) /\ p.models \in Answers \cup {Unset}
IsBuild(b) == b = NoVM \/ (b.built /\ IsPlan(b.plan) /\ b.repo \in Repos \cup {Unset})
Steps == {"idle", "repo", "vmconf", "hooks", "plan", "offer", "again", "replan", "list",
          "offerlist", "render", "record", "create", "assert", "boot", "gone"}

TypeOK ==
  /\ list \in [there : BOOLEAN, groups : SUBSET Features, own : BOOLEAN]
  /\ hooks \in [Repos -> {"null", "live"}]
  /\ IsBuild(config) /\ IsBuild(vm) /\ IsPlan(shown)
  /\ sidecar \in Repos \cup {"part", Unset} /\ up \in BOOLEAN
  /\ pc \in Steps /\ run \in [repo : Repos \cup {Unset}, ask : BOOLEAN]
  /\ IsConfig(cfg) /\ models \in Answers \cup {Unset}
  /\ moved \in BOOLEAN /\ edits \in 0 .. MaxEdits

NoList == [there |-> FALSE, groups |-> {}, own |-> FALSE]
NoRun == [repo |-> Unset, ask |-> FALSE]
NoPlan == [cfg |-> Failed, models |-> Unset]

\* core.hooksPath is pointed at nothing, or given back where hooks are allowed.
Neutralised(c) == IF Wants(c, "HOST_HOOKS") THEN "live" ELSE "null"

\* A host with no such VM; or, where the config names the mount, with one that
\* a ptrbox without sidecars made.
Init ==
  /\ main \in Mains /\ vmfile = NoFile /\ list = NoList
  /\ sidecar = Unset /\ up = FALSE
  /\ \/ vm = NoVM /\ hooks = [r \in Repos |-> "live"] /\ shown = NoPlan
     \/ \E r \in Repos :
          /\ MountInConfig /\ Load(main, NoFile) # Failed
          /\ shown = [cfg |-> Load(main, NoFile), models |-> Unset]
          /\ ~Wants(shown.cfg, "OPENCODE")
          /\ vm = [built |-> TRUE, plan |-> shown, repo |-> r]
          /\ hooks = [q \in Repos |-> IF q = r THEN Neutralised(shown.cfg) ELSE "live"]
  /\ config = vm
  /\ pc = "idle" /\ run = NoRun
  /\ cfg = Failed /\ models = Unset
  /\ moved = FALSE /\ edits = 0

----------------------------------------------------------------------------
(* Beside the command.                                                     *)

\* A person edits the per-VM file or puts another settings file in place.
EditFiles ==
  /\ edits < MaxEdits /\ edits' = edits + 1
  /\ \/ \E l \in Edits : vmfile' = Append(vmfile, l) /\ UNCHANGED main
     \/ main' \in Mains \ {main} /\ UNCHANGED vmfile
  /\ moved' = (pc # "idle")
  /\ UNCHANGED <<list, hooks, made, pc, run, cfg, models, shown>>

\* The repo's .git/config is in the mount.
AgentWrites ==
  /\ up
  /\ hooks' = [hooks EXCEPT ![vm.repo] = "live"]
  /\ UNCHANGED <<main, vmfile, list, made, pc, own, edits>>

----------------------------------------------------------------------------
(* ptrbox new.                                                             *)

Go(to) == pc' = to /\ UNCHANGED own
GoWith(to, c) == pc' = to /\ cfg' = c /\ moved' = FALSE /\ UNCHANGED <<run, models, shown>>
Stop == /\ pc' = "idle" /\ run' = NoRun /\ cfg' = Failed /\ models' = Unset
        /\ moved' = FALSE /\ UNCHANGED shown

\* The host's settings load; without a terminal, or with --no-edit, no editor.
New ==
  /\ pc = "idle" /\ pc' = "repo" /\ Load(main, NoFile) # Failed
  /\ cfg' = Load(main, NoFile) /\ run' \in [repo : Repos, ask : BOOLEAN]
  /\ UNCHANGED <<files, made, models, moved, shown, edits>>

\* What Backend.Exists may answer: a listing that fails says there is no VM.
SaysExists == vm # NoVM
SaysMissing == vm = NoVM \/ ListingFails

\* The repo is there, and no VM has its name.
PrepareRepo ==
  /\ pc = "repo"
  /\ \/ SaysMissing /\ Go("vmconf")
     \/ SaysExists /\ Stop
  /\ UNCHANGED <<files, made, edits>>

\* The settings again, with the per-VM file's, before the hooks and after the
\* editor.
LoadVM(at, to) ==
  /\ pc = at
  /\ IF Load(main, vmfile) # Failed THEN GoWith(to, Load(main, vmfile)) ELSE Stop
  /\ UNCHANGED <<files, made, edits>>

LoadFirst == LoadVM("vmconf", "hooks")
LoadAgain == LoadVM("again", "replan")

NeutraliseHooks ==
  /\ pc = "hooks" /\ Go("plan")
  /\ hooks' = [hooks EXCEPT ![run.repo] = Neutralised(cfg)]
  /\ UNCHANGED <<main, vmfile, list, made, edits>>

\* Mutant of PrintPlan: the second plan keeps the models of the first.
PrintPlanOnce(at, to) ==
  /\ pc = at
  /\ \E answer \in Answers :
       IF Wants(cfg, "OPENCODE") /\ ~(HostServices /\ answer \in Served) THEN Stop
       ELSE /\ pc' = to
            /\ models' = IF Wants(cfg, "OPENCODE") /\ models = Unset THEN answer ELSE models
            /\ shown' = [cfg |-> cfg, models |-> IF Wants(cfg, "OPENCODE") THEN answer ELSE Unset]
            /\ UNCHANGED <<run, cfg, moved>>
  /\ UNCHANGED <<files, made, edits>>

\* What will be built is said; the model server must have a model to offer.
PrintPlan(at, to) ==
  /\ pc = at
  /\ \E answer \in Answers :
       IF Wants(cfg, "OPENCODE") /\ ~(HostServices /\ answer \in Served) THEN Stop
       ELSE /\ pc' = to
            /\ models' = IF Wants(cfg, "OPENCODE") THEN answer ELSE Unset
            /\ shown' = [cfg |-> cfg, models |-> models']
            /\ UNCHANGED <<run, cfg, moved>>
  /\ UNCHANGED <<files, made, edits>>

FirstPlan == PrintPlan("plan", "offer")
SecondPlan == PrintPlan("replan", "list")

\* The offer to edit the configuration.
DeclineConfig ==
  /\ pc = "offer" /\ Go("list")
  /\ UNCHANGED <<files, made, edits>>

Header == Line("head", Unset, Unset)
SeedVMConfig == IF vmfile = NoFile THEN <<Header>> \o Example ELSE vmfile

\* The per-VM file is seeded and opened; the editor may fail.
EditConfig ==
  /\ pc = "offer" /\ run.ask
  /\ \/ /\ Go("again") /\ UNCHANGED edits /\ vmfile' = SeedVMConfig
     \/ /\ Go("again") /\ edits < MaxEdits /\ edits' = edits + 1
        /\ \E l \in Edits : vmfile' = Append(SeedVMConfig, l)
     \/ Stop /\ UNCHANGED edits /\ vmfile' = SeedVMConfig
  /\ UNCHANGED <<main, list, hooks, made>>

Groups(c) == {f \in Features : Wants(c, f)}

\* A list that is there is brought in line with the files' settings; a line of
\* a person's own may keep a group from being restored.
Reconciled(c) == {[list EXCEPT !.groups = g] :
                    g \in IF list.own THEN SUBSET Groups(c) ELSE {Groups(c)}}
\* One that is not there is seeded from them.
SeededList(c) == IF list.there THEN list
                 ELSE [there |-> TRUE, groups |-> Groups(c), own |-> FALSE]

\* Mutant of ReconcileAllowlist: a list that is there is left as it was.
ReconcileNothing ==
  /\ pc = "list" /\ Go("offerlist")
  /\ UNCHANGED <<files, made, edits>>

ReconcileAllowlist ==
  /\ pc = "list"
  /\ IF ~list.there THEN Go("offerlist") /\ UNCHANGED list
     ELSE IF Load(main, vmfile) = Failed THEN Stop /\ UNCHANGED list
     ELSE Go("offerlist") /\ list' \in Reconciled(Load(main, vmfile))
  /\ UNCHANGED <<main, vmfile, hooks, made, edits>>

DeclineList ==
  /\ pc = "offerlist" /\ Go("render")
  /\ UNCHANGED <<files, made, edits>>

\* The list is seeded and opened: a person may make it theirs.
EditList ==
  /\ pc = "offerlist" /\ run.ask
  /\ IF ~list.there /\ Load(main, vmfile) = Failed THEN Stop /\ UNCHANGED list
     ELSE /\ Go("render") \/ Stop
          /\ \/ list' = SeededList(Load(main, vmfile))
             \/ list' = [there |-> TRUE, groups |-> Features, own |-> TRUE]
  /\ UNCHANGED <<main, vmfile, hooks, made, edits>>

\* The port is allocated and the config rendered.
Render ==
  /\ pc = "render" /\ Go("record")
  /\ config' = [built |-> TRUE, plan |-> [cfg |-> cfg, models |-> models], repo |-> run.repo]
  /\ UNCHANGED <<files, sidecar, vm, up, edits>>

\* The sidecar; a write may be cut short, with nothing or half a path in it.
RecordRepo ==
  /\ pc = "record"
  /\ \/ sidecar' = run.repo /\ Go("create")
     \/ sidecar' \in {Unset, "part"} /\ Stop
  /\ UNCHANGED <<files, config, vm, up, edits>>

\* The proxy is ensured, which seeds the list, and the VM created from the
\* config; the backend refuses a second of one name.
Create ==
  /\ pc = "create" /\ Stop
  /\ IF ~list.there /\ Load(main, vmfile) = Failed THEN UNCHANGED <<list, vm, up>>
     ELSE /\ list' = SeededList(Load(main, vmfile))
          /\ IF vm = NoVM THEN vm' = config /\ up' = TRUE ELSE UNCHANGED <<vm, up>>
  /\ UNCHANGED <<main, vmfile, hooks, config, sidecar, edits>>

----------------------------------------------------------------------------
(* ptrbox start, stop and rm.                                              *)

\* Mutant of MountedRepo: only the sidecar is asked.
SidecarOnly == sidecar

\* The repo a VM has mounted: what the sidecar says, else the config's mount.
MountedRepo == IF sidecar # Unset \/ config = NoVM \/ ~MountInConfig THEN sidecar
               ELSE config.repo

Start ==
  /\ pc = "idle" /\ vm # NoVM /\ Load(main, NoFile) # Failed
  /\ GoWith("assert", Load(main, NoFile))
  /\ UNCHANGED <<files, made, edits>>

\* By this VM's own settings; git fails in a directory that is not there.
AssertHooks ==
  /\ pc = "assert"
  /\ \/ MountedRepo = Unset /\ Go("boot") /\ UNCHANGED hooks
     \/ /\ MountedRepo \in Repos /\ Load(main, vmfile) # Failed
        /\ GoWith("boot", Load(main, vmfile))
        /\ hooks' = [hooks EXCEPT ![MountedRepo] = Neutralised(cfg')]
     \/ /\ MountedRepo # Unset /\ (MountedRepo = "part" \/ Load(main, vmfile) = Failed)
        /\ Stop /\ UNCHANGED hooks
  /\ UNCHANGED <<main, vmfile, list, made, edits>>

StartVM ==
  /\ pc = "boot" /\ Stop /\ up' = TRUE
  /\ UNCHANGED <<files, config, sidecar, vm, edits>>

\* `ptrbox stop`, or the host goes down.
StopVM ==
  /\ pc = "idle" /\ up /\ up' = FALSE
  /\ UNCHANGED <<files, config, sidecar, vm, pc, own, edits>>

\* Mutant of Delete: the artifacts go first.
DeleteLast ==
  /\ pc = "idle" /\ Load(main, NoFile) # Failed
  /\ config' = NoVM /\ sidecar' = Unset /\ Go("gone")
  /\ UNCHANGED <<files, vm, up, edits>>

\* `ptrbox rm`: the VM, if the listing has it, then what `new` had made for it.
Delete ==
  /\ pc = "idle" /\ Load(main, NoFile) # Failed /\ Go("gone")
  /\ \/ SaysExists /\ vm' = NoVM /\ up' = FALSE
     \/ SaysMissing /\ UNCHANGED <<vm, up>>
  /\ UNCHANGED <<files, config, sidecar, edits>>

RemoveArtifacts ==
  /\ pc = "gone" /\ Stop
  /\ \/ config' = NoVM /\ sidecar' = Unset
     \/ config' = NoVM /\ UNCHANGED sidecar
  /\ UNCHANGED <<files, vm, up, edits>>

\* A step fails, or the command is killed between two.
Die ==
  /\ pc # "idle" /\ Stop
  /\ UNCHANGED <<files, made, edits>>

NewSteps == \/ PrepareRepo \/ LoadFirst \/ NeutraliseHooks \/ FirstPlan
            \/ DeclineConfig \/ EditConfig \/ LoadAgain \/ SecondPlan
            \/ ReconcileAllowlist \/ DeclineList \/ EditList
            \/ Render \/ RecordRepo \/ Create

Next == \/ EditFiles \/ AgentWrites
        \/ New \/ NewSteps \/ Start \/ AssertHooks \/ StartVM \/ StopVM
        \/ Delete \/ RemoveArtifacts \/ Die

Spec == Init /\ [][Next]_vars

----------------------------------------------------------------------------
(* Properties.                                                             *)

\* A VM comes into being as the last plan said it would, settings and models,
\* whatever files and servers did meanwhile (new.go, reviewPlan: the build must
\* follow the plan that was shown).
BuiltIsShown ==
  [][(vm = NoVM /\ vm' # NoVM) => vm'.plan = shown]_vars

\* A VM comes into being with the allowlist groups of the features it has, on
\* a list that outlived others as on a new one, unless a person changed the
\* list or the files under the command (reconcileAllowlist, vmSeed).
ListFollowsBuilt ==
  [][(vm = NoVM /\ vm' # NoVM /\ ~moved /\ ~list.own) => list'.groups = Groups(vm'.plan.cfg)]_vars

\* A stopped VM is started with its repo's hooks off, unless its settings allow
\* them, whatever the agent had made of .git/config (lifecycle.go,
\* startSandbox: a control that has to hold cannot be applied once); while no
\* listing fails, which is what lets `rm` and `new` undo the repo's record.
StartsHooksOff ==
  [][(pc = "boot" /\ ~up /\ up') => hooks[vm.repo] = "null" \/ Wants(cfg, "HOST_HOOKS")]_vars

\* The repo `start` runs git in is the one the VM has mounted, through creates
\* that die and names that are used again (new.go, recordRepo, mountedRepo).
\* A failed listing breaks it: `rm` then removes the record of a VM that is
\* there, and a second `new` of its name writes another repo's over it.
MountKnown == vm # NoVM => MountedRepo = vm.repo

\* What the plan says of the hooks is true of the VM that comes of it (new.go,
\* neutraliseHooks: before the plan, so what the plan reports is true).
PlanTellsHooks ==
  [][(vm = NoVM /\ vm' # NoVM) =>
       hooks[vm'.repo] = "null" \/ Wants(shown.cfg, "HOST_HOOKS")]_vars
=============================================================================
