----------------------------- MODULE ProxySync -----------------------------
(***************************************************************************)
(* Proxy.Sync of internal/proxy/proxy.go: how the files on the host become *)
(* what squid serves in the proxy VM.                                      *)
(*                                                                         *)
(* Three copies of one configuration are kept apart:                       *)
(*   - the host's: the template allowlist, one list per sandbox, the port  *)
(*     allocations and the squid.conf template in the binary;              *)
(*   - the files on the proxy VM's disk, which Sync compares and writes    *)
(*     one backend command at a time;                                      *)
(*   - what the running squid has loaded, which changes only when it is    *)
(*     restarted, told to reconfigure, or booted with its VM.              *)
(* Any backend command may fail and the process may be killed between two  *)
(* of them: nothing of the invocation then survives but what it wrote.     *)
(***************************************************************************)
EXTENDS Naturals

CONSTANTS
  Sandboxes,   \* sandbox names; each is also the path of its list in the VM
  Ports,       \* the proxy's per-sandbox ports
  Bodies,      \* contents an allowlist may have
  Blank,       \* the empty one, which 10-squid.sh leaves for the template's
  Versions,    \* squid.conf as the installed ptrbox renders it
  Stock,       \* squid.conf as the distro ships it
  Refused,     \* the bodies and versions squid does not parse
  Seed,        \* SeedFor: the list a sandbox starts from, given the template
  Template, Access, Conf,  \* the other paths in the VM
  Rank,        \* push order: template, lists by name, vm_access.conf
  Absent, NoPort,
  Nothing,     \* squid runs the stock config: it serves no sandbox
  Down,        \* squid does not run: its configuration did not load
  Interrupts,  \* whether a command may fail, or the process be killed
  CatLies,     \* whether a `cat` in the VM may fail for a file that is there
  MaxEdits     \* bound on changes to the host files and replacements of the VM

Pushable == Sandboxes \cup {Template, Access}
Paths == Pushable \cup {Conf}
Allocations == [Sandboxes -> Ports \cup {NoPort}]
Contents == Bodies \cup Versions \cup {Stock, Absent} \cup Allocations

ASSUME SyncAssumption ==
  /\ {Template, Access, Conf} \cap Sandboxes = {}
  /\ Template # Access /\ Template # Conf /\ Access # Conf
  /\ Blank \in Bodies \ Refused
  /\ Seed \in [Bodies -> Bodies]
  /\ Absent \notin Bodies \cup Versions \cup Allocations /\ Absent # Stock
  /\ Stock \notin Versions
  /\ NoPort \notin Ports
  /\ Down \notin [Paths -> Contents] /\ Nothing \notin [Paths -> Contents]
  /\ Down # Nothing
  /\ Rank \in [Pushable -> Nat]
  /\ Interrupts \in BOOLEAN /\ CatLies \in BOOLEAN
  /\ MaxEdits \in Nat

VARIABLES
  tmpl, list, alloc, version,  \* the host files; list[v] may be Absent
  edits,       \* changes made so far
  disk,        \* [Paths -> Contents], the files in the proxy VM
  candidate,   \* the staged squid.conf, or Absent
  serving,     \* what squid has loaded: a policy, Nothing or Down
  pc,          \* step of the running Sync
  goal,        \* the policy it is to bring about, read when it began
  todo,        \* the files it still has to push, or to roll back
  pushes,      \* the files it found different
  saved,       \* their contents before, as it read them
  newConf,     \* whether squid.conf itself differs
  misses,      \* whether a rollback write failed
  outcome,     \* of the last Sync: its SyncResult, or "failed"
  before,      \* history: the disk when that Sync began
  trusted      \* history: no Sync was cut short since squid last loaded

host == <<tmpl, list, alloc, version, edits>>
vm == <<disk, candidate, serving>>
local == <<goal, todo, pushes, saved, newConf, misses, before>>
vars == <<host, vm, pc, local, outcome, trusted>>

Steps == {"idle", "compare", "push", "stage", "try", "unstage", "rollback",
          "install", "restart", "parse", "reload"}
Outcomes == {"none", "running", "Unchanged", "Applied", "Rejected", "failed"}

\* A policy names every file squid reads, Absent for a list it does not.
Policies == [Paths -> Contents]

TypeOK ==
  /\ tmpl \in Bodies
  /\ list \in [Sandboxes -> Bodies \cup {Absent}]
  /\ alloc \in Allocations
  /\ version \in Versions
  /\ edits \in 0 .. MaxEdits
  /\ disk \in [Paths -> Contents]
  /\ candidate \in Contents
  /\ serving \in Policies \cup {Nothing, Down}
  /\ pc \in Steps
  /\ goal \in Policies
  /\ todo \subseteq Pushable /\ pushes \subseteq Pushable
  /\ saved \in [Pushable -> Contents]
  /\ newConf \in BOOLEAN /\ misses \in BOOLEAN
  /\ outcome \in Outcomes
  /\ before \in [Paths -> Contents]
  /\ trusted \in BOOLEAN

----------------------------------------------------------------------------
(* Squid, as Sync uses it.                                                 *)

\* `squid -k parse` of the configuration conf over the files of d: everything
\* the config reaches has to be there and to parse.
Parses(d, conf) ==
  \/ conf = Stock
  \/ /\ conf \in Versions \ Refused
     /\ d[Template] \in Bodies \ Refused
     /\ d[Access] \in Allocations
     /\ \A v \in Sandboxes : d[Access][v] # NoPort => d[v] \in Bodies \ Refused

\* What squid holds in memory after reading d.
Load(d) ==
  IF ~Parses(d, d[Conf]) THEN Down
  ELSE IF d[Conf] = Stock THEN Nothing
  ELSE [f \in Paths |-> IF f \in Sandboxes /\ d[Access][f] = NoPort THEN Absent ELSE d[f]]

Acceptable == {g \in Policies : Parses(g, g[Conf])}

\* A proxy VM just created: the distro's config and an empty template list.
Fresh == [f \in Paths |-> IF f = Conf THEN Stock ELSE IF f = Template THEN Blank ELSE Absent]

----------------------------------------------------------------------------
(* What Sync reads on the host.                                            *)

\* ensureVMAllowlist: a mapped sandbox without a list gets one from the
\* template; a list that is there is never touched.
Seeded == [v \in Sandboxes |->
             IF alloc[v] # NoPort /\ list[v] = Absent THEN Seed[tmpl] ELSE list[v]]

Wanted == [f \in Paths |->
             CASE f = Template -> tmpl
               [] f = Access   -> alloc
               [] f = Conf     -> version
               [] OTHER        -> IF alloc[f] = NoPort THEN Absent ELSE Seeded[f]]

\* The files of the goal besides squid.conf, each compared and pushed.
Needed == {f \in Pushable : goal[f] # Absent}

Init ==
  /\ tmpl = Blank
  /\ list = [v \in Sandboxes |-> Absent]
  /\ alloc = [v \in Sandboxes |-> NoPort]
  /\ version \in Versions
  /\ edits = 0
  /\ disk = Fresh
  /\ candidate = Absent
  /\ serving = Nothing
  /\ pc = "idle"
  /\ goal = Fresh
  /\ todo = {} /\ pushes = {}
  /\ saved = [f \in Pushable |-> Absent]
  /\ newConf = FALSE /\ misses = FALSE
  /\ outcome = "none"
  /\ before = Fresh
  /\ trusted = TRUE

\* Sync returns: what it kept in memory is gone.
Finish(result) ==
  /\ pc' = "idle"
  /\ outcome' = result
  /\ todo' = {} /\ pushes' = {}
  /\ saved' = [f \in Pushable |-> Absent]
  /\ newConf' = FALSE /\ misses' = FALSE
  /\ UNCHANGED <<goal, before>>

----------------------------------------------------------------------------
(* The steps of Sync.                                                      *)

\* The host half, read in one go; lists that are missing are written.
Begin ==
  /\ pc = "idle"
  /\ list' = Seeded
  /\ goal' = Wanted
  /\ before' = disk
  /\ pc' = "compare"
  /\ outcome' = "running"
  /\ UNCHANGED <<tmpl, alloc, version, edits, vm, todo, pushes, saved, newConf, misses, trusted>>

\* Mutant of CompareWith: an upgraded squid.conf goes unnoticed.
CompareListsOnly(lost) ==
  LET seen == [f \in Paths |-> IF f \in lost THEN Absent ELSE disk[f]]
      differing == {f \in Needed : seen[f] # goal[f]}
  IN  \/ /\ differing = {}
         /\ Finish("Unchanged")
      \/ /\ differing # {}
         /\ todo' = differing
         /\ pushes' = differing
         /\ saved' = [f \in Pushable |-> IF f \in differing THEN seen[f] ELSE Absent]
         /\ pc' = "push"
         /\ UNCHANGED <<goal, newConf, misses, outcome, before>>

\* readOK of every file.  The lost ones cannot be read: taken for absent.
CompareWith(lost) ==
  LET seen == [f \in Paths |-> IF f \in lost THEN Absent ELSE disk[f]]
      differing == {f \in Needed : seen[f] # goal[f]}
      confDiffers == seen[Conf] # goal[Conf]
  IN  \/ /\ differing = {} /\ ~confDiffers
         /\ Finish("Unchanged")
      \/ /\ differing # {} \/ confDiffers
         /\ todo' = differing
         /\ pushes' = differing
         /\ saved' = [f \in Pushable |-> IF f \in differing THEN seen[f] ELSE Absent]
         /\ newConf' = confDiffers
         /\ pc' = IF differing = {} THEN "stage" ELSE "push"
         /\ UNCHANGED <<goal, misses, outcome, before>>

Compare ==
  /\ pc = "compare"
  /\ \E lost \in SUBSET (Needed \cup {Conf}) :
       /\ lost # {} => CatLies
       /\ CompareWith(lost)
  /\ UNCHANGED <<host, vm, trusted>>

\* One `tee` per differing file, in push order.
Push ==
  /\ pc = "push"
  /\ \E f \in todo :
       /\ \A g \in todo : Rank[f] <= Rank[g]
       /\ disk' = [disk EXCEPT ![f] = goal[f]]
       /\ todo' = todo \ {f}
       /\ pc' = IF todo \ {f} # {} THEN "push" ELSE IF newConf THEN "stage" ELSE "parse"
  /\ UNCHANGED <<host, candidate, serving, goal, pushes, saved, newConf, misses,
                 outcome, before, trusted>>

\* A new squid.conf is written next to the live one and parsed there.
Stage ==
  /\ pc = "stage"
  /\ candidate' = goal[Conf]
  /\ pc' = "try"
  /\ UNCHANGED <<host, disk, serving, local, outcome, trusted>>

\* Mutant of CandidateParses: the staged squid.conf is installed untried.
CandidateUntried ==
  /\ pc = "try"
  /\ pc' = "install"
  /\ UNCHANGED <<host, vm, local, outcome, trusted>>

CandidateParses ==
  /\ pc = "try"
  /\ Parses(disk, candidate)
  /\ pc' = "install"
  /\ UNCHANGED <<host, vm, local, outcome, trusted>>

\* Any failure of the command counts as squid's refusal.
CandidateRefused ==
  /\ pc = "try"
  /\ ~Parses(disk, candidate) \/ Interrupts
  /\ pc' = "unstage"
  /\ UNCHANGED <<host, vm, local, outcome, trusted>>

\* Mutant of Unstage: the lists pushed along with a refused squid.conf stay.
UnstageOnly ==
  /\ pc = "unstage"
  /\ candidate' = Absent
  /\ Finish("Rejected")
  /\ UNCHANGED <<host, disk, serving, trusted>>

Unstage ==
  /\ pc = "unstage"
  /\ candidate' = Absent
  /\ IF pushes = {} THEN Finish("Rejected")
     ELSE /\ pc' = "rollback"
          /\ todo' = pushes
          /\ UNCHANGED <<goal, pushes, saved, newConf, misses, before, outcome>>
  /\ UNCHANGED <<host, disk, serving, trusted>>

Install ==
  /\ pc = "install"
  /\ disk' = [disk EXCEPT ![Conf] = candidate]
  /\ candidate' = Absent
  /\ pc' = "restart"
  /\ UNCHANGED <<host, serving, local, outcome, trusted>>

\* systemctl restart: a squid that is down comes back, one that cannot load
\* its files goes down and fails the command.
Restart ==
  /\ pc = "restart"
  /\ serving' = Load(disk)
  /\ trusted' = (Load(disk) # Down)
  /\ Finish(IF Load(disk) = Down THEN "failed" ELSE "Applied")
  /\ UNCHANGED <<host, disk, candidate>>

LiveParses ==
  /\ pc = "parse"
  /\ Parses(disk, disk[Conf])
  /\ pc' = "reload"
  /\ UNCHANGED <<host, vm, local, outcome, trusted>>

\* Mutant of LiveRefused: the lists squid refused are not rolled back.
LiveRefusedStays ==
  /\ pc = "parse"
  /\ ~Parses(disk, disk[Conf]) \/ Interrupts
  /\ Finish("Rejected")
  /\ UNCHANGED <<host, vm, trusted>>

LiveRefused ==
  /\ pc = "parse"
  /\ ~Parses(disk, disk[Conf]) \/ Interrupts
  /\ pc' = "rollback"
  /\ todo' = pushes
  /\ UNCHANGED <<host, vm, goal, pushes, saved, newConf, misses, before, outcome, trusted>>

\* squid -k reconfigure signals a running squid; without one it fails.
Reload ==
  /\ pc = "reload"
  /\ IF serving = Down
     THEN serving' = Down /\ trusted' = FALSE /\ Finish("failed")
     ELSE /\ serving' = Load(disk)
          /\ trusted' = (Load(disk) # Down)
          /\ Finish(IF Load(disk) = Down THEN "failed" ELSE "Applied")
  /\ UNCHANGED <<host, disk, candidate>>

\* rollback: each file as it was read before, `rm -f` for one taken for
\* absent.  A write that fails is remembered and the others still happen.
RollBack ==
  /\ pc = "rollback"
  /\ \E f \in todo :
       /\ \A g \in todo : Rank[f] <= Rank[g]
       /\ \E missed \in BOOLEAN :
            LET anyMiss == misses \/ missed
            IN  /\ missed => Interrupts
                /\ disk' = IF missed THEN disk ELSE [disk EXCEPT ![f] = saved[f]]
                /\ IF todo = {f}
                   THEN /\ Finish(IF anyMiss THEN "failed" ELSE "Rejected")
                        /\ trusted' = (trusted /\ ~anyMiss)
                   ELSE /\ todo' = todo \ {f}
                        /\ misses' = anyMiss
                        /\ UNCHANGED <<pc, goal, pushes, saved, newConf, outcome, before, trusted>>
  /\ UNCHANGED <<host, candidate, serving>>

\* An error return, or the end of the process, before the pending step.
Interrupt ==
  /\ Interrupts
  /\ pc # "idle"
  /\ Finish("failed")
  /\ trusted' = FALSE
  /\ UNCHANGED <<host, vm>>

\* The last command took effect and its answer was lost.
AnswerLost ==
  /\ Interrupts
  /\ pc = "restart" \/ (pc = "reload" /\ serving # Down)
  /\ serving' = Load(disk)
  /\ trusted' = FALSE
  /\ Finish("failed")
  /\ UNCHANGED <<host, disk, candidate>>

SyncStep ==
  \/ Compare \/ Push \/ Stage \/ CandidateParses \/ CandidateRefused \/ Unstage
  \/ Install \/ Restart \/ LiveParses \/ LiveRefused \/ Reload \/ RollBack

----------------------------------------------------------------------------
(* The host files change - by other commands or by hand, also while a Sync *)
(* runs - and the proxy VM is restarted or replaced between two of them.   *)

HostChange ==
  /\ edits < MaxEdits
  /\ edits' = edits + 1
  /\ UNCHANGED <<vm, pc, local, outcome, trusted>>

EditTemplate ==
  /\ HostChange
  /\ \E b \in Bodies \ {tmpl} : tmpl' = b
  /\ UNCHANGED <<list, alloc, version>>

EditList ==
  /\ HostChange
  /\ \E v \in Sandboxes : \E b \in (Bodies \cup {Absent}) \ {list[v]} :
       list' = [list EXCEPT ![v] = b]
  /\ UNCHANGED <<tmpl, alloc, version>>

AllocatePort ==
  /\ HostChange
  /\ \E v \in Sandboxes, p \in Ports :
       /\ alloc[v] = NoPort
       /\ \A w \in Sandboxes : alloc[w] # p
       /\ alloc' = [alloc EXCEPT ![v] = p]
  /\ UNCHANGED <<tmpl, list, version>>

ReleasePort ==
  /\ HostChange
  /\ \E v \in Sandboxes :
       /\ alloc[v] # NoPort
       /\ alloc' = [alloc EXCEPT ![v] = NoPort]
  /\ UNCHANGED <<tmpl, list, version>>

\* `ptrbox` itself is upgraded, and its squid.conf template with it.
Upgrade ==
  /\ HostChange
  /\ \E n \in Versions \ {version} : version' = n
  /\ UNCHANGED <<tmpl, list, alloc>>

HostStep == EditTemplate \/ EditList \/ AllocatePort \/ ReleasePort \/ Upgrade

\* StopIfIdle and a later Start: squid boots from the disk.
ProxyReboots ==
  /\ pc = "idle"
  /\ serving' = Load(disk)
  /\ trusted' = (Load(disk) # Down)
  /\ UNCHANGED <<host, disk, candidate, pc, local, outcome>>

\* `limactl delete ptrbox-proxy`, and Ensure creating it again.
ProxyReplaced ==
  /\ pc = "idle"
  /\ edits < MaxEdits
  /\ edits' = edits + 1
  /\ disk' = Fresh
  /\ candidate' = Absent
  /\ serving' = Nothing
  /\ outcome' = "none"
  /\ trusted' = TRUE
  /\ UNCHANGED <<tmpl, list, alloc, version, pc, local>>

Next ==
  \/ Begin \/ SyncStep \/ Interrupt \/ AnswerLost
  \/ HostStep \/ ProxyReboots \/ ProxyReplaced

Spec == Init /\ [][Next]_vars

\* A command that was started is run to its end, and after the last change
\* somebody runs sync-proxy (or start, or install) once more.
Fairness == WF_vars(SyncStep) /\ WF_vars(Begin)
FairSpec == Spec /\ Fairness

----------------------------------------------------------------------------
(* Properties.                                                             *)

\* "Applied: something changed and squid picked it up" holds unconditionally:
\* whatever was cut short before, after Applied squid serves the goal.
AppliedServes == outcome = "Applied" => serving = goal

\* A Sync that reported success is the truth, squid serves exactly what the host
\* files said: Applied always, Unchanged unless some Sync was cut short since
\* squid last loaded.
ReportsHold ==
  /\ AppliedServes
  /\ pc = "idle" /\ trusted /\ outcome = "Unchanged" => serving = goal

\* "Rejected: squid refused it; the VM was restored to its previous state",
\* file for file, so that a later boot of the VM loads what it would have.
RejectedRestores == outcome = "Rejected" => disk = before

\* "Unchanged: the VM already serves exactly this configuration".
UnchangedServes == outcome = "Unchanged" => serving = goal

\* No step of a Sync takes a squid that runs out of service: this proxy is
\* every sandbox's only way out, so nothing is loaded that was not parsed.
KeepsServing == [][pc # "idle" /\ serving # Down => serving' # Down]_vars

\* Without faults, once the host files settle on something squid accepts,
\* that is what it serves from then on.
Converges == <>[](Wanted \in Acceptable => serving = Wanted)

\* Without faults the steps of Sync amount to the contract of EgressPolicy:
\* all of the goal or none of it, and no report that is not true.
Contract == INSTANCE EgressPolicy
              WITH Policies <- Policies, Acceptable <- Acceptable, Nothing <- Nothing,
                   goal <- goal, serving <- serving, outcome <- outcome
ImplementsContract == Contract!Spec
=============================================================================
