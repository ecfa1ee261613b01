------------------------------- MODULE Allow -------------------------------
(***************************************************************************)
(* `ptrbox allow`: internal/cli/allow.go over EnsureVMAllowlist and Sync.  *)
(*                                                                         *)
(* The list of a sandbox is a host file.  The command reads it (seeding it *)
(* from the template when it is absent), appends to it or has $EDITOR      *)
(* change it, and asks Sync to bring it to squid; refused, it is renamed   *)
(* out of the way and what had been read at the start is written back.     *)
(* Nothing is locked: each read and each write is a step, and a second     *)
(* terminal, which may also run `ptrbox sync-proxy`, comes in between.     *)
(*                                                                         *)
(* Sync compares the lists with the files in the proxy VM, writes those    *)
(* that differ one by one, has squid parse them, and then reload or puts   *)
(* them back.  Of it ProxySync has what concerns template, port map and    *)
(* squid.conf, and the order of the writes; here they come in any order.   *)
(* Every sandbox is taken to hold a proxy port.  The refused version kept  *)
(* beside a list is read by nothing and left out.  The question `allow`    *)
(* asks about an unknown name changes nothing when refused and is not      *)
(* modelled; --list only reads.                                            *)
(***************************************************************************)
EXTENDS Naturals

CONSTANTS
  VMs,         \* sandbox names
  Terminals,   \* places `ptrbox` is run from, one command each at a time
  Domains,     \* entries a list may have
  Template,    \* the entries of the template, which every list starts from
  Refused,     \* the lists squid does not accept
  Absent,      \* no such file
  Down,        \* squid does not run: it could not load its files
  NoVM,
  MaxChanges   \* bound on changes begun, by `allow` or by hand

Lists == SUBSET Domains

ASSUME AllowAssumption ==
  /\ Template \subseteq Domains /\ Template \notin Refused
  /\ Refused \subseteq Lists
  /\ Absent \notin Lists /\ Absent \notin Refused
  /\ Down \notin [VMs -> Lists \cup {Absent}]
  /\ NoVM \notin VMs
  /\ MaxChanges \in Nat

VARIABLES
  list,      \* [VMs -> Lists or Absent]: allowed_domains.d/<vm>.txt
  changes,   \* changes begun so far
  up,        \* whether the proxy VM runs
  disk,      \* [VMs -> Lists or Absent]: the lists in the proxy VM's files
  served,    \* the lists squid has loaded, or Down
  pc, target,\* [Terminals -> ...]: next step, sandbox (NoVM for sync-proxy)
  original,  \* [Terminals -> Lists]: the list as EnsureVMAllowlist returned it
  buffer,    \* [Terminals -> Lists]: what is to be added; then the editor's text
  want,      \* [Terminals -> lists of all sandboxes]: what the Sync read
  prev,      \* [Terminals -> ...]: the files as the Sync found them
  todo,      \* [Terminals -> SUBSET VMs]: files it has to write or put back
  told,      \* history: sandboxes whose list was reported in force since it
             \* last changed
  cut,       \* history: sandboxes whose list a process was killed changing
  trusted    \* history: no Sync was cut short since squid last loaded its files

proxy == <<up, disk, served>>
local == <<original, buffer, want, prev, todo>>
vars == <<list, changes, proxy, pc, target, local, told, cut, trusted>>

Steps == {"idle", "ensureAppend", "ensureEdit", "seedAppend", "seedEdit", "append",
          "open", "edit", "readback", "check", "read", "compare", "push", "parse",
          "reload", "rollback", "rename", "restore"}
Syncing == {"read", "compare", "push", "parse", "reload", "rollback"}
Texts == [VMs -> Lists \cup {Absent}]
NoTexts == [v \in VMs |-> Absent]

TypeOK ==
  /\ list \in Texts /\ changes \in 0 .. MaxChanges
  /\ up \in BOOLEAN /\ disk \in Texts /\ served \in Texts \cup {Down}
  /\ pc \in [Terminals -> Steps]
  /\ target \in [Terminals -> VMs \cup {NoVM}]
  /\ original \in [Terminals -> Lists] /\ buffer \in [Terminals -> Lists]
  /\ want \in [Terminals -> Texts] /\ prev \in [Terminals -> Texts]
  /\ todo \in [Terminals -> SUBSET VMs]
  /\ told \subseteq VMs /\ cut \subseteq VMs /\ trusted \in BOOLEAN
  /\ \A t \in Terminals : pc[t] \notin {"idle"} \cup Syncing => target[t] \in VMs

Init ==
  /\ list = NoTexts /\ changes = 0
  /\ up = TRUE /\ disk = NoTexts /\ served = NoTexts
  /\ pc = [t \in Terminals |-> "idle"]
  /\ target = [t \in Terminals |-> NoVM]
  /\ original = [t \in Terminals |-> {}] /\ buffer = [t \in Terminals |-> {}]
  /\ want = [t \in Terminals |-> NoTexts] /\ prev = [t \in Terminals |-> NoTexts]
  /\ todo = [t \in Terminals |-> {}]
  /\ told = {} /\ cut = {} /\ trusted = TRUE

----------------------------------------------------------------------------
(* Helpers.                                                                *)

GoTo(t, step) == pc' = [pc EXCEPT ![t] = step] /\ UNCHANGED target

Leave(t) ==
  /\ pc' = [pc EXCEPT ![t] = "idle"]
  /\ target' = [target EXCEPT ![t] = NoVM]
  /\ original' = [original EXCEPT ![t] = {}]
  /\ buffer' = [buffer EXCEPT ![t] = {}]
  /\ want' = [want EXCEPT ![t] = NoTexts]
  /\ prev' = [prev EXCEPT ![t] = NoTexts]
  /\ todo' = [todo EXCEPT ![t] = {}]

Count == changes < MaxChanges /\ changes' = changes + 1

\* A list file gets new contents: what was said of the old ones is over.
Write(v, text) ==
  /\ list' = [list EXCEPT ![v] = text]
  /\ told' = told \ {v}
  /\ UNCHANGED <<cut, trusted>>

\* What a person may make of a text: the template's entries are left in.
Edited(text) == {text} \cup {text \cup {d} : d \in Domains}
                       \cup {text \ {d} : d \in Domains \ Template}

\* Sync's ensureVMAllowlist, for each sandbox without a list.
Seeded == [v \in VMs |-> IF list[v] = Absent THEN Template ELSE list[v]]

----------------------------------------------------------------------------
(* The command, up to the changed file.                                    *)

\* `allow <vm> <domain>...`: the domains have been checked one by one.
Grant(t, v, domains) ==
  /\ pc[t] = "idle"
  /\ Count
  /\ pc' = [pc EXCEPT ![t] = "ensureAppend"]
  /\ target' = [target EXCEPT ![t] = v]
  /\ buffer' = [buffer EXCEPT ![t] = domains]
  /\ UNCHANGED <<list, proxy, original, want, prev, todo, told, cut, trusted>>

\* `allow <vm>`: $EDITOR.
Edit(t, v) ==
  /\ pc[t] = "idle"
  /\ Count
  /\ pc' = [pc EXCEPT ![t] = "ensureEdit"]
  /\ target' = [target EXCEPT ![t] = v]
  /\ UNCHANGED <<list, proxy, local, told, cut, trusted>>

\* EnsureVMAllowlist: the list there is, or the news that there is none.
EnsureList(t) ==
  /\ pc[t] \in {"ensureAppend", "ensureEdit"}
  /\ IF list[target[t]] = Absent
     THEN /\ GoTo(t, IF pc[t] = "ensureAppend" THEN "seedAppend" ELSE "seedEdit")
          /\ UNCHANGED original
     ELSE /\ original' = [original EXCEPT ![t] = list[target[t]]]
          /\ GoTo(t, IF pc[t] = "ensureAppend" THEN "append" ELSE "open")
  /\ UNCHANGED <<list, changes, proxy, buffer, want, prev, todo, told, cut, trusted>>

\* Mutant of SeedList: the list starts from nothing.
SeedNothing(t) ==
  /\ pc[t] \in {"seedAppend", "seedEdit"}
  /\ Write(target[t], {})
  /\ original' = [original EXCEPT ![t] = {}]
  /\ GoTo(t, IF pc[t] = "seedAppend" THEN "append" ELSE "open")
  /\ UNCHANGED <<changes, proxy, buffer, want, prev, todo>>

\* ... which is answered by writing one, whatever is there by now.
SeedList(t) ==
  /\ pc[t] \in {"seedAppend", "seedEdit"}
  /\ Write(target[t], Template)
  /\ original' = [original EXCEPT ![t] = Template]
  /\ GoTo(t, IF pc[t] = "seedAppend" THEN "append" ELSE "open")
  /\ UNCHANGED <<changes, proxy, buffer, want, prev, todo>>

\* Mutant of AppendDomains: only what was asked for is written.
AppendAlone(t) ==
  /\ pc[t] = "append"
  /\ IF buffer[t] \subseteq original[t]
     THEN Leave(t) /\ UNCHANGED <<list, told, cut, trusted>>
     ELSE /\ Write(target[t], buffer[t])
          /\ GoTo(t, "check")
          /\ UNCHANGED local
  /\ UNCHANGED <<changes, proxy>>

\* appendDomains: with nothing new to add the file is not written.
AppendDomains(t) ==
  /\ pc[t] = "append"
  /\ IF buffer[t] \subseteq original[t]
     THEN Leave(t) /\ UNCHANGED <<list, told, cut, trusted>>
     ELSE /\ Write(target[t], original[t] \cup buffer[t])
          /\ GoTo(t, "check")
          /\ UNCHANGED local
  /\ UNCHANGED <<changes, proxy>>

\* The editor reads the file when it opens; a person who finds none leaves it.
OpenEditor(t) ==
  /\ pc[t] = "open"
  /\ list[target[t]] # Absent
  /\ buffer' = [buffer EXCEPT ![t] = list[target[t]]]
  /\ GoTo(t, "edit")
  /\ UNCHANGED <<list, changes, proxy, original, want, prev, todo, told, cut, trusted>>

\* ... and writes the whole of it when the person saves, if they do.
CloseEditor(t) ==
  /\ pc[t] = "edit"
  /\ \/ \E text \in Edited(buffer[t]) : Write(target[t], text)
     \/ UNCHANGED <<list, told, cut, trusted>>
  /\ GoTo(t, "readback")
  /\ UNCHANGED <<changes, proxy, local>>

ReadBack(t) ==
  /\ pc[t] = "readback"
  /\ list[target[t]] # Absent
  /\ IF list[target[t]] = original[t] THEN Leave(t) ELSE GoTo(t, "check") /\ UNCHANGED local
  /\ UNCHANGED <<list, changes, proxy, told, cut, trusted>>

----------------------------------------------------------------------------
(* The changed file is brought to squid, or taken back.                    *)

\* Without a proxy VM to tell, the change is saved and nothing checks it.
CheckProxy(t) ==
  /\ pc[t] = "check"
  /\ IF up THEN GoTo(t, "read") /\ UNCHANGED local ELSE Leave(t)
  /\ UNCHANGED <<list, changes, proxy, told, cut, trusted>>

\* Also what `ptrbox sync-proxy` does, once it found the proxy running.
SyncProxy(t) ==
  /\ pc[t] = "idle"
  /\ up
  /\ GoTo(t, "read")
  /\ UNCHANGED <<list, changes, proxy, local, told, cut, trusted>>

SyncRead(t) ==
  /\ pc[t] = "read"
  /\ list' = Seeded
  /\ told' = {v \in told : list[v] # Absent}
  /\ want' = [want EXCEPT ![t] = Seeded]
  /\ GoTo(t, "compare")
  /\ UNCHANGED <<changes, proxy, original, buffer, prev, todo, cut, trusted>>

\* The reload is reported, of the list the command is about.
Tell(t) == told' = IF target[t] = NoVM THEN told ELSE told \cup {target[t]}

\* With no file different nothing is loaded, and Unchanged is reported as
\* Applied is.
Compare(t) ==
  /\ pc[t] = "compare"
  /\ up
  /\ IF disk = want[t]
     THEN Tell(t) /\ Leave(t)
     ELSE /\ prev' = [prev EXCEPT ![t] = disk]
          /\ todo' = [todo EXCEPT ![t] = {v \in VMs : disk[v] # want[t][v]}]
          /\ GoTo(t, "push")
          /\ UNCHANGED <<original, buffer, want, told>>
  /\ UNCHANGED <<list, changes, proxy, cut, trusted>>

\* Mutant of Push: the first of the files that differ is taken for the only one.
PushFirst(t) ==
  /\ pc[t] = "push"
  /\ up
  /\ \E v \in todo[t] : disk' = [disk EXCEPT ![v] = want[t][v]]
  /\ todo' = [todo EXCEPT ![t] = {}]
  /\ GoTo(t, "parse")
  /\ UNCHANGED <<list, changes, up, served, original, buffer, want, prev, told, cut, trusted>>

Push(t) ==
  /\ pc[t] = "push"
  /\ up
  /\ \E v \in todo[t] :
       /\ disk' = [disk EXCEPT ![v] = want[t][v]]
       /\ todo' = [todo EXCEPT ![t] = @ \ {v}]
       /\ GoTo(t, IF todo[t] = {v} THEN "parse" ELSE "push")
  /\ UNCHANGED <<list, changes, up, served, original, buffer, want, prev, told, cut, trusted>>

\* What squid holds after it read the files: one bad list, and it is Down.
Loaded == IF \E v \in VMs : disk[v] \in Refused THEN Down ELSE disk

Parsed(t) ==
  /\ pc[t] = "parse"
  /\ up
  /\ Loaded # Down
  /\ GoTo(t, "reload")
  /\ UNCHANGED <<list, changes, proxy, local, told, cut, trusted>>

\* Mutant of ParseRefused: the files squid refused stay.
ParseRefusedStays(t) ==
  /\ pc[t] = "parse"
  /\ up
  /\ IF target[t] = NoVM THEN Leave(t) ELSE GoTo(t, "rename") /\ UNCHANGED local
  /\ UNCHANGED <<list, changes, proxy, told, cut, trusted>>

\* Any sandbox's bad list has the whole refused, and any other failure of the
\* command counts as squid's refusal.
ParseRefused(t) ==
  /\ pc[t] = "parse"
  /\ up
  /\ todo' = [todo EXCEPT ![t] = {v \in VMs : prev[t][v] # want[t][v]}]
  /\ GoTo(t, "rollback")
  /\ UNCHANGED <<list, changes, proxy, original, buffer, want, prev, told, cut, trusted>>

\* `squid -k reconfigure`, which fails without a squid to signal.
Reload(t) ==
  /\ pc[t] = "reload"
  /\ up
  /\ served' = IF served = Down THEN Down ELSE Loaded
  /\ trusted' = (served' # Down)
  /\ IF served' = Down THEN UNCHANGED told ELSE Tell(t)
  /\ Leave(t)
  /\ UNCHANGED <<list, changes, up, disk, cut>>

\* Each file as it was found.  One that fails ends the command with an error,
\* after the others: to end it early leaves as much, as any may come last.
RollBack(t) ==
  /\ pc[t] = "rollback"
  /\ up
  /\ \E v \in todo[t] :
       /\ disk' = [disk EXCEPT ![v] = prev[t][v]]
       /\ IF todo[t] # {v}
          THEN /\ todo' = [todo EXCEPT ![t] = @ \ {v}]
               /\ UNCHANGED <<pc, target, original, buffer, want, prev>>
          ELSE IF target[t] = NoVM
          THEN Leave(t)
          ELSE /\ todo' = [todo EXCEPT ![t] = {}]
               /\ GoTo(t, "rename")
               /\ UNCHANGED <<original, buffer, want, prev>>
  /\ UNCHANGED <<list, changes, up, served, told, cut, trusted>>

SetAside(t) ==
  /\ pc[t] = "rename"
  /\ list[target[t]] # Absent
  /\ Write(target[t], Absent)
  /\ GoTo(t, "restore")
  /\ UNCHANGED <<changes, proxy, local>>

Restore(t) ==
  /\ pc[t] = "restore"
  /\ Write(target[t], original[t])
  /\ Leave(t)
  /\ UNCHANGED <<changes, proxy>>

----------------------------------------------------------------------------
(* What cuts a command short, and the world around it.                     *)

\* The files of a Sync are not all as it found them, or not yet loaded.
Pushing(t) == pc[t] \in {"push", "parse", "reload", "rollback"}

\* An error return, or the end of the process, before the pending step.  Of a
\* refused change only the end of the process comes before the last step.
Abandon(t) ==
  /\ pc[t] # "idle"
  /\ cut' = IF pc[t] \in {"rename", "restore"} THEN cut \cup {target[t]} ELSE cut
  /\ trusted' = (trusted /\ ~Pushing(t))
  /\ Leave(t)
  /\ UNCHANGED <<list, changes, proxy, told>>

\* os.WriteFile truncates before it writes: killed in between, the list is empty.
Truncate(t) ==
  /\ pc[t] \in {"seedAppend", "seedEdit", "append", "restore"}
  /\ list' = [list EXCEPT ![target[t]] = {}]
  /\ told' = told \ {target[t]}
  /\ cut' = cut \cup {target[t]}
  /\ Leave(t)
  /\ UNCHANGED <<changes, proxy, trusted>>

\* The list is edited by hand, or deleted to be seeded anew, between commands.
HandEdit(v) ==
  /\ \A t \in Terminals : pc[t] = "idle"
  /\ list[v] # Absent
  /\ Count
  /\ \E text \in (Edited(list[v]) \cup {Absent}) \ {list[v]} : Write(v, text)
  /\ UNCHANGED <<proxy, pc, target, local>>

\* The proxy VM stops with the last sandbox, or with the host ...
ProxyStops ==
  /\ up
  /\ up' = FALSE
  /\ UNCHANGED <<list, changes, disk, served, pc, target, local, told, cut, trusted>>

\* ... and its squid starts from the files there are.
ProxyBoots ==
  /\ ~up
  /\ up' = TRUE
  /\ served' = Loaded
  /\ trusted' = (Loaded # Down /\ \A t \in Terminals : ~Pushing(t))
  /\ UNCHANGED <<list, changes, disk, pc, target, local, told, cut>>

Next ==
  \/ \E t \in Terminals :
       \/ \E v \in VMs : \/ \E domains \in Lists \ {{}} : Grant(t, v, domains)
                         \/ Edit(t, v)
       \/ SyncProxy(t)
       \/ EnsureList(t) \/ SeedList(t) \/ AppendDomains(t)
       \/ OpenEditor(t) \/ CloseEditor(t) \/ ReadBack(t)
       \/ CheckProxy(t) \/ SyncRead(t) \/ Compare(t) \/ Push(t)
       \/ Parsed(t) \/ ParseRefused(t) \/ Reload(t) \/ RollBack(t)
       \/ SetAside(t) \/ Restore(t)
       \/ Abandon(t) \/ Truncate(t)
  \/ \E v \in VMs : HandEdit(v)
  \/ ProxyStops \/ ProxyBoots

Spec == Init /\ [][Next]_vars

----------------------------------------------------------------------------
(* Properties.                                                             *)

\* While nobody takes the template's entries out by hand, and no process is
\* killed changing it, a list holds them: no seeding, refusal or race leaves
\* "a file holding one hand-added domain and nothing else", which would cut the
\* sandbox off from everything.
ListComplete ==
  \A v \in VMs : v \notin cut /\ list[v] # Absent => Template \subseteq list[v]

\* Appending takes nothing away from the list as it is when it is written.
AppendKeeps ==
  [][\A t \in Terminals :
       pc[t] = "append" /\ pc'[t] = "check" /\ list[target[t]] # Absent =>
         list[target[t]] \subseteq list'[target[t]]]_vars

\* A list whose reload was reported, and that has not changed since, is the list
\* squid applies - unless a Sync was cut short since squid last loaded its files:
\* what that one wrote the next calls Unchanged, and `allow` says "reloaded".
ReportedServed == trusted => \A v \in told : served[v] = list[v]

\* An `allow` that squid refused, and that ran to its end, leaves the list on the
\* host, the file in the proxy VM and what squid applies in agreement, where the
\* proxy VM had the list the command began with: nothing of the refused version
\* is left for a reboot to trip over, and nothing granted before is gone.
RefusalUndone ==
  [][\A t \in Terminals :
       LET v == target[t]
       IN  pc[t] = "restore" /\ pc'[t] = "idle" /\ v \notin cut' /\ prev[t][v] = original[t] =>
             /\ disk'[v] = list'[v]
             /\ trusted' => served'[v] = list'[v]]_vars
=============================================================================
