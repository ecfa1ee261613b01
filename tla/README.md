# A verification project for ptrbox

ptrbox gives each project repository a virtual machine in which a coding agent
runs, and lets that machine reach only the domains on its own allowlist, through
one squid proxy in a VM of its own. This directory holds TLA+ models of the parts
of ptrbox where order, failure and concurrency decide whether that promise is
kept, the configurations TLC checks them with, and theorems about them that
TLAPS has proved for every value of the constants.

The reference is the source: `internal/`, `vm/` and `host/` of this repository.
`PROJECT.json` lists the runs, the theorems, the hazards each is aimed at, and
for every definition the lines of code it models.

## 1. The system

| component | source | state | operations | modelled |
|---|---|---|---|---|
| port allocation | `internal/proxy/ports.go` | `<vm>.proxy-port` sidecars in the generated directory | AllocatePort, ReleasePort, PortAllocations | `Ports` |
| squid synchronisation | `internal/proxy/proxy.go`, `vmaccess.go` | the files under `/etc/squid` in the proxy VM, the candidate config, what squid has loaded | Sync, Ensure, StopIfIdle | `ProxySync`, `EgressPolicy`, `Lifecycle` |
| lifecycle commands | `internal/cli/{new,lifecycle,shell,syncproxy}.go` | generated configs, sidecars, the backend's VMs, the repo's `core.hooksPath` | new, start, shell, stop, rm, sync-proxy | `Lifecycle`, `Ports`, `Plan`, `Exec` (partly: see 7) |
| allowlist command | `internal/cli/allow.go` | one list file per sandbox, its `.rejected` sibling | append, edit, list | `Allow` |
| allowlist groups | `internal/proxy/{vmaccess,reconcile}.go` | the lines of template and list | SeedFor, reconcile | `AllowGroups` |
| lima backend | `internal/lima`, `internal/backend` | limactl's VMs | list, create, start, stop, delete; Output, Stream, Passthrough, Send | the first five as `Ports`, `Lifecycle` and `Guest` use them, the last four in `Exec` |
| multipass backend | `internal/multipass` | scratch files in the guest, mounts | Create, Start, Ready; capture, Send; deadlines | the first three in `Guest`, the rest in `Exec` |
| guest provisioning | `vm/provision/*.sh` | done-markers, the firewall unit, sudo | one script after another, on every boot | `Guest` |
| verification | `vm/verify.sh`, `vm/verify-proxy.sh` | none | a list of probes | verify.sh in `Guest`, its egress condition in `Lifecycle` |
| install and seeding | `internal/cli/{install,seed,mergeconfig,host,hostos}.go` | host config files and their backups, `~/.ssh/config`, the link and the PATH entry | seed, offer an update, merge, back up, verify | `Install`, `Settings` |
| transcripts | `internal/cli/save.go` | archive files | save, and rm's archive | `Exec` |
| narration | `internal/narrate` | half a line, the lines of an invocation | Begin, Write, End, Replay | `Narrate`, used by `Exec` |
| configuration | `internal/config` | none: layers of files | parse, load, overlay, validate | `Settings`, used by `Plan` and `Install` |
| rendering | `internal/render` | the generated file | render, rename into place | its rename in `Ports` |
| LM Studio | `internal/cli/lmstudio.go` | none | asked once per plan | its answers in `Plan` |
| command entry | `cmd/ptrbox`, `internal/cli/cli.go` | the verdict of a command | dispatch, confirm, ask, replay a failure | exit and replay in `Exec`, answers in `Install` |
| timings | `internal/cli/timings.go` | scratch files in the guest, on multipass | one capture at the end of `new`, its failure dropped | the capture in `Exec` |
| output, logs, keychain | `internal/ui`, `internal/cli/{logs,keychain*}.go` | none | print, read | not modelled: no state of their own |

How they meet. Every `ptrbox` command is a host process of its own; there is no
daemon and no lock. Commands meet in files (sidecars, generated configs, lists)
and in VMs (the backend's list of them, the proxy VM's disk, squid's memory), and
each can fail or be killed between any two of the calls it makes. That is the one
source of everything hard here:

- a value is read from a file, a VM or a listing, and used several commands later;
- a configuration exists in three copies - host files, the proxy VM's disk,
  squid's memory - and each command moves some of it one copy further;
- a listing that fails is an empty listing, which reads as "no such VM";
- `os.WriteFile` truncates before it writes;
- a sandbox is addressed by its name, and the name can come to mean another VM;
- a client that is killed at its deadline leaves the guest's side of a command going;
- a person edits the files a command reads, between two of its readings.

What makes each component correct, in a sentence:

- *ports*: the port in a guest's firewall is that guest's alone, and on record;
- *Sync*: what it reports is what squid does, all of the files or none of them,
  and squid never stops serving because of it;
- *lifecycle*: a running sandbox has a running proxy that applies its list and
  nobody else's; credentials go only into the VM that was verified;
- *allow*: no list loses what a person or the template put in it, a reload that was
  reported happened, and a refused edit leaves host, proxy and squid as they were;
- *guest*: a done-marker is true, no later boot is weaker than the one that was
  verified, and a sandbox with the token has its wall, its packages and no root;
- *groups*: a list follows the config on every create, and a person's lines survive;
- *install*: nothing a person typed before a file was read is lost, no setting changes by
  an update, and "host setup complete" is said of a host that is so;
- *plan*: the VM is the one last shown, its list and its hooks follow its settings;
- *exec*: an output, an archive or a token is taken for whole only when it is, and
  what stays in a guest belongs to a command that said it failed, or to the timings.

Several of these sentences are not true of the code as it stands: section 4 says where
it falls short, and which assumption or exception the property names for it.

## 2. The modules

| module | what it models | its actors |
|---|---|---|
| `Ports` | a port's three places: sidecar, generated config, guest firewall | terminals running `new` and `rm`, crashes, `limactl delete` |
| `ProxySync` | Sync one backend command at a time | one Sync, editors of the host files, reboots and replacements of the proxy VM |
| `EgressPolicy` | what Sync promises: apply all of a goal, confirm it, or refuse it whole | the abstract specification `ProxySync` implements |
| `Lifecycle` | the commands around the shared proxy | terminals, guests that provision themselves, host reboots |
| `Allow` | `ptrbox allow` against the list files, the proxy VM's files and squid | terminals, a person with an editor, the proxy coming and going |
| `AllowGroups` | SeedFor and reconcile on the lines of a file | creates with any set of features, a person editing list and template |
| `Guest` | the provision scripts of one guest over its boots, and the calls of `new` and `start` that wait for them, on both backends | the guest's boot, the command in hand, the host going down |
| `Settings` | what the settings files, layered and checked, come to; how an update carries them over | none: operators |
| `Install` | `ptrbox install`, run again and again over what earlier runs left | one run, and at any step of it a person editing, other commands that stop, start and sync the proxy, another process at its port |
| `Plan` | `new` from its arguments to the VM, with `start`, `stop` and `rm` of it: settings, plan, editors, hooks, sidecar, list | one command, a person editing beside it, the agent in the repo |
| `Narrate` | a client's output on its way to the user | none: operators on a narrator |
| `Exec` | one client call at a time between host and guest: boot, verification, token, timings, archive, delete | one command, the guest's sides of its calls, the agent, the VM's power |
| `MC*` | constants for TLC | |
| `*_proofs` | theorems about the module they extend | |

`EgressPolicy` is instantiated in `ProxySync` (`Contract`) with the variables of
the same names, and `ImplementsContract` says that Sync refines it. `Plan` and
`Install` extend `Settings`, `Exec` extends `Narrate`: the settings a command goes by
and the lines a person sees are computed in them, not assumed. `MCSettings` holds one
instance of the settings for both runs.

### How state and actions correspond to the code

**Ports.** `sidecar`, `config` and `guest` are the file `<vm>.proxy-port`, the
port rendered into `<vm>.yaml`, and the port in the ruleset of an existing guest.
`NewBegin`, `KeepHeld`/`PickLowest`, `WriteSidecar`, `RenderConfig` and `CreateVM`
are the calls of `new` that touch a port; `RmExisting` and `RmArtifacts` are the
two ways into `rm`, `DeleteVM`, `RemoveConfig` and `ReleasePort` what it removes in
order. `Abandon` ends an invocation anywhere; `AbandonWrite` leaves a sidecar with
no number in it, over which `PortAllocations` then refuses everything (`Readable`).
With `ListingFails`, `SaysMissing` may hold of a VM that exists: `Client.List`
answers nothing when limactl fails.

**ProxySync.** `tmpl`, `list`, `alloc` and `version` are the host's files;
`disk`, `candidate` and `serving` the proxy VM's. `Begin` is everything Sync reads
on the host, `Compare` its `cat` of every file, then `Push` (one `tee` each, in
push order), `Stage`, `CandidateParses`/`CandidateRefused`, `Unstage`, `Install`,
`Restart` for a new squid.conf and `LiveParses`/`LiveRefused`, `Reload` for lists
alone; `RollBack` undoes one push at a time. `Interrupt` is an error return or the
end of the process before the pending step, `AnswerLost` a command that took effect
and failed. Squid is external: `Parses` is what a configuration that reaches a
list file needs, `Load` what squid does with the files at a start or a reconfigure.
Two history variables carry no behaviour: `before` (the disk when the Sync began)
and `trusted` (no Sync was cut short since squid last loaded).

**Lifecycle.** A VM is a record: status, the port its firewall was created with,
whether that firewall is installed (`wall`), whether this boot runs without it
(`open`), and the two facts `new` adds, `verified` and `token`. An allocation is one
step here (`Prepare`; `Ports` looks inside it), a Sync three (`SyncRead`,
`SyncPush`, `SyncLoad`; `ProxySync` looks inside). `Ensure`, `IdleList`,
`IdleCount` and `IdleStop` are Ensure and StopIfIdle, the latter with its listing
kept apart from its stop. `Provisioned` is the guest's own doing: it goes on when
the `new` that waits for it dies. `Create` boots with an open network, and only a
later boot of a guest with `wall` closes it, as `20-firewall.sh` enables its unit
without starting it.

**Allow.** A list is a set of domains, or `Absent`; `Refused` names the lists squid
does not parse. `EnsureList`/`SeedList` are EnsureVMAllowlist, read and write apart;
`AppendDomains`, `OpenEditor`/`CloseEditor`/`ReadBack` the two ways to change the
file; `CheckProxy` to `Restore` the rest of `cmdAllow`. Its Sync is `SyncRead`, `Compare` (no
file differs: Unchanged, and nothing is loaded), `Push` one file at a time, `Parsed` or
`ParseRefused`, `Reload`, and `RollBack` one file at a time; `disk` is what the proxy
VM's files hold, `served` what squid loaded, and `Abandon` cuts the command short before
any of these. The writes come in any order here, and template, port map and squid.conf
are `ProxySync`'s; the `.rejected` sibling is read by nothing and left out. `told`, `cut`
and `trusted` are history: the sandboxes whose list was reported as reloaded and has not
changed since, those whose list a process was killed changing, and that no Sync was cut
short since squid last loaded. People keep the template's entries (`Edited`): the property
about them asks what ptrbox does to a list, not what a person may.

**AllowGroups.** A line is a marker, a note, an entry, an end or other text.
`SeedFor` and `Reconcile` go through the lines and the groups by a recursive function
each, `Seeding` and `ReconcileGroup` being one turn. `Create` is what
`new` does to the list, with `features` the config; the other actions are a person's.
`touched` and `earlier` are history.

**Guest.** `at` and `step` say which script a boot is at and how far into it; `marker`
is the done-markers, `work` what each script has put in place, and `rules`, `enabled`,
`pinned` the three things 20-firewall leaves. `wall`, `root` and `bad` belong to the
boot. Each script is entered past its guard (`EnterScript`), does its work
(`InstallBase`, `WriteRules`, `PinResolver`, ...), fails (`ScriptFails`) or touches its
marker (`Touch`); the firewall's are separate steps, as a cut between them shows later.
`New` to `InjectToken` are `new`; `Start`, `StartVM`, `StartReturns`, `Probe`,
`Restart`, `RestartReturns` are startSandbox with either backend's Start and Ready.
`Verify` asks verify.sh's sections of the state; what a config may add to them (LM
Studio, Playwright) is left out. `equipped` is whether the image has git, curl and nft
before 10-base; either is explored. A mount that launch skipped is taken to be on the
daemon's record, as requireMount's message says. One command at a time works on the
guest, and the proxy runs: `Lifecycle` has the several and the proxy.

**Settings.** A file is a sequence of lines of four kinds: an assignment, a commented
default (`Hint`, the place an update looks for), other prose, and `Garbage`, which does
not parse. A value is a word, or a name that stands for `$NAME`. `Given` is parseFile,
`Layers` to `Resolved` config.load up to the Config, `Valid` its checks, `Load` also the
refusal of a host's key in a per-VM file. `MergeSettings` is mergeSettings: the last
line of each name at its place, what has no place commented at the end. What charset a
value has to have is the constant `WellFormed`; which words read as true or as numbers
are constants too.

**Install.** A path is a file and the seconds of the backups it descends from
(`BackupOf`), as `vms/` lists backups beside the files and reviewVMConfigs reads them
too. `Begin` is preflight, `SeedFile`, `KeepFile`, `Offer`, `Decline`, `BackUp` and
`Replace` the branches of seedFile and offerUpdate, in the order `Before` gives. `Offer`
reads the file into `read`, before the question, and the backup and what replaces the
file are made of that, however long the answer takes. Then come `SSHInclude`,
`EnsureProxy`, `Push` and `Reload` (Ensure and its Sync: `pushed` is what the proxy's
files hold of the template, `served` what squid loaded, and equal files skip the
reload), `VerifyEgress`, `Link`, `PathEntry`, `Report`. `Write` may leave an empty
file, as `os.WriteFile` truncates first; of a longer stump the model has the worst
case. `Die` ends a run anywhere.

Others act at any step of a run: `Edit` is a person saving a file, `ProxyStops`,
`ProxyStarts` and `OtherSync` other commands, `PortTurns` another process that takes or
leaves the port. A Sync of another command is one step, which may have been killed
between its push and its reload; a template that squid refuses is left out here
(`ProxySync` has those). `typed`, `torn` and `met` are history: what a person wrote last,
and whether into a file a run had already read; a Sync cut before its reload, with squid
not told since; and what others did during this run, or before it to the port.

**Plan.** `New` to `Create` are cmdNew up to the VM, `PrintPlan` twice (`FirstPlan`,
`SecondPlan`) with the settings loaded before each, and `ReconcileAllowlist`, `EditList`
and `Create` reading the files once more, as the code does. `EditFiles` is a person
beside the command, `EditConfig` and `EditList` the editors it opens. `config`,
`sidecar` and `vm` hold what was rendered, the repo on record, and what the VM was built
with. `hooks` is "null" where core.hooksPath points at nothing. `Start` to
`StartVM` are startSandbox's part in it, `Delete` and `RemoveArtifacts` rm's; a sidecar
may be cut short, and `MountedRepo` falls back to the config's mount where there is one.
With `ListingFails`, `SaysMissing` may hold of a VM that exists, as in `Ports`: `PrepareRepo`
then lets a second `new` of the name overwrite config and sidecar, up to the create, which
the backend refuses, and `Delete` leaves the VM while `RemoveArtifacts` takes both.
`list` keeps a group's presence only; `AllowGroups` has its lines. `shown` and `moved`
are history.

**Narrate.** Output is a sequence of glyphs, one of them the newline. `Write` cuts it,
`Emit` keeps each line for a replay (`RawLimit` of them) and shows it; `shown` is the
lines the user has seen. In which wording, style and time a line is shown is left out:
every branch of render and translate prints its line once.

**Exec.** `cmd` is the ptrbox command, `job` its task in hand, `pc` its next call.
On multipass a task is `Mkdir`, `Stage` (a payload only), `Exec`, `Fetch`, `Explain`,
`Clean`: each succeeds or fails (`Answers`, `Refuses`), and `Severed` is a client that
is killed or loses the guest during the exec. On lima (`direct`) it is `Exec` alone and
what the guest prints arrives while it runs (`Receive`). The guest's side is in `procs`
and moves by itself (`Opens`, `Feeds`, `Outputs`, `Ends`), whoever still waits: a command
can end after the next one has begun. `OpenArchive` is the exclusive create,
`ReturnArchive` the switch at the end of archiveTranscripts, `Fits` capWriter. The session
is a number that grows; an archive of it holds that number as many times, so that half
of one and an older one can be told from a whole one. The last task of a `new` is
`timings`, with or without a token: readTimings' capture, after which `ReturnTimings`
ends the command well whatever the capture did. A boot and a delete are calls of the
client alone, narrated glyph by glyph as it prints (`ClientPrints`), that end well or
not; after a boot on multipass `Settle` is waitCloudInit, which ends the command or
writes cloud-init's warnings between the boot's invocation and the verification's. A
delete that fails may have destroyed the VM or not (`DeleteFails`). `seen`, `by`, `failed`, `dead`,
`said` and `last` are history.

## 3. Hazards

`PROJECT.json` lists them by source line. In short: races of two commands over a
port, a list or the proxy; a crash between the steps of `new`, `rm`, Sync and
`allow`; a listing, a `cat` or a write that fails; long histories of creates and
hand edits that leave a list in a shape nobody tested; boots cut short and scripts
that fail, whose leftovers the next boot trusts; files rewritten in place by an install
that dies and runs again; settings read four times, and a file read before the question about
it, while somebody edits them; and guest
commands whose client has gone. A hazard with a note and no property is one the code is
exposed to and does not prevent; the note says which property was narrowed for it.

## 4. The runs

Passing runs:

| run | question | bounds |
|---|---|---|
| `ports_serial` | one terminal, crashes anywhere: are records and identities distinct, do records agree with guests, is a slot kept? | 3 sandboxes, 2 ports, so that the range runs out |
| `sync_faults` | a command fails or the process dies at any step: do reports hold, does Applied mean served, does a rejection restore, does squid keep serving? | 2 sandboxes, 1 port, a blank, a good and a refused list, two squid.conf versions and a refused one, 3 changes |
| `sync_contract` | without faults: does Sync implement `EgressPolicy`, and do the files end up served? | the same, 4 changes |
| `life_serial` | any sequence of commands of one person, failures and host reboots included: egress, own list, departed sandboxes unserved, a verified VM behind its wall, token only after verification, proxy not stopped under a sandbox? | 2 sandboxes, 2 ports |
| `guest` | every history of one guest: are markers true, does the wall stand on every boot after 20-firewall, has a guest with the token its packages, its wall and no root, is the repo there when multipass says so? | none: the model is finite, and this run exhausts it |
| `allow_serial` | one person, two sandboxes, a proxy that stops and boots: complete lists, true reports, nothing lost by an append, refusals undone in all three places, whatever is killed? | 2 sandboxes, 3 domains of which two together are refused, 3 changes |
| `groups` | every short history of creates, edits and template changes: does a list agree with its seed, lose what is turned off, settle, and keep a person's lines? | 2 features, 3 templates (one invalid), 2 edits, files of at most 12 lines |
| `install` | two installs, each killed anywhere or carried through, with others at work meanwhile: is what was typed still somewhere, do the settings mean the same after an update, is "complete" so? | 2 hosts (all of them, none of them forwarding, linking, known), 2 sets of flags, a fresh and an older host, an example with a place for each of the 15 keys, 4 kinds of edit, 1 of them made, 2 acts of others on proxy and port |
| `plan` | new, start, stop and rm in any order, with files, editors and model server changing between: is the VM as shown, is its list its own, are its hooks off at every start, is its repo known? | 2 repos of one name, 3 answers of the model server, 3 kinds of edit, 2 of them made |
| `exec` | a boot, a verification, a token, the timings and two archives on lima and on multipass: is what is taken for whole whole, is what is left behind accounted for, is every line shown once, is a session safe from rm, does every command return? | 3 commands, a session of 2, an archive cap of 1, 2 seconds, a replay of 1 line |

Violation runs. Each checks one statement that a comment, a message, a test or the
README makes, and TLC finds the behaviour that contradicts it; `PROJECT.json` quotes
the statement.

| run | what happens |
|---|---|
| `guest_wall` | `new` dies in the first boot, the boot ends, and `start` hands over the guest: its network is open |
| `plan_hooks` | the hooks are set by the settings loaded first; the editor of the plan turns `PTRBOX_HOST_HOOKS` off, the plan is printed again, and nothing sets the hooks again |

More of the kind, found by turning on one fault at a time and each excluded by a named
assumption of the theorems:

- `ListingFails`: `rm` takes a failed listing for "no such VM" and removes the config
  and sidecar of a VM that exists (`RecordAgrees`); StopIfIdle, which counts configs,
  then stops the proxy under it (`NeverUnderSandbox`). A second `new` of the name writes
  another repo's sidecar over that of the VM there is (`MountKnown`), and `start` then
  points the hooks of the wrong repo away, or of none (`StartsHooksOff`).
- `CatLies`: a `cat` fails for a file that is there, squid refuses, and the rollback
  removes the file (`RejectedRestores`).
- `SyncDies`: the Sync of an `rm` dies before the reload, the port is given out again,
  and squid applies the old list there (`OwnListOnly`).
- two terminals: a VM is removed and created again between verification and token
  (`TokenVerified`); two `allow` for one sandbox lose one's domains (`AppendKeeps`); a
  `sync-proxy` that read a list earlier pushes it after `allow` reported the reload
  (`ReportedServed`); two `new` read the sidecars before either writes and take one port
  (`DistinctIdentity`); StopIfIdle has listed, another terminal starts a sandbox, and the
  proxy is stopped (`NeverUnderSandbox`).
- a Sync dies between its last write and the reload; the next finds the files equal and
  says Unchanged, though squid never loaded them (`ReportsHold` counts from squid's last
  load). One person alone meets it: `allow` killed there, the list put back by hand and
  the same `allow` again says "reloaded" (`ReportedServed` has `trusted`), and an
  `install` after it says "host setup complete" (`CompleteIsSo` has `torn`).
- sandbox B's list is bad; a good `allow` for A is "rejected" and A's edit set aside.
- `cut`: killed between the rename to `.rejected` and the write, there is no list, and
  killed inside a write, an empty one (`RefusalUndone`, `ListComplete`). The model has
  both; the properties speak of the lists this did not happen to.
- a template whose group holds only comments has them appended by every create
  (`Idempotent`), and of two groups under one marker only the first follows the config
  (`SeedAgrees`): `Templates` leaves both out.
- a line of a person's in a left-out group keeps the group from being restored
  (`OnRestores`), although the template's header says that a re-create restores it.
- 30-toolchain pipes downloads into bash without pipefail: one that fails leaves the
  done-marker without the tool, so `MarkerMeansWhole` leaves that marker out. verify.sh
  finds the tool missing, and no token goes in.
- `SameSecond`: two updates in one second share a backup's name, and the second writes
  over the first (`Recoverable`).
- an update moves a line to its key's place and comments out names that are no keys; a
  line whose value goes through another line may then mean something else
  (`SettingsKept` speaks of files without such lines). A second update drops those
  comments, which then are in the backup only.
- reviewVMConfigs reads `vms/<vm>.bak-...` as files of VMs, so each `--update` updates the
  backups and backs them up; and with `-y` on a terminal an update is confirmed, though
  install.go:38 says that it is deliberately not implied.
- install looks at the proxy's port first of all, and only while the proxy is down: a proxy
  started over a foreign listener passes, and so does a listener that takes the port minutes
  later, and install is complete. It is also complete over a proxy that another terminal
  stopped, or a template edited behind its push (`CompleteIsSo` names each in `met`).
- install reads a file, offers to update it, and writes backup and update of what it read:
  a line saved to the file while the question stands is in neither (`Recoverable` leaves
  out what is `late`).
- readTimings drops its error: on multipass a `new` that ended well can leave the scratch
  files of its last capture in the guest (`LeftByFailed` names them).
- `~/.ssh/config` is written in place without a copy: killed there, the hosts in it are gone.
- Send's payload stays in the guest when its exec never ran, though its comment says it is
  gone before Send returns; `LeftByFailed` says that the command then reported a failure.
- what the agent writes between the tar and the delete of an `rm` is lost, a killed `save`
  leaves a part of an archive under an archive's name, and the token of a cut-off lima
  command may be in the profile in part, where the next injection takes it for there.
- printPlan says of a repo's hooks "kept, but not run" with `PTRBOX_HOST_HOOKS` on too.
- a guest cut off between `chattr +i` and the marker of 20-firewall fails at `rm` on
  every later boot; on multipass no `start` of it succeeds again.

Why the bounds are enough. The hazards need two sandboxes (one port, two owners;
one bad list, another's edit), two terminals (a read and a write of another in
between), fewer ports than sandboxes (a full range) and two changes (one that leaves
something behind, one that meets it). Every action of every module fires within
them. The theorems of section 5 remove the bounds for the properties they name.

Fairness. Two runs check liveness. `sync_contract`, under its `FairSpec`: weak fairness of
the steps of a Sync (a command that was started runs to its end; it is a host process
nobody suspends) and of `Begin` (somebody runs another command that syncs; `start`,
`new`, `install` and `sync-proxy` all do). The host's files change finitely often
(`MaxEdits`), which is what "once they settle" means. `exec`, under its own: weak fairness
of the steps ptrbox takes by itself on multipass, and of `Expires`, a call that is pending
and fails - which is what timeout.go's deadlines bring about, one for every call that is
not interactive. Nothing is assumed of the guest, the agent or the daemon, so `Returns`
holds with a daemon that never answers; of lima's client, which has no deadline, it says
nothing. No other run assumes fairness.

`install` and `exec` do not check for deadlock: a person may stop giving commands, and the
bounds end them.

Every property has a mutant: a changed form of one definition that a plausible bug
would amount to (a port counted as free while its VM is down, a rollback left out, a
candidate not tried), kept next to the definition it changes. With it TLC finds the
property violated.

## 5. What is proved

All theorems are in the `_proofs` modules. Assumptions are the named `ASSUME`s of
the models and, where a theorem says so, `OneTerminal` (commands are not run at the
same time), `~ListingFails`, `~CatLies`, `~Interrupts`, `~SyncDies` or `~SameSecond`. The
list at the end of section 4 shows that they are needed: each property breaks without one.

- **Ports.** `TypeOK` is inductive as it stands. `RecordInv` adds that the port a
  terminal is about to write is in no sidecar - true of one terminal, and what makes
  `DistinctRecords` and `KeepsSlot` inductive. `IdentityInv` adds that a guest's
  port, the sidecar's and the config's agree except between the steps of the `rm`
  that takes them apart.
- **ProxySync.** `ServeInv` says what the disk holds at each step (everything pushed
  but `todo` is the goal, a tried candidate still parses), from which Applied means
  served and no step takes squid down, faults included. `RestoreInv` says that a
  file pushed or not yet rolled back has its old contents in `saved`, so a complete
  rollback gives `before` back. `ContractStep` maps each step to one of
  `EgressPolicy` or to a stutter.
- **Lifecycle.** `ControlInv` ties command, step and target together. `ClampInv`
  says that a VM past the second boot of `new` has its wall and is not open; it needs
  no assumption, since only a VM record's own steps change it. The egress properties
  rest on one invariant of five parts: slots are distinct and agree with the VMs'
  ports, a running VM's port is served for it, what a Sync read is what the slots
  still say, disk and served agree outside a Sync, and while StopIfIdle is under way
  no sandbox it did not see runs.
- **Allow.** `CompleteStep` carries completeness through every buffer a list is
  written from, except for lists in `cut`. `ToldInv` has four parts, true of one terminal:
  what was read is still so (`ReadHolds`), what the proxy's files hold at each step of a
  Sync and its rollback (`DiskHolds`), what squid has loaded unless a Sync was cut short
  (`SquidHolds`), and that a list once reported is in its file and would be put back
  (`ToldHolds`). `ReportedServed` follows from the last two, `RefusalUndone` from
  `DiskHolds` and `SquidHolds` at the end of a rollback.
- **AllowGroups.** `Replace` and `AppendGroup` move the lines of every other group without
  changing what is in it (`SameElsewhere`), so what one turn of reconcile does to its own
  group holds to the end. `Reconciles` says what a turn does: from it `OffMeansGone`, for
  any templates and any hand edits. `Settles` is the condition under which a turn changes
  nothing; every turn establishes it, and no later one breaks it where the template is
  `Tidy` - each label once, no group without an entry, no entry in two groups - so a second
  create changes nothing (`Idempotent`). For `SeedAgrees` the invariant `Untouched` says
  that a list nobody touched has the template's shape: the same markers, the same entries
  outside the groups, and below each marker the template's entries or none. SeedFor
  produces it (`SeedInv`, line by line) and each turn takes one group from the old features
  to the new. It needs `Once`, that no template SeedFor takes has a label twice. The
  template the repository ships is tidy, and so are those of the run; the theorems'
  hypotheses leave out just the templates section 4 lists, and one whose absent, wanted
  group shares an entry with an unwanted one: emptying that takes the entry, and the
  second create then appends it.
  `PersonsKept` needs no hypothesis on the templates and none on the file, whatever a
  person made of its markers. A turn leaves the other groups' lines together, where they
  were or all the same distance further (`Opened`, `Lengthened`), and no two groups share
  a line (`PlacedApart`); so an entry outside the turn's group is a person's after it when
  it was before, and inside it those are that are not the template's there
  (`OpenedPersons`). Each branch of reconcile leaves the same of these in the same order:
  restoring finds none and adds none, emptying takes out only the template's
  (`WithoutTwice`), and a group put at the end holds nothing else.
- **Guest.** `GuestInv` ties markers, work and the boot together: a script's marker
  is set only when its work was whole, the boot's scripts before `at` have run, a wall
  is loaded at power-on from rules that were whole, and the token is preceded by a
  verification of this very guest. All five properties of the run follow from it on
  either backend.
- **Plan.** `Between` says of each step of `new` that what it goes by (`cfg`, `models`)
  is what was shown and what its config was rendered from, and that settings and list
  follow the files; it needs no assumption, and `BuiltIsShown` and `ListFollowsBuilt`
  follow from it. `Known` says that a command that builds or deletes has no VM of its
  name, that the record is of the VM there is (or, behind `RecordRepo`, of the one to
  come), and that `start` has just asserted the hooks; it needs `~ListingFails`, and
  `MountKnown` and `StartsHooksOff` follow from it.
- **Install.** `KeptInv` says that while an update is offered a typed line is in another
  file than the one in hand or in what was read of it (`Elsewhere`, `InRead`), that once
  the backup is made it is elsewhere, and that no backup is there yet under a name to
  come; it needs `~SameSecond`. `SetupInv` has three parts: proxy, port and squid
  (`ProxyInv`), what the run's own steps have established of them (`RunInv`), link and
  PATH (`PathInv`); `OthersStep` shows that what others do takes nothing of it back that
  `met` and `torn` do not record. `SettingsKept` is about what a merge computes
  (`MergeKeepsSettings`): by induction over the lines, a file no line of which goes
  through another makes of each name what its last line says; the merged file is such a
  file, assigns no other name, and has that line at the name's place in the example.
  That there is a place for every key is `IsExample`, which two tests of the repository
  establish of the shipped file (overlay_test.go:314, 330).
- **Exec.** `CleanInv` says that a scratch file is of the command in hand, of one that
  failed or of one that died, and that on the way to a success the files of the calls
  done are gone - including those a guest command opens after its client has given up.
  `OwnTimings` adds that when the timings are read nothing else of that command is left.
  `TokenInv` ties command, job and step together and says that past a delivery no step
  of which broke the guest has the whole token; `StoreInv` says that while no call of an
  archiving failed, what has arrived and what is still to come are together a session no
  shorter than the one there was when the command began (`Carries`), down to the file it
  is kept in, and that an archive changes hands only whole; from them follow
  `OkMeansWhole` and `SessionKept`. `ShownInv` adds to `TokenInv` what narrator and
  output have to do with each other: the lines shown are those of what was told, but for
  the half line it waits with, and the raw tail is the last of them. Each `Write` is
  brought through it glyph by glyph (`GlyphTold`, `WriteTold`), by the lemmas about
  `Lines` that say what one more glyph, one more line and a cut at a newline do.

`TypeOK` is proved for every module with a proof module, in place of a check by a run.

Where a definition goes through a sequence by a recursive function (`Taken` in Narrate,
`Scanned` in Settings, `SeededUpTo`, `ReconciledUpTo` and `TakenUpTo` in AllowGroups),
what it computes is proved by induction over the natural numbers, which the theorem about the least element of a well-founded set gives (`Counting`); the
library's own induction theorems take an operator as a parameter, which these provers
cannot instantiate.

Only model-checked: `Converges` and `Returns` (liveness under fairness is out of the
prover's reach), and the violations, which are single behaviours.

## 6. Files

The theorems about `AllowGroups` are in `Allow_proofs`, below those about `Allow`.
`X.tla` is a model, `MCX.tla` its constants for TLC (`Guest` has none, `Narrate` those of `Exec`), `X_proofs.tla` its theorems,
`*.cfg` one run each. `tlc -config life_serial.cfg MCLifecycle` runs one;
`tlapm Lifecycle_proofs.tla` proves one module.

## 7. Not modelled, and the plan

Left out for good: squid's and nftables' own behaviour beyond what the code asks of
them, the formatting of messages, command-line parsing, the keychain, `logs` and the
printing of the timings, LM Studio's two formats. `verify-proxy.sh` and Preflight only read.
Names of VMs and files, colours, paths per platform, the version string and the
substitution of placeholders are pure functions with no state and no order to get wrong;
unit tests reach all of them.

Of `new`, `git init` of a fresh repo, the link of its ssh config and the closing summary
are left out. In `Exec` a boot ends with cloud-init: the one restart of Ready is in
`Guest`, and what an `rm` does after its delete is in `Ports` and `Lifecycle`.

Planned, in this order:

1. `Guest` refining `Lifecycle`'s view of a guest: its scripts as the one step
   `Provisioned`.
2. A contract for `Exec` (a guest command answers whole or fails) that `Lifecycle`,
   `ProxySync` and `Guest` take their calls from, with the refinement proved.
3. `render`: that no value can end a placeholder's line, over bounded inputs.
