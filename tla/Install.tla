------------------------------ MODULE Install ------------------------------
(***************************************************************************)
(* `ptrbox install` on one host, run again and again (internal/cli:        *)
(* install.go, seed.go): the files it seeds and offers to bring up to      *)
(* date, the ssh include, the egress proxy it verifies, the PATH entry.    *)
(*                                                                         *)
(* At any time a person edits the files, other commands stop, start and    *)
(* sync the proxy, and some other process takes or leaves the proxy's      *)
(* port.  A run may fail or die at any step, a file half written, the      *)
(* proxy's files new and squid not told.                                   *)
(*                                                                         *)
(* A path is a file with the seconds of the backups it descends from: the  *)
(* file itself has none.  The directory of per-VM files also holds their   *)
(* backups.                                                                *)
(***************************************************************************)
EXTENDS Settings

CONSTANTS
  Example,       \* the lines of the shipped settings file
  Hosts,         \* the hosts, as host below
  Invocations,   \* the flags a run is given, as flags below
  Found,         \* what there may be of the seeded files beforehand
  Edits,         \* the lines a person adds to a settings file
  SameSecond,    \* two runs may fall in one second
  MaxRuns, MaxEdits, MaxActs  \* bounds: runs, edits, acts of others on the proxy

\* Lines, whatever they say.
IsFile(f) == f \in Seq({f[i] : i \in DOMAIN f})

\* A path: the file, and the seconds of the backups since.
Path(file, from) == [file |-> file, from |-> from]
Paths(now) == [file : {"main", "readme", "vm", "template"}, from : Seq(1 .. now)]

\* What the shipped file says of itself: nothing is set in it, and every
\* setting is there, commented out.
IsExample(example) ==
  /\ \A i \in DOMAIN example : example[i].kind \in {"hint", "prose"}
  /\ \A k \in Keys : \E i \in DOMAIN example : example[i].kind = "hint" /\ example[i].name = k

ASSUME InstallAssumption ==
  /\ Hosts \subseteq [forwards : BOOLEAN, links : BOOLEAN, startup : BOOLEAN]
  /\ Invocations \subseteq [update : BOOLEAN, yes : BOOLEAN, ask : BOOLEAN]
  /\ IsFile(Example) /\ IsExample(Example)
  /\ \A d \in Found : DOMAIN d \subseteq Paths(0) /\ \A p \in DOMAIN d : IsFile(d[p])
  /\ MaxRuns \in Nat /\ MaxEdits \in Nat /\ MaxActs \in Nat /\ SameSecond \in BOOLEAN

VARIABLES
  host,       \* [forwards, links, startup]: the backend forwards a port and
              \* writes ssh configs; a link can be made; the shell is known
  disk,       \* the files there are, and their lines
  typed,      \* what a person wrote last, per file and name; late, in the file
              \* a run had already read to replace it
  ssh,        \* [include, hosts]: what ~/.ssh/config holds
  proxy,      \* the proxy VM: "down", "up"
  port,       \* who listens on its port of the host: "none", "ours", "foreign"
  pushed,     \* the template in the proxy's files, its config last
  served,     \* the template its squid last loaded
  torn,       \* a Sync was cut between the two, and squid not told since
  met,        \* what this run met: at its start a proxy "over" a taken port; of
              \* others since, "stop", "port", and "edit" of a template pushed
  link, rc,   \* BIN_DIR/ptrbox: "none", "other", "this"; shells search it
  flags,      \* [update, yes, ask]: this run's flags, and a terminal to ask on
  pc, todo,   \* what this run does next, and the seeded files it has yet to do
  read,       \* [of, lines]: the file it offers to replace, as it read it
  clock, runs, edits, acts

files == <<disk, typed>>
net == <<proxy, port, pushed, served, torn>>
path == <<link, rc>>
control == <<flags, pc, todo, read, met, clock, runs>>
bounds == <<edits, acts>>
vars == <<host, files, ssh, net, path, control, bounds>>

\* Nothing there.
NoFile == <<>>

Main == Path("main", <<>>)
Readme == Path("readme", <<>>)
VMFile == Path("vm", <<>>)
Template == Path("template", <<>>)

\* A person's own text in a file without assignments.
Mine == <<Line("prose", Unset, "mine")>>

\* The header of a per-VM file names the file it was seeded as.
Header(p) == Line("head", Unset, ToString(Len(p.from)))

Shipped(p) ==
  CASE p.file = "main" -> Example
    [] p.file = "vm" -> <<Header(p)>> \o Example
    [] OTHER -> <<Prose>>

Merges(p) == p.file \in {"main", "vm"}

\* The marker of a file seeded from the example; a sparse one is left alone.
Seeded(file) == \E i \in DOMAIN file : file[i].kind = "head"

Content(p) == IF p \in DOMAIN disk THEN disk[p] ELSE NoFile
With(p, file) == [q \in DOMAIN disk \cup {p} |-> IF q = p THEN file ELSE disk[q]]

NoRead == [of |-> Main, lines |-> <<>>]
Unasked == [update |-> FALSE, yes |-> FALSE, ask |-> FALSE]

TypeOK ==
  /\ host \in Hosts
  /\ DOMAIN disk \subseteq Paths(clock) /\ \A p \in DOMAIN disk : IsFile(disk[p])
  /\ ssh \in [include : BOOLEAN, hosts : BOOLEAN]
  /\ proxy \in {"down", "up"} /\ port \in {"none", "ours", "foreign"} /\ torn \in BOOLEAN
  /\ met \subseteq {"over", "stop", "port", "edit"}
  /\ link \in {"none", "other", "this"} /\ rc \in BOOLEAN
  /\ flags \in Invocations \cup {Unasked}
  /\ pc \in {"idle", "files", "ask", "replace", "ssh", "proxy", "sync", "reload", "verify",
            "link", "rc", "done"}
  /\ todo \subseteq DOMAIN disk \cup {Main, Readme, Template}
  /\ IsFile(read.lines) /\ (pc \in {"ask", "replace"} => read.of \in todo \cap DOMAIN disk)
  /\ pc \in {"sync", "reload", "verify", "link", "rc", "done"} => Template \in DOMAIN disk
  /\ pc = "idle" \/ clock > 0
  /\ clock \in 0 .. runs /\ runs \in 0 .. MaxRuns
  /\ edits \in 0 .. MaxEdits /\ acts \in 0 .. MaxActs

Init ==
  /\ host \in Hosts
  /\ disk \in Found /\ typed = {}
  /\ ssh = [include |-> FALSE, hosts |-> TRUE]
  /\ proxy = "down" /\ port = "none" /\ pushed = NoFile /\ served = NoFile /\ torn = FALSE
  /\ link = "other" /\ rc = FALSE
  /\ flags = Unasked
  /\ pc = "idle" /\ todo = {} /\ read = NoRead /\ met = {}
  /\ clock = 0 /\ runs = 0 /\ edits = 0 /\ acts = 0

----------------------------------------------------------------------------
(* What others do, while a run goes on too.                                *)

\* The run has read this file, to replace it by what it makes of that.
InHand(p) == pc \in {"ask", "replace"} /\ p = read.of

\* Something this run did not do, if there is a run.
Meets(what) == met' = IF pc = "idle" THEN met ELSE met \cup what

RunGoesOn == UNCHANGED <<flags, pc, todo, read, clock, runs>>

\* A person adds a line to a settings file, over what it said of that name,
\* or rewrites the template.
Edit ==
  /\ edits < MaxEdits /\ edits' = edits + 1
  /\ \/ \E p \in DOMAIN disk \cap {Main, VMFile}, l \in Edits :
          /\ disk' = With(p, Append(disk[p], l))
          /\ typed' = {t \in typed : t.file # p.file \/ t.line.name # l.name}
                        \cup {[file |-> p.file, line |-> l, late |-> InHand(p)]}
          /\ Meets({})
     \/ /\ Template \in DOMAIN disk
        /\ disk' = With(Template, Mine)
        /\ typed' = typed \cup {[file |-> "template", line |-> Mine[1], late |-> InHand(Template)]}
        /\ Meets(IF pc \in {"files", "ask", "replace", "ssh", "proxy", "sync"} THEN {} ELSE {"edit"})
  /\ RunGoesOn /\ UNCHANGED <<host, ssh, net, path, acts>>

Act == acts < MaxActs /\ acts' = acts + 1 /\ RunGoesOn
       /\ UNCHANGED <<host, files, ssh, path, edits>>

\* A stopped proxy frees its port.
ProxyStops ==
  /\ proxy = "up" /\ proxy' = "down" /\ port' = IF port = "ours" THEN "none" ELSE port
  /\ Meets({"stop"}) /\ Act /\ UNCHANGED <<pushed, served, torn>>

\* One that starts loads what its files say, and gets its port if it is free.
Boots ==
  /\ proxy' = "up" /\ port' = IF port = "none" THEN "ours" ELSE port
  /\ served' = pushed /\ torn' = FALSE /\ UNCHANGED pushed

ProxyStarts == proxy = "down" /\ Boots /\ Meets({}) /\ Act

\* A Sync of another command, killed between its push and its reload or not.
OtherSync ==
  /\ proxy = "up" /\ Template \in DOMAIN disk /\ pushed # disk[Template]
  /\ pushed' = disk[Template]
  /\ \/ served' = pushed' /\ torn' = FALSE
     \/ UNCHANGED served /\ torn' = TRUE
  /\ Meets({}) /\ Act /\ UNCHANGED <<proxy, port>>

PortTurns ==
  /\ \/ port = "none" /\ port' = "foreign" /\ Meets({"port"})
     \/ port = "foreign" /\ port' = "none" /\ Meets({})
  /\ Act /\ UNCHANGED <<proxy, pushed, served, torn>>

Outside == ProxyStops \/ ProxyStarts \/ OtherSync \/ PortTurns

----------------------------------------------------------------------------
(* A run.                                                                  *)

Stop == /\ pc' = "idle" /\ todo' = {} /\ read' = NoRead /\ met' = {} /\ flags' = Unasked
        /\ UNCHANGED <<clock, runs>>

Go(to) == pc' = to /\ UNCHANGED <<flags, todo, read, met, clock, runs>>

\* Files are done one kind after the other; the per-VM directory as it is
\* listed, a file before its own backups.
Order == <<"main", "readme", "vm", "template">>
Before(p, q) ==
  \E i, j \in DOMAIN Order :
    /\ p.file = Order[i] /\ q.file = Order[j]
    /\ \/ i < j
       \/ i = j /\ Len(p.from) < Len(q.from)
       \/ /\ i = j /\ Len(p.from) = Len(q.from)
          /\ \E k \in DOMAIN p.from :
               p.from[k] < q.from[k] /\ \A m \in 1 .. k - 1 : p.from[m] = q.from[m]

\* The file whose turn it is.
Turn(p) == p \in todo /\ \A q \in todo : ~Before(q, p)

\* Mutant of PortTaken: the port is not looked at.
PortNeverTaken == FALSE

\* Nothing of ptrbox's holds the port while its proxy is down.
PortTaken == host.forwards /\ proxy = "down" /\ port # "none"

\* The settings load, the host is fit, the directories are made.
Begin ==
  /\ pc = "idle" /\ runs < MaxRuns /\ runs' = runs + 1
  /\ Load(Content(Main), NoFile) # Failed
  /\ ~PortTaken
  /\ clock' \in IF SameSecond /\ clock > 0 THEN {clock, clock + 1} ELSE {clock + 1}
  /\ flags' \in Invocations
  /\ pc' = "files" /\ todo' = {Main, Readme, Template} \cup {p \in DOMAIN disk : p.file = "vm"}
  /\ met' = IF proxy = "up" /\ port # "ours" THEN {"over"} ELSE {}
  /\ UNCHANGED <<read, host, files, ssh, net, path, bounds>>

\* confirm, and the offer of an update.
Answers == IF flags.yes THEN {TRUE} ELSE IF flags.ask THEN BOOLEAN ELSE {FALSE}
OfferAnswers == IF flags.update THEN {TRUE} ELSE IF flags.ask THEN Answers ELSE {FALSE}

After(p) == /\ todo' = todo \ {p} /\ read' = NoRead
            /\ pc' = IF todo' # {} THEN "files" ELSE "ssh"
            /\ UNCHANGED <<flags, met, clock, runs>>

\* What becomes of a file: written, or cut short and empty.
Write(p, file) ==
  \/ disk' = With(p, file) /\ After(p)
  \/ disk' = With(p, <<>>) /\ Stop

\* A file that is not there is written; the template is left to the proxy.
SeedFile(p) ==
  /\ pc = "files" /\ p \notin DOMAIN disk
  /\ IF p = Template THEN After(p) /\ UNCHANGED disk ELSE Write(p, Shipped(p))
  /\ UNCHANGED <<host, typed, ssh, net, path, bounds>>

UpToDate(p) == disk[p] = Shipped(p) \/ (p.file = "vm" /\ ~Seeded(disk[p]))

KeepFile(p) ==
  /\ pc = "files" /\ p \in DOMAIN disk /\ UpToDate(p)
  /\ After(p)
  /\ UNCHANGED <<host, files, ssh, net, path, bounds>>

\* A file that differs is read, then the update of it offered.
Offer(p) ==
  /\ pc = "files" /\ p \in DOMAIN disk /\ ~UpToDate(p)
  /\ read' = [of |-> p, lines |-> disk[p]] /\ pc' = "ask"
  /\ UNCHANGED <<flags, todo, met, clock, runs, host, files, ssh, net, path, bounds>>

Decline ==
  /\ pc = "ask" /\ FALSE \in OfferAnswers
  /\ After(read.of)
  /\ UNCHANGED <<host, files, ssh, net, path, bounds>>

\* Mutant of BackupOf: every backup of a file has one name.
BackupOfAny(p) == Path(p.file, <<1>>)

BackupOf(p) == Path(p.file, Append(p.from, clock))

\* An accepted update: the version that was read is kept.
BackUp ==
  /\ pc = "ask" /\ TRUE \in OfferAnswers
  /\ \/ disk' = With(BackupOf(read.of), read.lines) /\ Go("replace")
     \/ disk' = With(BackupOf(read.of), <<>>) /\ Stop
  /\ UNCHANGED <<host, typed, ssh, net, path, bounds>>

\* What takes the place of the file: the shipped one, with what was read of it.
Update == IF Merges(read.of) THEN MergeSettings(read.lines, Shipped(read.of)) ELSE Shipped(read.of)

Replace ==
  /\ pc = "replace"
  /\ Write(read.of, Update)
  /\ UNCHANGED <<host, typed, ssh, net, path, bounds>>

\* The include goes first in ~/.ssh/config, where the backend has links for it.
SSHInclude ==
  /\ pc = "ssh"
  /\ IF host.forwards /\ ~ssh.include
     THEN \/ ssh' = [ssh EXCEPT !.include = TRUE] /\ Go("proxy")
          \/ ssh' = [include |-> FALSE, hosts |-> FALSE] /\ Stop
     ELSE Go("proxy") /\ UNCHANGED ssh
  /\ UNCHANGED <<host, files, net, path, bounds>>

\* The template is seeded if there is none; a proxy that is down is started.
\* One that is up without its port may get it.
EnsureProxy ==
  /\ pc = "proxy"
  /\ \/ /\ disk' = IF Template \in DOMAIN disk THEN disk ELSE With(Template, Shipped(Template))
        /\ \/ proxy = "down" /\ Boots
           \/ proxy = "up" /\ UNCHANGED net
           \/ proxy = "up" /\ port = "none" /\ port' = "ours" /\ UNCHANGED <<proxy, pushed, served, torn>>
        /\ Go("sync")
     \/ Template \notin DOMAIN disk /\ disk' = With(Template, <<>>) /\ UNCHANGED net /\ Stop
  /\ UNCHANGED <<host, typed, ssh, path, bounds>>

\* Sync pushes what differs from the proxy's files; nothing, and squid is left
\* alone.
Push ==
  /\ pc = "sync" /\ proxy = "up"
  /\ pushed' = disk[Template]
  /\ Go(IF pushed = disk[Template] THEN "verify" ELSE "reload")
  /\ UNCHANGED <<host, files, ssh, proxy, port, served, torn, path, bounds>>

\* Squid is told, and loads what the files say by now.
Reload ==
  /\ pc = "reload" /\ proxy = "up"
  /\ served' = pushed /\ torn' = FALSE /\ Go("verify")
  /\ UNCHANGED <<host, files, ssh, proxy, port, pushed, path, bounds>>

\* Something answers on the port, and squid answers in the guest.
VerifyEgress ==
  /\ pc = "verify" /\ proxy = "up" /\ (host.forwards => port # "none")
  /\ Go("link")
  /\ UNCHANGED <<host, files, ssh, net, path, bounds>>

\* BIN_DIR/ptrbox is made this binary, or left as it is.
Link ==
  /\ pc = "link"
  /\ \/ ~host.links /\ Go("done") /\ UNCHANGED link
     \/ host.links /\ link = "this" /\ Go("rc") /\ UNCHANGED link
     \/ host.links /\ link # "this" /\ FALSE \in Answers /\ Go("done") /\ UNCHANGED link
     \/ host.links /\ link # "this" /\ TRUE \in Answers /\ Go("rc") /\ link' = "this"
     \/ host.links /\ link # "this" /\ TRUE \in Answers /\ Stop /\ link' = "none"
  /\ UNCHANGED <<host, files, ssh, net, rc, bounds>>

\* The shell's startup file gets BIN_DIR, unless it has it or is not known.
PathEntry ==
  /\ pc = "rc"
  /\ \/ (rc \/ ~host.startup \/ FALSE \in Answers) /\ Go("done") /\ UNCHANGED rc
     \/ ~rc /\ host.startup /\ TRUE \in Answers /\ Go("done") /\ rc' = TRUE
  /\ UNCHANGED <<host, files, ssh, net, link, bounds>>

\* "host setup complete".
Report ==
  /\ pc = "done" /\ Stop
  /\ UNCHANGED <<host, files, ssh, net, path, bounds>>

\* A step fails, or the run is killed between two steps.
Die ==
  /\ pc \notin {"idle", "done"} /\ Stop
  /\ torn' = (torn \/ (pc = "reload" /\ served # pushed))
  /\ UNCHANGED <<host, files, ssh, proxy, port, pushed, served, path, bounds>>

Files == \E p \in todo : Turn(p) /\ (SeedFile(p) \/ KeepFile(p) \/ Offer(p))

Run == \/ Files \/ Decline \/ BackUp \/ Replace \/ SSHInclude
       \/ EnsureProxy \/ Push \/ Reload \/ VerifyEgress
       \/ Link \/ PathEntry \/ Report

Next == Edit \/ Outside \/ Begin \/ Run \/ Die

Spec == Init /\ [][Next]_vars

----------------------------------------------------------------------------
(* Properties.                                                             *)

\* A line still says what a person wrote, if only as a comment.
Says(l, wrote) == l = wrote \/ [l EXCEPT !.kind = "assign"] = wrote

\* Whatever a person typed into a seeded file is in the file or in one of its
\* backups, through updates that are cut short and started again (seed.go,
\* offerUpdate; mergeconfig.go, mergeSettings).  A line saved to the file while
\* the offer to replace it stands is not: the file was read before the question.
Recoverable ==
  \A t \in typed : ~t.late =>
    \E p \in DOMAIN disk :
      /\ p.file = t.file
      /\ \E i \in DOMAIN disk[p] : Says(disk[p][i], t.line)

\* No line stands for what another line of the file assigns.
SelfContained(file) ==
  \A i, j \in DOMAIN file : file[i].kind = "assign" /\ file[j].kind = "assign"
                               => file[i].val # file[j].name

\* An update of the settings file leaves ptrbox configured as the version the
\* run read did, repeated and retired keys and all (mergeconfig_test.go: after
\* an update, every setting the user had made is still made).  Of a setting that
\* goes through another line this does not hold: that line may be moved behind
\* it, or commented out; and a file that no longer parses is replaced outright.
SettingsKept ==
  [][(/\ Replace /\ read.of = Main /\ disk'[Main] # <<>>
      /\ Parses(read.lines) /\ SelfContained(read.lines))
       => Load(disk'[Main], NoFile) = Load(read.lines, NoFile)]_vars

\* "host setup complete" is said over a proxy that runs, serves the template the
\* host has, and holds its own port (install.go: preflightProxyPort refuses a
\* foreign listener, but only while the proxy is down; Ensure comes after the
\* template's update): so it is, whatever failed or was cut short before, unless
\* others stopped the proxy during this run, edited the template behind its
\* push, took the port behind its preflight or before the proxy was started, or
\* some Sync was cut between its push and its reload, which the next one calls
\* unchanged.  And after a run that may say yes to all, new shells find ptrbox,
\* whatever earlier runs had done of it (install.go, installPathEntry).
CompleteIsSo ==
  pc = "done" =>
    /\ "stop" \notin met => proxy = "up"
    /\ "edit" \notin met /\ ~torn => served = disk[Template]
    /\ host.forwards /\ met \cap {"over", "stop", "port"} = {} => port = "ours"
    /\ flags.yes /\ host.links /\ host.startup => link = "this" /\ rc
=============================================================================
