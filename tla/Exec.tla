-------------------------------- MODULE Exec --------------------------------
(***************************************************************************)
(* What crosses between the host and a guest, one client call at a time:   *)
(* a guest command's output, shown or kept as an archive, and the token.   *)
(* On multipass: internal/multipass/multipass.go (capture, Send,           *)
(* Passthrough) under timeout.go's deadlines; on lima one `limactl shell`  *)
(* per command (internal/backend/invoke.go).  The commands are `save`,     *)
(* `rm` (internal/cli/save.go, lifecycle.go) and the last part of `new`:   *)
(* the boot, the verification, the token, the timings (new.go).            *)
(*                                                                         *)
(* The guest works on a command on its own: when the client is killed at   *)
(* its deadline, the guest's side of it goes on.  One ptrbox command at a  *)
(* time; the VM stops and starts under it, the agent writes its session.   *)
(***************************************************************************)
EXTENDS Narrate, FiniteSets

CONSTANTS
  Hosts,       \* the hosts, as host below
  Prints,      \* what a client or a script may print
  Complains,   \* what it may say on stderr
  Cap,         \* maxArchive, in glyphs
  MaxSession,  \* bound: how far the session grows
  MaxClock,    \* bound: seconds, of which each names an archive
  MaxCommands  \* bound

ASSUME ExecAssumption ==
  /\ Hosts \subseteq [direct : BOOLEAN, token : BOOLEAN]
  /\ Cap \in Nat /\ MaxSession \in Nat /\ MaxCommands \in Nat
  /\ MaxClock \in Nat /\ MaxClock > 0
  /\ Prints \subseteq Seq(Glyph) /\ Complains \subseteq Seq(Glyph)

VARIABLES
  host,      \* [direct, token]: the backend's exec carries output and input
             \* (lima); the keychain has a token
  vm,        \* "none", "down", "up"
  session,   \* how much the agent has written of its session
  token,     \* in the guest's profile: "none", "part", "whole"
  disk,      \* the scratch files in the guest: <<command, job, kind>>
  procs,     \* the guest's sides of commands: [id, job, open, fed]
  cmd,       \* [does, id, seen]: the ptrbox command, its number, the session when it began
  job, pc,   \* the client's task in hand, and its next step
  broke,     \* a call of it has failed
  text,      \* [left, out, err]: of the guest command in hand, what it has yet
             \* to print, what is in the scratch files or on its way
  out, err,  \* what has come of its output and stderr, to be shown or kept
  archives,  \* the archives on the host, by their second: [by, held]
  file,      \* the one being written, or 0
  clock,
  narr, said,  \* the narrator, and what the invocation in hand wrote to it
  last,      \* [does, ok, heard, replay]: how the last command ended
  failed, dead  \* the commands that reported a failure; those killed

guest == <<vm, session, token>>
call == <<job, pc, broke, text, out, err>>
store == <<archives, file>>
told == <<narr, said>>
ended == <<last, failed, dead>>
control == <<cmd, call, store, told, ended>>
vars == <<host, guest, disk, procs, control, clock>>

Ids == 0 .. MaxCommands
Cmd == [does : {"none", "new", "save", "rm", "discard"}, id : Ids, seen : 0 .. MaxSession]
Kinds == {"out", "err", "in"}
Jobs == {"none", "boot", "settle", "verify", "inject", "timings", "archive", "delete"}
Proc == [id : Ids, job : Jobs, open : BOOLEAN, fed : BOOLEAN]
Steps == {"idle", "client", "next", "open", "scratch", "stage", "exec", "wait",
          "fetch", "explain", "clean", "return", "delete"}

TypeOK ==
  /\ host \in Hosts
  /\ vm \in {"none", "down", "up"} /\ session \in 0 .. MaxSession
  /\ token \in {"none", "part", "whole"}
  /\ disk \subseteq Ids \X Jobs \X Kinds
  /\ procs \subseteq Proc
  /\ cmd \in Cmd
  /\ job \in Jobs /\ pc \in Steps /\ broke \in BOOLEAN
  /\ clock \in 1 .. MaxClock /\ DOMAIN archives \subseteq 1 .. clock
  /\ file = 0 \/ file \in DOMAIN archives
  /\ failed \subseteq Ids /\ dead \subseteq Ids

NoText == [left |-> <<>>, out |-> <<>>, err |-> <<>>]
NoArchives == [s \in {} |-> <<>>]
Without(f, S) == [x \in DOMAIN f \ S |-> f[x]]

Untold == [does |-> "none", ok |-> TRUE, heard |-> FALSE, replay |-> <<>>]

Init ==
  /\ host \in Hosts
  /\ vm = "down" /\ session = 0 /\ token = "none" /\ disk = {} /\ procs = {}
  /\ cmd = [does |-> "none", id |-> 0, seen |-> 0]
  /\ job = "none" /\ pc = "idle" /\ broke = FALSE
  /\ text = NoText /\ out = <<>> /\ err = <<>>
  /\ archives = NoArchives /\ file = 0 /\ clock = 1
  /\ narr = Quiet /\ said = <<>>
  /\ last = Untold
  /\ failed = {} /\ dead = {}

\* The scratch files of the call in hand.
File(kind) == <<cmd.id, job, kind>>

Go(step) == pc' = step

\* The guest's command has been asked for: lima's client runs it at once.
FirstStep == IF host.direct THEN "exec" ELSE "scratch"

\* The process ends with this verdict; with an error it replays what a
\* narrated invocation said.
ExitTelling(ok, n) ==
  /\ pc' = "idle" /\ job' = "none" /\ broke' = FALSE
  /\ text' = NoText /\ out' = <<>> /\ err' = <<>>
  /\ cmd' = [does |-> "none", id |-> cmd.id, seen |-> 0]
  /\ last' = [does |-> cmd.does, ok |-> ok, heard |-> job \in {"boot", "verify", "delete"},
              replay |-> IF ok THEN <<>> ELSE Replay(n)]
  /\ failed' = IF ok THEN failed ELSE failed \cup {cmd.id}
  /\ file' = 0 /\ UNCHANGED dead

Exit(ok) == ExitTelling(ok, narr)

----------------------------------------------------------------------------
(* Beside the command.                                                     *)

AgentWrites ==
  /\ vm = "up" /\ session < MaxSession
  /\ session' = session + 1
  /\ UNCHANGED <<host, vm, token, disk, procs, control, clock>>

\* Another terminal, or the host, stops the VM or brings it up.
Power ==
  /\ \/ vm = "up" /\ vm' = "down"
     \/ vm = "down" /\ cmd.id > 0 /\ job # "boot" /\ vm' = "up"
  /\ procs' = {}
  /\ UNCHANGED <<host, session, token, disk, control, clock>>

\* The time is read once, before anything else a command does.
Tick ==
  /\ pc = "idle" /\ clock < MaxClock /\ clock' = clock + 1
  /\ UNCHANGED <<host, guest, disk, procs, control>>

\* Killed, the process leaves everything as it is.
Dies ==
  /\ pc # "idle"
  /\ pc' = "idle" /\ job' = "none" /\ broke' = FALSE
  /\ text' = NoText /\ out' = <<>> /\ err' = <<>>
  /\ cmd' = [does |-> "none", id |-> cmd.id, seen |-> 0]
  /\ last' = [does |-> cmd.does, ok |-> FALSE, heard |-> FALSE, replay |-> <<>>]
  /\ dead' = dead \cup {cmd.id} /\ file' = 0
  /\ narr' = Quiet /\ said' = <<>>
  /\ UNCHANGED <<host, guest, disk, procs, archives, failed, clock>>

----------------------------------------------------------------------------
(* The commands.                                                           *)

Start(does) ==
  /\ pc = "idle" /\ cmd.id < MaxCommands
  /\ cmd' = [does |-> does, id |-> cmd.id + 1, seen |-> session]
  /\ last' = Untold /\ UNCHANGED <<failed, dead>>

\* A process of its own, with a narrator of its own.
Fresh == narr' = Quiet /\ said' = <<>>

\* ptrbox new, its first boot done and the VM stopped.
New ==
  /\ Start("new") /\ cmd.id = 0
  /\ job' = "boot" /\ pc' = "client" /\ narr' = Begin(Quiet) /\ said' = <<>>
  /\ out' \in Prints
  /\ UNCHANGED <<host, guest, disk, procs, broke, text, err, store, clock>>

\* ptrbox save and rm: of a running VM, or refused.
Save ==
  /\ \/ Start("save") \/ Start("rm")
  /\ cmd.id > 0 /\ vm = "up"
  /\ job' = "archive" /\ pc' = "open" /\ Fresh
  /\ UNCHANGED <<host, guest, disk, procs, broke, text, out, err, store, clock>>

\* ptrbox rm --no-archive.
Discard ==
  /\ Start("discard") /\ cmd.id > 0 /\ vm # "none"
  /\ pc' = "delete" /\ Fresh
  /\ UNCHANGED <<host, guest, disk, procs, job, broke, text, out, err, store, clock>>

----------------------------------------------------------------------------
(* The boot and what is shown.                                             *)

Heard(glyphs) == narr' = Write(narr, glyphs) /\ said' = said \o glyphs

\* A client's own output arrives as it comes.
ClientPrints ==
  /\ pc = "client" /\ out # <<>>
  /\ Heard(<<Head(out)>>) /\ out' = Tail(out)
  /\ UNCHANGED <<host, guest, disk, procs, cmd, job, pc, broke, text, err, store, ended, clock>>

BootFails ==
  /\ pc = "client" /\ job = "boot"
  /\ vm' \in {"down", "up"} /\ narr' = End(narr, TRUE)
  /\ ExitTelling(FALSE, narr')
  /\ UNCHANGED <<host, session, token, disk, procs, archives, said, clock>>

Boots ==
  /\ pc = "client" /\ job = "boot" /\ out = <<>>
  /\ vm' = "up" /\ pc' = "next" /\ job' = IF host.direct THEN "verify" ELSE "settle"
  /\ narr' = End(narr, FALSE)
  /\ said' = said \o (IF narr.partial = <<>> THEN <<>> ELSE <<NL>>)
  /\ UNCHANGED <<host, session, token, disk, procs, cmd, broke, text, out, err, store, ended, clock>>

\* On multipass cloud-init is asked next, past the narrator: it did not finish
\* cleanly, or its warnings are written between two invocations.
Settle ==
  /\ pc = "next" /\ job = "settle"
  /\ \/ /\ \E note \in {<<>>} \cup {c \o <<NL>> : c \in Complains} : Heard(note)
        /\ job' = "verify" /\ UNCHANGED <<cmd, pc, broke, text, out, err, file, ended>>
     \/ Exit(FALSE) /\ UNCHANGED told
  /\ UNCHANGED <<host, guest, disk, procs, archives, clock>>

Verify ==
  /\ pc = "next" /\ job = "verify"
  /\ narr' = Begin(narr) /\ said' = <<>> /\ Go(FirstStep)
  /\ UNCHANGED <<host, guest, disk, procs, cmd, job, broke, text, out, err, store, ended, clock>>

\* Without a token on the host `new` says so, and goes on to the timings.
Inject ==
  /\ pc = "next" /\ job = "inject" /\ Go(FirstStep)
  /\ job' = IF host.token THEN job ELSE "timings"
  /\ UNCHANGED <<host, guest, disk, procs, cmd, broke, text, out, err, store, told, ended, clock>>

----------------------------------------------------------------------------
(* One guest command, from the host.                                       *)

Fails(step) == broke' = TRUE /\ Go(step)

\* What follows the exec.
Collect == IF host.direct THEN "return" ELSE IF job # "inject" THEN "fetch" ELSE "clean"

\* scratch: a directory, and a fresh name in it.
Mkdir(ok) ==
  /\ pc = "scratch"
  /\ \/ ok /\ vm = "up" /\ Go(IF job = "inject" THEN "stage" ELSE "exec") /\ UNCHANGED broke
     \/ ~ok /\ Fails("return")
  /\ UNCHANGED <<host, guest, disk, procs, cmd, job, text, out, err, store, told, ended, clock>>

\* The payload goes over SFTP into a file; nothing takes back a part of one.
Stage(ok) ==
  /\ pc = "stage"
  /\ \/ ok /\ vm = "up" /\ disk' = disk \cup {File("in")} /\ Go("exec") /\ UNCHANGED broke
     \/ ~ok /\ vm = "up" /\ disk' = disk \cup {File("in")} /\ Fails("return")
     \/ ~ok /\ UNCHANGED disk /\ Fails("return")
  /\ UNCHANGED <<host, guest, procs, cmd, job, text, out, err, store, told, ended, clock>>

\* The client reaches the guest; the command's shell has yet to open its files.
Exec(ok) ==
  /\ pc = "exec"
  /\ \/ /\ ok /\ vm = "up" /\ Go("wait") /\ UNCHANGED broke
        /\ procs' = procs \cup {[id |-> cmd.id, job |-> job, open |-> FALSE, fed |-> ~host.direct \/ job # "inject"]}
     \/ ~ok /\ Fails(IF job = "inject" /\ ~host.direct THEN "explain" ELSE Collect) /\ UNCHANGED procs
  /\ UNCHANGED <<host, guest, disk, cmd, job, text, out, err, store, told, ended, clock>>

\* The client is killed or loses the guest, whose side goes on.
Severed ==
  /\ pc = "wait" /\ Fails(IF job = "inject" /\ ~host.direct THEN "explain" ELSE Collect)
  /\ UNCHANGED <<host, guest, disk, procs, cmd, job, text, out, err, store, told, ended, clock>>

Fetch(ok) ==
  /\ pc = "fetch"
  /\ \/ /\ ok /\ vm = "up" /\ File("out") \in disk
        /\ out' = text.out /\ Go(IF broke THEN "explain" ELSE "clean") /\ UNCHANGED broke
     \/ ~ok /\ Fails("return") /\ UNCHANGED out
  /\ UNCHANGED <<host, guest, disk, procs, cmd, job, text, err, store, told, ended, clock>>

\* What the command said of its failure; without it, it has none.
Explain(ok) ==
  /\ pc = "explain" /\ Go("clean")
  /\ \/ ok /\ vm = "up" /\ File("err") \in disk /\ err' = text.err
     \/ ~ok /\ UNCHANGED err
  /\ UNCHANGED <<host, guest, disk, procs, cmd, job, broke, text, out, store, told, ended, clock>>

\* capture's two files, Send's stderr: the payload is its script's to remove.
Scratch == {File("err")} \cup (IF job = "inject" THEN {} ELSE {File("out")})

\* Mutant of Clean: a removal that failed is not heard of.
CleanUnheard(ok) ==
  /\ pc = "clean" /\ Go("return")
  /\ disk' \in {disk, disk \ Scratch} /\ (ok => disk' = disk \ Scratch)
  /\ UNCHANGED <<host, guest, procs, cmd, job, broke, text, out, err, store, told, ended, clock>>

\* A removal that fails is the call's failure, and its output is lost.
Clean(ok) ==
  /\ pc = "clean"
  /\ \/ ok /\ vm = "up" /\ disk' = disk \ Scratch /\ Go("return") /\ UNCHANGED <<broke, text, out, err>>
     \/ /\ ~ok /\ disk' \in {disk} \cup (IF vm = "up" THEN {disk \ Scratch} ELSE {})
        /\ Fails("return") /\ out' = <<>> /\ err' = <<>>
  /\ UNCHANGED <<host, guest, procs, cmd, job, text, store, told, ended, clock>>

Answers == \/ Mkdir(TRUE) \/ Stage(TRUE) \/ Exec(TRUE) \/ Fetch(TRUE) \/ Explain(TRUE) \/ Clean(TRUE)

\* A call that fails, whatever it is; on multipass its deadline sees to it.
Refuses == \/ Mkdir(FALSE) \/ Stage(FALSE) \/ Exec(FALSE) \/ Severed
           \/ Fetch(FALSE) \/ Explain(FALSE) \/ Clean(FALSE)

\* Mutant of Expires: only the verbs named have a deadline.
ExpiresNamed == ~host.direct /\ pc \notin {"stage", "fetch", "explain"} /\ Refuses

\* Every call but an interactive one has a deadline, on multipass.
Expires == ~host.direct /\ Refuses

----------------------------------------------------------------------------
(* The same command, in the guest.                                         *)

Updated(p, q) == (procs \ {p}) \cup {q}

\* The command is the one in hand; and its client still listens.
InHand(p) == p.id = cmd.id /\ p.job = job
Attended(p) == InHand(p) /\ pc = "wait"

Put(files) == disk' = IF host.direct THEN disk ELSE files

\* The transcripts as they are now; a script's output and complaints.
Opens(p) ==
  /\ ~p.open /\ procs' = Updated(p, [p EXCEPT !.open = TRUE])
  /\ \E o \in Prints, c \in Complains \cup {<<>>} :
       text' = IF ~InHand(p) THEN text
               ELSE CASE p.job = "archive" -> [NoText EXCEPT !.left = [i \in 1 .. session |-> session]]
                      [] p.job = "verify" -> [NoText EXCEPT !.left = o, !.err = c]
                      [] OTHER -> NoText
  /\ Put(disk \cup {<<p.id, p.job, "err">>}
              \cup (IF p.job = "inject" THEN {} ELSE {<<p.id, p.job, "out">>}))
  /\ UNCHANGED <<host, guest, cmd, job, pc, broke, out, err, store, told, ended, clock>>

\* The payload arrives on the client's stdin.
Feeds(p) ==
  /\ Attended(p) /\ p.open /\ p.job = "inject" /\ ~p.fed
  /\ procs' = Updated(p, [p EXCEPT !.fed = TRUE])
  /\ UNCHANGED <<host, guest, disk, control, clock>>

\* What lima's client hears: into the archive up to its cap, or shown.
Receive(g) ==
  \/ /\ job = "archive" /\ Len(archives[file].held) < Cap
     /\ archives' = [archives EXCEPT ![file].held = Append(@, g)]
     /\ UNCHANGED <<pc, broke, told>>
  \/ job = "archive" /\ Len(archives[file].held) >= Cap /\ Fails("return") /\ UNCHANGED <<archives, told>>
  \/ job = "verify" /\ Heard(<<g>>) /\ UNCHANGED <<pc, broke, archives>>

\* On multipass it goes to the scratch file, whoever still waits.
Outputs(p) ==
  /\ p.open /\ InHand(p) /\ text.left # <<>>
  /\ text' = [text EXCEPT !.left = Tail(@),
                           !.out = IF host.direct THEN @ ELSE Append(@, Head(text.left))]
  /\ IF host.direct /\ Attended(p) THEN Receive(Head(text.left))
     ELSE UNCHANGED <<pc, broke, archives, told>>
  /\ UNCHANGED <<host, guest, disk, procs, cmd, job, out, err, file, ended, clock>>

\* The profile gets a token it has not: whatever reached the command.
Profile(p) == IF p.job # "inject" \/ token # "none" THEN token
              ELSE IF p.fed THEN "whole" ELSE "part"

\* It is done, or fails midway; Send's script removes the payload.
Ends(p, ok) ==
  /\ p.open /\ procs' = procs \ {p}
  /\ ok /\ InHand(p) => text.left = <<>> /\ p.fed
  /\ token' \in (IF ok THEN {Profile(p)} ELSE {token, Profile(p)})
  /\ Put(IF p.job = "inject" THEN disk \ {<<p.id, p.job, "in">>} ELSE disk)
  /\ IF Attended(p)
     THEN /\ broke' = ~ok
          /\ pc' = IF ~host.direct /\ p.job = "inject" /\ ~ok THEN "explain" ELSE Collect
          /\ IF host.direct /\ p.job = "verify" THEN Heard(text.err) ELSE UNCHANGED told
     ELSE UNCHANGED <<broke, pc, told>>
  /\ UNCHANGED <<host, vm, session, cmd, job, text, out, err, store, ended, clock>>

----------------------------------------------------------------------------
(* What the commands make of it.                                           *)

\* A file of this second is there already: refused.
OpenArchive ==
  /\ pc = "open"
  /\ \/ /\ clock \notin DOMAIN archives
        /\ archives' = [s \in DOMAIN archives \cup {clock} |->
                          IF s = clock THEN [by |-> cmd.id, held |-> <<>>] ELSE archives[s]]
        /\ file' = clock /\ Go(FirstStep)
        /\ UNCHANGED <<cmd, job, broke, text, out, err, ended>>
     \/ clock \in DOMAIN archives /\ UNCHANGED archives /\ Exit(FALSE)
  /\ UNCHANGED <<host, guest, disk, procs, told, clock>>

\* The whole output, if it fits; on lima it is there already.
Kept == IF host.direct THEN archives[file].held ELSE out
Fits == host.direct \/ Len(out) <= Cap

\* Mutant of ReturnArchive: what a failed command left is kept.
ReturnArchiveAnyway ==
  /\ pc = "return" /\ job = "archive"
  /\ archives' = [archives EXCEPT ![file].held = Kept] /\ Exit(~broke)
  /\ UNCHANGED <<host, guest, disk, procs, told, clock>>

\* Mutant of ReturnArchive: rm goes on whatever became of the archive.
ReturnArchiveThenDelete ==
  /\ pc = "return" /\ job = "archive"
  /\ archives' = IF broke \/ ~Fits \/ Kept = <<>> THEN Without(archives, {file})
                  ELSE [archives EXCEPT ![file].held = Kept]
  /\ IF cmd.does = "rm"
     THEN Go("delete") /\ file' = 0 /\ UNCHANGED <<cmd, job, broke, text, out, err, ended>>
     ELSE Exit(~broke /\ Fits)
  /\ UNCHANGED <<host, guest, disk, procs, told, clock>>

\* A failed or empty archive is removed; rm goes on without a failure only.
ReturnArchive ==
  /\ pc = "return" /\ job = "archive"
  /\ archives' = IF broke \/ ~Fits \/ Kept = <<>> THEN Without(archives, {file})
                  ELSE [archives EXCEPT ![file].held = Kept]
  /\ IF cmd.does = "rm" /\ ~broke /\ Fits
     THEN Go("delete") /\ file' = 0 /\ UNCHANGED <<cmd, job, broke, text, out, err, ended>>
     ELSE Exit(~broke /\ Fits)
  /\ UNCHANGED <<host, guest, disk, procs, told, clock>>

\* What was captured is shown at once, stdout first.
ReturnVerify ==
  /\ pc = "return" /\ job = "verify"
  /\ said' = said \o out \o err
  /\ narr' = End(Write(narr, out \o err), broke)
  /\ IF broke THEN ExitTelling(FALSE, narr')
     ELSE /\ job' = "inject" /\ pc' = "next"
          /\ text' = NoText /\ out' = <<>> /\ err' = <<>>
          /\ UNCHANGED <<cmd, broke, file, ended>>
  /\ UNCHANGED <<host, guest, disk, procs, archives, clock>>

ReturnInject ==
  /\ pc = "return" /\ job = "inject"
  /\ IF broke THEN Exit(FALSE)
     ELSE /\ job' = "timings" /\ Go(FirstStep)
          /\ text' = NoText /\ out' = <<>> /\ err' = <<>>
          /\ UNCHANGED <<cmd, broke, file, ended>>
  /\ UNCHANGED <<host, guest, disk, procs, archives, told, clock>>

\* Where the minutes went is for the summary: a failure to read it is not heard of.
ReturnTimings ==
  /\ pc = "return" /\ job = "timings" /\ Exit(TRUE)
  /\ UNCHANGED <<host, guest, disk, procs, archives, told, clock>>

\* The client that deletes the VM is narrated in its turn.
Delete ==
  /\ pc = "delete"
  /\ job' = "delete" /\ pc' = "client" /\ narr' = Begin(narr) /\ said' = <<>>
  /\ text' = NoText /\ out' \in Prints /\ err' = <<>>
  /\ UNCHANGED <<host, guest, disk, procs, cmd, broke, store, ended, clock>>

\* The disk goes with the VM, and with it the session; a client that is cut off
\* may have had it deleted too.
Gone == vm' = "none" /\ disk' = {} /\ procs' = {}

Deletes ==
  /\ pc = "client" /\ job = "delete" /\ out = <<>>
  /\ Gone
  /\ narr' = End(narr, FALSE) /\ ExitTelling(TRUE, narr')
  /\ UNCHANGED <<host, session, token, archives, said, clock>>

DeleteFails ==
  /\ pc = "client" /\ job = "delete"
  /\ Gone \/ UNCHANGED <<vm, disk, procs>>
  /\ narr' = End(narr, TRUE) /\ ExitTelling(FALSE, narr')
  /\ UNCHANGED <<host, session, token, archives, said, clock>>

----------------------------------------------------------------------------

Commands == New \/ Save \/ Discard
Host == \/ ClientPrints \/ BootFails \/ Boots \/ Settle \/ Verify \/ Inject \/ OpenArchive
        \/ ReturnArchive \/ ReturnVerify \/ ReturnInject \/ ReturnTimings
        \/ Delete \/ Deletes \/ DeleteFails
Guest == \E p \in procs : Opens(p) \/ Feeds(p) \/ Outputs(p) \/ \E ok \in BOOLEAN : Ends(p, ok)
World == AgentWrites \/ Power \/ Tick \/ Dies

Next == Commands \/ Host \/ Answers \/ Refuses \/ Guest \/ World

\* The process runs its own steps, and no call outlasts its deadline; lima's
\* client has none.
Fairness == WF_vars(~host.direct /\ Host) /\ WF_vars(Expires)

Spec == Init /\ [][Next]_vars
FairSpec == Spec /\ Fairness

----------------------------------------------------------------------------
(* Properties.                                                             *)

Whole(a) == a.held # <<>> /\ Len(a.held) = a.held[1]

\* What is kept and what is delivered is all of it: an archive that no killed
\* command left holds a whole session (save.go:120-132), and when `new` ends
\* well the guest has the whole token if there is one (new.go:715).
OkMeansWhole ==
  /\ \A s \in DOMAIN archives :
       archives[s].by \notin dead /\ s # file => Whole(archives[s]) /\ Len(archives[s].held) <= Cap
  /\ last.does = "new" /\ last.ok => token = IF host.token THEN "whole" ELSE "none"

\* What a command left in the guest belongs to one that said it failed, or was
\* killed: capture and Send clean up, or say so (multipass.go:639, 670).  All
\* but the timings `new` reads at its end, whose failure it drops with what the
\* failure left (new.go:292, timings.go:38-41).
LeftByFailed ==
  \A f \in disk : \/ f[1] \in failed \cup dead \cup (IF pc = "idle" THEN {} ELSE {cmd.id})
                  \/ f[2] = "timings"

\* rm without --no-archive takes a VM only when what its session held at the
\* start of the command is on the host (lifecycle.go:203-210).
SessionKept ==
  [][vm # "none" /\ vm' = "none" /\ cmd.does = "rm" =>
       cmd.seen = 0 \/ \E s \in DOMAIN archives :
          archives[s].by = cmd.id /\ Whole(archives[s]) /\ archives[s].held[1] >= cmd.seen]_vars

\* The lines of an output, the last one though it has no newline.
Breaks(g) == {i \in DOMAIN g : g[i] = NL} \cup (IF g # <<>> /\ g[Len(g)] # NL THEN {Len(g) + 1} ELSE {})
Lines(g) ==
  [k \in 1 .. Cardinality(Breaks(g)) |->
     LET end == CHOOSE i \in Breaks(g) : Cardinality({j \in Breaks(g) : j < i}) = k - 1
         before == {j \in Breaks(g) : j < end} \cup {0}
         start == CHOOSE i \in before : \A j \in before : j <= i
     IN SubSeq(g, start + 1, end - 1)]

Final(s, n) == SubSeq(s, IF Len(s) > n THEN Len(s) - n + 1 ELSE 1, Len(s))

\* Whatever the pieces it came in, each line an invocation wrote is shown once
\* and in order, and a command that fails in one reprints that invocation's
\* last lines, raw, and no other's (narrate.go:15-20, main.go:62-66).
ShownAndReplayed ==
  /\ narr.shown = Lines(SubSeq(said, 1, Len(said) - Len(narr.partial)))
  /\ pc = "idle" => last.replay = IF last.heard /\ ~last.ok THEN Final(Lines(said), RawLimit) ELSE <<>>

\* On multipass a ptrbox command always ends, wedged daemon or not (timeout.go:14-22).
Returns == []<>(host.direct \/ pc = "idle")

=============================================================================
