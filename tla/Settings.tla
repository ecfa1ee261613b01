------------------------------ MODULE Settings ------------------------------
(***************************************************************************)
(* What ptrbox makes of its settings: internal/config reads the files      *)
(* (shellconf.go), layers them and checks the result (config.go,           *)
(* overlay.go); internal/cli/mergeconfig.go carries a person's settings    *)
(* into a newer example file.  Operators only, no state.                   *)
(*                                                                         *)
(* A file is a sequence of lines, a line one of four kinds.  A value is a  *)
(* word, or a name, which stands for the value written "$NAME".            *)
(***************************************************************************)
EXTENDS Naturals, Sequences, SequencesExt

CONSTANTS
  Keys,      \* the settings of this build, without PTRBOX_
  VMKeys,    \* those of them a per-VM file may set
  Others,    \* other names a file may assign: retired keys, scratch variables
  Words,     \* the words a value may be, without quotes or backslashes
  Empty,     \* the empty word
  Unset,     \* no value at all
  Default,   \* [Keys -> Words]: the built-in layer
  Environ,   \* [Keys -> Words or Unset]: the PTRBOX_* variables
  HostVar,   \* [Keys \cup Others -> Words]: what $NAME is when no line sets it
  On, Off,   \* the words that read as true, and as false
  Number,    \* [some of the words -> Nat]: those that read as a number
  WellFormed,\* [Keys -> SUBSET Words]: what the charset and shape checks pass
  Image,     \* [distros -> Words]: the image each distro has on this machine
  HostWord   \* [Keys -> Words]: the host's own answer for a key left empty

Names == Keys \cup Others

Toolchains == {"GO", "NODE", "OPENCODE", "UV"}
Features == Toolchains \cup {"PLAYWRIGHT"}
Booleans == Features \cup {"HOST_HOOKS"}
Numbers == {"CPUS", "PORT_MIN", "PORT_MAX", "LMSTUDIO_PORT"}
FromHost == {"GIT_USER_NAME", "GIT_USER_EMAIL"}

\* The egress proxy's block of ports, scaled down.
ProxyPort == 4
SandboxPortMax == 6
LastPort == 9

ASSUME SettingsAssumption ==
  /\ VMKeys \subseteq Keys /\ Keys \cap Others = {}
  /\ Booleans \cup Numbers \cup FromHost \cup {"DISTRO", "IMAGE_URL"} \subseteq Keys
  /\ Empty \in Words /\ Unset \notin Words /\ Names \cap Words = {}
  /\ Default \in [Keys -> Words] /\ Empty \notin WellFormed["IMAGE_URL"]

----------------------------------------------------------------------------
(* A file.                                                                 *)

Line(kind, name, val) == [kind |-> kind, name |-> name, val |-> val]

Assign(name, val) == Line("assign", name, val)     \* PTRBOX_CPUS=8
Hint(name, val) == Line("hint", name, val)         \* #PTRBOX_CPUS=4
Prose == Line("prose", Unset, Unset)               \* a comment, or blank
Garbage == Line("garbage", Unset, Unset)           \* none of the others

Parses(file) == \A i \in DOMAIN file : file[i].kind # "garbage"

\* $NAME: an earlier line's, else the process's environment's.
Expand(val, locals) ==
  IF val \notin Names THEN val
  ELSE IF locals[val] # Unset THEN locals[val] ELSE HostVar[val]

\* An assignment is there for the lines below it.
Assigning(locals, l) ==
  IF l.kind = "assign" THEN [locals EXCEPT ![l.name] = Expand(l.val, locals)] ELSE locals

\* What each name stands for below each line.
Scanned(file) ==
  LET below[i \in 0 .. Len(file)] ==
        IF i = 0 THEN [n \in Names |-> Unset] ELSE Assigning(below[i - 1], file[i])
  IN below

Locals(file) == Scanned(file)[Len(file)]

\* The settings a file makes.  No file is no setting; what is not a key is
\* no setting either.
Given(file) == [k \in Keys |-> Locals(file)[k]]

----------------------------------------------------------------------------
(* The layers, lowest first, and what they come to.                        *)

Layers(main, vm) == <<Default, Given(main), Given(vm), Environ>>

\* The layer that settles a key.
Origin(layers, k) ==
  CHOOSE i \in DOMAIN layers :
    /\ layers[i][k] # Unset
    /\ \A j \in DOMAIN layers : j > i => layers[j][k] = Unset

Settled(layers) == [k \in Keys |-> layers[Origin(layers, k)][k]]

\* A distro named above the image's own layer picks the image anew.
Derives(layers) ==
  \/ Settled(layers)["IMAGE_URL"] = Empty
  \/ Origin(layers, "DISTRO") > Origin(layers, "IMAGE_URL")

Resolved(layers) ==
  LET raw == Settled(layers) IN
  [k \in Keys |->
     IF k = "IMAGE_URL" /\ Derives(layers)
     THEN IF raw["DISTRO"] \in DOMAIN Image THEN Image[raw["DISTRO"]] ELSE Empty
     ELSE IF k \in FromHost /\ raw[k] = Empty THEN HostWord[k]
     ELSE raw[k]]

\* What validate passes: shapes, the order of the ports, and a model server
\* that is nowhere in the proxy's block.
Valid(cfg) ==
  /\ \A k \in Booleans : cfg[k] \in On \cup Off
  /\ \A k \in Numbers : cfg[k] \in DOMAIN Number
  /\ Number[cfg["PORT_MIN"]] <= Number[cfg["PORT_MAX"]]
  /\ Number[cfg["LMSTUDIO_PORT"]] \in (1 .. LastPort) \ (ProxyPort .. SandboxPortMax)
  /\ \A k \in Keys \ (Booleans \cup Numbers) : cfg[k] \in WellFormed[k]

\* A configuration that did not load.
Failed == [k \in Keys |-> Unset]

\* The configuration of a command: vm is <<>> for one that is about no VM.
Load(main, vm) ==
  IF /\ Parses(main) /\ Parses(vm)
     /\ \A k \in Keys \ VMKeys : Given(vm)[k] = Unset
     /\ Valid(Resolved(Layers(main, vm)))
  THEN Resolved(Layers(main, vm)) ELSE Failed

Wants(cfg, feature) == cfg[feature] \in On

----------------------------------------------------------------------------
(* An update: the person's assignments in the new example.                 *)

\* Mutant of LastOf: the first line that assigns the name.
FirstOf(file, name) ==
  file[CHOOSE i \in DOMAIN file :
         /\ file[i].kind = "assign" /\ file[i].name = name
         /\ \A j \in 1 .. i - 1 : ~(file[j].kind = "assign" /\ file[j].name = name)]

\* The last line that assigns a name.
LastOf(file, name) ==
  file[CHOOSE i \in DOMAIN file :
         /\ file[i].kind = "assign" /\ file[i].name = name
         /\ \A j \in DOMAIN file : j > i => ~(file[j].kind = "assign" /\ file[j].name = name)]

Assigned(file) == {file[i].name : i \in {j \in DOMAIN file : file[j].kind = "assign"}}

\* Where the example has a name's commented default, the first one if several.
IsPlace(example, i) ==
  /\ example[i].kind = "hint"
  /\ \A j \in 1 .. i - 1 : ~(example[j].kind = "hint" /\ example[j].name = example[i].name)

Placed(file, example) ==
  [i \in DOMAIN example |->
     IF IsPlace(example, i) /\ example[i].name \in Assigned(file)
     THEN LastOf(file, example[i].name) ELSE example[i]]

\* Names the example has no place for: carried as comments.
Orphans(file, example) ==
  {n \in Assigned(file) : \A i \in DOMAIN example : IsPlace(example, i) => example[i].name # n}

Carried(file, example) ==
  LET orphans == SetToSeq(Orphans(file, example))
      comments == [i \in DOMAIN orphans |-> Hint(orphans[i], LastOf(file, orphans[i]).val)]
  IN IF orphans = <<>> THEN <<>> ELSE <<Prose>> \o comments

\* A file that does not parse is replaced outright.
MergeSettings(file, example) ==
  IF Parses(file) THEN Placed(file, example) \o Carried(file, example) ELSE example
=============================================================================
