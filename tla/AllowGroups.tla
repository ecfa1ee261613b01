---------------------------- MODULE AllowGroups ----------------------------
(***************************************************************************)
(* How a sandbox's allowlist follows its features across re-creates:       *)
(* SeedFor (internal/proxy/vmaccess.go) and reconcile (reconcile.go).      *)
(*                                                                         *)
(* The template marks groups of entries with the features they are for.    *)
(* The list of a new sandbox is the template with the other groups emptied *)
(* down to a note; each later `ptrbox new` of that name restores, empties  *)
(* or appends groups to match the features it is created with, in a file   *)
(* a person edits in between.  A line is a record of what the code tells   *)
(* lines apart by; wording, blanks and comments are all "text".            *)
(***************************************************************************)
EXTENDS Naturals, Sequences, SequencesExt

CONSTANTS
  Features,   \* what a sandbox may have
  Labels,     \* what a @requires marker may name
  Needs,      \* [Labels -> SUBSET Features]: any one of them keeps the group
  Entries,
  Added,      \* the domains a person adds
  Templates,  \* templates there may be, as sequences of lines
  NoList,     \* the sandbox has no list yet
  MaxEdits,   \* bound on the changes a person makes
  MaxLines    \* bound on the length of the list

None == "none"
Line == {[kind |-> "requires", arg |-> l] : l \in Labels}
          \cup {[kind |-> "note", arg |-> l] : l \in Labels}
          \cup {[kind |-> "entry", arg |-> d] : d \in Entries}
          \cup {[kind |-> k, arg |-> None] : k \in {"end", "text"}}

ASSUME GroupsAssumption ==
  /\ Needs \in [Labels -> SUBSET Features]
  /\ Added \subseteq Entries
  /\ Templates \subseteq Seq(Line)
  /\ NoList \notin Seq(Line)
  /\ MaxEdits \in Nat /\ MaxLines \in Nat

VARIABLES
  template,  \* allowed_domains.txt
  file,      \* allowed_domains.d/<vm>.txt, or NoList
  features,  \* of the last create
  earlier,   \* history: of the create before that
  edits,     \* changes made by a person so far
  touched,   \* history: the person changed the list or the template since the
             \* list was seeded
  settled    \* history: a create was the last thing to happen

groupVars == <<template, file, features, earlier, edits, touched, settled>>

Requires(l) == [kind |-> "requires", arg |-> l]
Note(l) == [kind |-> "note", arg |-> l]
Entry(d) == [kind |-> "entry", arg |-> d]
End == [kind |-> "end", arg |-> None]
Text == [kind |-> "text", arg |-> None]

Notes == {Note(l) : l \in Labels}
EntryLines(ds) == {Entry(d) : d \in ds}

GroupTypeOK ==
  /\ template \in Templates
  /\ \/ file = NoList
     \/ file \in Seq(Line) /\ Len(file) <= MaxLines
  /\ features \subseteq Features /\ earlier \subseteq Features
  /\ edits \in 0 .. MaxEdits
  /\ touched \in BOOLEAN /\ settled \in BOOLEAN

----------------------------------------------------------------------------
(* Reading a file.                                                         *)

Is(line, kind) == line.kind = kind

\* The domains on the entry lines.
EntriesOf(lines) == {lines[i].arg : i \in {j \in DOMAIN lines : Is(lines[j], "entry")}}

\* The lines at some of the places, up to each line; the lines but some.
TakenUpTo(lines, places) ==
  LET upTo[i \in 0 .. Len(lines)] ==
        IF i = 0 THEN <<>>
        ELSE IF i \in places THEN Append(upTo[i - 1], lines[i]) ELSE upTo[i - 1]
  IN upTo

Without(lines, gone) ==
  TakenUpTo(lines, {i \in DOMAIN lines : lines[i] \notin gone})[Len(lines)]

IsMarker(x) == x.kind \in {"requires", "end"}

\* The next marker below a line, 0 if there is none.
NextMarker(lines, i) == SelectInSubSeq(lines, i + 1, Len(lines), IsMarker)

\* findGroup: the first marker of that label and the @end before the next
\* marker, 0 for each that is missing.
Start(lines, l) == SelectInSeq(lines, LAMBDA x : x = Requires(l))
Finish(lines, l) ==
  LET next == NextMarker(lines, Start(lines, l))
  IN  IF Start(lines, l) # 0 /\ next # 0 /\ Is(lines[next], "end") THEN next ELSE 0

HasGroup(lines, l) == Start(lines, l) # 0
Closed(lines, l) == Finish(lines, l) # 0
Inside(lines, l) == SubSeq(lines, Start(lines, l) + 1, Finish(lines, l) - 1)

\* What SeedFor insists on: groups do not nest, and each is closed.
Valid(lines) ==
  \A i \in DOMAIN lines :
    /\ Is(lines[i], "requires") => NextMarker(lines, i) # 0 /\ Is(lines[NextMarker(lines, i)], "end")
    /\ Is(lines[i], "end") => \E j \in 1 .. i - 1 : Is(lines[j], "requires") /\ NextMarker(lines, j) = i

\* templateGroups: the groups of a valid template, each below its marker.
Heads(lines) == {i \in DOMAIN lines : Is(lines[i], "requires")}
GroupAt(lines, i) ==
  [label |-> lines[i].arg, lines |-> SubSeq(lines, i + 1, NextMarker(lines, i) - 1)]
Groups(lines) == {GroupAt(lines, i) : i \in Heads(lines)}

Wanted(l, fs) == Needs[l] \cap fs # {}

----------------------------------------------------------------------------
(* SeedFor: the template with the groups not wanted emptied to a note.     *)

\* What is written of a line, and whether what follows it is kept.
Seeding(sofar, x, fs) ==
  CASE Is(x, "requires") ->
         [keep |-> Wanted(x.arg, fs),
          out |-> sofar.out \o <<x>> \o IF Wanted(x.arg, fs) THEN <<>> ELSE <<Note(x.arg)>>]
    [] Is(x, "end") -> [keep |-> TRUE, out |-> Append(sofar.out, x)]
    [] OTHER -> IF sofar.keep THEN [sofar EXCEPT !.out = Append(@, x)] ELSE sofar

SeededUpTo(lines, fs) ==
  LET upTo[i \in 0 .. Len(lines)] ==
        IF i = 0 THEN [keep |-> TRUE, out |-> <<>>] ELSE Seeding(upTo[i - 1], lines[i], fs)
  IN upTo

SeedFor(lines, fs) == SeededUpTo(lines, fs)[Len(lines)].out

----------------------------------------------------------------------------
(* reconcile: each group of the template in turn.                          *)

Replace(lines, l, inside) ==
  SubSeq(lines, 1, Start(lines, l)) \o inside \o SubSeq(lines, Finish(lines, l), Len(lines))

\* Mutant of AppendGroup: the marker loses its label.
AppendUnlabelled(lines, g) ==
  lines \o <<Text, [kind |-> "requires", arg |-> None], Note(g.label)>> \o g.lines \o <<End>>

\* A group the file does not have: its entries that are nowhere in the file.
AppendGroup(lines, g) ==
  LET missing == Without(g.lines, EntryLines(EntriesOf(lines)))
  IN  IF EntriesOf(missing) = {} THEN lines
      ELSE lines \o <<Text, Requires(g.label), Note(g.label)>> \o missing \o <<End>>

\* Mutant of RestoreGroup: the note goes, and nothing comes in its place.
RestoreNoLines(lines, g) ==
  Replace(lines, g.label, Without(Inside(lines, g.label), Notes))

\* An empty group is filled from the template, its notes removed.
RestoreGroup(lines, g) ==
  Replace(lines, g.label,
          Without(Inside(lines, g.label), Notes) \o g.lines)

\* Mutants of EmptyGroup: whatever is inside goes; the entries stay; a note is
\* put before a person's lines each time.
EmptyWholeGroup(lines, g) == Replace(lines, g.label, <<Note(g.label)>>)
EmptyNothing(lines, g) == lines
EmptyGroupAgain(lines, g) ==
  Replace(lines, g.label,
          <<Note(g.label)>> \o Without(Inside(lines, g.label), EntryLines(EntriesOf(g.lines))))

\* A group not wanted loses the template's entries, and no others.
EmptyGroup(lines, g) ==
  LET inside == Inside(lines, g.label)
      kept == Without(inside, EntryLines(EntriesOf(g.lines)))
      note == IF EntriesOf(kept) = {} /\ (\A i \in DOMAIN kept : ~Is(kept[i], "note"))
              THEN <<Note(g.label)>> ELSE <<>>
  IN  IF kept = inside THEN lines ELSE Replace(lines, g.label, note \o kept)

\* A group without its @end is left as it is.
ReconcileGroup(lines, g, fs) ==
  CASE HasGroup(lines, g.label) /\ ~Closed(lines, g.label) -> lines
    [] ~HasGroup(lines, g.label) -> IF Wanted(g.label, fs) THEN AppendGroup(lines, g) ELSE lines
    [] OTHER ->
         IF EntriesOf(Inside(lines, g.label)) = {}
         THEN IF Wanted(g.label, fs) THEN RestoreGroup(lines, g) ELSE lines
         ELSE IF Wanted(g.label, fs) THEN lines ELSE EmptyGroup(lines, g)

ReconciledUpTo(lines, temp, fs) ==
  LET upTo[i \in 0 .. Len(temp)] ==
        IF i = 0 THEN lines
        ELSE IF i \in Heads(temp) THEN ReconcileGroup(upTo[i - 1], GroupAt(temp, i), fs) ELSE upTo[i - 1]
  IN upTo

Reconcile(lines, temp, fs) == ReconciledUpTo(lines, temp, fs)[Len(temp)]

----------------------------------------------------------------------------
GroupInit ==
  /\ template \in Templates
  /\ file = NoList
  /\ features = {} /\ earlier = {}
  /\ edits = 0
  /\ touched = FALSE /\ settled = FALSE

\* `ptrbox new`: the list is seeded or reconciled.
Create(fs) ==
  /\ Valid(template)
  /\ LET result == IF file = NoList THEN SeedFor(template, fs) ELSE Reconcile(file, template, fs)
     IN  Len(result) <= MaxLines /\ file' = result
  /\ features' = fs
  /\ earlier' = IF file = NoList THEN fs ELSE features
  /\ settled' = TRUE
  /\ UNCHANGED <<template, edits, touched>>

\* A template SeedFor does not take ends the command before any change.
RefuseTemplate ==
  /\ ~Valid(template)
  /\ UNCHANGED groupVars

\* The person changes something.
Change ==
  /\ edits < MaxEdits
  /\ edits' = edits + 1
  /\ settled' = FALSE
  /\ UNCHANGED <<features, earlier>>

\* `ptrbox allow <vm> <domain>`: at the end, unless the list has it.
AllowDomain(d) ==
  /\ Change
  /\ file # NoList
  /\ d \notin EntriesOf(file) /\ Len(file) < MaxLines
  /\ file' = Append(file, Entry(d))
  /\ touched' = TRUE
  /\ UNCHANGED template

\* In the editor: a domain anywhere, or a line of any kind out.
InsertEntry(i, d) ==
  /\ Change
  /\ file # NoList
  /\ i \in 1 .. Len(file) + 1 /\ Len(file) < MaxLines
  /\ file' = InsertAt(file, i, Entry(d))
  /\ touched' = TRUE
  /\ UNCHANGED template

DeleteLine(i) ==
  /\ Change
  /\ file # NoList
  /\ i \in DOMAIN file
  /\ file' = RemoveAt(file, i)
  /\ touched' = TRUE
  /\ UNCHANGED template

\* The list file is removed, to start from the template again.
DeleteList ==
  /\ Change
  /\ file # NoList
  /\ file' = NoList
  /\ touched' = FALSE
  /\ UNCHANGED template

EditTemplate ==
  /\ Change
  /\ \E t \in Templates \ {template} : template' = t
  /\ touched' = (file # NoList)
  /\ UNCHANGED file

GroupNext ==
  \/ \E fs \in SUBSET Features : Create(fs)
  \/ RefuseTemplate
  \/ \E d \in Added : AllowDomain(d)
  \/ \E i \in 1 .. MaxLines : DeleteLine(i) \/ \E d \in Added : InsertEntry(i, d)
  \/ DeleteList
  \/ EditTemplate

GroupSpec == GroupInit /\ [][GroupNext]_groupVars

----------------------------------------------------------------------------
(* Properties.                                                             *)

\* A list nobody touched holds, after any number of re-creates, the entries it
\* would hold had it been seeded for the present features.
SeedAgrees ==
  file # NoList /\ ~touched => EntriesOf(file) = EntriesOf(SeedFor(template, features))

\* After a create no group the sandbox has no feature for holds an entry of the
\* template's ("one with a runtime turned off empties it").
OffMeansGone ==
  settled =>
    \A g \in Groups(template) :
      ~Wanted(g.label, features) /\ Closed(file, g.label) =>
        EntriesOf(Inside(file, g.label)) \cap EntriesOf(g.lines) = {}

\* A second create with the same features changes nothing ("reconciling a list
\* that already matches changes nothing").
Idempotent == settled => Reconcile(file, template, features) = file

\* The entries that are a person's: outside the template's groups, or inside
\* one and not the template's there.
PersonsAt(lines, temp) ==
  {i \in DOMAIN lines :
     /\ Is(lines[i], "entry")
     /\ \A g \in Groups(temp) :
          Closed(lines, g.label) /\ i \in Start(lines, g.label) .. Finish(lines, g.label) =>
            lines[i].arg \notin EntriesOf(g.lines)}

Persons(lines, temp) == TakenUpTo(lines, PersonsAt(lines, temp))[Len(lines)]

\* A create keeps every one of them, in its order ("lines outside the groups,
\* and lines you add inside them, are never touched").
PersonsKept ==
  [][settled' /\ file # NoList =>
       Persons(file', template) = Persons(file, template)]_groupVars

\* A feature turned on since the last create brings its whole group ("a
\* re-create with a runtime turned on restores its group").
OnRestores ==
  settled =>
    \A g \in Groups(template) :
      Wanted(g.label, features) /\ ~Wanted(g.label, earlier) /\ Closed(file, g.label) =>
        EntriesOf(g.lines) \subseteq EntriesOf(file)
=============================================================================
