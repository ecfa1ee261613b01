---------------------------- MODULE Install_proofs ----------------------------
(***************************************************************************)
(* Theorems about Install, for any settings, hosts, files and numbers of   *)
(* runs: type correctness, that nothing a person typed is lost while no    *)
(* two runs fall in one second, and what a complete run has set up.        *)
(***************************************************************************)
EXTENDS Install, FiniteSetTheorems, WellFoundedInduction, TLAPS

----------------------------------------------------------------------------
(* Files.                                                                  *)

LEMMA SeqIsFile == ASSUME NEW S, NEW f \in Seq(S) PROVE IsFile(f)
BY DEF IsFile

\* A line at the end leaves the others where they are.
LEMMA AppendLine ==
  ASSUME NEW f, IsFile(f), NEW l
  PROVE  /\ IsFile(Append(f, l))
         /\ Append(f, l)[Len(f) + 1] = l /\ Len(f) + 1 \in DOMAIN Append(f, l)
         /\ \A i \in DOMAIN f : i \in DOMAIN Append(f, l) /\ Append(f, l)[i] = f[i]
<1> DEFINE S == {f[i] : i \in DOMAIN f} \cup {l}
<1>1. f \in Seq(S) /\ l \in S
  BY DEF IsFile
<1> HIDE DEF S
<1>2. Append(f, l) \in Seq(S)
  BY <1>1
<1>3. /\ Append(f, l)[Len(f) + 1] = l /\ Len(f) + 1 \in DOMAIN Append(f, l)
      /\ \A i \in DOMAIN f : i \in DOMAIN Append(f, l) /\ Append(f, l)[i] = f[i]
  BY <1>1
<1>. QED
  BY <1>2, <1>3, SeqIsFile

LEMMA ConcatFiles == ASSUME NEW f, IsFile(f), NEW g, IsFile(g) PROVE IsFile(f \o g)
<1> DEFINE S == {f[i] : i \in DOMAIN f} \cup {g[i] : i \in DOMAIN g}
<1>1. f \in Seq(S) /\ g \in Seq(S)
  BY DEF IsFile
<1> HIDE DEF S
<1>2. f \o g \in Seq(S)
  BY <1>1
<1>. QED
  BY <1>2, SeqIsFile

\* The names a file has and the example has no place for are finitely many.
LEMMA OrphansFinite ==
  ASSUME NEW file, IsFile(file), NEW example PROVE IsFiniteSet(Orphans(file, example))
<1> DEFINE I == {j \in DOMAIN file : file[j].kind = "assign"}
           n(j) == file[j].name
<1>1. IsFiniteSet(I)
  <2>1. DOMAIN file = 1 .. Len(file) /\ Len(file) \in Nat
    BY DEF IsFile
  <2>2. IsFiniteSet(1 .. Len(file))
    BY <2>1, FS_Interval
  <2>. QED
    BY <2>1, <2>2, FS_Subset
<1>2. Assigned(file) = {n(j) : j \in I}
  BY DEF Assigned
<1>3. IsFiniteSet({n(j) : j \in I})
  <2>1. [j \in I |-> n(j)] \in Surjection(I, {n(j) : j \in I})
    BY DEF Surjection
  <2>. QED
    BY <1>1, <2>1, FS_Surjection
<1>4. Orphans(file, example) \subseteq Assigned(file)
  BY DEF Orphans
<1>. QED
  BY <1>2, <1>3, <1>4, FS_Subset

LEMMA PlacedIsFile ==
  ASSUME NEW file, NEW example, IsFile(example) PROVE IsFile(Placed(file, example))
<1>1. DOMAIN example = 1 .. Len(example) /\ Len(example) \in Nat
  BY DEF IsFile
<1> DEFINE l(i) == IF IsPlace(example, i) /\ example[i].name \in Assigned(file)
                   THEN LastOf(file, example[i].name) ELSE example[i]
<1>2. Placed(file, example) = [i \in 1 .. Len(example) |-> l(i)]
  BY <1>1 DEF Placed
<1>3. [i \in 1 .. Len(example) |-> l(i)] \in Seq({l(i) : i \in 1 .. Len(example)})
  BY <1>1
<1>. QED
  BY <1>2, <1>3, SeqIsFile

\* What an update carries is a file of comments.
LEMMA CarriedComments ==
  ASSUME NEW file, IsFile(file), NEW example
  PROVE  /\ IsFile(Carried(file, example))
         /\ \A i \in DOMAIN Carried(file, example) : Carried(file, example)[i].kind \in {"prose", "hint"}
<1> DEFINE O == Orphans(file, example)
           q == SetToSeq(O)
           comments == [i \in DOMAIN q |-> Hint(q[i], LastOf(file, q[i]).val)]
           S == {Prose} \cup {Hint(o, LastOf(file, o).val) : o \in O}
<1>1. q \in [1 .. Cardinality(O) -> O] /\ Cardinality(O) \in Nat
  <2>1. Cardinality(O) \in Nat /\ \E f : f \in Bijection(1 .. Cardinality(O), O)
    BY OrphansFinite, FS_CardinalityType DEF ExistsBijection
  <2>2. \E f \in [1 .. Cardinality(O) -> O] : IsInjective(f)
    BY <2>1 DEF Bijection, Injection, IsInjective
  <2>. QED
    BY <2>1, <2>2 DEF SetToSeq
<1>2. \A o \in O : Hint(o, LastOf(file, o).val) \in S
  OBVIOUS
<1>3. Prose \in S
  OBVIOUS
<1>4. \A l \in S : l.kind \in {"prose", "hint"}
  BY DEF Hint, Prose, Line
<1>5. Carried(file, example) = IF q = <<>> THEN <<>> ELSE <<Prose>> \o comments
  BY DEF Carried
<1>6. DOMAIN q = 1 .. Cardinality(O)
  BY <1>1
<1>7. \A i \in DOMAIN q : Hint(q[i], LastOf(file, q[i]).val) \in S
  <2> HIDE DEF S, q, O
  <2>. QED
    BY <1>1, <1>2, <1>6
<1>8. comments \in Seq(S)
  <2> HIDE DEF S, q, O
  <2>. QED
    BY <1>1, <1>6, <1>7
<1> HIDE DEF S, comments, q
<1>9. Carried(file, example) \in Seq(S)
  BY <1>3, <1>5, <1>8
<1>. QED
  BY <1>4, <1>9, SeqIsFile

LEMMA MergeIsFile ==
  ASSUME NEW file, IsFile(file), NEW example, IsFile(example)
  PROVE  IsFile(MergeSettings(file, example))
BY PlacedIsFile, CarriedComments, ConcatFiles DEF MergeSettings

LEMMA ShippedIsFile == ASSUME NEW p PROVE IsFile(Shipped(p)) /\ IsFile(<<>>) /\ IsFile(Mine)
<1>1. \A l : <<l>> \in Seq({l}) /\ <<>> \in Seq({l})
  OBVIOUS
<1>2. \A l : IsFile(<<l>>) /\ IsFile(<<>>)
  BY <1>1, SeqIsFile
<1>3. IsFile(Example)
  BY InstallAssumption DEF InstallAssumption
<1>4. IsFile(<<Header(p)>> \o Example)
  BY <1>2, <1>3, ConcatFiles
<1>. QED
  BY <1>2, <1>3, <1>4 DEF Shipped, Mine

LEMMA AppendSame ==
  \A S : \A n \in S : \A s, t \in Seq(S) : Append(s, n) = Append(t, n) => s = t
<1> SUFFICES ASSUME NEW S, NEW n \in S, NEW s \in Seq(S), NEW t \in Seq(S),
                    Append(s, n) = Append(t, n)
             PROVE  s = t
  OBVIOUS
<1>. QED
  OBVIOUS

\* A second that has not been is in no name.
LEMMA SecondsPassed ==
  ASSUME NEW n \in Nat, NEW s \in Seq(1 .. n) PROVE Append(s, n + 1) \notin Seq(1 .. n)
OBVIOUS

\* The seconds of a backup are those of its file and the run's.
LEMMA Backups ==
  ASSUME NEW now \in Nat, NEW p \in Paths(now), now = clock, now > 0
  PROVE  /\ BackupOf(p) \in Paths(now) /\ BackupOf(p).file = p.file
         /\ BackupOf(p) # p /\ BackupOf(p).from # <<>>
         /\ \A q \in Paths(now) : BackupOf(q) = BackupOf(p) => q = p
<1>1. p = [file |-> p.file, from |-> p.from] /\ p.from \in Seq(1 .. now)
  BY DEF Paths
<1>2. \A q \in Paths(now) : q = [file |-> q.file, from |-> q.from] /\ q.from \in Seq(1 .. now)
  BY DEF Paths
<1>3. Append(p.from, now) \in Seq(1 .. now)
  BY <1>1
<1>4. Append(p.from, now) # p.from /\ Append(p.from, now) # <<>>
  BY <1>1
<1>5. ASSUME NEW q \in Paths(now), Append(q.from, now) = Append(p.from, now) PROVE q.from = p.from
  <2>1. q.from \in Seq(1 .. now) /\ p.from \in Seq(1 .. now)
    BY <1>1, <1>2
  <2>2. now \in 1 .. now
    OBVIOUS
  <2>. QED
    BY <2>1, <2>2, <1>5, AppendSame, Zenon
<1>. QED
  BY <1>1, <1>2, <1>3, <1>4, <1>5 DEF BackupOf, Path, Paths

LEMMA PathsGrow == ASSUME NEW m \in Nat, NEW n \in Nat, m <= n PROVE Paths(m) \subseteq Paths(n)
<1>1. Seq(1 .. m) \subseteq Seq(1 .. n)
  OBVIOUS
<1>. QED
  BY <1>1 DEF Paths

LEMMA OwnPaths == ASSUME NEW n \in Nat PROVE {Main, Readme, Template, VMFile} \subseteq Paths(n)
BY DEF Main, Readme, Template, VMFile, Path, Paths

LEMMA Clocks ==
  TypeOK => clock \in Nat /\ runs \in Nat /\ clock <= runs /\ edits \in Nat /\ acts \in Nat
BY InstallAssumption DEF InstallAssumption, TypeOK

----------------------------------------------------------------------------
(* Type correctness.                                                       *)

\* Writing one file with lines in it.
LEMMA WithTypes ==
  ASSUME TypeOK, NEW p \in Paths(clock), NEW f, IsFile(f), disk' = With(p, f)
  PROVE  /\ DOMAIN disk' = DOMAIN disk \cup {p} /\ DOMAIN disk' \subseteq Paths(clock)
         /\ \A q \in DOMAIN disk' : IsFile(disk'[q])
BY DEF TypeOK, With

LEMMA InitTypes == Init => TypeOK
<1> SUFFICES ASSUME Init PROVE TypeOK
  OBVIOUS
<1>1. IsFile(NoRead.lines)
  BY ShippedIsFile DEF NoRead
<1>2. DOMAIN disk \subseteq Paths(clock) /\ \A p \in DOMAIN disk : IsFile(disk[p])
  BY InstallAssumption DEF Init, InstallAssumption
<1>3. clock \in 0 .. runs /\ runs \in 0 .. MaxRuns /\ edits \in 0 .. MaxEdits /\ acts \in 0 .. MaxActs
  BY InstallAssumption DEF Init, InstallAssumption
<1>4. ssh \in [include : BOOLEAN, hosts : BOOLEAN]
  BY DEF Init
<1>. QED
  BY <1>1, <1>2, <1>3, <1>4 DEF Init, TypeOK

LEMMA TypeStep == TypeOK /\ [Next]_vars => TypeOK'
<1> SUFFICES ASSUME TypeOK, [Next]_vars PROVE TypeOK'
  OBVIOUS
<1> USE DEF files, net, path, control, bounds
<1>0. /\ clock \in Nat /\ runs \in Nat /\ clock <= runs /\ edits \in Nat /\ acts \in Nat
      /\ {Main, Readme, Template} \subseteq Paths(clock)
      /\ todo \subseteq Paths(clock) /\ IsFile(<<>>) /\ IsFile(Mine) /\ IsFile(NoRead.lines)
  BY Clocks, OwnPaths, ShippedIsFile DEF TypeOK, NoRead
<1>1. CASE Edit
  <2>1. ASSUME NEW p \in DOMAIN disk, NEW l, disk' = With(p, Append(disk[p], l)) \/ (p = Template /\ disk' = With(p, Mine))
        PROVE  DOMAIN disk' = DOMAIN disk /\ \A q \in DOMAIN disk' : IsFile(disk'[q])
    <3>1. IsFile(disk[p]) /\ p \in Paths(clock)
      BY DEF TypeOK
    <3>2. IsFile(Append(disk[p], l))
      BY <3>1, AppendLine
    <3>. QED
      BY <2>1, <3>1, <3>2, <1>0, WithTypes
  <2>2. DOMAIN disk' = DOMAIN disk /\ \A q \in DOMAIN disk' : IsFile(disk'[q])
    BY <1>1, <2>1 DEF Edit
  <2>3. met' \subseteq {"over", "stop", "port", "edit"}
    BY <1>1 DEF Edit, Meets, TypeOK
  <2>4. edits' \in 0 .. MaxEdits
    BY <1>0, <1>1, InstallAssumption DEF Edit, InstallAssumption
  <2>. QED
    BY <1>0, <1>1, <2>2, <2>3, <2>4 DEF Edit, RunGoesOn, TypeOK
<1>2. CASE Outside
  <2>1. acts' \in 0 .. MaxActs /\ RunGoesOn /\ UNCHANGED <<host, files, ssh, path, edits>>
    BY <1>0, <1>2, InstallAssumption
       DEF Outside, ProxyStops, ProxyStarts, OtherSync, PortTurns, Act, InstallAssumption
  <2>2. met' \subseteq {"over", "stop", "port", "edit"}
    BY <1>2 DEF Outside, ProxyStops, ProxyStarts, OtherSync, PortTurns, Meets, TypeOK
  <2>3. /\ proxy' \in {"down", "up"} /\ port' \in {"none", "ours", "foreign"} /\ torn' \in BOOLEAN
    BY <1>2 DEF Outside, ProxyStops, ProxyStarts, OtherSync, PortTurns, Boots, TypeOK
  <2>. QED
    BY <1>0, <2>1, <2>2, <2>3 DEF RunGoesOn, TypeOK
<1>3. CASE Begin
  <2>1. clock' \in Nat /\ clock <= clock' /\ clock' <= runs' /\ runs' \in 0 .. MaxRuns
    BY <1>0, <1>3, InstallAssumption DEF Begin, TypeOK, InstallAssumption
  <2>2. Paths(clock) \subseteq Paths(clock')
    BY <1>0, <2>1, PathsGrow
  <2>. QED
    BY <1>3, <2>1, <2>2 DEF Begin, TypeOK
<1>4. ASSUME NEW p \in todo, SeedFile(p) PROVE TypeOK'
  <2>1. CASE UNCHANGED disk /\ After(p)
    BY <1>0, <1>4, <2>1 DEF SeedFile, After, TypeOK
  <2>2. CASE Write(p, Shipped(p))
    <3>1. DOMAIN disk \subseteq DOMAIN disk' /\ DOMAIN disk' \subseteq Paths(clock) /\ \A q \in DOMAIN disk' : IsFile(disk'[q])
      BY <1>0, <2>2, ShippedIsFile, WithTypes DEF Write
    <3>. QED
      BY <1>0, <1>4, <2>2, <3>1 DEF SeedFile, Write, After, Stop, TypeOK
  <2>. QED
    BY <1>4, <2>1, <2>2 DEF SeedFile
<1>5. ASSUME NEW p \in todo, KeepFile(p) PROVE TypeOK'
  BY <1>0, <1>5 DEF KeepFile, After, TypeOK
<1>15. ASSUME NEW p \in todo, Offer(p) PROVE TypeOK'
  <2>1. read'.of = p /\ read'.lines = disk[p] /\ IsFile(disk[p]) /\ p \in DOMAIN disk
    BY <1>15 DEF Offer, TypeOK
  <2>. QED
    BY <1>0, <1>15, <2>1 DEF Offer, TypeOK
<1>16. CASE Decline
  BY <1>0, <1>16 DEF Decline, After, TypeOK
<1>6. CASE BackUp
  <2>1. read.of \in Paths(clock) /\ read.of \in DOMAIN disk /\ IsFile(read.lines)
    BY <1>0, <1>6 DEF BackUp, TypeOK
  <2>2. BackupOf(read.of) \in Paths(clock)
    BY <1>0, <1>6, <2>1, Backups DEF BackUp, TypeOK
  <2>3. DOMAIN disk \subseteq DOMAIN disk' /\ DOMAIN disk' \subseteq Paths(clock) /\ \A q \in DOMAIN disk' : IsFile(disk'[q])
    BY <1>0, <1>6, <2>1, <2>2, WithTypes DEF BackUp
  <2>5. CASE Stop
    BY <1>0, <1>6, <2>3, <2>5 DEF BackUp, Stop, TypeOK
  <2>6. CASE Go("replace")
    BY <1>0, <1>6, <2>1, <2>3, <2>6 DEF BackUp, Go, TypeOK
  <2>. QED
    BY <1>6, <2>5, <2>6 DEF BackUp
<1>7. CASE Replace
  <2>1. read.of \in Paths(clock) /\ read.of \in todo /\ IsFile(read.lines)
    BY <1>0, <1>7 DEF Replace, TypeOK
  <2>3. IsFile(Update)
    BY <2>1, ShippedIsFile, MergeIsFile DEF Update
  <2>2. DOMAIN disk \subseteq DOMAIN disk' /\ DOMAIN disk' \subseteq Paths(clock) /\ \A q \in DOMAIN disk' : IsFile(disk'[q])
    BY <1>0, <1>7, <2>1, <2>3, WithTypes DEF Replace, Write
  <2>. QED
    BY <1>0, <1>7, <2>1, <2>2 DEF Replace, Write, After, Stop, TypeOK
<1>8. CASE SSHInclude
  <2>1. ssh' \in [include : BOOLEAN, hosts : BOOLEAN]
    <3>1. ssh \in [include : BOOLEAN, hosts : BOOLEAN]
      BY DEF TypeOK
    <3>2. ssh' \in {ssh, [ssh EXCEPT !.include = TRUE], [include |-> FALSE, hosts |-> FALSE]}
      BY <1>8 DEF SSHInclude
    <3>3. [ssh EXCEPT !.include = TRUE] \in [include : BOOLEAN, hosts : BOOLEAN]
      BY <3>1
    <3>4. [include |-> FALSE, hosts |-> FALSE] \in [include : BOOLEAN, hosts : BOOLEAN]
      OBVIOUS
    <3>. QED
      BY <3>1, <3>2, <3>3, <3>4, Zenon
  <2>2. CASE Go("proxy")
    BY <1>0, <1>8, <2>1, <2>2 DEF SSHInclude, Go, TypeOK
  <2>3. CASE Stop
    BY <1>0, <1>8, <2>1, <2>3 DEF SSHInclude, Stop, TypeOK
  <2>. QED
    BY <1>8, <2>2, <2>3 DEF SSHInclude
<1>9. CASE EnsureProxy
  <2>1. DOMAIN disk \subseteq DOMAIN disk' /\ DOMAIN disk' \subseteq Paths(clock) /\ \A q \in DOMAIN disk' : IsFile(disk'[q])
    BY <1>0, <1>9, ShippedIsFile, WithTypes DEF EnsureProxy, TypeOK
  <2>2. Go("sync") => Template \in DOMAIN disk'
    BY <1>9 DEF EnsureProxy, Go, Stop, With
  <2>3. /\ proxy' \in {"down", "up"} /\ port' \in {"none", "ours", "foreign"} /\ torn' \in BOOLEAN
    BY <1>9 DEF EnsureProxy, Boots, TypeOK
  <2>4. CASE Go("sync")
    BY <1>0, <1>9, <2>1, <2>2, <2>3, <2>4 DEF EnsureProxy, Go, TypeOK
  <2>5. CASE Stop
    BY <1>0, <1>9, <2>1, <2>3, <2>5 DEF EnsureProxy, Stop, TypeOK
  <2>. QED
    BY <1>9, <2>4, <2>5 DEF EnsureProxy
<1>10. CASE Push \/ Reload \/ VerifyEgress
  <2>1. UNCHANGED <<host, files, ssh, proxy, port, path, bounds>> /\ torn' \in BOOLEAN
    BY <1>10 DEF Push, Reload, VerifyEgress, TypeOK
  <2>2. pc \in {"sync", "reload", "verify"}
        /\ \E to \in {"reload", "verify", "link"} : Go(to)
    BY <1>10 DEF Push, Reload, VerifyEgress
  <2>. QED
    BY <1>0, <2>1, <2>2 DEF Go, TypeOK
<1>11. CASE Link
  BY <1>0, <1>11 DEF Link, Go, Stop, TypeOK
<1>12. CASE PathEntry
  BY <1>0, <1>12 DEF PathEntry, Go, TypeOK
<1>13. CASE Report \/ Die
  <2>1. Stop /\ UNCHANGED <<host, files, ssh, proxy, port, pushed, served, path, bounds>> /\ torn' \in BOOLEAN
    BY <1>13 DEF Report, Die, TypeOK
  <2>. QED
    BY <1>0, <2>1 DEF Stop, TypeOK
<1>14. CASE UNCHANGED vars
  BY <1>14 DEF vars, TypeOK
<1>. QED
  BY <1>1, <1>2, <1>3, <1>4, <1>5, <1>6, <1>7, <1>8, <1>9, <1>10, <1>11, <1>12, <1>13, <1>14, <1>15, <1>16
     DEF Next, Run, Files

\* Install is type-correct.
THEOREM InstallTypeCorrect == Spec => []TypeOK
BY InitTypes, TypeStep, PTL DEF Spec

----------------------------------------------------------------------------
(* What a person typed.                                                    *)

Has(f, line) == \E i \in DOMAIN f : Says(f[i], line)

\* A line someone typed is still in a file, or in one of its backups.
Kept(t) == \E p \in DOMAIN disk : p.file = t.file /\ Has(disk[p], t.line)

\* It is in another than the file this run offers to replace, or in what it read.
Elsewhere(t) == \E p \in DOMAIN disk \ {read.of} : p.file = t.file /\ Has(disk[p], t.line)
InRead(t) == t.file = read.of.file /\ Has(read.lines, t.line)

\* While a run goes on, the files it has yet to do have no backup of this
\* second, and what the file it is replacing loses is kept elsewhere.
BackupInv ==
  /\ \A t \in typed : t.file = "template" => t.line = Mine[1]
  /\ pc \in {"files", "ask"} => \A p \in todo : BackupOf(p) \notin DOMAIN disk
  /\ pc = "replace" => \A p \in todo \ {read.of} : BackupOf(p) \notin DOMAIN disk
  /\ pc = "ask" => \A t \in typed : ~t.late => Elsewhere(t) \/ InRead(t)
  /\ pc = "replace" => \A t \in typed : ~t.late => Elsewhere(t)

KeptInv == TypeOK /\ Recoverable /\ BackupInv

LEMMA RecoverableIsKept == Recoverable <=> \A t \in typed : ~t.late => Kept(t)
BY DEF Recoverable, Kept, Has

\* A step that leaves the files there are as they are.
LEMMA FilesStay ==
  ASSUME UNCHANGED typed, \A q \in DOMAIN disk : q \in DOMAIN disk' /\ disk'[q] = disk[q]
  PROVE  /\ Recoverable => Recoverable'
         /\ \A t : UNCHANGED read /\ Elsewhere(t) => Elsewhere(t)'
<1>1. \A t \in typed : Kept(t) => Kept(t)'
  BY DEF Kept
<1>2. \A t : UNCHANGED read /\ Elsewhere(t) => Elsewhere(t)'
  BY DEF Elsewhere
<1>3. Recoverable' <=> \A t \in typed' : ~t.late => Kept(t)'
  BY DEF Recoverable, Kept, Has
<1>. QED
  BY <1>1, <1>2, <1>3, RecoverableIsKept

\* An edit takes away nothing that was typed before.
LEMMA EditLeaves ==
  ASSUME KeptInv, Edit
  PROVE  /\ DOMAIN disk' = DOMAIN disk
         /\ \A t \in typed, q \in DOMAIN disk :
              q.file = t.file /\ Has(disk[q], t.line) => Has(disk'[q], t.line)
<1>1. ASSUME NEW p \in DOMAIN disk, NEW l, disk' = With(p, Append(disk[p], l))
      PROVE  /\ DOMAIN disk' = DOMAIN disk
             /\ \A q \in DOMAIN disk : \A line : Has(disk[q], line) => Has(disk'[q], line)
  <2>1. IsFile(disk[p])
    BY DEF KeptInv, TypeOK
  <2>2. /\ DOMAIN disk' = DOMAIN disk /\ disk'[p] = Append(disk[p], l)
        /\ \A q \in DOMAIN disk \ {p} : disk'[q] = disk[q]
    BY <1>1 DEF With
  <2>3. \A i \in DOMAIN disk[p] : i \in DOMAIN disk'[p] /\ disk'[p][i] = disk[p][i]
    BY <2>1, <2>2, AppendLine
  <2>4. \A line : Has(disk[p], line) => Has(disk'[p], line)
    BY <2>3 DEF Has
  <2>. QED
    BY <2>2, <2>4
<1>2. ASSUME Template \in DOMAIN disk, disk' = With(Template, Mine)
      PROVE  /\ DOMAIN disk' = DOMAIN disk
             /\ \A t \in typed, q \in DOMAIN disk :
                  q.file = t.file /\ Has(disk[q], t.line) => Has(disk'[q], t.line)
  <2>1. /\ DOMAIN disk' = DOMAIN disk /\ disk'[Template] = Mine
        /\ \A q \in DOMAIN disk \ {Template} : disk'[q] = disk[q]
    BY <1>2 DEF With
  <2>2. \A t \in typed : t.file = "template" => t.line = Mine[1]
    BY DEF KeptInv, BackupInv
  <2>3. Has(Mine, Mine[1])
    BY DEF Has, Says, Mine
  <2>4. Template.file = "template"
    BY DEF Template, Path
  <2>. QED
    BY <2>1, <2>2, <2>3, <2>4
<1>3. CASE \E p \in DOMAIN disk \cap {Main, VMFile}, l \in Edits : disk' = With(p, Append(disk[p], l))
  BY <1>1, <1>3
<1>4. CASE Template \in DOMAIN disk /\ disk' = With(Template, Mine)
  BY <1>2, <1>4
<1>. QED
  BY <1>3, <1>4 DEF Edit

\* What it adds is in the file it is added to.
LEMMA EditAdds ==
  ASSUME KeptInv, Edit, NEW t \in typed', t \notin typed
  PROVE  /\ \E p \in DOMAIN disk : p.file = t.file /\ Has(disk'[p], t.line) /\ (~t.late => ~InHand(p))
         /\ t.file = "template" => t.line = Mine[1]
<1>1. ASSUME NEW p \in DOMAIN disk \cap {Main, VMFile}, NEW l \in Edits,
             disk' = With(p, Append(disk[p], l)), t = [file |-> p.file, line |-> l, late |-> InHand(p)]
      PROVE  /\ p.file = t.file /\ Has(disk'[p], t.line) /\ (~t.late => ~InHand(p))
             /\ t.file # "template"
  <2>1. IsFile(disk[p])
    BY DEF KeptInv, TypeOK
  <2>2. disk'[p] = Append(disk[p], l)
    BY <1>1 DEF With
  <2>3. Len(disk[p]) + 1 \in DOMAIN disk'[p] /\ disk'[p][Len(disk[p]) + 1] = l
    BY <2>1, <2>2, AppendLine
  <2>4. Has(disk'[p], l)
    BY <2>3 DEF Has, Says
  <2>5. p.file # "template"
    BY DEF Main, VMFile, Path
  <2>. QED
    BY <1>1, <2>4, <2>5
<1>2. ASSUME Template \in DOMAIN disk, disk' = With(Template, Mine),
             t = [file |-> "template", line |-> Mine[1], late |-> InHand(Template)]
      PROVE  /\ Template.file = t.file /\ Has(disk'[Template], t.line) /\ (~t.late => ~InHand(Template))
             /\ t.line = Mine[1]
  <2>1. disk'[Template] = Mine
    BY <1>2 DEF With
  <2>2. Has(Mine, Mine[1]) /\ Template.file = "template"
    BY DEF Has, Says, Mine, Template, Path
  <2>. QED
    BY <1>2, <2>1, <2>2
<1>3. \/ \E p \in DOMAIN disk \cap {Main, VMFile}, l \in Edits :
           disk' = With(p, Append(disk[p], l)) /\ t = [file |-> p.file, line |-> l, late |-> InHand(p)]
      \/ /\ Template \in DOMAIN disk /\ disk' = With(Template, Mine)
         /\ t = [file |-> "template", line |-> Mine[1], late |-> InHand(Template)]
  BY DEF Edit
<1>. QED
  BY <1>1, <1>2, <1>3

\* An added line, or a rewritten template, leaves what was typed before.
LEMMA EditKept == KeptInv /\ Edit => Recoverable' /\ BackupInv'
<1> SUFFICES ASSUME KeptInv, Edit PROVE Recoverable' /\ BackupInv'
  OBVIOUS
<1>0. Recoverable /\ BackupInv /\ UNCHANGED <<pc, todo, read, clock>> /\ DOMAIN disk' = DOMAIN disk
  BY EditLeaves DEF KeptInv, Edit, RunGoesOn
<1>1. ASSUME NEW t \in typed', ~t.late
      PROVE  /\ Kept(t)'
             /\ pc = "ask" => Elsewhere(t)' \/ InRead(t)'
             /\ pc = "replace" => Elsewhere(t)'
  <2>1. CASE t \in typed
    <3>1. Kept(t) => Kept(t)'
      BY <1>0, <2>1, EditLeaves DEF Kept
    <3>2. Elsewhere(t) => Elsewhere(t)'
      BY <1>0, <2>1, EditLeaves DEF Elsewhere
    <3>3. InRead(t) => InRead(t)'
      BY <1>0 DEF InRead
    <3>4. Kept(t)
      BY <1>0, <1>1, <2>1, RecoverableIsKept
    <3>5. /\ pc = "ask" => Elsewhere(t) \/ InRead(t)
          /\ pc = "replace" => Elsewhere(t)
      BY <1>0, <1>1, <2>1 DEF BackupInv
    <3>. QED
      BY <3>1, <3>2, <3>3, <3>4, <3>5
  <2>2. CASE t \notin typed
    <3>1. PICK p \in DOMAIN disk : p.file = t.file /\ Has(disk'[p], t.line) /\ (~t.late => ~InHand(p))
      BY <2>2, EditAdds
    <3>2. pc \in {"ask", "replace"} => p # read.of
      BY <1>1, <3>1 DEF InHand
    <3>3. Kept(t)'
      BY <1>0, <3>1 DEF Kept
    <3>4. pc \in {"ask", "replace"} => Elsewhere(t)'
      BY <1>0, <3>1, <3>2 DEF Elsewhere
    <3>. QED
      BY <3>3, <3>4
  <2>. QED
    BY <2>1, <2>2
<1>2. \A t \in typed' : t.file = "template" => t.line = Mine[1]
  <2> TAKE t \in typed'
  <2>1. CASE t \in typed
    BY <1>0, <2>1 DEF BackupInv
  <2>2. CASE t \notin typed
    BY <2>2, EditAdds
  <2>. QED
    BY <2>1, <2>2
<1>3. Recoverable' <=> \A t \in typed' : ~t.late => Kept(t)'
  BY DEF Recoverable, Kept, Has
<1>4. \A p : BackupOf(p)' = BackupOf(p)
  BY <1>0 DEF BackupOf
<1>. QED
  BY <1>0, <1>1, <1>2, <1>3, <1>4 DEF BackupInv

LEMMA KeptStep == ~SameSecond /\ KeptInv /\ [Next]_vars => KeptInv'
<1> SUFFICES ASSUME ~SameSecond, KeptInv, [Next]_vars PROVE Recoverable' /\ BackupInv'
  BY TypeStep DEF KeptInv
<1> USE DEF files, net, path, control
<1>0. /\ clock \in Nat /\ DOMAIN disk \subseteq Paths(clock) /\ todo \subseteq Paths(clock)
      /\ todo \subseteq DOMAIN disk \cup {Main, Readme, Template}
      /\ Recoverable /\ BackupInv /\ (pc = "idle" \/ clock > 0)
      /\ pc \in {"ask", "replace"} => read.of \in todo \cap DOMAIN disk
  BY Clocks, OwnPaths DEF KeptInv, TypeOK
<1>1. CASE Edit
  BY <1>1, EditKept
<1>2. CASE UNCHANGED <<disk, typed>> /\ pc' \notin {"files", "ask", "replace"}
  BY <1>0, <1>2, FilesStay DEF BackupInv
<1>14. CASE UNCHANGED <<disk, typed, pc, todo, read, clock>>
  BY <1>0, <1>14, FilesStay DEF BackupInv, BackupOf, Elsewhere, InRead
<1>3. CASE Begin
  <2>1. UNCHANGED <<disk, typed>> /\ pc' = "files" /\ clock' = clock + 1
    BY <1>3 DEF Begin
  <2>2. todo' \subseteq Paths(clock)
    BY <1>0, <1>3, OwnPaths DEF Begin
  <2>3. ASSUME NEW p \in todo' PROVE BackupOf(p)' \notin DOMAIN disk
    <3>1. p.from \in Seq(1 .. clock) /\ BackupOf(p)'.from = Append(p.from, clock + 1)
      BY <2>1, <2>2 DEF Paths, BackupOf, Path
    <3>2. Append(p.from, clock + 1) \notin Seq(1 .. clock)
      BY <1>0, <3>1, SecondsPassed
    <3>. QED
      BY <1>0, <3>1, <3>2 DEF Paths
  <2>. QED
    BY <1>0, <2>1, <2>3, FilesStay DEF BackupInv
<1>4. ASSUME NEW p \in todo, SeedFile(p) PROVE Recoverable' /\ BackupInv'
  <2>1. CASE UNCHANGED disk /\ After(p)
    <3>1. UNCHANGED typed /\ pc = "files"
      BY <1>4 DEF SeedFile
    <3>. QED
      BY <1>0, <2>1, <3>1, FilesStay DEF After, BackupInv, BackupOf
  <2>2. CASE Write(p, Shipped(p))
    <3>1. /\ \A q \in DOMAIN disk : q \in DOMAIN disk' /\ disk'[q] = disk[q]
          /\ DOMAIN disk' = DOMAIN disk \cup {p} /\ p \notin DOMAIN disk /\ UNCHANGED typed
          /\ pc = "files"
      BY <1>4, <2>2 DEF SeedFile, Write, With
    <3>2. Recoverable'
      BY <1>0, <3>1, FilesStay
    <3>3. p.from = <<>>
      BY <1>0, <3>1 DEF Main, Readme, Template, Path
    <3>4. \A q \in todo : BackupOf(q) # p
      BY <1>0, <3>1, <3>3, Backups
    <3>5. pc' \in {"idle", "files", "ssh"} /\ todo' \subseteq todo /\ clock' = clock
      BY <2>2 DEF Write, After, Stop
    <3>. QED
      BY <1>0, <3>1, <3>2, <3>4, <3>5 DEF BackupInv, BackupOf
  <2>. QED
    BY <1>4, <2>1, <2>2 DEF SeedFile
<1>5. ASSUME NEW p \in todo, KeepFile(p) PROVE Recoverable' /\ BackupInv'
  <2>1. UNCHANGED <<disk, typed, clock>> /\ pc = "files" /\ pc' \in {"files", "ssh"} /\ todo' \subseteq todo
    BY <1>5 DEF KeepFile, After
  <2>. QED
    BY <1>0, <2>1, FilesStay DEF BackupInv, BackupOf
<1>11. ASSUME NEW p \in todo, Offer(p) PROVE Recoverable' /\ BackupInv'
  <2>1. /\ UNCHANGED <<disk, typed, todo, clock>> /\ pc = "files" /\ pc' = "ask"
        /\ p \in DOMAIN disk /\ read'.of = p /\ read'.lines = disk[p]
    BY <1>11 DEF Offer
  <2>2. ASSUME NEW t \in typed, ~t.late PROVE Elsewhere(t)' \/ InRead(t)'
    <3>1. PICK q \in DOMAIN disk : q.file = t.file /\ Has(disk[q], t.line)
      BY <1>0, <2>2, RecoverableIsKept DEF Kept
    <3>2. CASE q = p
      BY <2>1, <3>1, <3>2 DEF InRead
    <3>3. CASE q # p
      BY <2>1, <3>1, <3>3 DEF Elsewhere
    <3>. QED
      BY <3>2, <3>3
  <2>. QED
    BY <1>0, <2>1, <2>2, FilesStay DEF BackupInv, BackupOf
<1>12. CASE Decline
  <2>1. UNCHANGED <<disk, typed, clock>> /\ pc = "ask" /\ pc' \in {"files", "ssh"} /\ todo' \subseteq todo
    BY <1>12 DEF Decline, After
  <2>. QED
    BY <1>0, <2>1, FilesStay DEF BackupInv, BackupOf
<1>6. CASE BackUp
  <2> DEFINE p == read.of
             b == BackupOf(read.of)
  <2>1. p \in DOMAIN disk /\ p \in todo /\ pc = "ask" /\ UNCHANGED typed
    BY <1>0, <1>6 DEF BackUp
  <2>2. PICK f : disk' = With(b, f)
    BY <1>6 DEF BackUp
  <2>3. b \notin DOMAIN disk
    BY <1>0, <2>1 DEF BackupInv
  <2>4. /\ \A q \in DOMAIN disk : q \in DOMAIN disk' /\ disk'[q] = disk[q]
        /\ DOMAIN disk' = DOMAIN disk \cup {b}
    BY <2>2, <2>3 DEF With
  <2>5. Recoverable'
    BY <1>0, <2>1, <2>4, FilesStay
  <2>6. /\ \A q \in todo : BackupOf(q) = b => q = p
        /\ b # p /\ b.file = p.file
    BY <1>0, <2>1, Backups
  <2>7. CASE Go("replace")
    <3>1. disk'[b] = read.lines /\ pc' = "replace" /\ UNCHANGED <<todo, clock, read>>
      BY <1>6, <2>7 DEF BackUp, With, Stop, Go
    <3>2. \A q \in todo \ {p} : BackupOf(q) \notin DOMAIN disk'
      BY <1>0, <2>1, <2>4, <2>6 DEF BackupInv
    <3>3. ASSUME NEW t \in typed, ~t.late PROVE Elsewhere(t)'
      <4>1. CASE Elsewhere(t)
        BY <2>1, <2>4, <3>1, <4>1, FilesStay
      <4>2. CASE InRead(t)
        <5>1. b \in DOMAIN disk' \ {read'.of} /\ b.file = t.file /\ Has(disk'[b], t.line)
          BY <2>4, <2>6, <3>1, <4>2 DEF InRead
        <5>. HIDE DEF b
        <5>. QED
          BY <5>1 DEF Elsewhere
      <4>. QED
        BY <1>0, <2>1, <3>3, <4>1, <4>2 DEF BackupInv
    <3>. QED
      BY <1>0, <2>1, <2>5, <3>1, <3>2, <3>3 DEF BackupInv, BackupOf
  <2>8. CASE Stop
    BY <1>0, <2>1, <2>5, <2>8 DEF Stop, BackupInv
  <2>. QED
    BY <1>6, <2>7, <2>8 DEF BackUp
<1>7. CASE Replace
  <2>1. read.of \in DOMAIN disk /\ pc = "replace" /\ UNCHANGED typed
    BY <1>0, <1>7 DEF Replace
  <2>2. /\ \A q \in DOMAIN disk \ {read.of} : q \in DOMAIN disk' /\ disk'[q] = disk[q]
        /\ DOMAIN disk' = DOMAIN disk
    BY <1>7, <2>1 DEF Replace, Write, With
  <2>3. \A t \in typed : ~t.late => Kept(t)'
    BY <1>0, <2>1, <2>2 DEF BackupInv, Elsewhere, Kept
  <2>4. Recoverable' <=> \A t \in typed' : ~t.late => Kept(t)'
    BY DEF Recoverable, Kept, Has
  <2>5. pc' \in {"idle", "files", "ssh"} /\ clock' = clock /\ todo' \subseteq todo
        /\ (pc' = "files" => todo' = todo \ {read.of})
    BY <1>7 DEF Replace, Write, After, Stop
  <2>. QED
    BY <1>0, <2>1, <2>2, <2>3, <2>4, <2>5 DEF BackupInv, BackupOf
<1>8. CASE SSHInclude \/ Push \/ Reload \/ VerifyEgress \/ Link \/ PathEntry \/ Report \/ Die
  BY <1>2, <1>8 DEF SSHInclude, Push, Reload, VerifyEgress, Link, PathEntry, Report, Die, Go, Stop
<1>13. CASE Outside
  BY <1>13, <1>14 DEF Outside, ProxyStops, ProxyStarts, OtherSync, PortTurns, Act, RunGoesOn
<1>9. CASE EnsureProxy
  <2>1. UNCHANGED typed /\ pc' \in {"idle", "sync"}
    BY <1>9 DEF EnsureProxy, Go, Stop
  <2>2. \A q \in DOMAIN disk : q \in DOMAIN disk' /\ disk'[q] = disk[q]
    BY <1>9 DEF EnsureProxy, With
  <2>. QED
    BY <1>0, <2>1, <2>2, FilesStay DEF BackupInv
<1>10. CASE UNCHANGED vars
  BY <1>10, <1>14 DEF vars
<1>. QED
  BY <1>1, <1>3, <1>4, <1>5, <1>6, <1>7, <1>8, <1>9, <1>10, <1>11, <1>12, <1>13 DEF Next, Run, Files

\* While no two runs fall in one second, nothing a person typed into a seeded
\* file is lost, whatever run is cut short where, but for what is saved to a file
\* while the offer to replace it stands (seed.go, offerUpdate).
THEOREM TypedIsKept == ~SameSecond => (Spec => []Recoverable)
<1> SUFFICES ASSUME ~SameSecond PROVE Spec => []Recoverable
  OBVIOUS
<1>1. Init => KeptInv
  BY InitTypes DEF Init, KeptInv, Recoverable, BackupInv
<1>2. KeptInv => Recoverable
  BY DEF KeptInv
<1>. QED
  BY <1>1, <1>2, KeptStep, PTL DEF Spec

----------------------------------------------------------------------------
(* What a complete run has set up.                                         *)

\* The proxy VM, its port and its files; from the proxy's start on, what this
\* run found or did, but for what others did since.
ProxyInv ==
  /\ proxy = "down" => port # "ours"
  /\ torn \/ pc = "reload" \/ served = pushed
  /\ host.forwards /\ pc # "idle" /\ met \cap {"over", "stop", "port"} = {} =>
       port = IF proxy = "up" THEN "ours" ELSE "none"

RunInv ==
  /\ pc \in {"sync", "reload", "verify", "link", "rc", "done"} /\ "stop" \notin met => proxy = "up"
  /\ pc \in {"reload", "verify", "link", "rc", "done"} /\ "edit" \notin met => pushed = disk[Template]

PathInv ==
  /\ pc = "rc" => link = "this"
  /\ pc = "done" /\ flags.yes /\ host.links /\ host.startup => link = "this" /\ rc

SetupInv == ProxyInv /\ RunInv /\ PathInv

\* Others' doings are kept in mind.
LEMMA OthersStep == TypeOK /\ SetupInv /\ (Outside \/ Edit) => SetupInv'
<1> SUFFICES ASSUME TypeOK, SetupInv, Outside \/ Edit PROVE SetupInv'
  OBVIOUS
<1> USE DEF files, net, path, SetupInv
<1>0. UNCHANGED <<pc, flags, host, path>>
  BY DEF Outside, ProxyStops, ProxyStarts, OtherSync, PortTurns, Act, RunGoesOn, Edit
<1>1. PathInv'
  BY <1>0 DEF PathInv
<1>2. CASE Edit
  <2>1. UNCHANGED net /\ met \subseteq met' /\ (pc = "idle" \/ met' \subseteq met \cup {"edit"})
    BY <1>2 DEF Edit, Meets
  <2>2. ProxyInv'
    BY <1>0, <2>1 DEF ProxyInv
  <2>3. ASSUME pc \in {"reload", "verify", "link", "rc", "done"}, "edit" \notin met'
        PROVE  disk'[Template] = disk[Template]
    <3>1. PICK p \in DOMAIN disk \cap {Main, VMFile}, l \in Edits : disk' = With(p, Append(disk[p], l))
      BY <1>2, <2>3 DEF Edit, Meets
    <3>2. p # Template /\ Template \in DOMAIN disk
      BY <2>3 DEF Main, VMFile, Template, Path, TypeOK
    <3>. QED
      BY <3>1, <3>2 DEF With
  <2>4. RunInv'
    BY <1>0, <2>1, <2>3 DEF RunInv
  <2>. QED
    BY <1>1, <2>2, <2>4
<1>3. CASE Outside
  <2>1. UNCHANGED disk /\ met \subseteq met'
    BY <1>3 DEF Outside, ProxyStops, ProxyStarts, OtherSync, PortTurns, Act, Meets
  <2>2. ProxyInv'
    BY <1>0, <1>3, <2>1
       DEF Outside, ProxyStops, ProxyStarts, OtherSync, PortTurns, Meets, Boots, ProxyInv, TypeOK
  <2>3. RunInv'
    BY <1>0, <1>3, <2>1
       DEF Outside, ProxyStops, ProxyStarts, OtherSync, PortTurns, Meets, Boots, RunInv, TypeOK
  <2>. QED
    BY <1>1, <2>2, <2>3
<1>. QED
  BY <1>2, <1>3

LEMMA SetupStep == TypeOK /\ SetupInv /\ [Next]_vars => SetupInv'
<1> SUFFICES ASSUME TypeOK, SetupInv, [Next]_vars PROVE SetupInv'
  OBVIOUS
<1> USE DEF files, net, path, control, SetupInv, ProxyInv, RunInv, PathInv, TypeOK
<1>1. CASE Edit \/ Outside
  BY <1>1, OthersStep
<1>3. CASE Begin
  BY <1>3 DEF Begin, PortTaken
<1>4. CASE Files \/ Decline \/ BackUp \/ Replace
  <2>1. /\ UNCHANGED <<host, net, path>> /\ pc \in {"files", "ask", "replace"}
        /\ pc' = "idle" \/ (pc' \in {"files", "ask", "replace", "ssh"} /\ UNCHANGED met)
    BY <1>4 DEF Files, SeedFile, KeepFile, Offer, Decline, BackUp, Replace, Write, After, Stop, Go
  <2>. QED
    BY <2>1
<1>6. CASE SSHInclude
  BY <1>6 DEF SSHInclude, Go, Stop
<1>7. CASE EnsureProxy
  <2>1. pc = "proxy" /\ UNCHANGED <<host, path>> /\ (Go("sync") \/ (Stop /\ UNCHANGED net))
    BY <1>7 DEF EnsureProxy
  <2>2. CASE Go("sync")
    <3>1. /\ pc' = "sync" /\ UNCHANGED met /\ pc' \notin {"reload", "verify", "link", "rc", "done"}
      BY <2>2 DEF Go
    <3>2. proxy' = "up" /\ (torn' \/ served' = pushed')
      BY <1>7, <2>1, <2>2 DEF EnsureProxy, Boots, Go, Stop
    <3>3. port' = port \/ port' = "ours"
      BY <1>7 DEF EnsureProxy, Boots
    <3>4. proxy = "down" /\ port = "none" => port' = "ours"
      BY <1>7, <2>2 DEF EnsureProxy, Boots, Go, Stop
    <3>. QED
      BY <2>1, <3>1, <3>2, <3>3, <3>4
  <2>3. CASE Stop /\ UNCHANGED net
    BY <2>1, <2>3 DEF Stop
  <2>. QED
    BY <2>1, <2>2, <2>3
<1>8. CASE Push
  BY <1>8 DEF Push, Go
<1>2. CASE Reload
  BY <1>2 DEF Reload, Go
<1>5. CASE VerifyEgress
  BY <1>5 DEF VerifyEgress, Go
<1>9. CASE Link
  BY <1>9 DEF Link, Go, Stop, Answers
<1>10. CASE PathEntry
  BY <1>10 DEF PathEntry, Go, Answers
<1>11. CASE Report \/ Die
  BY <1>11 DEF Report, Die, Stop
<1>12. CASE UNCHANGED vars
  BY <1>12 DEF vars
<1>. QED
  BY <1>1, <1>2, <1>3, <1>4, <1>5, <1>6, <1>7, <1>8, <1>9, <1>10, <1>11, <1>12 DEF Next, Run

\* "host setup complete" means a proxy that runs and serves the host's template
\* on its own port, and a ptrbox new shells find, but for what others did to the
\* proxy, the template and the port during the run, a proxy started before it
\* over a taken port, and a Sync cut before its reload (install.go, proxy.go).
THEOREM CompleteIsTrue == Spec => []CompleteIsSo
<1>1. Init => SetupInv
  BY DEF Init, SetupInv, ProxyInv, RunInv, PathInv
<1>2. TypeOK /\ SetupInv => CompleteIsSo
  BY DEF SetupInv, ProxyInv, RunInv, PathInv, CompleteIsSo
<1>. QED
  BY <1>1, <1>2, InitTypes, TypeStep, SetupStep, PTL DEF Spec

----------------------------------------------------------------------------
(* What a settings file says.                                              *)

\* Induction: a set that has 0 and the successor of all it has, has all of Nat.
LEMMA Counting ==
  ASSUME NEW S, 0 \in S, \A n \in Nat : n \in S => n + 1 \in S
  PROVE  Nat \subseteq S
<1> DEFINE T == Nat \ S
           R == {ss \in Nat \X Nat : ss[1] < ss[2]}
<1> SUFFICES ASSUME T # {} PROVE FALSE
  OBVIOUS
<1>1. IsWellFoundedOn(R, Nat)
  BY NatLessThanWellFounded DEF OpToRel
<1>2. T \subseteq Nat
  OBVIOUS
<1> HIDE DEF T, R
<1>3. PICK x \in T : \A y \in T : ~ (<<y, x>> \in R)
  BY <1>1, <1>2, WFMin
<1>4. \A y \in T : ~(y < x)
  BY <1>2, <1>3 DEF R
<1> USE DEF T
<1>5. x # 0 /\ x - 1 \in Nat
  BY <1>2
<1>6. x - 1 \in S
  BY <1>4, <1>5, <1>2
<1>. QED
  BY <1>5, <1>6, <1>2

LEMMA LeastOf ==
  ASSUME NEW T, T \subseteq Nat, T # {} PROVE \E x \in T : \A y \in T : x <= y
<1> DEFINE R == {ss \in Nat \X Nat : ss[1] < ss[2]}
<1>1. IsWellFoundedOn(R, Nat)
  BY NatLessThanWellFounded DEF OpToRel
<1> HIDE DEF R
<1>2. PICK x \in T : \A y \in T : ~ (<<y, x>> \in R)
  BY <1>1, WFMin
<1>3. \A y \in T : ~(y < x)
  BY <1>2 DEF R
<1>. QED
  BY <1>2, <1>3

LEMMA GreatestOf ==
  ASSUME NEW n \in Nat, NEW T, T \subseteq 1 .. n, T # {} PROVE \E x \in T : \A y \in T : y <= x
<1> DEFINE U == {u \in 0 .. n : n - u \in T}
<1>1. U \subseteq Nat /\ U # {}
  <2>1. PICK t \in T : TRUE
    OBVIOUS
  <2>2. n - t \in 0 .. n /\ n - (n - t) = t
    BY <2>1
  <2>3. n - t \in U
    BY <2>1, <2>2
  <2>4. U \subseteq 0 .. n /\ 0 .. n \subseteq Nat
    OBVIOUS
  <2> HIDE DEF U
  <2>. QED
    BY <2>3, <2>4
<1> HIDE DEF U
<1>2. PICK u \in U : \A v \in U : u <= v
  BY <1>1, LeastOf
<1>3. n - u \in T /\ u \in 0 .. n
  BY <1>2 DEF U
<1>4. ASSUME NEW y \in T PROVE y <= n - u
  <2>1. n - y \in 0 .. n /\ n - (n - y) = y
    OBVIOUS
  <2>2. n - y \in U
    BY <2>1 DEF U
  <2>. QED
    BY <1>2, <1>3, <2>2
<1>. QED
  BY <1>3, <1>4

\* The lines are read one by one.
LEMMA ScannedLines ==
  ASSUME NEW file, Len(file) \in Nat
  PROVE  /\ Scanned(file)[0] = [n \in Names |-> Unset]
         /\ \A i \in 1 .. Len(file) : Scanned(file)[i] = Assigning(Scanned(file)[i - 1], file[i])
<1> DEFINE none == [n \in Names |-> Unset]
           Reads(f, k) == f = [i \in 0 .. k |-> IF i = 0 THEN none ELSE Assigning(f[i - 1], file[i])]
           S == {k \in Nat : \E f : Reads(f, k)}
<1>4. Scanned(file) = CHOOSE f : Reads(f, Len(file))
  BY DEF Scanned
<1> HIDE DEF none
<1>1. 0 \in S
  <2> DEFINE f == [i \in 0 .. 0 |-> none]
  <2>1. Reads(f, 0)
    <3>1. \A i \in 0 .. 0 : i = 0
      OBVIOUS
    <3>. QED
      BY <3>1
  <2>. QED
    BY <2>1
<1>2. ASSUME NEW k \in Nat, k \in S PROVE k + 1 \in S
  <2>1. PICK f : Reads(f, k)
    BY <1>2
  <2> DEFINE h == [i \in 0 .. k + 1 |-> IF i = k + 1 THEN Assigning(f[k], file[k + 1]) ELSE f[i]]
  <2>2. \A i \in 0 .. k : h[i] = f[i]
    OBVIOUS
  <2>3. \A i \in 0 .. k + 1 : h[i] = IF i = 0 THEN none ELSE Assigning(h[i - 1], file[i])
    <3> TAKE i \in 0 .. k + 1
    <3>1. CASE i = k + 1
      <4>1. i # 0 /\ i - 1 = k /\ k \in 0 .. k
        BY <3>1
      <4>2. h[k] = f[k]
        BY <2>2, <4>1
      <4>. QED
        BY <3>1, <4>1, <4>2
    <3>2. CASE i \in 0 .. k /\ i # 0
      <4>1. i - 1 \in 0 .. k
        BY <3>2
      <4>2. f[i] = Assigning(f[i - 1], file[i])
        BY <2>1, <3>2
      <4>. QED
        BY <2>2, <3>2, <4>1, <4>2
    <3>3. CASE i = 0
      <4>1. f[0] = none /\ 0 \in 0 .. k
        BY <2>1
      <4>. QED
        BY <2>2, <3>3, <4>1
    <3>. QED
      BY <3>1, <3>2, <3>3
  <2>4. Reads(h, k + 1)
    <3>1. h = [i \in 0 .. k + 1 |-> h[i]]
      OBVIOUS
    <3> HIDE DEF h
    <3>. QED
      BY <3>1, <2>3
  <2> HIDE DEF h, Reads
  <2>5. \E g : Reads(g, k + 1)
    BY <2>4
  <2>. QED
    BY <2>5
<1>3. \E f : Reads(f, Len(file))
  <2> HIDE DEF S
  <2>1. Nat \subseteq S
    BY <1>1, <1>2, Counting
  <2>. QED
    BY <2>1 DEF S
<1>5. Reads(Scanned(file), Len(file))
  BY <1>3, <1>4
<1> DEFINE f == Scanned(file)
<1>6. f = [i \in 0 .. Len(file) |-> IF i = 0 THEN none ELSE Assigning(f[i - 1], file[i])]
  BY <1>5
<1> HIDE DEF f
<1>7. f[0] = none
  BY <1>6
<1>8. \A i \in 1 .. Len(file) : f[i] = Assigning(f[i - 1], file[i])
  BY <1>6
<1>. QED
  BY <1>7, <1>8 DEF f, none

\* A line that assigns a name.
Assigns(l, n) == l.kind = "assign" /\ l.name = n

\* A value by itself, when no line sets the name it goes by.
Alone(val) == IF val \in Names THEN HostVar[val] ELSE val

\* What a name stands for below line k: what the last line that assigns it
\* says, and nothing if there is none.
ReadTo(file, k, locals) ==
  /\ DOMAIN locals = Names
  /\ \A n \in Names :
       /\ (\A i \in 1 .. k : ~Assigns(file[i], n)) => locals[n] = Unset
       /\ \A i \in 1 .. k : (/\ Assigns(file[i], n)
                             /\ \A j \in 1 .. k : j > i => ~Assigns(file[j], n))
                              => locals[n] = Alone(file[i].val)

LEMMA OneMoreLine ==
  ASSUME NEW file, IsFile(file), SelfContained(file), NEW k \in Nat, k + 1 \in DOMAIN file,
         NEW locals, ReadTo(file, k, locals)
  PROVE  ReadTo(file, k + 1, Assigning(locals, file[k + 1]))
<1> DEFINE l == file[k + 1]
           new == Assigning(locals, l)
<1> SUFFICES ReadTo(file, k + 1, new)
  OBVIOUS
<1>1. k + 1 \in 1 .. k + 1 /\ \A i \in 1 .. k + 1 : i \in 1 .. k \/ i = k + 1
  OBVIOUS
<1>0. 1 .. k \subseteq DOMAIN file /\ k + 1 \notin 1 .. k
  BY DEF IsFile
<1>2. CASE l.kind # "assign"
  <2>1. new = locals /\ \A n : ~Assigns(l, n)
    BY <1>2 DEF Assigning, Assigns
  <2>. QED
    BY <1>1, <2>1 DEF ReadTo
<1>3. CASE l.kind = "assign"
  <2>1. new = [locals EXCEPT ![l.name] = Expand(l.val, locals)]
    BY <1>3 DEF Assigning
  <2>2. Expand(l.val, locals) = Alone(l.val)
    <3>1. CASE l.val \in Names
      <4>1. \A i \in 1 .. k : ~Assigns(file[i], l.val)
        BY <1>0, <1>3 DEF SelfContained, Assigns
      <4>2. locals[l.val] = Unset
        BY <3>1, <4>1 DEF ReadTo
      <4>. QED
        BY <3>1, <4>2 DEF Expand, Alone
    <3>2. CASE l.val \notin Names
      BY <3>2 DEF Expand, Alone
    <3>. QED
      BY <3>1, <3>2
  <2>3. ASSUME NEW n \in Names, n # l.name
        PROVE  /\ (\A i \in 1 .. k + 1 : ~Assigns(file[i], n)) => new[n] = Unset
               /\ \A i \in 1 .. k + 1 : (/\ Assigns(file[i], n)
                                         /\ \A j \in 1 .. k + 1 : j > i => ~Assigns(file[j], n))
                                          => new[n] = Alone(file[i].val)
    <3>1. new[n] = locals[n] /\ ~Assigns(l, n)
      BY <2>1, <2>3 DEF Assigns, ReadTo
    <3> HIDE DEF new
    <3>. QED
      BY <1>1, <3>1 DEF ReadTo
  <2>4. ASSUME NEW n \in Names, n = l.name
        PROVE  /\ (\A i \in 1 .. k + 1 : ~Assigns(file[i], n)) => new[n] = Unset
               /\ \A i \in 1 .. k + 1 : (/\ Assigns(file[i], n)
                                         /\ \A j \in 1 .. k + 1 : j > i => ~Assigns(file[j], n))
                                          => new[n] = Alone(file[i].val)
    <3>1. new[n] = Alone(l.val) /\ Assigns(l, n)
      BY <1>3, <2>1, <2>2, <2>4 DEF Assigns, ReadTo
    <3>2. \A i \in 1 .. k : k + 1 > i
      OBVIOUS
    <3> HIDE DEF new
    <3>. QED
      BY <1>1, <3>1, <3>2
  <2>5. DOMAIN new = Names
    BY <2>1 DEF ReadTo
  <2> HIDE DEF new
  <2>. QED
    BY <2>3, <2>4, <2>5 DEF ReadTo
<1>. QED
  BY <1>2, <1>3

\* The line LastOf picks.
LEMMA LastLine ==
  ASSUME NEW file, IsFile(file), NEW n, n \in Assigned(file)
  PROVE  \E i \in DOMAIN file : /\ LastOf(file, n) = file[i] /\ Assigns(file[i], n)
                                /\ \A j \in DOMAIN file : j > i => ~Assigns(file[j], n)
<1> DEFINE T == {i \in DOMAIN file : Assigns(file[i], n)}
           Final(i) == /\ Assigns(file[i], n) /\ \A j \in DOMAIN file : j > i => ~Assigns(file[j], n)
<1>1. T \subseteq 1 .. Len(file) /\ Len(file) \in Nat /\ T # {}
  BY DEF IsFile, Assigned, Assigns
<1> HIDE DEF T
<1>2. PICK x \in T : \A y \in T : y <= x
  BY <1>1, GreatestOf
<1>3. x \in DOMAIN file /\ Final(x)
  <2>1. x \in DOMAIN file /\ Assigns(file[x], n)
    BY <1>2 DEF T
  <2>2. ASSUME NEW j \in DOMAIN file, j > x PROVE ~Assigns(file[j], n)
    <3>1. SUFFICES ASSUME Assigns(file[j], n) PROVE FALSE
      OBVIOUS
    <3>2. j \in T
      BY <3>1 DEF T
    <3>3. j \in Nat /\ x \in Nat
      BY <1>1, <1>2, <3>2
    <3>. QED
      BY <1>2, <2>2, <3>2, <3>3
  <2>. QED
    BY <2>1, <2>2
<1>4. LastOf(file, n) = file[CHOOSE i \in DOMAIN file : Final(i)]
  BY DEF LastOf, Assigns
<1> HIDE DEF Final
<1>5. Final(CHOOSE i \in DOMAIN file : Final(i)) /\ (CHOOSE i \in DOMAIN file : Final(i)) \in DOMAIN file
  BY <1>3
<1>. QED
  BY <1>4, <1>5 DEF Final

\* The last assignment of a name is what a self-contained file makes of it.
LEMMA LastWins ==
  ASSUME NEW file, IsFile(file), SelfContained(file), NEW n \in Names
  PROVE  Locals(file)[n] = IF n \in Assigned(file) THEN Alone(LastOf(file, n).val) ELSE Unset
<1> DEFINE f == Scanned(file)
           S == {k \in Nat : k <= Len(file) => ReadTo(file, k, f[k])}
<1>1. Len(file) \in Nat /\ DOMAIN file = 1 .. Len(file)
  BY DEF IsFile
<1>2. f[0] = [m \in Names |-> Unset] /\ \A i \in 1 .. Len(file) : f[i] = Assigning(f[i - 1], file[i])
  BY <1>1, ScannedLines
<1> HIDE DEF f
<1>3. 0 \in S
  <2>1. ReadTo(file, 0, f[0])
    BY <1>2 DEF ReadTo
  <2>. QED
    BY <2>1
<1>4. ASSUME NEW k \in Nat, k \in S PROVE k + 1 \in S
  <2> SUFFICES ASSUME k + 1 <= Len(file) PROVE ReadTo(file, k + 1, f[k + 1])
    OBVIOUS
  <2>1. k + 1 \in 1 .. Len(file) /\ (k + 1) - 1 = k /\ k <= Len(file)
    BY <1>1
  <2>2. f[k + 1] = Assigning(f[k], file[k + 1])
    BY <1>2, <2>1
  <2>3. ReadTo(file, k, f[k])
    BY <1>4, <2>1
  <2>. QED
    BY <1>1, <2>1, <2>2, <2>3, OneMoreLine
<1>5. ReadTo(file, Len(file), f[Len(file)])
  <2> HIDE DEF S
  <2>1. Nat \subseteq S
    BY <1>3, <1>4, Counting
  <2>. QED
    BY <1>1, <2>1 DEF S
<1>6. Locals(file) = f[Len(file)]
  BY DEF Locals, f
<1>7. CASE n \in Assigned(file)
  <2>1. PICK i \in DOMAIN file : /\ LastOf(file, n) = file[i] /\ Assigns(file[i], n)
                                 /\ \A j \in DOMAIN file : j > i => ~Assigns(file[j], n)
    BY <1>7, LastLine
  <2>. QED
    BY <1>1, <1>5, <1>6, <1>7, <2>1 DEF ReadTo
<1>8. CASE n \notin Assigned(file)
  <2>1. \A i \in 1 .. Len(file) : ~Assigns(file[i], n)
    BY <1>1, <1>8 DEF Assigned, Assigns
  <2>. QED
    BY <1>5, <1>6, <1>8, <2>1 DEF ReadTo
<1>. QED
  BY <1>7, <1>8

----------------------------------------------------------------------------
(* What an update leaves of the settings.                                  *)

\* What an update writes is the example's lines, with the person's in the
\* places of their names, and comments.
LEMMA MergedLines ==
  ASSUME NEW file, IsFile(file), Parses(file), NEW example, IsFile(example), IsExample(example),
         NEW m, m = MergeSettings(file, example)
  PROVE  /\ IsFile(m) /\ Parses(m) /\ DOMAIN example \subseteq DOMAIN m
         /\ \A i \in DOMAIN example : m[i] = Placed(file, example)[i]
         /\ \A i \in DOMAIN m : m[i].kind = "assign" =>
              /\ i \in DOMAIN example /\ IsPlace(example, i) /\ example[i].name \in Assigned(file)
              /\ m[i] = LastOf(file, example[i].name)
<1> DEFINE p == Placed(file, example)
           c == Carried(file, example)
<1>1. m = p \o c
  BY DEF MergeSettings
<1>2. IsFile(p) /\ DOMAIN p = DOMAIN example /\ IsFile(c)
  <2>1. DOMAIN p = DOMAIN example
    BY DEF Placed
  <2>. QED
    BY <2>1, PlacedIsFile, CarriedComments
<1>3. \A i \in DOMAIN c : c[i].kind \in {"prose", "hint"}
  BY CarriedComments
<1>4. \A i \in DOMAIN p :
        \/ p[i].kind \in {"hint", "prose"}
        \/ /\ IsPlace(example, i) /\ example[i].name \in Assigned(file)
           /\ p[i] = LastOf(file, example[i].name) /\ p[i].kind = "assign"
  <2> TAKE i \in DOMAIN p
  <2>1. i \in DOMAIN example
    BY <1>2
  <2>2. CASE IsPlace(example, i) /\ example[i].name \in Assigned(file)
    <3>1. p[i] = LastOf(file, example[i].name)
      BY <2>1, <2>2 DEF Placed
    <3>2. p[i].kind = "assign"
      BY <2>2, <3>1, LastLine DEF Assigns
    <3>. QED
      BY <2>2, <3>1, <3>2
  <2>3. CASE ~(IsPlace(example, i) /\ example[i].name \in Assigned(file))
    <3>1. p[i] = example[i]
      BY <2>1, <2>3 DEF Placed
    <3>. QED
      BY <2>1, <3>1 DEF IsExample
  <2>. QED
    BY <2>2, <2>3
<1> HIDE DEF p, c
<1>5. /\ \A i \in DOMAIN p : i \in DOMAIN m /\ m[i] = p[i]
      /\ \A i \in DOMAIN m : i \in DOMAIN p \/ \E j \in DOMAIN c : m[i] = c[j]
  <2> DEFINE S == {p[i] : i \in DOMAIN p} \cup {c[i] : i \in DOMAIN c}
  <2>1. p \in Seq(S) /\ c \in Seq(S)
    BY <1>2 DEF IsFile
  <2> HIDE DEF S
  <2>2. ASSUME NEW i \in DOMAIN m, i \notin DOMAIN p PROVE \E j \in DOMAIN c : m[i] = c[j]
    <3>1. i - Len(p) \in DOMAIN c /\ m[i] = c[i - Len(p)]
      BY <1>1, <2>1, <2>2
    <3>. QED
      BY <3>1
  <2>3. \A i \in DOMAIN p : i \in DOMAIN m /\ m[i] = p[i]
    BY <1>1, <2>1
  <2>. QED
    BY <2>2, <2>3
<1>6. IsFile(m)
  BY MergeIsFile
<1>7. \A i \in DOMAIN m : m[i].kind = "assign" =>
        /\ i \in DOMAIN example /\ IsPlace(example, i) /\ example[i].name \in Assigned(file)
        /\ m[i] = LastOf(file, example[i].name)
  BY <1>2, <1>3, <1>4, <1>5
<1>8. Parses(m)
  <2>1. \A i \in DOMAIN m : m[i].kind \in {"prose", "hint", "assign"}
    BY <1>3, <1>4, <1>5
  <2>. QED
    BY <2>1 DEF Parses
<1>. QED
  BY <1>2, <1>5, <1>6, <1>7, <1>8 DEF p

\* A documented name has one place in the example, the first line with it.
LEMMA PlaceOf ==
  ASSUME NEW example, IsFile(example), IsExample(example), NEW k \in Keys
  PROVE  \E i \in DOMAIN example : IsPlace(example, i) /\ example[i].name = k
<1> DEFINE T == {i \in DOMAIN example : example[i].kind = "hint" /\ example[i].name = k}
<1>1. T # {} /\ T \subseteq Nat /\ DOMAIN example = 1 .. Len(example) /\ Len(example) \in Nat
  BY DEF IsFile, IsExample
<1>2. \A i : i \in T <=> i \in DOMAIN example /\ example[i].kind = "hint" /\ example[i].name = k
  OBVIOUS
<1> HIDE DEF T
<1>3. PICK x \in T : \A y \in T : x <= y
  BY <1>1, LeastOf
<1>4. ASSUME NEW j \in 1 .. x - 1 PROVE ~(example[j].kind = "hint" /\ example[j].name = example[x].name)
  <2>1. j \in DOMAIN example /\ ~(x <= j) /\ example[x].name = k
    BY <1>1, <1>2, <1>3
  <2>. QED
    BY <1>2, <1>3, <2>1
<1>. QED
  BY <1>2, <1>3, <1>4 DEF IsPlace

\* An update makes the settings the file made, of a file none of whose lines
\* goes through another (mergeconfig.go, mergeSettings): names set twice, names
\* that are no settings and lines in any order, whatever example that documents
\* every setting it is brought up to.
THEOREM MergeKeepsSettings ==
  ASSUME NEW file, IsFile(file), Parses(file), SelfContained(file),
         NEW example, IsFile(example), IsExample(example)
  PROVE  /\ Parses(MergeSettings(file, example))
         /\ Given(MergeSettings(file, example)) = Given(file)
<1> DEFINE m == MergeSettings(file, example)
<1>1. /\ IsFile(m) /\ Parses(m) /\ DOMAIN example \subseteq DOMAIN m
      /\ \A i \in DOMAIN example : m[i] = Placed(file, example)[i]
      /\ \A i \in DOMAIN m : m[i].kind = "assign" =>
           /\ i \in DOMAIN example /\ IsPlace(example, i) /\ example[i].name \in Assigned(file)
           /\ m[i] = LastOf(file, example[i].name)
  BY MergedLines
<1> HIDE DEF m
<1>2. ASSUME NEW i \in DOMAIN m, m[i].kind = "assign"
      PROVE  \E j \in DOMAIN file : m[i] = file[j] /\ Assigns(file[j], example[i].name)
  BY <1>1, <1>2, LastLine
<1>3. SelfContained(m)
  <2> SUFFICES ASSUME NEW i \in DOMAIN m, NEW j \in DOMAIN m, m[i].kind = "assign", m[j].kind = "assign"
               PROVE  m[i].val # m[j].name
    BY DEF SelfContained
  <2>1. PICK x \in DOMAIN file : m[i] = file[x]
    BY <1>2
  <2>2. PICK y \in DOMAIN file : m[j] = file[y]
    BY <1>2
  <2>. QED
    BY <2>1, <2>2 DEF SelfContained
<1>4. ASSUME NEW k \in Keys PROVE Locals(m)[k] = Locals(file)[k]
  <2>0. k \in Names
    BY DEF Names
  <2>1. CASE k \in Assigned(file)
    <3>1. PICK i \in DOMAIN example : IsPlace(example, i) /\ example[i].name = k
      BY PlaceOf
    <3>2. m[i] = LastOf(file, k) /\ i \in DOMAIN m
      BY <1>1, <2>1, <3>1 DEF Placed
    <3>3. Assigns(m[i], k)
      BY <2>1, <3>2, LastLine
    <3>4. k \in Assigned(m)
      BY <3>2, <3>3 DEF Assigned, Assigns
    <3>5. LastOf(m, k) = LastOf(file, k)
      <4>1. PICK j \in DOMAIN m : LastOf(m, k) = m[j] /\ Assigns(m[j], k)
        BY <1>1, <3>4, LastLine
      <4>2. m[j] = LastOf(file, example[j].name) /\ Assigns(m[j], example[j].name)
        BY <1>1, <1>2, <4>1 DEF Assigns
      <4>. QED
        BY <4>1, <4>2 DEF Assigns
    <3>. QED
      BY <1>1, <1>3, <2>0, <2>1, <3>4, <3>5, LastWins
  <2>2. CASE k \notin Assigned(file)
    <3>1. k \notin Assigned(m)
      <4>1. SUFFICES ASSUME k \in Assigned(m) PROVE FALSE
        OBVIOUS
      <4>2. PICK i \in DOMAIN m : m[i].kind = "assign" /\ m[i].name = k
        BY <4>1 DEF Assigned
      <4>3. PICK j \in DOMAIN file : m[i] = file[j]
        BY <1>2, <4>2
      <4>. QED
        BY <2>2, <4>2, <4>3 DEF Assigned
    <3>. QED
      BY <1>1, <1>3, <2>0, <2>2, <3>1, LastWins
  <2>. QED
    BY <2>1, <2>2
<1>. QED
  BY <1>1, <1>4 DEF Given, m

\* A settings file that is replaced loads as the one it replaces did, if no
\* line of that one goes through another.
LEMMA ReplaceKeeps ==
  ASSUME TypeOK, Replace, read.of = Main, disk'[Main] # <<>>,
         Parses(read.lines), SelfContained(read.lines)
  PROVE  Load(disk'[Main], NoFile) = Load(read.lines, NoFile)
<1>1. IsFile(read.lines) /\ Update = MergeSettings(read.lines, Example)
  BY DEF TypeOK, Update, Merges, Shipped, Main, Path
<1>2. disk'[Main] = Update
  BY DEF Replace, Write, With
<1>3. Parses(disk'[Main]) /\ Given(disk'[Main]) = Given(read.lines)
  BY <1>1, <1>2, InstallAssumption, MergeKeepsSettings DEF InstallAssumption
<1>. QED
  BY <1>3 DEF Load, Layers

\* An update of the settings file leaves ptrbox configured as the version of it
\* the run read, if that parses and no line of it goes through another
\* (install.go, seed.go, mergeconfig.go).
THEOREM UpdateKeepsSettings == Spec => SettingsKept
<1>1. TypeOK /\ [Next]_vars =>
        [(/\ Replace /\ read.of = Main /\ disk'[Main] # <<>>
          /\ Parses(read.lines) /\ SelfContained(read.lines))
           => Load(disk'[Main], NoFile) = Load(read.lines, NoFile)]_vars
  BY ReplaceKeeps
<1>. QED
  BY <1>1, InitTypes, TypeStep, PTL DEF Spec, SettingsKept
=============================================================================
