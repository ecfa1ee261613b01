----------------------------- MODULE Exec_proofs -----------------------------
(***************************************************************************)
(* Theorems about Exec, for any outputs, sizes and numbers of commands:    *)
(* type correctness; what a command leaves in the guest; that what is kept *)
(* and what is delivered is whole, and the session kept before its VM is   *)
(* deleted; and that all a client writes is shown, line by line.           *)
(***************************************************************************)
EXTENDS Exec, TLAPS, FiniteSetTheorems, SequenceTheorems, WellFoundedInduction

LEMMA Bounds == 0 \in 0 .. MaxSession /\ 0 \in Ids /\ 1 \in 1 .. MaxClock
BY ExecAssumption DEF ExecAssumption, Ids

\* What an exit does to the variables TypeOK is about, whatever it replays.
LEMMA ExitTypes ==
  ASSUME TypeOK, NEW ok, NEW n, ExitTelling(ok, n)
  PROVE  /\ cmd' \in Cmd /\ cmd'.id = cmd.id
         /\ job' \in Jobs /\ pc' \in Steps /\ broke' \in BOOLEAN /\ file' = 0
         /\ failed' \subseteq Ids /\ dead' \subseteq Ids
<1> USE DEF ExitTelling, TypeOK
<1>1. cmd' \in Cmd /\ cmd'.id = cmd.id
  BY Bounds DEF Cmd
<1>2. job' \in Jobs /\ pc' \in Steps /\ broke' \in BOOLEAN /\ file' = 0
  BY DEF Jobs, Steps
<1>3. failed' \subseteq Ids /\ dead' \subseteq Ids
  BY DEF Cmd
<1>. QED
  BY <1>1, <1>2, <1>3

\* A command that begins gets the next number, within the bound.
LEMMA StartTypes ==
  ASSUME TypeOK, NEW does \in {"new", "save", "rm", "discard"}, Start(does)
  PROVE  cmd' \in Cmd /\ cmd'.id = cmd.id + 1
BY ExecAssumption DEF ExecAssumption, TypeOK, Start, Cmd, Ids

\* Every step keeps the variables of Exec in their types.
LEMMA TypeStep == TypeOK /\ [Next]_vars => TypeOK'
<1> SUFFICES ASSUME TypeOK, [Next]_vars PROVE TypeOK'
  OBVIOUS
<1> USE DEF guest, call, store, told, ended, control
<1>1. CASE New
  <2>1. cmd' \in Cmd
    BY <1>1, StartTypes DEF New
  <2>. QED
    BY <1>1, <2>1 DEF New, Start, TypeOK, Jobs, Steps
<1>2. CASE Save
  <2>1. cmd' \in Cmd
    BY <1>2, StartTypes DEF Save
  <2>. QED
    BY <1>2, <2>1 DEF Save, Start, Fresh, TypeOK, Jobs, Steps
<1>3. CASE Discard
  <2>1. cmd' \in Cmd
    BY <1>3, StartTypes DEF Discard
  <2>. QED
    BY <1>3, <2>1 DEF Discard, Start, Fresh, TypeOK, Jobs, Steps
<1>4. CASE ClientPrints
  BY <1>4 DEF ClientPrints, Heard, TypeOK, Jobs, Steps
<1>5. CASE BootFails
  BY <1>5, ExitTypes DEF BootFails, TypeOK
<1>6. CASE Boots
  BY <1>6 DEF Boots, TypeOK, Jobs, Steps
<1>7. CASE Verify
  BY <1>7 DEF Verify, Go, FirstStep, TypeOK, Jobs, Steps
<1>8. CASE Inject
  BY <1>8 DEF Inject, Go, FirstStep, TypeOK, Jobs, Steps
<1>9. CASE OpenArchive
  <2>1. CASE Exit(FALSE) /\ UNCHANGED archives
    BY <1>9, <2>1, ExitTypes DEF OpenArchive, Exit, TypeOK
  <2>2. CASE file' = clock /\ Go(FirstStep) /\ UNCHANGED <<cmd, job, broke, text, out, err, ended>>
    <3>1. clock \in DOMAIN archives' /\ DOMAIN archives' \subseteq 1 .. clock
      BY <1>9, <2>2, ExecAssumption DEF ExecAssumption, OpenArchive, Exit, ExitTelling, TypeOK
    <3>. QED
      BY <1>9, <2>2, <3>1 DEF OpenArchive, Go, FirstStep, TypeOK, Steps
  <2>. QED
    BY <1>9, <2>1, <2>2 DEF OpenArchive
<1>10. CASE ReturnArchive
  <2>1. DOMAIN archives' \subseteq DOMAIN archives
    BY <1>10 DEF ReturnArchive, Without
  <2>2. CASE Exit(~broke /\ Fits)
    BY <1>10, <2>1, <2>2, ExitTypes DEF ReturnArchive, Exit, TypeOK
  <2>3. CASE Go("delete") /\ file' = 0 /\ UNCHANGED <<cmd, job, broke, text, out, err, ended>>
    BY <1>10, <2>1, <2>3 DEF ReturnArchive, Go, TypeOK, Steps
  <2>. QED
    BY <1>10, <2>2, <2>3 DEF ReturnArchive
<1>11. CASE ReturnVerify
  <2>1. CASE broke /\ ExitTelling(FALSE, narr')
    BY <1>11, <2>1, ExitTypes DEF ReturnVerify, TypeOK
  <2>2. CASE ~broke
    BY <1>11, <2>2 DEF ReturnVerify, TypeOK, Jobs, Steps
  <2>. QED
    BY <1>11, <2>1, <2>2 DEF ReturnVerify
<1>12. CASE ReturnInject
  <2>1. CASE broke
    BY <1>12, <2>1, ExitTypes DEF ReturnInject, Exit, TypeOK
  <2>2. CASE ~broke
    BY <1>12, <2>2 DEF ReturnInject, Go, FirstStep, TypeOK, Jobs, Steps
  <2>. QED
    BY <2>1, <2>2
<1>30. CASE ReturnTimings
  BY <1>30, ExitTypes DEF ReturnTimings, Exit, TypeOK
<1>31. CASE Settle
  <2>1. CASE Exit(FALSE)
    BY <1>31, <2>1, ExitTypes DEF Settle, Exit, TypeOK
  <2>2. CASE job' = "verify" /\ UNCHANGED <<cmd, pc, broke, text, out, err, file, ended>>
    BY <1>31, <2>2 DEF Settle, TypeOK, Jobs
  <2>. QED
    BY <1>31, <2>1, <2>2 DEF Settle
<1>13. CASE Delete
  BY <1>13 DEF Delete, TypeOK, Jobs, Steps
<1>32. CASE Deletes
  BY <1>32, ExitTypes DEF Deletes, Gone, TypeOK
<1>33. CASE DeleteFails
  BY <1>33, ExitTypes DEF DeleteFails, Gone, TypeOK
<1>14. ASSUME NEW ok \in BOOLEAN, Mkdir(ok) PROVE TypeOK'
  BY <1>14 DEF Mkdir, Go, Fails, TypeOK, Jobs, Steps
<1>15. ASSUME NEW ok \in BOOLEAN, Stage(ok) PROVE TypeOK'
  <2>1. disk' \subseteq Ids \X Jobs \X Kinds /\ procs' \subseteq Proc
    BY <1>15 DEF Stage, Go, Fails, File, TypeOK, Cmd, Jobs, Kinds, Proc
  <2>2. pc' \in Steps /\ job' \in Jobs /\ broke' \in BOOLEAN
    BY <1>15 DEF Stage, Go, Fails, File, TypeOK, Jobs, Steps
  <2>3. token' \in {"none", "part", "whole"}
    BY <1>15 DEF Stage, Go, Fails, File, TypeOK
  <2>4. /\ DOMAIN archives' = DOMAIN archives
        /\ UNCHANGED <<host, vm, session, cmd, file, clock, failed, dead>>
    BY <1>15 DEF Stage, Go, Fails, File, TypeOK
  <2>. QED
    BY <2>1, <2>2, <2>3, <2>4 DEF TypeOK
<1>16. ASSUME NEW ok \in BOOLEAN, Exec(ok) PROVE TypeOK'
  <2>1. disk' \subseteq Ids \X Jobs \X Kinds /\ procs' \subseteq Proc
    <3>1. \A b \in BOOLEAN : [id |-> cmd.id, job |-> job, open |-> FALSE, fed |-> b] \in Proc
      BY DEF TypeOK, Cmd, Proc
    <3>2. (~host.direct \/ job # "inject") \in BOOLEAN
      OBVIOUS
    <3>3. [id |-> cmd.id, job |-> job, open |-> FALSE, fed |-> (~host.direct \/ job # "inject")] \in Proc
      BY <3>1, <3>2
    <3>. QED
      BY <1>16, <3>3 DEF Exec, TypeOK
  <2>2. pc' \in Steps /\ job' \in Jobs /\ broke' \in BOOLEAN
    BY <1>16 DEF Exec, Go, Fails, Collect, TypeOK, Jobs, Steps
  <2>3. token' \in {"none", "part", "whole"}
    BY <1>16 DEF Exec, Go, Fails, Collect, TypeOK
  <2>4. /\ DOMAIN archives' = DOMAIN archives
        /\ UNCHANGED <<host, vm, session, cmd, file, clock, failed, dead>>
    BY <1>16 DEF Exec, Go, Fails, Collect, TypeOK
  <2>. QED
    BY <2>1, <2>2, <2>3, <2>4 DEF TypeOK
<1>17. ASSUME NEW ok \in BOOLEAN, Fetch(ok) PROVE TypeOK'
  BY <1>17 DEF Fetch, Go, Fails, TypeOK, Jobs, Steps
<1>18. ASSUME NEW ok \in BOOLEAN, Explain(ok) PROVE TypeOK'
  BY <1>18 DEF Explain, Go, Fails, TypeOK, Jobs, Steps
<1>19. ASSUME NEW ok \in BOOLEAN, Clean(ok) PROVE TypeOK'
  BY <1>19 DEF Clean, Go, Fails, TypeOK, Jobs, Steps
<1>20. CASE Severed
  BY <1>20 DEF Severed, Go, Fails, Collect, TypeOK, Jobs, Steps
<1>21. ASSUME NEW p \in procs, Opens(p) PROVE TypeOK'
  <2>1. disk' \subseteq Ids \X Jobs \X Kinds /\ procs' \subseteq Proc
    <3>1. procs' \subseteq Proc
      BY <1>21 DEF Opens, Updated, TypeOK, Proc
    <3>2. /\ <<p.id, p.job, "err">> \in Ids \X Jobs \X Kinds
          /\ <<p.id, p.job, "out">> \in Ids \X Jobs \X Kinds
      BY DEF TypeOK, Proc, Kinds
    <3>. QED
      BY <1>21, <3>1, <3>2 DEF Opens, Put, TypeOK
  <2>2. pc' \in Steps /\ job' \in Jobs /\ broke' \in BOOLEAN
    BY <1>21 DEF Opens, Updated, Put, TypeOK, Jobs, Steps
  <2>3. token' \in {"none", "part", "whole"}
    BY <1>21 DEF Opens, Updated, Put, TypeOK
  <2>4. /\ DOMAIN archives' = DOMAIN archives
        /\ UNCHANGED <<host, vm, session, cmd, file, clock, failed, dead>>
    BY <1>21 DEF Opens, Updated, Put, TypeOK
  <2>. QED
    BY <2>1, <2>2, <2>3, <2>4 DEF TypeOK
<1>22. ASSUME NEW p \in procs, Feeds(p) PROVE TypeOK'
  BY <1>22, ZenonT(30) DEF Feeds, Updated, Proc, TypeOK, Jobs, Steps
<1>23. ASSUME NEW p \in procs, Outputs(p) PROVE TypeOK'
  BY <1>23, ZenonT(30) DEF Outputs, Receive, Go, Fails, Heard, Attended, InHand, TypeOK, Jobs, Steps
<1>24. ASSUME NEW p \in procs, NEW ok \in BOOLEAN, Ends(p, ok) PROVE TypeOK'
  <2>1. disk' \subseteq Ids \X Jobs \X Kinds /\ procs' \subseteq Proc
    BY <1>24 DEF Ends, Put, Profile, Collect, Heard, TypeOK, Cmd, Kinds, Proc
  <2>2. pc' \in Steps /\ job' \in Jobs /\ broke' \in BOOLEAN
    BY <1>24 DEF Ends, Put, Profile, Collect, Heard, TypeOK, Jobs, Steps
  <2>3. token' \in {"none", "part", "whole"}
    BY <1>24 DEF Ends, Put, Profile, Collect, Heard, TypeOK
  <2>4. /\ DOMAIN archives' = DOMAIN archives
        /\ UNCHANGED <<host, vm, session, cmd, file, clock, failed, dead>>
    BY <1>24 DEF Ends, Put, Profile, Collect, Heard, TypeOK
  <2>. QED
    BY <2>1, <2>2, <2>3, <2>4 DEF TypeOK
<1>25. CASE AgentWrites
  BY <1>25, ExecAssumption DEF ExecAssumption, AgentWrites, TypeOK
<1>26. CASE Power
  BY <1>26, ExecAssumption DEF ExecAssumption, Power, TypeOK
<1>27. CASE Tick
  BY <1>27, ExecAssumption DEF ExecAssumption, Tick, TypeOK
<1>28. CASE Dies
  BY <1>28, Bounds DEF Dies, TypeOK, Cmd, Jobs, Steps
<1>29. CASE UNCHANGED vars
  BY <1>29 DEF vars, TypeOK
<1>. QED
  BY <1>1, <1>2, <1>3, <1>4, <1>5, <1>6, <1>7, <1>8, <1>9, <1>10, <1>11, <1>12, <1>13, <1>14, <1>15, <1>16, <1>17, <1>18, <1>19, <1>20, <1>21, <1>22, <1>23, <1>24, <1>25, <1>26, <1>27, <1>28, <1>29, <1>30, <1>31, <1>32, <1>33
     DEF Next, Commands, Host, Answers, Refuses, Guest, World

LEMMA InitTypes == Init => TypeOK
<1>1. [does |-> "none", id |-> 0, seen |-> 0] \in Cmd
  BY Bounds DEF Cmd
<1>2. 1 \in 1 .. MaxClock
  BY Bounds
<1>. QED
  BY <1>1, <1>2, Bounds DEF Init, TypeOK, NoArchives, Jobs, Steps

\* Exec is type-correct.
THEOREM ExecTypeCorrect == Spec => []TypeOK
BY InitTypes, TypeStep, PTL DEF Spec

----------------------------------------------------------------------------
\* What is in the guest is of a command there has been, and of one that failed,
\* died or goes on, or of the reading of a timings.
Numbered ==
  /\ \A f \in disk : f[1] <= cmd.id
  /\ \A p \in procs : p.id <= cmd.id
Accounted ==
  /\ \A f \in disk : \/ f[1] \in failed \cup dead \/ (pc # "idle" /\ f[1] = cmd.id)
                     \/ f[2] = "timings"
  /\ \A p \in procs : \/ p.id \in failed \cup dead \/ (pc # "idle" /\ p.id = cmd.id)
                      \/ p.job = "timings"

\* While no call of it failed, the command in hand has one side in the guest,
\* as long as it waits for it, and the files of that step.
OwnSide ==
  pc # "idle" /\ ~broke =>
    /\ \A p \in procs : p.id = cmd.id => pc = "wait" /\ p.job = job
    /\ \A p, q \in procs : p.id = cmd.id /\ q.id = cmd.id => p = q
OwnFiles ==
  pc # "idle" /\ ~broke =>
    \A f \in disk : f[1] = cmd.id =>
      /\ f[2] = job
      /\ \/ pc \in {"exec", "wait"} /\ job = "inject" /\ f[3] = "in"
         \/ pc \in {"wait", "fetch", "clean"} /\ f[3] = "err"
         \/ pc \in {"wait", "fetch", "clean"} /\ job # "inject" /\ f[3] = "out"

\* When the timings are read nothing else of that command is left.
OwnTimings ==
  job = "timings" =>
    /\ \A f \in disk : f[1] = cmd.id => f[2] = "timings"
    /\ \A p \in procs : p.id = cmd.id => p.job = "timings"

\* Where a call leads.
Course ==
  /\ host.direct => disk = {} /\ pc \notin {"scratch", "stage", "fetch", "explain", "clean"}
  /\ pc = "explain" => broke
  /\ pc = "fetch" => job # "inject"
  /\ pc = "stage" => job = "inject"
  /\ broke => pc \in {"fetch", "explain", "clean", "return"}

CleanInv == TypeOK /\ Numbered /\ Accounted /\ OwnSide /\ OwnFiles /\ OwnTimings /\ Course

\* However a command ends, what it leaves is accounted for, if it ends well
\* only when it leaves nothing but of the timings.
LEMMA ExitClean ==
  ASSUME CleanInv, NEW ok, NEW n, ExitTelling(ok, n),
         disk' \subseteq disk, procs' \subseteq procs, UNCHANGED host,
         ok => /\ \A f \in disk' : f[1] # cmd.id \/ f[2] = "timings"
               /\ \A p \in procs' : p.id # cmd.id \/ p.job = "timings"
  PROVE  (Numbered /\ Accounted /\ OwnSide /\ OwnFiles /\ OwnTimings /\ Course)'
<1>1. cmd'.id = cmd.id /\ pc' = "idle"
  BY DEF ExitTelling
<1>2. failed \cup dead \subseteq failed' \cup dead'
  BY DEF ExitTelling
<1>3. ~ok => cmd.id \in failed'
  BY DEF ExitTelling
<1>4. Numbered'
  BY <1>1 DEF CleanInv, Numbered
<1>5. Accounted'
  BY <1>1, <1>2, <1>3 DEF CleanInv, Accounted
<1>6. (OwnSide /\ OwnFiles /\ OwnTimings)'
  BY <1>1 DEF OwnSide, OwnFiles, OwnTimings, ExitTelling
<1>7. Course'
  BY <1>1 DEF CleanInv, Course, ExitTelling
<1>. QED
  BY <1>4, <1>5, <1>6, <1>7

\* Nothing in the guest has the number of a command that begins.
LEMMA StartClean ==
  ASSUME CleanInv, NEW does \in {"new", "save", "rm", "discard"}, Start(does),
         UNCHANGED <<host, disk, procs, broke>>, pc' \in {"client", "open", "delete"}
  PROVE  (Numbered /\ Accounted /\ OwnSide /\ OwnFiles /\ OwnTimings /\ Course)'
<1>1. cmd'.id = cmd.id + 1 /\ cmd.id \in Nat
  BY StartTypes, ExecAssumption DEF CleanInv, TypeOK, Cmd, Ids, ExecAssumption
<1>2. \A f \in disk : f[1] \in Nat /\ f[1] <= cmd.id
  BY ExecAssumption DEF CleanInv, TypeOK, Numbered, Ids, ExecAssumption
<1>3. \A p \in procs : p.id \in Nat /\ p.id <= cmd.id
  BY ExecAssumption DEF CleanInv, TypeOK, Numbered, Proc, Ids, ExecAssumption
<1>4. Numbered'
  BY <1>1, <1>2, <1>3 DEF Numbered
<1>5. Accounted'
  BY DEF CleanInv, Accounted, Start
<1>6. (OwnSide /\ OwnFiles /\ OwnTimings)'
  BY <1>1, <1>2, <1>3 DEF OwnSide, OwnFiles, OwnTimings
<1>7. Course'
  BY DEF CleanInv, Course, Start
<1>. QED
  BY <1>4, <1>5, <1>6, <1>7

\* A step of another kind keeps the conjuncts of CleanInv.
LEMMA CleanStep == CleanInv /\ [Next]_vars => CleanInv'
<1> SUFFICES ASSUME CleanInv, [Next]_vars PROVE CleanInv'
  OBVIOUS
<1> DEFINE Rest == Numbered /\ Accounted /\ OwnSide /\ OwnFiles /\ OwnTimings /\ Course
<1> SUFFICES Rest'
  BY TypeStep DEF CleanInv
<1> USE DEF guest, call, store, told, ended, control
<1>1. CASE New
  BY <1>1, StartClean DEF New
<1>2. CASE Save
  BY <1>2, StartClean DEF Save
<1>3. CASE Discard
  BY <1>3, StartClean DEF Discard
<1>4. CASE ClientPrints
  BY <1>4 DEF ClientPrints, CleanInv, Numbered, Accounted, OwnSide, OwnFiles, OwnTimings, Course
<1>5. CASE BootFails
  BY <1>5, ExitClean DEF BootFails
<1>6. CASE Boots
  BY <1>6 DEF Boots, CleanInv, Numbered, Accounted, OwnSide, OwnFiles, OwnTimings, Course
<1>7. CASE Verify
  BY <1>7 DEF Verify, Go, FirstStep, CleanInv, Numbered, Accounted, OwnSide, OwnFiles, OwnTimings, Course
<1>8. CASE Inject
  BY <1>8 DEF Inject, Go, FirstStep, CleanInv, Numbered, Accounted, OwnSide, OwnFiles, OwnTimings, Course
<1>9. CASE OpenArchive
  <2>1. CASE Exit(FALSE)
    BY <1>9, <2>1, ExitClean DEF OpenArchive, Exit
  <2>2. CASE Go(FirstStep) /\ UNCHANGED <<cmd, job, broke, text, out, err, ended>>
    BY <1>9, <2>2 DEF OpenArchive, Go, FirstStep, CleanInv, Numbered, Accounted, OwnSide, OwnFiles, OwnTimings, Course
  <2>. QED
    BY <1>9, <2>1, <2>2 DEF OpenArchive
<1>10. CASE ReturnArchive
  <2>1. ~broke => (\A f \in disk : f[1] # cmd.id) /\ (\A p \in procs : p.id # cmd.id)
    BY <1>10 DEF ReturnArchive, CleanInv, OwnSide, OwnFiles
  <2>2. CASE Exit(~broke /\ Fits)
    BY <1>10, <2>1, <2>2, ExitClean DEF ReturnArchive, Exit
  <2>3. CASE Go("delete") /\ ~broke /\ UNCHANGED <<cmd, job, broke, text, out, err, ended>>
    BY <1>10, <2>1, <2>3 DEF ReturnArchive, Go, CleanInv, Numbered, Accounted, OwnSide, OwnFiles, OwnTimings, Course
  <2>. QED
    BY <1>10, <2>2, <2>3 DEF ReturnArchive
<1>11. CASE ReturnVerify
  <2>1. CASE broke
    BY <1>11, <2>1, ExitClean DEF ReturnVerify
  <2>2. CASE ~broke
    BY <1>11, <2>2 DEF ReturnVerify, CleanInv, Numbered, Accounted, OwnSide, OwnFiles, OwnTimings, Course
  <2>. QED
    BY <1>11, <2>1, <2>2
<1>12. CASE ReturnInject
  <2>1. CASE broke
    BY <1>12, <2>1, ExitClean DEF ReturnInject, Exit
  <2>2. CASE ~broke
    BY <1>12, <2>2 DEF ReturnInject, Go, FirstStep, CleanInv, Numbered, Accounted, OwnSide, OwnFiles, OwnTimings, Course
  <2>. QED
    BY <2>1, <2>2
<1>30. CASE ReturnTimings
  <2>1. /\ \A f \in disk : f[1] # cmd.id \/ f[2] = "timings"
        /\ \A p \in procs : p.id # cmd.id \/ p.job = "timings"
    BY <1>30 DEF ReturnTimings, CleanInv, OwnTimings
  <2>. QED
    BY <1>30, <2>1, ExitClean DEF ReturnTimings, Exit
<1>31. CASE Settle
  <2>1. CASE Exit(FALSE)
    BY <1>31, <2>1, ExitClean DEF Settle, Exit
  <2>2. CASE job' = "verify" /\ UNCHANGED <<cmd, pc, broke, text, out, err, file, ended>>
    BY <1>31, <2>2 DEF Settle, CleanInv, Numbered, Accounted, OwnSide, OwnFiles, OwnTimings, Course
  <2>. QED
    BY <1>31, <2>1, <2>2 DEF Settle
<1>13. CASE Delete
  BY <1>13 DEF Delete, CleanInv, Numbered, Accounted, OwnSide, OwnFiles, OwnTimings, Course
<1>32. CASE Deletes
  BY <1>32, ExitClean DEF Deletes, Gone
<1>33. CASE DeleteFails
  BY <1>33, ExitClean DEF DeleteFails, Gone
<1>14. ASSUME NEW ok \in BOOLEAN, Mkdir(ok) PROVE Rest'
  BY <1>14 DEF Mkdir, Go, Fails, CleanInv, Numbered, Accounted, OwnSide, OwnFiles, OwnTimings, Course
<1>15. ASSUME NEW ok \in BOOLEAN, Stage(ok) PROVE Rest'
  <2>1. disk' \subseteq disk \cup {<<cmd.id, job, "in">>} /\ UNCHANGED <<procs, cmd, job, host, ended>>
    BY <1>15 DEF Stage, File
  <2>2. pc' \in {"exec", "return"} /\ (pc' = "exec" => broke' = broke) /\ (pc' = "return" => broke')
    BY <1>15 DEF Stage, Go, Fails
  <2>3. pc = "stage" /\ ~host.direct /\ job = "inject"
    BY <1>15 DEF Stage, CleanInv, Course
  <2>4. (Numbered /\ Accounted)'
    BY <2>1, <2>2, <2>3 DEF CleanInv, TypeOK, Cmd, Ids, Numbered, Accounted
  <2>5. (OwnSide /\ OwnFiles /\ OwnTimings)'
    BY <2>1, <2>2, <2>3 DEF CleanInv, OwnSide, OwnFiles, OwnTimings
  <2>6. Course'
    BY <2>1, <2>2, <2>3 DEF CleanInv, Course
  <2>. QED
    BY <2>4, <2>5, <2>6
<1>16. ASSUME NEW ok \in BOOLEAN, Exec(ok) PROVE Rest'
  <2>1. CASE ok /\ vm = "up" /\ Go("wait") /\ UNCHANGED broke
    <3>1. PICK q : q.id = cmd.id /\ q.job = job /\ procs' = procs \cup {q}
      BY <1>16, <2>1 DEF Exec
    <3>2. pc = "exec" /\ ~broke /\ pc' = "wait" /\ UNCHANGED <<host, disk, cmd, job, broke, ended>>
      BY <1>16, <2>1 DEF Exec, Go, CleanInv, Course
    <3>3. cmd.id \in Nat
      BY ExecAssumption DEF ExecAssumption, CleanInv, TypeOK, Cmd, Ids
    <3>4. (Numbered /\ Accounted)'
      BY <3>1, <3>2, <3>3 DEF CleanInv, Numbered, Accounted
    <3>5. OwnSide'
      BY <3>1, <3>2 DEF CleanInv, OwnSide
    <3>6. (OwnFiles /\ OwnTimings /\ Course)'
      BY <3>1, <3>2 DEF CleanInv, OwnFiles, OwnTimings, Course
    <3>. QED
      BY <3>4, <3>5, <3>6
  <2>2. CASE broke' /\ UNCHANGED procs
    BY <1>16, <2>2 DEF Exec, Go, Fails, Collect, CleanInv, Numbered, Accounted, OwnSide, OwnFiles, OwnTimings, Course
  <2>. QED
    BY <1>16, <2>1, <2>2 DEF Exec, Fails
<1>17. ASSUME NEW ok \in BOOLEAN, Fetch(ok) PROVE Rest'
  BY <1>17 DEF Fetch, Go, Fails, CleanInv, Numbered, Accounted, OwnSide, OwnFiles, OwnTimings, Course
<1>18. ASSUME NEW ok \in BOOLEAN, Explain(ok) PROVE Rest'
  BY <1>18 DEF Explain, Go, Fails, CleanInv, Numbered, Accounted, OwnSide, OwnFiles, OwnTimings, Course
<1>19. ASSUME NEW ok \in BOOLEAN, Clean(ok) PROVE Rest'
  <2>1. disk' \subseteq disk /\ UNCHANGED <<host, procs, cmd, job, ended>>
    BY <1>19 DEF Clean
  <2>2. pc = "clean" /\ pc' = "return" /\ ~host.direct
    BY <1>19 DEF Clean, Go, Fails, CleanInv, Course
  <2>3. (Numbered /\ Accounted /\ OwnTimings /\ Course)'
    BY <2>1, <2>2 DEF CleanInv, Numbered, Accounted, OwnTimings, Course
  <2>4. ~broke' => ~broke /\ disk' = disk \ Scratch
    BY <1>19 DEF Clean, Fails
  <2>5. (OwnSide /\ OwnFiles)'
    <3>1. OwnSide'
      BY <2>1, <2>2, <2>4 DEF CleanInv, OwnSide
    <3>2. ASSUME ~broke', NEW f \in disk', f[1] = cmd.id PROVE FALSE
      <4>1. f \in disk /\ f \notin Scratch /\ ~broke
        BY <3>2, <2>4
      <4>2. f = <<f[1], f[2], f[3]>>
        BY <4>1 DEF CleanInv, TypeOK
      <4>3. f[2] = job /\ (f[3] = "err" \/ (job # "inject" /\ f[3] = "out"))
        BY <4>1, <3>2, <2>2 DEF CleanInv, OwnFiles
      <4>. QED
        BY <4>1, <4>2, <4>3, <3>2 DEF Scratch, File
    <3>. QED
      BY <3>1, <3>2, <2>1 DEF OwnFiles
  <2>. QED
    BY <2>3, <2>5
<1>20. CASE Severed
  BY <1>20 DEF Severed, Go, Fails, Collect, CleanInv, Numbered, Accounted, OwnSide, OwnFiles, OwnTimings, Course
<1>21. ASSUME NEW p \in procs, Opens(p) PROVE Rest'
  <2>1. UNCHANGED <<host, cmd, job, pc, broke, ended>>
    BY <1>21 DEF Opens
  <2>2. PICK q : q.id = p.id /\ q.job = p.job /\ procs' = (procs \ {p}) \cup {q}
    <3>1. p \in Proc
      BY DEF CleanInv, TypeOK
    <3>. QED
      BY <1>21, <3>1 DEF Opens, Updated, Proc
  <2>3. /\ host.direct => disk' = disk
        /\ disk' \subseteq disk \cup {<<p.id, p.job, "err">>}
                     \cup (IF p.job = "inject" THEN {} ELSE {<<p.id, p.job, "out">>})
    BY <1>21 DEF Opens, Put
  <2>4. (Numbered /\ Accounted)'
    BY <2>1, <2>2, <2>3 DEF CleanInv, Numbered, Accounted
  <2>5. OwnSide'
    BY <2>1, <2>2 DEF CleanInv, OwnSide
  <2>6. OwnFiles'
    BY <2>1, <2>2, <2>3 DEF CleanInv, OwnSide, OwnFiles
  <2>7. (OwnTimings /\ Course)'
    BY <2>1, <2>2, <2>3 DEF CleanInv, OwnTimings, Course
  <2>. QED
    BY <2>4, <2>5, <2>6, <2>7
<1>22. ASSUME NEW p \in procs, Feeds(p) PROVE Rest'
  BY <1>22 DEF Feeds, Updated, CleanInv, TypeOK, Proc, Numbered, Accounted, OwnSide, OwnFiles, OwnTimings, Course
<1>23. ASSUME NEW p \in procs, Outputs(p) PROVE Rest'
  BY <1>23 DEF Outputs, Receive, Go, Fails, Heard, CleanInv, Numbered, Accounted, OwnSide, OwnFiles, OwnTimings, Course
<1>24. ASSUME NEW p \in procs, NEW ok \in BOOLEAN, Ends(p, ok) PROVE Rest'
  <2>1. procs' = procs \ {p} /\ UNCHANGED <<host, cmd, job, ended>>
    BY <1>24 DEF Ends
  <2>2. disk' = IF host.direct \/ p.job # "inject" THEN disk ELSE disk \ {<<p.id, p.job, "in">>}
    BY <1>24 DEF Ends, Put
  <2>3. (Numbered /\ Accounted)' \/ (pc' = "idle" /\ pc # "idle")
    BY <2>1, <2>2, <1>24 DEF CleanInv, Numbered, Accounted, Ends, Attended, Collect
  <2>6. OwnTimings'
    BY <2>1, <2>2 DEF CleanInv, OwnTimings
  <2>4. CASE ~Attended(p)
    <3>1. UNCHANGED <<pc, broke>>
      BY <1>24, <2>4 DEF Ends
    <3>. QED
      BY <2>1, <2>2, <2>3, <2>6, <3>1 DEF CleanInv, OwnSide, OwnFiles, Course
  <2>5. CASE Attended(p)
    <3>1. /\ pc = "wait" /\ ~broke /\ p.id = cmd.id /\ p.job = job /\ broke' = ~ok
          /\ pc' = IF ~host.direct /\ p.job = "inject" /\ ~ok THEN "explain" ELSE Collect
      BY <1>24, <2>5 DEF Ends, Attended, InHand, CleanInv, Course
    <3>2. OwnSide'
      BY <2>1, <3>1 DEF CleanInv, OwnSide
    <3>3. Course'
      BY <2>1, <2>2, <3>1 DEF CleanInv, Course, Collect
    <3>4. ASSUME ~broke', NEW f \in disk', f[1] = cmd.id
          PROVE  /\ pc' \in {"fetch", "clean"} /\ f[2] = job
                 /\ f[3] = "err" \/ (job # "inject" /\ f[3] = "out")
      <4>1. f \in disk /\ ~host.direct
        BY <3>4, <2>2 DEF CleanInv, Course
      <4>2. f = <<f[1], f[2], f[3]>>
        BY <4>1 DEF CleanInv, TypeOK
      <4>. QED
        BY <3>1, <3>4, <4>1, <4>2, <2>2 DEF CleanInv, OwnFiles, Collect
    <3>5. OwnFiles'
      BY <3>4, <2>1 DEF OwnFiles
    <3>. QED
      BY <2>3, <2>6, <3>1, <3>2, <3>3, <3>5 DEF Collect
  <2>. QED
    BY <2>4, <2>5
<1>25. CASE AgentWrites
  BY <1>25 DEF AgentWrites, CleanInv, Numbered, Accounted, OwnSide, OwnFiles, OwnTimings, Course
<1>26. CASE Power
  BY <1>26 DEF Power, CleanInv, Numbered, Accounted, OwnSide, OwnFiles, OwnTimings, Course
<1>27. CASE Tick
  BY <1>27 DEF Tick, CleanInv, Numbered, Accounted, OwnSide, OwnFiles, OwnTimings, Course
<1>28. CASE Dies
  BY <1>28 DEF Dies, CleanInv, Numbered, Accounted, OwnSide, OwnFiles, OwnTimings, Course
<1>29. CASE UNCHANGED vars
  BY <1>29 DEF vars, CleanInv, Numbered, Accounted, OwnSide, OwnFiles, OwnTimings, Course
<1>. QED
  BY <1>1, <1>2, <1>3, <1>4, <1>5, <1>6, <1>7, <1>8, <1>9, <1>10, <1>11, <1>12, <1>13, <1>14, <1>15, <1>16, <1>17, <1>18, <1>19, <1>20, <1>21, <1>22, <1>23, <1>24, <1>25, <1>26, <1>27, <1>28, <1>29, <1>30, <1>31, <1>32, <1>33
     DEF Next, Commands, Host, Answers, Refuses, Guest, World

\* What a command left in the guest is of one that failed, was killed or goes
\* on (multipass.go, capture and Send), but for the timings `new` reads last.
THEOREM WhatIsLeftFailed == Spec => []LeftByFailed
<1>1. Init => CleanInv
  <2>1. Init => TypeOK
    BY InitTypes
  <2>2. Init => disk = {} /\ procs = {} /\ pc = "idle" /\ broke = FALSE
    BY DEF Init
  <2>. QED
    BY <2>1, <2>2 DEF CleanInv, Numbered, Accounted, OwnSide, OwnFiles, OwnTimings, Course
<1>2. CleanInv => LeftByFailed
  BY DEF CleanInv, Accounted, LeftByFailed
<1>. QED
  BY <1>1, <1>2, CleanStep, PTL DEF Spec

----------------------------------------------------------------------------
(* What is kept and delivered.                                             *)

\* Which command does which job, and where in it.
Errands ==
  /\ pc = "idle" => job = "none" /\ file = 0 /\ cmd.does = "none" /\ ~broke
  /\ pc \in {"idle", "delete"} \/ job # "none"
  /\ job \in {"boot", "settle", "verify", "inject", "timings"} => cmd.does = "new"
  /\ cmd.does = "new" =>
       cmd.id = 1 /\ job \in {"boot", "settle", "verify", "inject", "timings"} /\ pc \notin {"open", "delete"}
  /\ job = "archive" => cmd.does \in {"save", "rm"}
  /\ pc = "delete" \/ job = "delete" => cmd.does \in {"rm", "discard"}
  /\ pc = "open" => job = "archive"
  /\ pc = "client" <=> job \in {"boot", "delete"}
  /\ job = "settle" => pc = "next"
  /\ cmd.id = 0 => pc = "idle" /\ procs = {}
  /\ \A p \in procs : p.id >= 1 /\ p.job # "none"

\* The token is on its way, or there, in one piece and only if there is one.
TokenWay ==
  /\ cmd.id = 0 => token = "none"
  /\ token # "none" => host.token
  /\ job = "inject" /\ pc # "next" => host.token
  /\ \A p \in procs : p.job = "inject" => host.token
  /\ job \in {"boot", "settle", "verify"} => token = "none" /\ \A p \in procs : p.job # "inject"
  /\ job = "inject" /\ ~broke => token # "part" /\ (pc \in {"clean", "return"} => token = "whole")
  /\ job = "timings" \/ (last.does = "new" /\ last.ok) => token = IF host.token THEN "whole" ELSE "none"

TokenInv == CleanInv /\ Errands /\ TokenWay

\* An exit keeps both, if `new` says that all is well only when it is.
LEMMA ExitErrands ==
  ASSUME TokenInv, NEW ok \in BOOLEAN, NEW n, ExitTelling(ok, n), procs' \subseteq procs, UNCHANGED <<host, token>>,
         ok /\ cmd.does = "new" => token = IF host.token THEN "whole" ELSE "none"
  PROVE  Errands' /\ TokenWay'
BY DEF ExitTelling, TokenInv, Errands, TokenWay

\* A command that begins finds them, and another than `new` the VM made.
LEMMA StartErrands ==
  ASSUME TokenInv, NEW does \in {"new", "save", "rm", "discard"}, Start(does), UNCHANGED <<host, token, procs, broke, file>>,
         does = "new" => cmd.id = 0 /\ job' = "boot" /\ pc' = "client",
         does \in {"save", "rm"} => job' = "archive" /\ pc' = "open",
         does = "discard" => job' = job /\ pc' = "delete"
  PROVE  Errands' /\ TokenWay'
<1>1. cmd'.id = cmd.id + 1 /\ cmd'.does = does /\ cmd.id \in Nat
  BY ExecAssumption DEF ExecAssumption, Start, TokenInv, CleanInv, TypeOK, Cmd, Ids
<1>2. pc = "idle" /\ job = "none" /\ ~broke /\ last' = Untold
  BY DEF Start, TokenInv, Errands
<1>. QED
  BY <1>1, <1>2 DEF TokenInv, Errands, TokenWay, Untold

LEMMA TokenStep == TokenInv /\ [Next]_vars => TokenInv'
<1> SUFFICES ASSUME TokenInv, [Next]_vars PROVE Errands' /\ TokenWay'
  BY CleanStep DEF TokenInv
<1> USE DEF guest, call, store, told, ended, control
<1>1. CASE New
  BY <1>1, StartErrands DEF New
<1>2. CASE Save
  BY <1>2, StartErrands DEF Save
<1>3. CASE Discard
  BY <1>3, StartErrands DEF Discard
<1>4. CASE ClientPrints
  BY <1>4 DEF ClientPrints, TokenInv, Errands, TokenWay
<1>5. CASE BootFails
  BY <1>5, ExitErrands DEF BootFails
<1>6. CASE Boots
  BY <1>6 DEF Boots, TokenInv, Errands, TokenWay
<1>7. CASE Verify
  BY <1>7 DEF Verify, Go, FirstStep, TokenInv, Errands, TokenWay
<1>8. CASE Inject
  <2>1. Errands'
    BY <1>8 DEF Inject, Go, FirstStep, TokenInv, Errands
  <2>2. TokenWay'
    BY <1>8 DEF Inject, Go, FirstStep, TokenInv, TokenWay
  <2>. QED
    BY <2>1, <2>2
<1>9. CASE OpenArchive
  <2>1. CASE Exit(FALSE)
    BY <1>9, <2>1, ExitErrands DEF OpenArchive, Exit
  <2>2. CASE Go(FirstStep) /\ UNCHANGED <<cmd, job, broke, text, out, err, ended>>
    BY <1>9, <2>2 DEF OpenArchive, Go, FirstStep, TokenInv, Errands, TokenWay
  <2>. QED
    BY <1>9, <2>1, <2>2 DEF OpenArchive
<1>10. CASE ReturnArchive
  <2>1. CASE Exit(~broke /\ Fits)
    BY <1>10, <2>1, ExitErrands DEF ReturnArchive, Exit, TokenInv, Errands
  <2>2. CASE Go("delete") /\ cmd.does = "rm" /\ file' = 0 /\ UNCHANGED <<cmd, job, broke, text, out, err, ended>>
    BY <1>10, <2>2 DEF ReturnArchive, Go, TokenInv, Errands, TokenWay
  <2>. QED
    BY <1>10, <2>1, <2>2 DEF ReturnArchive
<1>11. CASE ReturnVerify
  <2>1. CASE broke
    BY <1>11, <2>1, ExitErrands DEF ReturnVerify
  <2>2. CASE ~broke
    BY <1>11, <2>2 DEF ReturnVerify, TokenInv, Errands, TokenWay
  <2>. QED
    BY <2>1, <2>2
<1>12. CASE ReturnInject
  <2>1. CASE broke
    BY <1>12, <2>1, ExitErrands DEF ReturnInject, Exit
  <2>2. CASE ~broke
    BY <1>12, <2>2 DEF ReturnInject, Go, FirstStep, TokenInv, Errands, TokenWay
  <2>. QED
    BY <2>1, <2>2
<1>30. CASE ReturnTimings
  BY <1>30, ExitErrands DEF ReturnTimings, Exit, TokenInv, TokenWay
<1>31. CASE Settle
  <2>1. CASE Exit(FALSE)
    BY <1>31, <2>1, ExitErrands DEF Settle, Exit
  <2>2. CASE job' = "verify" /\ UNCHANGED <<cmd, pc, broke, text, out, err, file, ended>>
    BY <1>31, <2>2 DEF Settle, TokenInv, Errands, TokenWay
  <2>. QED
    BY <1>31, <2>1, <2>2 DEF Settle
<1>13. CASE Delete
  BY <1>13 DEF Delete, TokenInv, Errands, TokenWay
<1>32. CASE Deletes
  BY <1>32, ExitErrands DEF Deletes, Gone, TokenInv, Errands
<1>33. CASE DeleteFails
  BY <1>33, ExitErrands DEF DeleteFails, Gone
<1>14. ASSUME NEW ok \in BOOLEAN, Mkdir(ok) PROVE Errands' /\ TokenWay'
  BY <1>14 DEF Mkdir, Go, Fails, TokenInv, Errands, TokenWay
<1>15. ASSUME NEW ok \in BOOLEAN, Stage(ok) PROVE Errands' /\ TokenWay'
  BY <1>15 DEF Stage, Go, Fails, TokenInv, Errands, TokenWay
<1>16. ASSUME NEW ok \in BOOLEAN, Exec(ok) PROVE Errands' /\ TokenWay'
  <2>1. CASE ok /\ Go("wait") /\ UNCHANGED broke
    <3>1. PICK q : q.id = cmd.id /\ q.job = job /\ procs' = procs \cup {q}
      BY <1>16, <2>1 DEF Exec
    <3>2. pc = "exec" /\ pc' = "wait" /\ UNCHANGED <<host, token, cmd, job, broke, file, last>>
      BY <1>16, <2>1 DEF Exec, Go
    <3>3. cmd.id >= 1
      BY <3>2, ExecAssumption DEF ExecAssumption, TokenInv, CleanInv, TypeOK, Cmd, Ids, Errands, TokenWay
    <3>. QED
      BY <3>1, <3>2, <3>3 DEF TokenInv, Errands, TokenWay
  <2>2. CASE broke' /\ UNCHANGED procs
    BY <1>16, <2>2 DEF Exec, Go, Fails, Collect, TokenInv, Errands, TokenWay
  <2>. QED
    BY <1>16, <2>1, <2>2 DEF Exec, Fails
<1>17. ASSUME NEW ok \in BOOLEAN, Fetch(ok) PROVE Errands' /\ TokenWay'
  BY <1>17 DEF Fetch, Go, Fails, TokenInv, CleanInv, Course, Errands, TokenWay
<1>18. ASSUME NEW ok \in BOOLEAN, Explain(ok) PROVE Errands' /\ TokenWay'
  BY <1>18 DEF Explain, Go, Fails, TokenInv, CleanInv, Course, Errands, TokenWay
<1>19. ASSUME NEW ok \in BOOLEAN, Clean(ok) PROVE Errands' /\ TokenWay'
  BY <1>19 DEF Clean, Go, Fails, TokenInv, Errands, TokenWay
<1>20. CASE Severed
  BY <1>20 DEF Severed, Go, Fails, Collect, TokenInv, Errands, TokenWay
<1>21. ASSUME NEW p \in procs, Opens(p) PROVE Errands' /\ TokenWay'
  BY <1>21 DEF Opens, Updated, TokenInv, CleanInv, TypeOK, Proc, Errands, TokenWay
<1>22. ASSUME NEW p \in procs, Feeds(p) PROVE Errands' /\ TokenWay'
  BY <1>22 DEF Feeds, Updated, TokenInv, CleanInv, TypeOK, Proc, Errands, TokenWay
<1>23. ASSUME NEW p \in procs, Outputs(p) PROVE Errands' /\ TokenWay'
  BY <1>23 DEF Outputs, Receive, Go, Fails, Heard, Attended, InHand, TokenInv, Errands, TokenWay
<1>24. ASSUME NEW p \in procs, NEW ok \in BOOLEAN, Ends(p, ok) PROVE Errands' /\ TokenWay'
  <2>1. procs' = procs \ {p} /\ UNCHANGED <<host, cmd, job, file, last>>
    BY <1>24 DEF Ends
  <2>2. CASE ~Attended(p)
    <3>1. UNCHANGED <<pc, broke>> /\ token' \in {token, Profile(p)}
      BY <1>24, <2>2 DEF Ends
    <3>2. Errands'
      BY <2>1, <3>1 DEF TokenInv, Errands
    <3>3. p.job = "inject" /\ job = "inject" => broke
      BY <2>2, ExecAssumption DEF ExecAssumption, TokenInv, CleanInv, TypeOK, Proc, Ids, Errands, Numbered, OwnSide, Attended, InHand
    <3>. QED
      BY <2>1, <3>1, <3>2, <3>3 DEF TokenInv, Errands, TokenWay, Profile
  <2>3. CASE Attended(p)
    <3>1. /\ pc = "wait" /\ p.job = job /\ ~broke /\ broke' = ~ok
          /\ pc' = IF ~host.direct /\ p.job = "inject" /\ ~ok THEN "explain" ELSE Collect
          /\ token' \in (IF ok THEN {Profile(p)} ELSE {token, Profile(p)})
          /\ ok => p.fed
      BY <1>24, <2>3 DEF Ends, Attended, InHand, TokenInv, CleanInv, Course
    <3>2. Errands'
      BY <2>1, <3>1 DEF TokenInv, Errands, Collect
    <3>3. /\ job # "inject" => token' = token
          /\ token # "none" => token' = token
          /\ ok /\ job = "inject" /\ token = "none" => token' = "whole"
          /\ token' # "none" => host.token
      BY <3>1 DEF Profile, TokenInv, TokenWay
    <3>. QED
      BY <2>1, <3>1, <3>2, <3>3 DEF TokenInv, CleanInv, TypeOK, Errands, TokenWay
  <2>. QED
    BY <2>2, <2>3
<1>25. CASE AgentWrites
  BY <1>25 DEF AgentWrites, TokenInv, Errands, TokenWay
<1>26. CASE Power
  BY <1>26 DEF Power, TokenInv, Errands, TokenWay
<1>27. CASE Tick
  BY <1>27 DEF Tick, TokenInv, Errands, TokenWay
<1>28. CASE Dies
  BY <1>28 DEF Dies, TokenInv, Errands, TokenWay
<1>29. CASE UNCHANGED vars
  BY <1>29 DEF vars, TokenInv, Errands, TokenWay
<1>. QED
  BY <1>1, <1>2, <1>3, <1>4, <1>5, <1>6, <1>7, <1>8, <1>9, <1>10, <1>11, <1>12, <1>13, <1>14, <1>15, <1>16, <1>17, <1>18, <1>19, <1>20, <1>21, <1>22, <1>23, <1>24, <1>25, <1>26, <1>27, <1>28, <1>29, <1>30, <1>31, <1>32, <1>33
     DEF Next, Commands, Host, Answers, Refuses, Guest, World

\* What has arrived and what is to come are a session of some length, written
\* since the command began.
Carries(seen, a, b) ==
  \E n \in seen .. MaxSession : a \in Seq({n}) /\ b \in Seq({n}) /\ Len(a) + Len(b) = n

Arrived == IF host.direct THEN archives[file].held ELSE text.out

Proper(a) ==
  a = [by |-> a.by, held |-> a.held] /\ a.held \in Seq(Nat) /\ Len(a.held) <= Cap

\* The archive in hand is the command's; every other is whole.
Stored ==
  /\ file # 0 => job = "archive" /\ pc \notin {"idle", "open", "delete"}
                 /\ file \in DOMAIN archives /\ archives[file].by = cmd.id
  /\ job = "archive" /\ pc \notin {"open", "delete"} => file # 0
  /\ \A s \in DOMAIN archives :
       /\ Proper(archives[s])
       /\ archives[s].by \notin dead /\ s # file => Whole(archives[s])
  /\ text = [left |-> text.left, out |-> text.out, err |-> text.err]
  /\ cmd.seen <= session

\* While no call failed, nothing of the session is lost on its way to the archive.
Passed ==
  job = "archive" /\ ~broke =>
    /\ pc = "wait" => \A p \in procs : p.id = cmd.id =>
         IF p.open THEN Carries(cmd.seen, Arrived, text.left)
         ELSE host.direct => archives[file].held = <<>>
    /\ host.direct /\ pc = "exec" => archives[file].held = <<>>
    /\ pc = "fetch" => Carries(cmd.seen, text.out, <<>>)
    /\ pc \in {"clean", "return"} => Carries(cmd.seen, Kept, <<>>)

SeenKept ==
  (pc = "delete" \/ job = "delete") /\ cmd.does = "rm" =>
    cmd.seen = 0 \/ \E s \in DOMAIN archives :
      archives[s].by = cmd.id /\ Whole(archives[s]) /\ archives[s].held[1] >= cmd.seen

StoreInv == TokenInv /\ Stored /\ Passed /\ SeenKept

\* A glyph passed on is not lost.
LEMMA HeadMoves ==
  ASSUME NEW seen \in Nat, NEW a, NEW b, b # <<>>, Carries(seen, a, b)
  PROVE  Carries(seen, Append(a, Head(b)), Tail(b))
<1>1. PICK n \in seen .. MaxSession : a \in Seq({n}) /\ b \in Seq({n}) /\ Len(a) + Len(b) = n
  BY DEF Carries
<1>2. Head(b) = n /\ Tail(b) \in Seq({n}) /\ Len(Tail(b)) = Len(b) - 1
  BY <1>1
<1>3. Append(a, Head(b)) \in Seq({n}) /\ Len(Append(a, Head(b))) = Len(a) + 1
  BY <1>1, <1>2
<1>4. Len(a) \in Nat /\ Len(b) \in Nat
  BY <1>1
<1>5. Len(Append(a, Head(b))) + Len(Tail(b)) = n
  BY <1>1, <1>2, <1>3, <1>4
<1>. QED
  BY <1>1, <1>2, <1>3, <1>5 DEF Carries

\* What arrived with nothing to come is whole.
LEMMA CarriedIsWhole ==
  ASSUME NEW seen \in Nat, NEW a, Carries(seen, a, <<>>), NEW s, s.held = a
  PROVE  IF a = <<>> THEN seen = 0 ELSE Whole(s) /\ a[1] >= seen /\ a \in Seq(Nat)
<1>1. PICK n \in seen .. MaxSession : a \in Seq({n}) /\ Len(a) = n
  BY DEF Carries
<1>2. CASE a = <<>>
  BY <1>1, <1>2
<1>3. CASE a # <<>>
  <2>1. a[1] = n /\ n \in Nat
    BY <1>1, <1>3
  <2>. QED
    BY <1>1, <1>3, <2>1 DEF Whole
<1>. QED
  BY <1>2, <1>3

\* An exit with no archive in hand.
LEMMA ExitStored ==
  ASSUME StoreInv, NEW ok, NEW n, ExitTelling(ok, n), file = 0, UNCHANGED <<archives, session>>
  PROVE  Stored' /\ Passed' /\ SeenKept'
<1>1. pc' = "idle" /\ job' = "none" /\ file' = 0 /\ text' = NoText /\ cmd'.seen = 0 /\ UNCHANGED dead
  BY DEF ExitTelling
<1>2. session \in Nat
  BY DEF StoreInv, TokenInv, CleanInv, TypeOK
<1>. QED
  BY <1>1, <1>2 DEF StoreInv, Stored, Passed, Arrived, SeenKept, NoText

\* A command begins with what the session holds in view.
LEMMA StartStored ==
  ASSUME StoreInv, NEW does, Start(does), UNCHANGED <<archives, session, text, file>>,
         pc' \in {"client", "open", "delete"}, pc' = "delete" => does = "discard",
         job' = "archive" => pc' # "client", job' # "delete"
  PROVE  Stored' /\ Passed' /\ SeenKept'
<1>1. cmd'.seen = session /\ cmd'.does = does /\ pc = "idle" /\ UNCHANGED dead /\ file = 0
  BY DEF Start, StoreInv, TokenInv, Errands
<1>2. session \in Nat
  BY DEF StoreInv, TokenInv, CleanInv, TypeOK
<1>. QED
  BY <1>1, <1>2 DEF StoreInv, Stored, Passed, Arrived, SeenKept

LEMMA StoreStep == StoreInv /\ [Next]_vars => StoreInv'
<1> DEFINE Rest == Stored /\ Passed /\ SeenKept
<1> SUFFICES ASSUME StoreInv, [Next]_vars PROVE Rest'
  BY TokenStep DEF StoreInv
<1> USE DEF guest, call, store, told, ended, control
<1> DEFINE Invs == StoreInv /\ TokenInv /\ CleanInv
<1>0. /\ Invs /\ cmd.seen \in Nat /\ session \in Nat /\ MaxSession \in Nat
      /\ host.direct => pc \notin {"scratch", "stage", "fetch", "explain", "clean"}
  BY ExecAssumption DEF ExecAssumption, StoreInv, TokenInv, CleanInv, TypeOK, Cmd, Course
<1>1. CASE New
  BY <1>1, StartStored DEF New
<1>2. CASE Save
  BY <1>2, StartStored DEF Save
<1>3. CASE Discard
  BY <1>3, <1>0, StartStored DEF Discard, Start, TokenInv, Errands
<1>4. CASE ClientPrints
  BY <1>4 DEF ClientPrints, StoreInv, Stored, Passed, Arrived, SeenKept
<1>5. CASE BootFails
  <2>1. file = 0
    BY <1>5, <1>0 DEF BootFails, StoreInv, Stored, Errands, TokenInv
  <2>. QED
    BY <1>5, <2>1, ExitStored DEF BootFails
<1>6. CASE Boots
  BY <1>6, <1>0 DEF Boots, TokenInv, Errands, StoreInv, Stored, Passed, Arrived, SeenKept
<1>7. CASE Verify
  BY <1>7 DEF Verify, Go, FirstStep, StoreInv, Stored, Passed, Arrived, SeenKept
<1>8. CASE Inject
  BY <1>8 DEF Inject, Go, FirstStep, StoreInv, Stored, Passed, Arrived, SeenKept
<1>9. CASE OpenArchive
  <2>1. CASE Exit(FALSE) /\ UNCHANGED archives
    <3>1. file = 0 /\ UNCHANGED session
      BY <1>9 DEF OpenArchive, StoreInv, Stored
    <3>. QED
      BY <2>1, <3>1, ExitStored DEF Exit
  <2>2. CASE /\ clock \notin DOMAIN archives
             /\ archives' = [s \in DOMAIN archives \cup {clock} |->
                               IF s = clock THEN [by |-> cmd.id, held |-> <<>>] ELSE archives[s]]
             /\ file' = clock /\ Go(FirstStep)
             /\ UNCHANGED <<cmd, job, broke, text, out, err, ended>>
    <3>1. pc = "open" /\ file = 0 /\ clock # 0 /\ UNCHANGED session
      BY <1>9, <1>0 DEF OpenArchive, StoreInv, Stored, CleanInv, TypeOK
    <3>4. job = "archive" /\ pc' \notin {"idle", "open", "delete"} /\ UNCHANGED <<cmd, job, text, dead>>
      BY <2>2, <3>1, <1>0 DEF TokenInv, Errands, Go, FirstStep
    <3>2. /\ DOMAIN archives' = DOMAIN archives \cup {clock}
          /\ archives'[clock] = [by |-> cmd.id, held |-> <<>>]
          /\ \A s \in DOMAIN archives : archives'[s] = archives[s]
      BY <2>2
    <3>3. Stored'
      <4>1. Proper(archives'[clock])
        BY <3>2, ExecAssumption DEF ExecAssumption, Proper
      <4>. QED
        BY <2>2, <3>1, <3>2, <3>4, <4>1 DEF StoreInv, Stored
    <3>. QED
      BY <1>9, <2>2, <3>1, <3>2, <3>3, <3>4 DEF OpenArchive, Go, FirstStep, Passed, Arrived, SeenKept
  <2>. QED
    BY <1>9, <2>1, <2>2 DEF OpenArchive
<1>10. CASE ReturnArchive
  <2>1. /\ file \in DOMAIN archives /\ archives[file].by = cmd.id /\ file # 0
        /\ \A s \in DOMAIN archives : archives[s].by \notin dead /\ s # file => Whole(archives[s])
        /\ ~broke => Carries(cmd.seen, Kept, <<>>)
    BY <1>10 DEF ReturnArchive, StoreInv, Stored, Passed, Arrived
  <2>2. UNCHANGED <<session, dead, text>> \/ (UNCHANGED <<session, dead>> /\ text' = NoText)
    BY <1>10 DEF ReturnArchive, Exit, ExitTelling
  <2>3. file' = 0 /\ pc' \in {"idle", "delete"} /\ (job' = "archive" => pc' = "delete") /\ job' # "delete" /\ cmd'.seen <= session
    BY <1>10, <1>0 DEF ReturnArchive, Exit, ExitTelling, Go, StoreInv, Stored
  <2>4. CASE broke \/ ~Fits \/ Kept = <<>>
    <3>1. archives' = Without(archives, {file})
      BY <1>10, <2>4 DEF ReturnArchive
    <3>2. DOMAIN archives' = DOMAIN archives \ {file} /\ \A s \in DOMAIN archives' : archives'[s] = archives[s]
      BY <3>1 DEF Without
    <3>3. Stored'
      BY <2>1, <2>2, <2>3, <3>2 DEF StoreInv, Stored, NoText
    <3>4. pc' = "delete" => cmd' = cmd /\ Kept = <<>> /\ ~broke
      BY <1>10, <2>4 DEF ReturnArchive, Exit, ExitTelling, Go
    <3>5. Kept = <<>> /\ ~broke => cmd.seen = 0
      BY <2>1, <1>0, CarriedIsWhole, [held |-> Kept].held = Kept
    <3>. QED
      BY <2>3, <3>3, <3>4, <3>5 DEF Passed, Arrived, SeenKept
  <2>5. CASE ~(broke \/ ~Fits \/ Kept = <<>>)
    <3>1. archives' = [archives EXCEPT ![file].held = Kept]
      BY <1>10, <2>5 DEF ReturnArchive
    <3>2. /\ DOMAIN archives' = DOMAIN archives
          /\ \A s \in DOMAIN archives \ {file} : archives'[s] = archives[s]
          /\ archives'[file] = [by |-> cmd.id, held |-> Kept]
      BY <2>1, <3>1 DEF StoreInv, Stored, Proper
    <3>3. Whole(archives'[file]) /\ Kept[1] >= cmd.seen /\ Kept \in Seq(Nat)
      BY <2>1, <2>5, <3>2, <1>0, CarriedIsWhole
    <3>4. Len(Kept) <= Cap
      BY <2>1, <2>5 DEF Kept, Fits, StoreInv, Stored, Proper
    <3>7. Proper(archives'[file])
      BY <3>2, <3>3, <3>4 DEF Proper
    <3>5. Stored'
      BY <2>1, <2>2, <2>3, <3>2, <3>3, <3>7 DEF StoreInv, Stored, NoText
    <3>6. pc' = "delete" => cmd' = cmd
      BY <1>10 DEF ReturnArchive, Exit, ExitTelling, Go
    <3>. QED
      BY <2>1, <2>3, <3>2, <3>3, <3>5, <3>6 DEF Passed, Arrived, SeenKept
  <2>. QED
    BY <2>4, <2>5
<1>11. CASE ReturnVerify
  <2>1. CASE broke
    BY <1>11, <2>1, ExitStored DEF ReturnVerify, StoreInv, Stored
  <2>2. CASE ~broke
    BY <1>11, <2>2 DEF ReturnVerify, StoreInv, Stored, Passed, Arrived, SeenKept, NoText
  <2>. QED
    BY <2>1, <2>2
<1>12. CASE ReturnInject
  <2>1. CASE broke
    BY <1>12, <2>1, ExitStored DEF ReturnInject, Exit, StoreInv, Stored
  <2>2. CASE ~broke
    BY <1>12, <2>2 DEF ReturnInject, Go, FirstStep, StoreInv, Stored, Passed, Arrived, SeenKept, NoText
  <2>. QED
    BY <2>1, <2>2
<1>30. CASE ReturnTimings
  BY <1>30, ExitStored DEF ReturnTimings, Exit, StoreInv, Stored
<1>31. CASE Settle
  <2>1. CASE Exit(FALSE)
    BY <1>31, <2>1, ExitStored DEF Settle, Exit, StoreInv, Stored
  <2>2. CASE job' = "verify" /\ UNCHANGED <<cmd, pc, broke, text, out, err, file, ended>>
    BY <1>31, <2>2 DEF Settle, StoreInv, Stored, Passed, Arrived, SeenKept
  <2>. QED
    BY <1>31, <2>1, <2>2 DEF Settle
<1>13. CASE Delete
  BY <1>13 DEF Delete, StoreInv, Stored, Passed, Arrived, SeenKept, NoText
<1>32. CASE Deletes
  BY <1>32, ExitStored DEF Deletes, StoreInv, Stored
<1>33. CASE DeleteFails
  BY <1>33, ExitStored DEF DeleteFails, StoreInv, Stored
<1>14. ASSUME NEW ok \in BOOLEAN, Mkdir(ok) PROVE Rest'
  BY <1>14, <1>0 DEF Mkdir, Go, Fails, StoreInv, Stored, Passed, Arrived, SeenKept
<1>15. ASSUME NEW ok \in BOOLEAN, Stage(ok) PROVE Rest'
  BY <1>15, <1>0 DEF Stage, Go, Fails, StoreInv, Stored, Passed, Arrived, SeenKept, CleanInv, Course
<1>16. ASSUME NEW ok \in BOOLEAN, Exec(ok) PROVE Rest'
  <2>1. CASE ok /\ Go("wait") /\ UNCHANGED broke
    <3>1. PICK q : q.id = cmd.id /\ q.open = FALSE /\ procs' = procs \cup {q}
      BY <1>16, <2>1 DEF Exec
    <3>2. pc = "exec" /\ pc' = "wait" /\ UNCHANGED <<host, cmd, job, broke, file, archives, text, dead, session>>
      BY <1>16, <2>1 DEF Exec, Go
    <3>3. ~broke => \A p \in procs : p.id # cmd.id
      BY <3>2, <1>0 DEF CleanInv, OwnSide
    <3>. QED
      BY <3>1, <3>2, <3>3 DEF StoreInv, Stored, Passed, Arrived, SeenKept
  <2>2. CASE broke'
    BY <1>16, <2>2 DEF Exec, Go, Fails, Collect, StoreInv, Stored, Passed, Arrived, SeenKept
  <2>. QED
    BY <1>16, <2>1, <2>2 DEF Exec, Fails
<1>17. ASSUME NEW ok \in BOOLEAN, Fetch(ok) PROVE Rest'
  BY <1>17, <1>0 DEF Fetch, Go, Fails, StoreInv, Stored, Passed, Arrived, SeenKept, Kept
<1>18. ASSUME NEW ok \in BOOLEAN, Explain(ok) PROVE Rest'
  BY <1>18, <1>0 DEF Explain, Go, Fails, StoreInv, Stored, Passed, Arrived, SeenKept, CleanInv, Course
<1>19. ASSUME NEW ok \in BOOLEAN, Clean(ok) PROVE Rest'
  BY <1>19, <1>0 DEF Clean, Go, Fails, StoreInv, Stored, Passed, Arrived, SeenKept, Kept
<1>20. CASE Severed
  BY <1>20 DEF Severed, Go, Fails, Collect, StoreInv, Stored, Passed, Arrived, SeenKept
<1>21. ASSUME NEW p \in procs, Opens(p) PROVE Rest'
  <2>1. UNCHANGED <<host, cmd, job, pc, broke, archives, file, dead, session, out>>
    BY <1>21 DEF Opens
  <2>2. PICK q : q.id = p.id /\ q.job = p.job /\ q.open /\ procs' = (procs \ {p}) \cup {q}
    BY <1>21, <1>0 DEF Opens, Updated, CleanInv, TypeOK, Proc
  <2>3. /\ ~InHand(p) => text' = text
        /\ InHand(p) /\ p.job = "archive" => text' = [NoText EXCEPT !.left = [i \in 1 .. session |-> session]]
    <3>1. CASE ~InHand(p)
      BY <1>21, <3>1 DEF Opens
    <3>2. CASE InHand(p) /\ p.job = "archive"
      BY <1>21, <3>2 DEF Opens
    <3>. QED
      BY <3>1, <3>2
  <2>6. text' = [left |-> text'.left, out |-> text'.out, err |-> text'.err]
    BY <1>21 DEF Opens, NoText, StoreInv, Stored
  <2>4. Stored' /\ SeenKept'
    BY <2>1, <2>6 DEF StoreInv, Stored, SeenKept
  <2>5. ASSUME job = "archive", ~broke PROVE Passed'
    <3>1. CASE p.id = cmd.id
      <4>1. pc = "wait" /\ p.job = "archive" /\ \A r \in procs : r.id = cmd.id => r = p
        BY <2>5, <3>1, <1>0 DEF CleanInv, OwnSide, TokenInv, Errands
      <4>2. text'.left = [i \in 1 .. session |-> session] /\ text'.out = <<>>
        BY <2>3, <2>5, <3>1, <4>1 DEF InHand, NoText
      <4>3. host.direct => archives[file].held = <<>>
        BY <1>21, <2>5, <3>1, <4>1 DEF Opens, StoreInv, Passed, Arrived
      <4>4. session \in cmd.seen .. MaxSession
        BY <1>0 DEF StoreInv, Stored, CleanInv, TypeOK
      <4>5. text'.left \in Seq({session}) /\ Len(text'.left) = session
        BY <4>2, <1>0
      <4>6. <<>> \in Seq({session}) /\ Len(<<>>) = 0 /\ 0 + session = session
        BY <1>0
      <4>7. Carries(cmd.seen, <<>>, text'.left)
        BY <4>4, <4>5, <4>6 DEF Carries
      <4>. QED
        BY <2>1, <2>2, <4>1, <4>2, <4>3, <4>7 DEF Passed, Arrived
    <3>2. CASE p.id # cmd.id
      <4>1. text' = text
        BY <2>3, <3>2 DEF InHand
      <4>. QED
        BY <2>1, <2>2, <3>2, <4>1 DEF StoreInv, Passed, Arrived, Kept
    <3>. QED
      BY <3>1, <3>2
  <2>. QED
    BY <2>1, <2>4, <2>5 DEF Passed, Arrived
<1>22. ASSUME NEW p \in procs, Feeds(p) PROVE Rest'
  <2>1. UNCHANGED <<host, cmd, job, pc, broke, text, out, archives, file, dead, session>>
    BY <1>22 DEF Feeds
  <2>2. PICK q : q.id = p.id /\ q.open = p.open /\ procs' = (procs \ {p}) \cup {q}
    BY <1>22, <1>0 DEF Feeds, Updated, CleanInv, TypeOK, Proc
  <2>. QED
    <3>1. Stored' /\ SeenKept'
      BY <2>1 DEF StoreInv, Stored, SeenKept
    <3>. QED
      <4>1. Arrived' = Arrived /\ Kept' = Kept
        BY <2>1 DEF Arrived, Kept
      <4>. QED
        BY <2>1, <2>2, <3>1, <4>1 DEF StoreInv, Passed
<1>23. ASSUME NEW p \in procs, Outputs(p) PROVE Rest'
  <2>1. /\ UNCHANGED <<host, procs, cmd, job, file, dead, session, out>>
        /\ p.open /\ p.id = cmd.id /\ p.job = job /\ text.left # <<>>
    BY <1>23 DEF Outputs, InHand
  <2>2. /\ text'.left = Tail(text.left) /\ text' = [left |-> text'.left, out |-> text'.out, err |-> text'.err]
        /\ text'.out = IF host.direct THEN text.out ELSE Append(text.out, Head(text.left))
    BY <1>23 DEF Outputs, StoreInv, Stored
  <2>3. CASE ~(host.direct /\ Attended(p)) \/ job # "archive"
    <3>1. archives' = archives /\ (job # "archive" \/ UNCHANGED <<pc, broke>>)
      BY <1>23, <2>3 DEF Outputs, Receive
    <3>2. pc' = pc
      BY <1>23, <2>3 DEF Outputs, Receive
    <3>3. Stored' /\ SeenKept'
      BY <2>1, <2>2, <3>1, <3>2 DEF StoreInv, Stored, SeenKept
    <3>4. ASSUME job = "archive", ~broke PROVE Passed'
      <4>1. ~host.direct /\ pc = "wait" /\ \A r \in procs : r.id = cmd.id => r = p
        BY <2>1, <2>3, <3>4, <1>0 DEF CleanInv, OwnSide, TokenInv, Errands, Attended, InHand
      <4>2. Carries(cmd.seen, text.out, text.left)
        BY <2>1, <3>4, <4>1 DEF StoreInv, Passed, Arrived
      <4>3. Carries(cmd.seen, text'.out, text'.left)
        BY <2>1, <2>2, <4>1, <4>2, <1>0, HeadMoves
      <4>. QED
        BY <2>1, <3>2, <4>1, <4>3 DEF Passed, Arrived
    <3>. QED
      BY <2>1, <3>1, <3>3, <3>4 DEF Passed, Arrived
  <2>4. CASE host.direct /\ Attended(p) /\ job = "archive"
    <3>1. pc = "wait" /\ ~broke /\ file # 0 /\ file \in DOMAIN archives /\ cmd.does # "new"
      BY <2>4, <1>0 DEF Attended, CleanInv, Course, TokenInv, Errands, StoreInv, Stored
    <3>2. \A r \in procs : r.id = cmd.id => r = p
      BY <2>1, <3>1, <1>0 DEF CleanInv, OwnSide
    <3>3. Carries(cmd.seen, archives[file].held, text.left)
      BY <2>1, <2>4, <3>1 DEF StoreInv, Passed, Arrived
    <3>4. CASE pc' = "return" /\ broke' /\ archives' = archives
      BY <2>1, <2>2, <2>4, <3>1, <3>4 DEF StoreInv, Stored, Passed, Arrived, SeenKept
    <3>5. CASE /\ Len(archives[file].held) < Cap /\ UNCHANGED <<pc, broke>>
               /\ archives' = [archives EXCEPT ![file].held = Append(@, Head(text.left))]
      <4>1. /\ DOMAIN archives' = DOMAIN archives
            /\ \A s \in DOMAIN archives \ {file} : archives'[s] = archives[s]
            /\ archives'[file] = [by |-> archives[file].by, held |-> Append(archives[file].held, Head(text.left))]
        <5>1. archives[file] = [by |-> archives[file].by, held |-> archives[file].held]
          BY <3>1 DEF StoreInv, Stored, Proper
        <5>. QED
          BY <3>1, <3>5, <5>1
      <4>2. Carries(cmd.seen, archives'[file].held, text'.left)
        BY <2>1, <2>2, <3>3, <4>1, <1>0, HeadMoves
      <4>3. archives'[file].held \in Seq(Nat) /\ Len(archives'[file].held) <= Cap
        <5>1. Head(text.left) \in Nat
          BY <2>1, <3>3, <1>0 DEF Carries
        <5>2. archives[file].held \in Seq(Nat) /\ Cap \in Nat
          BY <3>1, ExecAssumption DEF ExecAssumption, StoreInv, Stored, Proper
        <5>. QED
          BY <3>5, <4>1, <5>1, <5>2
      <4>4. Stored' /\ SeenKept'
        <5>1. Proper(archives'[file])
          BY <4>1, <4>3 DEF Proper
        <5>. QED
          BY <2>1, <2>2, <3>1, <3>5, <4>1, <5>1 DEF StoreInv, Stored, SeenKept
      <4>5. Passed'
        BY <2>1, <2>4, <3>1, <3>2, <3>5, <4>2 DEF Passed, Arrived
      <4>. QED
        BY <4>4, <4>5
    <3>. QED
      BY <1>23, <2>4, <3>4, <3>5 DEF Outputs, Receive, Fails, Go
  <2>. QED
    BY <2>3, <2>4
<1>24. ASSUME NEW p \in procs, NEW ok \in BOOLEAN, Ends(p, ok) PROVE Rest'
  <2>1. procs' = procs \ {p} /\ UNCHANGED <<host, cmd, job, file, archives, text, out, dead, session>>
    BY <1>24 DEF Ends
  <2>2. CASE ~Attended(p)
    <3>1. UNCHANGED <<pc, broke>>
      BY <1>24, <2>2 DEF Ends
    <3>. QED
      BY <2>1, <3>1 DEF StoreInv, Stored, Passed, Arrived, SeenKept, Kept
  <2>3. CASE Attended(p)
    <3>1. /\ pc = "wait" /\ p.job = job /\ p.id = cmd.id /\ ~broke /\ broke' = ~ok /\ p.open
          /\ pc' = IF ~host.direct /\ p.job = "inject" /\ ~ok THEN "explain" ELSE Collect
          /\ ok => text.left = <<>>
      BY <1>24, <2>3, <1>0 DEF Ends, Attended, InHand, CleanInv, Course
    <3>2. Stored' /\ SeenKept'
      BY <2>1, <3>1 DEF StoreInv, Stored, SeenKept, Collect
    <3>3. ASSUME job = "archive", ok PROVE Carries(cmd.seen, Arrived, <<>>)
      BY <3>1, <3>3 DEF StoreInv, Passed, Arrived
    <3>4. Passed'
      BY <2>1, <3>1, <3>3 DEF Passed, Arrived, Collect, Kept
    <3>. QED
      BY <3>2, <3>4
  <2>. QED
    BY <2>2, <2>3
<1>25. CASE AgentWrites
  <2>1. session <= session' /\ UNCHANGED <<host, procs, cmd, call, archives, file, dead>>
    BY <1>25, <1>0 DEF AgentWrites
  <2>2. Stored' /\ SeenKept'
    BY <1>0, <2>1, <1>25 DEF StoreInv, Stored, SeenKept, AgentWrites
  <2>. QED
    BY <2>1, <2>2 DEF StoreInv, Passed, Arrived, Kept
<1>26. CASE Power
  BY <1>26 DEF Power, StoreInv, Stored, Passed, Arrived, SeenKept, Kept
<1>27. CASE Tick
  BY <1>27 DEF Tick, StoreInv, Stored, Passed, Arrived, SeenKept, Kept
<1>28. CASE Dies
  BY <1>28, <1>0 DEF Dies, StoreInv, Stored, Passed, Arrived, SeenKept, NoText
<1>29. CASE UNCHANGED vars
  BY <1>29 DEF vars, StoreInv, Stored, Passed, Arrived, SeenKept, Kept
<1>. QED
  BY <1>1, <1>2, <1>3, <1>4, <1>5, <1>6, <1>7, <1>8, <1>9, <1>10, <1>11, <1>12, <1>13, <1>14, <1>15, <1>16, <1>17, <1>18, <1>19, <1>20, <1>21, <1>22, <1>23, <1>24, <1>25, <1>26, <1>27, <1>28, <1>29, <1>30, <1>31, <1>32, <1>33
     DEF Next, Commands, Host, Answers, Refuses, Guest, World

\* The properties it is for hold at the start and in each step.
LEMMA InitStore == Init => StoreInv
<1> SUFFICES ASSUME Init PROVE StoreInv
  OBVIOUS
<1>1. TypeOK
  BY InitTypes
<1>. QED
  BY <1>1 DEF Init, StoreInv, TokenInv, CleanInv, Numbered, Accounted, OwnSide, OwnFiles, OwnTimings, Course,
     Errands, TokenWay, Stored, Passed, SeenKept, NoArchives, NoText, Untold

\* An archive that no killed command left holds a whole session, and a `new`
\* that ends well leaves the whole token (save.go:120-132, new.go:715).
THEOREM KeptIsWhole == Spec => []OkMeansWhole
<1>1. StoreInv => OkMeansWhole
  BY DEF StoreInv, TokenInv, TokenWay, Stored, Proper, OkMeansWhole
<1>. QED
  BY <1>1, InitStore, StoreStep, PTL DEF Spec

\* `rm` takes a VM only when what its session held is on the host, unless it
\* was told not to archive (lifecycle.go:203-210).
THEOREM SessionIsKept == Spec => SessionKept
<1> DEFINE Saved == cmd.seen = 0 \/ \E s \in DOMAIN archives :
              archives[s].by = cmd.id /\ Whole(archives[s]) /\ archives[s].held[1] >= cmd.seen
           Removal == vm # "none" /\ vm' = "none" /\ cmd.does = "rm" => Saved
<1>1. StoreInv /\ [Next]_vars => [Removal]_vars
  <2> SUFFICES ASSUME StoreInv, Next, vm # "none", vm' = "none" PROVE cmd.does = "rm" => Saved
    OBVIOUS
  <2>1. CASE Commands \/ Answers \/ Refuses
    BY <2>1 DEF Commands, Answers, Refuses, New, Save, Discard, Mkdir, Stage, Exec, Fetch, Explain, Clean, Severed, guest
  <2>2. CASE Host
    <3>1. Deletes \/ DeleteFails
      BY <2>2 DEF Host, ClientPrints, BootFails, Boots, Settle, Verify, Inject, OpenArchive, ReturnArchive, ReturnVerify,
         ReturnInject, ReturnTimings, Delete, guest
    <3>. QED
      BY <3>1 DEF Deletes, DeleteFails, StoreInv, SeenKept
  <2>3. CASE Guest \/ World
    <3>1. CASE Guest
      <4>1. PICK p \in procs : Opens(p) \/ Feeds(p) \/ Outputs(p) \/ \E ok \in BOOLEAN : Ends(p, ok)
        BY <3>1 DEF Guest
      <4>2. CASE Opens(p)
        BY <4>2 DEF Opens, guest
      <4>4. CASE Outputs(p)
        BY <4>4 DEF Outputs, guest
      <4>3. CASE Feeds(p) \/ \E ok \in BOOLEAN : Ends(p, ok)
        BY <4>3 DEF Feeds, Ends, guest
      <4>. QED
        BY <4>1, <4>2, <4>3, <4>4
    <3>2. CASE World
      BY <3>2 DEF World, AgentWrites, Power, Tick, Dies, guest
    <3>. QED
      BY <2>3, <3>1, <3>2
  <2>. QED
    BY <2>1, <2>2, <2>3 DEF Next
<1>2. [Removal]_vars => [vm # "none" /\ vm' = "none" /\ cmd.does = "rm" =>
        cmd.seen = 0 \/ \E s \in DOMAIN archives :
          archives[s].by = cmd.id /\ Whole(archives[s]) /\ archives[s].held[1] >= cmd.seen]_vars
  OBVIOUS
<1>. QED
  BY <1>1, <1>2, InitStore, StoreStep, PTL DEF Spec, SessionKept

----------------------------------------------------------------------------
(* What an invocation wrote is shown, line by line.                        *)

\* Induction over the natural numbers, from the least one outside the set.
LEMMA Counting ==
  ASSUME NEW S, 0 \in S, \A n \in Nat : n \in S => n + 1 \in S
  PROVE  Nat \subseteq S
<1> DEFINE T == Nat \ S
           R == {ss \in Nat \X Nat : ss[1] < ss[2]}
<1> SUFFICES ASSUME T # {} PROVE FALSE
  OBVIOUS
<1>1. IsWellFoundedOn(R, Nat)
  BY NatLessThanWellFounded DEF OpToRel
<1>2. T \subseteq Nat
  OBVIOUS
<1> HIDE DEF T, R
<1>3. PICK x \in T : \A y \in T : ~ (<<y, x>> \in R)
  BY <1>1, <1>2, WFMin
<1>4. \A y \in T : ~(y < x)
  BY <1>2, <1>3 DEF R
<1> USE DEF T
<1>5. x # 0 /\ x - 1 \in Nat
  BY <1>2
<1>6. x - 1 \in S
  BY <1>4, <1>5, <1>2
<1>. QED
  BY <1>5, <1>6, <1>2

\* Write goes through the glyphs one by one.
LEMMA TakenGlyphs ==
  ASSUME NEW n, NEW x, Len(x) \in Nat
  PROVE  /\ Taken(n, x)[0] = n
         /\ \A i \in 1 .. Len(x) : Taken(n, x)[i] = Take(Taken(n, x)[i - 1], x[i])
<1> DEFINE Runs(f, k) == f = [i \in 0 .. k |-> IF i = 0 THEN n ELSE Take(f[i - 1], x[i])]
           S == {k \in Nat : \E f : Runs(f, k)}
<1>1. 0 \in S
  <2> DEFINE f == [i \in 0 .. 0 |-> n]
  <2>1. Runs(f, 0)
    <3>1. \A i \in 0 .. 0 : i = 0
      OBVIOUS
    <3>. QED
      BY <3>1
  <2>. QED
    BY <2>1
<1>2. ASSUME NEW k \in Nat, k \in S PROVE k + 1 \in S
  <2>1. PICK f : Runs(f, k)
    BY <1>2
  <2> DEFINE h == [i \in 0 .. k + 1 |-> IF i = k + 1 THEN Take(f[k], x[k + 1]) ELSE f[i]]
  <2>2. \A i \in 0 .. k : h[i] = f[i]
    OBVIOUS
  <2>3. \A i \in 0 .. k + 1 : h[i] = IF i = 0 THEN n ELSE Take(h[i - 1], x[i])
    <3> TAKE i \in 0 .. k + 1
    <3>1. CASE i = k + 1
      <4>1. i # 0 /\ i - 1 = k /\ k \in 0 .. k
        BY <3>1
      <4>2. h[k] = f[k]
        BY <2>2, <4>1
      <4>. QED
        BY <3>1, <4>1, <4>2
    <3>2. CASE i \in 0 .. k /\ i # 0
      <4>1. i - 1 \in 0 .. k
        BY <3>2
      <4>2. f[i] = Take(f[i - 1], x[i])
        BY <2>1, <3>2
      <4>. QED
        BY <2>2, <3>2, <4>1, <4>2
    <3>3. CASE i = 0
      <4>1. f[0] = n /\ 0 \in 0 .. k
        BY <2>1
      <4>. QED
        BY <2>2, <3>3, <4>1
    <3>. QED
      BY <3>1, <3>2, <3>3
  <2>4. Runs(h, k + 1)
    <3> DEFINE d == [i \in 0 .. k + 1 |-> IF i = 0 THEN n ELSE Take(h[i - 1], x[i])]
    <3>1. \A i \in 0 .. k + 1 : h[i] = d[i]
      BY <2>3
    <3>2. DOMAIN h = 0 .. k + 1
      OBVIOUS
    <3>3. h = [i \in 0 .. k + 1 |-> h[i]]
      OBVIOUS
    <3> HIDE DEF h
    <3>. QED
      BY <3>3, <2>3
  <2> HIDE DEF h, Runs
  <2>5. \E g : Runs(g, k + 1)
    BY <2>4
  <2>. QED
    BY <2>5
<1>3. \E f : Runs(f, Len(x))
  <2> HIDE DEF S
  <2>1. Nat \subseteq S
    BY <1>1, <1>2, Counting
  <2>. QED
    BY <2>1 DEF S
<1>4. Taken(n, x) = CHOOSE f : Runs(f, Len(x))
  BY DEF Taken
<1>5. Runs(Taken(n, x), Len(x))
  BY <1>3, <1>4
<1> DEFINE f == Taken(n, x)
<1>6. f = [i \in 0 .. Len(x) |-> IF i = 0 THEN n ELSE Take(f[i - 1], x[i])]
  BY <1>5
<1> HIDE DEF f
<1>7. f[0] = n
  BY <1>6
<1>8. \A i \in 1 .. Len(x) : f[i] = Take(f[i - 1], x[i])
  BY <1>6
<1>. QED
  BY <1>7, <1>8 DEF f

\* The glyphs of a line.
InLine == Glyph \ {NL}

LEMMA GlyphNL == NL \in Glyph
BY NarrateAssumption DEF NarrateAssumption

Before(B, i) == {j \in B : j < i}

\* The marks of a set, each counted from the first, with the one before it.
Cut(B) == \A k \in 1 .. Cardinality(B) : \E i \in B : \E s \in Before(B, i) \cup {0} :
            /\ Cardinality(Before(B, i)) = k - 1
            /\ \A j \in Before(B, i) \cup {0} : j <= s

\* Of two marks the later one has more before it.
LEMMA LaterHasMore ==
  ASSUME NEW B, IsFiniteSet(B), B \subseteq Nat, NEW i \in B, NEW j \in B, i < j
  PROVE  Cardinality(Before(B, i)) < Cardinality(Before(B, j))
<1> DEFINE C == Before(B, i)
<1>1. IsFiniteSet(C) /\ IsFiniteSet(Before(B, j))
  <2>1. C \subseteq B /\ Before(B, j) \subseteq B
    BY DEF Before
  <2> HIDE DEF C
  <2>. QED
    BY <2>1, FS_Subset
<1>2. IsFiniteSet(C \cup {i}) /\ Cardinality(C \cup {i}) = Cardinality(C) + 1
  <2>1. i \notin C
    BY DEF Before
  <2> HIDE DEF C
  <2>. QED
    BY <1>1, <2>1, FS_AddElement
<1>3. C \cup {i} \subseteq Before(B, j)
  <2>1. i \in Nat /\ j \in Nat
    OBVIOUS
  <2>2. \A e \in C : e \in B /\ e \in Nat /\ e < i
    BY DEF Before
  <2>3. \A e \in C : e < j
    <3> HIDE DEF C
    <3>. QED
      BY <2>1, <2>2
  <2>. QED
    BY <2>2, <2>3 DEF Before
<1>4. Cardinality(C \cup {i}) <= Cardinality(Before(B, j))
  BY <1>1, <1>3, FS_Subset
<1>5. Cardinality(C) \in Nat /\ Cardinality(Before(B, j)) \in Nat
  BY <1>1, FS_CardinalityType
<1>. QED
  BY <1>2, <1>4, <1>5

\* An output has as many lines as marks.
LEMMA LinesOf ==
  ASSUME NEW g
  PROVE  /\ Lines(g) = [k \in 1 .. Cardinality(Breaks(g)) |-> Lines(g)[k]]
         /\ DOMAIN Lines(g) = 1 .. Cardinality(Breaks(g))
<1> DEFINE L(k) ==
     LET end == CHOOSE i \in Breaks(g) : Cardinality({j \in Breaks(g) : j < i}) = k - 1
         before == {j \in Breaks(g) : j < end} \cup {0}
         start == CHOOSE i \in before : \A j \in before : j <= i
     IN SubSeq(g, start + 1, end - 1)
<1>1. Lines(g) = [k \in 1 .. Cardinality(Breaks(g)) |-> L(k)]
  BY DEF Lines
<1> HIDE DEF L
<1>. QED
  BY <1>1

\* A line of an output is what is between two marks of it.
LEMMA LineBetween ==
  ASSUME NEW g, IsFiniteSet(Breaks(g)), Breaks(g) \subseteq Nat,
         NEW k \in 1 .. Cardinality(Breaks(g)),
         NEW i \in Breaks(g), Cardinality(Before(Breaks(g), i)) = k - 1,
         NEW s \in Before(Breaks(g), i) \cup {0},
         \A j \in Before(Breaks(g), i) \cup {0} : j <= s
  PROVE  Lines(g)[k] = SubSeq(g, s + 1, i - 1)
<1> DEFINE B == Breaks(g)
           end == CHOOSE e \in B : Cardinality({j \in B : j < e}) = k - 1
           before == {j \in B : j < end} \cup {0}
           start == CHOOSE e \in before : \A j \in before : j <= e
<1>1. end \in B /\ Cardinality(Before(B, end)) = k - 1
  BY DEF Before
<1> HIDE DEF B
<1>2. end = i
  <2>1. B \subseteq Nat /\ IsFiniteSet(B) /\ i \in B /\ Cardinality(Before(B, i)) = k - 1
    BY DEF B
  <2> HIDE DEF end
  <2>5. Cardinality(Before(B, i)) \in Nat
    <3>1. Before(B, i) \subseteq B
      BY DEF Before
    <3>. QED
      BY <2>1, <3>1, FS_Subset, FS_CardinalityType
  <2>6. \A d, e \in B : d < e => Cardinality(Before(B, d)) < Cardinality(Before(B, e))
    BY <2>1, LaterHasMore
  <2>2. ~(end < i)
    BY <1>1, <2>1, <2>5, <2>6
  <2>3. ~(i < end)
    BY <1>1, <2>1, <2>5, <2>6
  <2>. QED
    BY <1>1, <2>1, <2>2, <2>3
<1>3. before = Before(B, i) \cup {0}
  BY <1>2 DEF Before
<1>4. before \subseteq Nat
  BY <1>3 DEF Before, B
<1>5. start = s
  <2>1. s \in before /\ \A j \in before : j <= s
    BY <1>3 DEF B
  <2>2. start \in before /\ \A j \in before : j <= start
    <3> HIDE DEF before
    <3>. QED
      BY <2>1
  <2> HIDE DEF start, before
  <2>3. s \in Nat /\ start \in Nat
    BY <1>4, <2>1, <2>2
  <2>. QED
    BY <2>1, <2>2, <2>3
<1>6. Lines(g)[k] = SubSeq(g, start + 1, end - 1)
  BY DEF Lines, B
<1>. QED
  BY <1>2, <1>5, <1>6

\* A finished piece of an output: nothing, or ended by a newline.
Finished(w) == w = <<>> \/ w[Len(w)] = NL

\* A line and its newline put one mark after those there are.
LEMMA MarkAdded ==
  ASSUME NEW w \in Seq(Glyph), Finished(w), NEW p \in Seq(InLine)
  PROVE  /\ Breaks(w \o p \o <<NL>>) = Breaks(w) \cup {Len(w) + Len(p) + 1}
         /\ Breaks(w) \subseteq 1 .. Len(w)
         /\ w # <<>> => Len(w) \in Breaks(w)
         /\ IsFiniteSet(Breaks(w))
<1> DEFINE h == w \o p \o <<NL>>
<1>1. Breaks(w) = {i \in 1 .. Len(w) : w[i] = NL}
  BY DEF Breaks, Finished
<1>2. w \in Seq(Glyph) /\ p \in Seq(Glyph) /\ <<NL>> \in Seq(Glyph)
  <2>1. InLine \subseteq Glyph /\ NL \in Glyph
    <3>1. NL \in Glyph
      BY GlyphNL
    <3>. QED
      BY <3>1 DEF InLine
  <2>2. Seq(InLine) \subseteq Seq(Glyph)
    BY <2>1
  <2>. QED
    BY <2>1, <2>2
<1>3. /\ h \in Seq(Glyph) /\ Len(h) = Len(w) + Len(p) + 1
      /\ \A i \in 1 .. Len(w) : h[i] = w[i]
      /\ \A i \in 1 .. Len(p) : h[Len(w) + i] = p[i]
      /\ h[Len(w) + Len(p) + 1] = NL
  BY <1>2
<1>4. \A i \in 1 .. Len(p) : p[i] # NL
  BY DEF InLine
<1> HIDE DEF h
<1>5. Breaks(h) = {i \in 1 .. Len(h) : h[i] = NL}
  BY <1>2, <1>3 DEF Breaks
<1>6. ASSUME NEW i \in 1 .. Len(h) PROVE h[i] = NL <=> i \in Breaks(w) \cup {Len(w) + Len(p) + 1}
  <2>1. CASE i \in 1 .. Len(w)
    BY <2>1, <1>1, <1>3
  <2>2. CASE i = Len(w) + Len(p) + 1
    BY <2>2, <1>3
  <2>3. CASE i \in Len(w) + 1 .. Len(w) + Len(p)
    <3>1. i - Len(w) \in 1 .. Len(p) /\ i = Len(w) + (i - Len(w))
      BY <2>3
    <3>. QED
      BY <3>1, <2>3, <1>1, <1>3, <1>4
  <2>. QED
    BY <2>1, <2>2, <2>3, <1>3
<1>7. Breaks(w) \subseteq 1 .. Len(w) /\ (w # <<>> => Len(w) \in Breaks(w))
  BY <1>1 DEF Finished
<1>8. IsFiniteSet(Breaks(w))
  <2>1. IsFiniteSet(1 .. Len(w))
    BY FS_Interval
  <2>. QED
    BY <2>1, <1>7, FS_Subset
<1>9. Breaks(h) = Breaks(w) \cup {Len(w) + Len(p) + 1}
  <2>1. Breaks(w) \cup {Len(w) + Len(p) + 1} \subseteq 1 .. Len(h)
    BY <1>3, <1>7
  <2>. QED
    BY <1>5, <1>6, <2>1
<1>. QED
  BY <1>7, <1>8, <1>9 DEF h

\* The marks with one after all of them: the old ones keep their place.
LEMMA CutAdded ==
  ASSUME NEW B, IsFiniteSet(B), NEW l \in Nat, B \subseteq 1 .. l, l = 0 \/ l \in B,
         Cut(B), NEW m \in Nat, l < m
  PROVE  /\ Cardinality(B \cup {m}) = Cardinality(B) + 1
         /\ \A i \in B : Before(B \cup {m}, i) = Before(B, i)
         /\ Before(B \cup {m}, m) = B
         /\ \A j \in B \cup {0} : j <= l
         /\ Cut(B \cup {m})
<1> DEFINE C == B \cup {m}
<1>1. \A j \in B : j \in Nat /\ j <= l /\ j < m
  OBVIOUS
<1>2. m \notin B
  BY <1>1
<1>3. Cardinality(C) = Cardinality(B) + 1 /\ Cardinality(B) \in Nat
  BY <1>2, FS_AddElement, FS_CardinalityType
<1>4. ASSUME NEW i \in B PROVE Before(C, i) = Before(B, i)
  <2>1. ~(m < i)
    BY <1>1
  <2>. QED
    BY <2>1 DEF Before
<1>5. Before(C, m) = B
  <2>1. \A j \in C : j < m <=> j \in B
    BY <1>1
  <2>. QED
    BY <2>1, <1>2 DEF Before
<1>6. \A j \in B \cup {0} : j <= l
  BY <1>1
<1>7. ASSUME NEW k \in 1 .. Cardinality(C)
      PROVE  \E i \in C : \E s \in Before(C, i) \cup {0} :
               /\ Cardinality(Before(C, i)) = k - 1
               /\ \A j \in Before(C, i) \cup {0} : j <= s
  <2>1. CASE k = Cardinality(C)
    <3>1. Cardinality(Before(C, m)) = k - 1
      BY <2>1, <1>3, <1>5
    <3>2. l \in Before(C, m) \cup {0} /\ \A j \in Before(C, m) \cup {0} : j <= l
      BY <1>5, <1>6
    <3>3. m \in C
      OBVIOUS
    <3>. QED
      BY <3>1, <3>2, <3>3
  <2>2. CASE k \in 1 .. Cardinality(B)
    <3>1. PICK i \in B : \E s \in Before(B, i) \cup {0} :
            Cardinality(Before(B, i)) = k - 1 /\ \A j \in Before(B, i) \cup {0} : j <= s
      BY <2>2 DEF Cut
    <3>2. i \in C /\ Before(C, i) = Before(B, i)
      BY <1>4
    <3>. QED
      BY <3>1, <3>2
  <2>3. k = Cardinality(C) \/ k \in 1 .. Cardinality(B)
    <3> HIDE DEF C
    <3>. QED
      BY <1>3
  <2>. QED
    BY <2>1, <2>2, <2>3
<1>. QED
  BY <1>3, <1>4, <1>5, <1>6, <1>7 DEF Cut

\* One more finished line is the last line of the output.
LEMMA LineAdded ==
  ASSUME NEW w \in Seq(Glyph), Finished(w), NEW p \in Seq(InLine),
         Cut(Breaks(w)), Lines(w) \in Seq(Seq(Glyph))
  PROVE  /\ Lines(w \o p \o <<NL>>) = Append(Lines(w), p)
         /\ Cut(Breaks(w \o p \o <<NL>>))
<1> DEFINE h == w \o p \o <<NL>>
           B == Breaks(w)
           m == Len(w) + Len(p) + 1
<1>1. Breaks(h) = B \cup {m} /\ B \subseteq 1 .. Len(w) /\ IsFiniteSet(B)
  BY MarkAdded
<1>0. Len(w) = 0 \/ Len(w) \in B
  <2>1. w # <<>> => Len(w) \in B
    BY MarkAdded
  <2>. QED
    BY <2>1
<1>2. p \in Seq(Glyph) /\ <<NL>> \in Seq(Glyph)
  <2>1. NL \in Glyph
    BY GlyphNL
  <2>2. InLine \subseteq Glyph
    BY DEF InLine
  <2>3. Seq(InLine) \subseteq Seq(Glyph)
    BY <2>2
  <2>. QED
    BY <2>1, <2>3
<1>3. /\ h \in Seq(Glyph) /\ Len(h) = m /\ Len(w) \in Nat /\ m \in Nat /\ Len(w) < m
      /\ SubSeq(h, Len(w) + 1, m - 1) = p
      /\ \A a, b \in Nat : a >= 1 /\ b <= Len(w) => SubSeq(h, a, b) = SubSeq(w, a, b)
  BY <1>2
<1>4. /\ Cardinality(B \cup {m}) = Cardinality(B) + 1
      /\ \A i \in B : Before(B \cup {m}, i) = Before(B, i)
      /\ Before(B \cup {m}, m) = B
      /\ \A j \in B \cup {0} : j <= Len(w)
      /\ Cut(B \cup {m})
  <2>1. Cut(B)
    OBVIOUS
  <2> HIDE DEF B, m, h
  <2>2. Len(w) \in Nat /\ m \in Nat /\ Len(w) < m
    BY <1>3
  <2> DEFINE l == Len(w)
  <2>3. l \in Nat /\ l < m /\ B \subseteq 1 .. l /\ (l = 0 \/ l \in B)
    BY <1>0, <1>1, <2>2
  <2> HIDE DEF l
  <2>4. /\ Cardinality(B \cup {m}) = Cardinality(B) + 1
        /\ \A i \in B : Before(B \cup {m}, i) = Before(B, i)
        /\ Before(B \cup {m}, m) = B
        /\ \A j \in B \cup {0} : j <= l
        /\ Cut(B \cup {m})
    BY <1>1, <2>1, <2>2, <2>3, CutAdded
  <2>. QED
    BY <2>4 DEF l
<1>5. IsFiniteSet(Breaks(h)) /\ Breaks(h) \subseteq Nat
  <2> HIDE DEF B, h, m
  <2>1. IsFiniteSet(B \cup {m})
    BY <1>1, FS_AddElement
  <2>. QED
    BY <1>1, <1>3, <2>1
<1>6. Cardinality(B) \in Nat
  BY <1>1, FS_CardinalityType
<1> DEFINE n == Cardinality(B)
<1>30. /\ Cardinality(Breaks(h)) = n + 1 /\ n \in Nat
       /\ Before(Breaks(h), m) = B /\ \A i \in B : Before(Breaks(h), i) = Before(B, i)
       /\ m \in Breaks(h) /\ B \subseteq Breaks(h)
  <2> HIDE DEF B, m, h
  <2>. QED
    BY <1>1, <1>4, <1>6
<1>7. DOMAIN Lines(h) = 1 .. n + 1 /\ DOMAIN Lines(w) = 1 .. n
  BY <1>30, LinesOf
<1>8. Lines(h)[n + 1] = p
  <2>0. Cardinality(B) = n
    OBVIOUS
  <2> HIDE DEF h, B, m, n
  <2>1. n + 1 \in 1 .. Cardinality(Breaks(h))
    BY <1>30
  <2>2. m \in Breaks(h) /\ Cardinality(Before(Breaks(h), m)) = (n + 1) - 1
    BY <1>30, <2>0
  <2>3. Len(w) \in Before(Breaks(h), m) \cup {0} /\ \A j \in Before(Breaks(h), m) \cup {0} : j <= Len(w)
    BY <1>30, <1>0, <1>4
  <2>4. Lines(h)[n + 1] = SubSeq(h, Len(w) + 1, m - 1)
    BY <1>5, <2>1, <2>2, <2>3, LineBetween
  <2>. QED
    BY <1>3, <2>4
<1>9. ASSUME NEW k \in 1 .. n PROVE Lines(h)[k] = Lines(w)[k]
  <2>1. PICK i \in B : \E s \in Before(B, i) \cup {0} :
          Cardinality(Before(B, i)) = k - 1 /\ \A j \in Before(B, i) \cup {0} : j <= s
    BY DEF Cut
  <2>2. PICK s \in Before(B, i) \cup {0} :
          Cardinality(Before(B, i)) = k - 1 /\ \A j \in Before(B, i) \cup {0} : j <= s
    BY <2>1
  <2> HIDE DEF h, m
  <2>3. B \subseteq Nat
    BY <1>1
  <2>4. Lines(w)[k] = SubSeq(w, s + 1, i - 1)
    BY <1>1, <2>2, <2>3, LineBetween
  <2>5. /\ k \in 1 .. Cardinality(Breaks(h)) /\ i \in Breaks(h)
        /\ Before(Breaks(h), i) = Before(B, i)
    <3> HIDE DEF B, n
    <3>. QED
      BY <1>30
  <2>6. Lines(h)[k] = SubSeq(h, s + 1, i - 1)
    <3> HIDE DEF B, n
    <3>. QED
      BY <1>5, <2>2, <2>5, LineBetween
  <2>7. s \in Nat /\ i \in 1 .. Len(w)
    BY <1>1 DEF Before
  <2>8. SubSeq(h, s + 1, i - 1) = SubSeq(w, s + 1, i - 1)
    <3> HIDE DEF B, n
    <3>1. s + 1 \in Nat /\ i - 1 \in Nat /\ s + 1 >= 1 /\ i - 1 <= Len(w)
      BY <2>7, <1>3
    <3>. QED
      BY <1>3, <3>1
  <2>. QED
    BY <2>4, <2>6, <2>8
<1>10. Lines(h) = Append(Lines(w), p)
  <2>1. Lines(h) = [k \in 1 .. n + 1 |-> Lines(h)[k]]
    BY <1>30, LinesOf
  <2> HIDE DEF h, B, n, m
  <2>2. Len(Lines(w)) = n
    BY <1>7, <1>6 DEF n
  <2> DEFINE L == Lines(w)
  <2>3. /\ Append(L, p) = [k \in 1 .. n + 1 |-> Append(L, p)[k]]
        /\ \A k \in 1 .. n : Append(L, p)[k] = L[k]
        /\ Append(L, p)[n + 1] = p
    <3>1. L \in Seq(Seq(Glyph)) /\ Len(L) = n /\ p \in Seq(Glyph)
      BY <1>2, <2>2
    <3> HIDE DEF L
    <3>2. Append(L, p) \in Seq(Seq(Glyph)) /\ Len(Append(L, p)) = n + 1
      BY <3>1, AppendProperties
    <3>3. \A i \in 1 .. n : Append(L, p)[i] = L[i]
      BY <3>1, AppendProperties
    <3>4. Append(L, p)[n + 1] = p
      BY <3>1, AppendProperties
    <3> DEFINE A == Append(L, p)
    <3>6. A \in Seq(Seq(Glyph)) /\ Len(A) = n + 1
      BY <3>2
    <3> HIDE DEF A
    <3>5. A = [k \in 1 .. n + 1 |-> A[k]]
      BY <3>6
    <3>. QED
      BY <3>3, <3>4, <3>5 DEF A
  <2>4. \A k \in 1 .. n + 1 : Lines(h)[k] = Append(Lines(w), p)[k]
    <3>1. n \in Nat
      BY <1>6 DEF n
    <3>. QED
      BY <3>1, <2>3, <1>8, <1>9
  <2>. QED
    BY <2>1, <2>3, <2>4
<1>. QED
  BY <1>1, <1>4, <1>10

\* An output cut off in a line has the lines it would have with its newline.
LEMMA LineCutOff ==
  ASSUME NEW g \in Seq(Glyph), g # <<>>, g[Len(g)] # NL, Cut(Breaks(g \o <<NL>>)),
         IsFiniteSet(Breaks(g \o <<NL>>))
  PROVE  Lines(g) = Lines(g \o <<NL>>)
<1> DEFINE h == g \o <<NL>>
<1>1. <<NL>> \in Seq(Glyph)
  BY GlyphNL
<1>2. /\ h \in Seq(Glyph) /\ Len(h) = Len(g) + 1 /\ h[Len(h)] = NL
      /\ \A i \in 1 .. Len(g) : h[i] = g[i]
      /\ \A a, b \in Nat : a >= 1 /\ b <= Len(g) => SubSeq(h, a, b) = SubSeq(g, a, b)
  BY <1>1
<1> HIDE DEF h
<1>3. Breaks(g) = Breaks(h) /\ Breaks(h) \subseteq 1 .. Len(g) + 1
  BY <1>2 DEF Breaks
<1> DEFINE B == Breaks(h)
<1>4. ASSUME NEW k \in 1 .. Cardinality(B) PROVE Lines(g)[k] = Lines(h)[k]
  <2>1. Cut(B) /\ IsFiniteSet(B)
    BY DEF h
  <2>2. PICK i \in B : \E s \in Before(B, i) \cup {0} :
          Cardinality(Before(B, i)) = k - 1 /\ \A j \in Before(B, i) \cup {0} : j <= s
    BY <2>1 DEF Cut
  <2>3. PICK s \in Before(B, i) \cup {0} :
          Cardinality(Before(B, i)) = k - 1 /\ \A j \in Before(B, i) \cup {0} : j <= s
    BY <2>2
  <2>4. B \subseteq Nat
    BY <1>3
  <2>5. Lines(h)[k] = SubSeq(h, s + 1, i - 1)
    BY <2>1, <2>3, <2>4, LineBetween
  <2>6. Lines(g)[k] = SubSeq(g, s + 1, i - 1)
    BY <1>3, <2>1, <2>3, <2>4, LineBetween
  <2>7. s + 1 \in Nat /\ i - 1 \in Nat /\ s + 1 >= 1 /\ i - 1 <= Len(g)
    BY <1>3 DEF Before
  <2>. QED
    BY <1>2, <2>5, <2>6, <2>7
<1>5. Lines(g) = [k \in 1 .. Cardinality(B) |-> Lines(g)[k]]
  BY <1>3, LinesOf
<1>6. Lines(h) = [k \in 1 .. Cardinality(B) |-> Lines(h)[k]]
  BY LinesOf
<1>. QED
  BY <1>4, <1>5, <1>6 DEF h

\* A final part of a sequence grows with it.
LEMMA SubSeqAppended ==
  ASSUME NEW S, NEW s \in Seq(S), NEW e \in S, NEW l \in Nat, l = Len(s), NEW a \in 1 .. l + 1
  PROVE  SubSeq(Append(s, e), a, l + 1) = Append(SubSeq(s, a, l), e)
<1> DEFINE t == Append(s, e)
           x == SubSeq(t, a, l + 1)
           y == SubSeq(s, a, l)
<1>1. t \in Seq(S) /\ Len(t) = l + 1 /\ t[l + 1] = e /\ \A i \in 1 .. l : t[i] = s[i]
  BY AppendProperties
<1>0. \A i \in 1 .. l : s[i] \in S
  BY ElementOfSeq
<1> HIDE DEF t
<1>2. x \in Seq(S) /\ Len(x) = l + 2 - a /\ \A i \in 1 .. l + 2 - a : x[i] = t[a + i - 1]
  <2>1. \A i \in a .. l + 1 : t[i] \in S
    BY <1>1, <1>0
  <2>2. Len(x) = IF a <= l + 1 THEN (l + 1) - a + 1 ELSE 0
    BY <2>1, SubSeqProperties
  <2>3. x \in Seq(S) /\ \A i \in 1 .. (l + 1) - a + 1 : x[i] = t[a + i - 1]
    BY <2>1, SubSeqProperties
  <2> HIDE DEF x
  <2>. QED
    BY <2>2, <2>3
<1>3. y \in Seq(S) /\ Len(y) = l + 1 - a /\ \A i \in 1 .. l + 1 - a : y[i] = s[a + i - 1]
  <2>1. \A i \in a .. l : s[i] \in S
    BY <1>0
  <2>2. Len(y) = IF a <= l THEN l - a + 1 ELSE 0
    BY <2>1, SubSeqProperties
  <2>3. y \in Seq(S) /\ \A i \in 1 .. l - a + 1 : y[i] = s[a + i - 1]
    BY <2>1, SubSeqProperties
  <2> HIDE DEF y
  <2>4. l - a + 1 = l + 1 - a
    OBVIOUS
  <2>5. Len(y) = l + 1 - a
    BY <2>2
  <2>. QED
    BY <2>3, <2>4, <2>5
<1> HIDE DEF x, y
<1> DEFINE z == Append(y, e)
<1>4. z \in Seq(S) /\ Len(z) = l + 2 - a /\ z[l + 2 - a] = e /\ \A i \in 1 .. l + 1 - a : z[i] = y[i]
  <2>1. z \in Seq(S) /\ Len(z) = Len(y) + 1 /\ z[Len(y) + 1] = e /\ \A i \in 1 .. Len(y) : z[i] = y[i]
    BY <1>3, AppendProperties
  <2>2. Len(y) = l + 1 - a /\ Len(y) + 1 = l + 2 - a
    BY <1>3
  <2> HIDE DEF z
  <2>. QED
    BY <2>1, <2>2
<1> HIDE DEF z
<1>5. ASSUME NEW i \in 1 .. l + 2 - a PROVE x[i] = z[i]
  <2>1. CASE i = l + 2 - a
    <3>1. a + i - 1 = l + 1
      BY <2>1
    <3>. QED
      BY <3>1, <2>1, <1>1, <1>2, <1>4
  <2>2. CASE i \in 1 .. l + 1 - a
    <3>1. a + i - 1 \in 1 .. l
      BY <2>2
    <3>. QED
      BY <3>1, <2>2, <1>1, <1>2, <1>3, <1>4
  <2>. QED
    BY <2>1, <2>2
<1>6. x = z
  BY <1>2, <1>4, <1>5, SeqEqual
<1>. QED
  BY <1>6 DEF x, z, y, t

\* The last n of a sequence when it grows by one: the oldest gives way.
LEMMA FinalAdded ==
  ASSUME NEW S, NEW s \in Seq(S), NEW e \in S, NEW n \in Nat \ {0}
  PROVE  Final(Append(s, e), n) = IF Len(Final(s, n)) >= n THEN Append(Tail(Final(s, n)), e)
                                  ELSE Append(Final(s, n), e)
<1>1. PICK l \in Nat : l = Len(s)
  OBVIOUS
<1> DEFINE t == Append(s, e)
<1>2. t \in Seq(S) /\ Len(t) = l + 1
  BY <1>1, AppendProperties
<1>3. t = SubSeq(t, 1, l + 1) /\ s = SubSeq(s, 1, l)
  BY <1>1, <1>2, SubSeqFull
<1> HIDE DEF t
<1>4. CASE l < n
  <2>1. Final(s, n) = s
    <3>1. ~(l > n)
      BY <1>4
    <3>. QED
      BY <1>1, <1>3, <3>1 DEF Final
  <2>2. Final(t, n) = t
    <3>1. ~(l + 1 > n)
      BY <1>4
    <3>. QED
      BY <1>2, <1>3, <3>1 DEF Final
  <2>. QED
    BY <1>1, <1>4, <2>1, <2>2 DEF t
<1>5. CASE l >= n
  <2>1. PICK a \in 1 .. l : a = l - n + 1
    BY <1>5
  <2> DEFINE f == SubSeq(s, a, l)
  <2>2. Final(s, n) = f
    <3>1. (IF l > n THEN l - n + 1 ELSE 1) = a
      BY <1>5, <2>1
    <3>. QED
      BY <1>1, <3>1 DEF Final
  <2>3. Final(t, n) = SubSeq(t, a + 1, l + 1)
    <3>1. (IF l + 1 > n THEN (l + 1) - n + 1 ELSE 1) = a + 1
      BY <1>5, <2>1
    <3>. QED
      BY <1>2, <3>1 DEF Final
  <2>4. Tail(f) = SubSeq(s, a + 1, l)
    BY <1>1, HeadTailOfSubSeq
  <2>5. Len(f) >= n
    <3>1. \A i \in a .. l : s[i] \in S
      BY <1>1, ElementOfSeq
    <3>2. Len(f) = IF a <= l THEN l - a + 1 ELSE 0
      BY <3>1, SubSeqProperties
    <3> HIDE DEF f
    <3>. QED
      BY <3>2, <2>1
  <2>6. SubSeq(t, a + 1, l + 1) = Append(SubSeq(s, a + 1, l), e)
    <3>1. a + 1 \in 1 .. l + 1
      OBVIOUS
    <3>. QED
      BY <1>1, <3>1, SubSeqAppended DEF t
  <2> HIDE DEF f
  <2>. QED
    BY <2>2, <2>3, <2>4, <2>5, <2>6 DEF t
<1>. QED
  BY <1>4, <1>5

----------------------------------------------------------------------------
\* What every operation of a narrator leaves of its record.
Narrator(n) == DOMAIN n = {"partial", "raw", "failed", "shown"}

\* A line emitted is shown once and kept.
LEMMA EmitOne ==
  ASSUME NEW n, Narrator(n), NEW line
  PROVE  /\ Narrator(Emit(n, line)) /\ Emit(n, line).partial = n.partial
         /\ Emit(n, line).failed = n.failed
         /\ Emit(n, line).raw = Append(IF Len(n.raw) >= RawLimit THEN Tail(n.raw) ELSE n.raw, line)
         /\ Emit(n, line).shown = Append(n.shown, line)
BY DEF Emit, Keep, Narrator

\* A narrator that has been told g since its invocation began: the finished
\* part w of it is shown and kept line by line, the rest waits for its end.
ToldTo(n, g, w) ==
  /\ Narrator(n) /\ n.failed = FALSE
  /\ w \in Seq(Glyph) /\ Finished(w) /\ n.partial \in Seq(InLine) /\ g = w \o n.partial
  /\ Cut(Breaks(w)) /\ Lines(w) \in Seq(Seq(Glyph))
  /\ n.shown = Lines(w)
  /\ n.raw = Final(Lines(w), RawLimit)
Told(n, g) == \E w \in Seq(Glyph) : ToldTo(n, g, w)

LEMMA InLineGlyph == /\ NL \in Glyph /\ <<NL>> \in Seq(Glyph) /\ Seq(InLine) \subseteq Seq(Glyph)
                     /\ InLine \subseteq Glyph
<1>1. InLine \subseteq Glyph
  BY DEF InLine
<1>2. Seq(InLine) \subseteq Seq(Glyph)
  BY <1>1
<1>. QED
  BY <1>1, <1>2, GlyphNL

\* A line that ends is shown and kept.
LEMMA LineTold ==
  ASSUME NEW n, NEW g, NEW w \in Seq(Glyph), ToldTo(n, g, w)
  PROVE  LET m == Emit([n EXCEPT !.partial = <<>>], n.partial) IN
         ToldTo(m, g \o <<NL>>, g \o <<NL>>) /\ g \o <<NL>> \in Seq(Glyph) /\ m.partial = <<>>
<1> DEFINE p == n.partial
           n0 == [n EXCEPT !.partial = <<>>]
           m == Emit(n0, p)
           h == w \o p \o <<NL>>
<1>1. /\ Narrator(n) /\ n.failed = FALSE /\ p \in Seq(InLine) /\ p \in Seq(Glyph)
      /\ Finished(w) /\ g = w \o p /\ Cut(Breaks(w)) /\ Lines(w) \in Seq(Seq(Glyph))
  BY InLineGlyph DEF ToldTo
<1>2. /\ Narrator(n0) /\ n0.partial = <<>> /\ n0.failed = FALSE /\ n0.raw = n.raw /\ n0.shown = n.shown
  BY <1>1 DEF Narrator
<1> HIDE DEF n0
<1>3. /\ Narrator(m) /\ m.partial = <<>> /\ m.failed = FALSE /\ m.shown = Append(n.shown, p)
      /\ m.raw = Append(IF Len(n.raw) >= RawLimit THEN Tail(n.raw) ELSE n.raw, p)
  BY <1>2, EmitOne
<1>4. Lines(h) = Append(Lines(w), p) /\ Cut(Breaks(h))
  BY <1>1, LineAdded
<1>5. /\ g \o <<NL>> = h /\ h \in Seq(Glyph) /\ h[Len(h)] = NL /\ h # <<>>
      /\ h \o <<>> = h
  BY <1>1, InLineGlyph
<1> HIDE DEF m, h, p
<1>7. m.shown = Lines(h)
  BY <1>3, <1>4 DEF ToldTo
<1>8. m.raw = Final(Lines(h), RawLimit)
  <2>1. n.raw = Final(Lines(w), RawLimit)
    BY DEF ToldTo
  <2>2. Final(Append(Lines(w), p), RawLimit)
          = IF Len(Final(Lines(w), RawLimit)) >= RawLimit
            THEN Append(Tail(Final(Lines(w), RawLimit)), p) ELSE Append(Final(Lines(w), RawLimit), p)
    <3>1. RawLimit \in Nat \ {0}
      BY NarrateAssumption DEF NarrateAssumption
    <3>. QED
      BY <1>1, <3>1, FinalAdded
  <2>. QED
    BY <1>3, <1>4, <2>1, <2>2
<1>9. Lines(h) \in Seq(Seq(Glyph)) /\ <<>> \in Seq(InLine)
  BY <1>1, <1>4, AppendProperties
<1>11. ToldTo(m, h, h)
  BY <1>3, <1>4, <1>5, <1>7, <1>8, <1>9 DEF ToldTo, Finished
<1>. QED
  BY <1>3, <1>5, <1>11 DEF m, n0, p

\* One glyph more is told.
LEMMA GlyphTold ==
  ASSUME NEW n, NEW g, Told(n, g), NEW c \in Glyph
  PROVE  Told(Take(n, c), g \o <<c>>)
<1>1. PICK w \in Seq(Glyph) : ToldTo(n, g, w)
  BY DEF Told
<1>2. CASE c = NL
  <2> DEFINE m == Emit([n EXCEPT !.partial = <<>>], n.partial)
             h == g \o <<NL>>
  <2>1. ToldTo(m, h, h) /\ h \in Seq(Glyph)
    BY <1>1, LineTold
  <2> HIDE DEF m, h
  <2>2. Take(n, c) = m /\ g \o <<c>> = h
    BY <1>2 DEF Take, m, h
  <2>. QED
    BY <2>1, <2>2 DEF Told
<1>3. CASE c # NL
  <2> DEFINE m == [n EXCEPT !.partial = Append(@, c)]
  <2>1. Take(n, c) = m
    BY <1>3 DEF Take
  <2>2. /\ Narrator(m) /\ m.failed = n.failed /\ m.raw = n.raw /\ m.shown = n.shown
        /\ m.partial = Append(n.partial, c)
    BY <1>1 DEF ToldTo, Narrator
  <2>3. c \in InLine /\ n.partial \in Seq(InLine)
    BY <1>1, <1>3 DEF ToldTo, InLine
  <2>4. m.partial \in Seq(InLine) /\ g \o <<c>> = w \o m.partial
    <3>1. n.partial \in Seq(Glyph) /\ g = w \o n.partial
      BY <1>1, <2>3, InLineGlyph DEF ToldTo
    <3>2. Append(n.partial, c) = n.partial \o <<c>>
      BY <3>1, AppendIsConcat
    <3>5. <<c>> \in Seq(Glyph)
      OBVIOUS
    <3>3. (w \o n.partial) \o <<c>> = w \o (n.partial \o <<c>>)
      <4> DEFINE p == n.partial
      <4>1. p \in Seq(Glyph)
        BY <3>1
      <4> HIDE DEF p
      <4>2. (w \o p) \o <<c>> = w \o (p \o <<c>>)
        BY <3>5, <4>1, ConcatAssociative
      <4>. QED
        BY <4>2 DEF p
    <3>4. m.partial \in Seq(InLine)
      BY <2>2, <2>3, AppendProperties
    <3>. QED
      BY <2>2, <3>1, <3>2, <3>3, <3>4
  <2> HIDE DEF m
  <2>5. ToldTo(m, g \o <<c>>, w)
    BY <1>1, <2>2, <2>4 DEF ToldTo
  <2>. QED
    BY <2>1, <2>5 DEF Told
<1>. QED
  BY <1>2, <1>3

\* A piece of output is told glyph by glyph.
LEMMA WriteTold ==
  ASSUME NEW n, NEW g, Told(n, g), NEW x \in Seq(Glyph)
  PROVE  Told(Write(n, x), g \o x)
<1> DEFINE f == Taken(n, x)
           S == {i \in Nat : i <= Len(x) => Told(f[i], g \o SubSeq(x, 1, i))}
<1>1. g \in Seq(Glyph)
  BY InLineGlyph DEF Told, ToldTo
<1>2. Len(x) \in Nat
  OBVIOUS
<1>3. f[0] = n /\ \A i \in 1 .. Len(x) : f[i] = Take(f[i - 1], x[i])
  BY <1>2, TakenGlyphs
<1> HIDE DEF f
<1>4. 0 \in S
  <2>1. SubSeq(x, 1, 0) = <<>>
    BY SubSeqEmpty
  <2>2. g \o SubSeq(x, 1, 0) = g
    BY <1>1, <2>1, ConcatEmptySeq
  <2>. QED
    BY <1>3, <2>2
<1>5. ASSUME NEW i \in Nat, i \in S PROVE i + 1 \in S
  <2> SUFFICES ASSUME i + 1 <= Len(x) PROVE Told(f[i + 1], g \o SubSeq(x, 1, i + 1))
    OBVIOUS
  <2>1. i + 1 \in 1 .. Len(x) /\ (i + 1) - 1 = i /\ 1 \in 1 .. Len(x) /\ i <= Len(x)
    BY <1>2
  <2>2. f[i + 1] = Take(f[i], x[i + 1])
    BY <1>3, <2>1
  <2>3. Told(f[i], g \o SubSeq(x, 1, i))
    BY <1>5, <2>1
  <2> DEFINE y == SubSeq(x, 1, i)
             c == x[i + 1]
  <2>4. SubSeq(x, 1, i + 1) = y \o <<c>>
    <3>1. i + 1 \in 1 .. Len(x) /\ 1 \in 1 .. Len(x)
      BY <2>1
    <3>2. SubSeq(x, 1, i + 1) = SubSeq(x, 1, (i + 1) - 1) \o <<x[i + 1]>>
      BY <3>1, SubSeqRecursiveSecond
    <3>. QED
      BY <3>2, <2>1
  <2>5. c \in Glyph
    BY <2>1, ElementOfSeq
  <2>6. y \in Seq(Glyph)
    <3>1. \A j \in 1 .. i : x[j] \in Glyph
      BY <2>1, ElementOfSeq
    <3>. QED
      BY <3>1, SubSeqProperties
  <2> HIDE DEF y, c
  <2>7. g \o (y \o <<c>>) = (g \o y) \o <<c>>
    <3>1. <<c>> \in Seq(Glyph)
      BY <2>5
    <3>. QED
      BY <1>1, <2>6, <3>1, ConcatAssociative
  <2>8. Told(Take(f[i], c), (g \o y) \o <<c>>)
    BY <2>3, <2>5, GlyphTold DEF y
  <2>. QED
    BY <2>2, <2>4, <2>7, <2>8 DEF c
<1>6. Len(x) \in S
  <2> HIDE DEF S
  <2>. QED
    BY <1>2, <1>4, <1>5, Counting
<1>7. Told(f[Len(x)], g \o SubSeq(x, 1, Len(x)))
  BY <1>2, <1>6
<1>8. SubSeq(x, 1, Len(x)) = x
  BY SubSeqFull
<1>. QED
  BY <1>7, <1>8 DEF Write, f

\* What has been shown is the lines of what was told, the unfinished one apart.
LEMMA ToldIsShown ==
  ASSUME NEW n, NEW g, Told(n, g)
  PROVE  n.shown = Lines(SubSeq(g, 1, Len(g) - Len(n.partial)))
<1>1. PICK w \in Seq(Glyph) : ToldTo(n, g, w)
  BY DEF Told
<1> DEFINE p == n.partial
<1>2. g = w \o p /\ p \in Seq(Glyph) /\ n.shown = Lines(w)
  BY <1>1, InLineGlyph DEF ToldTo
<1> HIDE DEF p
<1>3. SubSeq(g, 1, Len(g) - Len(p)) = w
  <2>1. Len(g) - Len(p) = Len(w)
    BY <1>2
  <2>2. SubSeq(g, 1, Len(w)) = SubSeq(w, 1, Len(w))
    BY <1>2
  <2>. QED
    BY <2>1, <2>2, SubSeqFull
<1>. QED
  BY <1>2, <1>3 DEF p

\* An invocation that ended, all it wrote shown.
Over(m, g, f) ==
  /\ Narrator(m) /\ m.partial = <<>> /\ m.failed = f
  /\ m.shown = Lines(g) /\ m.raw = Final(Lines(g), RawLimit)

\* When an invocation ends all of it has been shown, a line cut off included.
LEMMA EndTold ==
  ASSUME NEW n, NEW g, Told(n, g), NEW f \in BOOLEAN
  PROVE  /\ Over(End(n, f), g, f)
         /\ f = FALSE => Told(End(n, f), g \o IF n.partial = <<>> THEN <<>> ELSE <<NL>>)
<1>1. PICK w \in Seq(Glyph) : ToldTo(n, g, w)
  BY DEF Told
<1> DEFINE m0 == Flush(n)
           h == g \o IF n.partial = <<>> THEN <<>> ELSE <<NL>>
<1>2. ToldTo(m0, h, h) /\ h \in Seq(Glyph) /\ m0.partial = <<>> /\ Lines(h) = Lines(g)
  <2>1. CASE n.partial = <<>>
    <3>1. g = w /\ h = g
      BY <1>1, <2>1, ConcatEmptySeq DEF ToldTo
    <3>2. m0 = n
      BY <2>1 DEF Flush
    <3>. QED
      BY <1>1, <2>1, <3>1, <3>2
  <2>2. CASE n.partial # <<>>
    <3> DEFINE e == Emit([n EXCEPT !.partial = <<>>], n.partial)
    <3>1. ToldTo(e, g \o <<NL>>, g \o <<NL>>) /\ g \o <<NL>> \in Seq(Glyph) /\ e.partial = <<>>
      BY <1>1, LineTold
    <3>2. m0 = e /\ h = g \o <<NL>>
      BY <2>2 DEF Flush
    <3> HIDE DEF e, m0, h
    <3>3. Lines(g) = Lines(h)
      <4> DEFINE p == n.partial
      <4>1. /\ p \in Seq(InLine) /\ p \in Seq(Glyph) /\ g = w \o p /\ p # <<>>
        BY <1>1, <2>2, InLineGlyph DEF ToldTo
      <4> HIDE DEF p
      <4>2. p[Len(p)] # NL /\ Len(p) \in Nat /\ Len(p) > 0
        BY <4>1 DEF InLine
      <4>3. g \in Seq(Glyph) /\ Len(g) = Len(w) + Len(p) /\ g # <<>> /\ g[Len(g)] = p[Len(p)]
        BY <4>1, <4>2
      <4>4. Cut(Breaks(h)) /\ Finished(h) /\ h \in Seq(Glyph) /\ <<>> \in Seq(InLine)
        BY <3>1, <3>2 DEF ToldTo
      <4>5. IsFiniteSet(Breaks(h))
        BY <4>4, MarkAdded
      <4>. QED
        BY <3>2, <4>2, <4>3, <4>4, <4>5, LineCutOff
    <3>. QED
      BY <3>1, <3>2, <3>3
  <2>. QED
    BY <2>1, <2>2
<1> DEFINE m == [m0 EXCEPT !.failed = f]
<1>3. End(n, f) = m
  BY DEF End
<1> HIDE DEF m0, h
<1>4. /\ Narrator(m) /\ m.partial = <<>> /\ m.failed = f /\ m.raw = m0.raw /\ m.shown = m0.shown
      /\ m0.shown = Lines(h) /\ m0.raw = Final(Lines(h), RawLimit)
  BY <1>2 DEF ToldTo, Narrator
<1> HIDE DEF m
<1>5. f = FALSE => ToldTo(m, h, h)
  BY <1>2, <1>4 DEF ToldTo
<1>6. f = FALSE => Told(m, h)
  BY <1>2, <1>5 DEF Told
<1>. QED
  BY <1>2, <1>3, <1>4, <1>6 DEF h, Over

\* A narrator that begins has been told nothing.
LEMMA BeginTold ==
  ASSUME NEW n, n.partial = <<>>
  PROVE  /\ Told(Begin(n), <<>>) /\ Begin(n).failed = FALSE /\ Begin(n).shown = <<>>
         /\ Quiet.shown = <<>> /\ Quiet.failed = FALSE /\ Quiet.partial = <<>> /\ Quiet.raw = <<>>
         /\ Lines(<<>>) = <<>>
<1> DEFINE b == Begin(n)
<1>1. /\ Narrator(b) /\ b.failed = FALSE /\ b.partial = <<>> /\ b.shown = <<>> /\ b.raw = <<>>
      /\ Quiet.failed = FALSE /\ Quiet.partial = <<>> /\ Quiet.shown = <<>> /\ Quiet.raw = <<>>
  BY DEF Begin, Quiet, Narrator
<1> HIDE DEF b
<1>2. Breaks(<<>>) = {}
  BY DEF Breaks
<1>3. Cardinality(Breaks(<<>>)) = 0
  BY <1>2, FS_EmptySet
<1>4. Lines(<<>>) = <<>>
  <2>1. DOMAIN Lines(<<>>) = 1 .. 0 /\ Lines(<<>>) = [k \in 1 .. 0 |-> Lines(<<>>)[k]]
    BY <1>3, LinesOf
  <2>. QED
    BY <2>1
<1>5. Cut(Breaks(<<>>))
  BY <1>3 DEF Cut
<1>7. Final(<<>>, RawLimit) = <<>>
  <2>1. ~(0 > RawLimit)
    BY NarrateAssumption DEF NarrateAssumption
  <2>. QED
    BY <2>1, SubSeqEmpty DEF Final
<1>10. /\ <<>> \in Seq(Glyph) /\ <<>> \in Seq(InLine) /\ <<>> \in Seq(Seq(Glyph))
       /\ <<>> \o <<>> = <<>>
  BY EmptySeq, ConcatEmptySeq
<1>8. ToldTo(b, <<>>, <<>>)
  BY <1>1, <1>4, <1>5, <1>7, <1>10 DEF ToldTo, Finished
<1>9. Told(b, <<>>)
  BY <1>8, <1>10 DEF Told
<1>. QED
  BY <1>1, <1>4, <1>9 DEF b

\* The tasks a narrator is told of.
Narrated == {"boot", "settle", "verify", "delete"}

\* While one of those is in hand, its narrator has been told what it wrote, and
\* what is on its way is output.
Telling ==
  job \in Narrated =>
    /\ Told(narr, said)
    /\ text \in [left : Seq(Glyph), out : Seq(Glyph), err : Seq(Glyph)]
    /\ out \in Seq(Glyph) /\ err \in Seq(Glyph)

\* An invocation begins with no line left over; no narrator knows a failure
\* before the command ends; an ended command leaves nothing on its way.
Begun ==
  (job \in {"settle", "verify"} /\ pc = "next") \/ job = "archive" \/ pc = "delete" => narr.partial = <<>>
Untroubled == pc # "idle" => narr.failed = FALSE
Reprinted == pc = "idle" =>
  /\ text = NoText /\ out = <<>> /\ err = <<>>
  /\ last.replay = IF last.heard /\ ~last.ok THEN Final(Lines(said), RawLimit) ELSE <<>>
InOrder == narr.shown = Lines(SubSeq(said, 1, Len(said) - Len(narr.partial)))

ShownInv == TokenInv /\ Telling /\ Begun /\ Untroubled /\ Reprinted /\ InOrder

\* With no line unfinished all that was told counts.
LEMMA NothingHeldBack ==
  ASSUME NEW n, NEW g \in Seq(Glyph), n.partial = <<>>
  PROVE  SubSeq(g, 1, Len(g) - Len(n.partial)) = g
<1>1. Len(n.partial) = 0 /\ Len(g) - 0 = Len(g)
  OBVIOUS
<1>. QED
  BY <1>1, SubSeqFull

LEMMA ToldIsOutput ==
  ASSUME NEW n, NEW g, Told(n, g)
  PROVE  g \in Seq(Glyph) /\ n.failed = FALSE
BY InLineGlyph DEF Told, ToldTo

\* A step that says nothing and leaves the text alone.
LEMMA NothingSaid ==
  ASSUME ShownInv, UNCHANGED <<job, told, last, text, out, err>>,
         pc' = "idle" <=> pc = "idle", pc' = "next" => pc = "next",
         pc' = "delete" => pc = "delete" \/ job = "archive"
  PROVE  (Telling /\ Begun /\ Untroubled /\ Reprinted /\ InOrder)'
BY DEF ShownInv, told, Telling, Begun, Untroubled, Reprinted, InOrder

\* A command that ends in a task that is not narrated has nothing to reprint.
LEMMA ExitUntold ==
  ASSUME ShownInv, NEW ok \in BOOLEAN, Exit(ok), UNCHANGED told, pc # "idle", job \notin {"boot", "verify", "delete"}
  PROVE  (Telling /\ Begun /\ Untroubled /\ Reprinted /\ InOrder)'
BY DEF Exit, ExitTelling, Replay, ShownInv, told, Narrated, Telling, Begun, Untroubled, Reprinted, InOrder

\* A command that begins has a narrator of its own.
LEMMA FreshShown ==
  ASSUME narr' = Quiet, said' = <<>>
  PROVE  Untroubled' /\ InOrder'
<1>1. SubSeq(<<>>, 1, Len(<<>>) - Len(<<>>)) = <<>>
  BY SubSeqEmpty
<1>2. Quiet.shown = <<>> /\ Quiet.failed = FALSE /\ Quiet.partial = <<>> /\ Lines(<<>>) = <<>>
  <2>1. Quiet.partial = <<>>
    BY DEF Quiet
  <2>. QED
    BY <2>1, BeginTold
<1>. QED
  BY <1>1, <1>2 DEF Untroubled, InOrder

\* Only part of a piece told: what follows from it.
LEMMA ToldShown ==
  ASSUME Told(narr', said')
  PROVE  Untroubled' /\ InOrder'
BY ToldIsShown, ToldIsOutput DEF Untroubled, InOrder

\* A command that ends as such a task fails reprints what it wrote.
LEMMA FailsTold ==
  ASSUME ShownInv, job \in {"boot", "verify", "delete"}, NEW g \in Seq(Glyph), said' = g,
         Over(narr', g, TRUE), ExitTelling(FALSE, narr')
  PROVE  (Telling /\ Begun /\ Untroubled /\ Reprinted /\ InOrder)'
<1>1. InOrder'
  BY NothingHeldBack DEF InOrder, Over
<1>2. last'.heard /\ ~last'.ok /\ last'.replay = narr'.raw
  BY DEF ExitTelling, Replay, Over
<1>3. Reprinted'
  BY <1>2 DEF ExitTelling, Reprinted, Over
<1>. QED
  BY <1>1, <1>3 DEF ExitTelling, Narrated, Telling, Begun, Untroubled

LEMMA NoTextIsText == NoText \in [left : Seq(Glyph), out : Seq(Glyph), err : Seq(Glyph)] /\ <<>> \in Seq(Glyph)
BY EmptySeq DEF NoText

\* A note of whole lines, written after a whole line, leaves no part of one.
LEMMA NoteTold ==
  ASSUME NEW n, NEW g, Told(n, g), n.partial = <<>>,
         NEW note \in {<<>>} \cup {c \o <<NL>> : c \in Complains}
  PROVE  Told(Write(n, note), g \o note) /\ Write(n, note).partial = <<>>
<1>1. note \in Seq(Glyph) /\ (note = <<>> \/ note[Len(note)] = NL)
  <2>1. CASE note = <<>>
    BY <2>1, NoTextIsText
  <2>2. ASSUME NEW c \in Complains, note = c \o <<NL>> PROVE note \in Seq(Glyph) /\ note[Len(note)] = NL
    <3>1. c \in Seq(Glyph) /\ <<NL>> \in Seq(Glyph)
      BY ExecAssumption, InLineGlyph DEF ExecAssumption
    <3>. QED
      BY <2>2, <3>1
  <2>. QED
    BY <2>1, <2>2
<1>2. Told(Write(n, note), g \o note)
  BY <1>1, WriteTold
<1>3. Write(n, note).partial = <<>>
  <2>1. CASE note = <<>>
    <3>1. Len(<<>>) = 0
      OBVIOUS
    <3>2. Taken(n, <<>>)[0] = n
      BY <3>1, TakenGlyphs
    <3>. QED
      BY <2>1, <3>1, <3>2 DEF Write
  <2>2. CASE note # <<>>
    <3>1. PICK w \in Seq(Glyph) : ToldTo(Write(n, note), g \o note, w)
      BY <1>2 DEF Told
    <3> DEFINE p == Write(n, note).partial
               s == g \o note
    <3>2. p \in Seq(InLine) /\ p \in Seq(Glyph) /\ s = w \o p
      BY <3>1, InLineGlyph DEF ToldTo
    <3>3. s[Len(s)] = NL
      <4>1. g \in Seq(Glyph)
        BY ToldIsOutput
      <4>. QED
        BY <1>1, <2>2, <4>1
    <3> HIDE DEF p, s
    <3>4. p # <<>> => s[Len(s)] = p[Len(p)] /\ p[Len(p)] # NL
      <4> SUFFICES ASSUME p # <<>> PROVE s[Len(s)] = p[Len(p)] /\ p[Len(p)] # NL
        OBVIOUS
      <4>1. Len(p) \in 1 .. Len(p)
        BY <3>2
      <4>2. p[Len(p)] \in InLine
        BY <3>2, <4>1, ElementOfSeq
      <4>. QED
        BY <3>2, <4>1, <4>2 DEF InLine
    <3>. QED
      BY <3>3, <3>4 DEF p
  <2>. QED
    BY <2>1, <2>2
<1>. QED
  BY <1>2, <1>3

LEMMA ShownStep == ShownInv /\ [Next]_vars => ShownInv'
<1> DEFINE Rest == Telling /\ Begun /\ Untroubled /\ Reprinted /\ InOrder
<1> SUFFICES ASSUME ShownInv, [Next]_vars PROVE Rest'
  BY TokenStep DEF ShownInv
<1> USE DEF guest, call, store, told, ended, control, Narrated
<1>0. Errands /\ TypeOK /\ TokenInv
  BY DEF ShownInv, TokenInv, CleanInv
<1>30. Quiet.partial = <<>>
  BY DEF Quiet
<1>1. CASE New
  <2>1. narr' = Begin(Quiet) /\ said' = <<>> /\ job' = "boot" /\ pc' = "client"
    BY <1>1 DEF New
  <2>2. Told(narr', said')
    BY <2>1, <1>30, BeginTold
  <2>3. text' = NoText /\ err' = <<>> /\ out' \in Seq(Glyph)
    BY <1>1, ExecAssumption DEF ExecAssumption, New, Start, ShownInv, Reprinted
  <2>4. Telling'
    BY <2>2, <2>3, NoTextIsText DEF Telling
  <2>. QED
    BY <2>1, <2>2, <2>4, ToldShown DEF Begun, Reprinted
<1>2. CASE Save
  BY <1>2, <1>30, FreshShown DEF Save, Fresh, Telling, Begun, Reprinted
<1>3. CASE Discard
  <2>1. job' = "none" /\ pc' = "delete"
    BY <1>3, <1>0 DEF Discard, Start, Errands
  <2>. QED
    BY <1>3, <2>1, <1>30, FreshShown DEF Discard, Fresh, Telling, Begun, Reprinted
<1>4. CASE ClientPrints
  <2>1. job \in {"boot", "delete"} /\ Told(narr, said) /\ out \in Seq(Glyph) /\ out # <<>>
    BY <1>4, <1>0 DEF ClientPrints, Errands, ShownInv, Telling
  <2>2. Head(out) \in Glyph /\ Tail(out) \in Seq(Glyph) /\ <<Head(out)>> \in Seq(Glyph)
    BY <2>1, HeadTailProperties
  <2>3. Told(narr', said')
    BY <1>4, <2>1, <2>2, WriteTold DEF ClientPrints, Heard
  <2>4. UNCHANGED <<job, pc, text, err>> /\ out' = Tail(out)
    BY <1>4 DEF ClientPrints
  <2>. QED
    BY <1>4, <2>1, <2>2, <2>3, <2>4, ToldShown DEF ClientPrints, ShownInv, Telling, Begun, Reprinted
<1>5. CASE BootFails
  <2>1. job = "boot" /\ Told(narr, said)
    BY <1>5, <1>0 DEF BootFails, Errands, ShownInv, Telling
  <2>2. said \in Seq(Glyph)
    BY <2>1, ToldIsOutput
  <2>3. narr' = End(narr, TRUE) /\ said' = said /\ ExitTelling(FALSE, narr')
    BY <1>5 DEF BootFails
  <2>4. Over(narr', said, TRUE)
    BY <2>1, <2>3, EndTold
  <2>. QED
    BY <2>1, <2>2, <2>3, <2>4, FailsTold
<1>6. CASE Boots
  <2>1. Told(narr, said)
    BY <1>6 DEF Boots, ShownInv, Telling
  <2>2. said \in Seq(Glyph)
    BY <2>1, ToldIsOutput
  <2>3. narr' = End(narr, FALSE) /\ said' = said \o IF narr.partial = <<>> THEN <<>> ELSE <<NL>>
    BY <1>6 DEF Boots
  <2>4. Told(narr', said') /\ narr'.partial = <<>>
    BY <2>1, <2>2, <2>3, EndTold DEF Over
  <2>5. job' \in {"settle", "verify"} /\ pc' = "next" /\ UNCHANGED <<text, out, err>>
    BY <1>6 DEF Boots
  <2>. QED
    BY <1>6, <2>4, <2>5, ToldShown DEF Boots, ShownInv, Telling, Begun, Reprinted
<1>25. CASE Settle
  <2>1. Told(narr, said) /\ narr.partial = <<>>
    BY <1>25 DEF Settle, ShownInv, Telling, Begun
  <2>2. CASE Exit(FALSE) /\ UNCHANGED told
    BY <1>25, <2>2, ExitUntold DEF Settle
  <2>3. CASE job' = "verify" /\ (\E note \in {<<>>} \cup {c \o <<NL>> : c \in Complains} : Heard(note))
             /\ UNCHANGED <<cmd, pc, broke, text, out, err, file, ended>>
    <3>1. PICK note \in {<<>>} \cup {c \o <<NL>> : c \in Complains} : Heard(note)
      BY <2>3
    <3>2. Told(narr', said') /\ narr'.partial = <<>>
      BY <2>1, <3>1, NoteTold DEF Heard
    <3>3. job' = "verify" /\ pc' = "next" /\ UNCHANGED <<text, out, err>>
      BY <1>25, <2>3 DEF Settle
    <3>. QED
      BY <1>25, <3>2, <3>3, ToldShown DEF Settle, ShownInv, Telling, Begun, Reprinted
  <2>. QED
    BY <1>25, <2>2, <2>3 DEF Settle
<1>7. CASE Verify
  <2>1. narr.partial = <<>> /\ job = "verify" /\ narr' = Begin(narr) /\ said' = <<>>
    BY <1>7 DEF Verify, ShownInv, Begun
  <2>2. Told(narr', said')
    BY <2>1, BeginTold
  <2>3. UNCHANGED <<job, text, out, err>> /\ pc' \notin {"idle", "next", "delete"}
    BY <1>7 DEF Verify, Go, FirstStep
  <2>. QED
    BY <2>1, <2>2, <2>3, ToldShown DEF ShownInv, Telling, Begun, Reprinted
<1>8. CASE Inject
  BY <1>8 DEF Inject, Go, FirstStep, ShownInv, Telling, Begun, Untroubled, Reprinted, InOrder
<1>9. CASE OpenArchive
  <2>1. CASE Exit(FALSE)
    BY <1>9, <1>0, <2>1, ExitUntold DEF OpenArchive, Errands
  <2>2. CASE Go(FirstStep) /\ UNCHANGED <<cmd, job, broke, text, out, err, ended>>
    BY <1>9, <2>2, NothingSaid DEF OpenArchive, Go, FirstStep
  <2>. QED
    BY <1>9, <2>1, <2>2 DEF OpenArchive
<1>10. CASE ReturnArchive
  <2>1. CASE Exit(~broke /\ Fits)
    <3>1. (~broke /\ Fits) \in BOOLEAN
      OBVIOUS
    <3>. QED
      BY <1>10, <2>1, <3>1, ExitUntold DEF ReturnArchive
  <2>2. CASE Go("delete") /\ UNCHANGED <<cmd, job, broke, text, out, err, ended>>
    BY <1>10, <2>2, NothingSaid DEF ReturnArchive, Go
  <2>. QED
    BY <1>10, <2>1, <2>2 DEF ReturnArchive
<1>11. CASE ReturnVerify
  <2> DEFINE x == out \o err
             n == Write(narr, x)
  <2>0. Told(narr, said) /\ out \in Seq(Glyph) /\ err \in Seq(Glyph)
    BY <1>11 DEF ReturnVerify, ShownInv, Telling
  <2>1. Told(narr, said) /\ said \in Seq(Glyph) /\ out \in Seq(Glyph) /\ err \in Seq(Glyph) /\ x \in Seq(Glyph)
    BY <2>0, ToldIsOutput, ConcatProperties
  <2>2. said' = said \o x
    BY <1>11, <2>1, ConcatAssociative DEF ReturnVerify
  <2>3. narr' = End(n, broke)
    BY <1>11 DEF ReturnVerify
  <2> HIDE DEF n, x
  <2>4. Told(n, said') /\ said' \in Seq(Glyph)
    BY <2>1, <2>2, WriteTold, ToldIsOutput DEF n
  <2>5. Over(narr', said', broke)
    BY <2>3, <2>4, <1>0, EndTold DEF TypeOK
  <2>6. CASE broke
    BY <1>11, <1>0, <2>4, <2>5, <2>6, FailsTold DEF ReturnVerify, TypeOK
  <2>7. CASE ~broke
    <3>1. job' = "inject" /\ pc' = "next"
      BY <1>11, <2>7 DEF ReturnVerify
    <3>2. InOrder'
      BY <2>4, <2>5, NothingHeldBack DEF InOrder, Over
    <3>. QED
      BY <1>0, <2>5, <2>7, <3>1, <3>2 DEF Telling, Begun, Untroubled, Reprinted, TypeOK, Over
  <2>. QED
    BY <2>6, <2>7
<1>12. CASE ReturnInject
  <2>1. CASE broke
    BY <1>12, <2>1, ExitUntold DEF ReturnInject
  <2>2. CASE ~broke
    BY <1>12, <2>2 DEF ReturnInject, Go, FirstStep, ShownInv, Telling, Begun, Untroubled, Reprinted, InOrder
  <2>. QED
    BY <2>1, <2>2
<1>24. CASE ReturnTimings
  BY <1>24, ExitUntold DEF ReturnTimings
<1>13. CASE Delete
  <2>1. narr.partial = <<>> /\ narr' = Begin(narr) /\ said' = <<>>
    BY <1>13 DEF Delete, ShownInv, Begun
  <2>2. Told(narr', said')
    BY <2>1, BeginTold
  <2>3. job' = "delete" /\ pc' = "client" /\ text' = NoText /\ err' = <<>> /\ out' \in Seq(Glyph)
    BY <1>13, ExecAssumption DEF ExecAssumption, Delete
  <2>4. Telling'
    BY <2>2, <2>3, NoTextIsText DEF Telling
  <2>. QED
    BY <2>2, <2>3, <2>4, ToldShown DEF Begun, Reprinted
<1>26. CASE Deletes
  <2>1. Told(narr, said)
    BY <1>26 DEF Deletes, ShownInv, Telling
  <2>2. said \in Seq(Glyph) /\ said' = said
    BY <1>26, <2>1, ToldIsOutput DEF Deletes
  <2>3. narr' = End(narr, FALSE) /\ ExitTelling(TRUE, narr')
    BY <1>26 DEF Deletes
  <2>4. Over(narr', said, FALSE)
    BY <2>1, <2>3, EndTold
  <2>5. InOrder'
    BY <2>2, <2>4, NothingHeldBack DEF InOrder, Over
  <2>. QED
    BY <2>3, <2>5 DEF ExitTelling, Telling, Begun, Untroubled, Reprinted
<1>27. CASE DeleteFails
  <2>1. Told(narr, said) /\ job = "delete"
    BY <1>27 DEF DeleteFails, ShownInv, Telling
  <2>2. said \in Seq(Glyph)
    BY <2>1, ToldIsOutput
  <2>3. narr' = End(narr, TRUE) /\ said' = said /\ ExitTelling(FALSE, narr')
    BY <1>27 DEF DeleteFails
  <2>4. Over(narr', said, TRUE)
    BY <2>1, <2>3, EndTold
  <2>. QED
    BY <2>1, <2>2, <2>3, <2>4, FailsTold
<1>14. CASE \E ok \in BOOLEAN : Mkdir(ok) \/ Stage(ok) \/ Exec(ok)
  BY <1>14, NothingSaid DEF Mkdir, Stage, Exec, Go, Fails, Collect
<1>15. CASE Severed
  BY <1>15, NothingSaid DEF Severed, Go, Fails, Collect
<1>16. ASSUME NEW ok \in BOOLEAN, Fetch(ok) \/ Explain(ok) \/ Clean(ok) PROVE Rest'
  <2>1. UNCHANGED <<job, text, narr, said, last>> /\ pc # "idle" /\ pc' \notin {"idle", "next", "delete"}
    BY <1>16 DEF Fetch, Explain, Clean, Go, Fails
  <2>2. out' \in {out, text.out, <<>>} /\ err' \in {err, text.err, <<>>}
    BY <1>16 DEF Fetch, Explain, Clean, Go, Fails
  <2>3. Telling'
    BY <2>1, <2>2, NoTextIsText DEF ShownInv, Telling
  <2>. QED
    BY <2>1, <2>3 DEF ShownInv, Begun, Untroubled, Reprinted, InOrder
<1>17. ASSUME NEW p \in procs, Opens(p) PROVE Rest'
  <2>1. UNCHANGED <<job, pc, out, err, narr, said, last>>
    BY <1>17 DEF Opens
  <2>2. PICK o \in Prints, c \in Complains \cup {<<>>} :
          text' = IF ~InHand(p) THEN text
                  ELSE CASE p.job = "archive" -> [NoText EXCEPT !.left = [i \in 1 .. session |-> session]]
                         [] p.job = "verify" -> [NoText EXCEPT !.left = o, !.err = c]
                         [] OTHER -> NoText
    BY <1>17 DEF Opens
  <2>3. pc = "idle" => text' = text
    <3>1. pc = "idle" => ~InHand(p)
      BY <1>0 DEF InHand, Errands
    <3>. QED
      BY <2>2, <3>1
  <2>4. Telling'
    <3> SUFFICES ASSUME job \in Narrated
                 PROVE  text' \in [left : Seq(Glyph), out : Seq(Glyph), err : Seq(Glyph)]
      BY <2>1 DEF ShownInv, Telling
    <3>1. o \in Seq(Glyph) /\ c \in Seq(Glyph)
      BY ExecAssumption, NoTextIsText DEF ExecAssumption
    <3> DEFINE t == [NoText EXCEPT !.left = o, !.err = c]
    <3>2. t \in [left : Seq(Glyph), out : Seq(Glyph), err : Seq(Glyph)]
      BY <3>1, NoTextIsText
    <3> HIDE DEF t
    <3>3. text' \in {text, t, NoText}
      <4>1. InHand(p) => p.job # "archive"
        BY DEF InHand
      <4>. QED
        BY <2>2, <4>1 DEF t
    <3>. QED
      BY <3>2, <3>3, NoTextIsText DEF ShownInv, Telling
  <2>. QED
    BY <2>1, <2>3, <2>4 DEF ShownInv, Begun, Untroubled, Reprinted, InOrder
<1>18. ASSUME NEW p \in procs, Feeds(p) PROVE Rest'
  BY <1>18, NothingSaid DEF Feeds
<1>19. ASSUME NEW p \in procs, Outputs(p) PROVE Rest'
  <2>1. UNCHANGED <<job, out, err, last>> /\ text.left # <<>>
    BY <1>19 DEF Outputs
  <2>2. pc # "idle" /\ pc' \notin {"idle"} /\ (pc' = "next" => pc = "next") /\ (pc' = "delete" => pc = "delete")
    BY <1>19 DEF Outputs, Receive, Fails, Go, Attended, ShownInv, Reprinted, NoText
  <2>3. job \in Narrated =>
          /\ text' \in [left : Seq(Glyph), out : Seq(Glyph), err : Seq(Glyph)]
          /\ Head(text.left) \in Glyph /\ <<Head(text.left)>> \in Seq(Glyph)
    <3> SUFFICES ASSUME job \in Narrated
                 PROVE  /\ text' \in [left : Seq(Glyph), out : Seq(Glyph), err : Seq(Glyph)]
                        /\ Head(text.left) \in Glyph /\ <<Head(text.left)>> \in Seq(Glyph)
      OBVIOUS
    <3>1. text \in [left : Seq(Glyph), out : Seq(Glyph), err : Seq(Glyph)]
      BY DEF ShownInv, Telling
    <3> DEFINE l == text.left
    <3>2. l \in Seq(Glyph) /\ text.out \in Seq(Glyph)
      BY <3>1
    <3> HIDE DEF l
    <3>3. Head(l) \in Glyph /\ Tail(l) \in Seq(Glyph) /\ <<Head(l)>> \in Seq(Glyph)
      BY <2>1, <3>2, HeadTailProperties DEF l
    <3>4. Append(text.out, Head(l)) \in Seq(Glyph)
      BY <3>2, <3>3, AppendProperties
    <3>5. text' = [text EXCEPT !.left = Tail(@), !.out = IF host.direct THEN @ ELSE Append(@, Head(text.left))]
      BY <1>19 DEF Outputs
    <3>. QED
      BY <3>1, <3>3, <3>4, <3>5 DEF l
  <2>4. CASE UNCHANGED told
    <3>1. Telling'
      BY <2>1, <2>3, <2>4 DEF ShownInv, Telling
    <3>. QED
      BY <2>1, <2>2, <2>4, <3>1 DEF ShownInv, Begun, Untroubled, Reprinted, InOrder
  <2>5. CASE job = "verify" /\ Attended(p) /\ Heard(<<Head(text.left)>>)
    <3>1. Told(narr, said)
      BY <2>5 DEF ShownInv, Telling
    <3>2. Told(narr', said')
      BY <2>3, <2>5, <3>1, WriteTold DEF Heard
    <3>3. Telling'
      BY <2>1, <2>3, <2>5, <3>2 DEF ShownInv, Telling
    <3>4. Begun'
      BY <2>1, <2>2, <2>5 DEF Begun, Attended
    <3>. QED
      BY <2>2, <3>2, <3>3, <3>4, ToldShown DEF Reprinted
  <2>. QED
    BY <1>19, <2>4, <2>5 DEF Outputs, Receive
<1>20. ASSUME NEW p \in procs, NEW ok \in BOOLEAN, Ends(p, ok) PROVE Rest'
  <2>1. UNCHANGED <<job, text, out, err, last>>
    BY <1>20 DEF Ends
  <2>2. CASE UNCHANGED told
    <3>1. (pc' = "idle" <=> pc = "idle") /\ (pc' = "next" => pc = "next") /\ (pc' = "delete" => pc = "delete")
      BY <1>20 DEF Ends, Attended, Collect
    <3>. QED
      BY <2>1, <2>2, <3>1, NothingSaid
  <2>3. CASE p.job = "verify" /\ Attended(p) /\ Heard(text.err)
    <3>1. job = "verify" /\ pc = "wait" /\ pc' \notin {"idle", "next", "delete"}
      BY <1>20, <2>3 DEF Ends, Attended, InHand, Collect
    <3>2. Told(narr, said) /\ text.err \in Seq(Glyph)
      BY <3>1 DEF ShownInv, Telling
    <3>3. Told(narr', said')
      BY <2>3, <3>2, WriteTold DEF Heard
    <3>4. Telling'
      BY <2>1, <3>1, <3>3 DEF ShownInv, Telling
    <3>. QED
      BY <2>1, <3>1, <3>3, <3>4, ToldShown DEF Begun, Reprinted
  <2>. QED
    BY <1>20, <2>2, <2>3 DEF Ends
<1>21. CASE AgentWrites \/ Power \/ Tick
  BY <1>21, NothingSaid DEF AgentWrites, Power, Tick
<1>22. CASE Dies
  BY <1>22, FreshShown DEF Dies, Telling, Begun, Reprinted
<1>23. CASE UNCHANGED vars
  BY <1>23, NothingSaid DEF vars
<1>. QED
  BY <1>1, <1>2, <1>3, <1>4, <1>5, <1>6, <1>7, <1>8, <1>9, <1>10, <1>11, <1>12, <1>13, <1>14, <1>15, <1>16,
     <1>17, <1>18, <1>19, <1>20, <1>21, <1>22, <1>23, <1>24, <1>25, <1>26, <1>27
     DEF Next, Commands, Host, Answers, Refuses, Guest, World

LEMMA InitShown == Init => ShownInv
<1> SUFFICES ASSUME Init PROVE ShownInv
  OBVIOUS
<1>1. TokenInv
  BY InitStore DEF StoreInv
<1>2. Untroubled /\ InOrder
  <2>1. SubSeq(<<>>, 1, Len(<<>>) - Len(<<>>)) = <<>>
    BY SubSeqEmpty
  <2>2. Quiet.partial = <<>>
    BY DEF Quiet
  <2>3. Quiet.shown = <<>> /\ Quiet.failed = FALSE /\ Lines(<<>>) = <<>>
    BY <2>2, BeginTold
  <2>. QED
    BY <2>1, <2>2, <2>3 DEF Init, Untroubled, InOrder
<1>. QED
  BY <1>1, <1>2 DEF Init, ShownInv, Telling, Narrated, Begun, Reprinted, Untold

\* Whatever the pieces it came in, each line an invocation wrote is shown once
\* and in order, and a command that fails in one reprints that invocation's last
\* lines, raw, and no other's (narrate.go:15-20, main.go:62-66).
THEOREM AllIsShown == Spec => []ShownAndReplayed
<1>1. ShownInv => ShownAndReplayed
  BY DEF ShownInv, Reprinted, InOrder, ShownAndReplayed
<1>. QED
  BY <1>1, InitShown, ShownStep, PTL DEF Spec
=============================================================================
