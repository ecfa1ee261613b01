---------------------------- MODULE Allow_proofs ----------------------------
(***************************************************************************)
(* What holds of Allow for every set of sandboxes, terminals and domains:  *)
(* no list loses the template's entries however many commands race; and,   *)
(* with one command at a time, an append keeps what is there and a report  *)
(* of a reload is true.  And what holds of AllowGroups for every set of    *)
(* features, labels, entries and templates: a group turned off is gone, a  *)
(* list nobody touched is what seeding would give, and a second create     *)
(* changes nothing.                                                        *)
(***************************************************************************)
EXTENDS Allow, AllowGroups, SequenceTheorems, WellFoundedInduction, TLAPS

OneTerminal == \A s, t \in Terminals : s = t

\* A text a person leaves is a list, and has the template's entries if the text
\* they were given had them.
LEMMA EditedFacts ==
  ASSUME NEW text \in Lists, NEW e \in Edited(text)
  PROVE  e \in Lists /\ (Template \subseteq text => Template \subseteq e)
BY AllowAssumption DEF Edited, Lists

\* What RollBack does, taken apart once.
PutBack(t, v) ==
  /\ pc[t] = "rollback"
  /\ disk' = [disk EXCEPT ![v] = prev[t][v]]
  /\ \/ /\ todo[t] # {v}
        /\ todo' = [todo EXCEPT ![t] = todo[t] \ {v}]
        /\ UNCHANGED <<pc, target, original, buffer, want, prev>>
     \/ todo[t] = {v} /\ target[t] = NoVM /\ Leave(t)
     \/ /\ todo[t] = {v} /\ target[t] # NoVM
        /\ todo' = [todo EXCEPT ![t] = {}]
        /\ GoTo(t, "rename")
        /\ UNCHANGED <<original, buffer, want, prev>>

LEMMA RollBackFacts ==
  ASSUME NEW t \in Terminals, RollBack(t)
  PROVE  /\ \E v \in todo[t] : PutBack(t, v)
         /\ UNCHANGED <<list, changes, up, served, told, cut, trusted>>
<1>1. PICK v \in todo[t] :
        /\ disk' = [disk EXCEPT ![v] = prev[t][v]]
        /\ IF todo[t] # {v}
           THEN /\ todo' = [todo EXCEPT ![t] = @ \ {v}]
                /\ UNCHANGED <<pc, target, original, buffer, want, prev>>
           ELSE IF target[t] = NoVM
           THEN Leave(t)
           ELSE /\ todo' = [todo EXCEPT ![t] = {}]
                /\ GoTo(t, "rename")
                /\ UNCHANGED <<original, buffer, want, prev>>
  BY DEF RollBack
<1>2. pc[t] = "rollback"
  BY DEF RollBack
<1>3. PutBack(t, v)
  <2>1. CASE todo[t] # {v}
    BY <1>1, <1>2, <2>1 DEF PutBack
  <2>2. CASE todo[t] = {v} /\ target[t] = NoVM
    BY <1>1, <1>2, <2>2 DEF PutBack
  <2>3. CASE todo[t] = {v} /\ target[t] # NoVM
    BY <1>1, <1>2, <2>3 DEF PutBack
  <2>. QED
    BY <2>1, <2>2, <2>3
<1>4. UNCHANGED <<list, changes, up, served, told, cut, trusted>>
  BY DEF RollBack
<1>. QED
  BY <1>3, <1>4

\* The type invariant in three parts, so that a step shows each from its own.
TypeFlow ==
  /\ pc \in [Terminals -> Steps]
  /\ target \in [Terminals -> VMs \cup {NoVM}]
  /\ \A t \in Terminals : pc[t] \notin {"idle"} \cup Syncing => target[t] \in VMs

TypeLocal ==
  /\ original \in [Terminals -> Lists] /\ buffer \in [Terminals -> Lists]
  /\ want \in [Terminals -> Texts] /\ prev \in [Terminals -> Texts]
  /\ todo \in [Terminals -> SUBSET VMs]

TypeRest ==
  /\ list \in Texts /\ changes \in 0 .. MaxChanges
  /\ up \in BOOLEAN /\ disk \in Texts /\ served \in Texts \cup {Down}
  /\ told \subseteq VMs /\ cut \subseteq VMs /\ trusted \in BOOLEAN

LEMMA TypeParts == TypeOK <=> TypeFlow /\ TypeLocal /\ TypeRest
BY DEF TypeOK, TypeFlow, TypeLocal, TypeRest

\* What the helpers of the actions do to the types.
LEMMA LeaveTypes ==
  ASSUME TypeFlow, TypeLocal, NEW t \in Terminals, Leave(t)
  PROVE  TypeFlow' /\ TypeLocal'
<1>1. TypeFlow'
  BY AllowAssumption DEF Leave, TypeFlow, Steps, Syncing
<1>2. original' \in [Terminals -> Lists] /\ buffer' \in [Terminals -> Lists]
  BY DEF Leave, TypeLocal, Lists
<1>3. want' \in [Terminals -> Texts] /\ prev' \in [Terminals -> Texts]
  <2>1. NoTexts \in Texts
    BY DEF NoTexts, Texts
  <2>. QED
    BY <2>1 DEF Leave, TypeLocal
<1>4. todo' \in [Terminals -> SUBSET VMs]
  BY DEF Leave, TypeLocal
<1>. QED
  BY <1>1, <1>2, <1>3, <1>4 DEF TypeLocal

LEMMA GoToTypes ==
  ASSUME TypeFlow, NEW t \in Terminals, NEW step \in Steps,
         step \in Syncing \/ target[t] \in VMs, GoTo(t, step)
  PROVE  TypeFlow'
BY DEF GoTo, TypeFlow, Steps, Syncing

LEMMA WriteTypes ==
  ASSUME TypeRest, NEW v \in VMs, NEW text \in Lists \cup {Absent}, Write(v, text)
  PROVE  list' \in Texts /\ told' \subseteq VMs /\ cut' \subseteq VMs /\ trusted' \in BOOLEAN
BY DEF Write, TypeRest, Texts

\* Every step keeps the variables of Allow in their types.
LEMMA TypeStep == TypeOK /\ [Next]_vars => TypeOK'
<1> SUFFICES ASSUME TypeFlow, TypeLocal, TypeRest, [Next]_vars
             PROVE  TypeFlow' /\ TypeLocal' /\ TypeRest'
  BY DEF TypeOK, TypeFlow, TypeLocal, TypeRest
<1> DEFINE Types == TypeFlow /\ TypeLocal /\ TypeRest
<1>T. \A t \in Terminals : pc[t] \notin {"idle"} \cup Syncing => target[t] \in VMs
  BY DEF TypeFlow
<1>L. Lists # {} /\ {} \in Lists /\ Template \in Lists
  BY AllowAssumption DEF Lists
<1>1. ASSUME NEW t \in Terminals, NEW v \in VMs, NEW domains \in Lists \ {{}}, Grant(t, v, domains) PROVE Types'
  <2>1. TypeFlow'
    BY <1>1 DEF Grant, TypeFlow, Steps, Syncing
  <2>2. TypeLocal'
    BY <1>1 DEF Grant, TypeLocal, Lists
  <2>3. TypeRest'
    BY <1>1, AllowAssumption DEF Grant, Count, TypeRest, proxy
  <2>. QED
    BY <2>1, <2>2, <2>3
<1>2. ASSUME NEW t \in Terminals, NEW v \in VMs, Edit(t, v) PROVE Types'
  <2>1. TypeFlow'
    BY <1>2 DEF Edit, TypeFlow, Steps, Syncing
  <2>2. TypeLocal'
    BY <1>2 DEF Edit, TypeLocal, local
  <2>3. TypeRest'
    BY <1>2, AllowAssumption DEF Edit, Count, TypeRest, proxy
  <2>. QED
    BY <2>1, <2>2, <2>3
<1>3. ASSUME NEW t \in Terminals, SyncProxy(t) PROVE Types'
  <2>1. TypeFlow'
    BY <1>3 DEF SyncProxy, GoTo, TypeFlow, Steps, Syncing
  <2>2. TypeLocal'
    BY <1>3 DEF SyncProxy, TypeLocal, local
  <2>3. TypeRest'
    BY <1>3 DEF SyncProxy, TypeRest, proxy
  <2>. QED
    BY <2>1, <2>2, <2>3
<1>4. ASSUME NEW t \in Terminals, EnsureList(t) PROVE Types'
  <2>1. TypeFlow'
    BY <1>4 DEF EnsureList, GoTo, TypeFlow, Steps, Syncing
  <2>2. TypeLocal'
    BY <1>4, <1>T DEF EnsureList, TypeLocal, TypeRest, Texts, Syncing
  <2>3. TypeRest'
    BY <1>4 DEF EnsureList, TypeRest, proxy
  <2>. QED
    BY <2>1, <2>2, <2>3
<1>5. ASSUME NEW t \in Terminals, SeedList(t) PROVE Types'
  <2>1. TypeFlow'
    BY <1>5 DEF SeedList, GoTo, TypeFlow, Steps, Syncing
  <2>2. TypeLocal'
    BY <1>5, <1>L DEF SeedList, TypeLocal
  <2>3. TypeRest'
    BY <1>5, <1>T, <1>L, WriteTypes DEF SeedList, TypeRest, proxy, Syncing
  <2>. QED
    BY <2>1, <2>2, <2>3
<1>6. ASSUME NEW t \in Terminals, AppendDomains(t) PROVE Types'
  <2>1. target[t] \in VMs /\ original[t] \cup buffer[t] \in Lists
    BY <1>6, <1>T DEF AppendDomains, TypeLocal, Lists, Syncing
  <2>2. CASE buffer[t] \subseteq original[t]
    BY <1>6, <2>2, LeaveTypes DEF AppendDomains, TypeRest, proxy
  <2>3. CASE ~(buffer[t] \subseteq original[t])
    <3>1. Write(target[t], original[t] \cup buffer[t]) /\ GoTo(t, "check") /\ UNCHANGED local /\ UNCHANGED <<changes, proxy>>
      BY <1>6, <2>3 DEF AppendDomains
    <3>2. TypeFlow'
      BY <3>1, <2>1, GoToTypes DEF Steps
    <3>3. TypeRest'
      BY <3>1, <2>1, WriteTypes DEF TypeRest, proxy
    <3>. QED
      BY <3>1, <3>2, <3>3 DEF TypeLocal, local
  <2>. QED
    BY <2>2, <2>3
<1>7. ASSUME NEW t \in Terminals, OpenEditor(t) PROVE Types'
  <2>1. TypeFlow'
    BY <1>7 DEF OpenEditor, GoTo, TypeFlow, Steps, Syncing
  <2>2. TypeLocal'
    BY <1>7, <1>T DEF OpenEditor, TypeLocal, TypeRest, Texts, Syncing
  <2>3. TypeRest'
    BY <1>7 DEF OpenEditor, TypeRest, proxy
  <2>. QED
    BY <2>1, <2>2, <2>3
<1>8. ASSUME NEW t \in Terminals, CloseEditor(t) PROVE Types'
  <2>1. TypeFlow'
    BY <1>8 DEF CloseEditor, GoTo, TypeFlow, Steps, Syncing
  <2>2. TypeLocal'
    BY <1>8 DEF CloseEditor, TypeLocal, local
  <2>3. TypeRest'
    <3>1. buffer[t] \in Lists /\ target[t] \in VMs
      BY <1>8, <1>T DEF CloseEditor, TypeLocal, Syncing
    <3>2. \A text \in Edited(buffer[t]) : text \in Lists
      BY <3>1, EditedFacts
    <3>. QED
      BY <1>8, <3>1, <3>2, WriteTypes DEF CloseEditor, TypeRest, proxy
  <2>. QED
    BY <2>1, <2>2, <2>3
<1>9. ASSUME NEW t \in Terminals, ReadBack(t) PROVE Types'
  <2>1. TypeRest' /\ target[t] \in VMs
    BY <1>9, <1>T DEF ReadBack, TypeRest, proxy, Syncing
  <2>2. CASE list[target[t]] = original[t]
    BY <1>9, <2>1, <2>2, LeaveTypes DEF ReadBack
  <2>3. CASE ~(list[target[t]] = original[t])
    <3>1. GoTo(t, "check") /\ UNCHANGED local
      BY <1>9, <2>3 DEF ReadBack
    <3>. QED
      BY <3>1, <2>1, GoToTypes DEF Steps, TypeLocal, local
  <2>. QED
    BY <2>2, <2>3
<1>10. ASSUME NEW t \in Terminals, CheckProxy(t) PROVE Types'
  <2>1. TypeRest' /\ target[t] \in VMs
    BY <1>10, <1>T DEF CheckProxy, TypeRest, proxy, Syncing
  <2>2. CASE ~up
    BY <1>10, <2>1, <2>2, LeaveTypes DEF CheckProxy
  <2>3. CASE ~(~up)
    <3>1. GoTo(t, "read") /\ UNCHANGED local
      BY <1>10, <2>3 DEF CheckProxy
    <3>. QED
      BY <3>1, <2>1, GoToTypes DEF Steps, TypeLocal, local
  <2>. QED
    BY <2>2, <2>3
<1>11. ASSUME NEW t \in Terminals, SyncRead(t) PROVE Types'
  <2>1. Seeded \in Texts
    BY <1>L DEF Seeded, TypeRest, Texts
  <2>2. TypeFlow'
    BY <1>11 DEF SyncRead, GoTo, TypeFlow, Steps, Syncing
  <2>3. TypeLocal'
    BY <1>11, <2>1 DEF SyncRead, TypeLocal
  <2>4. TypeRest'
    BY <1>11, <2>1 DEF SyncRead, TypeRest, proxy
  <2>. QED
    BY <2>2, <2>3, <2>4
<1>12. ASSUME NEW t \in Terminals, Compare(t) PROVE Types'
  <2>1. TypeRest'
    BY <1>12 DEF Compare, Tell, TypeRest, TypeFlow, proxy
  <2>2. CASE disk = want[t]
    BY <1>12, <2>1, <2>2, LeaveTypes DEF Compare
  <2>3. CASE disk # want[t]
    <3>1. /\ prev' = [prev EXCEPT ![t] = disk]
          /\ todo' = [todo EXCEPT ![t] = {v \in VMs : disk[v] # want[t][v]}]
          /\ GoTo(t, "push")
          /\ UNCHANGED <<original, buffer, want>>
      BY <1>12, <2>3 DEF Compare
    <3>2. TypeFlow'
      BY <3>1, GoToTypes DEF Steps, Syncing
    <3>3. TypeLocal'
      BY <3>1 DEF TypeLocal, TypeRest
    <3>. QED
      BY <2>1, <3>2, <3>3
  <2>. QED
    BY <2>2, <2>3
<1>13. ASSUME NEW t \in Terminals, Push(t) PROVE Types'
  <2>1. PICK v \in todo[t] :
          /\ disk' = [disk EXCEPT ![v] = want[t][v]]
          /\ todo' = [todo EXCEPT ![t] = todo[t] \ {v}]
          /\ GoTo(t, IF todo[t] = {v} THEN "parse" ELSE "push")
    BY <1>13 DEF Push
  <2>2. UNCHANGED <<list, changes, up, served, original, buffer, want, prev, told, cut, trusted>>
    BY <1>13 DEF Push
  <2>3. TypeFlow'
    BY <2>1, GoToTypes DEF Steps, Syncing
  <2>4. TypeLocal'
    BY <2>1, <2>2 DEF TypeLocal
  <2>5. TypeRest'
    BY <2>1, <2>2 DEF TypeRest, TypeLocal, Texts
  <2>. QED
    BY <2>3, <2>4, <2>5
<1>14. ASSUME NEW t \in Terminals, Parsed(t) PROVE Types'
  <2>1. TypeFlow'
    BY <1>14 DEF Parsed, GoTo, TypeFlow, Steps, Syncing
  <2>2. TypeLocal'
    BY <1>14 DEF Parsed, TypeLocal, local
  <2>3. TypeRest'
    BY <1>14 DEF Parsed, TypeRest, proxy
  <2>. QED
    BY <2>1, <2>2, <2>3
<1>15. ASSUME NEW t \in Terminals, ParseRefused(t) PROVE Types'
  <2>1. TypeFlow'
    BY <1>15 DEF ParseRefused, GoTo, TypeFlow, Steps, Syncing
  <2>2. TypeLocal'
    BY <1>15 DEF ParseRefused, TypeLocal
  <2>3. TypeRest'
    BY <1>15 DEF ParseRefused, TypeRest, proxy
  <2>. QED
    BY <2>1, <2>2, <2>3
<1>16. ASSUME NEW t \in Terminals, Reload(t) PROVE Types'
  <2>1. served' \in Texts \cup {Down} /\ trusted' \in BOOLEAN
    BY <1>16 DEF Reload, Loaded, TypeRest
  <2>2. told' \subseteq VMs
    BY <1>16 DEF Reload, Tell, TypeRest, TypeFlow
  <2>3. TypeRest'
    BY <1>16, <2>1, <2>2 DEF Reload, TypeRest
  <2>. QED
    BY <1>16, <2>3, LeaveTypes DEF Reload
<1>17. ASSUME NEW t \in Terminals, RollBack(t) PROVE Types'
  <2>1. PICK v \in todo[t] : PutBack(t, v)
    BY <1>17, RollBackFacts
  <2>2. UNCHANGED <<list, changes, up, served, told, cut, trusted>>
    BY <1>17, RollBackFacts
  <2>3. TypeRest'
    BY <2>1, <2>2 DEF PutBack, TypeRest, TypeLocal, Texts
  <2>4. CASE todo[t] # {v}
    BY <2>1, <2>3, <2>4 DEF PutBack, TypeFlow, TypeLocal
  <2>5. CASE todo[t] = {v} /\ target[t] = NoVM
    BY <2>1, <2>3, <2>5, LeaveTypes DEF PutBack
  <2>6. CASE todo[t] = {v} /\ target[t] # NoVM
    <3>1. TypeFlow'
      BY <2>1, <2>6 DEF PutBack, GoTo, TypeFlow, Steps, Syncing
    <3>2. TypeLocal'
      BY <2>1, <2>6 DEF PutBack, TypeLocal
    <3>. QED
      BY <2>3, <3>1, <3>2
  <2>. QED
    BY <2>4, <2>5, <2>6
<1>18. ASSUME NEW t \in Terminals, SetAside(t) PROVE Types'
  <2>1. TypeFlow'
    BY <1>18 DEF SetAside, GoTo, TypeFlow, Steps, Syncing
  <2>2. TypeLocal'
    BY <1>18 DEF SetAside, TypeLocal, local
  <2>3. TypeRest'
    BY <1>18, <1>T, WriteTypes DEF SetAside, TypeRest, proxy, Syncing
  <2>. QED
    BY <2>1, <2>2, <2>3
<1>19. ASSUME NEW t \in Terminals, Restore(t) PROVE Types'
  <2>1. original[t] \in Lists /\ target[t] \in VMs
    BY <1>19, <1>T DEF Restore, TypeLocal, Syncing
  <2>2. TypeRest'
    BY <1>19, <2>1, WriteTypes DEF Restore, TypeRest, proxy
  <2>. QED
    BY <1>19, <2>2, LeaveTypes DEF Restore
<1>20. ASSUME NEW t \in Terminals, Abandon(t) PROVE Types'
  <2>1. cut' \subseteq VMs /\ trusted' \in BOOLEAN
    BY <1>20, <1>T DEF Abandon, TypeRest, Syncing
  <2>2. TypeRest'
    BY <1>20, <2>1 DEF Abandon, TypeRest, proxy
  <2>. QED
    BY <1>20, <2>2, LeaveTypes DEF Abandon
<1>21. ASSUME NEW t \in Terminals, Truncate(t) PROVE Types'
  <2>1. target[t] \in VMs
    BY <1>21, <1>T DEF Truncate, Syncing
  <2>2. TypeRest'
    BY <1>21, <2>1, <1>L DEF Truncate, TypeRest, proxy, Texts
  <2>. QED
    BY <1>21, <2>2, LeaveTypes DEF Truncate
<1>22. ASSUME NEW v \in VMs, HandEdit(v) PROVE Types'
  <2>1. \A text \in Edited(list[v]) : text \in Lists
    <3>1. list[v] \in Lists
      BY <1>22 DEF HandEdit, TypeRest, Texts
    <3>. QED
      BY <3>1, EditedFacts
  <2>2. PICK text \in Lists \cup {Absent} : Write(v, text)
    BY <1>22, <2>1 DEF HandEdit
  <2>3. TypeRest'
    BY <1>22, <2>2, WriteTypes, AllowAssumption DEF HandEdit, Count, TypeRest, proxy
  <2>. QED
    BY <1>22, <2>3 DEF HandEdit, TypeFlow, TypeLocal, local
<1>23. ASSUME ProxyStops PROVE Types'
  <2>1. TypeFlow'
    BY <1>23 DEF ProxyStops, TypeFlow
  <2>2. TypeLocal'
    BY <1>23 DEF ProxyStops, TypeLocal, local
  <2>3. TypeRest'
    BY <1>23 DEF ProxyStops, Loaded, TypeRest
  <2>. QED
    BY <2>1, <2>2, <2>3
<1>24. ASSUME ProxyBoots PROVE Types'
  <2>1. TypeFlow'
    BY <1>24 DEF ProxyBoots, TypeFlow
  <2>2. TypeLocal'
    BY <1>24 DEF ProxyBoots, TypeLocal, local
  <2>3. TypeRest'
    BY <1>24 DEF ProxyBoots, Loaded, TypeRest
  <2>. QED
    BY <2>1, <2>2, <2>3
<1>25. CASE UNCHANGED vars
  BY <1>25 DEF vars, proxy, local, TypeFlow, TypeLocal, TypeRest
<1>. QED
  BY <1>1, <1>2, <1>3, <1>4, <1>5, <1>6, <1>7, <1>8, <1>9, <1>10, <1>11, <1>12, <1>13, <1>14, <1>15, <1>16, <1>17, <1>18, <1>19, <1>20, <1>21, <1>22, <1>23, <1>24, <1>25 DEF Next

\* Allow is type-correct, for any number of terminals and whatever is killed.
THEOREM AllowTypeCorrect == Spec => []TypeOK
<1>1. Init => TypeOK
  BY AllowAssumption DEF Init, TypeOK, Texts, NoTexts, Steps, Syncing, Lists
<1>. QED
  BY <1>1, TypeStep, PTL DEF Spec

----------------------------------------------------------------------------
(* Complete lists, whatever races.                                         *)

\* What a command holds of a list, to write it back or to edit it, is complete.
HeldComplete ==
  \A t \in Terminals : target[t] \notin cut =>
    /\ pc[t] \in {"append", "open", "edit", "readback", "check", "rename", "restore"} =>
         Template \subseteq original[t]
    /\ pc[t] \in Syncing /\ target[t] # NoVM => Template \subseteq original[t]
    /\ pc[t] = "idle" => target[t] = NoVM
    /\ pc[t] = "edit" => Template \subseteq buffer[t]

CompleteInv == ListComplete /\ HeldComplete

\* But for a write cut short, no step takes a template entry from a list or
\* from what is held of it.
LEMMA CompleteStep ==
  ASSUME TypeOK, CompleteInv, [Next]_vars
  PROVE  CompleteInv'
<1> USE AllowAssumption DEF TypeOK, Texts, NoTexts, Lists, Syncing, CompleteInv, ListComplete, HeldComplete
<1>1. ASSUME NEW t \in Terminals, NEW v \in VMs, NEW domains \in Lists \ {{}}, Grant(t, v, domains) PROVE CompleteInv'
  BY <1>1 DEF Grant, Count, proxy, local
<1>2. ASSUME NEW t \in Terminals, NEW v \in VMs, Edit(t, v) PROVE CompleteInv'
  BY <1>2 DEF Edit, Count, proxy, local
<1>3. ASSUME NEW t \in Terminals, SyncProxy(t) PROVE CompleteInv'
  BY <1>3 DEF SyncProxy, GoTo, proxy, local
<1>4. ASSUME NEW t \in Terminals, EnsureList(t) PROVE CompleteInv'
  <2>1. CASE list[target[t]] = Absent
    BY <1>4, <2>1 DEF EnsureList, GoTo, proxy, local
  <2>2. CASE ~(list[target[t]] = Absent)
    BY <1>4, <2>2 DEF EnsureList, GoTo, proxy, local
  <2>. QED
    BY <2>1, <2>2
<1>5. ASSUME NEW t \in Terminals, SeedList(t) PROVE CompleteInv'
  BY <1>5 DEF SeedList, Write, GoTo, proxy, local
<1>6. ASSUME NEW t \in Terminals, AppendDomains(t) PROVE CompleteInv'
  <2>1. CASE buffer[t] \subseteq original[t]
    BY <1>6, <2>1 DEF AppendDomains, Leave, proxy, local
  <2>2. CASE ~(buffer[t] \subseteq original[t])
    <3> DEFINE text == original[t] \cup buffer[t]
    <3>1. /\ Write(target[t], text) /\ GoTo(t, "check") /\ UNCHANGED local
          /\ pc[t] = "append"
      BY <1>6, <2>2 DEF AppendDomains
    <3>2. target[t] \notin cut => Template \subseteq text
      BY <3>1
    <3> HIDE DEF text
    <3>. QED
      BY <3>1, <3>2 DEF Write, GoTo, local
  <2>. QED
    BY <2>1, <2>2
<1>7. ASSUME NEW t \in Terminals, OpenEditor(t) PROVE CompleteInv'
  BY <1>7 DEF OpenEditor, GoTo, proxy, local
<1>8. ASSUME NEW t \in Terminals, CloseEditor(t) PROVE CompleteInv'
  <2>1. target[t] \notin cut => \A text \in Edited(buffer[t]) : Template \subseteq text
    <3> SUFFICES ASSUME target[t] \notin cut, NEW text \in Edited(buffer[t])
                 PROVE  Template \subseteq text
      OBVIOUS
    <3>1. buffer[t] \in Lists /\ Template \subseteq buffer[t]
      BY <1>8 DEF CloseEditor
    <3>. QED
      BY <3>1, EditedFacts
  <2>. QED
    BY <1>8, <2>1 DEF CloseEditor, Write, GoTo, proxy, local
<1>9. ASSUME NEW t \in Terminals, ReadBack(t) PROVE CompleteInv'
  <2>1. CASE list[target[t]] = original[t]
    BY <1>9, <2>1 DEF ReadBack, Leave, GoTo, proxy, local
  <2>2. CASE ~(list[target[t]] = original[t])
    BY <1>9, <2>2 DEF ReadBack, Leave, GoTo, proxy, local
  <2>. QED
    BY <2>1, <2>2
<1>10. ASSUME NEW t \in Terminals, CheckProxy(t) PROVE CompleteInv'
  <2>1. CASE up
    BY <1>10, <2>1 DEF CheckProxy, Leave, GoTo, proxy, local
  <2>2. CASE ~(up)
    BY <1>10, <2>2 DEF CheckProxy, Leave, GoTo, proxy, local
  <2>. QED
    BY <2>1, <2>2
<1>11. ASSUME NEW t \in Terminals, SyncRead(t) PROVE CompleteInv'
  BY <1>11 DEF SyncRead, GoTo, Seeded, proxy, local
<1>12. ASSUME NEW t \in Terminals, Compare(t) PROVE CompleteInv'
  <2>1. CASE disk = want[t]
    BY <1>12, <2>1 DEF Compare, Tell, Leave, GoTo, proxy, local
  <2>2. CASE ~(disk = want[t])
    BY <1>12, <2>2 DEF Compare, Tell, Leave, GoTo, proxy, local
  <2>. QED
    BY <2>1, <2>2
<1>13. ASSUME NEW t \in Terminals, Push(t) PROVE CompleteInv'
  BY <1>13 DEF Push, GoTo, proxy, local
<1>14. ASSUME NEW t \in Terminals, Parsed(t) PROVE CompleteInv'
  BY <1>14 DEF Parsed, GoTo, proxy, local
<1>15. ASSUME NEW t \in Terminals, ParseRefused(t) PROVE CompleteInv'
  BY <1>15 DEF ParseRefused, GoTo, proxy, local
<1>16. ASSUME NEW t \in Terminals, Reload(t) PROVE CompleteInv'
  BY <1>16 DEF Reload, Loaded, Tell, Leave, proxy, local
<1>17. ASSUME NEW t \in Terminals, RollBack(t) PROVE CompleteInv'
  <2>1. PICK v \in todo[t] :
          /\ disk' = [disk EXCEPT ![v] = prev[t][v]]
          /\ IF todo[t] # {v}
             THEN /\ todo' = [todo EXCEPT ![t] = @ \ {v}]
                  /\ UNCHANGED <<pc, target, original, buffer, want, prev>>
             ELSE IF target[t] = NoVM
             THEN Leave(t)
             ELSE /\ todo' = [todo EXCEPT ![t] = {}]
                  /\ GoTo(t, "rename")
                  /\ UNCHANGED <<original, buffer, want, prev>>
    BY <1>17 DEF RollBack
  <2>2. UNCHANGED <<list, changes, up, served, told, cut, trusted>> /\ pc[t] = "rollback"
    BY <1>17 DEF RollBack
  <2>3. CASE todo[t] # {v}
    BY <2>1, <2>2, <2>3
  <2>4. CASE todo[t] = {v} /\ target[t] = NoVM
    BY <2>1, <2>2, <2>4 DEF Leave
  <2>5. CASE todo[t] = {v} /\ target[t] # NoVM
    BY <2>1, <2>2, <2>5 DEF GoTo
  <2>. QED
    BY <2>3, <2>4, <2>5
<1>18. ASSUME NEW t \in Terminals, SetAside(t) PROVE CompleteInv'
  BY <1>18 DEF SetAside, Write, GoTo, proxy, local
<1>19. ASSUME NEW t \in Terminals, Restore(t) PROVE CompleteInv'
  BY <1>19 DEF Restore, Write, Leave, proxy, local
<1>20. ASSUME NEW t \in Terminals, Abandon(t) PROVE CompleteInv'
  BY <1>20 DEF Abandon, Leave, proxy, local
<1>21. ASSUME NEW t \in Terminals, Truncate(t) PROVE CompleteInv'
  BY <1>21 DEF Truncate, Write, Leave, proxy, local
<1>22. ASSUME NEW v \in VMs, HandEdit(v) PROVE CompleteInv'
  <2>1. v \notin cut => \A text \in Edited(list[v]) : Template \subseteq text
    <3> SUFFICES ASSUME v \notin cut, NEW text \in Edited(list[v])
                 PROVE  Template \subseteq text
      OBVIOUS
    <3>1. list[v] \in Lists /\ Template \subseteq list[v]
      BY <1>22 DEF HandEdit
    <3>. QED
      BY <3>1, EditedFacts
  <2>. QED
    BY <1>22, <2>1 DEF HandEdit, Count, Write, proxy, local
<1>23. ASSUME ProxyStops PROVE CompleteInv'
  BY <1>23 DEF ProxyStops, proxy, local
<1>24. ASSUME ProxyBoots PROVE CompleteInv'
  BY <1>24 DEF ProxyBoots, Loaded, proxy, local
<1>25. CASE UNCHANGED vars
  BY <1>25 DEF vars, proxy, local
<1>. QED
  BY <1>1, <1>2, <1>3, <1>4, <1>5, <1>6, <1>7, <1>8, <1>9, <1>10, <1>11, <1>12, <1>13, <1>14, <1>15, <1>16, <1>17, <1>18, <1>19, <1>20, <1>21, <1>22, <1>23, <1>24, <1>25 DEF Next

\* No list lacks the template's entries unless a process was killed changing it,
\* for any number of terminals.
THEOREM ListsStayComplete == Spec => []ListComplete
<1>1. Init => CompleteInv
  BY DEF Init, CompleteInv, ListComplete, HeldComplete, NoTexts, Syncing
<1>2. TypeOK /\ CompleteInv /\ [Next]_vars => CompleteInv'
  BY CompleteStep
<1>3. CompleteInv => ListComplete
  BY DEF CompleteInv
<1>. QED
  BY <1>1, <1>2, <1>3, AllowTypeCorrect, PTL DEF Spec

----------------------------------------------------------------------------
(* One command at a time.                                                  *)

\* What the command read is still what the file says when it is written, and
\* what its Sync read until squid has loaded it.
ReadHolds ==
  \A t \in Terminals :
    /\ pc[t] = "append" => list[target[t]] = original[t]
    /\ pc[t] \in {"compare", "push", "parse", "reload"} => want[t] = list

\* What the proxy VM's files hold at each step of a Sync.
DiskHolds ==
  \A t \in Terminals :
    /\ pc[t] = "push" => \A v \in VMs \ todo[t] : disk[v] = want[t][v]
    /\ pc[t] \in {"parse", "reload"} => disk = want[t]
    /\ pc[t] = "rollback" => \A v \in VMs \ todo[t] : disk[v] = prev[t][v]
    /\ pc[t] \in {"rename", "restore"} => disk = prev[t]

\* Unless a Sync was cut short, squid has loaded the files as they are, or while
\* they are being changed, as they were.
SquidHolds ==
  trusted =>
    /\ served # Down
    /\ (\A t \in Terminals : ~Pushing(t)) => served = disk
    /\ \A t \in Terminals : Pushing(t) => served = prev[t]

\* A list reported as reloaded is in the proxy VM's file, and would be put back.
ToldHolds ==
  \A v \in told :
    /\ disk[v] = list[v]
    /\ \A t \in Terminals : Pushing(t) => prev[t][v] = list[v]

ToldInv == ReadHolds /\ DiskHolds /\ SquidHolds /\ ToldHolds

\* With nobody else at work, nothing that was read goes stale before it is used.
LEMMA ToldStep ==
  ASSUME OneTerminal, TypeOK, ToldInv, [Next]_vars
  PROVE  ToldInv'
<1> USE AllowAssumption DEF OneTerminal, TypeOK, Texts, NoTexts, Pushing, ToldInv, ReadHolds, DiskHolds, SquidHolds, ToldHolds
<1>1. ASSUME NEW t \in Terminals, NEW v \in VMs, NEW domains \in Lists \ {{}}, Grant(t, v, domains) PROVE ToldInv'
  BY <1>1 DEF Grant, Count, proxy, local
<1>2. ASSUME NEW t \in Terminals, NEW v \in VMs, Edit(t, v) PROVE ToldInv'
  BY <1>2 DEF Edit, Count, proxy, local
<1>3. ASSUME NEW t \in Terminals, SyncProxy(t) PROVE ToldInv'
  BY <1>3 DEF SyncProxy, GoTo, proxy, local
<1>4. ASSUME NEW t \in Terminals, EnsureList(t) PROVE ToldInv'
  <2>1. CASE list[target[t]] = Absent
    BY <1>4, <2>1 DEF EnsureList, GoTo, proxy, local
  <2>2. CASE ~(list[target[t]] = Absent)
    BY <1>4, <2>2 DEF EnsureList, GoTo, proxy, local
  <2>. QED
    BY <2>1, <2>2
<1>5. ASSUME NEW t \in Terminals, SeedList(t) PROVE ToldInv'
  <2>1. /\ told' = told \ {target[t]} /\ UNCHANGED <<disk, served, trusted, want, prev, todo, target>>
        /\ list' = [list EXCEPT ![target[t]] = Template]
        /\ original' = [original EXCEPT ![t] = Template]
        /\ pc' = [pc EXCEPT ![t] = IF pc[t] = "seedAppend" THEN "append" ELSE "open"]
        /\ pc[t] \in {"seedAppend", "seedEdit"}
    BY <1>5 DEF SeedList, Write, GoTo, proxy
  <2>2. ReadHolds'
    BY <2>1 DEF Syncing
  <2>3. DiskHolds' /\ SquidHolds'
    BY <2>1
  <2>4. ToldHolds'
    <3>1. \A v \in told' : v \in told /\ list'[v] = list[v]
      BY <2>1
    <3>. QED
      BY <2>1, <3>1
  <2>. QED
    BY <2>2, <2>3, <2>4
<1>6. ASSUME NEW t \in Terminals, AppendDomains(t) PROVE ToldInv'
  <2>1. CASE buffer[t] \subseteq original[t]
    BY <1>6, <2>1 DEF AppendDomains, Leave, Write, GoTo, proxy, local
  <2>2. CASE ~(buffer[t] \subseteq original[t])
    BY <1>6, <2>2 DEF AppendDomains, Leave, Write, GoTo, proxy, local
  <2>. QED
    BY <2>1, <2>2
<1>7. ASSUME NEW t \in Terminals, OpenEditor(t) PROVE ToldInv'
  BY <1>7 DEF OpenEditor, GoTo, proxy, local
<1>8. ASSUME NEW t \in Terminals, CloseEditor(t) PROVE ToldInv'
  BY <1>8 DEF CloseEditor, Write, GoTo, Edited, proxy, local
<1>9. ASSUME NEW t \in Terminals, ReadBack(t) PROVE ToldInv'
  <2>1. CASE list[target[t]] = original[t]
    BY <1>9, <2>1 DEF ReadBack, Leave, GoTo, proxy, local
  <2>2. CASE ~(list[target[t]] = original[t])
    BY <1>9, <2>2 DEF ReadBack, Leave, GoTo, proxy, local
  <2>. QED
    BY <2>1, <2>2
<1>10. ASSUME NEW t \in Terminals, CheckProxy(t) PROVE ToldInv'
  <2>1. CASE up
    BY <1>10, <2>1 DEF CheckProxy, Leave, GoTo, proxy, local
  <2>2. CASE ~(up)
    BY <1>10, <2>2 DEF CheckProxy, Leave, GoTo, proxy, local
  <2>. QED
    BY <2>1, <2>2
<1>11. ASSUME NEW t \in Terminals, SyncRead(t) PROVE ToldInv'
  BY <1>11 DEF SyncRead, GoTo, Seeded, proxy, local
<1>12. ASSUME NEW t \in Terminals, Compare(t) PROVE ToldInv'
  <2>1. CASE disk = want[t]
    BY <1>12, <2>1 DEF Compare, Tell, Leave, GoTo, proxy, local
  <2>2. CASE ~(disk = want[t])
    BY <1>12, <2>2 DEF Compare, Tell, Leave, GoTo, proxy, local
  <2>. QED
    BY <2>1, <2>2
<1>13. ASSUME NEW t \in Terminals, Push(t) PROVE ToldInv'
  BY <1>13 DEF Push, GoTo, proxy, local
<1>14. ASSUME NEW t \in Terminals, Parsed(t) PROVE ToldInv'
  BY <1>14 DEF Parsed, GoTo, proxy, local
<1>15. ASSUME NEW t \in Terminals, ParseRefused(t) PROVE ToldInv'
  BY <1>15 DEF ParseRefused, GoTo, proxy, local
<1>16. ASSUME NEW t \in Terminals, Reload(t) PROVE ToldInv'
  <2>1. /\ pc[t] = "reload" /\ want[t] = list /\ disk = list
        /\ pc' = [pc EXCEPT ![t] = "idle"] /\ UNCHANGED <<list, disk>>
    BY <1>16 DEF Reload, Leave
  <2>2. ReadHolds' /\ DiskHolds'
    BY <2>1
  <2>5. ToldHolds'
    BY <2>1
  <2>3. CASE served' = Down
    <3>1. ~trusted'
      BY <1>16, <2>3 DEF Reload
    <3>. QED
      BY <2>2, <2>5, <3>1
  <2>4. CASE served' # Down
    <3>1. served' = disk'
      BY <1>16, <2>1, <2>4 DEF Reload, Loaded
    <3>2. SquidHolds'
      BY <2>1, <2>4, <3>1
    <3>. QED
      BY <2>2, <3>2, <2>5
  <2>. QED
    BY <2>3, <2>4, <2>5
<1>17. ASSUME NEW t \in Terminals, RollBack(t) PROVE ToldInv'
  <2>1. PICK v \in todo[t] :
          /\ disk' = [disk EXCEPT ![v] = prev[t][v]]
          /\ IF todo[t] # {v}
             THEN /\ todo' = [todo EXCEPT ![t] = @ \ {v}]
                  /\ UNCHANGED <<pc, target, original, buffer, want, prev>>
             ELSE IF target[t] = NoVM
             THEN Leave(t)
             ELSE /\ todo' = [todo EXCEPT ![t] = {}]
                  /\ GoTo(t, "rename")
                  /\ UNCHANGED <<original, buffer, want, prev>>
    BY <1>17 DEF RollBack
  <2>2. UNCHANGED <<list, changes, up, served, told, cut, trusted>> /\ pc[t] = "rollback"
    BY <1>17 DEF RollBack
  <2>3. CASE todo[t] # {v}
    BY <2>1, <2>2, <2>3
  <2>4. CASE todo[t] = {v} /\ target[t] = NoVM
    BY <2>1, <2>2, <2>4 DEF Leave
  <2>5. CASE todo[t] = {v} /\ target[t] # NoVM
    BY <2>1, <2>2, <2>5 DEF GoTo
  <2>. QED
    BY <2>3, <2>4, <2>5
<1>18. ASSUME NEW t \in Terminals, SetAside(t) PROVE ToldInv'
  BY <1>18 DEF SetAside, Write, GoTo, proxy, local
<1>19. ASSUME NEW t \in Terminals, Restore(t) PROVE ToldInv'
  BY <1>19 DEF Restore, Write, Leave, proxy, local
<1>20. ASSUME NEW t \in Terminals, Abandon(t) PROVE ToldInv'
  <2>1. /\ pc' = [pc EXCEPT ![t] = "idle"] /\ UNCHANGED <<list, up, disk, served, told>>
        /\ trusted' = (trusted /\ ~Pushing(t))
    BY <1>20 DEF Abandon, Leave, proxy
  <2>2. ReadHolds' /\ DiskHolds'
    BY <2>1
  <2>3. SquidHolds' /\ ToldHolds'
    <3>1. CASE Pushing(t)
      BY <2>1, <3>1
    <3>2. CASE ~Pushing(t)
      BY <2>1, <3>2
    <3>. QED
      BY <3>1, <3>2
  <2>. QED
    BY <2>2, <2>3
<1>21. ASSUME NEW t \in Terminals, Truncate(t) PROVE ToldInv'
  BY <1>21 DEF Truncate, Write, Leave, proxy, local
<1>22. ASSUME NEW v \in VMs, HandEdit(v) PROVE ToldInv'
  BY <1>22 DEF HandEdit, Count, Write, Edited, proxy, local
<1>23. ASSUME ProxyStops PROVE ToldInv'
  BY <1>23 DEF ProxyStops, proxy, local
<1>24. ASSUME ProxyBoots PROVE ToldInv'
  <2>1. /\ UNCHANGED <<list, disk, pc, target, local, told>> /\ served' = Loaded
        /\ trusted' = (Loaded # Down /\ \A t \in Terminals : ~Pushing(t))
    BY <1>24 DEF ProxyBoots
  <2>2. ReadHolds' /\ DiskHolds' /\ ToldHolds'
    BY <2>1 DEF local
  <2>3. CASE ~trusted'
    BY <2>2, <2>3
  <2>4. CASE trusted'
    <3>1. served' = disk /\ Loaded # Down /\ \A t \in Terminals : ~Pushing(t)
      BY <2>1, <2>4 DEF Loaded
    <3>2. SquidHolds'
      BY <2>1, <3>1
    <3>. QED
      BY <2>2, <3>2
  <2>. QED
    BY <2>3, <2>4
<1>25. CASE UNCHANGED vars
  BY <1>25 DEF vars, proxy, local
<1>. QED
  BY <1>1, <1>2, <1>3, <1>4, <1>5, <1>6, <1>7, <1>8, <1>9, <1>10, <1>11, <1>12, <1>13, <1>14, <1>15, <1>16, <1>17, <1>18, <1>19, <1>20, <1>21, <1>22, <1>23, <1>24, <1>25 DEF Next

\* ToldInv is an invariant when one command runs at a time.
LEMMA ToldInvariant == OneTerminal => (Spec => []ToldInv)
<1> SUFFICES ASSUME OneTerminal PROVE Spec => []ToldInv
  OBVIOUS
<1>1. Init => ToldInv
  BY AllowAssumption DEF Init, ToldInv, ReadHolds, DiskHolds, SquidHolds, Pushing, ToldHolds, NoTexts
<1>2. TypeOK /\ ToldInv /\ [Next]_vars => ToldInv'
  BY ToldStep
<1>. QED
  BY <1>1, <1>2, AllowTypeCorrect, PTL DEF Spec

\* A list reported as reloaded is what squid applies until it changes again,
\* unless a Sync was cut short since squid last loaded its files.
THEOREM ReportIsServed == OneTerminal => (Spec => []ReportedServed)
<1>1. ToldInv => ReportedServed
  <2> SUFFICES ASSUME ToldInv, trusted, NEW v \in told PROVE served[v] = list[v]
    BY DEF ReportedServed
  <2>1. CASE \A t \in Terminals : ~Pushing(t)
    BY <2>1 DEF ToldInv, SquidHolds, ToldHolds
  <2>2. CASE \E t \in Terminals : Pushing(t)
    BY <2>2 DEF ToldInv, SquidHolds, ToldHolds
  <2>. QED
    BY <2>1, <2>2
<1>. QED
  BY <1>1, ToldInvariant, PTL

\* Appending keeps every entry the list has.
THEOREM AppendKeepsEntries == OneTerminal => (Spec => AppendKeeps)
<1> SUFFICES ASSUME OneTerminal PROVE Spec => AppendKeeps
  OBVIOUS
<1> DEFINE Kept ==
      \A t \in Terminals :
        pc[t] = "append" /\ pc'[t] = "check" /\ list[target[t]] # Absent =>
          list[target[t]] \subseteq list'[target[t]]
<1>1. TypeOK /\ ToldInv /\ [Next]_vars => Kept
  <2> SUFFICES ASSUME TypeOK, ToldInv, [Next]_vars, NEW s \in Terminals,
                      pc[s] = "append", pc'[s] = "check"
               PROVE  list[target[s]] \subseteq list'[target[s]]
    OBVIOUS
  <2> USE DEF OneTerminal, TypeOK, Texts, Steps, ToldInv, ReadHolds
  <2>1. ASSUME NEW t \in Terminals, NEW v \in VMs, NEW domains \in Lists \ {{}}, Grant(t, v, domains) PROVE list[target[s]] \subseteq list'[target[s]]
    BY <2>1 DEF Grant, Count, proxy, local
  <2>2. ASSUME NEW t \in Terminals, NEW v \in VMs, Edit(t, v) PROVE list[target[s]] \subseteq list'[target[s]]
    BY <2>2 DEF Edit, Count, proxy, local
  <2>3. ASSUME NEW t \in Terminals, SyncProxy(t) PROVE list[target[s]] \subseteq list'[target[s]]
    BY <2>3 DEF SyncProxy, GoTo, proxy, local
  <2>4. ASSUME NEW t \in Terminals, EnsureList(t) PROVE list[target[s]] \subseteq list'[target[s]]
    BY <2>4 DEF EnsureList, GoTo, proxy, local
  <2>5. ASSUME NEW t \in Terminals, SeedList(t) PROVE list[target[s]] \subseteq list'[target[s]]
    BY <2>5 DEF SeedList, Write, GoTo, proxy, local
  <2>6. ASSUME NEW t \in Terminals, AppendDomains(t) PROVE list[target[s]] \subseteq list'[target[s]]
    BY <2>6 DEF AppendDomains, Leave, Write, GoTo, proxy, local
  <2>7. ASSUME NEW t \in Terminals, OpenEditor(t) PROVE list[target[s]] \subseteq list'[target[s]]
    BY <2>7 DEF OpenEditor, GoTo, proxy, local
  <2>8. ASSUME NEW t \in Terminals, CloseEditor(t) PROVE list[target[s]] \subseteq list'[target[s]]
    BY <2>8 DEF CloseEditor, Write, GoTo, Edited, proxy, local
  <2>9. ASSUME NEW t \in Terminals, ReadBack(t) PROVE list[target[s]] \subseteq list'[target[s]]
    BY <2>9 DEF ReadBack, Leave, GoTo, proxy, local
  <2>10. ASSUME NEW t \in Terminals, CheckProxy(t) PROVE list[target[s]] \subseteq list'[target[s]]
    BY <2>10 DEF CheckProxy, GoTo, Leave, proxy, local
  <2>11. ASSUME NEW t \in Terminals, SyncRead(t) PROVE list[target[s]] \subseteq list'[target[s]]
    BY <2>11 DEF SyncRead, GoTo, Seeded, proxy, local
  <2>12. ASSUME NEW t \in Terminals, Compare(t) PROVE list[target[s]] \subseteq list'[target[s]]
    BY <2>12 DEF Compare, Tell, GoTo, Leave, proxy, local
  <2>13. ASSUME NEW t \in Terminals, Push(t) PROVE list[target[s]] \subseteq list'[target[s]]
    BY <2>13 DEF Push, GoTo, proxy, local
  <2>14. ASSUME NEW t \in Terminals, Parsed(t) PROVE list[target[s]] \subseteq list'[target[s]]
    BY <2>14 DEF Parsed, GoTo, proxy, local
  <2>15. ASSUME NEW t \in Terminals, ParseRefused(t) PROVE list[target[s]] \subseteq list'[target[s]]
    BY <2>15 DEF ParseRefused, GoTo, proxy, local
  <2>16. ASSUME NEW t \in Terminals, Reload(t) PROVE list[target[s]] \subseteq list'[target[s]]
    BY <2>16 DEF Reload, Loaded, Tell, Leave, proxy, local
  <2>17. ASSUME NEW t \in Terminals, RollBack(t) PROVE list[target[s]] \subseteq list'[target[s]]
    BY <2>17 DEF RollBack, GoTo, Leave, proxy, local
  <2>18. ASSUME NEW t \in Terminals, SetAside(t) PROVE list[target[s]] \subseteq list'[target[s]]
    BY <2>18 DEF SetAside, Write, GoTo, proxy, local
  <2>19. ASSUME NEW t \in Terminals, Restore(t) PROVE list[target[s]] \subseteq list'[target[s]]
    BY <2>19 DEF Restore, Write, Leave, proxy, local
  <2>20. ASSUME NEW t \in Terminals, Abandon(t) PROVE list[target[s]] \subseteq list'[target[s]]
    BY <2>20 DEF Abandon, Leave, proxy, local
  <2>21. ASSUME NEW t \in Terminals, Truncate(t) PROVE list[target[s]] \subseteq list'[target[s]]
    BY <2>21 DEF Truncate, Write, Leave, proxy, local
  <2>22. ASSUME NEW v \in VMs, HandEdit(v) PROVE list[target[s]] \subseteq list'[target[s]]
    BY <2>22 DEF HandEdit, Count, Write, Edited, proxy, local
  <2>23. ASSUME ProxyStops PROVE list[target[s]] \subseteq list'[target[s]]
    BY <2>23 DEF ProxyStops, proxy, local
  <2>24. ASSUME ProxyBoots PROVE list[target[s]] \subseteq list'[target[s]]
    BY <2>24 DEF ProxyBoots, Loaded, proxy, local
  <2>25. CASE UNCHANGED vars
    BY <2>25 DEF vars, proxy, local
  <2>. QED
    BY <2>1, <2>2, <2>3, <2>4, <2>5, <2>6, <2>7, <2>8, <2>9, <2>10, <2>11, <2>12, <2>13, <2>14, <2>15, <2>16, <2>17, <2>18, <2>19, <2>20, <2>21, <2>22, <2>23, <2>24, <2>25 DEF Next
<1>. QED
  BY <1>1, AllowTypeCorrect, ToldInvariant, PTL DEF Spec, AppendKeeps

----------------------------------------------------------------------------
(* Refusals.                                                               *)

\* After a refusal that was not cut short the list, the proxy VM's file and what
\* squid applies are what they were, and so agree where they did.
THEOREM RefusalIsUndone == OneTerminal => (Spec => RefusalUndone)
<1> SUFFICES ASSUME OneTerminal PROVE Spec => RefusalUndone
  OBVIOUS
<1> DEFINE Undone ==
      \A t \in Terminals :
        LET v == target[t]
        IN  pc[t] = "restore" /\ pc'[t] = "idle" /\ v \notin cut' /\ prev[t][v] = original[t] =>
              /\ disk'[v] = list'[v]
              /\ trusted' => served'[v] = list'[v]
<1>1. TypeOK /\ ToldInv /\ ToldInv' /\ [Next]_vars => Undone
  <2> DEFINE Agree(s) ==
        /\ disk'[target[s]] = list'[target[s]]
        /\ trusted' => served'[target[s]] = list'[target[s]]
  <2> SUFFICES ASSUME TypeOK, ToldInv, ToldInv', [Next]_vars, NEW s \in Terminals,
                      pc[s] = "restore", pc'[s] = "idle", target[s] \notin cut',
                      prev[s][target[s]] = original[s]
               PROVE  Agree(s)
    OBVIOUS
  <2> USE DEF OneTerminal, TypeOK, Texts, Steps, ToldInv, DiskHolds, SquidHolds, Pushing
  <2>1. ASSUME NEW t \in Terminals, NEW v \in VMs, NEW domains \in Lists \ {{}}, Grant(t, v, domains) PROVE Agree(s)
    BY <2>1 DEF Grant, Count, proxy, local
  <2>2. ASSUME NEW t \in Terminals, NEW v \in VMs, Edit(t, v) PROVE Agree(s)
    BY <2>2 DEF Edit, Count, proxy, local
  <2>3. ASSUME NEW t \in Terminals, SyncProxy(t) PROVE Agree(s)
    BY <2>3 DEF SyncProxy, GoTo, proxy, local
  <2>4. ASSUME NEW t \in Terminals, EnsureList(t) PROVE Agree(s)
    BY <2>4 DEF EnsureList, GoTo, proxy, local
  <2>5. ASSUME NEW t \in Terminals, SeedList(t) PROVE Agree(s)
    BY <2>5 DEF SeedList, Write, GoTo, proxy, local
  <2>6. ASSUME NEW t \in Terminals, AppendDomains(t) PROVE Agree(s)
    BY <2>6 DEF AppendDomains, Leave, Write, GoTo, proxy, local
  <2>7. ASSUME NEW t \in Terminals, OpenEditor(t) PROVE Agree(s)
    BY <2>7 DEF OpenEditor, GoTo, proxy, local
  <2>8. ASSUME NEW t \in Terminals, CloseEditor(t) PROVE Agree(s)
    BY <2>8 DEF CloseEditor, Write, GoTo, proxy, local
  <2>9. ASSUME NEW t \in Terminals, ReadBack(t) PROVE Agree(s)
    BY <2>9 DEF ReadBack, Leave, GoTo, proxy, local
  <2>10. ASSUME NEW t \in Terminals, CheckProxy(t) PROVE Agree(s)
    BY <2>10 DEF CheckProxy, GoTo, Leave, proxy, local
  <2>11. ASSUME NEW t \in Terminals, SyncRead(t) PROVE Agree(s)
    BY <2>11 DEF SyncRead, GoTo, Seeded, proxy, local
  <2>12. ASSUME NEW t \in Terminals, Compare(t) PROVE Agree(s)
    BY <2>12 DEF Compare, Tell, GoTo, Leave, proxy, local
  <2>13. ASSUME NEW t \in Terminals, Push(t) PROVE Agree(s)
    BY <2>13 DEF Push, GoTo, proxy, local
  <2>14. ASSUME NEW t \in Terminals, Parsed(t) PROVE Agree(s)
    BY <2>14 DEF Parsed, GoTo, proxy, local
  <2>15. ASSUME NEW t \in Terminals, ParseRefused(t) PROVE Agree(s)
    BY <2>15 DEF ParseRefused, GoTo, proxy, local
  <2>16. ASSUME NEW t \in Terminals, Reload(t) PROVE Agree(s)
    BY <2>16 DEF Reload, Loaded, Tell, Leave, proxy, local
  <2>17. ASSUME NEW t \in Terminals, RollBack(t) PROVE Agree(s)
    BY <2>17 DEF RollBack, GoTo, Leave, proxy, local
  <2>18. ASSUME NEW t \in Terminals, SetAside(t) PROVE Agree(s)
    BY <2>18 DEF SetAside, Write, GoTo, proxy, local
  <2>19. ASSUME NEW t \in Terminals, Restore(t) PROVE Agree(s)
    <3>1. s = t /\ list' = [list EXCEPT ![target[s]] = original[s]] /\ UNCHANGED <<disk, served, trusted>>
      BY <2>19 DEF Restore, Write, proxy
    <3>2. list'[target[s]] = original[s] /\ disk'[target[s]] = original[s]
      BY <3>1 DEF Syncing
    <3>3. trusted => served = disk
      BY <3>1
    <3>. QED
      BY <3>1, <3>2, <3>3
  <2>20. ASSUME NEW t \in Terminals, Abandon(t) PROVE Agree(s)
    BY <2>20 DEF Abandon, Leave, proxy, local
  <2>21. ASSUME NEW t \in Terminals, Truncate(t) PROVE Agree(s)
    BY <2>21 DEF Truncate, Write, Leave, proxy, local
  <2>22. ASSUME NEW v \in VMs, HandEdit(v) PROVE Agree(s)
    BY <2>22 DEF HandEdit, Count, Write, proxy, local
  <2>23. ASSUME ProxyStops PROVE Agree(s)
    BY <2>23 DEF ProxyStops, proxy, local
  <2>24. ASSUME ProxyBoots PROVE Agree(s)
    BY <2>24 DEF ProxyBoots, Loaded, proxy, local
  <2>25. CASE UNCHANGED vars
    BY <2>25 DEF vars, proxy, local
  <2>. QED
    BY <2>1, <2>2, <2>3, <2>4, <2>5, <2>6, <2>7, <2>8, <2>9, <2>10, <2>11, <2>12, <2>13, <2>14, <2>15, <2>16, <2>17, <2>18, <2>19, <2>20, <2>21, <2>22, <2>23, <2>24, <2>25 DEF Next
<1>. QED
  BY <1>1, AllowTypeCorrect, ToldInvariant, PTL DEF Spec, RefusalUndone

----------------------------------------------------------------------------
(* The groups of a list (AllowGroups).                                     *)

\* Induction on the numbers, as a fact about a set: one that holds 0 and the
\* successor of each of its members holds them all.
LEMMA Counting ==
  ASSUME NEW S, 0 \in S, \A n \in Nat : n \in S => n + 1 \in S
  PROVE  Nat \subseteq S
<1> DEFINE T == Nat \ S
           R == {ss \in Nat \X Nat : ss[1] < ss[2]}
<1> SUFFICES ASSUME T # {} PROVE FALSE
  OBVIOUS
<1>1. IsWellFoundedOn(R, Nat)
  BY NatLessThanWellFounded DEF OpToRel
<1>2. T \subseteq Nat
  OBVIOUS
<1> HIDE DEF T, R
<1>3. PICK x \in T : \A y \in T : ~ (<<y, x>> \in R)
  BY <1>1, <1>2, WFMin
<1>4. \A y \in T : ~(y < x)
  BY <1>2, <1>3 DEF R
<1> USE DEF T
<1>5. x # 0 /\ x - 1 \in Nat
  BY <1>2
<1>6. x - 1 \in S
  BY <1>4, <1>5, <1>2
<1>. QED
  BY <1>5, <1>6, <1>2

\* The least of a set of natural numbers.
LEMMA LeastIs ==
  ASSUME NEW T, T \subseteq Nat, T # {} PROVE Min(T) \in T /\ \A y \in T : Min(T) <= y
<1> DEFINE R == {ss \in Nat \X Nat : ss[1] < ss[2]}
<1>1. IsWellFoundedOn(R, Nat)
  BY NatLessThanWellFounded DEF OpToRel
<1> HIDE DEF R
<1>2. PICK x \in T : \A y \in T : ~ (<<y, x>> \in R)
  BY <1>1, WFMin
<1>3. \A y \in T : ~(y < x)
  BY <1>2 DEF R
<1>4. x \in T /\ \A y \in T : x <= y
  BY <1>2, <1>3
<1>. QED
  BY <1>4 DEF Min

\* Functions on what is built up one step after another.
StepsOver(V, n) == [1 .. n -> [V -> V]]
Stepwise(f, V, base, step, n) ==
  f \in [0 .. n -> V] /\ f[0] = base /\ \A i \in 1 .. n : f[i] = step[i][f[i - 1]]

\* Whatever the steps, something is built up by them.
LEMMA StepByStep ==
  ASSUME NEW V, NEW base \in V, NEW n \in Nat, NEW step \in StepsOver(V, n)
  PROVE  \E f : Stepwise(f, V, base, step, n)
<1> USE DEF StepsOver, Stepwise
<1> DEFINE Upto(f, k) == f[0] = base /\ \A i \in 1 .. k : f[i] = step[i][f[i - 1]]
           S == {k \in Nat : k <= n => \E f \in [0 .. k -> V] : Upto(f, k)}
<1>1. 0 \in S
  <2> DEFINE f == [i \in 0 .. 0 |-> base]
  <2>1. f \in [0 .. 0 -> V] /\ Upto(f, 0)
    OBVIOUS
  <2>. QED
    BY <2>1
<1>2. ASSUME NEW k \in Nat, k \in S PROVE k + 1 \in S
  <2> SUFFICES ASSUME k + 1 <= n PROVE \E f \in [0 .. k + 1 -> V] : Upto(f, k + 1)
    OBVIOUS
  <2>1. PICK f \in [0 .. k -> V] : Upto(f, k)
    BY <1>2
  <2> DEFINE h == [i \in 0 .. k + 1 |-> IF i = k + 1 THEN step[k + 1][f[k]] ELSE f[i]]
  <2>2. f[k] \in V /\ k + 1 \in 1 .. n
    OBVIOUS
  <2>3. step[k + 1][f[k]] \in V
    BY <2>2
  <2>4. \A i \in 0 .. k : h[i] = f[i]
    OBVIOUS
  <2>5. h[k + 1] = step[k + 1][f[k]] /\ (k + 1) - 1 = k
    OBVIOUS
  <2>6. h \in [0 .. k + 1 -> V]
    BY <2>3
  <2>7. ASSUME NEW i \in 1 .. k + 1 PROVE h[i] = step[i][h[i - 1]]
    <3>1. CASE i = k + 1
      <4>1. h[i - 1] = f[k]
        BY <2>4, <3>1
      <4> HIDE DEF h
      <4>. QED
        BY <2>5, <3>1, <4>1
    <3>2. CASE i \in 1 .. k
      <4>1. h[i] = f[i] /\ h[i - 1] = f[i - 1]
        BY <2>4, <3>2
      <4> HIDE DEF h
      <4>. QED
        BY <2>1, <3>2, <4>1
    <3>. QED
      BY <3>1, <3>2
  <2>8. h[0] = base
    BY <2>1, <2>4
  <2> HIDE DEF h
  <2>. QED
    BY <2>6, <2>7, <2>8
<1>3. n \in S
  <2> HIDE DEF S
  <2>. QED
    BY <1>1, <1>2, Counting
<1>. QED
  BY <1>3

----------------------------------------------------------------------------
\* The lines of a group: no markers.
Body == {x \in Line : ~IsMarker(x)}
Proper(g) == g.label \in Labels /\ g.lines \in Seq(Body)

\* What a line of each kind is.
LEMMA LineOf ==
  ASSUME NEW x \in Line
  PROVE  /\ Is(x, "requires") => x.arg \in Labels /\ x = Requires(x.arg)
         /\ Is(x, "end") => x = End
         /\ Is(x, "entry") => x.arg \in Entries /\ x = Entry(x.arg)
         /\ x \notin Body => Is(x, "requires") \/ Is(x, "end")
<1>1. \/ x.arg \in Labels /\ x = Requires(x.arg) /\ x.kind = "requires"
      \/ x.arg \in Labels /\ x = Note(x.arg) /\ x.kind = "note"
      \/ x.arg \in Entries /\ x = Entry(x.arg) /\ x.kind = "entry"
      \/ x = End /\ x.kind = "end"
      \/ x = Text /\ x.kind = "text"
  <2>1. CASE \E l \in Labels : x = [kind |-> "requires", arg |-> l]
    BY <2>1 DEF Requires
  <2>2. CASE \E l \in Labels : x = [kind |-> "note", arg |-> l]
    BY <2>2 DEF Note
  <2>3. CASE \E d \in Entries : x = [kind |-> "entry", arg |-> d]
    BY <2>3 DEF Entry
  <2>4. CASE \E k \in {"end", "text"} : x = [kind |-> k, arg |-> None]
    BY <2>4 DEF End, Text
  <2>. QED
    BY <2>1, <2>2, <2>3, <2>4 DEF Line
<1>. QED
  BY <1>1 DEF Is, IsMarker, Body

\* Notes, entries and text are body lines; no body line is a marker.
LEMMA LineKinds ==
  /\ \A l \in Labels : Requires(l) \in Line /\ Note(l) \in Body
  /\ \A d \in Entries : Entry(d) \in Body
  /\ Text \in Body /\ End \in Line /\ Body \subseteq Line
  /\ \A x \in Body : ~IsMarker(x)
<1>1. /\ \A l \in Labels : Requires(l) \in Line /\ Note(l) \in Line
      /\ \A d \in Entries : Entry(d) \in Line
      /\ Text \in Line /\ End \in Line
  BY DEF Line, Requires, Note, Entry, Text, End
<1>2. /\ \A l : ~IsMarker(Note(l))
      /\ \A d : ~IsMarker(Entry(d))
      /\ ~IsMarker(Text)
  BY DEF IsMarker, Note, Entry, Text
<1>. QED
  BY <1>1, <1>2 DEF Body

\* The two markers, told apart.
LEMMA Markers ==
  /\ \A l : IsMarker(Requires(l)) /\ Requires(l) # End /\ Is(Requires(l), "requires") /\ Requires(l).arg = l
  /\ IsMarker(End) /\ Is(End, "end") /\ ~Is(End, "requires")
BY DEF IsMarker, Is, Requires, End

\* The first line with a label's marker.
LEMMA StartIs ==
  ASSUME NEW lines, Len(lines) \in Nat, NEW l
  PROVE  /\ Start(lines, l) = 0 => \A i \in 1 .. Len(lines) : lines[i] # Requires(l)
         /\ Start(lines, l) # 0 => /\ Start(lines, l) \in 1 .. Len(lines)
                                   /\ lines[Start(lines, l)] = Requires(l)
                                   /\ \A i \in 1 .. Len(lines) : lines[i] = Requires(l) => Start(lines, l) <= i
<1> DEFINE I == {i \in 1 .. Len(lines) : lines[i] = Requires(l)}
<1>1. Start(lines, l) = IF I # {} THEN Min(I) ELSE 0
  BY DEF Start, SelectInSeq
<1>2. I \subseteq Nat /\ \A i : i \in I <=> i \in 1 .. Len(lines) /\ lines[i] = Requires(l)
  OBVIOUS
<1> HIDE DEF I
<1>3. CASE I # {}
  <2>1. Min(I) \in I /\ \A y \in I : Min(I) <= y
    BY <1>2, <1>3, LeastIs
  <2>. QED
    BY <1>1, <1>2, <1>3, <2>1
<1>4. CASE I = {}
  BY <1>1, <1>2, <1>4
<1>. QED
  BY <1>3, <1>4

\* A label's marker with none above it is where its group starts.
LEMMA StartIf ==
  ASSUME NEW lines, Len(lines) \in Nat, NEW l, NEW s \in 1 .. Len(lines), lines[s] = Requires(l),
         \A i \in 1 .. s - 1 : lines[i] # Requires(l)
  PROVE  Start(lines, l) = s
<1>1. Start(lines, l) # 0 /\ Start(lines, l) \in 1 .. Len(lines) /\ Start(lines, l) <= s
      /\ lines[Start(lines, l)] = Requires(l)
  BY StartIs
<1>. QED
  BY <1>1

\* The next line with a marker.
LEMMA NextIs ==
  ASSUME NEW lines, Len(lines) \in Nat, NEW i \in Nat
  PROVE  /\ NextMarker(lines, i) = 0 => \A j \in i + 1 .. Len(lines) : ~IsMarker(lines[j])
         /\ NextMarker(lines, i) # 0 => /\ NextMarker(lines, i) \in i + 1 .. Len(lines)
                                        /\ IsMarker(lines[NextMarker(lines, i)])
                                        /\ \A j \in i + 1 .. NextMarker(lines, i) - 1 : ~IsMarker(lines[j])
<1> DEFINE I == {j \in i + 1 .. Len(lines) : IsMarker(lines[j])}
<1>1. NextMarker(lines, i) = IF I # {} THEN Min(I) ELSE 0
  BY DEF NextMarker, SelectInSubSeq
<1>2. I \subseteq Nat /\ \A j : j \in I <=> j \in i + 1 .. Len(lines) /\ IsMarker(lines[j])
  OBVIOUS
<1> HIDE DEF I
<1>3. CASE I # {}
  <2>1. Min(I) \in I /\ \A y \in I : Min(I) <= y
    BY <1>2, <1>3, LeastIs
  <2>2. Min(I) \in i + 1 .. Len(lines) /\ IsMarker(lines[Min(I)])
    BY <1>2, <2>1
  <2>3. ASSUME NEW j \in i + 1 .. Min(I) - 1 PROVE ~IsMarker(lines[j])
    <3>1. j \in i + 1 .. Len(lines) /\ ~(Min(I) <= j)
      BY <2>2
    <3>. QED
      BY <1>2, <2>1, <3>1
  <2>. QED
    BY <1>1, <1>3, <2>2, <2>3
<1>4. CASE I = {}
  BY <1>1, <1>2, <1>4
<1>. QED
  BY <1>3, <1>4

\* A marker with none between is the next one.
LEMMA NextIf ==
  ASSUME NEW lines, Len(lines) \in Nat, NEW i \in Nat, NEW j \in i + 1 .. Len(lines), IsMarker(lines[j]),
         \A k \in i + 1 .. j - 1 : ~IsMarker(lines[k])
  PROVE  NextMarker(lines, i) = j
<1> DEFINE n == NextMarker(lines, i)
<1>1. n # 0 /\ n \in i + 1 .. Len(lines) /\ IsMarker(lines[n]) /\ \A k \in i + 1 .. n - 1 : ~IsMarker(lines[k])
  BY NextIs
<1> HIDE DEF n
<1>2. ~(n < j) /\ ~(j < n)
  BY <1>1
<1>. QED
  BY <1>1, <1>2 DEF n

\* Without a marker below there is no next one.
LEMMA NextNone ==
  ASSUME NEW lines, Len(lines) \in Nat, NEW i \in Nat, \A k \in i + 1 .. Len(lines) : ~IsMarker(lines[k])
  PROVE  NextMarker(lines, i) = 0
BY NextIs

\* A closed group: its marker, its @end, and no marker between.
LEMMA ClosedIs ==
  ASSUME NEW lines \in Seq(Line), NEW l
  PROVE  /\ Closed(lines, l) =>
              LET s == Start(lines, l) f == Finish(lines, l) IN
              /\ s \in 1 .. Len(lines) /\ f \in s + 1 .. Len(lines) /\ lines[s] = Requires(l) /\ lines[f] = End
              /\ \A j \in s + 1 .. f - 1 : lines[j] \in Body
              /\ f = NextMarker(lines, s)
         /\ Closed(lines, l) <=> /\ Start(lines, l) # 0 /\ NextMarker(lines, Start(lines, l)) # 0
                                 /\ lines[NextMarker(lines, Start(lines, l))] = End
<1> DEFINE s == Start(lines, l)
           n == NextMarker(lines, s)
<1>1. Len(lines) \in Nat /\ \A i \in 1 .. Len(lines) : lines[i] \in Line
  OBVIOUS
<1>2. s # 0 => s \in 1 .. Len(lines) /\ lines[s] = Requires(l)
  BY <1>1, StartIs
<1>3. s # 0 /\ n # 0 => n \in s + 1 .. Len(lines) /\ \A j \in s + 1 .. n - 1 : ~IsMarker(lines[j])
  BY <1>1, <1>2, NextIs
<1>4. Finish(lines, l) = IF s # 0 /\ n # 0 /\ Is(lines[n], "end") THEN n ELSE 0
  BY DEF Finish
<1>5. Closed(lines, l) <=> Finish(lines, l) # 0
  BY DEF Closed
<1> HIDE DEF s, n
<1>6. s # 0 /\ n # 0 => (Is(lines[n], "end") <=> lines[n] = End)
  <2>1. Is(End, "end")
    BY DEF Is, End
  <2>. QED
    BY <1>1, <1>2, <1>3, <2>1, LineOf
<1>7. Closed(lines, l) => s # 0 /\ n # 0 /\ lines[n] = End /\ Finish(lines, l) = n
  BY <1>4, <1>5, <1>6
<1>8. s # 0 /\ n # 0 => \A j \in s + 1 .. n - 1 : lines[j] \in Body
  BY <1>1, <1>2, <1>3 DEF Body
<1>9. s # 0 /\ n # 0 /\ lines[n] = End => Closed(lines, l)
  BY <1>2, <1>3, <1>4, <1>5, <1>6
<1>. QED
  BY <1>2, <1>3, <1>7, <1>8, <1>9 DEF s, n

\* TakenUpTo as a recurrence.
Taking(f, lines, places) ==
  /\ f[0] = <<>>
  /\ \A i \in 1 .. Len(lines) : f[i] = IF i \in places THEN Append(f[i - 1], lines[i]) ELSE f[i - 1]

\* It is computed from the first line on.
LEMMA TakenIs ==
  ASSUME NEW S, NEW lines \in Seq(S), NEW places
  PROVE  /\ Taking(TakenUpTo(lines, places), lines, places)
         /\ \A i \in 0 .. Len(lines) : TakenUpTo(lines, places)[i] \in Seq(S)
<1> DEFINE n == Len(lines)
           V == Seq(S)
           Rests(f) == f = [i \in 0 .. n |-> IF i = 0 THEN <<>>
                                             ELSE IF i \in places THEN Append(f[i - 1], lines[i]) ELSE f[i - 1]]
           rest == CHOOSE f : Rests(f)
           step == [i \in 1 .. n |-> [v \in V |-> IF i \in places THEN Append(v, lines[i]) ELSE v]]
<1>1. n \in Nat /\ \A i \in 1 .. n : lines[i] \in S
  OBVIOUS
<1>2. TakenUpTo(lines, places) = rest
  BY DEF TakenUpTo
<1> HIDE DEF n
<1>3. <<>> \in V /\ \A v \in V, x \in S : Append(v, x) \in V
  OBVIOUS
<1> HIDE DEF V
<1>4. step \in [1 .. n -> [V -> V]]
  BY <1>1, <1>3
<1>4a. \A v \in V, i \in 1 .. n : step[i][v] = IF i \in places THEN Append(v, lines[i]) ELSE v
  OBVIOUS
<1> HIDE DEF step
<1>5. PICK f \in [0 .. n -> V] : f[0] = <<>> /\ \A i \in 1 .. n : f[i] = step[i][f[i - 1]]
  <2> DEFINE base == <<>>
  <2>1. base \in V /\ n \in Nat
    BY <1>1, <1>3
  <2> HIDE DEF base
  <2>2. step \in StepsOver(V, n)
    BY <1>4 DEF StepsOver
  <2>3. \E f : Stepwise(f, V, base, step, n)
    BY <2>1, <2>2, StepByStep
  <2>. QED
    BY <2>3 DEF base, Stepwise
<1>6. \A i \in 1 .. n : i - 1 \in 0 .. n
  BY <1>1
<1>6a. \A i \in 1 .. n : f[i - 1] \in V
  BY <1>5, <1>6
<1>7. \A i \in 1 .. n : f[i] = IF i \in places THEN Append(f[i - 1], lines[i]) ELSE f[i - 1]
  <2> TAKE i \in 1 .. n
  <2>1. f[i] = step[i][f[i - 1]] /\ f[i - 1] \in V
    BY <1>5, <1>6a
  <2>. QED
    BY <1>4a, <2>1
<1>8. Rests(f)
  <2>1. \A i \in 0 .. n : i = 0 \/ i \in 1 .. n
    BY <1>1
  <2>2. \A i \in 1 .. n : i # 0
    BY <1>1
  <2>3. \A i \in 0 .. n : f[i] = IF i = 0 THEN <<>>
                                 ELSE IF i \in places THEN Append(f[i - 1], lines[i]) ELSE f[i - 1]
    BY <1>5, <1>7, <2>1, <2>2
  <2>4. f = [i \in 0 .. n |-> f[i]]
    BY <1>5
  <2>. QED
    BY <2>3, <2>4
<1>9. Rests(rest)
  <2> HIDE DEF Rests
  <2>. QED
    BY <1>8
<1> HIDE DEF rest
<1>10. rest[0] = <<>> /\ \A i \in 1 .. n : rest[i] = IF i \in places THEN Append(rest[i - 1], lines[i]) ELSE rest[i - 1]
  <2>1. 0 \in 0 .. n /\ \A i \in 1 .. n : i \in 0 .. n /\ i # 0
    BY <1>1
  <2>. QED
    BY <1>9, <2>1
<1> HIDE DEF Rests
<1> DEFINE T == {i \in Nat : i <= n => rest[i] \in V}
<1>11. 0 \in T
  BY <1>3, <1>10
<1>12. ASSUME NEW k \in Nat, k \in T PROVE k + 1 \in T
  <2> SUFFICES ASSUME k + 1 <= n PROVE rest[k + 1] \in V
    OBVIOUS
  <2>1. k + 1 \in 1 .. n /\ (k + 1) - 1 = k /\ rest[k] \in V
    BY <1>1, <1>12
  <2>2. rest[k + 1] = IF k + 1 \in places THEN Append(rest[k], lines[k + 1]) ELSE rest[k]
    BY <1>10, <2>1
  <2>. QED
    BY <1>1, <1>3, <2>1, <2>2
<1>13. \A i \in 0 .. n : rest[i] \in V
  <2> HIDE DEF T
  <2>1. Nat \subseteq T
    BY <1>11, <1>12, Counting
  <2> USE DEF T
  <2>2. \A i \in 0 .. n : i \in Nat /\ i <= n
    BY <1>1
  <2>. QED
    BY <2>1, <2>2
<1>. QED
  BY <1>2, <1>10, <1>13 DEF V, n, Taking

----------------------------------------------------------------------------
\* The lines left when some are taken out.
LEMMA WithoutIs ==
  ASSUME NEW S, NEW lines \in Seq(S), NEW gone
  PROVE  LET w == Without(lines, gone) IN
         /\ w \in Seq(S) /\ \A j \in DOMAIN w : w[j] \notin gone
         /\ \A j \in DOMAIN w : \E i \in DOMAIN lines : lines[i] = w[j]
         /\ \A i \in DOMAIN lines : lines[i] \notin gone => \E j \in DOMAIN w : w[j] = lines[i]
         /\ (\A i \in DOMAIN lines : lines[i] \notin gone) => w = lines
<1> DEFINE n == Len(lines)
           places == {i \in DOMAIN lines : lines[i] \notin gone}
           rest == TakenUpTo(lines, places)
<1>1. n \in Nat /\ \A i \in 1 .. n : lines[i] \in S
  OBVIOUS
<1>2. Without(lines, gone) = rest[n]
  BY DEF Without
<1>9. Taking(rest, lines, places)
  BY TakenIs
<1>9a. \A i \in 1 .. n : i \in places <=> lines[i] \notin gone
  OBVIOUS
<1> HIDE DEF rest, places
<1>10. rest[0] = <<>> /\ \A i \in 1 .. n : rest[i] = IF lines[i] \in gone THEN rest[i - 1] ELSE Append(rest[i - 1], lines[i])
  BY <1>9, <1>9a DEF Taking
<1> HIDE DEF n
<1> DEFINE Good(w, k) ==
      /\ w \in Seq(S) /\ \A j \in DOMAIN w : w[j] \notin gone
      /\ \A j \in DOMAIN w : \E i \in 1 .. k : lines[i] = w[j]
      /\ \A i \in 1 .. k : lines[i] \notin gone => \E j \in DOMAIN w : w[j] = lines[i]
      /\ (\A i \in 1 .. k : lines[i] \notin gone) => Len(w) = k /\ \A i \in 1 .. k : w[i] = lines[i]
    T == {k \in Nat : k <= n => Good(rest[k], k)}
<1>11. 0 \in T
  <2>1. Good(<<>>, 0)
    OBVIOUS
  <2>. QED
    BY <1>10, <2>1
<1>12. ASSUME NEW k \in Nat, k \in T PROVE k + 1 \in T
  <2> SUFFICES ASSUME k + 1 <= n PROVE Good(rest[k + 1], k + 1)
    OBVIOUS
  <2> DEFINE v == rest[k]
             x == lines[k + 1]
  <2>1. Good(v, k) /\ k + 1 \in 1 .. n /\ (k + 1) - 1 = k
    BY <1>1, <1>12
  <2>2. rest[k + 1] = IF x \in gone THEN v ELSE Append(v, x)
    BY <1>10, <2>1
  <2>3. x \in S /\ \A i \in 1 .. k + 1 : i \in 1 .. k \/ i = k + 1
    BY <1>1, <2>1
  <2>4. 1 .. k \subseteq 1 .. k + 1 /\ k + 1 \in 1 .. k + 1
    OBVIOUS
  <2>5. CASE x \in gone
    <3>1. rest[k + 1] = v
      BY <2>2, <2>5
    <3>2. Good(v, k + 1)
      <4> HIDE DEF v
      <4>. QED
        BY <2>1, <2>3, <2>4, <2>5
    <3>. QED
      BY <3>1, <3>2
  <2>6. CASE x \notin gone
    <3> DEFINE w == Append(v, x)
    <3>1. rest[k + 1] = w
      BY <2>2, <2>6
    <3>2. /\ w \in Seq(S) /\ Len(w) = Len(v) + 1 /\ Len(v) \in Nat /\ w[Len(v) + 1] = x
          /\ DOMAIN w = 1 .. Len(v) + 1 /\ DOMAIN v = 1 .. Len(v)
          /\ \A j \in 1 .. Len(v) : w[j] = v[j]
      <4> HIDE DEF v, x
      <4>. QED
        BY <2>1, <2>3
    <3> HIDE DEF w
    <3>3. \A j \in DOMAIN w : j \in DOMAIN v \/ j = Len(v) + 1
      BY <3>2
    <3>4. DOMAIN v \subseteq DOMAIN w /\ Len(v) + 1 \in DOMAIN w
      BY <3>2
    <3> HIDE DEF v
    <3>5. \A j \in DOMAIN w : w[j] \notin gone /\ \E i \in 1 .. k + 1 : lines[i] = w[j]
      BY <2>1, <2>4, <2>6, <3>2, <3>3
    <3>6. \A i \in 1 .. k + 1 : lines[i] \notin gone => \E j \in DOMAIN w : w[j] = lines[i]
      BY <2>1, <2>3, <3>2, <3>4
    <3>7. (\A i \in 1 .. k + 1 : lines[i] \notin gone) => Len(w) = k + 1 /\ \A i \in 1 .. k + 1 : w[i] = lines[i]
      BY <2>1, <2>3, <2>4, <3>2
    <3>8. Good(w, k + 1)
      BY <3>2, <3>5, <3>6, <3>7
    <3>. QED
      BY <3>1, <3>8
  <2>. QED
    BY <2>5, <2>6
<1>13. Good(rest[n], n)
  <2> HIDE DEF T
  <2>1. Nat \subseteq T
    BY <1>11, <1>12, Counting
  <2>. QED
    <3>1. n \in T
      BY <1>1, <2>1
    <3>2. n <= n => Good(rest[n], n)
      BY <3>1 DEF T
    <3> HIDE DEF Good
    <3>. QED
      BY <1>1, <3>2
<1>14. DOMAIN lines = 1 .. n
  BY DEF n
<1> DEFINE w == rest[n]
<1>15. (\A i \in 1 .. n : lines[i] \notin gone) => w = lines
  <2> SUFFICES ASSUME \A i \in 1 .. n : lines[i] \notin gone PROVE w = lines
    OBVIOUS
  <2>1. w \in Seq(S) /\ Len(w) = n /\ \A i \in 1 .. n : w[i] = lines[i]
    BY <1>13
  <2> HIDE DEF w
  <2>. QED
    BY <2>1, SeqEqual DEF n
<1>16. Without(lines, gone) = w
  BY <1>2
<1>. QED
  <2>1. w \in Seq(S) /\ \A j \in DOMAIN w : w[j] \notin gone
    BY <1>13
  <2>2. \A j \in DOMAIN w : \E i \in DOMAIN lines : lines[i] = w[j]
    BY <1>13, <1>14
  <2>3. \A i \in DOMAIN lines : lines[i] \notin gone => \E j \in DOMAIN w : w[j] = lines[i]
    BY <1>13, <1>14
  <2> HIDE DEF w
  <2>. QED
    BY <1>14, <1>15, <1>16, <2>1, <2>2, <2>3

----------------------------------------------------------------------------
\* Part of a sequence, and two sequences one after the other.
IsCut(S, c, lines, a, b) ==
  /\ c \in Seq(S) /\ Len(c) = b + 1 - a
  /\ \A i \in 1 .. b + 1 - a : c[i] = lines[a + i - 1]

IsJoin(S, w, u, v) ==
  /\ w \in Seq(S) /\ Len(w) = Len(u) + Len(v)
  /\ \A i \in 1 .. Len(u) : w[i] = u[i]
  /\ \A i \in 1 .. Len(v) : w[Len(u) + i] = v[i]

\* SubSeq, position by position.
LEMMA CutIs ==
  ASSUME NEW S, NEW lines \in Seq(S), NEW a \in Nat \ {0}, NEW b \in Nat, a <= b + 1, b <= Len(lines)
  PROVE  IsCut(S, SubSeq(lines, a, b), lines, a, b)
<1> USE DEF IsCut
<1>1. \A i \in a .. b : lines[i] \in S
  OBVIOUS
<1>2. a \in Int /\ b \in Int
  OBVIOUS
<1> DEFINE c == SubSeq(lines, a, b)
<1>3. /\ c \in Seq(S) /\ Len(c) = IF a <= b THEN b - a + 1 ELSE 0
      /\ \A i \in 1 .. b - a + 1 : c[i] = lines[a + i - 1]
  BY <1>1, <1>2, SubSeqProperties
<1> HIDE DEF c
<1>4. b - a + 1 = b + 1 - a
  OBVIOUS
<1>5. Len(c) = b + 1 - a
  BY <1>3
<1>. QED
  BY <1>3, <1>4, <1>5 DEF c

\* Concatenation, position by position.
LEMMA JoinIs ==
  ASSUME NEW S, NEW u \in Seq(S), NEW v \in Seq(S)
  PROVE  IsJoin(S, u \o v, u, v)
<1> USE DEF IsJoin
<1> DEFINE w == u \o v
           a == Len(u)
           b == Len(v)
<1>1. /\ w \in Seq(S) /\ Len(w) = a + b /\ a \in Nat /\ b \in Nat
      /\ \A i \in 1 .. a + b : w[i] = IF i <= a THEN u[i] ELSE v[i - a]
  BY ConcatProperties
<1> HIDE DEF w, a, b
<1>2. \A i \in 1 .. a : w[i] = u[i]
  BY <1>1
<1>3. \A i \in 1 .. b : w[a + i] = v[i]
  <2> TAKE i \in 1 .. b
  <2>1. a + i \in 1 .. a + b /\ ~(a + i <= a) /\ (a + i) - a = i
    BY <1>1
  <2>. QED
    BY <1>1, <2>1
<1>. QED
  BY <1>1, <1>2, <1>3 DEF w, a, b

\* The lines with others in the place of those between two of them.
LEMMA SplicedIs ==
  ASSUME NEW lines \in Seq(Line), NEW s \in 1 .. Len(lines), NEW f \in s + 1 .. Len(lines), NEW mid \in Seq(Line),
         NEW new, new = SubSeq(lines, 1, s) \o mid \o SubSeq(lines, f, Len(lines))
  PROVE  /\ new \in Seq(Line) /\ Len(new) = Len(lines) + (s + Len(mid) + 1 - f)
         /\ \A i \in 1 .. s : new[i] = lines[i]
         /\ \A j \in 1 .. Len(mid) : new[s + j] = mid[j]
         /\ \A i \in f .. Len(lines) : new[i + (s + Len(mid) + 1 - f)] = lines[i]
<1> DEFINE n == Len(lines)
           m == Len(mid)
           a == SubSeq(lines, 1, s)
           c == SubSeq(lines, f, n)
<1>1. n \in Nat /\ m \in Nat /\ s \in 1 .. n /\ f \in s + 1 .. n
  OBVIOUS
<1>2. a \in Seq(Line) /\ Len(a) = s /\ \A i \in 1 .. s : a[i] = lines[i]
  <2>1. 1 \in Nat \ {0} /\ s \in Nat /\ 1 <= s + 1 /\ s <= n /\ s + 1 - 1 = s /\ \A i \in 1 .. s : 1 + i - 1 = i
    BY <1>1
  <2>2. IsCut(Line, a, lines, 1, s)
    BY <2>1, CutIs
  <2> HIDE DEF a
  <2>. QED
    BY <2>1, <2>2 DEF IsCut
<1>3. c \in Seq(Line) /\ Len(c) = n - f + 1 /\ \A i \in 1 .. n - f + 1 : c[i] = lines[f + i - 1]
  <2>1. f \in Nat \ {0} /\ n \in Nat /\ f <= n + 1 /\ n <= Len(lines) /\ n + 1 - f = n - f + 1
    BY <1>1
  <2>2. IsCut(Line, c, lines, f, n)
    BY <2>1, CutIs
  <2> HIDE DEF c
  <2>. QED
    BY <2>1, <2>2 DEF IsCut
<1>4. new = (a \o mid) \o c
  OBVIOUS
<1> HIDE DEF a, c
<1> DEFINE b == a \o mid
<1>5. /\ b \in Seq(Line) /\ Len(b) = s + m
      /\ \A i \in 1 .. s : b[i] = a[i]
      /\ \A j \in 1 .. m : b[s + j] = mid[j]
  <2>1. IsJoin(Line, b, a, mid)
    BY <1>2, JoinIs
  <2> HIDE DEF b
  <2>. QED
    BY <1>2, <2>1 DEF IsJoin
<1> HIDE DEF b, m, n
<1>6. /\ new \in Seq(Line) /\ Len(new) = s + m + (n - f + 1)
      /\ \A i \in 1 .. s + m : new[i] = b[i]
      /\ \A i \in 1 .. n - f + 1 : new[s + m + i] = c[i]
  <2>1. new = b \o c
    BY <1>4 DEF b
  <2>2. IsJoin(Line, new, b, c)
    BY <1>3, <1>5, <2>1, JoinIs
  <2>. QED
    BY <1>3, <1>5, <2>2 DEF IsJoin
<1>7. /\ \A i \in 1 .. s : b[i] = lines[i]
      /\ \A j \in 1 .. m : b[s + j] = mid[j]
  BY <1>2, <1>5
<1>8. \A i \in 1 .. s : new[i] = lines[i]
  BY <1>1, <1>6, <1>7
<1>9. ASSUME NEW j \in 1 .. m PROVE new[s + j] = mid[j]
  <2>1. s + j \in 1 .. s + m
    BY <1>1
  <2>2. new[s + j] = b[s + j] /\ b[s + j] = mid[j]
    BY <1>6, <1>7, <2>1
  <2>. QED
    BY <2>2
<1>10. ASSUME NEW i \in f .. n PROVE new[i + (s + m + 1 - f)] = lines[i]
  <2> DEFINE j == i - f + 1
  <2>1. j \in 1 .. n - f + 1 /\ f + j - 1 = i /\ s + m + j = i + (s + m + 1 - f)
    BY <1>1
  <2> HIDE DEF j
  <2>. QED
    BY <1>3, <1>6, <2>1
<1>11. Len(new) = n + (s + m + 1 - f)
  BY <1>1, <1>6
<1>. QED
  BY <1>6, <1>8, <1>9, <1>10, <1>11 DEF m, n

\* A group that is found at another place with the same lines is the same.
SameInside(lines, new, k) ==
  /\ Closed(lines, k) => Closed(new, k)
  /\ Closed(new, k) => Closed(lines, k) /\ Inside(new, k) = Inside(lines, k)

Moved(lines, new, k, p, n, q) ==
  /\ Start(lines, k) = p /\ p # 0 /\ NextMarker(lines, p) = n /\ n # 0
  /\ q \in Nat /\ Start(new, k) = q /\ q # 0 /\ NextMarker(new, q) = q + (n - p)
  /\ \A j \in 1 .. n - p : new[q + j] = lines[p + j]

\* A group whose lines only moved has the same inside.
LEMMA SameGroup ==
  ASSUME NEW lines \in Seq(Line), NEW new \in Seq(Line), NEW k, NEW p, NEW n, NEW q, Moved(lines, new, k, p, n, q)
  PROVE  SameInside(lines, new, k)
<1> USE DEF SameInside
<1> SUFFICES ASSUME Start(lines, k) = p, p # 0, NextMarker(lines, p) = n, n # 0,
                    q \in Nat, Start(new, k) = q, q # 0, NextMarker(new, q) = q + (n - p),
                    \A j \in 1 .. n - p : new[q + j] = lines[p + j]
             PROVE  SameInside(lines, new, k)
  BY DEF Moved
<1>1. Len(lines) \in Nat /\ Len(new) \in Nat
  OBVIOUS
<1>2. p \in 1 .. Len(lines)
  BY <1>1, StartIs
<1>3. n \in p + 1 .. Len(lines)
  BY <1>1, <1>2, NextIs
<1>4. q \in 1 .. Len(new)
  BY <1>1, StartIs
<1>5. q + (n - p) # 0 /\ q + (n - p) \in q + 1 .. Len(new)
  <2>1. q + (n - p) # 0
    BY <1>2, <1>3
  <2>. QED
    BY <1>1, <2>1, NextIs
<1>6. new[q + (n - p)] = lines[n]
  <2>1. n - p \in 1 .. n - p /\ p + (n - p) = n
    BY <1>2, <1>3
  <2>. QED
    BY <2>1
<1>7. /\ Closed(lines, k) <=> lines[n] = End
      /\ Closed(new, k) <=> new[q + (n - p)] = End
  BY <1>5, ClosedIs
<1>8. Closed(lines, k) => Finish(lines, k) = n
  BY ClosedIs
<1>9. Closed(new, k) => Finish(new, k) = q + (n - p)
  BY ClosedIs
<1>10. ASSUME Closed(new, k), Closed(lines, k) PROVE Inside(new, k) = Inside(lines, k)
  <2> DEFINE u == SubSeq(lines, p + 1, n - 1)
             e == q + (n - p)
             v == SubSeq(new, q + 1, e - 1)
  <2>1. Inside(lines, k) = u
    BY <1>8, <1>10 DEF Inside
  <2>1a. Inside(new, k) = v
    <3>1. Start(new, k) = q /\ Finish(new, k) = e
      BY <1>9, <1>10
    <3> HIDE DEF e
    <3>. QED
      BY <3>1 DEF Inside
  <2>1b. /\ p \in Nat /\ 1 <= p /\ n \in Nat /\ p + 1 <= n /\ n <= Len(lines)
         /\ q \in Nat /\ 1 <= q /\ q + (n - p) <= Len(new) /\ Len(lines) \in Nat /\ Len(new) \in Nat
    BY <1>1, <1>2, <1>3, <1>4, <1>5
  <2>2. u \in Seq(Line) /\ Len(u) = n - p - 1 /\ \A i \in 1 .. n - p - 1 : u[i] = lines[p + i]
    <3>1. /\ p + 1 \in Nat \ {0} /\ n - 1 \in Nat /\ p + 1 <= (n - 1) + 1 /\ n - 1 <= Len(lines)
          /\ (n - 1) + 1 - (p + 1) = n - p - 1 /\ \A i \in 1 .. n - p - 1 : (p + 1) + i - 1 = p + i
      BY <2>1b
    <3>2. IsCut(Line, u, lines, p + 1, n - 1)
      BY <3>1, CutIs
    <3> HIDE DEF u
    <3>. QED
      BY <3>1, <3>2 DEF IsCut
  <2>3. v \in Seq(Line) /\ Len(v) = n - p - 1 /\ \A i \in 1 .. n - p - 1 : v[i] = new[q + i]
    <3> DEFINE z == e - 1
    <3>1. /\ q + 1 \in Nat \ {0} /\ z \in Nat /\ q + 1 <= z + 1 /\ z <= Len(new)
          /\ z + 1 - (q + 1) = n - p - 1 /\ \A i \in 1 .. n - p - 1 : (q + 1) + i - 1 = q + i
      BY <2>1b
    <3> HIDE DEF z
    <3>2. IsCut(Line, v, new, q + 1, z)
      <4> HIDE DEF e
      <4>. QED
        BY <3>1, CutIs DEF z
    <3> HIDE DEF v
    <3>. QED
      BY <3>1, <3>2 DEF IsCut
  <2>4. \A i \in 1 .. n - p - 1 : i \in 1 .. n - p
    BY <1>2, <1>3
  <2> HIDE DEF u, v
  <2> HIDE DEF e
  <2>4a. Len(u) = Len(v)
    BY <2>2, <2>3
  <2>4b. \A i \in 1 .. Len(u) : u[i] = v[i]
    BY <2>2, <2>3, <2>4
  <2>5. u = v
    BY <2>2, <2>3, <2>4a, <2>4b, SeqEqual
  <2>. QED
    BY <2>1, <2>1a, <2>5 DEF u, v
<1>. QED
  BY <1>6, <1>7, <1>10

\* A group without a marker after its own is not closed.
LEMMA OpenGroup ==
  ASSUME NEW lines \in Seq(Line), NEW k, NEW p, Start(lines, k) = p, NextMarker(lines, p) = 0
  PROVE  ~Closed(lines, k)
BY ClosedIs

\* Every other group is where it was, with the same lines.
SameElsewhere(lines, new, l) ==
  \A k \in Labels : k # l =>
    /\ HasGroup(new, k) => HasGroup(lines, k)
    /\ HasGroup(lines, k) => HasGroup(new, k)
    /\ SameInside(lines, new, k)

\* A file that does not change keeps every group.
LEMMA SameAsItself == ASSUME NEW lines, NEW l PROVE SameElsewhere(lines, lines, l)
BY DEF SameElsewhere, SameInside

\* A group with other lines inside: it has those, and no other group changes.
LEMMA ReplaceIs ==
  ASSUME NEW lines \in Seq(Line), NEW l \in Labels, Closed(lines, l), NEW mid \in Seq(Body)
  PROVE  LET new == Replace(lines, l, mid) IN
         /\ new \in Seq(Line) /\ Closed(new, l) /\ Inside(new, l) = mid
         /\ SameElsewhere(lines, new, l)
<1> DEFINE s == Start(lines, l)
           f == Finish(lines, l)
           n == Len(lines)
           m == Len(mid)
           d == s + m + 1 - f
           new == Replace(lines, l, mid)
<1>1. /\ n \in Nat /\ s \in 1 .. n /\ f \in s + 1 .. n /\ lines[s] = Requires(l) /\ lines[f] = End
      /\ \A j \in s + 1 .. f - 1 : lines[j] \in Body
  BY ClosedIs
<1>2. mid \in Seq(Line) /\ m \in Nat /\ \A j \in 1 .. m : mid[j] \in Body
  <2>1. Body \subseteq Line
    BY LineKinds
  <2>. QED
    BY <2>1
<1>3. new = SubSeq(lines, 1, s) \o mid \o SubSeq(lines, f, Len(lines))
  BY DEF Replace
<1>3a. \A i \in 1 .. s - 1 : lines[i] # Requires(l)
  <2>1. \A i \in 1 .. n : lines[i] = Requires(l) => s <= i
    BY <1>1, StartIs
  <2> HIDE DEF s, f, n
  <2>. QED
    BY <1>1, <2>1
<1> HIDE DEF s, f, n, new
<1>4. /\ new \in Seq(Line) /\ Len(new) = n + d
      /\ \A i \in 1 .. s : new[i] = lines[i]
      /\ \A j \in 1 .. m : new[s + j] = mid[j]
      /\ \A i \in f .. n : new[i + d] = lines[i]
  BY <1>1, <1>2, <1>3, SplicedIs DEF n
<1> HIDE DEF m
<1>5. /\ d \in Int /\ n + d \in Nat /\ s + m + 1 = f + d /\ f + d <= n + d
      /\ f + d \in Nat /\ s \in Nat /\ 1 <= s /\ s + 1 <= f + d
  BY <1>1, <1>2
<1> HIDE DEF d
<1>6. ASSUME NEW q \in 1 .. n + d
      PROVE  \/ q \in 1 .. s /\ new[q] = lines[q]
             \/ q \in s + 1 .. f + d - 1 /\ new[q] \in Body
             \/ q - d \in f .. n /\ new[q] = lines[q - d]
  <2>1. CASE q \in 1 .. s
    BY <1>4, <2>1
  <2>2. CASE q \in s + 1 .. f + d - 1
    <3>1. q - s \in 1 .. m /\ s + (q - s) = q
      BY <1>1, <1>2, <1>5, <2>2
    <3>. QED
      BY <1>2, <1>4, <2>2, <3>1
  <2>3. CASE q \in f + d .. n + d
    <3>1. q - d \in f .. n /\ (q - d) + d = q
      BY <1>1, <1>5, <2>3
    <3>. QED
      BY <1>4, <3>1
  <2>. QED
    BY <1>1, <1>5, <2>1, <2>2, <2>3
<1>7. \A k : \A x \in Body : x # Requires(k) /\ ~IsMarker(x)
  BY LineKinds, Markers
<1>8. Start(new, l) = s
  <2>1. s \in 1 .. n + d /\ s \in 1 .. s /\ \A i \in 1 .. s - 1 : i \in 1 .. s
    BY <1>1, <1>2, <1>5
  <2>2. new[s] = Requires(l) /\ \A i \in 1 .. s - 1 : new[i] # Requires(l)
    BY <1>1, <1>3a, <1>4, <2>1
  <2>. QED
    BY <1>4, <1>5, <2>1, <2>2, StartIf
<1>9. NextMarker(new, s) = f + d /\ new[f + d] = End
  <2>1. s \in Nat /\ f + d \in s + 1 .. n + d /\ f \in f .. n
    BY <1>1, <1>2, <1>5
  <2>2. new[f + d] = End /\ IsMarker(new[f + d])
    BY <1>1, <1>4, <2>1, Markers
  <2> DEFINE e == f + d
  <2>3. ASSUME NEW j \in s + 1 .. e - 1 PROVE ~IsMarker(new[j])
    <3>1. j \in 1 .. n + d /\ ~(j \in 1 .. s) /\ ~(j - d \in f .. n)
      BY <1>1, <1>2, <1>5
    <3>. QED
      BY <1>6, <1>7, <3>1
  <2>4. Len(new) \in Nat /\ e \in s + 1 .. Len(new)
    BY <1>4, <1>5, <2>1
  <2>5a. IsMarker(new[e])
    BY <2>2
  <2>5b. \A j \in s + 1 .. e - 1 : ~IsMarker(new[j])
    BY <2>3
  <2> HIDE DEF e
  <2>6. NextMarker(new, s) = e
    BY <1>5, <2>4, <2>5a, <2>5b, NextIf
  <2>. QED
    BY <2>2, <2>6 DEF e
<1>10. Closed(new, l) /\ Finish(new, l) = f + d
  <2>1. s # 0 /\ f + d # 0
    BY <1>1, <1>2, <1>5
  <2>2. Closed(new, l)
    BY <1>4, <1>8, <1>9, <2>1, ClosedIs
  <2>. QED
    BY <1>4, <1>8, <1>9, <2>2, ClosedIs
<1>11. Inside(new, l) = mid
  <2> DEFINE e == f + d
             z == e - 1
             u == SubSeq(new, s + 1, z)
  <2>1. Start(new, l) = s /\ Finish(new, l) = e /\ e = s + m + 1 /\ e <= Len(new) /\ Len(new) \in Nat /\ e \in Nat
    BY <1>4, <1>5, <1>8, <1>10
  <2> HIDE DEF e
  <2>2. Inside(new, l) = u
    BY <2>1 DEF Inside
  <2>2a. s + 1 \in Nat \ {0} /\ z \in Nat /\ s + 1 <= z + 1 /\ z <= Len(new) /\ z + 1 - (s + 1) = m
    BY <1>2, <1>5, <2>1
  <2>2b. \A i \in 1 .. m : (s + 1) + i - 1 = s + i
    BY <1>2, <1>5
  <2> HIDE DEF z
  <2>3. IsCut(Line, u, new, s + 1, z)
    BY <1>4, <2>2a, CutIs
  <2> HIDE DEF u
  <2>4. /\ u \in Seq(Line) /\ Len(u) = z + 1 - (s + 1)
        /\ \A i \in 1 .. z + 1 - (s + 1) : u[i] = new[(s + 1) + i - 1]
    BY <2>3 DEF IsCut
  <2>4a. Len(u) = m
    BY <2>2a, <2>4
  <2>4b. ASSUME NEW i \in 1 .. m PROVE u[i] = mid[i]
    <3>1. i \in 1 .. z + 1 - (s + 1)
      BY <2>2a
    <3>2. (s + 1) + i - 1 = s + i
      BY <2>2b
    <3>3. u[i] = new[(s + 1) + i - 1]
      BY <2>4, <3>1
    <3>4. new[s + i] = mid[i]
      BY <1>4
    <3>. QED
      BY <3>2, <3>3, <3>4
  <2>5. u = mid
    BY <1>2, <2>4, <2>4a, <2>4b, SeqEqual DEF m
  <2>. QED
    BY <2>2, <2>5
<1>12. SameElsewhere(lines, new, l)
  <2> SUFFICES ASSUME NEW k \in Labels, k # l
               PROVE  /\ HasGroup(new, k) => HasGroup(lines, k)
                      /\ HasGroup(lines, k) => HasGroup(new, k)
                      /\ SameInside(lines, new, k)
    BY DEF SameElsewhere
  <2> DEFINE p == Start(lines, k)
  <2>1. /\ p = 0 => \A i \in 1 .. n : lines[i] # Requires(k)
        /\ p # 0 => p \in 1 .. n /\ lines[p] = Requires(k) /\ \A i \in 1 .. n : lines[i] = Requires(k) => p <= i
    BY <1>1, StartIs DEF n
  <2>2. Requires(k) # Requires(l) /\ Requires(k) # End
    BY Markers
  <2> HIDE DEF p
  <2>3. CASE p = 0
    <3>1. ASSUME NEW q \in 1 .. n + d PROVE new[q] # Requires(k)
      <4>1. 1 .. s \subseteq 1 .. n /\ f .. n \subseteq 1 .. n
        BY <1>1
      <4>. QED
        BY <1>6, <1>7, <2>1, <2>3, <4>1
    <3>2. Start(new, k) = 0
      BY <1>4, <1>5, <3>1, StartIs
    <3>3. ~HasGroup(new, k) /\ ~HasGroup(lines, k) /\ ~Closed(new, k) /\ ~Closed(lines, k)
      BY <1>4, <2>3, <3>2, ClosedIs DEF HasGroup, p
    <3>. QED
      BY <3>3 DEF SameInside
  <2>4. CASE p # 0
    <3>1. p \in 1 .. s - 1 \/ p \in f + 1 .. n
      <4>1. p # s /\ p # f /\ p \in 1 .. n
        BY <1>1, <2>1, <2>2, <2>4
      <4>2. ~(p \in s + 1 .. f - 1)
        BY <1>1, <1>7, <2>1, <2>4
      <4>. QED
        BY <1>1, <4>1, <4>2
    <3>2. /\ NextMarker(lines, p) = 0 => \A j \in p + 1 .. n : ~IsMarker(lines[j])
          /\ NextMarker(lines, p) # 0 => /\ NextMarker(lines, p) \in p + 1 .. n
                                         /\ IsMarker(lines[NextMarker(lines, p)])
                                         /\ \A j \in p + 1 .. NextMarker(lines, p) - 1 : ~IsMarker(lines[j])
      <4>1. p \in Nat
        BY <2>1, <2>4
      <4>. QED
        BY <1>1, <4>1, NextIs DEF n
    <3> DEFINE e == NextMarker(lines, p)
    <3> HIDE DEF e
    <3>3. CASE p \in 1 .. s - 1
      <4>1. p \in 1 .. n + d /\ 1 .. p \subseteq 1 .. s /\ 1 .. p \subseteq 1 .. n
        BY <1>1, <1>2, <1>5, <3>3
      <4>2. new[p] = Requires(k)
        BY <1>4, <2>1, <2>4, <3>3, <4>1
      <4>3. \A i \in 1 .. p - 1 : new[i] # Requires(k)
        <5>1. \A i \in 1 .. p - 1 : i \in 1 .. s /\ i \in 1 .. n /\ ~(p <= i)
          BY <1>1, <3>3
        <5>. QED
          BY <1>4, <2>1, <2>4, <5>1
      <4>4. Start(new, k) = p
        BY <1>4, <1>5, <4>1, <4>2, <4>3, StartIf
      <4>5. e # 0 /\ e \in p + 1 .. s /\ IsMarker(lines[e]) /\ \A j \in p + 1 .. e - 1 : ~IsMarker(lines[j])
        <5>1. s \in p + 1 .. n /\ IsMarker(lines[s])
          BY <1>1, <3>3, Markers
        <5>2. e # 0 /\ ~(s \in p + 1 .. e - 1)
          BY <3>2, <5>1 DEF e
        <5>. QED
          BY <3>2, <5>1, <5>2 DEF e
      <4>6. \A j \in p + 1 .. e : new[j] = lines[j]
        <5>1. \A j \in p + 1 .. e : j \in 1 .. s
          BY <1>1, <3>3, <4>5
        <5>. QED
          BY <1>4, <5>1
      <4>7. NextMarker(new, p) = e
        <5>1a. p \in Nat /\ e \in Nat /\ p + 1 <= e /\ e <= s /\ s <= n + d
          BY <1>1, <1>2, <1>5, <3>3, <4>5
        <5>1. e \in p + 1 .. n + d /\ e \in p + 1 .. e /\ \A j \in p + 1 .. e - 1 : j \in p + 1 .. e
          BY <1>5, <5>1a
        <5>2. IsMarker(new[e]) /\ \A j \in p + 1 .. e - 1 : ~IsMarker(new[j])
          BY <4>5, <4>6, <5>1
        <5>. QED
          BY <1>4, <1>5, <5>1a, <5>1, <5>2, NextIf
      <4>8. p \in Nat /\ p + (e - p) = e /\ \A j \in 1 .. e - p : p + j \in p + 1 .. e
        BY <1>1, <3>3, <4>5
      <4>9. \A j \in 1 .. e - p : new[p + j] = lines[p + j]
        BY <4>6, <4>8
      <4>10. Start(lines, k) = p /\ NextMarker(lines, p) = e /\ NextMarker(new, p) = p + (e - p)
        BY <4>7, <4>8 DEF p, e
      <4>11. Moved(lines, new, k, p, e, p)
        BY <2>4, <4>4, <4>5, <4>8, <4>9, <4>10 DEF Moved
      <4>12. SameInside(lines, new, k)
        BY <1>4, <4>11, SameGroup
      <4>. QED
        BY <2>4, <4>4, <4>10, <4>12 DEF HasGroup
    <3>4. CASE p \in f + 1 .. n
      <4> DEFINE q == p + d
      <4>1. q \in 1 .. n + d /\ p \in f .. n /\ q \in Nat
        BY <1>1, <1>2, <1>5, <3>4
      <4>2. new[q] = Requires(k)
        BY <1>4, <2>1, <2>4, <4>1
      <4>3. \A i \in 1 .. q - 1 : new[i] # Requires(k)
        <5> TAKE i \in 1 .. q - 1
        <5>1. i \in 1 .. n + d /\ (i \in 1 .. s => i \in 1 .. n /\ ~(p <= i))
              /\ (i - d \in f .. n => i - d \in 1 .. n /\ ~(p <= i - d))
          BY <1>1, <1>2, <1>5, <3>4, <4>1
        <5>. QED
          BY <1>6, <1>7, <2>1, <2>4, <5>1
      <4> HIDE DEF q
      <4>4. Start(new, k) = q
        BY <1>4, <1>5, <4>1, <4>2, <4>3, StartIf
      <4>5. ASSUME NEW j \in q + 1 .. n + d PROVE j - d \in p + 1 .. n /\ new[j] = lines[j - d]
        <5>1. j - d \in p + 1 .. n /\ j - d \in f .. n /\ (j - d) + d = j
          BY <1>1, <1>2, <1>5, <3>4, <4>1 DEF q
        <5>. QED
          BY <1>4, <5>1
      <4>6. CASE e = 0
        <5>1. NextMarker(new, q) = 0
          BY <1>4, <1>5, <3>2, <4>1, <4>5, <4>6, NextNone DEF e
        <5>2. ~Closed(lines, k) /\ ~Closed(new, k)
          BY <1>4, <4>4, <4>6, <5>1, OpenGroup DEF p, e
        <5>. QED
          BY <2>4, <4>1, <4>4, <5>2 DEF HasGroup, p, SameInside
      <4>7. CASE e # 0
        <5>1. e \in p + 1 .. n /\ IsMarker(lines[e]) /\ \A j \in p + 1 .. e - 1 : ~IsMarker(lines[j])
          BY <3>2, <4>7 DEF e
        <5> DEFINE z == e + d
        <5>0. q = p + d
          BY DEF q
        <5>1a. p \in Nat /\ e \in Nat /\ n \in Nat /\ d \in Int /\ p + 1 <= e /\ e <= n /\ q = p + d
          BY <1>1, <1>5, <3>4, <5>0, <5>1
        <5>2a. z \in q + 1 .. n + d /\ z - d = e /\ q + (e - p) = z
          BY <4>1, <5>1a
        <5>2b. \A j \in q + 1 .. z - 1 : j \in q + 1 .. n + d /\ j - d \in p + 1 .. e - 1
          BY <4>1, <5>1a
        <5>2. \A j \in 1 .. e - p : q + j \in q + 1 .. n + d /\ (q + j) - d = p + j
          BY <4>1, <5>1a
        <5> HIDE DEF z
        <5>3. IsMarker(new[z]) /\ \A j \in q + 1 .. z - 1 : ~IsMarker(new[j])
          BY <4>5, <5>1, <5>2a, <5>2b
        <5>4. NextMarker(new, q) = q + (e - p)
          BY <1>4, <1>5, <4>1, <5>2a, <5>3, NextIf
        <5>5. \A j \in 1 .. e - p : new[q + j] = lines[p + j]
          BY <4>5, <5>2
        <5>6. q # 0 /\ Start(lines, k) = p /\ NextMarker(lines, p) = e
          BY <4>1 DEF p, e
        <5>7. Moved(lines, new, k, p, e, q)
          BY <2>4, <4>1, <4>4, <4>7, <5>4, <5>5, <5>6 DEF Moved
        <5>8. SameInside(lines, new, k)
          BY <1>4, <5>7, SameGroup
        <5>. QED
          BY <2>4, <4>4, <5>6, <5>8 DEF HasGroup
      <4>. QED
        BY <4>6, <4>7
    <3>. QED
      BY <3>1, <3>3, <3>4
  <2>. QED
    BY <2>3, <2>4
<1>. QED
  BY <1>4, <1>10, <1>11, <1>12 DEF new

----------------------------------------------------------------------------
\* The entries of a file are those on its lines.
LEMMA EntriesAre ==
  ASSUME NEW lines \in Seq(Line), NEW d
  PROVE  /\ d \in EntriesOf(lines) => d \in Entries /\ \E i \in DOMAIN lines : lines[i] = Entry(d)
         /\ \A i \in DOMAIN lines : lines[i] = Entry(d) => d \in EntriesOf(lines)
<1>1. \A i \in DOMAIN lines : lines[i] \in Line
  OBVIOUS
<1>2. ASSUME d \in EntriesOf(lines) PROVE d \in Entries /\ \E i \in DOMAIN lines : lines[i] = Entry(d)
  <2>1. PICK i \in DOMAIN lines : Is(lines[i], "entry") /\ lines[i].arg = d
    BY <1>2 DEF EntriesOf
  <2>2. lines[i] \in Line
    BY <1>1
  <2>3. lines[i].arg \in Entries /\ lines[i] = Entry(lines[i].arg)
    BY <2>1, <2>2, LineOf
  <2>. QED
    BY <2>1, <2>3
<1>3. ASSUME NEW i \in DOMAIN lines, lines[i] = Entry(d) PROVE d \in EntriesOf(lines)
  <2>1. Is(lines[i], "entry") /\ lines[i].arg = d
    BY <1>3 DEF Is, Entry
  <2>. QED
    BY <2>1 DEF EntriesOf
<1>. QED
  BY <1>2, <1>3

\* Entries differ when what they name does.
LEMMA EntryNames == \A c, d : Entry(c) = Entry(d) => c = d
BY DEF Entry

\* The entries of two pieces put together.
LEMMA JoinEntries ==
  ASSUME NEW u \in Seq(Line), NEW v \in Seq(Line)
  PROVE  EntriesOf(u \o v) = EntriesOf(u) \cup EntriesOf(v)
<1> DEFINE w == u \o v
<1>1. IsJoin(Line, w, u, v)
  BY JoinIs
<1> HIDE DEF w
<1>2. /\ w \in Seq(Line) /\ Len(w) = Len(u) + Len(v) /\ Len(u) \in Nat /\ Len(v) \in Nat
      /\ \A i \in 1 .. Len(u) : w[i] = u[i]
      /\ \A i \in 1 .. Len(v) : w[Len(u) + i] = v[i]
      /\ DOMAIN w = 1 .. Len(w) /\ DOMAIN u = 1 .. Len(u) /\ DOMAIN v = 1 .. Len(v)
  BY <1>1 DEF IsJoin
<1>3. ASSUME NEW d \in EntriesOf(w) PROVE d \in EntriesOf(u) \cup EntriesOf(v)
  <2>1. PICK i \in DOMAIN w : w[i] = Entry(d)
    BY <1>2, <1>3, EntriesAre
  <2>2. CASE i \in 1 .. Len(u)
    BY <1>2, <2>1, <2>2, EntriesAre
  <2>3. CASE i \notin 1 .. Len(u)
    <3>1. i - Len(u) \in 1 .. Len(v) /\ Len(u) + (i - Len(u)) = i
      BY <1>2, <2>3
    <3>2. v[i - Len(u)] = Entry(d)
      BY <1>2, <2>1, <3>1
    <3>. QED
      BY <1>2, <3>1, <3>2, EntriesAre
  <2>. QED
    BY <2>2, <2>3
<1>4. ASSUME NEW d \in EntriesOf(u) PROVE d \in EntriesOf(w)
  <2>1. PICK i \in DOMAIN u : u[i] = Entry(d)
    BY <1>4, EntriesAre
  <2>2. i \in DOMAIN w /\ w[i] = Entry(d)
    BY <1>2, <2>1
  <2>. QED
    BY <1>2, <2>2, EntriesAre
<1>5. ASSUME NEW d \in EntriesOf(v) PROVE d \in EntriesOf(w)
  <2>1. PICK i \in DOMAIN v : v[i] = Entry(d)
    BY <1>5, EntriesAre
  <2>2. Len(u) + i \in DOMAIN w /\ w[Len(u) + i] = Entry(d)
    BY <1>2, <2>1
  <2>. QED
    BY <1>2, <2>2, EntriesAre
<1>. QED
  BY <1>3, <1>4, <1>5 DEF w

\* Taking out entries takes out those entries; taking out notes, none.
LEMMA WithoutEntries ==
  ASSUME NEW lines \in Seq(Body), NEW ds
  PROVE  /\ Without(lines, EntryLines(ds)) \in Seq(Body)
         /\ EntriesOf(Without(lines, EntryLines(ds))) = EntriesOf(lines) \ ds
<1> DEFINE gone == EntryLines(ds)
           w == Without(lines, gone)
<1>1. /\ w \in Seq(Body) /\ \A j \in DOMAIN w : w[j] \notin gone
      /\ \A j \in DOMAIN w : \E i \in DOMAIN lines : lines[i] = w[j]
      /\ \A i \in DOMAIN lines : lines[i] \notin gone => \E j \in DOMAIN w : w[j] = lines[i]
  BY WithoutIs
<1> HIDE DEF w
<1>2. \A d : Entry(d) \in gone => d \in ds
  BY EntryNames DEF EntryLines
<1>3. \A d \in ds : Entry(d) \in gone
  BY DEF EntryLines
<1>4. lines \in Seq(Line) /\ w \in Seq(Line)
  BY <1>1, LineKinds
<1> HIDE DEF gone
<1>5. ASSUME NEW d \in EntriesOf(w) PROVE d \in EntriesOf(lines) \ ds
  <2>1. PICK j \in DOMAIN w : w[j] = Entry(d)
    BY <1>4, <1>5, EntriesAre
  <2>2. PICK i \in DOMAIN lines : lines[i] = Entry(d)
    BY <1>1, <2>1
  <2>3. d \in EntriesOf(lines)
    BY <1>4, <2>2, EntriesAre
  <2>. QED
    BY <1>1, <1>3, <2>1, <2>3
<1>6. ASSUME NEW d \in EntriesOf(lines) \ ds PROVE d \in EntriesOf(w)
  <2>1. PICK i \in DOMAIN lines : lines[i] = Entry(d)
    BY <1>4, <1>6, EntriesAre
  <2>2. PICK j \in DOMAIN w : w[j] = Entry(d)
    BY <1>1, <1>2, <1>6, <2>1
  <2>. QED
    BY <1>4, <2>2, EntriesAre
<1>. QED
  BY <1>1, <1>5, <1>6 DEF w, gone

\* Taking the notes out of a group takes no entry.
LEMMA WithoutNotes ==
  ASSUME NEW lines \in Seq(Body)
  PROVE  /\ Without(lines, Notes) \in Seq(Body)
         /\ EntriesOf(Without(lines, Notes)) = EntriesOf(lines)
<1> DEFINE w == Without(lines, Notes)
<1>1. /\ w \in Seq(Body)
      /\ \A j \in DOMAIN w : \E i \in DOMAIN lines : lines[i] = w[j]
      /\ \A i \in DOMAIN lines : lines[i] \notin Notes => \E j \in DOMAIN w : w[j] = lines[i]
  BY WithoutIs
<1> HIDE DEF w
<1>2. \A d : Entry(d) \notin Notes
  BY DEF Entry, Notes, Note
<1>4. lines \in Seq(Line) /\ w \in Seq(Line)
  BY <1>1, LineKinds
<1>5. ASSUME NEW d \in EntriesOf(w) PROVE d \in EntriesOf(lines)
  <2>1. PICK j \in DOMAIN w : w[j] = Entry(d)
    BY <1>4, <1>5, EntriesAre
  <2>2. PICK i \in DOMAIN lines : lines[i] = Entry(d)
    BY <1>1, <2>1
  <2>. QED
    BY <1>4, <2>2, EntriesAre
<1>6. ASSUME NEW d \in EntriesOf(lines) PROVE d \in EntriesOf(w)
  <2>1. PICK i \in DOMAIN lines : lines[i] = Entry(d)
    BY <1>4, <1>6, EntriesAre
  <2>2. PICK j \in DOMAIN w : w[j] = Entry(d)
    BY <1>1, <1>2, <2>1
  <2>. QED
    BY <1>4, <2>2, EntriesAre
<1>. QED
  BY <1>1, <1>5, <1>6 DEF w

----------------------------------------------------------------------------
\* What is inside a closed group, and the groups of a template, have no markers.
LEMMA InsideIs ==
  ASSUME NEW lines \in Seq(Line), NEW l, Closed(lines, l)
  PROVE  Inside(lines, l) \in Seq(Body)
<1> DEFINE s == Start(lines, l)
           f == Finish(lines, l)
           z == f - 1
           u == SubSeq(lines, s + 1, z)
<1>1. /\ Len(lines) \in Nat /\ s \in 1 .. Len(lines) /\ f \in s + 1 .. Len(lines)
      /\ \A j \in s + 1 .. f - 1 : lines[j] \in Body
  BY ClosedIs
<1>2. Inside(lines, l) = u
  BY DEF Inside
<1> HIDE DEF s, f
<1>3. s + 1 \in Int /\ z \in Int
  BY <1>1
<1>4. \A j \in s + 1 .. z : lines[j] \in Body
  BY <1>1
<1> HIDE DEF z
<1>5. u \in Seq(Body)
  BY <1>3, <1>4, SubSeqProperties
<1>. QED
  BY <1>2, <1>5

\* A group of a valid template has a label and body lines.
LEMMA GroupIs ==
  ASSUME NEW t \in Seq(Line), Valid(t), NEW i \in Heads(t)
  PROVE  Proper(GroupAt(t, i))
<1> DEFINE n == NextMarker(t, i)
           z == n - 1
           u == SubSeq(t, i + 1, z)
<1>1. Len(t) \in Nat /\ i \in 1 .. Len(t) /\ t[i] \in Line /\ Is(t[i], "requires") /\ i \in Nat
  BY DEF Heads
<1>2. n # 0
  BY <1>1 DEF Valid
<1>3. n \in i + 1 .. Len(t) /\ \A j \in i + 1 .. n - 1 : ~IsMarker(t[j])
  BY <1>1, <1>2, NextIs
<1>4. t[i].arg \in Labels
  BY <1>1, LineOf
<1>5. GroupAt(t, i).label = t[i].arg /\ GroupAt(t, i).lines = u
  BY DEF GroupAt
<1> HIDE DEF n
<1>6. i + 1 \in Int /\ z \in Int
  BY <1>1, <1>3
<1>7. \A j \in i + 1 .. z : t[j] \in Body
  <2>1. \A j \in i + 1 .. z : j \in 1 .. Len(t)
    BY <1>1, <1>3
  <2>. QED
    BY <1>3, <2>1 DEF Body
<1> HIDE DEF z
<1>8. u \in Seq(Body)
  BY <1>6, <1>7, SubSeqProperties
<1>. QED
  BY <1>4, <1>5, <1>8 DEF Proper

----------------------------------------------------------------------------
\* The lines outside a group keep their entries, and it has those put inside.
LEMMA ReplaceEntries ==
  ASSUME NEW lines \in Seq(Line), NEW l \in Labels, Closed(lines, l), NEW mid \in Seq(Body),
         NEW d \in EntriesOf(lines), d \in EntriesOf(Inside(lines, l)) => d \in EntriesOf(mid)
  PROVE  d \in EntriesOf(Replace(lines, l, mid))
<1> DEFINE s == Start(lines, l)
           f == Finish(lines, l)
           n == Len(lines)
           m == Len(mid)
           e == s + m + 1 - f
           new == Replace(lines, l, mid)
<1>1. n \in Nat /\ s \in 1 .. n /\ f \in s + 1 .. n
  BY ClosedIs
<1>2. mid \in Seq(Line) /\ m \in Nat
  BY LineKinds
<1>3. new = SubSeq(lines, 1, s) \o mid \o SubSeq(lines, f, Len(lines))
  BY DEF Replace
<1>3a. Inside(lines, l) = SubSeq(lines, s + 1, f - 1)
  BY DEF Inside
<1> HIDE DEF s, f, n, new
<1>4. /\ new \in Seq(Line) /\ Len(new) = n + e
      /\ \A i \in 1 .. s : new[i] = lines[i]
      /\ \A j \in 1 .. m : new[s + j] = mid[j]
      /\ \A i \in f .. n : new[i + e] = lines[i]
  BY <1>1, <1>2, <1>3, SplicedIs DEF n
<1>5. DOMAIN lines = 1 .. n /\ DOMAIN new = 1 .. n + e /\ DOMAIN mid = 1 .. m
  BY <1>4 DEF n
<1> HIDE DEF m
<1>6. e \in Int /\ f + e = s + m + 1 /\ n + e \in Nat
  BY <1>1, <1>2
<1> HIDE DEF e
<1>7. PICK i \in 1 .. n : lines[i] = Entry(d)
  BY <1>5, EntriesAre
<1>8. CASE i \in 1 .. s
  <2>1. i \in 1 .. n + e
    BY <1>1, <1>2, <1>6, <1>8
  <2>. QED
    BY <1>4, <1>5, <1>7, <1>8, <2>1, EntriesAre DEF new
<1>9. CASE i \in f .. n
  <2>1. i + e \in 1 .. n + e
    BY <1>1, <1>2, <1>6, <1>9
  <2>2. new[i + e] = Entry(d)
    BY <1>4, <1>7, <1>9
  <2>. QED
    BY <1>4, <1>5, <2>1, <2>2, EntriesAre DEF new
<1>10. CASE i \in s + 1 .. f - 1
  <2> DEFINE z == f - 1
             u == SubSeq(lines, s + 1, z)
  <2>1. s + 1 \in Nat \ {0} /\ z \in Nat /\ s + 1 <= z + 1 /\ z <= Len(lines)
    BY <1>1 DEF n
  <2>2. i - s \in 1 .. z + 1 - (s + 1) /\ (s + 1) + (i - s) - 1 = i
    BY <1>1, <1>10
  <2> HIDE DEF z
  <2>3. IsCut(Line, u, lines, s + 1, z)
    BY <2>1, CutIs
  <2> HIDE DEF u
  <2>4. u \in Seq(Line) /\ i - s \in DOMAIN u /\ u[i - s] = Entry(d)
    BY <1>7, <2>2, <2>3 DEF IsCut
  <2>5. d \in EntriesOf(u)
    BY <2>4, EntriesAre
  <2>6. d \in EntriesOf(mid)
    BY <1>3a, <2>5 DEF u, z
  <2>7. PICK j \in 1 .. m : mid[j] = Entry(d)
    BY <1>2, <1>5, <2>6, EntriesAre
  <2>8. s + j \in 1 .. n + e /\ new[s + j] = Entry(d)
    BY <1>1, <1>2, <1>4, <1>6, <2>7
  <2>. QED
    BY <1>4, <1>5, <2>8, EntriesAre DEF new
<1>. QED
  BY <1>1, <1>8, <1>9, <1>10

\* The file with a group put at its end.
WithGroup(lines, l, mid) == lines \o <<Text, Requires(l), Note(l)>> \o mid \o <<End>>

\* A group put at the end is closed, and no other group changes.
LEMMA AppendIs ==
  ASSUME NEW lines \in Seq(Line), NEW l \in Labels, ~HasGroup(lines, l), NEW mid \in Seq(Body)
  PROVE  LET new == WithGroup(lines, l, mid) IN
         /\ new \in Seq(Line) /\ Closed(new, l)
         /\ EntriesOf(Inside(new, l)) = EntriesOf(mid)
         /\ SameElsewhere(lines, new, l)
         /\ EntriesOf(new) = EntriesOf(lines) \cup EntriesOf(mid)
<1> DEFINE n == Len(lines)
           m == Len(mid)
           head == <<Text, Requires(l), Note(l)>>
           a == lines \o head
           b == a \o mid
           new == b \o <<End>>
           e == n + m + 4
<1>1. n \in Nat /\ m \in Nat /\ DOMAIN lines = 1 .. n /\ DOMAIN mid = 1 .. m
  OBVIOUS
<1>2. mid \in Seq(Line) /\ \A j \in 1 .. m : mid[j] \in Body
  BY LineKinds
<1>3. /\ head \in Seq(Line) /\ Len(head) = 3 /\ head[1] = Text /\ head[2] = Requires(l) /\ head[3] = Note(l)
      /\ <<End>> \in Seq(Line) /\ Len(<<End>>) = 1 /\ <<End>>[1] = End
  BY LineKinds
<1> HIDE DEF n, m, head
<1>4. a \in Seq(Line) /\ Len(a) = n + 3 /\ (\A i \in 1 .. n : a[i] = lines[i]) /\ \A i \in 1 .. 3 : a[n + i] = head[i]
  <2>1. IsJoin(Line, a, lines, head)
    BY <1>3, JoinIs
  <2> HIDE DEF a
  <2>. QED
    BY <1>3, <2>1 DEF IsJoin, n
<1>4a. EntriesOf(a) = EntriesOf(lines) \cup EntriesOf(head)
  BY <1>3, JoinEntries
<1> HIDE DEF a
<1>5. b \in Seq(Line) /\ Len(b) = n + 3 + m /\ (\A i \in 1 .. n + 3 : b[i] = a[i]) /\ \A i \in 1 .. m : b[n + 3 + i] = mid[i]
  <2>1. IsJoin(Line, b, a, mid)
    BY <1>2, <1>4, JoinIs
  <2> HIDE DEF b
  <2>. QED
    BY <1>4, <2>1 DEF IsJoin, m
<1>5a. EntriesOf(b) = EntriesOf(a) \cup EntriesOf(mid)
  BY <1>2, <1>4, JoinEntries
<1> HIDE DEF b
<1>6. new \in Seq(Line) /\ Len(new) = e /\ (\A i \in 1 .. n + 3 + m : new[i] = b[i]) /\ new[e] = End
  <2> DEFINE tail == <<End>>
  <2>1. tail \in Seq(Line) /\ Len(tail) = 1 /\ tail[1] = End
    BY <1>3
  <2> HIDE DEF tail
  <2>2. IsJoin(Line, b \o tail, b, tail)
    BY <1>5, <2>1, JoinIs
  <2>3. new = b \o tail
    BY DEF tail
  <2> HIDE DEF new
  <2>4. new \in Seq(Line) /\ Len(new) = n + 3 + m + 1 /\ (\A i \in 1 .. n + 3 + m : new[i] = b[i])
    BY <1>5, <2>1, <2>2, <2>3 DEF IsJoin
  <2>5. \A i \in 1 .. 1 : new[n + 3 + m + i] = tail[i]
    BY <1>5, <2>1, <2>2, <2>3 DEF IsJoin
  <2>6. new[n + 3 + m + 1] = End
    BY <2>1, <2>5
  <2>7. n + 3 + m + 1 = e
    BY <1>1
  <2> HIDE DEF e
  <2>. QED
    BY <2>4, <2>6, <2>7
<1>6a. EntriesOf(new) = EntriesOf(b) \cup EntriesOf(<<End>>)
  BY <1>3, <1>5, JoinEntries
<1>7. EntriesOf(head) = {} /\ EntriesOf(<<End>>) = {}
  <2>1. Is(Text, "entry") = FALSE /\ Is(Requires(l), "entry") = FALSE /\ Is(Note(l), "entry") = FALSE /\ Is(End, "entry") = FALSE
    BY DEF Is, Text, Requires, Note, End
  <2>2. \A i \in DOMAIN head : ~Is(head[i], "entry")
    <3>1. DOMAIN head = 1 .. 3
      BY <1>3
    <3>2. \A i \in 1 .. 3 : i = 1 \/ i = 2 \/ i = 3
      OBVIOUS
    <3>. QED
      BY <1>3, <2>1, <3>1, <3>2
  <2>3. \A i \in DOMAIN <<End>> : ~Is(<<End>>[i], "entry")
    <3>1. DOMAIN <<End>> = {1}
      OBVIOUS
    <3>. QED
      BY <2>1, <3>1
  <2>. QED
    BY <2>2, <2>3 DEF EntriesOf
<1> HIDE DEF new
<1>8. e \in Nat /\ n + 2 \in 1 .. e /\ e \in (n + 2) + 1 .. e
  BY <1>1
<1>9. \A i \in 1 .. n : new[i] = lines[i]
  <2>1. \A i \in 1 .. n : i \in 1 .. n + 3 /\ i \in 1 .. n + 3 + m
    BY <1>1
  <2>. QED
    BY <1>4, <1>5, <1>6, <2>1
<1>10. new[n + 1] = Text /\ new[n + 2] = Requires(l) /\ new[n + 3] = Note(l)
  <2>1. \A i \in 1 .. 3 : n + i \in 1 .. n + 3 /\ n + i \in 1 .. n + 3 + m
    BY <1>1
  <2>2. \A i \in 1 .. 3 : new[n + i] = head[i]
    BY <1>4, <1>5, <1>6, <2>1
  <2>3. 1 \in 1 .. 3 /\ 2 \in 1 .. 3 /\ 3 \in 1 .. 3
    OBVIOUS
  <2>. QED
    BY <1>3, <2>2, <2>3
<1>11. \A j \in 1 .. m : new[n + 3 + j] = mid[j]
  <2>1. \A j \in 1 .. m : n + 3 + j \in 1 .. n + 3 + m
    BY <1>1
  <2>. QED
    BY <1>5, <1>6, <2>1
<1>12. ASSUME NEW j \in n + 3 .. e - 1 PROVE new[j] \in Body
  <2>1. CASE j = n + 3
    BY <1>10, <2>1, LineKinds
  <2>2. CASE j # n + 3
    <3>1. j - (n + 3) \in 1 .. m /\ n + 3 + (j - (n + 3)) = j
      BY <1>1, <2>2
    <3>. QED
      BY <1>2, <1>11, <3>1
  <2>. QED
    BY <2>1, <2>2
<1>13. \A i \in 1 .. n : lines[i] # Requires(l)
  <2>1. Start(lines, l) = 0
    BY DEF HasGroup
  <2>. QED
    BY <1>1, <2>1, StartIs DEF n
<1>14. ASSUME NEW i \in 1 .. e, NEW k \in Labels, new[i] = Requires(k) PROVE i \in 1 .. n \/ (i = n + 2 /\ k = l)
  <2>1. i \in 1 .. n \/ i = n + 1 \/ i = n + 2 \/ i \in n + 3 .. e - 1 \/ i = e
    BY <1>1, <1>8
  <2>2. \A x \in Body : x # Requires(k)
    BY LineKinds, Markers
  <2>3. End # Requires(k) /\ Text \in Body
    BY Markers, LineKinds
  <2>4. Requires(l) = Requires(k) => k = l
    BY Markers
  <2>5. i # n + 1 /\ i # e
    BY <1>6, <1>10, <1>14, <2>2, <2>3
  <2>6. i \notin n + 3 .. e - 1
    BY <1>12, <1>14, <2>2
  <2>7. i = n + 2 => k = l
    BY <1>10, <1>14, <2>4
  <2>8. i \in 1 .. n \/ i = n + 2
    BY <2>1, <2>5, <2>6
  <2>. QED
    BY <2>7, <2>8
<1>15. Start(new, l) = n + 2
  <2> DEFINE s == n + 2
  <2>1. Len(new) \in Nat /\ s \in 1 .. Len(new) /\ new[s] = Requires(l)
    BY <1>6, <1>8, <1>10
  <2>2. \A i \in 1 .. s - 1 : i \in 1 .. e /\ (i \in 1 .. n \/ i # s)
    BY <1>1
  <2>3. \A i \in 1 .. s - 1 : i # s
    BY <1>1
  <2> HIDE DEF s
  <2>4. \A i \in 1 .. s - 1 : new[i] # Requires(l)
    BY <1>9, <1>13, <1>14, <2>2, <2>3 DEF s
  <2>5. Start(new, l) = s
    BY <2>1, <2>4, StartIf
  <2>. QED
    BY <2>5 DEF s
<1>16. NextMarker(new, n + 2) = e
  <2> DEFINE s == n + 2
  <2>1. Len(new) \in Nat /\ s \in Nat /\ e \in s + 1 .. Len(new) /\ IsMarker(new[e])
    BY <1>1, <1>6, <1>8, Markers
  <2>2. \A j \in s + 1 .. e - 1 : j \in n + 3 .. e - 1
    BY <1>1
  <2>3. \A j \in s + 1 .. e - 1 : ~IsMarker(new[j])
    BY <1>12, <2>2, LineKinds
  <2> HIDE DEF s, e
  <2>. QED
    BY <2>1, <2>3, NextIf DEF s
<1>17. Closed(new, l) /\ Finish(new, l) = e
  <2>1. e # 0 /\ n + 2 # 0
    BY <1>1
  <2>2. Closed(new, l)
    BY <1>6, <1>15, <1>16, <2>1, ClosedIs
  <2>. QED
    BY <1>6, <1>15, <1>16, <2>2, ClosedIs
<1>18. EntriesOf(Inside(new, l)) = EntriesOf(mid)
  <2> DEFINE s == n + 2
             z == e - 1
             u == SubSeq(new, s + 1, z)
  <2>1. Start(new, l) = s /\ Finish(new, l) = e
    BY <1>15, <1>17
  <2>2. /\ s + 1 \in Nat \ {0} /\ z \in Nat /\ s + 1 <= z + 1 /\ z <= Len(new) /\ z + 1 - (s + 1) = m + 1
    BY <1>1, <1>6
  <2>3. \A i \in 1 .. m + 1 : (s + 1) + i - 1 = n + 2 + i
    BY <1>1
  <2> HIDE DEF s, e
  <2>4. Inside(new, l) = u
    BY <2>1 DEF Inside
  <2> HIDE DEF z
  <2>5. IsCut(Line, u, new, s + 1, z)
    BY <1>6, <2>2, CutIs
  <2> HIDE DEF u
  <2>6. u \in Seq(Line) /\ DOMAIN u = 1 .. m + 1 /\ \A i \in 1 .. m + 1 : u[i] = new[n + 2 + i]
    BY <2>2, <2>3, <2>5 DEF IsCut
  <2>7. u[1] = Note(l) /\ \A j \in 1 .. m : u[j + 1] = mid[j]
    <3>1. 1 \in 1 .. m + 1 /\ n + 2 + 1 = n + 3 /\ \A j \in 1 .. m : j + 1 \in 1 .. m + 1 /\ n + 2 + (j + 1) = n + 3 + j
      BY <1>1
    <3>. QED
      BY <1>10, <1>11, <2>6, <3>1
  <2>8. ASSUME NEW d \in EntriesOf(u) PROVE d \in EntriesOf(mid)
    <3>1. PICK i \in 1 .. m + 1 : u[i] = Entry(d)
      BY <2>6, <2>8, EntriesAre
    <3>2. Note(l) # Entry(d)
      BY DEF Note, Entry
    <3>3. i # 1
      BY <2>7, <3>1, <3>2
    <3>4. i - 1 \in 1 .. m /\ (i - 1) + 1 = i
      BY <1>1, <3>3
    <3>5. mid[i - 1] = Entry(d)
      BY <2>7, <3>1, <3>4
    <3>. QED
      BY <1>1, <1>2, <3>4, <3>5, EntriesAre
  <2>9. ASSUME NEW d \in EntriesOf(mid) PROVE d \in EntriesOf(u)
    <3>1. PICK j \in 1 .. m : mid[j] = Entry(d)
      BY <1>1, <1>2, <2>9, EntriesAre
    <3>2. j + 1 \in 1 .. m + 1 /\ u[j + 1] = Entry(d)
      BY <1>1, <2>7, <3>1
    <3>. QED
      BY <2>6, <3>2, EntriesAre
  <2>. QED
    BY <2>4, <2>8, <2>9
<1>19. SameElsewhere(lines, new, l)
  <2> SUFFICES ASSUME NEW k \in Labels, k # l
               PROVE  /\ HasGroup(new, k) => HasGroup(lines, k)
                      /\ HasGroup(lines, k) => HasGroup(new, k)
                      /\ SameInside(lines, new, k)
    BY DEF SameElsewhere
  <2> DEFINE p == Start(lines, k)
             x == NextMarker(lines, p)
  <2>1. /\ p = 0 => \A i \in 1 .. n : lines[i] # Requires(k)
        /\ p # 0 => p \in 1 .. n /\ lines[p] = Requires(k) /\ \A i \in 1 .. n : lines[i] = Requires(k) => p <= i
    BY <1>1, StartIs DEF n
  <2>2. p # 0 => /\ x = 0 => \A j \in p + 1 .. n : ~IsMarker(lines[j])
                 /\ x # 0 => x \in p + 1 .. n /\ IsMarker(lines[x]) /\ \A j \in p + 1 .. x - 1 : ~IsMarker(lines[j])
    <3>1. p # 0 => p \in Nat
      BY <2>1
    <3>. QED
      BY <1>1, <3>1, NextIs DEF n
  <2> HIDE DEF x, p
  <2>3. CASE p = 0
    <3>1. ASSUME NEW q \in 1 .. e PROVE new[q] # Requires(k)
      BY <1>9, <1>14, <2>1, <2>3
    <3>2. Start(new, k) = 0
      BY <1>6, <1>8, <3>1, StartIs
    <3>3. ~HasGroup(new, k) /\ ~HasGroup(lines, k) /\ ~Closed(new, k) /\ ~Closed(lines, k)
      BY <1>6, <2>3, <3>2, ClosedIs DEF HasGroup, p
    <3>. QED
      BY <3>3 DEF SameInside
  <2>4. CASE p # 0
    <3>1. p \in 1 .. e /\ p \in 1 .. n /\ p \in Nat
      BY <1>1, <1>8, <2>1, <2>4
    <3>2. \A i \in 1 .. p - 1 : i \in 1 .. n /\ ~(p <= i)
      BY <1>1, <3>1
    <3>3. new[p] = Requires(k) /\ \A i \in 1 .. p - 1 : new[i] # Requires(k)
      BY <1>9, <2>1, <2>4, <3>1, <3>2
    <3> HIDE DEF e
    <3>4. Start(new, k) = p
      BY <1>6, <1>8, <3>1, <3>3, StartIf
    <3>5. CASE x = 0
      <4> DEFINE y == n + 2
      <4>1. y \in p + 1 .. e /\ y # 0
        BY <1>1, <3>1 DEF e
      <4>2. ASSUME NEW j \in p + 1 .. y - 1 PROVE ~IsMarker(new[j])
        <5>1. (j \in 1 .. n /\ j \in p + 1 .. n) \/ j = n + 1
          BY <1>1, <3>1
        <5>2. ~IsMarker(Text)
          BY LineKinds
        <5>. QED
          BY <1>9, <1>10, <2>2, <2>4, <3>5, <5>1, <5>2
      <4>3. new[y] = Requires(l) /\ IsMarker(new[y]) /\ new[y] # End
        BY <1>10, Markers
      <4> HIDE DEF y
      <4>4. NextMarker(new, p) = y
        BY <1>6, <1>8, <3>1, <4>1, <4>2, <4>3, NextIf
      <4>5. ~Closed(new, k)
        BY <1>6, <3>4, <4>3, <4>4, ClosedIs
      <4>6. ~Closed(lines, k)
        BY <3>5, OpenGroup DEF p, x
      <4>. QED
        BY <2>4, <3>4, <4>5, <4>6 DEF HasGroup, SameInside, p
    <3>6. CASE x # 0
      <4>1. x \in Nat /\ p + 1 <= x /\ x <= n /\ IsMarker(lines[x]) /\ \A j \in p + 1 .. x - 1 : ~IsMarker(lines[j])
        BY <1>1, <2>2, <2>4, <3>1, <3>6
      <4>2. x \in p + 1 .. e /\ x \in 1 .. n /\ p + (x - p) = x
        BY <1>1, <3>1, <4>1 DEF e
      <4>3. \A j \in p + 1 .. x - 1 : j \in 1 .. n
        BY <1>1, <3>1, <4>1
      <4>4. \A j \in 1 .. x - p : p + j \in 1 .. n
        BY <1>1, <3>1, <4>1
      <4>5. NextMarker(new, p) = x
        BY <1>6, <1>8, <1>9, <3>1, <4>1, <4>2, <4>3, NextIf
      <4>6. Moved(lines, new, k, p, x, p)
        BY <1>9, <2>4, <3>1, <3>4, <3>6, <4>2, <4>4, <4>5 DEF Moved, p, x
      <4>7. SameInside(lines, new, k)
        BY <1>6, <4>6, SameGroup
      <4>. QED
        BY <2>4, <3>4, <4>7 DEF HasGroup, p
    <3>. QED
      BY <3>5, <3>6
  <2>. QED
    BY <2>3, <2>4
<1>20. EntriesOf(new) = EntriesOf(lines) \cup EntriesOf(mid)
  BY <1>4a, <1>5a, <1>6a, <1>7
<1>21. new = WithGroup(lines, l, mid)
  BY DEF WithGroup, new, b, a, head
<1>. QED
  BY <1>6, <1>17, <1>18, <1>19, <1>20, <1>21

----------------------------------------------------------------------------
\* A file in which nothing is left to do for a group of the template.
Settles(lines, g, fs) ==
  /\ ~HasGroup(lines, g.label) /\ Wanted(g.label, fs) => EntriesOf(g.lines) \subseteq EntriesOf(lines)
  /\ Closed(lines, g.label) /\ Wanted(g.label, fs) => EntriesOf(Inside(lines, g.label)) # {}
  /\ Closed(lines, g.label) /\ ~Wanted(g.label, fs) => EntriesOf(Inside(lines, g.label)) \cap EntriesOf(g.lines) = {}

\* A closed group is there.
LEMMA ClosedHasGroup == ASSUME NEW lines \in Seq(Line), NEW l, Closed(lines, l) PROVE HasGroup(lines, l)
BY ClosedIs DEF HasGroup

\* reconcileGroup leaves a settled group exactly as it is.
LEMMA SettledStays ==
  ASSUME NEW lines \in Seq(Line), NEW g, Proper(g), NEW fs, Settles(lines, g, fs)
  PROVE  ReconcileGroup(lines, g, fs) = lines
<1> DEFINE l == g.label
<1>1. l \in Labels /\ g.lines \in Seq(Body)
  BY DEF Proper
<1>2. CASE HasGroup(lines, l) /\ ~Closed(lines, l)
  BY <1>2 DEF ReconcileGroup
<1>3. CASE ~HasGroup(lines, l)
  <2>1. CASE Wanted(l, fs)
    <3>1. EntriesOf(g.lines) \ EntriesOf(lines) = {}
      BY <1>3, <2>1 DEF Settles
    <3>2. EntriesOf(Without(g.lines, EntryLines(EntriesOf(lines)))) = {}
      BY <1>1, <3>1, WithoutEntries
    <3>3. AppendGroup(lines, g) = lines
      BY <3>2 DEF AppendGroup
    <3>. QED
      BY <1>3, <2>1, <3>3 DEF ReconcileGroup
  <2>2. CASE ~Wanted(l, fs)
    BY <1>3, <2>2 DEF ReconcileGroup
  <2>. QED
    BY <2>1, <2>2
<1>4. CASE Closed(lines, l)
  <2> DEFINE inside == Inside(lines, l)
             gone == EntryLines(EntriesOf(g.lines))
  <2>1. HasGroup(lines, l) /\ inside \in Seq(Body)
    BY <1>4, ClosedHasGroup, InsideIs
  <2>2. CASE Wanted(l, fs)
    <3>1. EntriesOf(inside) # {}
      BY <1>4, <2>2 DEF Settles
    <3>. QED
      BY <1>4, <2>1, <2>2, <3>1 DEF ReconcileGroup
  <2>3. CASE ~Wanted(l, fs)
    <3>1. EntriesOf(inside) \cap EntriesOf(g.lines) = {}
      BY <1>4, <2>3 DEF Settles
    <3>2. inside \in Seq(Line)
      BY <2>1, LineKinds
    <3> HIDE DEF inside
    <3>3. ASSUME NEW i \in DOMAIN inside PROVE inside[i] \notin gone
      <4> SUFFICES ASSUME inside[i] \in gone PROVE FALSE
        OBVIOUS
      <4>1. PICK d \in EntriesOf(g.lines) : inside[i] = Entry(d)
        BY DEF EntryLines
      <4>2. d \in EntriesOf(inside)
        BY <3>2, <4>1, EntriesAre
      <4>. QED
        BY <3>1, <4>1, <4>2
    <3>4. Without(inside, gone) = inside
      BY <2>1, <3>3, WithoutIs
    <3>5. EmptyGroup(lines, g) = lines
      BY <3>4 DEF EmptyGroup, inside, gone
    <3>. QED
      BY <1>4, <2>1, <2>3, <3>5 DEF ReconcileGroup
  <2>. QED
    BY <2>2, <2>3
<1>. QED
  BY <1>2, <1>3, <1>4

\* What one step of reconcile does to the file.
Reconciles(lines, new, g, fs) ==
  LET l == g.label IN
  /\ new \in Seq(Line)
  /\ SameElsewhere(lines, new, l)
  /\ HasGroup(lines, l) => HasGroup(new, l)
  /\ new = lines \/ HasGroup(new, l)
  /\ ~Wanted(l, fs) /\ Closed(new, l) =>
       Closed(lines, l) /\ EntriesOf(Inside(new, l)) \subseteq EntriesOf(Inside(lines, l)) \ EntriesOf(g.lines)
  /\ EntriesOf(lines) \ EntriesOf(g.lines) \subseteq EntriesOf(new)
  /\ EntriesOf(g.lines) # {} => Settles(new, g, fs)

\* A settled group that holds nothing it should not is reconciled by no change.
LEMMA LeftAlone ==
  ASSUME NEW lines \in Seq(Line), NEW g, NEW fs, Settles(lines, g, fs),
         ~Wanted(g.label, fs) /\ Closed(lines, g.label) => EntriesOf(Inside(lines, g.label)) \cap EntriesOf(g.lines) = {}
  PROVE  Reconciles(lines, lines, g, fs)
BY SameAsItself DEF Reconciles

\* The note emptyGroup may put in front has no entry.
LEMMA NoteOrNone ==
  ASSUME NEW l \in Labels, NEW P
  PROVE  LET note == IF P THEN <<Note(l)>> ELSE <<>> IN
         note \in Seq(Body) /\ note \in Seq(Line) /\ EntriesOf(note) = {}
<1>1. <<Note(l)>> \in Seq(Body) /\ <<Note(l)>> \in Seq(Line)
  BY LineKinds
<1>2. EntriesOf(<<Note(l)>>) = {}
  <2>1. Is(Note(l), "entry") = FALSE
    BY DEF Is, Note
  <2>2. \A i \in DOMAIN <<Note(l)>> : ~Is(<<Note(l)>>[i], "entry")
    <3>1. DOMAIN <<Note(l)>> = {1}
      OBVIOUS
    <3>. QED
      BY <2>1, <3>1
  <2>. QED
    BY <2>2 DEF EntriesOf
<1>3. <<>> \in Seq(Body) /\ <<>> \in Seq(Line) /\ EntriesOf(<<>>) = {}
  BY DEF EntriesOf
<1>. QED
  BY <1>1, <1>2, <1>3

\* reconcileGroup reconciles its group and keeps the others: one case for each
\* of its branches.
LEMMA GroupReconciled ==
  ASSUME NEW lines \in Seq(Line), NEW g, Proper(g), NEW fs
  PROVE  Reconciles(lines, ReconcileGroup(lines, g, fs), g, fs)
<1> DEFINE l == g.label
           inside == Inside(lines, l)
           new == ReconcileGroup(lines, g, fs)
           own == EntriesOf(g.lines)
<1>1. l \in Labels /\ g.lines \in Seq(Body) /\ g.lines \in Seq(Line)
  BY LineKinds DEF Proper
<1>2. CASE HasGroup(lines, l) /\ ~Closed(lines, l)
  <2>1. new = lines
    BY <1>2 DEF ReconcileGroup
  <2>2. Settles(lines, g, fs)
    BY <1>2 DEF Settles
  <2>. QED
    BY <1>2, <2>1, <2>2, LeftAlone
<1>3. CASE ~HasGroup(lines, l)
  <2>0. ~Closed(lines, l)
    BY <1>3, ClosedHasGroup
  <2>1. CASE ~Wanted(l, fs)
    <3>1. new = lines
      BY <1>3, <2>1 DEF ReconcileGroup
    <3>2. Settles(lines, g, fs)
      BY <2>0, <2>1 DEF Settles
    <3>. QED
      BY <2>0, <3>1, <3>2, LeftAlone
  <2>2. CASE Wanted(l, fs)
    <3> DEFINE missing == Without(g.lines, EntryLines(EntriesOf(lines)))
    <3>1. missing \in Seq(Body) /\ EntriesOf(missing) = own \ EntriesOf(lines)
      BY <1>1, WithoutEntries
    <3>2. new = IF EntriesOf(missing) = {} THEN lines
                ELSE WithGroup(lines, l, missing)
      BY <1>3, <2>2 DEF ReconcileGroup, AppendGroup, WithGroup
    <3> HIDE DEF missing, new
    <3>3. CASE EntriesOf(missing) = {}
      <4>1. new = lines /\ own \subseteq EntriesOf(lines)
        BY <3>1, <3>2, <3>3
      <4>2. Settles(lines, g, fs)
        BY <1>3, <2>0, <2>2, <4>1 DEF Settles
      <4>. QED
        BY <2>2, <4>1, <4>2, LeftAlone DEF new
    <3>4. CASE EntriesOf(missing) # {}
      <4>1. new = WithGroup(lines, l, missing)
        BY <3>2, <3>4
      <4>2. /\ new \in Seq(Line) /\ Closed(new, l)
            /\ EntriesOf(Inside(new, l)) = EntriesOf(missing)
            /\ SameElsewhere(lines, new, l)
            /\ EntriesOf(new) = EntriesOf(lines) \cup EntriesOf(missing)
        BY <1>1, <1>3, <3>1, <4>1, AppendIs
      <4>3. HasGroup(new, l)
        BY <4>2, ClosedHasGroup
      <4>4. Settles(new, g, fs)
        BY <2>2, <3>4, <4>2, <4>3 DEF Settles
      <4>5. EntriesOf(lines) \ own \subseteq EntriesOf(new)
        BY <4>2
      <4> HIDE DEF own
      <4>. QED
        BY <2>2, <4>2, <4>3, <4>4, <4>5 DEF Reconciles, new, own
    <3>. QED
      BY <3>3, <3>4
  <2>. QED
    BY <2>1, <2>2
<1>4. CASE Closed(lines, l)
  <2>0. HasGroup(lines, l) /\ inside \in Seq(Body) /\ inside \in Seq(Line)
    BY <1>4, ClosedHasGroup, InsideIs, LineKinds
  <2>1. CASE EntriesOf(inside) = {} /\ Wanted(l, fs)
    <3> DEFINE left == Without(inside, Notes)
               mid == left \o g.lines
    <3>1. left \in Seq(Body) /\ left \in Seq(Line) /\ EntriesOf(left) = {}
      BY <2>0, <2>1, WithoutNotes, LineKinds
    <3> HIDE DEF left
    <3>2. mid \in Seq(Body) /\ EntriesOf(mid) = own
      <4>1. EntriesOf(mid) = EntriesOf(left) \cup own
        BY <1>1, <3>1, JoinEntries
      <4>2. IsJoin(Body, mid, left, g.lines)
        BY <1>1, <3>1, JoinIs
      <4>. QED
        BY <3>1, <4>1, <4>2 DEF IsJoin
    <3>3. new = Replace(lines, l, mid)
      BY <1>4, <2>0, <2>1 DEF ReconcileGroup, RestoreGroup, left
    <3> HIDE DEF mid, new, inside
    <3>4. new \in Seq(Line) /\ Closed(new, l) /\ Inside(new, l) = mid /\ SameElsewhere(lines, new, l)
      BY <1>1, <1>4, <3>2, <3>3, ReplaceIs
    <3>5. HasGroup(new, l)
      BY <3>4, ClosedHasGroup
    <3>6. EntriesOf(lines) \subseteq EntriesOf(new)
      <4> SUFFICES ASSUME NEW d \in EntriesOf(lines) PROVE d \in EntriesOf(new)
        OBVIOUS
      <4>1. d \notin EntriesOf(Inside(lines, l))
        BY <2>1 DEF inside
      <4>. QED
        BY <1>1, <1>4, <3>2, <3>3, <4>1, ReplaceEntries
    <3>7. own # {} => Settles(new, g, fs)
      BY <2>1, <3>2, <3>4, <3>5 DEF Settles
    <3>. QED
      BY <2>1, <3>4, <3>5, <3>6, <3>7 DEF Reconciles, new
  <2>2. CASE EntriesOf(inside) = {} /\ ~Wanted(l, fs)
    <3>1. new = lines
      BY <1>4, <2>0, <2>2 DEF ReconcileGroup
    <3>2. Settles(lines, g, fs)
      BY <1>4, <2>0, <2>2 DEF Settles
    <3>. QED
      BY <2>2, <3>1, <3>2, LeftAlone
  <2>3. CASE EntriesOf(inside) # {} /\ Wanted(l, fs)
    <3>1. new = lines
      BY <1>4, <2>0, <2>3 DEF ReconcileGroup
    <3>2. Settles(lines, g, fs)
      BY <1>4, <2>0, <2>3 DEF Settles
    <3>. QED
      BY <2>3, <3>1, <3>2, LeftAlone
  <2>4. CASE EntriesOf(inside) # {} /\ ~Wanted(l, fs)
    <3> DEFINE kept == Without(inside, EntryLines(own))
               note == IF EntriesOf(kept) = {} /\ (\A i \in DOMAIN kept : ~Is(kept[i], "note"))
                       THEN <<Note(l)>> ELSE <<>>
               mid == note \o kept
    <3>1. kept \in Seq(Body) /\ kept \in Seq(Line) /\ EntriesOf(kept) = EntriesOf(inside) \ own
      BY <2>0, WithoutEntries, LineKinds
    <3>2. new = IF kept = inside THEN lines ELSE Replace(lines, l, mid)
      BY <1>4, <2>0, <2>4 DEF ReconcileGroup, EmptyGroup
    <3>3. CASE kept = inside
      <4>1. new = lines
        BY <3>2, <3>3
      <4>2. EntriesOf(inside) \cap own = {}
        BY <3>1, <3>3
      <4>3. Settles(lines, g, fs)
        BY <1>4, <2>0, <2>4, <4>2 DEF Settles
      <4>. QED
        BY <4>1, <4>2, <4>3, LeftAlone
    <3>4. CASE kept # inside
      <4>0. new = Replace(lines, l, mid)
        BY <3>2, <3>4
      <4>1. note \in Seq(Body) /\ note \in Seq(Line) /\ EntriesOf(note) = {}
        <5> HIDE DEF kept
        <5>. QED
          BY <1>1, NoteOrNone
      <4> HIDE DEF note, kept
      <4>2. mid \in Seq(Body) /\ EntriesOf(mid) = EntriesOf(kept)
        <5>1. EntriesOf(mid) = EntriesOf(note) \cup EntriesOf(kept)
          BY <3>1, <4>1, JoinEntries
        <5>2. IsJoin(Body, mid, note, kept)
          BY <3>1, <4>1, JoinIs
        <5>. QED
          BY <4>1, <5>1, <5>2 DEF IsJoin
      <4> HIDE DEF mid, new, inside
      <4>4. new \in Seq(Line) /\ Closed(new, l) /\ Inside(new, l) = mid /\ SameElsewhere(lines, new, l)
        BY <1>1, <1>4, <4>0, <4>2, ReplaceIs
      <4>5. HasGroup(new, l)
        BY <4>4, ClosedHasGroup
      <4>6. EntriesOf(lines) \ own \subseteq EntriesOf(new)
        <5> SUFFICES ASSUME NEW d \in EntriesOf(lines), d \notin own PROVE d \in EntriesOf(new)
          OBVIOUS
        <5>1. d \in EntriesOf(Inside(lines, l)) => d \in EntriesOf(mid)
          BY <3>1, <4>2 DEF inside
        <5>. QED
          BY <1>1, <1>4, <4>0, <4>2, <5>1, ReplaceEntries
      <4>7. EntriesOf(Inside(new, l)) = EntriesOf(Inside(lines, l)) \ own
        BY <3>1, <4>2, <4>4 DEF inside
      <4>8. Settles(new, g, fs)
        BY <2>4, <4>5, <4>7 DEF Settles
      <4>. QED
        BY <1>4, <2>4, <4>4, <4>5, <4>6, <4>7, <4>8 DEF Reconciles, new
    <3>. QED
      BY <3>3, <3>4
  <2>. QED
    BY <2>1, <2>2, <2>3, <2>4
<1>. QED
  BY <1>2, <1>3, <1>4

----------------------------------------------------------------------------
\* reconcile goes through the template's groups one after the other.
LEMMA ReconciledIs ==
  ASSUME NEW lines \in Seq(Line), NEW t \in Seq(Line), Valid(t), NEW fs
  PROVE  LET upTo == ReconciledUpTo(lines, t, fs) IN
         /\ upTo[0] = lines
         /\ \A i \in 0 .. Len(t) : upTo[i] \in Seq(Line)
         /\ \A i \in 1 .. Len(t) :
              /\ i \in Heads(t) => Reconciles(upTo[i - 1], upTo[i], GroupAt(t, i), fs)
              /\ i \in Heads(t) => upTo[i] = ReconcileGroup(upTo[i - 1], GroupAt(t, i), fs)
              /\ i \notin Heads(t) => upTo[i] = upTo[i - 1]
<1> DEFINE n == Len(t)
           V == Seq(Line)
           Done(v, i) == IF i \in Heads(t) THEN ReconcileGroup(v, GroupAt(t, i), fs) ELSE v
           IsUp(f) == f = [i \in 0 .. n |-> IF i = 0 THEN lines
                                            ELSE IF i \in Heads(t) THEN ReconcileGroup(f[i - 1], GroupAt(t, i), fs)
                                            ELSE f[i - 1]]
           upTo == CHOOSE f : IsUp(f)
           step == [i \in 1 .. n |-> [v \in V |-> Done(v, i)]]
<1>1. n \in Nat /\ lines \in V
  OBVIOUS
<1>2. ReconciledUpTo(lines, t, fs) = upTo
  BY DEF ReconciledUpTo
<1>3. ASSUME NEW v \in V, NEW i \in Heads(t) PROVE Reconciles(v, ReconcileGroup(v, GroupAt(t, i), fs), GroupAt(t, i), fs)
  BY GroupIs, GroupReconciled
<1>3a. \A v \in V, i \in Heads(t) : ReconcileGroup(v, GroupAt(t, i), fs) \in V
  BY <1>3 DEF Reconciles
<1> HIDE DEF n, V
<1>4. \A v \in V, i \in 1 .. n : Done(v, i) \in V
  BY <1>3a
<1>4a. step \in [1 .. n -> [V -> V]]
  <2> HIDE DEF Done
  <2>. QED
    BY <1>4
<1>4b. \A v \in V, i \in 1 .. n : step[i][v] = Done(v, i)
  <2> HIDE DEF Done
  <2>. QED
    OBVIOUS
<1> HIDE DEF step
<1>5. PICK f \in [0 .. n -> V] : f[0] = lines /\ \A i \in 1 .. n : f[i] = step[i][f[i - 1]]
  <2>1. step \in StepsOver(V, n)
    BY <1>4a DEF StepsOver
  <2>2. \E f : Stepwise(f, V, lines, step, n)
    BY <1>1, <2>1, StepByStep
  <2>. QED
    BY <2>2 DEF Stepwise
<1>6. \A i \in 1 .. n : i - 1 \in 0 .. n
  BY <1>1
<1>6a. \A i \in 1 .. n : f[i - 1] \in V
  BY <1>5, <1>6
<1>7. \A i \in 1 .. n : f[i] = Done(f[i - 1], i)
  <2> HIDE DEF Done
  <2> TAKE i \in 1 .. n
  <2>1. f[i] = step[i][f[i - 1]] /\ f[i - 1] \in V
    BY <1>5, <1>6a
  <2>. QED
    BY <1>4b, <2>1
<1>8. IsUp(f)
  <2>1. \A i \in 0 .. n : i = 0 \/ i \in 1 .. n
    BY <1>1
  <2>2. \A i \in 1 .. n : i # 0
    BY <1>1
  <2>3. \A i \in 0 .. n : f[i] = IF i = 0 THEN lines ELSE Done(f[i - 1], i)
    <3> HIDE DEF Done
    <3>. QED
      BY <1>5, <1>7, <2>1, <2>2
  <2>4. f = [i \in 0 .. n |-> f[i]]
    BY <1>5
  <2>. QED
    BY <2>3, <2>4
<1>9. IsUp(upTo)
  <2> HIDE DEF IsUp
  <2>. QED
    BY <1>8
<1> HIDE DEF upTo
<1>10. upTo[0] = lines /\ \A i \in 1 .. n : upTo[i] = Done(upTo[i - 1], i)
  <2>1. 0 \in 0 .. n /\ \A i \in 1 .. n : i \in 0 .. n /\ i # 0
    BY <1>1
  <2>. QED
    BY <1>9, <2>1
<1> HIDE DEF IsUp
<1> DEFINE T == {i \in Nat : i <= n => upTo[i] \in V}
<1>11. 0 \in T
  BY <1>1, <1>10
<1>12. ASSUME NEW k \in Nat, k \in T PROVE k + 1 \in T
  <2> SUFFICES ASSUME k + 1 <= n PROVE upTo[k + 1] \in V
    OBVIOUS
  <2>1. k + 1 \in 1 .. n /\ (k + 1) - 1 = k /\ upTo[k] \in V
    BY <1>1, <1>12
  <2>2. upTo[k + 1] = Done(upTo[k], k + 1)
    <3> HIDE DEF Done
    <3>. QED
      BY <1>10, <2>1
  <2> HIDE DEF Done
  <2>. QED
    BY <1>4, <2>1, <2>2
<1>13. \A i \in 0 .. n : upTo[i] \in V
  <2> HIDE DEF T
  <2>1. Nat \subseteq T
    BY <1>11, <1>12, Counting
  <2> USE DEF T
  <2>2. \A i \in 0 .. n : i \in Nat /\ i <= n
    BY <1>1
  <2>. QED
    BY <2>1, <2>2
<1>14. ASSUME NEW i \in 1 .. n
       PROVE  /\ i \in Heads(t) => Reconciles(upTo[i - 1], upTo[i], GroupAt(t, i), fs)
              /\ i \in Heads(t) => upTo[i] = ReconcileGroup(upTo[i - 1], GroupAt(t, i), fs)
              /\ i \notin Heads(t) => upTo[i] = upTo[i - 1]
  <2>1. upTo[i - 1] \in V /\ upTo[i] = Done(upTo[i - 1], i)
    <3> HIDE DEF Done
    <3>. QED
      BY <1>6, <1>10, <1>13
  <2>2. i \notin Heads(t) => upTo[i] = upTo[i - 1]
    BY <2>1
  <2>3. i \in Heads(t) => upTo[i] = ReconcileGroup(upTo[i - 1], GroupAt(t, i), fs)
    BY <2>1
  <2>. QED
    BY <1>3, <2>1, <2>2, <2>3
<1>. QED
  BY <1>2, <1>10, <1>13, <1>14 DEF V, n

\* A group not wanted holds none of its entries.
Gone(lines, g, fs) ==
  ~Wanted(g.label, fs) /\ Closed(lines, g.label) => EntriesOf(Inside(lines, g.label)) \cap EntriesOf(g.lines) = {}

\* No later step of reconcile brings back what an earlier one took out.
LEMMA StaysGone ==
  ASSUME NEW lines, NEW new, NEW g, NEW h, NEW fs, Reconciles(lines, new, h, fs), Proper(g), Gone(lines, g, fs)
  PROVE  Gone(new, g, fs)
<1> SUFFICES ASSUME ~Wanted(g.label, fs), Closed(new, g.label)
             PROVE  EntriesOf(Inside(new, g.label)) \cap EntriesOf(g.lines) = {}
  BY DEF Gone
<1>1. CASE g.label = h.label
  <2>1. Closed(lines, g.label) /\ EntriesOf(Inside(new, g.label)) \subseteq EntriesOf(Inside(lines, g.label))
    BY <1>1 DEF Reconciles
  <2>. QED
    BY <2>1 DEF Gone
<1>2. CASE g.label # h.label
  <2>1. SameInside(lines, new, g.label)
    BY <1>2 DEF Reconciles, SameElsewhere, Proper
  <2>2. Closed(lines, g.label) /\ Inside(new, g.label) = Inside(lines, g.label)
    BY <2>1 DEF SameInside
  <2>. QED
    BY <2>2 DEF Gone
<1>. QED
  BY <1>1, <1>2

\* A group just reconciled has none of the template's entries when not wanted.
LEMMA GoneAtOnce ==
  ASSUME NEW lines, NEW new, NEW g, NEW fs, Reconciles(lines, new, g, fs)
  PROVE  Gone(new, g, fs)
<1> SUFFICES ASSUME ~Wanted(g.label, fs), Closed(new, g.label)
             PROVE  EntriesOf(Inside(new, g.label)) \cap EntriesOf(g.lines) = {}
  BY DEF Gone
<1>1. EntriesOf(Inside(new, g.label)) \subseteq EntriesOf(Inside(lines, g.label)) \ EntriesOf(g.lines)
  BY DEF Reconciles
<1>. QED
  BY <1>1

\* reconcile leaves lines.
LEMMA ReconciledLines ==
  ASSUME NEW lines \in Seq(Line), NEW t \in Seq(Line), Valid(t), NEW fs
  PROVE  Reconcile(lines, t, fs) \in Seq(Line)
<1>1. Len(t) \in 0 .. Len(t)
  OBVIOUS
<1>2. ReconciledUpTo(lines, t, fs)[Len(t)] \in Seq(Line)
  BY <1>1, ReconciledIs
<1>. QED
  BY <1>2 DEF Reconcile

\* After reconcile every group not wanted is without the template's entries: each
\* is rid of them on its turn, and no later turn touches it.
LEMMA ReconciledGone ==
  ASSUME NEW lines \in Seq(Line), NEW t \in Seq(Line), Valid(t), NEW fs, NEW g \in Groups(t)
  PROVE  Reconcile(lines, t, fs) \in Seq(Line) /\ Gone(Reconcile(lines, t, fs), g, fs)
<1> DEFINE upTo == ReconciledUpTo(lines, t, fs)
           n == Len(t)
           G(k) == \A i \in Heads(t) : i <= k => Gone(upTo[k], GroupAt(t, i), fs)
           T == {k \in Nat : k <= n => G(k)}
<1>1. /\ n \in Nat /\ Heads(t) \subseteq 1 .. n
      /\ \A i \in 0 .. n : upTo[i] \in Seq(Line)
      /\ \A i \in 1 .. n :
           /\ i \in Heads(t) => Reconciles(upTo[i - 1], upTo[i], GroupAt(t, i), fs)
           /\ i \notin Heads(t) => upTo[i] = upTo[i - 1]
  BY ReconciledIs DEF Heads
<1> HIDE DEF upTo, n
<1>2. 0 \in T
  <2>1. \A i \in Heads(t) : ~(i <= 0)
    BY <1>1
  <2>. QED
    BY <2>1
<1>3. ASSUME NEW k \in Nat, k \in T PROVE k + 1 \in T
  <2> SUFFICES ASSUME k + 1 <= n, NEW i \in Heads(t), i <= k + 1 PROVE Gone(upTo[k + 1], GroupAt(t, i), fs)
    OBVIOUS
  <2>1. k + 1 \in 1 .. n /\ (k + 1) - 1 = k /\ G(k) /\ i \in 1 .. n
    BY <1>1, <1>3
  <2>2. CASE k + 1 \notin Heads(t)
    <3>1. i <= k
      BY <2>1, <2>2
    <3>2. upTo[k + 1] = upTo[k]
      BY <1>1, <2>1, <2>2
    <3>. QED
      BY <2>1, <3>1, <3>2
  <2>3. CASE k + 1 \in Heads(t)
    <3>1. Reconciles(upTo[k], upTo[k + 1], GroupAt(t, k + 1), fs)
      BY <1>1, <2>1, <2>3
    <3>2. CASE i = k + 1
      BY <3>1, <3>2, GoneAtOnce
    <3>3. CASE i <= k
      <4>1. Gone(upTo[k], GroupAt(t, i), fs)
        BY <2>1, <3>3
      <4>2. Proper(GroupAt(t, i))
        BY GroupIs
      <4>. QED
        BY <3>1, <4>1, <4>2, StaysGone
    <3>. QED
      BY <2>1, <3>2, <3>3
  <2>. QED
    BY <2>2, <2>3
<1>4. n \in T
  <2> HIDE DEF T
  <2>. QED
    BY <1>1, <1>2, <1>3, Counting
<1>5. PICK i \in Heads(t) : g = GroupAt(t, i)
  BY DEF Groups
<1>6. i <= n /\ n <= n /\ n \in 0 .. n
  BY <1>1
<1>7. Gone(upTo[n], g, fs)
  BY <1>4, <1>5, <1>6
<1>8. Reconcile(lines, t, fs) = upTo[n]
  BY DEF Reconcile, upTo, n
<1>. QED
  BY <1>1, <1>6, <1>7, <1>8

----------------------------------------------------------------------------
\* SeedFor goes through the template line by line.
Sofar == [keep : BOOLEAN, out : Seq(Line)]

\* What SeedFor does with one line, by its kind.
LEMMA SeedingIs ==
  ASSUME NEW s \in Sofar, NEW x \in Line, NEW fs
  PROVE  /\ Seeding(s, x, fs) \in Sofar
         /\ \/ /\ Is(x, "requires") /\ x.arg \in Labels /\ Wanted(x.arg, fs)
               /\ Seeding(s, x, fs).keep = TRUE /\ Seeding(s, x, fs).out = Append(s.out, x)
            \/ /\ Is(x, "requires") /\ x.arg \in Labels /\ ~Wanted(x.arg, fs)
               /\ Seeding(s, x, fs).keep = FALSE
               /\ Seeding(s, x, fs).out = Append(Append(s.out, x), Note(x.arg))
            \/ x = End /\ Seeding(s, x, fs).keep = TRUE /\ Seeding(s, x, fs).out = Append(s.out, x)
            \/ x \in Body /\ s.keep = TRUE /\ Seeding(s, x, fs).keep = TRUE /\ Seeding(s, x, fs).out = Append(s.out, x)
            \/ x \in Body /\ s.keep = FALSE /\ Seeding(s, x, fs) = s
<1>1. s.keep \in BOOLEAN /\ s.out \in Seq(Line)
  BY DEF Sofar
<1>2. \A y \in Line : Append(s.out, y) \in Seq(Line)
  BY <1>1
<1>3. \A k \in BOOLEAN, o \in Seq(Line) : [keep |-> k, out |-> o] \in Sofar
  BY DEF Sofar
<1>3a. \A k, o : [keep |-> k, out |-> o].keep = k /\ [keep |-> k, out |-> o].out = o
  OBVIOUS
<1>4. CASE Is(x, "requires")
  <2>1. x.arg \in Labels
    BY <1>4, LineOf
  <2>1a. Seeding(s, x, fs) = [keep |-> Wanted(x.arg, fs),
                             out |-> s.out \o <<x>> \o (IF Wanted(x.arg, fs) THEN <<>> ELSE <<Note(x.arg)>>)]
    <3> DEFINE r == [keep |-> Wanted(x.arg, fs),
                     out |-> s.out \o <<x>> \o (IF Wanted(x.arg, fs) THEN <<>> ELSE <<Note(x.arg)>>)]
    <3>1. Seeding(s, x, fs) = CASE Is(x, "requires") -> r
                                [] Is(x, "end") -> [keep |-> TRUE, out |-> Append(s.out, x)]
                                [] OTHER -> IF s.keep THEN [s EXCEPT !.out = Append(@, x)] ELSE s
      BY DEF Seeding
    <3>2. ~Is(x, "end")
      BY <1>4 DEF Is
    <3> HIDE DEF r
    <3>3. Seeding(s, x, fs) = r
      BY <1>4, <3>1, <3>2
    <3>. QED
      BY <3>3 DEF r
  <2>2. CASE Wanted(x.arg, fs)
    <3>1. s.out \o <<x>> \o <<>> = Append(s.out, x)
      BY <1>1
    <3>2. Wanted(x.arg, fs) = TRUE
      BY <2>2 DEF Wanted
    <3>3. Seeding(s, x, fs) = [keep |-> TRUE, out |-> Append(s.out, x)]
      BY <2>1a, <3>1, <3>2
    <3>4. Seeding(s, x, fs).keep = TRUE /\ Seeding(s, x, fs).out = Append(s.out, x)
      BY <1>3a, <3>3
    <3>5. Seeding(s, x, fs) \in Sofar
      BY <1>2, <1>3, <3>3
    <3>. QED
      BY <1>4, <2>1, <2>2, <3>4, <3>5
  <2>3. CASE ~Wanted(x.arg, fs)
    <3> DEFINE note == Note(x.arg)
    <3>0. note \in Line
      BY <2>1, LineKinds
    <3>2a. Wanted(x.arg, fs) = FALSE
      BY <2>3 DEF Wanted
    <3>2. Seeding(s, x, fs) = [keep |-> FALSE, out |-> s.out \o <<x>> \o <<note>>]
      BY <2>1a, <3>2a
    <3> HIDE DEF note
    <3>1. s.out \o <<x>> \o <<note>> = Append(Append(s.out, x), note)
      BY <1>1, <3>0
    <3>3. Seeding(s, x, fs) = [keep |-> FALSE, out |-> Append(Append(s.out, x), note)]
      BY <3>1, <3>2
    <3>4. Append(Append(s.out, x), note) \in Seq(Line)
      BY <1>1, <3>0
    <3>5. Seeding(s, x, fs) \in Sofar
      BY <1>3, <3>3, <3>4
    <3>6. Seeding(s, x, fs).keep = FALSE /\ Seeding(s, x, fs).out = Append(Append(s.out, x), note)
      BY <1>3a, <3>3
    <3>. QED
      BY <1>4, <2>1, <2>3, <3>5, <3>6 DEF note
  <2>. QED
    BY <2>2, <2>3
<1>5. CASE Is(x, "end")
  <2>1. x = End /\ ~Is(x, "requires")
    BY <1>5, LineOf DEF Is
  <2>2. Seeding(s, x, fs) = [keep |-> TRUE, out |-> Append(s.out, x)]
    BY <1>5, <2>1 DEF Seeding
  <2>3. Seeding(s, x, fs).keep = TRUE /\ Seeding(s, x, fs).out = Append(s.out, x)
    BY <1>3a, <2>2
  <2>4. Seeding(s, x, fs) \in Sofar
    BY <1>2, <1>3, <2>2
  <2>. QED
    BY <2>1, <2>3, <2>4
<1>6. CASE ~Is(x, "requires") /\ ~Is(x, "end")
  <2>1. x \in Body
    BY <1>6, LineOf
  <2>2. Seeding(s, x, fs) = IF s.keep THEN [s EXCEPT !.out = Append(@, x)] ELSE s
    BY <1>6 DEF Seeding
  <2>3. [s EXCEPT !.out = Append(@, x)] = [keep |-> s.keep, out |-> Append(s.out, x)]
    BY DEF Sofar
  <2>. QED
    BY <1>1, <1>2, <1>3, <2>1, <2>2, <2>3
<1>. QED
  BY <1>4, <1>5, <1>6

\* SeededUpTo as a recurrence.
LEMMA SeededIs ==
  ASSUME NEW lines \in Seq(Line), NEW fs
  PROVE  LET upTo == SeededUpTo(lines, fs) IN
         /\ upTo[0] = [keep |-> TRUE, out |-> <<>>]
         /\ \A i \in 0 .. Len(lines) : upTo[i] \in Sofar
         /\ \A i \in 1 .. Len(lines) : upTo[i] = Seeding(upTo[i - 1], lines[i], fs)
<1> DEFINE n == Len(lines)
           V == Sofar
           base == [keep |-> TRUE, out |-> <<>>]
           IsUp(f) == f = [i \in 0 .. n |-> IF i = 0 THEN base ELSE Seeding(f[i - 1], lines[i], fs)]
           upTo == CHOOSE f : IsUp(f)
           step == [i \in 1 .. n |-> [v \in V |-> Seeding(v, lines[i], fs)]]
<1>1. n \in Nat /\ base \in V
  BY DEF Sofar
<1>2. SeededUpTo(lines, fs) = upTo
  BY DEF SeededUpTo
<1>3. \A i \in 1 .. n : lines[i] \in Line
  OBVIOUS
<1> HIDE DEF n, V, base
<1>4. \A v \in V, i \in 1 .. n : Seeding(v, lines[i], fs) \in V
  BY <1>3, SeedingIs DEF V
<1>4a. step \in [1 .. n -> [V -> V]]
  BY <1>4
<1>4b. \A v \in V, i \in 1 .. n : step[i][v] = Seeding(v, lines[i], fs)
  OBVIOUS
<1> HIDE DEF step
<1>5. PICK f \in [0 .. n -> V] : f[0] = base /\ \A i \in 1 .. n : f[i] = step[i][f[i - 1]]
  <2>1. step \in StepsOver(V, n)
    BY <1>4a DEF StepsOver
  <2>2. \E f : Stepwise(f, V, base, step, n)
    BY <1>1, <2>1, StepByStep
  <2>. QED
    BY <2>2 DEF Stepwise
<1>6. \A i \in 1 .. n : i - 1 \in 0 .. n
  BY <1>1
<1>6a. \A i \in 1 .. n : f[i - 1] \in V
  BY <1>5, <1>6
<1>7. \A i \in 1 .. n : f[i] = Seeding(f[i - 1], lines[i], fs)
  BY <1>4b, <1>5, <1>6a
<1>8. IsUp(f)
  <2>1. \A i \in 0 .. n : i = 0 \/ i \in 1 .. n
    BY <1>1
  <2>2. \A i \in 1 .. n : i # 0
    BY <1>1
  <2>3. \A i \in 0 .. n : f[i] = IF i = 0 THEN base ELSE Seeding(f[i - 1], lines[i], fs)
    BY <1>5, <1>7, <2>1, <2>2
  <2>4. f = [i \in 0 .. n |-> f[i]]
    BY <1>5
  <2>. QED
    BY <2>3, <2>4
<1>9. IsUp(upTo)
  <2> HIDE DEF IsUp
  <2>. QED
    BY <1>8
<1> HIDE DEF upTo
<1>10. upTo[0] = base /\ \A i \in 1 .. n : upTo[i] = Seeding(upTo[i - 1], lines[i], fs)
  <2>1. 0 \in 0 .. n /\ \A i \in 1 .. n : i \in 0 .. n /\ i # 0
    BY <1>1
  <2>. QED
    BY <1>9, <2>1
<1> HIDE DEF IsUp
<1> DEFINE T == {i \in Nat : i <= n => upTo[i] \in V}
<1>11. 0 \in T
  BY <1>1, <1>10
<1>12. ASSUME NEW k \in Nat, k \in T PROVE k + 1 \in T
  <2> SUFFICES ASSUME k + 1 <= n PROVE upTo[k + 1] \in V
    OBVIOUS
  <2>1. k + 1 \in 1 .. n /\ (k + 1) - 1 = k /\ upTo[k] \in V
    BY <1>1, <1>12
  <2>2. upTo[k + 1] = Seeding(upTo[k], lines[k + 1], fs)
    BY <1>10, <2>1
  <2>. QED
    BY <1>4, <2>1, <2>2
<1>13. \A i \in 0 .. n : upTo[i] \in V
  <2> HIDE DEF T
  <2>1. Nat \subseteq T
    BY <1>11, <1>12, Counting
  <2> USE DEF T
  <2>2. \A i \in 0 .. n : i \in Nat /\ i <= n
    BY <1>1
  <2>. QED
    BY <2>1, <2>2
<1>. QED
  BY <1>2, <1>10, <1>13 DEF V, n, base

----------------------------------------------------------------------------
\* The marker a line is below; the entries of the first lines that are below a
\* label's markers, and those below no such marker.
Above(lines, i, p) == p \in 1 .. i - 1 /\ IsMarker(lines[p]) /\ \A m \in p + 1 .. i - 1 : ~IsMarker(lines[m])
Under(lines, n, l) ==
  {d \in Entries : \E i \in 1 .. n : lines[i] = Entry(d) /\ \E p \in 1 .. i - 1 : Above(lines, i, p) /\ lines[p] = Requires(l)}
Free(lines, n) ==
  {d \in Entries : \E i \in 1 .. n : lines[i] = Entry(d) /\ \A p \in 1 .. i - 1 : Above(lines, i, p) => lines[p] = End}

\* A label is marked; no label twice; and no group without its end.
Marked(lines, n, l) == \E i \in 1 .. n : lines[i] = Requires(l)
Once(lines, n) == \A l \in Labels : \A i, j \in 1 .. n : lines[i] = Requires(l) /\ lines[j] = Requires(l) => i = j
Finished(lines, n) == \A p : Above(lines, n + 1, p) => lines[p] = End
Ended(lines, n) ==
  \A i \in 1 .. n : \A p \in 1 .. i - 1 : Above(lines, i, p) /\ Is(lines[p], "requires") /\ IsMarker(lines[i]) => lines[i] = End

\* A line has one marker above it.
LEMMA AboveOne ==
  ASSUME NEW lines, NEW i \in Nat, NEW p, NEW q, Above(lines, i, p), Above(lines, i, q)
  PROVE  p = q
<1>1. ~(p < q) /\ ~(q < p)
  BY DEF Above
<1>. QED
  BY <1>1 DEF Above

\* What lines tell of depends on those lines only.
LEMMA SameLines ==
  ASSUME NEW lines, NEW new, NEW n \in Nat, \A i \in 1 .. n : new[i] = lines[i]
  PROVE  /\ \A l : Under(new, n, l) = Under(lines, n, l)
         /\ Free(new, n) = Free(lines, n)
         /\ \A l : Marked(lines, n, l) => Marked(new, n, l)
         /\ \A l : Marked(new, n, l) => Marked(lines, n, l)
         /\ Once(lines, n) => Once(new, n)
         /\ Ended(lines, n) => Ended(new, n)
         /\ \A p : Above(lines, n + 1, p) => Above(new, n + 1, p) /\ new[p] = lines[p]
         /\ \A p : Above(new, n + 1, p) => Above(lines, n + 1, p)
<1>1. ASSUME NEW i \in 1 .. n + 1, NEW p
      PROVE  /\ Above(lines, i, p) => Above(new, i, p) /\ new[p] = lines[p]
             /\ Above(new, i, p) => Above(lines, i, p) /\ new[p] = lines[p]
  <2>1. p \in 1 .. i - 1 => p \in 1 .. n /\ \A m \in p + 1 .. i - 1 : m \in 1 .. n
    OBVIOUS
  <2>. QED
    BY <2>1 DEF Above
<1>2. \A i \in 1 .. n : i \in 1 .. n + 1 /\ \A p \in 1 .. i - 1 : p \in 1 .. n
  OBVIOUS
<1>3. ASSUME NEW l PROVE Under(new, n, l) = Under(lines, n, l)
  BY <1>1, <1>2 DEF Under
<1>4. Free(new, n) = Free(lines, n)
  BY <1>1, <1>2 DEF Free
<1>5. Ended(lines, n) => Ended(new, n)
  BY <1>1, <1>2 DEF Ended
<1>. QED
  BY <1>1, <1>3, <1>4, <1>5 DEF Marked, Once

\* A line more.
LEMMA LineMore ==
  ASSUME NEW lines, NEW n \in Nat
  PROVE  /\ (\A d : lines[n + 1] # Entry(d)) =>
              (\A l : Under(lines, n + 1, l) = Under(lines, n, l)) /\ Free(lines, n + 1) = Free(lines, n)
         /\ \A d \in Entries : lines[n + 1] = Entry(d) =>
              /\ \A l : Under(lines, n + 1, l) =
                          Under(lines, n, l) \cup
                          (IF \E p \in 1 .. n : Above(lines, n + 1, p) /\ lines[p] = Requires(l) THEN {d} ELSE {})
              /\ Free(lines, n + 1) =
                   Free(lines, n) \cup (IF \A p \in 1 .. n : Above(lines, n + 1, p) => lines[p] = End THEN {d} ELSE {})
<1>1. (n + 1) - 1 = n /\ n + 1 \in 1 .. n + 1 /\ (\A i \in 1 .. n : i \in 1 .. n + 1)
      /\ \A i \in 1 .. n + 1 : i \in 1 .. n \/ i = n + 1
  OBVIOUS
<1>2. ASSUME \A d : lines[n + 1] # Entry(d), NEW l
      PROVE  Under(lines, n + 1, l) = Under(lines, n, l) /\ Free(lines, n + 1) = Free(lines, n)
  BY <1>1, <1>2 DEF Under, Free
<1>3. ASSUME \A d : lines[n + 1] # Entry(d)
      PROVE  Free(lines, n + 1) = Free(lines, n)
  BY <1>1, <1>3 DEF Free
<1>4. ASSUME NEW d \in Entries, lines[n + 1] = Entry(d), NEW l
      PROVE  Under(lines, n + 1, l) =
               Under(lines, n, l) \cup
               (IF \E p \in 1 .. n : Above(lines, n + 1, p) /\ lines[p] = Requires(l) THEN {d} ELSE {})
  <2>1. \A c : lines[n + 1] = Entry(c) => c = d
    BY <1>4, EntryNames
  <2>2. ASSUME NEW c \in Entries
        PROVE  /\ c \in Under(lines, n + 1, l) =>
                    c \in Under(lines, n, l) \/ (c = d /\ \E p \in 1 .. n : Above(lines, n + 1, p) /\ lines[p] = Requires(l))
               /\ c \in Under(lines, n, l) => c \in Under(lines, n + 1, l)
    BY <1>1, <2>1 DEF Under
  <2>3. (\E p \in 1 .. n : Above(lines, n + 1, p) /\ lines[p] = Requires(l)) => d \in Under(lines, n + 1, l)
    BY <1>1, <1>4 DEF Under
  <2>4. Under(lines, n + 1, l) \subseteq Entries /\ Under(lines, n, l) \subseteq Entries
    BY DEF Under
  <2>. QED
    BY <2>2, <2>3, <2>4
<1>5. ASSUME NEW d \in Entries, lines[n + 1] = Entry(d)
      PROVE  Free(lines, n + 1) =
               Free(lines, n) \cup (IF \A p \in 1 .. n : Above(lines, n + 1, p) => lines[p] = End THEN {d} ELSE {})
  <2>1. \A c : lines[n + 1] = Entry(c) => c = d
    BY <1>5, EntryNames
  <2>2. ASSUME NEW c \in Entries
        PROVE  /\ c \in Free(lines, n + 1) =>
                    c \in Free(lines, n) \/ (c = d /\ \A p \in 1 .. n : Above(lines, n + 1, p) => lines[p] = End)
               /\ c \in Free(lines, n) => c \in Free(lines, n + 1)
    BY <1>1, <2>1 DEF Free
  <2>3. (\A p \in 1 .. n : Above(lines, n + 1, p) => lines[p] = End) => d \in Free(lines, n + 1)
    BY <1>1, <1>5 DEF Free
  <2>4. Free(lines, n + 1) \subseteq Entries /\ Free(lines, n) \subseteq Entries
    BY DEF Free
  <2>. QED
    BY <2>2, <2>3, <2>4
<1>. QED
  BY <1>2, <1>3, <1>4, <1>5

\* What one more line changes of the markers.
LEMMA MarksMore ==
  ASSUME NEW lines, NEW n \in Nat
  PROVE  /\ \A l : Marked(lines, n, l) => Marked(lines, n + 1, l)
         /\ \A l : lines[n + 1] = Requires(l) => Marked(lines, n + 1, l)
         /\ \A l : Marked(lines, n + 1, l) => Marked(lines, n, l) \/ lines[n + 1] = Requires(l)
         /\ Once(lines, n + 1) => Once(lines, n) /\ \A l \in Labels : lines[n + 1] = Requires(l) => ~Marked(lines, n, l)
         /\ Once(lines, n) /\ (\A l \in Labels : lines[n + 1] = Requires(l) => ~Marked(lines, n, l)) => Once(lines, n + 1)
         /\ Ended(lines, n + 1) =>
              /\ Ended(lines, n)
              /\ \A p : Above(lines, n + 1, p) /\ Is(lines[p], "requires") /\ IsMarker(lines[n + 1]) => lines[n + 1] = End
         /\ /\ Ended(lines, n)
            /\ \A p : Above(lines, n + 1, p) /\ Is(lines[p], "requires") /\ IsMarker(lines[n + 1]) => lines[n + 1] = End
            => Ended(lines, n + 1)
<1>1. /\ (n + 1) - 1 = n /\ n + 1 \in 1 .. n + 1 /\ (\A i \in 1 .. n : i \in 1 .. n + 1 /\ i # n + 1)
      /\ \A i \in 1 .. n + 1 : i \in 1 .. n \/ i = n + 1
  OBVIOUS
<1>2. \A p : Above(lines, n + 1, p) => p \in 1 .. n
  BY <1>1 DEF Above
<1>3. /\ \A l : Marked(lines, n, l) => Marked(lines, n + 1, l)
      /\ \A l : lines[n + 1] = Requires(l) => Marked(lines, n + 1, l)
      /\ \A l : Marked(lines, n + 1, l) => Marked(lines, n, l) \/ lines[n + 1] = Requires(l)
  BY <1>1 DEF Marked
<1>4. Once(lines, n + 1) => Once(lines, n) /\ \A l \in Labels : lines[n + 1] = Requires(l) => ~Marked(lines, n, l)
  BY <1>1 DEF Once, Marked
<1>5. Once(lines, n) /\ (\A l \in Labels : lines[n + 1] = Requires(l) => ~Marked(lines, n, l)) => Once(lines, n + 1)
  BY <1>1 DEF Once, Marked
<1>6. Ended(lines, n + 1) =>
        /\ Ended(lines, n)
        /\ \A p : Above(lines, n + 1, p) /\ Is(lines[p], "requires") /\ IsMarker(lines[n + 1]) => lines[n + 1] = End
  BY <1>1, <1>2 DEF Ended
<1>7. /\ Ended(lines, n)
      /\ \A p : Above(lines, n + 1, p) /\ Is(lines[p], "requires") /\ IsMarker(lines[n + 1]) => lines[n + 1] = End
      => Ended(lines, n + 1)
  BY <1>1, <1>2 DEF Ended
<1>. QED
  BY <1>3, <1>4, <1>5, <1>6, <1>7

\* What one more line changes of the marker above.
LEMMA AboveMore ==
  ASSUME NEW lines, NEW n \in Nat
  PROVE  /\ IsMarker(lines[n + 1]) => /\ Above(lines, n + 1 + 1, n + 1)
                                     /\ \A p : Above(lines, n + 1 + 1, p) => p = n + 1
         /\ ~IsMarker(lines[n + 1]) => /\ \A p : Above(lines, n + 1 + 1, p) => Above(lines, n + 1, p)
                                      /\ \A p : Above(lines, n + 1, p) => Above(lines, n + 1 + 1, p)
<1>1. /\ (n + 1 + 1) - 1 = n + 1 /\ (n + 1) - 1 = n /\ n + 1 \in 1 .. n + 1
      /\ (\A m \in n + 1 + 1 .. n + 1 : FALSE)
  OBVIOUS
<1>2. ASSUME NEW p \in 1 .. n + 1
      PROVE  p = n + 1 \/ (p \in 1 .. n /\ n + 1 \in p + 1 .. n + 1 /\ (\A m \in p + 1 .. n + 1 : m \in p + 1 .. n \/ m = n + 1)
                          /\ \A m \in p + 1 .. n : m \in p + 1 .. n + 1)
  OBVIOUS
<1>3. \A p \in 1 .. n : p \in 1 .. n + 1 /\ p # n + 1
  OBVIOUS
<1>4. IsMarker(lines[n + 1]) => Above(lines, n + 1 + 1, n + 1)
  BY <1>1 DEF Above
<1>5. ASSUME IsMarker(lines[n + 1]), NEW p, Above(lines, n + 1 + 1, p) PROVE p = n + 1
  <2>1. p \in 1 .. n + 1 /\ \A m \in p + 1 .. n + 1 : ~IsMarker(lines[m])
    BY <1>1, <1>5 DEF Above
  <2>. QED
    BY <1>2, <1>5, <2>1
<1>6. ASSUME ~IsMarker(lines[n + 1]), NEW p
      PROVE  /\ Above(lines, n + 1 + 1, p) => Above(lines, n + 1, p)
             /\ Above(lines, n + 1, p) => Above(lines, n + 1 + 1, p)
  <2>1. Above(lines, n + 1 + 1, p) => Above(lines, n + 1, p)
    <3> SUFFICES ASSUME Above(lines, n + 1 + 1, p) PROVE Above(lines, n + 1, p)
      OBVIOUS
    <3>1. p \in 1 .. n + 1 /\ IsMarker(lines[p]) /\ \A m \in p + 1 .. n + 1 : ~IsMarker(lines[m])
      BY <1>1 DEF Above
    <3>2. p # n + 1
      BY <1>6, <3>1
    <3>. QED
      BY <1>1, <1>2, <3>1, <3>2 DEF Above
  <2>2. Above(lines, n + 1, p) => Above(lines, n + 1 + 1, p)
    <3> SUFFICES ASSUME Above(lines, n + 1, p) PROVE Above(lines, n + 1 + 1, p)
      OBVIOUS
    <3>1. p \in 1 .. n /\ IsMarker(lines[p]) /\ \A m \in p + 1 .. n : ~IsMarker(lines[m])
      BY <1>1 DEF Above
    <3>. QED
      BY <1>1, <1>2, <1>3, <1>6, <3>1 DEF Above
  <2>. QED
    BY <2>1, <2>2
<1>. QED
  BY <1>4, <1>5, <1>6

----------------------------------------------------------------------------
\* What has been written, and whether what follows is kept, against the lines read.
Alike(t, k, s, fs) ==
  \/ /\ \A p : ~Above(t, k + 1, p)
     /\ \A q : ~Above(s.out, Len(s.out) + 1, q)
     /\ s.keep = TRUE
  \/ \E p, q : /\ Above(t, k + 1, p) /\ Above(s.out, Len(s.out) + 1, q) /\ t[p] = s.out[q]
               /\ s.keep = (t[p] = End \/ Wanted(t[p].arg, fs))

SeedInv(t, k, s, fs) ==
  /\ Alike(t, k, s, fs)
  /\ Free(s.out, Len(s.out)) = Free(t, k)
  /\ \A l \in Labels : Under(s.out, Len(s.out), l) = IF Wanted(l, fs) THEN Under(t, k, l) ELSE {}
  /\ \A l \in Labels : Marked(s.out, Len(s.out), l) => Marked(t, k, l)
  /\ \A l \in Labels : Marked(t, k, l) => Marked(s.out, Len(s.out), l)
  /\ Once(t, k) => Once(s.out, Len(s.out))
  /\ Ended(t, k) => Ended(s.out, Len(s.out))

\* One line written.
LEMMA OutMore ==
  ASSUME NEW out \in Seq(Line), NEW x \in Line
  PROVE  LET new == Append(out, x) IN
         /\ new \in Seq(Line) /\ Len(new) = Len(out) + 1 /\ new[Len(out) + 1] = x /\ Len(out) \in Nat
         /\ \A i \in 1 .. Len(out) : new[i] = out[i]
OBVIOUS

\* Markers, notes and text are no entry.
LEMMA NoEntry ==
  ASSUME NEW x, IsMarker(x) \/ Is(x, "note") \/ Is(x, "text") PROVE \A d : x # Entry(d)
BY DEF IsMarker, Is, Entry

\* A marker is written as it is.
LEMMA SeedMarker ==
  ASSUME NEW t \in Seq(Line), NEW k \in Nat, k + 1 <= Len(t), NEW s \in Sofar, NEW fs, SeedInv(t, k, s, fs),
         IsMarker(t[k + 1]), NEW r, r.out = Append(s.out, t[k + 1]),
         r.keep = (t[k + 1] = End \/ Wanted(t[k + 1].arg, fs))
  PROVE  SeedInv(t, k + 1, r, fs)
<1> DEFINE x == t[k + 1]
           out == s.out
           n == Len(out)
           new == r.out
<1>1. out \in Seq(Line) /\ x \in Line /\ k + 1 \in Nat
  <2>1. k + 1 \in 1 .. Len(t)
    OBVIOUS
  <2>. QED
    BY <2>1 DEF Sofar
<1>2. /\ new \in Seq(Line) /\ Len(new) = n + 1 /\ new[n + 1] = x /\ n \in Nat
      /\ \A i \in 1 .. n : new[i] = out[i]
  BY <1>1, OutMore
<1>3. Alike(t, k, s, fs)
  BY DEF SeedInv
<1>4. Free(out, n) = Free(t, k) /\ \A l \in Labels : Under(out, n, l) = IF Wanted(l, fs) THEN Under(t, k, l) ELSE {}
  BY DEF SeedInv
<1>5. /\ \A l \in Labels : Marked(out, n, l) => Marked(t, k, l)
      /\ \A l \in Labels : Marked(t, k, l) => Marked(out, n, l)
      /\ Once(t, k) => Once(out, n)
      /\ Ended(t, k) => Ended(out, n)
  BY DEF SeedInv
<1>6. IsMarker(x) /\ \A d : x # Entry(d)
  BY NoEntry
<1> HIDE DEF x, out, n, new
<1>7. /\ \A l : Under(new, n, l) = Under(out, n, l)
      /\ Free(new, n) = Free(out, n)
      /\ \A l : Marked(out, n, l) => Marked(new, n, l)
      /\ \A l : Marked(new, n, l) => Marked(out, n, l)
      /\ Once(out, n) => Once(new, n)
      /\ Ended(out, n) => Ended(new, n)
      /\ \A q : Above(new, n + 1, q) => Above(out, n + 1, q)
      /\ \A q : Above(out, n + 1, q) => Above(new, n + 1, q) /\ new[q] = out[q]
  BY <1>2, SameLines
<1>8. Free(new, n + 1) = Free(new, n) /\ \A l : Under(new, n + 1, l) = Under(new, n, l)
  BY <1>2, <1>6, LineMore
<1>9. Free(t, k + 1) = Free(t, k) /\ \A l : Under(t, k + 1, l) = Under(t, k, l)
  BY <1>6, LineMore DEF x
<1>10. ASSUME NEW l \in Labels
       PROVE  /\ Marked(new, n + 1, l) => Marked(t, k + 1, l)
              /\ Marked(t, k + 1, l) => Marked(new, n + 1, l)
  <2>1. /\ Marked(new, n, l) => Marked(new, n + 1, l)
        /\ x = Requires(l) => Marked(new, n + 1, l)
        /\ Marked(new, n + 1, l) => Marked(new, n, l) \/ x = Requires(l)
    BY <1>2, MarksMore
  <2>2. /\ Marked(t, k, l) => Marked(t, k + 1, l)
        /\ x = Requires(l) => Marked(t, k + 1, l)
        /\ Marked(t, k + 1, l) => Marked(t, k, l) \/ x = Requires(l)
    BY MarksMore DEF x
  <2>. QED
    BY <1>5, <1>7, <2>1, <2>2
<1>11. Once(t, k + 1) => Once(new, n + 1)
  <2>1. Once(t, k + 1) => Once(t, k) /\ \A l \in Labels : x = Requires(l) => ~Marked(t, k, l)
    BY MarksMore DEF x
  <2>2. Once(new, n) /\ (\A l \in Labels : x = Requires(l) => ~Marked(new, n, l)) => Once(new, n + 1)
    BY <1>2, MarksMore
  <2>. QED
    BY <1>5, <1>7, <2>1, <2>2
<1>12. Ended(t, k + 1) => Ended(new, n + 1)
  <2> SUFFICES ASSUME Ended(t, k + 1) PROVE Ended(new, n + 1)
    OBVIOUS
  <2>1. Ended(t, k) /\ \A p : Above(t, k + 1, p) /\ Is(t[p], "requires") => x = End
    BY <1>6, MarksMore DEF x
  <2>2. ASSUME NEW q, Above(new, n + 1, q), Is(new[q], "requires") PROVE x = End
    <3>1. Above(out, n + 1, q) /\ new[q] = out[q]
      BY <1>7, <2>2
    <3>2. PICK p, y : Above(t, k + 1, p) /\ Above(out, n + 1, y) /\ t[p] = out[y]
      BY <1>3, <3>1 DEF Alike, out, n
    <3>3. y = q
      BY <1>2, <3>1, <3>2, AboveOne
    <3>. QED
      BY <2>1, <2>2, <3>1, <3>2, <3>3
  <2>3. Ended(new, n)
    BY <1>5, <1>7, <2>1
  <2>. QED
    BY <1>2, <2>2, <2>3, MarksMore
<1>13. Alike(t, k + 1, r, fs)
  <2>1. Above(t, k + 1 + 1, k + 1)
    BY <1>6, AboveMore DEF x
  <2>2. Above(new, n + 1 + 1, n + 1)
    BY <1>2, <1>6, AboveMore
  <2>3. Above(r.out, Len(r.out) + 1, n + 1) /\ t[k + 1] = r.out[n + 1]
    BY <1>2, <2>2 DEF new, x
  <2>. QED
    BY <2>1, <2>3 DEF Alike
<1>14. Free(r.out, Len(r.out)) = Free(t, k + 1)
  BY <1>2, <1>4, <1>7, <1>8, <1>9 DEF new
<1>15. \A l \in Labels : Under(r.out, Len(r.out), l) = IF Wanted(l, fs) THEN Under(t, k + 1, l) ELSE {}
  BY <1>2, <1>4, <1>7, <1>8, <1>9 DEF new
<1>16. Len(r.out) = n + 1 /\ r.out = new
  BY <1>2 DEF new
<1>. QED
  BY <1>10, <1>11, <1>12, <1>13, <1>14, <1>15, <1>16 DEF SeedInv

\* Writing a line that is no marker and no entry changes nothing.
LEMMA SeedNote ==
  ASSUME NEW t \in Seq(Line), NEW k \in Nat, NEW s \in Sofar, NEW fs, SeedInv(t, k, s, fs),
         NEW y \in Body, \A d : y # Entry(d), NEW r, r.out = Append(s.out, y), r.keep = s.keep
  PROVE  SeedInv(t, k, r, fs)
<1> DEFINE out == s.out
           n == Len(out)
           new == r.out
<1>1. out \in Seq(Line) /\ y \in Line /\ ~IsMarker(y) /\ \A l : y # Requires(l)
  BY LineKinds, Markers DEF Sofar
<1>2. /\ new \in Seq(Line) /\ Len(new) = n + 1 /\ new[n + 1] = y /\ n \in Nat
      /\ \A i \in 1 .. n : new[i] = out[i]
  BY <1>1, OutMore
<1>3. Alike(t, k, s, fs)
  BY DEF SeedInv
<1>4. Free(out, n) = Free(t, k) /\ \A l \in Labels : Under(out, n, l) = IF Wanted(l, fs) THEN Under(t, k, l) ELSE {}
  BY DEF SeedInv
<1>5. /\ \A l \in Labels : Marked(out, n, l) => Marked(t, k, l)
      /\ \A l \in Labels : Marked(t, k, l) => Marked(out, n, l)
      /\ Once(t, k) => Once(out, n)
      /\ Ended(t, k) => Ended(out, n)
  BY DEF SeedInv
<1> HIDE DEF out, n, new
<1>7. /\ \A l : Under(new, n, l) = Under(out, n, l)
      /\ Free(new, n) = Free(out, n)
      /\ \A l : Marked(out, n, l) => Marked(new, n, l)
      /\ \A l : Marked(new, n, l) => Marked(out, n, l)
      /\ Once(out, n) => Once(new, n)
      /\ Ended(out, n) => Ended(new, n)
      /\ \A q : Above(new, n + 1, q) => Above(out, n + 1, q)
      /\ \A q : Above(out, n + 1, q) => Above(new, n + 1, q) /\ new[q] = out[q]
  BY <1>2, SameLines
<1>8. Free(new, n + 1) = Free(new, n) /\ \A l : Under(new, n + 1, l) = Under(new, n, l)
  BY <1>2, LineMore
<1>10. \A l \in Labels : /\ Marked(new, n + 1, l) => Marked(t, k, l)
                         /\ Marked(t, k, l) => Marked(new, n + 1, l)
  <2>1. \A l : /\ Marked(new, n, l) => Marked(new, n + 1, l)
               /\ Marked(new, n + 1, l) => Marked(new, n, l)
    BY <1>1, <1>2, MarksMore
  <2>. QED
    BY <1>5, <1>7, <2>1
<1>11. Once(t, k) => Once(new, n + 1)
  BY <1>1, <1>2, <1>5, <1>7, MarksMore
<1>12. Ended(t, k) => Ended(new, n + 1)
  BY <1>1, <1>2, <1>5, <1>7, MarksMore
<1>13. Alike(t, k, r, fs)
  <2>1. /\ \A q : Above(new, n + 1 + 1, q) => Above(new, n + 1, q)
        /\ \A q : Above(new, n + 1, q) => Above(new, n + 1 + 1, q)
    BY <1>1, <1>2, AboveMore
  <2>2. Len(r.out) + 1 = n + 1 + 1 /\ r.out = new /\ s.out = out /\ Len(s.out) + 1 = n + 1
    BY <1>2 DEF new, out, n
  <2>3. CASE /\ \A p : ~Above(t, k + 1, p)
             /\ \A q : ~Above(out, n + 1, q)
             /\ s.keep = TRUE
    BY <1>7, <2>1, <2>2, <2>3 DEF Alike
  <2>4. CASE \E p, q : /\ Above(t, k + 1, p) /\ Above(out, n + 1, q) /\ t[p] = out[q]
                       /\ s.keep = (t[p] = End \/ Wanted(t[p].arg, fs))
    <3>1. PICK p, q : /\ Above(t, k + 1, p) /\ Above(out, n + 1, q) /\ t[p] = out[q]
                      /\ s.keep = (t[p] = End \/ Wanted(t[p].arg, fs))
      BY <2>4
    <3>2. Above(r.out, Len(r.out) + 1, q) /\ t[p] = r.out[q]
      BY <1>7, <2>1, <2>2, <3>1
    <3>. QED
      BY <3>1, <3>2 DEF Alike
  <2>. QED
    BY <1>3, <2>2, <2>3, <2>4 DEF Alike
<1>14. Free(r.out, Len(r.out)) = Free(t, k)
  BY <1>2, <1>4, <1>7, <1>8 DEF new
<1>15. \A l \in Labels : Under(r.out, Len(r.out), l) = IF Wanted(l, fs) THEN Under(t, k, l) ELSE {}
  BY <1>2, <1>4, <1>7, <1>8 DEF new
<1>16. Len(r.out) = n + 1 /\ r.out = new
  BY <1>2 DEF new
<1>. QED
  BY <1>10, <1>11, <1>12, <1>13, <1>14, <1>15, <1>16 DEF SeedInv

\* A line that is kept is written as it is.
LEMMA SeedKeep ==
  ASSUME NEW t \in Seq(Line), NEW k \in Nat, k + 1 <= Len(t), NEW s \in Sofar, NEW fs, SeedInv(t, k, s, fs),
         t[k + 1] \in Body, s.keep = TRUE, NEW r, r.out = Append(s.out, t[k + 1]), r.keep = TRUE
  PROVE  SeedInv(t, k + 1, r, fs)
<1> DEFINE x == t[k + 1]
           out == s.out
           n == Len(out)
           new == r.out
<1>1. out \in Seq(Line) /\ x \in Line /\ ~IsMarker(x) /\ \A l : x # Requires(l)
  BY LineKinds, Markers DEF Sofar
<1>2. /\ new \in Seq(Line) /\ Len(new) = n + 1 /\ new[n + 1] = x /\ n \in Nat
      /\ \A i \in 1 .. n : new[i] = out[i]
  BY <1>1, OutMore
<1>3. Alike(t, k, s, fs)
  BY DEF SeedInv
<1>4. Free(out, n) = Free(t, k) /\ \A l \in Labels : Under(out, n, l) = IF Wanted(l, fs) THEN Under(t, k, l) ELSE {}
  BY DEF SeedInv
<1>5. /\ \A l \in Labels : Marked(out, n, l) => Marked(t, k, l)
      /\ \A l \in Labels : Marked(t, k, l) => Marked(out, n, l)
      /\ Once(t, k) => Once(out, n)
      /\ Ended(t, k) => Ended(out, n)
  BY DEF SeedInv
<1> HIDE DEF x, out, n, new
<1>7. /\ \A l : Under(new, n, l) = Under(out, n, l)
      /\ Free(new, n) = Free(out, n)
      /\ \A l : Marked(out, n, l) => Marked(new, n, l)
      /\ \A l : Marked(new, n, l) => Marked(out, n, l)
      /\ Once(out, n) => Once(new, n)
      /\ Ended(out, n) => Ended(new, n)
      /\ \A q : Above(new, n + 1, q) => Above(out, n + 1, q)
      /\ \A q : Above(out, n + 1, q) => Above(new, n + 1, q) /\ new[q] = out[q]
  BY <1>2, SameLines
<1>8. \A l \in Labels : /\ Marked(new, n + 1, l) => Marked(t, k + 1, l)
                        /\ Marked(t, k + 1, l) => Marked(new, n + 1, l)
  <2>1. \A l : /\ Marked(new, n, l) => Marked(new, n + 1, l)
               /\ Marked(new, n + 1, l) => Marked(new, n, l)
    BY <1>1, <1>2, MarksMore
  <2>2. \A l : /\ Marked(t, k, l) => Marked(t, k + 1, l)
               /\ Marked(t, k + 1, l) => Marked(t, k, l)
    BY <1>1, MarksMore DEF x
  <2>. QED
    BY <1>5, <1>7, <2>1, <2>2
<1>9. Once(t, k + 1) => Once(new, n + 1)
  <2>1. Once(t, k + 1) => Once(t, k)
    BY MarksMore
  <2>2. Once(new, n) => Once(new, n + 1)
    BY <1>1, <1>2, MarksMore
  <2>. QED
    BY <1>5, <1>7, <2>1, <2>2
<1>10. Ended(t, k + 1) => Ended(new, n + 1)
  <2>1. Ended(t, k + 1) => Ended(t, k)
    BY MarksMore
  <2>2. Ended(new, n) => Ended(new, n + 1)
    BY <1>1, <1>2, MarksMore
  <2>. QED
    BY <1>5, <1>7, <2>1, <2>2
<1>11. \/ /\ \A p : ~Above(t, k + 1, p)
          /\ \A q : ~Above(new, n + 1, q)
       \/ \E p, q : /\ Above(t, k + 1, p) /\ Above(new, n + 1, q) /\ t[p] = new[q]
                    /\ t[p] = End \/ Wanted(t[p].arg, fs)
  <2>1. CASE (\A p : ~Above(t, k + 1, p)) /\ (\A q : ~Above(out, n + 1, q))
    BY <1>7, <2>1
  <2>2. CASE \E p, q : /\ Above(t, k + 1, p) /\ Above(out, n + 1, q) /\ t[p] = out[q]
                       /\ s.keep = (t[p] = End \/ Wanted(t[p].arg, fs))
    BY <1>7, <2>2
  <2>. QED
    BY <1>3, <2>1, <2>2 DEF Alike, out, n
<1>12. Alike(t, k + 1, r, fs)
  <2>1. /\ \A q : Above(new, n + 1 + 1, q) => Above(new, n + 1, q)
        /\ \A q : Above(new, n + 1, q) => Above(new, n + 1 + 1, q)
    BY <1>1, <1>2, AboveMore
  <2>2. /\ \A q : Above(t, k + 1 + 1, q) => Above(t, k + 1, q)
        /\ \A q : Above(t, k + 1, q) => Above(t, k + 1 + 1, q)
    BY <1>1, AboveMore DEF x
  <2>3. Len(r.out) + 1 = n + 1 + 1 /\ r.out = new
    BY <1>2 DEF new
  <2>4. CASE (\A p : ~Above(t, k + 1, p)) /\ \A q : ~Above(new, n + 1, q)
    BY <2>1, <2>2, <2>3, <2>4 DEF Alike
  <2>5. CASE \E p, q : /\ Above(t, k + 1, p) /\ Above(new, n + 1, q) /\ t[p] = new[q]
                       /\ t[p] = End \/ Wanted(t[p].arg, fs)
    <3>1. PICK p, q : /\ Above(t, k + 1, p) /\ Above(new, n + 1, q) /\ t[p] = new[q]
                      /\ t[p] = End \/ Wanted(t[p].arg, fs)
      BY <2>5
    <3>2. Above(t, k + 1 + 1, p) /\ Above(r.out, Len(r.out) + 1, q) /\ t[p] = r.out[q]
      BY <2>1, <2>2, <2>3, <3>1
    <3>3. r.keep = (t[p] = End \/ Wanted(t[p].arg, fs))
      BY <3>1
    <3>. QED
      BY <3>2, <3>3 DEF Alike
  <2>. QED
    BY <1>11, <2>4, <2>5
<1>13. /\ Free(new, n + 1) = Free(t, k + 1)
       /\ \A l \in Labels : Under(new, n + 1, l) = IF Wanted(l, fs) THEN Under(t, k + 1, l) ELSE {}
  <2>1. CASE \A d : x # Entry(d)
    <3>1. Free(new, n + 1) = Free(new, n) /\ \A l : Under(new, n + 1, l) = Under(new, n, l)
      BY <1>2, <2>1, LineMore
    <3>2. Free(t, k + 1) = Free(t, k) /\ \A l : Under(t, k + 1, l) = Under(t, k, l)
      BY <2>1, LineMore DEF x
    <3>. QED
      BY <1>4, <1>7, <3>1, <3>2
  <2>2. CASE \E d : x = Entry(d)
    <3>1. PICK d \in Entries : x = Entry(d)
      <4>1. Is(x, "entry")
        BY <2>2 DEF Is, Entry
      <4>. QED
        BY <1>1, <4>1, LineOf
    <3>2. ASSUME NEW l
          PROVE  /\ (\E p \in 1 .. n : Above(new, n + 1, p) /\ new[p] = Requires(l))
                      => \E p \in 1 .. k : Above(t, k + 1, p) /\ t[p] = Requires(l)
                 /\ (\E p \in 1 .. k : Above(t, k + 1, p) /\ t[p] = Requires(l))
                      => Wanted(l, fs) /\ \E p \in 1 .. n : Above(new, n + 1, p) /\ new[p] = Requires(l)
      <4>1. CASE (\A p : ~Above(t, k + 1, p)) /\ \A q : ~Above(new, n + 1, q)
        BY <4>1
      <4>2. CASE \E p, q : /\ Above(t, k + 1, p) /\ Above(new, n + 1, q) /\ t[p] = new[q]
                           /\ t[p] = End \/ Wanted(t[p].arg, fs)
        <5>1. PICK p, q : /\ Above(t, k + 1, p) /\ Above(new, n + 1, q) /\ t[p] = new[q]
                          /\ t[p] = End \/ Wanted(t[p].arg, fs)
          BY <4>2
        <5>2. /\ \A y : Above(t, k + 1, y) => y = p
              /\ \A y : Above(new, n + 1, y) => y = q
          BY <1>2, <5>1, AboveOne
        <5>3. p \in 1 .. k /\ q \in 1 .. n
          <6>1. (k + 1) - 1 = k /\ (n + 1) - 1 = n
            BY <1>2
          <6>. QED
            BY <5>1, <6>1 DEF Above
        <5>4. t[p] = Requires(l) => Wanted(l, fs)
          BY <5>1, Markers
        <5>. QED
          BY <5>1, <5>2, <5>3, <5>4
      <4>. QED
        BY <1>11, <4>1, <4>2
    <3>3. /\ (\A p \in 1 .. n : Above(new, n + 1, p) => new[p] = End) => \A p \in 1 .. k : Above(t, k + 1, p) => t[p] = End
          /\ (\A p \in 1 .. k : Above(t, k + 1, p) => t[p] = End) => \A p \in 1 .. n : Above(new, n + 1, p) => new[p] = End
      <4>1. CASE (\A p : ~Above(t, k + 1, p)) /\ \A q : ~Above(new, n + 1, q)
        BY <4>1
      <4>2. CASE \E p, q : /\ Above(t, k + 1, p) /\ Above(new, n + 1, q) /\ t[p] = new[q]
                           /\ t[p] = End \/ Wanted(t[p].arg, fs)
        <5>1. PICK p, q : Above(t, k + 1, p) /\ Above(new, n + 1, q) /\ t[p] = new[q]
          BY <4>2
        <5>2. /\ \A y : Above(t, k + 1, y) => y = p
              /\ \A y : Above(new, n + 1, y) => y = q
          BY <1>2, <5>1, AboveOne
        <5>3. p \in 1 .. k /\ q \in 1 .. n
          <6>1. (k + 1) - 1 = k /\ (n + 1) - 1 = n
            BY <1>2
          <6>. QED
            BY <5>1, <6>1 DEF Above
        <5>. QED
          BY <5>1, <5>2, <5>3
      <4>. QED
        BY <1>11, <4>1, <4>2
    <3> DEFINE InNew(l) == \E p \in 1 .. n : Above(new, n + 1, p) /\ new[p] = Requires(l)
               InT(l) == \E p \in 1 .. k : Above(t, k + 1, p) /\ t[p] = Requires(l)
               FreeNew == \A p \in 1 .. n : Above(new, n + 1, p) => new[p] = End
               FreeT == \A p \in 1 .. k : Above(t, k + 1, p) => t[p] = End
    <3>4. /\ \A l : Under(new, n + 1, l) = Under(new, n, l) \cup (IF InNew(l) THEN {d} ELSE {})
          /\ Free(new, n + 1) = Free(new, n) \cup (IF FreeNew THEN {d} ELSE {})
      <4>1. new[n + 1] = Entry(d) /\ n + 1 <= Len(new)
        BY <1>2, <3>1
      <4>. QED
        BY <1>2, <4>1, LineMore
    <3>5. /\ \A l : Under(t, k + 1, l) = Under(t, k, l) \cup (IF InT(l) THEN {d} ELSE {})
          /\ Free(t, k + 1) = Free(t, k) \cup (IF FreeT THEN {d} ELSE {})
      BY <3>1, LineMore DEF x
    <3>6. \A l : (InNew(l) => InT(l)) /\ (InT(l) => Wanted(l, fs) /\ InNew(l))
      BY <3>2
    <3>7. (FreeNew => FreeT) /\ (FreeT => FreeNew)
      BY <3>3
    <3> HIDE DEF InNew, InT, FreeNew, FreeT
    <3>8. Free(new, n + 1) = Free(t, k + 1)
      BY <1>4, <1>7, <3>4, <3>5, <3>7
    <3>9. ASSUME NEW l \in Labels PROVE Under(new, n + 1, l) = IF Wanted(l, fs) THEN Under(t, k + 1, l) ELSE {}
      <4>1. Under(new, n, l) = IF Wanted(l, fs) THEN Under(t, k, l) ELSE {}
        BY <1>4, <1>7
      <4>2. CASE Wanted(l, fs)
        BY <3>4, <3>5, <3>6, <4>1, <4>2
      <4>3. CASE ~Wanted(l, fs)
        <5>1. ~InNew(l)
          BY <3>6, <4>3
        <5>. QED
          BY <3>4, <4>1, <4>3, <5>1
      <4>. QED
        BY <4>2, <4>3
    <3>. QED
      BY <3>8, <3>9
  <2>. QED
    BY <2>1, <2>2
<1>14. Len(r.out) = n + 1 /\ r.out = new
  BY <1>2 DEF new
<1>. QED
  BY <1>8, <1>9, <1>10, <1>12, <1>13, <1>14 DEF SeedInv

\* A line that is not kept was in a group not wanted.
LEMMA SeedSkip ==
  ASSUME NEW t \in Seq(Line), NEW k \in Nat, k + 1 <= Len(t), NEW s \in Sofar, NEW fs, SeedInv(t, k, s, fs),
         t[k + 1] \in Body, s.keep = FALSE
  PROVE  SeedInv(t, k + 1, s, fs)
<1> DEFINE x == t[k + 1]
<1>1. x \in Line /\ ~IsMarker(x) /\ \A l : x # Requires(l)
  BY LineKinds, Markers
<1>2. PICK p, q : /\ Above(t, k + 1, p) /\ Above(s.out, Len(s.out) + 1, q) /\ t[p] = s.out[q]
                  /\ s.keep = (t[p] = End \/ Wanted(t[p].arg, fs))
  BY DEF SeedInv, Alike
<1>3. t[p] # End /\ ~Wanted(t[p].arg, fs)
  BY <1>2
<1>4. p \in 1 .. k /\ IsMarker(t[p]) /\ t[p] \in Line
  <2>1. (k + 1) - 1 = k /\ \A i \in 1 .. k : i \in 1 .. Len(t)
    OBVIOUS
  <2>. QED
    BY <1>2, <2>1 DEF Above
<1>5. t[p] \notin Body
  BY <1>4 DEF Body
<1>6. t[p] = Requires(t[p].arg)
  BY <1>3, <1>4, <1>5, LineOf
<1>7. \A y : Above(t, k + 1, y) => y = p
  BY <1>2, AboveOne
<1> HIDE DEF x
<1>8. Free(t, k + 1) = Free(t, k) /\ \A l : Wanted(l, fs) => Under(t, k + 1, l) = Under(t, k, l)
  <2>1. CASE \A d : x # Entry(d)
    BY <2>1, LineMore DEF x
  <2>2. CASE \E d : x = Entry(d)
    <3>1. PICK d \in Entries : x = Entry(d)
      <4>1. Is(x, "entry")
        BY <2>2 DEF Is, Entry
      <4>. QED
        BY <1>1, <4>1, LineOf
    <3> DEFINE InT(l) == \E y \in 1 .. k : Above(t, k + 1, y) /\ t[y] = Requires(l)
               FreeT == \A y \in 1 .. k : Above(t, k + 1, y) => t[y] = End
    <3>2. /\ \A l : Under(t, k + 1, l) = Under(t, k, l) \cup (IF InT(l) THEN {d} ELSE {})
          /\ Free(t, k + 1) = Free(t, k) \cup (IF FreeT THEN {d} ELSE {})
      BY <3>1, LineMore DEF x
    <3>3. ~FreeT
      BY <1>2, <1>3, <1>4
    <3>4. \A l : InT(l) => ~Wanted(l, fs)
      BY <1>3, <1>7, Markers
    <3> HIDE DEF InT, FreeT
    <3>. QED
      BY <3>2, <3>3, <3>4
  <2>. QED
    BY <2>1, <2>2
<1>9. /\ Once(t, k + 1) => Once(t, k)
      /\ Ended(t, k + 1) => Ended(t, k)
      /\ \A l : Marked(t, k, l) => Marked(t, k + 1, l)
      /\ \A l : Marked(t, k + 1, l) => Marked(t, k, l)
  BY <1>1, MarksMore DEF x
<1>10. Above(t, k + 1 + 1, p)
  BY <1>1, <1>2, AboveMore DEF x
<1>11. Alike(t, k + 1, s, fs)
  BY <1>2, <1>10 DEF Alike
<1>. QED
  BY <1>8, <1>9, <1>11 DEF SeedInv

\* What is written for one line of the template.
LEMMA SeedStep ==
  ASSUME NEW t \in Seq(Line), NEW k \in Nat, k + 1 <= Len(t), NEW s \in Sofar, NEW fs, SeedInv(t, k, s, fs)
  PROVE  SeedInv(t, k + 1, Seeding(s, t[k + 1], fs), fs)
<1> DEFINE x == t[k + 1]
           r == Seeding(s, x, fs)
<1>1. x \in Line /\ s.out \in Seq(Line)
  BY DEF Sofar
<1>2. \/ /\ Is(x, "requires") /\ x.arg \in Labels /\ Wanted(x.arg, fs)
         /\ r.keep = TRUE /\ r.out = Append(s.out, x)
      \/ /\ Is(x, "requires") /\ x.arg \in Labels /\ ~Wanted(x.arg, fs)
         /\ r.keep = FALSE
         /\ r.out = Append(Append(s.out, x), Note(x.arg))
      \/ x = End /\ r.keep = TRUE /\ r.out = Append(s.out, x)
      \/ x \in Body /\ s.keep = TRUE /\ r.keep = TRUE /\ r.out = Append(s.out, x)
      \/ x \in Body /\ s.keep = FALSE /\ r = s
  BY <1>1, SeedingIs
<1> HIDE DEF r
<1>3. CASE Is(x, "requires") /\ x.arg \in Labels /\ Wanted(x.arg, fs) /\ r.keep = TRUE /\ r.out = Append(s.out, x)
  <2>1. IsMarker(x) /\ x # End
    BY <1>3, Markers DEF IsMarker, Is
  <2>2. r.keep = (x = End \/ Wanted(x.arg, fs))
    BY <1>3
  <2>. QED
    BY <1>3, <2>1, <2>2, SeedMarker DEF r
<1>4. CASE /\ Is(x, "requires") /\ x.arg \in Labels /\ ~Wanted(x.arg, fs)
           /\ r.keep = FALSE
           /\ r.out = Append(Append(s.out, x), Note(x.arg))
  <2> DEFINE m == [keep |-> FALSE, out |-> Append(s.out, x)]
  <2>1. IsMarker(x) /\ x # End
    BY <1>4, Markers DEF IsMarker, Is
  <2>2. m.out = Append(s.out, x) /\ m.keep = FALSE
    OBVIOUS
  <2>3. m.out \in Seq(Line)
    BY <1>1, <2>2
  <2>4. m \in Sofar
    BY <2>3 DEF Sofar
  <2> HIDE DEF m
  <2>5. m.keep = (x = End \/ Wanted(x.arg, fs))
    BY <1>4, <2>1, <2>2
  <2>6. SeedInv(t, k + 1, m, fs)
    BY <2>1, <2>2, <2>5, SeedMarker
  <2>7. Note(x.arg) \in Body /\ \A d : Note(x.arg) # Entry(d)
    <3>1. Is(Note(x.arg), "note")
      BY DEF Is, Note
    <3>. QED
      BY <1>4, <3>1, LineKinds, NoEntry
  <2>8. r.out = Append(m.out, Note(x.arg)) /\ r.keep = m.keep
    BY <1>4, <2>2
  <2>9. k + 1 \in Nat
    OBVIOUS
  <2>10. SeedInv(t, k + 1, r, fs)
    BY <2>4, <2>6, <2>7, <2>8, <2>9, SeedNote
  <2>. QED
    BY <2>10 DEF r
<1>5. CASE x = End /\ r.keep = TRUE /\ r.out = Append(s.out, x)
  <2>1. IsMarker(x)
    BY <1>5, Markers
  <2>2. r.keep = (x = End \/ Wanted(x.arg, fs))
    BY <1>5
  <2>. QED
    BY <1>5, <2>1, <2>2, SeedMarker DEF r
<1>6. CASE x \in Body /\ s.keep = TRUE /\ r.keep = TRUE /\ r.out = Append(s.out, x)
  BY <1>6, SeedKeep DEF r
<1>7. CASE x \in Body /\ s.keep = FALSE /\ r = s
  BY <1>7, SeedSkip DEF r
<1>. QED
  BY <1>2, <1>3, <1>4, <1>5, <1>6, <1>7

\* Nothing written yet.
LEMMA SeedBegins ==
  ASSUME NEW t, NEW fs PROVE SeedInv(t, 0, [keep |-> TRUE, out |-> <<>>], fs)
<1> DEFINE s == [keep |-> TRUE, out |-> <<>>]
<1>1. s.keep = TRUE /\ s.out = <<>> /\ Len(s.out) = 0
  OBVIOUS
<1> HIDE DEF s
<1>2. \A i : i \notin 1 .. 0 /\ i \notin 1 .. (0 + 1) - 1
  OBVIOUS
<1>3. \A lines : \A p : ~Above(lines, 0 + 1, p)
  BY <1>2 DEF Above
<1>4. Alike(t, 0, s, fs)
  BY <1>1, <1>3 DEF Alike
<1>5. \A lines : Free(lines, 0) = {} /\ \A l : Under(lines, 0, l) = {}
  BY <1>2 DEF Free, Under
<1>6. \A lines : Once(lines, 0) /\ Ended(lines, 0) /\ \A l : ~Marked(lines, 0, l)
  BY <1>2 DEF Once, Ended, Marked
<1>7. SeedInv(t, 0, s, fs)
  BY <1>1, <1>4, <1>5, <1>6 DEF SeedInv
<1>. QED
  BY <1>7 DEF s

\* SeedFor keeps the groups wanted, and every marker.
Seed(t, new, fs) ==
  /\ new \in Seq(Line)
  /\ Free(new, Len(new)) = Free(t, Len(t))
  /\ \A l \in Labels : Under(new, Len(new), l) = IF Wanted(l, fs) THEN Under(t, Len(t), l) ELSE {}
  /\ \A l \in Labels : Marked(new, Len(new), l) => Marked(t, Len(t), l)
  /\ \A l \in Labels : Marked(t, Len(t), l) => Marked(new, Len(new), l)
  /\ Once(t, Len(t)) => Once(new, Len(new))
  /\ Ended(t, Len(t)) => Ended(new, Len(new))
  /\ Finished(t, Len(t)) => Finished(new, Len(new))

\* SeedFor of a template tells what the template tells, wanted groups only.
LEMMA SeedForIs ==
  ASSUME NEW t \in Seq(Line), NEW fs PROVE Seed(t, SeedFor(t, fs), fs)
<1> DEFINE upTo == SeededUpTo(t, fs)
           n == Len(t)
           T == {k \in Nat : k <= n => SeedInv(t, k, upTo[k], fs)}
<1>1. /\ n \in Nat /\ upTo[0] = [keep |-> TRUE, out |-> <<>>]
      /\ \A i \in 0 .. n : upTo[i] \in Sofar
      /\ \A i \in 1 .. n : upTo[i] = Seeding(upTo[i - 1], t[i], fs)
  BY SeededIs
<1> HIDE DEF upTo
<1>2. 0 \in T
  BY <1>1, SeedBegins
<1>3. ASSUME NEW k \in Nat, k \in T PROVE k + 1 \in T
  <2> SUFFICES ASSUME k + 1 <= n PROVE SeedInv(t, k + 1, upTo[k + 1], fs)
    OBVIOUS
  <2>1. k + 1 \in 1 .. n /\ (k + 1) - 1 = k /\ k \in 0 .. n /\ SeedInv(t, k, upTo[k], fs)
    BY <1>1, <1>3
  <2>2. upTo[k + 1] = Seeding(upTo[k], t[k + 1], fs) /\ upTo[k] \in Sofar
    BY <1>1, <2>1
  <2>. QED
    BY <2>1, <2>2, SeedStep
<1>4. SeedInv(t, n, upTo[n], fs) /\ upTo[n] \in Sofar
  <2>1. n \in 0 .. n
    BY <1>1
  <2> HIDE DEF T, n
  <2>2. n \in T
    BY <1>1, <1>2, <1>3, Counting
  <2> USE DEF T
  <2>. QED
    BY <1>1, <2>1, <2>2
<1>5. SeedFor(t, fs) = upTo[n].out
  BY DEF SeedFor, upTo
<1>6. Finished(t, n) => Finished(upTo[n].out, Len(upTo[n].out))
  <2> SUFFICES ASSUME Finished(t, n), NEW q, Above(upTo[n].out, Len(upTo[n].out) + 1, q)
               PROVE  upTo[n].out[q] = End
    BY DEF Finished
  <2>1. Alike(t, n, upTo[n], fs) /\ Len(upTo[n].out) + 1 \in Nat
    BY <1>4 DEF SeedInv, Sofar
  <2>2. PICK p, y : Above(t, n + 1, p) /\ Above(upTo[n].out, Len(upTo[n].out) + 1, y) /\ t[p] = upTo[n].out[y]
    BY <2>1 DEF Alike
  <2>3. y = q
    BY <2>1, <2>2, AboveOne
  <2>. QED
    BY <2>2, <2>3 DEF Finished
<1>. QED
  BY <1>4, <1>5, <1>6 DEF SeedInv, Seed, Sofar, n

\* What is between a label's marker and the next one is below it; where no label
\* is twice, nothing else is.
LEMMA Between ==
  ASSUME NEW lines \in Seq(Line), NEW l \in Labels, NEW s \in 1 .. Len(lines), NEW f \in s + 1 .. Len(lines),
         lines[s] = Requires(l), IsMarker(lines[f]), \A j \in s + 1 .. f - 1 : ~IsMarker(lines[j])
  PROVE  /\ EntriesOf(SubSeq(lines, s + 1, f - 1)) \subseteq Under(lines, Len(lines), l)
         /\ Once(lines, Len(lines)) => Under(lines, Len(lines), l) \subseteq EntriesOf(SubSeq(lines, s + 1, f - 1))
<1> DEFINE n == Len(lines)
           z == f - 1
           u == SubSeq(lines, s + 1, z)
<1>0. n \in Nat /\ s \in 1 .. n /\ f \in s + 1 .. n
  OBVIOUS
<1>1. s + 1 \in Nat \ {0} /\ z \in Nat /\ s + 1 <= z + 1 /\ z <= Len(lines)
  OBVIOUS
<1>2. \A j \in s + 1 .. z : ~IsMarker(lines[j])
  OBVIOUS
<1>3. z = f - 1
  OBVIOUS
<1> HIDE DEF z
<1>4. IsCut(Line, u, lines, s + 1, z)
  BY <1>1, CutIs
<1> HIDE DEF u
<1>5. u \in Seq(Line) /\ Len(u) = z + 1 - (s + 1) /\ \A i \in 1 .. z + 1 - (s + 1) : u[i] = lines[(s + 1) + i - 1]
  BY <1>4 DEF IsCut
<1>6. DOMAIN u = 1 .. z + 1 - (s + 1)
  BY <1>5
<1> HIDE DEF n
<1>7. ASSUME NEW d \in EntriesOf(u) PROVE d \in Under(lines, n, l)
  <2>1. PICK i \in 1 .. z + 1 - (s + 1) : u[i] = Entry(d)
    BY <1>5, <1>6, <1>7, EntriesAre
  <2>2. d \in Entries
    BY <1>5, <1>7, EntriesAre
  <2> DEFINE j == (s + 1) + i - 1
  <2>3. lines[j] = Entry(d)
    BY <1>5, <2>1
  <2>4. j \in 1 .. n /\ s \in 1 .. j - 1 /\ \A m \in s + 1 .. j - 1 : m \in s + 1 .. z
    BY <1>0, <1>3, <2>1
  <2> HIDE DEF j
  <2>5. Above(lines, j, s)
    BY <1>2, <2>4, Markers DEF Above
  <2>. QED
    BY <2>2, <2>3, <2>4, <2>5 DEF Under
<1>8. ASSUME Once(lines, n), NEW d \in Under(lines, n, l) PROVE d \in EntriesOf(u)
  <2>1. PICK i \in 1 .. n : lines[i] = Entry(d) /\ \E p \in 1 .. i - 1 : Above(lines, i, p) /\ lines[p] = Requires(l)
    BY <1>8 DEF Under
  <2>2. PICK p \in 1 .. i - 1 : Above(lines, i, p) /\ lines[p] = Requires(l)
    BY <2>1
  <2>3. p \in 1 .. n
    BY <1>0
  <2>4. p = s
    BY <1>0, <1>8, <2>2, <2>3 DEF Once
  <2>5. i # f
    <3>1. Is(Entry(d), "entry")
      BY DEF Is, Entry
    <3>. QED
      BY <2>1, <3>1 DEF IsMarker, Is
  <2>6. ~(f < i)
    <3> SUFFICES ASSUME f < i PROVE FALSE
      OBVIOUS
    <3>1. f \in p + 1 .. i - 1
      BY <1>0, <2>4
    <3>. QED
      BY <2>2, <3>1 DEF Above
  <2>7. i - s \in 1 .. z + 1 - (s + 1) /\ (s + 1) + (i - s) - 1 = i
    BY <1>0, <1>3, <2>2, <2>4, <2>5, <2>6
  <2>8. u[i - s] = Entry(d)
    BY <1>5, <2>1, <2>7
  <2>. QED
    BY <1>5, <1>6, <2>7, <2>8, EntriesAre
<1>. QED
  BY <1>7, <1>8 DEF u, z, n

\* A closed group holds what is below its marker; so does a group of a template.
LEMMA InsideUnder ==
  ASSUME NEW lines \in Seq(Line), NEW l \in Labels, Closed(lines, l)
  PROVE  /\ EntriesOf(Inside(lines, l)) \subseteq Under(lines, Len(lines), l)
         /\ Once(lines, Len(lines)) => EntriesOf(Inside(lines, l)) = Under(lines, Len(lines), l)
<1> DEFINE s == Start(lines, l)
           f == Finish(lines, l)
<1>1. /\ s \in 1 .. Len(lines) /\ f \in s + 1 .. Len(lines)
      /\ lines[s] = Requires(l) /\ lines[f] = End
      /\ \A j \in s + 1 .. f - 1 : lines[j] \in Body
  BY ClosedIs
<1>2. Inside(lines, l) = SubSeq(lines, s + 1, f - 1)
  BY DEF Inside
<1> HIDE DEF s, f
<1>3. IsMarker(lines[f]) /\ \A j \in s + 1 .. f - 1 : ~IsMarker(lines[j])
  BY <1>1, Markers, LineKinds
<1>4. /\ EntriesOf(SubSeq(lines, s + 1, f - 1)) \subseteq Under(lines, Len(lines), l)
      /\ Once(lines, Len(lines)) => Under(lines, Len(lines), l) \subseteq EntriesOf(SubSeq(lines, s + 1, f - 1))
  <2>1. /\ s \in 1 .. Len(lines) /\ f \in s + 1 .. Len(lines)
        /\ lines[s] = Requires(l) /\ IsMarker(lines[f])
    BY <1>1, <1>3
  <2>2. \A j \in s + 1 .. f - 1 : ~IsMarker(lines[j])
    BY <1>3
  <2>. QED
    BY <2>1, <2>2, Between
<1> DEFINE mid == EntriesOf(SubSeq(lines, s + 1, f - 1))
<1>5. EntriesOf(Inside(lines, l)) = mid
  BY <1>2
<1> HIDE DEF mid
<1>6. mid \subseteq Under(lines, Len(lines), l) /\ (Once(lines, Len(lines)) => Under(lines, Len(lines), l) \subseteq mid)
  BY <1>4 DEF mid
<1>. QED
  BY <1>5, <1>6

\* A group of a valid template holds what is below its marker.
LEMMA GroupUnder ==
  ASSUME NEW t \in Seq(Line), Valid(t), NEW i \in Heads(t)
  PROVE  LET g == GroupAt(t, i) IN
         /\ EntriesOf(g.lines) \subseteq Under(t, Len(t), g.label)
         /\ Once(t, Len(t)) => EntriesOf(g.lines) = Under(t, Len(t), g.label)
         /\ Marked(t, Len(t), g.label) /\ t[i] = Requires(g.label) /\ i \in 1 .. Len(t) /\ g.label \in Labels
<1> DEFINE n == NextMarker(t, i)
           l == GroupAt(t, i).label
<1>1. Len(t) \in Nat /\ i \in 1 .. Len(t) /\ t[i] \in Line /\ Is(t[i], "requires") /\ i \in Nat
  BY DEF Heads
<1>2. n # 0
  BY <1>1 DEF Valid
<1>3. n \in i + 1 .. Len(t) /\ IsMarker(t[n]) /\ \A j \in i + 1 .. n - 1 : ~IsMarker(t[j])
  BY <1>1, <1>2, NextIs
<1>4. t[i].arg \in Labels /\ t[i] = Requires(t[i].arg)
  BY <1>1, LineOf
<1>5. l = t[i].arg /\ GroupAt(t, i).lines = SubSeq(t, i + 1, n - 1)
  BY DEF GroupAt
<1> HIDE DEF n, l
<1>6. /\ EntriesOf(SubSeq(t, i + 1, n - 1)) \subseteq Under(t, Len(t), l)
      /\ Once(t, Len(t)) => Under(t, Len(t), l) \subseteq EntriesOf(SubSeq(t, i + 1, n - 1))
  BY <1>1, <1>3, <1>4, <1>5, Between
<1>7. Marked(t, Len(t), l)
  BY <1>1, <1>4, <1>5 DEF Marked
<1>. QED
  BY <1>1, <1>4, <1>5, <1>6, <1>7 DEF l

\* A list just seeded has no entry in a group not wanted.
LEMMA SeededGone ==
  ASSUME NEW t \in Seq(Line), NEW fs, NEW g, Proper(g)
  PROVE  SeedFor(t, fs) \in Seq(Line) /\ Gone(SeedFor(t, fs), g, fs)
<1> DEFINE new == SeedFor(t, fs)
<1>1. Seed(t, new, fs)
  BY SeedForIs
<1> HIDE DEF new
<1>2. new \in Seq(Line) /\ \A l \in Labels : ~Wanted(l, fs) => Under(new, Len(new), l) = {}
  BY <1>1 DEF Seed
<1>3. ASSUME ~Wanted(g.label, fs), Closed(new, g.label)
      PROVE  EntriesOf(Inside(new, g.label)) \cap EntriesOf(g.lines) = {}
  <2>2. g.label \in Labels
    BY DEF Proper
  <2>1. EntriesOf(Inside(new, g.label)) \subseteq Under(new, Len(new), g.label)
    BY <1>2, <1>3, <2>2, InsideUnder
  <2>. QED
    BY <1>2, <1>3, <2>1, <2>2
<1>. QED
  BY <1>2, <1>3 DEF Gone, new

----------------------------------------------------------------------------
\* A line put in or taken out leaves a file of lines.
LEMMA InsertIs ==
  ASSUME NEW lines \in Seq(Line), NEW x \in Line, NEW i \in 1 .. Len(lines) + 1
  PROVE  InsertAt(lines, i, x) \in Seq(Line) /\ Len(InsertAt(lines, i, x)) = Len(lines) + 1
<1> DEFINE n == Len(lines)
           z == i - 1
           a == SubSeq(lines, 1, z)
           b == SubSeq(lines, i, n)
           m == <<x>>
<1>1. InsertAt(lines, i, x) = a \o m \o b
  BY DEF InsertAt
<1>2. n \in Nat /\ z \in Nat /\ z <= n /\ i \in Nat \ {0} /\ 1 \in Nat \ {0} /\ 1 <= z + 1 /\ i <= n + 1
  OBVIOUS
<1>3. IsCut(Line, a, lines, 1, z)
  BY <1>2, CutIs
<1>4. IsCut(Line, b, lines, i, n)
  BY <1>2, CutIs
<1>5. m \in Seq(Line) /\ Len(m) = 1
  OBVIOUS
<1> DEFINE c == a \o m
<1> HIDE DEF a, b, m
<1>6. IsJoin(Line, c, a, m)
  BY <1>3, <1>5, JoinIs DEF IsCut
<1>6a. c \in Seq(Line) /\ b \in Seq(Line) /\ Len(c) = z + 1 /\ Len(b) = n + 1 - i
  BY <1>2, <1>3, <1>4, <1>5, <1>6 DEF IsCut, IsJoin
<1>6b. InsertAt(lines, i, x) = c \o b
  BY <1>1
<1> HIDE DEF c
<1>7. IsJoin(Line, c \o b, c, b)
  BY <1>6a, JoinIs
<1>8. Len(c \o b) = Len(c) + Len(b) /\ c \o b \in Seq(Line)
  BY <1>7 DEF IsJoin
<1>9. z + 1 + (n + 1 - i) = n + 1
  BY <1>2
<1>. QED
  BY <1>6a, <1>6b, <1>8, <1>9 DEF n

\* One line removed.
LEMMA RemoveIs ==
  ASSUME NEW lines \in Seq(Line), NEW i \in DOMAIN lines
  PROVE  RemoveAt(lines, i) \in Seq(Line) /\ Len(RemoveAt(lines, i)) <= Len(lines)
<1> DEFINE n == Len(lines)
           z == i - 1
           a == SubSeq(lines, 1, z)
           b == SubSeq(lines, i + 1, n)
<1>1. RemoveAt(lines, i) = a \o b
  BY DEF RemoveAt
<1>2. /\ n \in Nat /\ z \in Nat /\ z <= n /\ i + 1 \in Nat \ {0} /\ 1 \in Nat \ {0} /\ 1 <= z + 1 /\ i + 1 <= n + 1
      /\ i \in 1 .. n
  OBVIOUS
<1>3. IsCut(Line, a, lines, 1, z)
  BY <1>2, CutIs
<1>4. IsCut(Line, b, lines, i + 1, n)
  BY <1>2, CutIs
<1> HIDE DEF a, b
<1>5. IsJoin(Line, a \o b, a, b)
  BY <1>3, <1>4, JoinIs DEF IsCut
<1>6. Len(a) = z /\ Len(b) = n + 1 - (i + 1) /\ Len(a \o b) = Len(a) + Len(b) /\ a \o b \in Seq(Line)
  BY <1>2, <1>3, <1>4, <1>5 DEF IsCut, IsJoin
<1>7. z + (n + 1 - (i + 1)) <= n
  BY <1>2
<1> HIDE DEF z
<1>. QED
  BY <1>1, <1>6, <1>7 DEF n

----------------------------------------------------------------------------
\* The list and the template are files of lines, and the features are features.
THEOREM TypeCorrect == GroupSpec => []GroupTypeOK
<1>1. GroupInit => GroupTypeOK
  <2>1. MaxEdits \in Nat
    BY GroupsAssumption
  <2>2. 0 \in 0 .. MaxEdits
    BY <2>1
  <2>. QED
    BY <2>2 DEF GroupInit, GroupTypeOK
<1>2. GroupTypeOK /\ [GroupNext]_groupVars => GroupTypeOK'
  <2> SUFFICES ASSUME GroupTypeOK, [GroupNext]_groupVars PROVE GroupTypeOK'
    OBVIOUS
  <2> USE DEF GroupTypeOK
  <2>0. MaxEdits \in Nat /\ MaxLines \in Nat /\ Templates \subseteq Seq(Line) /\ Added \subseteq Entries /\ edits \in Nat
    BY GroupsAssumption
  <2>a. Change => edits' \in 0 .. MaxEdits /\ settled' \in BOOLEAN /\ features' \subseteq Features /\ earlier' \subseteq Features
    <3>1. \A e \in Nat : e < MaxEdits => e + 1 \in 0 .. MaxEdits
      BY <2>0
    <3>. QED
      BY <2>0, <3>1 DEF Change
  <2>b. \A d \in Added : Entry(d) \in Line
    BY <2>0, LineKinds
  <2>1. CASE \E fs \in SUBSET Features : Create(fs)
    <3>1. PICK fs \in SUBSET Features : Create(fs)
      BY <2>1
    <3>2. template \in Seq(Line) /\ Valid(template)
      BY <2>0, <3>1 DEF Create
    <3>3. file' \in Seq(Line) /\ Len(file') <= MaxLines
      <4>1. CASE file = NoList
        <5>1. file' = SeedFor(template, fs) /\ Len(SeedFor(template, fs)) <= MaxLines
          BY <3>1, <4>1 DEF Create
        <5>2. Seed(template, SeedFor(template, fs), fs)
          BY <3>2, SeedForIs
        <5>. QED
          BY <5>1, <5>2 DEF Seed
      <4>2. CASE file # NoList
        <5>1. file' = Reconcile(file, template, fs) /\ Len(Reconcile(file, template, fs)) <= MaxLines
          BY <3>1, <4>2 DEF Create
        <5>. QED
          BY <3>2, <4>2, <5>1, ReconciledLines
      <4>. QED
        BY <4>1, <4>2
    <3>4. /\ features' = fs /\ earlier' \in {fs, features} /\ settled' = TRUE
          /\ template' = template /\ edits' = edits /\ touched' = touched
      BY <3>1 DEF Create
    <3>. QED
      BY <3>3, <3>4
  <2>2. CASE RefuseTemplate
    BY <2>2 DEF RefuseTemplate, groupVars
  <2>3. CASE \E d \in Added : AllowDomain(d)
    <3>1. PICK d \in Added : AllowDomain(d)
      BY <2>3
    <3>2. file' \in Seq(Line) /\ Len(file') <= MaxLines
      BY <2>0, <2>b, <3>1 DEF AllowDomain
    <3>. QED
      BY <2>a, <3>1, <3>2 DEF AllowDomain
  <2>4. CASE \E i \in 1 .. MaxLines : DeleteLine(i)
    <3>1. PICK i \in 1 .. MaxLines : DeleteLine(i)
      BY <2>4
    <3>2. file \in Seq(Line) /\ i \in DOMAIN file /\ file' = RemoveAt(file, i)
      BY <3>1 DEF DeleteLine
    <3>3. file' \in Seq(Line) /\ Len(file') <= Len(file)
      BY <3>2, RemoveIs
    <3>4. Len(file) <= MaxLines /\ Len(file) \in Nat /\ Len(file') \in Nat
      BY <3>1, <3>2, <3>3 DEF DeleteLine
    <3>5. Len(file') <= MaxLines
      BY <2>0, <3>3, <3>4
    <3>. QED
      BY <2>a, <3>1, <3>3, <3>5 DEF DeleteLine
  <2>5. CASE \E i \in 1 .. MaxLines : \E d \in Added : InsertEntry(i, d)
    <3>1. PICK i \in 1 .. MaxLines, d \in Added : InsertEntry(i, d)
      BY <2>5
    <3>2. file \in Seq(Line) /\ i \in 1 .. Len(file) + 1 /\ file' = InsertAt(file, i, Entry(d)) /\ Len(file) < MaxLines
      BY <3>1 DEF InsertEntry
    <3>3. file' \in Seq(Line) /\ Len(file') = Len(file) + 1
      BY <2>b, <3>2, InsertIs
    <3>4. Len(file') <= MaxLines
      BY <2>0, <3>2, <3>3
    <3>. QED
      BY <2>a, <3>1, <3>3, <3>4 DEF InsertEntry
  <2>6. CASE DeleteList
    BY <2>a, <2>6 DEF DeleteList
  <2>7. CASE EditTemplate
    BY <2>a, <2>7 DEF EditTemplate
  <2>8. CASE UNCHANGED groupVars
    BY <2>8 DEF groupVars
  <2>. QED
    BY <2>1, <2>2, <2>3, <2>4, <2>5, <2>6, <2>7, <2>8 DEF GroupNext
<1>. QED
  BY <1>1, <1>2, PTL DEF GroupSpec

\* A step creates, changes nothing, or is a person's.
LEMMA Changed ==
  ASSUME [GroupNext]_groupVars
  PROVE  (\E fs \in SUBSET Features : Create(fs)) \/ UNCHANGED groupVars \/ settled' = FALSE
<1>1. RefuseTemplate => UNCHANGED groupVars
  BY DEF RefuseTemplate
<1>2. /\ \A d : AllowDomain(d) => settled' = FALSE
      /\ \A i : DeleteLine(i) => settled' = FALSE
      /\ \A i, d : InsertEntry(i, d) => settled' = FALSE
      /\ DeleteList => settled' = FALSE
      /\ EditTemplate => settled' = FALSE
  BY DEF AllowDomain, DeleteLine, InsertEntry, DeleteList, EditTemplate, Change
<1>. QED
  BY <1>1, <1>2 DEF GroupNext

\* What a person does touches the list or removes it.
LEMMA Touched ==
  ASSUME GroupTypeOK, [GroupNext]_groupVars
  PROVE  (\E fs \in SUBSET Features : Create(fs)) \/ UNCHANGED groupVars \/ touched' = TRUE \/ file' = NoList
<1>1. RefuseTemplate => UNCHANGED groupVars
  BY DEF RefuseTemplate
<1>2. /\ \A d : AllowDomain(d) => touched' = TRUE
      /\ \A i : DeleteLine(i) => touched' = TRUE
      /\ \A i, d : InsertEntry(i, d) => touched' = TRUE
      /\ DeleteList => file' = NoList
      /\ EditTemplate => touched' = TRUE \/ file' = NoList
  BY DEF AllowDomain, DeleteLine, InsertEntry, DeleteList, EditTemplate, Change
<1>. QED
  BY <1>1, <1>2 DEF GroupNext

\* After a create no group the sandbox has no feature for holds an entry of the
\* template's.
THEOREM OffIsGone == GroupSpec => []OffMeansGone
<1>1. GroupInit => OffMeansGone
  BY DEF GroupInit, OffMeansGone
<1>2. GroupTypeOK /\ OffMeansGone /\ [GroupNext]_groupVars => OffMeansGone'
  <2> SUFFICES ASSUME GroupTypeOK, OffMeansGone, [GroupNext]_groupVars PROVE OffMeansGone'
    OBVIOUS
  <2>1. CASE \E fs \in SUBSET Features : Create(fs)
    <3>1. PICK fs \in SUBSET Features : Create(fs)
      BY <2>1
    <3>2. template \in Seq(Line) /\ Valid(template) /\ template' = template /\ features' = fs
      BY <3>1, GroupsAssumption DEF Create, GroupTypeOK
    <3>3. ASSUME NEW g \in Groups(template) PROVE Gone(file', g, fs)
      <4>1. CASE file = NoList
        <5>1. file' = SeedFor(template, fs)
          BY <3>1, <4>1 DEF Create
        <5>2. Proper(g)
          BY <3>2, GroupIs DEF Groups
        <5>. QED
          BY <3>2, <5>1, <5>2, SeededGone
      <4>2. CASE file # NoList
        <5>1. file' = Reconcile(file, template, fs) /\ file \in Seq(Line)
          BY <3>1, <4>2 DEF Create, GroupTypeOK
        <5>. QED
          BY <3>2, <5>1, ReconciledGone
      <4>. QED
        BY <4>1, <4>2
    <3>4. \A g \in Groups(template) : ~Wanted(g.label, fs) /\ Closed(file', g.label) =>
            EntriesOf(Inside(file', g.label)) \cap EntriesOf(g.lines) = {}
      BY <3>3 DEF Gone
    <3>. QED
      BY <3>2, <3>4 DEF OffMeansGone
  <2>2. CASE UNCHANGED groupVars
    BY <2>2 DEF groupVars, OffMeansGone
  <2>3. CASE settled' = FALSE
    BY <2>3 DEF OffMeansGone
  <2>. QED
    BY <2>1, <2>2, <2>3, Changed
<1>. QED
  BY <1>1, <1>2, TypeCorrect, PTL DEF GroupSpec

----------------------------------------------------------------------------
\* A template that names each label once, has an entry in each of its groups,
\* and no entry in two of them.  The one the repository ships is; without it a
\* second create may still find something to do (an entry two groups share is
\* appended with one of them once it is gone with the other).
Tidy(t) ==
  /\ Once(t, Len(t))
  /\ \A i \in Heads(t) : EntriesOf(GroupAt(t, i).lines) # {}
  /\ \A i, j \in Heads(t) : i # j => EntriesOf(GroupAt(t, i).lines) \cap EntriesOf(GroupAt(t, j).lines) = {}

\* A step for one group leaves another settled.
LEMMA StaysSettled ==
  ASSUME NEW lines, NEW new, NEW g, NEW h, NEW fs, Reconciles(lines, new, h, fs), Settles(lines, g, fs), Proper(g),
         g.label # h.label, EntriesOf(g.lines) \cap EntriesOf(h.lines) = {}
  PROVE  Settles(new, g, fs)
<1>1. /\ HasGroup(new, g.label) => HasGroup(lines, g.label)
      /\ HasGroup(lines, g.label) => HasGroup(new, g.label)
      /\ SameInside(lines, new, g.label)
  BY DEF Reconciles, SameElsewhere, Proper
<1>2. EntriesOf(lines) \ EntriesOf(h.lines) \subseteq EntriesOf(new)
  BY DEF Reconciles
<1>3. /\ Closed(new, g.label) => Closed(lines, g.label) /\ Inside(new, g.label) = Inside(lines, g.label)
  BY <1>1 DEF SameInside
<1>4. ~HasGroup(new, g.label) /\ Wanted(g.label, fs) => EntriesOf(g.lines) \subseteq EntriesOf(new)
  BY <1>1, <1>2 DEF Settles
<1>5. /\ Closed(new, g.label) /\ Wanted(g.label, fs) => EntriesOf(Inside(new, g.label)) # {}
      /\ Closed(new, g.label) /\ ~Wanted(g.label, fs) => EntriesOf(Inside(new, g.label)) \cap EntriesOf(g.lines) = {}
  BY <1>3 DEF Settles
<1>. QED
  BY <1>4, <1>5 DEF Settles

\* reconcile leaves every group of a tidy template settled.
AllSettled(lines, t, fs) == \A i \in Heads(t) : Settles(lines, GroupAt(t, i), fs)

\* By the template's groups in turn: each turn settles its own group, and later
\* turns do not unsettle it, since in a tidy template no two groups have a label or
\* an entry in common.
LEMMA ReconciledSettles ==
  ASSUME NEW lines \in Seq(Line), NEW t \in Seq(Line), Valid(t), Tidy(t), NEW fs
  PROVE  AllSettled(Reconcile(lines, t, fs), t, fs)
<1> DEFINE upTo == ReconciledUpTo(lines, t, fs)
           n == Len(t)
           G(k) == \A i \in Heads(t) : i <= k => Settles(upTo[k], GroupAt(t, i), fs)
           T == {k \in Nat : k <= n => G(k)}
<1>1. /\ n \in Nat /\ Heads(t) \subseteq 1 .. n
      /\ \A i \in 0 .. n : upTo[i] \in Seq(Line)
      /\ \A i \in 1 .. n :
           /\ i \in Heads(t) => Reconciles(upTo[i - 1], upTo[i], GroupAt(t, i), fs)
           /\ i \notin Heads(t) => upTo[i] = upTo[i - 1]
  BY ReconciledIs DEF Heads
<1> HIDE DEF upTo
<1>1a. ASSUME NEW i \in Heads(t), NEW j \in Heads(t), i # j
       PROVE  /\ GroupAt(t, i).label # GroupAt(t, j).label
              /\ EntriesOf(GroupAt(t, i).lines) \cap EntriesOf(GroupAt(t, j).lines) = {}
  <2>1. /\ t[i] = Requires(GroupAt(t, i).label) /\ t[j] = Requires(GroupAt(t, j).label)
        /\ GroupAt(t, i).label \in Labels /\ i \in 1 .. n /\ j \in 1 .. n
    BY GroupUnder
  <2>2. Once(t, n)
    BY DEF Tidy
  <2>3. GroupAt(t, i).label # GroupAt(t, j).label
    BY <1>1a, <2>1, <2>2 DEF Once
  <2>. QED
    BY <1>1a, <2>3 DEF Tidy
<1> HIDE DEF n
<1>2. 0 \in T
  <2>1. \A i \in Heads(t) : ~(i <= 0)
    BY <1>1
  <2>. QED
    BY <2>1
<1>3. ASSUME NEW k \in Nat, k \in T PROVE k + 1 \in T
  <2> SUFFICES ASSUME k + 1 <= n, NEW i \in Heads(t), i <= k + 1 PROVE Settles(upTo[k + 1], GroupAt(t, i), fs)
    OBVIOUS
  <2>1. k + 1 \in 1 .. n /\ (k + 1) - 1 = k /\ G(k) /\ i \in 1 .. n
    BY <1>1, <1>3
  <2>2. CASE k + 1 \notin Heads(t)
    <3>1. i <= k
      BY <2>1, <2>2
    <3>2. upTo[k + 1] = upTo[k]
      BY <1>1, <2>1, <2>2
    <3>. QED
      BY <2>1, <3>1, <3>2
  <2>3. CASE k + 1 \in Heads(t)
    <3>1. Reconciles(upTo[k], upTo[k + 1], GroupAt(t, k + 1), fs)
      BY <1>1, <2>1, <2>3
    <3>2. CASE i = k + 1
      <4>1. EntriesOf(GroupAt(t, i).lines) # {}
        BY DEF Tidy
      <4>. QED
        BY <3>1, <3>2, <4>1 DEF Reconciles
    <3>3. CASE i <= k
      <4>1. Settles(upTo[k], GroupAt(t, i), fs)
        BY <2>1, <3>3
      <4>2. Proper(GroupAt(t, i))
        BY GroupIs
      <4>3. i # k + 1
        BY <2>1, <3>3
      <4>. QED
        BY <1>1a, <2>3, <3>1, <4>1, <4>2, <4>3, StaysSettled
    <3>. QED
      BY <2>1, <3>2, <3>3
  <2>. QED
    BY <2>2, <2>3
<1>4. n \in T
  <2> HIDE DEF T
  <2>. QED
    BY <1>1, <1>2, <1>3, Counting
<1>5. \A i \in Heads(t) : i <= n /\ n <= n
  BY <1>1
<1>6. \A i \in Heads(t) : Settles(upTo[n], GroupAt(t, i), fs)
  BY <1>4, <1>5
<1>7. Reconcile(lines, t, fs) = upTo[n]
  BY DEF Reconcile, upTo, n
<1>. QED
  BY <1>6, <1>7 DEF AllSettled

\* Where all is settled reconcile changes nothing.
LEMMA SettledIsKept ==
  ASSUME NEW lines \in Seq(Line), NEW t \in Seq(Line), Valid(t), NEW fs, AllSettled(lines, t, fs)
  PROVE  Reconcile(lines, t, fs) = lines
<1> DEFINE upTo == ReconciledUpTo(lines, t, fs)
           n == Len(t)
           T == {k \in Nat : k <= n => upTo[k] = lines}
<1>1. /\ n \in Nat /\ upTo[0] = lines
      /\ \A i \in 1 .. n :
           /\ i \in Heads(t) => upTo[i] = ReconcileGroup(upTo[i - 1], GroupAt(t, i), fs)
           /\ i \notin Heads(t) => upTo[i] = upTo[i - 1]
  BY ReconciledIs
<1> HIDE DEF upTo, n
<1>2. 0 \in T
  BY <1>1
<1>3. ASSUME NEW k \in Nat, k \in T PROVE k + 1 \in T
  <2> SUFFICES ASSUME k + 1 <= n PROVE upTo[k + 1] = lines
    OBVIOUS
  <2>1. k + 1 \in 1 .. n /\ (k + 1) - 1 = k /\ upTo[k] = lines
    BY <1>1, <1>3
  <2>2. ASSUME k + 1 \in Heads(t) PROVE ReconcileGroup(lines, GroupAt(t, k + 1), fs) = lines
    <3>1. Proper(GroupAt(t, k + 1)) /\ Settles(lines, GroupAt(t, k + 1), fs)
      BY <2>2, GroupIs DEF AllSettled
    <3>. QED
      BY <3>1, SettledStays
  <2>. QED
    BY <1>1, <2>1, <2>2
<1>4. n \in T
  <2> HIDE DEF T
  <2>. QED
    BY <1>1, <1>2, <1>3, Counting
<1>. QED
  BY <1>1, <1>4 DEF Reconcile, upTo, n

\* A label that is marked has a group, and the other way.
LEMMA MarkedHas ==
  ASSUME NEW lines \in Seq(Line), NEW l
  PROVE  /\ Marked(lines, Len(lines), l) => HasGroup(lines, l)
         /\ HasGroup(lines, l) => Marked(lines, Len(lines), l)
<1>1. Len(lines) \in Nat
  OBVIOUS
<1>. QED
  BY <1>1, StartIs DEF Marked, HasGroup

\* Nor is there anything to do in the file SeedFor writes.
LEMMA SeededSettles ==
  ASSUME NEW t \in Seq(Line), Valid(t), Tidy(t), NEW fs
  PROVE  AllSettled(SeedFor(t, fs), t, fs)
<1> DEFINE new == SeedFor(t, fs)
<1>1. Seed(t, new, fs) /\ Once(t, Len(t))
  BY SeedForIs DEF Tidy
<1> SUFFICES ASSUME NEW i \in Heads(t) PROVE Settles(new, GroupAt(t, i), fs)
  BY DEF AllSettled
<1>2. Proper(GroupAt(t, i))
  BY GroupIs
<1>2a. Gone(new, GroupAt(t, i), fs)
  BY <1>2, SeededGone
<1> HIDE DEF new
<1> DEFINE g == GroupAt(t, i)
           l == g.label
<1>3. /\ EntriesOf(g.lines) = Under(t, Len(t), l)
      /\ Marked(t, Len(t), l) /\ l \in Labels
  BY <1>1, GroupUnder
<1>4. EntriesOf(g.lines) # {}
  BY DEF Tidy
<1> HIDE DEF g
<1>5. HasGroup(new, l)
  BY <1>1, <1>3, MarkedHas DEF Seed
<1>6. ASSUME Closed(new, l), Wanted(l, fs) PROVE EntriesOf(Inside(new, l)) # {}
  <2>1. new \in Seq(Line) /\ Once(new, Len(new)) /\ Under(new, Len(new), l) = Under(t, Len(t), l)
    BY <1>1, <1>3, <1>6 DEF Seed
  <2>2. EntriesOf(Inside(new, l)) = Under(new, Len(new), l)
    BY <1>3, <1>6, <2>1, InsideUnder
  <2>. QED
    BY <1>3, <1>4, <2>1, <2>2
<1>7. Gone(new, g, fs)
  BY <1>2a DEF g
<1>8. Settles(new, g, fs)
  BY <1>5, <1>6, <1>7 DEF Settles, Gone
<1>. QED
  BY <1>8 DEF g

\* A second create with the same features changes nothing, where every template
\* there may be is tidy.
THEOREM SecondChangesNothing ==
  ASSUME \A t \in Templates : Valid(t) => Tidy(t) PROVE GroupSpec => []Idempotent
<1>1. GroupInit => Idempotent
  BY DEF GroupInit, Idempotent
<1>2. GroupTypeOK /\ Idempotent /\ [GroupNext]_groupVars => Idempotent'
  <2> SUFFICES ASSUME GroupTypeOK, Idempotent, [GroupNext]_groupVars PROVE Idempotent'
    OBVIOUS
  <2>1. CASE \E fs \in SUBSET Features : Create(fs)
    <3>1. PICK fs \in SUBSET Features : Create(fs)
      BY <2>1
    <3>2. template \in Seq(Line) /\ Valid(template) /\ Tidy(template) /\ template' = template /\ features' = fs
      BY <3>1, GroupsAssumption DEF Create, GroupTypeOK
    <3>3. file' \in Seq(Line) /\ AllSettled(file', template, fs)
      <4>1. CASE file = NoList
        <5>1. file' = SeedFor(template, fs)
          BY <3>1, <4>1 DEF Create
        <5>2. Seed(template, SeedFor(template, fs), fs)
          BY <3>2, SeedForIs
        <5>. QED
          BY <3>2, <5>1, <5>2, SeededSettles DEF Seed
      <4>2. CASE file # NoList
        <5>1. file' = Reconcile(file, template, fs) /\ file \in Seq(Line)
          BY <3>1, <4>2 DEF Create, GroupTypeOK
        <5>. QED
          BY <3>2, <5>1, ReconciledSettles, ReconciledLines
      <4>. QED
        BY <4>1, <4>2
    <3>4. Reconcile(file', template, fs) = file'
      BY <3>2, <3>3, SettledIsKept
    <3>. QED
      BY <3>2, <3>4 DEF Idempotent
  <2>2. CASE UNCHANGED groupVars
    BY <2>2 DEF groupVars, Idempotent
  <2>3. CASE settled' = FALSE
    BY <2>3 DEF Idempotent
  <2>. QED
    BY <2>1, <2>2, <2>3, Changed
<1>. QED
  BY <1>1, <1>2, TypeCorrect, PTL DEF GroupSpec

----------------------------------------------------------------------------
\* Lines of one file found in another, all but those inside a group of each.
Others(lines, new, l, s, K, to) ==
  /\ K \subseteq 1 .. Len(lines)
  /\ \A i \in K : to[i] \in 1 .. Len(new) /\ new[to[i]] = lines[i]
  /\ to[Len(lines) + 1] = Len(new) + 1
  /\ \A x \in 1 .. Len(lines) : x \in K \/ (lines[x] \in Body /\ Above(lines, x, s))
  /\ \A x \in 1 .. Len(new) : (\E i \in K : to[i] = x) \/ (new[x] \in Body /\ Above(new, x, s))
  /\ \A i \in K \cup {Len(lines) + 1} : \A p : Above(lines, i, p) => p \in K /\ Above(new, to[i], to[p])
  /\ \A i \in K \cup {Len(lines) + 1} : \A q : Above(new, to[i], q) => \E p \in K : to[p] = q /\ Above(lines, i, p)
  /\ lines[s] = Requires(l) /\ new[s] = Requires(l)

\* They tell the same of the file, of that group's entries apart.
SameBut(lines, new, l) ==
  /\ Free(new, Len(new)) = Free(lines, Len(lines))
  /\ \A k \in Labels : k # l => Under(new, Len(new), k) = Under(lines, Len(lines), k)
  /\ \A k \in Labels : Marked(new, Len(new), k) => Marked(lines, Len(lines), k)
  /\ \A k \in Labels : Marked(lines, Len(lines), k) => Marked(new, Len(new), k)
  /\ Once(lines, Len(lines)) => Once(new, Len(new))
  /\ Ended(lines, Len(lines)) => Ended(new, Len(new))
  /\ Finished(lines, Len(lines)) => Finished(new, Len(new))

\* A file whose lines outside one group only moved tells the same of the others.
LEMMA OthersTell ==
  ASSUME NEW lines \in Seq(Line), NEW new \in Seq(Line), NEW l \in Labels, NEW s, NEW K, NEW to,
         Others(lines, new, l, s, K, to)
  PROVE  SameBut(lines, new, l)
<1> DEFINE n == Len(lines)
           z == Len(new)
<1>0. n \in Nat /\ z \in Nat
  OBVIOUS
<1>1. K \subseteq 1 .. n /\ \A i \in K : to[i] \in 1 .. z /\ new[to[i]] = lines[i]
  BY DEF Others
<1>2. \A x \in 1 .. n : x \in K \/ (lines[x] \in Body /\ Above(lines, x, s))
  BY DEF Others
<1>3. \A x \in 1 .. z : (\E i \in K : to[i] = x) \/ (new[x] \in Body /\ Above(new, x, s))
  BY DEF Others
<1>4. \A i \in K : \A p : Above(lines, i, p) => p \in K /\ Above(new, to[i], to[p])
  BY DEF Others
<1>5. \A i \in K : \A q : Above(new, to[i], q) => \E p \in K : to[p] = q /\ Above(lines, i, p)
  BY DEF Others
<1>6. lines[s] = Requires(l) /\ new[s] = Requires(l)
  BY DEF Others
<1>7. \A q : Above(new, z + 1, q) => \E p \in K : to[p] = q /\ Above(lines, n + 1, p)
  BY DEF Others
<1> HIDE DEF n, z
<1>8. \A i, p, ls : Above(ls, i, p) => p \in 1 .. i - 1
  BY DEF Above
<1>9. /\ \A x \in 1 .. n : \A p : Above(lines, x, p) /\ Above(lines, x, s) => p = s
      /\ \A x \in 1 .. z : \A p : Above(new, x, p) /\ Above(new, x, s) => p = s
  <2>1. \A x \in 1 .. n : x \in Nat
    OBVIOUS
  <2>2. \A x \in 1 .. z : x \in Nat
    OBVIOUS
  <2>. QED
    BY <2>1, <2>2, AboveOne
<1>10. \A k : k # l => Requires(l) # Requires(k)
  BY Markers
<1>11. ASSUME NEW k \in Labels, k # l PROVE Under(new, z, k) \subseteq Under(lines, n, k)
  <2> SUFFICES ASSUME NEW d \in Under(new, z, k) PROVE d \in Under(lines, n, k)
    OBVIOUS
  <2>1. PICK x \in 1 .. z : d \in Entries /\ new[x] = Entry(d)
                            /\ \E q \in 1 .. x - 1 : Above(new, x, q) /\ new[q] = Requires(k)
    BY DEF Under
  <2>2. PICK q : Above(new, x, q) /\ new[q] = Requires(k)
    BY <2>1
  <2>3. q # s
    BY <1>6, <1>10, <1>11, <2>2
  <2>4. PICK i \in K : to[i] = x
    BY <1>3, <1>9, <2>2, <2>3
  <2>5. PICK p \in K : to[p] = q /\ Above(lines, i, p)
    BY <1>5, <2>2, <2>4
  <2>. QED
    BY <1>1, <1>8, <2>1, <2>2, <2>4, <2>5 DEF Under
<1>12. ASSUME NEW k \in Labels, k # l PROVE Under(lines, n, k) \subseteq Under(new, z, k)
  <2> SUFFICES ASSUME NEW d \in Under(lines, n, k) PROVE d \in Under(new, z, k)
    OBVIOUS
  <2>1. PICK x \in 1 .. n : d \in Entries /\ lines[x] = Entry(d)
                            /\ \E p \in 1 .. x - 1 : Above(lines, x, p) /\ lines[p] = Requires(k)
    BY DEF Under
  <2>2. PICK p : Above(lines, x, p) /\ lines[p] = Requires(k)
    BY <2>1
  <2>3. p # s
    BY <1>6, <1>10, <1>12, <2>2
  <2>4. x \in K
    BY <1>2, <1>9, <2>2, <2>3
  <2>5. p \in K /\ Above(new, to[x], to[p])
    BY <1>4, <2>2, <2>4
  <2>. QED
    BY <1>1, <1>8, <2>1, <2>2, <2>4, <2>5 DEF Under
<1>13. Free(new, z) \subseteq Free(lines, n)
  <2> SUFFICES ASSUME NEW d \in Free(new, z) PROVE d \in Free(lines, n)
    OBVIOUS
  <2>1. PICK x \in 1 .. z : d \in Entries /\ new[x] = Entry(d) /\ \A q \in 1 .. x - 1 : Above(new, x, q) => new[q] = End
    BY DEF Free
  <2>2. ~Above(new, x, s)
    BY <1>6, <1>8, <2>1, Markers
  <2>3. PICK i \in K : to[i] = x
    BY <1>3, <2>2
  <2>4. ASSUME NEW p, Above(lines, i, p) PROVE lines[p] = End
    <3>1. p \in K /\ Above(new, x, to[p])
      BY <1>4, <2>3, <2>4
    <3>. QED
      BY <1>1, <1>8, <2>1, <3>1
  <2>. QED
    BY <1>1, <2>1, <2>3, <2>4 DEF Free
<1>14. Free(lines, n) \subseteq Free(new, z)
  <2> SUFFICES ASSUME NEW d \in Free(lines, n) PROVE d \in Free(new, z)
    OBVIOUS
  <2>1. PICK x \in 1 .. n : d \in Entries /\ lines[x] = Entry(d) /\ \A p \in 1 .. x - 1 : Above(lines, x, p) => lines[p] = End
    BY DEF Free
  <2>2. ~Above(lines, x, s)
    BY <1>6, <1>8, <2>1, Markers
  <2>3. x \in K
    BY <1>2, <2>2
  <2>4. ASSUME NEW q, Above(new, to[x], q) PROVE new[q] = End
    <3>1. PICK p \in K : to[p] = q /\ Above(lines, x, p)
      BY <1>5, <2>3, <2>4
    <3>. QED
      BY <1>1, <1>8, <2>1, <3>1
  <2>. QED
    BY <1>1, <2>1, <2>3, <2>4 DEF Free
<1>15. /\ \A x \in 1 .. n : IsMarker(lines[x]) => x \in K
       /\ \A x \in 1 .. z : IsMarker(new[x]) => \E i \in K : to[i] = x
  BY <1>2, <1>3, LineKinds
<1>16. /\ \A k \in Labels : Marked(new, z, k) => Marked(lines, n, k)
       /\ \A k \in Labels : Marked(lines, n, k) => Marked(new, z, k)
  BY <1>1, <1>15, Markers DEF Marked
<1>17. Once(lines, n) => Once(new, z)
  <2> SUFFICES ASSUME Once(lines, n), NEW k \in Labels, NEW x \in 1 .. z, NEW y \in 1 .. z,
                      new[x] = Requires(k), new[y] = Requires(k)
               PROVE  x = y
    BY DEF Once
  <2>1. PICK i \in K : to[i] = x
    BY <1>15, Markers
  <2>2. PICK j \in K : to[j] = y
    BY <1>15, Markers
  <2>3. lines[i] = Requires(k) /\ lines[j] = Requires(k) /\ i \in 1 .. n /\ j \in 1 .. n
    BY <1>1, <2>1, <2>2
  <2>. QED
    BY <2>1, <2>2, <2>3 DEF Once
<1>18. Ended(lines, n) => Ended(new, z)
  <2> SUFFICES ASSUME Ended(lines, n), NEW x \in 1 .. z, NEW q \in 1 .. x - 1,
                      Above(new, x, q), Is(new[q], "requires"), IsMarker(new[x])
               PROVE  new[x] = End
    BY DEF Ended
  <2>1. PICK i \in K : to[i] = x
    BY <1>15
  <2>2. PICK p \in K : to[p] = q /\ Above(lines, i, p)
    BY <1>5, <2>1
  <2>3. lines[i] = new[x] /\ lines[p] = new[q] /\ i \in 1 .. n /\ p \in 1 .. i - 1
    BY <1>1, <1>8, <2>1, <2>2
  <2>. QED
    BY <2>2, <2>3 DEF Ended
<1>19. Finished(lines, n) => Finished(new, z)
  <2> SUFFICES ASSUME Finished(lines, n), NEW q, Above(new, z + 1, q) PROVE new[q] = End
    BY DEF Finished
  <2>1. PICK p \in K : to[p] = q /\ Above(lines, n + 1, p)
    BY <1>7
  <2>. QED
    BY <1>1, <2>1 DEF Finished
<1>20. Free(new, z) = Free(lines, n)
  BY <1>13, <1>14
<1>21. \A k \in Labels : k # l => Under(new, z, k) = Under(lines, n, k)
  BY <1>11, <1>12
<1>. QED
  BY <1>16, <1>17, <1>18, <1>19, <1>20, <1>21 DEF SameBut, n, z

\* Other lines put inside a group leave all others as they are.
LEMMA ReplaceTells ==
  ASSUME NEW lines \in Seq(Line), NEW l \in Labels, Closed(lines, l), NEW mid \in Seq(Body)
  PROVE  SameBut(lines, Replace(lines, l, mid), l)
<1> DEFINE s == Start(lines, l)
           f == Finish(lines, l)
           n == Len(lines)
           m == Len(mid)
           e == s + m + 1 - f
           new == Replace(lines, l, mid)
           K == (1 .. s) \cup (f .. n)
           to == [i \in K \cup {n + 1} |-> IF i <= s THEN i ELSE i + e]
<1>1. /\ n \in Nat /\ s \in 1 .. n /\ f \in s + 1 .. n /\ lines[s] = Requires(l) /\ lines[f] = End
      /\ \A j \in s + 1 .. f - 1 : lines[j] \in Body
  BY ClosedIs
<1>2. mid \in Seq(Line) /\ m \in Nat /\ \A j \in 1 .. m : mid[j] \in Body
  BY LineKinds
<1>3. new = SubSeq(lines, 1, s) \o mid \o SubSeq(lines, f, Len(lines))
  BY DEF Replace
<1> HIDE DEF s, f, n, new
<1>4. /\ new \in Seq(Line) /\ Len(new) = n + e
      /\ \A i \in 1 .. s : new[i] = lines[i]
      /\ \A j \in 1 .. m : new[s + j] = mid[j]
      /\ \A i \in f .. n : new[i + e] = lines[i]
  BY <1>1, <1>2, <1>3, SplicedIs DEF n
<1> HIDE DEF m
<1>5. e \in Int /\ f + e = s + m + 1 /\ n + e \in Nat
  BY <1>1, <1>2
<1> HIDE DEF e
<1>6. /\ s \in Nat /\ 1 <= s /\ s <= n /\ f \in Nat /\ s + 1 <= f /\ f <= n /\ n \in Nat /\ m \in Nat
  BY <1>1, <1>2
<1>7. /\ \A i \in 1 .. s : to[i] = i
      /\ \A i \in f .. n : to[i] = i + e
      /\ to[n + 1] = n + 1 + e
  <2>1. /\ \A i \in 1 .. s : i \in K \cup {n + 1} /\ i <= s
        /\ \A i \in f .. n : i \in K \cup {n + 1} /\ ~(i <= s)
        /\ n + 1 \in K \cup {n + 1} /\ ~(n + 1 <= s)
    BY <1>6
  <2> HIDE DEF K
  <2>. QED
    BY <2>1
<1>8. /\ \A i : i \in K <=> i \in 1 .. s \/ i \in f .. n
      /\ \A i \in 1 .. s : i \in 1 .. n
      /\ \A i \in f .. n : i \in 1 .. n
  BY <1>6
<1> HIDE DEF K, to
<1>9. \A i \in K : to[i] \in 1 .. n + e /\ new[to[i]] = lines[i]
  <2>1. \A i \in 1 .. s : i \in 1 .. n + e
    BY <1>5, <1>6
  <2>2. \A i \in f .. n : i + e \in 1 .. n + e
    BY <1>5, <1>6
  <2>. QED
    BY <1>4, <1>7, <1>8, <2>1, <2>2
<1>10. IsMarker(lines[s]) /\ IsMarker(new[s]) /\ new[s] = Requires(l) /\ IsMarker(lines[f]) /\ IsMarker(new[f + e])
  <2>1. s \in 1 .. s /\ f \in f .. n
    BY <1>6
  <2>. QED
    BY <1>1, <1>4, <2>1, Markers
<1>11. \A x \in s + 1 .. f - 1 : ~IsMarker(lines[x])
  BY <1>1, LineKinds
<1>12. \A x \in s + 1 .. s + m : new[x] \in Body /\ ~IsMarker(new[x])
  <2> SUFFICES ASSUME NEW x \in s + 1 .. s + m PROVE new[x] \in Body
    BY LineKinds
  <2>1. x - s \in 1 .. m /\ s + (x - s) = x
    BY <1>6
  <2>. QED
    BY <1>2, <1>4, <2>1
<1>13. ASSUME NEW x \in s + 1 .. f PROVE Above(lines, x, s)
  <2>1. s \in 1 .. x - 1 /\ \A y \in s + 1 .. x - 1 : y \in s + 1 .. f - 1
    BY <1>6
  <2>. QED
    BY <1>10, <1>11, <2>1 DEF Above
<1>14. ASSUME NEW x \in s + 1 .. f + e PROVE Above(new, x, s)
  <2>1. s \in 1 .. x - 1 /\ \A y \in s + 1 .. x - 1 : y \in s + 1 .. s + m
    BY <1>5, <1>6
  <2>. QED
    BY <1>10, <1>12, <2>1 DEF Above
<1>15. \A x \in 1 .. n : x \in K \/ (lines[x] \in Body /\ Above(lines, x, s))
  <2>1. \A x \in 1 .. n : x \in 1 .. s \/ x \in f .. n \/ (x \in s + 1 .. f - 1 /\ x \in s + 1 .. f)
    BY <1>6
  <2>. QED
    BY <1>1, <1>8, <1>13, <2>1
<1>16. \A x \in 1 .. n + e : (\E i \in K : to[i] = x) \/ (new[x] \in Body /\ Above(new, x, s))
  <2> SUFFICES ASSUME NEW x \in 1 .. n + e, ~(\E i \in K : to[i] = x) PROVE new[x] \in Body /\ Above(new, x, s)
    OBVIOUS
  <2>1. x \notin 1 .. s
    BY <1>7, <1>8
  <2>2. x - e \notin f .. n
    <3> SUFFICES ASSUME x - e \in f .. n PROVE FALSE
      OBVIOUS
    <3>1. (x - e) + e = x
      BY <1>5
    <3>. QED
      BY <1>7, <1>8, <3>1
  <2>3. x \in s + 1 .. s + m /\ x \in s + 1 .. f + e
    BY <1>5, <1>6, <2>1, <2>2
  <2>. QED
    BY <1>12, <1>14, <2>3
<1>17. ASSUME NEW i \in 1 .. s, NEW p
       PROVE  /\ Above(lines, i, p) => p \in K /\ Above(new, to[i], to[p])
              /\ Above(new, to[i], p) => p \in K /\ to[p] = p /\ Above(lines, i, p)
  <2>1. p \in 1 .. i - 1 => p \in 1 .. s /\ \A y \in p + 1 .. i - 1 : y \in 1 .. s
    BY <1>6
  <2>. QED
    BY <1>4, <1>7, <1>8, <2>1 DEF Above
<1>18. ASSUME NEW p
       PROVE  /\ Above(lines, f, p) => p \in K /\ Above(new, to[f], to[p])
              /\ Above(new, to[f], p) => p \in K /\ to[p] = p /\ Above(lines, f, p)
  <2>1. s \in 1 .. s /\ f \in f .. n /\ f \in s + 1 .. f /\ f + e \in s + 1 .. f + e /\ f + e \in Nat
    BY <1>5, <1>6
  <2>2. Above(lines, f, s) /\ Above(new, f + e, s) /\ to[f] = f + e /\ to[s] = s /\ s \in K
    BY <1>7, <1>8, <1>13, <1>14, <2>1
  <2>3. Above(lines, f, p) => p = s
    BY <1>6, <2>2, AboveOne
  <2>4. Above(new, f + e, p) => p = s
    BY <2>1, <2>2, AboveOne
  <2>. QED
    BY <2>2, <2>3, <2>4
<1>19. ASSUME NEW i \in f + 1 .. n + 1, NEW p, Above(lines, i, p) PROVE p \in K /\ Above(new, to[i], to[p])
  <2>1. p \in 1 .. i - 1 /\ IsMarker(lines[p]) /\ \A y \in p + 1 .. i - 1 : ~IsMarker(lines[y])
    BY <1>19 DEF Above
  <2>2. ~(p < f)
    <3> SUFFICES ASSUME p < f PROVE FALSE
      OBVIOUS
    <3>1. f \in p + 1 .. i - 1
      BY <1>6, <2>1
    <3>. QED
      BY <1>10, <2>1, <3>1
  <2>3. p \in f .. n /\ p + e \in 1 .. (i + e) - 1
    BY <1>5, <1>6, <2>1, <2>2
  <2>4. to[p] = p + e /\ to[i] = i + e
    <3>1. i \in f .. n \/ i = n + 1
      BY <1>6
    <3>. QED
      BY <1>7, <2>3, <3>1
  <2>5. ASSUME NEW y \in (p + e) + 1 .. (i + e) - 1 PROVE ~IsMarker(new[y])
    <3>1. y - e \in p + 1 .. i - 1 /\ y - e \in f .. n /\ (y - e) + e = y
      BY <1>5, <1>6, <2>1, <2>3
    <3>. QED
      BY <1>4, <2>1, <3>1
  <2>6. IsMarker(new[p + e])
    BY <1>4, <2>1, <2>3
  <2>. QED
    BY <1>8, <2>3, <2>4, <2>5, <2>6 DEF Above
<1>20. ASSUME NEW i \in f + 1 .. n + 1, NEW q, Above(new, to[i], q)
       PROVE  \E p \in K : to[p] = q /\ Above(lines, i, p)
  <2>0. to[i] = i + e
    <3>1. i \in f .. n \/ i = n + 1
      BY <1>6
    <3>. QED
      BY <1>7, <3>1
  <2>1. q \in 1 .. (i + e) - 1 /\ IsMarker(new[q]) /\ \A y \in q + 1 .. (i + e) - 1 : ~IsMarker(new[y])
    BY <1>20, <2>0 DEF Above
  <2>2. ~(q < f + e)
    <3> SUFFICES ASSUME q < f + e PROVE FALSE
      OBVIOUS
    <3>1. f + e \in q + 1 .. (i + e) - 1
      BY <1>5, <1>6, <2>1
    <3>. QED
      BY <1>10, <2>1, <3>1
  <2> DEFINE p == q - e
  <2>3. p \in f .. n /\ p + e = q /\ p \in 1 .. i - 1
    BY <1>5, <1>6, <2>1, <2>2
  <2>4. ASSUME NEW y \in p + 1 .. i - 1 PROVE ~IsMarker(lines[y])
    <3>1. y + e \in q + 1 .. (i + e) - 1 /\ y \in f .. n
      BY <1>5, <1>6, <2>1, <2>3
    <3>. QED
      BY <1>4, <2>1, <3>1
  <2> HIDE DEF p
  <2>5. IsMarker(lines[p])
    BY <1>4, <2>1, <2>3
  <2>6. to[p] = q /\ p \in K
    BY <1>7, <1>8, <2>3
  <2>. QED
    BY <2>3, <2>4, <2>5, <2>6 DEF Above
<1>21. \A i \in K \cup {n + 1} : i \in 1 .. s \/ i = f \/ i \in f + 1 .. n + 1
  BY <1>6, <1>8
<1>22. \A i \in K \cup {n + 1} : \A p : Above(lines, i, p) => p \in K /\ Above(new, to[i], to[p])
  BY <1>17, <1>18, <1>19, <1>21
<1>23. \A i \in K \cup {n + 1} : \A q : Above(new, to[i], q) => \E p \in K : to[p] = q /\ Above(lines, i, p)
  BY <1>17, <1>18, <1>20, <1>21
<1>24. K \subseteq 1 .. n /\ to[n + 1] = Len(new) + 1
  BY <1>4, <1>5, <1>6, <1>7, <1>8
<1>25. Others(lines, new, l, s, K, to)
  <2>1. Len(lines) = n
    BY DEF n
  <2>. QED
    BY <1>1, <1>4, <1>9, <1>10, <1>15, <1>16, <1>22, <1>23, <1>24, <2>1 DEF Others
<1>26. SameBut(lines, new, l)
  BY <1>4, <1>25, OthersTell
<1>. QED
  BY <1>26 DEF new

----------------------------------------------------------------------------
\* A valid template closes its groups.
LEMMA ValidIs ==
  ASSUME NEW t \in Seq(Line), Valid(t)
  PROVE  Ended(t, Len(t)) /\ Finished(t, Len(t))
<1> DEFINE n == Len(t)
<1>1. n \in Nat /\ DOMAIN t = 1 .. n /\ \A i \in 1 .. n : t[i] \in Line
  OBVIOUS
<1>2. \A i \in 1 .. n : Is(t[i], "requires") => NextMarker(t, i) # 0 /\ Is(t[NextMarker(t, i)], "end")
  BY <1>1 DEF Valid
<1>3. ASSUME NEW i \in 1 .. n, NEW p \in 1 .. i - 1, Above(t, i, p), Is(t[p], "requires"), IsMarker(t[i])
      PROVE  t[i] = End
  <2>1. p \in 1 .. n /\ p \in Nat /\ i \in p + 1 .. n /\ \A y \in p + 1 .. i - 1 : ~IsMarker(t[y])
    BY <1>1, <1>3 DEF Above
  <2>2. NextMarker(t, p) = i
    BY <1>1, <1>3, <2>1, NextIf
  <2>. QED
    BY <1>1, <1>2, <1>3, <2>1, <2>2, LineOf
<1>4. ASSUME NEW p, Above(t, n + 1, p) PROVE t[p] = End
  <2>1. p \in 1 .. n /\ p \in Nat /\ IsMarker(t[p]) /\ \A y \in p + 1 .. n : ~IsMarker(t[y])
    <3>1. (n + 1) - 1 = n
      BY <1>1
    <3>. QED
      BY <1>4, <3>1 DEF Above
  <2>2. NextMarker(t, p) = 0
    BY <1>1, <2>1, NextNone
  <2>3. ~Is(t[p], "requires")
    BY <1>2, <2>1, <2>2
  <2>4. t[p] \notin Body
    BY <2>1 DEF Body
  <2>. QED
    BY <1>1, <2>1, <2>3, <2>4, LineOf
<1>. QED
  BY <1>3, <1>4 DEF Ended, Finished

\* What seeding and reconciling leave of a template: its labels, each once and
\* closed, and its entries below no label.
Shaped(t, lines) ==
  /\ lines \in Seq(Line)
  /\ Free(lines, Len(lines)) = Free(t, Len(t))
  /\ \A l \in Labels : Marked(lines, Len(lines), l) => Marked(t, Len(t), l)
  /\ \A l \in Labels : Marked(t, Len(t), l) => Marked(lines, Len(lines), l)
  /\ Once(lines, Len(lines)) /\ Ended(lines, Len(lines)) /\ Finished(lines, Len(lines))

Kept(t, l, fs) == IF Wanted(l, fs) THEN Under(t, Len(t), l) ELSE {}

\* A list just seeded has the template's shape.
LEMMA SeededShape ==
  ASSUME NEW t \in Seq(Line), Valid(t), Once(t, Len(t)), NEW fs
  PROVE  /\ Shaped(t, SeedFor(t, fs))
         /\ \A l \in Labels : Under(SeedFor(t, fs), Len(SeedFor(t, fs)), l) = Kept(t, l, fs)
<1>1. Seed(t, SeedFor(t, fs), fs) /\ Ended(t, Len(t)) /\ Finished(t, Len(t))
  BY SeedForIs, ValidIs
<1>. QED
  BY <1>1 DEF Seed, Shaped, Kept

\* In such a file a group that is marked is closed.
LEMMA MarkedClosed ==
  ASSUME NEW lines \in Seq(Line), NEW l \in Labels, Marked(lines, Len(lines), l),
         Ended(lines, Len(lines)), Finished(lines, Len(lines))
  PROVE  Closed(lines, l)
<1> DEFINE s == Start(lines, l)
           n == Len(lines)
           x == NextMarker(lines, s)
<1>1. n \in Nat /\ s # 0
  BY MarkedHas DEF HasGroup
<1>2. s \in 1 .. n /\ lines[s] = Requires(l)
  BY <1>1, StartIs
<1>3. /\ x = 0 => \A j \in s + 1 .. n : ~IsMarker(lines[j])
      /\ x # 0 => x \in s + 1 .. n /\ IsMarker(lines[x]) /\ \A j \in s + 1 .. x - 1 : ~IsMarker(lines[j])
  <2>1. s \in Nat
    BY <1>2
  <2>. QED
    BY <1>1, <2>1, NextIs
<1>4. ASSUME lines[x] = End, x # 0 PROVE Closed(lines, l)
  BY <1>1, <1>4, ClosedIs
<1> HIDE DEF s, x, n
<1>5. IsMarker(lines[s]) /\ lines[s] # End /\ Is(lines[s], "requires")
  BY <1>2, Markers
<1>6. x # 0
  <2> SUFFICES ASSUME x = 0 PROVE FALSE
    OBVIOUS
  <2>1. s \in 1 .. (n + 1) - 1 /\ (n + 1) - 1 = n
    BY <1>1, <1>2
  <2>2. Above(lines, n + 1, s)
    BY <1>3, <1>5, <2>1 DEF Above
  <2>. QED
    BY <1>5, <2>2 DEF Finished, n
<1>7. s \in 1 .. x - 1 /\ x \in 1 .. n
  BY <1>1, <1>2, <1>3, <1>6
<1>8. Above(lines, x, s)
  BY <1>3, <1>5, <1>6, <1>7 DEF Above
<1>9. lines[x] = End
  BY <1>3, <1>5, <1>6, <1>7, <1>8 DEF Ended, n
<1>. QED
  BY <1>4, <1>6, <1>9

\* One step of reconcile on such a file.
LEMMA GroupShaped ==
  ASSUME NEW t \in Seq(Line), Valid(t), Once(t, Len(t)), NEW i \in Heads(t), NEW lines, Shaped(t, lines), NEW fs,
         Under(lines, Len(lines), GroupAt(t, i).label) \in {{}, Under(t, Len(t), GroupAt(t, i).label)}
  PROVE  LET g == GroupAt(t, i)
             new == ReconcileGroup(lines, g, fs) IN
         /\ Shaped(t, new)
         /\ Under(new, Len(new), g.label) = Kept(t, g.label, fs)
         /\ \A k \in Labels : k # g.label => Under(new, Len(new), k) = Under(lines, Len(lines), k)
<1> DEFINE g == GroupAt(t, i)
           l == g.label
           inside == Inside(lines, l)
           own == EntriesOf(g.lines)
           new == ReconcileGroup(lines, g, fs)
<1>1. /\ own = Under(t, Len(t), l) /\ Marked(t, Len(t), l) /\ l \in Labels
      /\ g.lines \in Seq(Body) /\ g.lines \in Seq(Line) /\ Proper(g)
  BY GroupUnder, GroupIs, LineKinds DEF Proper
<1>0. Under(lines, Len(lines), l) \in {{}, Under(t, Len(t), l)}
  OBVIOUS
<1> HIDE DEF g
<1>2. lines \in Seq(Line) /\ Once(lines, Len(lines)) /\ Ended(lines, Len(lines)) /\ Finished(lines, Len(lines))
  BY DEF Shaped
<1>3. Closed(lines, l) /\ HasGroup(lines, l)
  <2>1. Marked(lines, Len(lines), l)
    BY <1>1 DEF Shaped
  <2>. QED
    BY <1>1, <1>2, <2>1, MarkedClosed, ClosedHasGroup
<1>4. EntriesOf(inside) = Under(lines, Len(lines), l) /\ inside \in Seq(Body)
  BY <1>1, <1>2, <1>3, InsideUnder, InsideIs
<1>5. ASSUME NEW mid \in Seq(Body), EntriesOf(mid) = Kept(t, l, fs), NEW made, made = Replace(lines, l, mid)
      PROVE  /\ Shaped(t, made)
             /\ Under(made, Len(made), l) = Kept(t, l, fs)
             /\ \A k \in Labels : k # l => Under(made, Len(made), k) = Under(lines, Len(lines), k)
  <2>1. made \in Seq(Line) /\ Closed(made, l) /\ Inside(made, l) = mid
    BY <1>1, <1>2, <1>3, <1>5, ReplaceIs
  <2>2. SameBut(lines, made, l)
    BY <1>1, <1>2, <1>3, <1>5, ReplaceTells
  <2>3. Once(made, Len(made))
    BY <1>2, <2>2 DEF SameBut
  <2>4. Under(made, Len(made), l) = Kept(t, l, fs)
    BY <1>1, <1>5, <2>1, <2>3, InsideUnder
  <2>5. Shaped(t, made)
    BY <2>1, <2>2 DEF Shaped, SameBut
  <2>. QED
    BY <2>2, <2>4, <2>5 DEF SameBut
<1>6. ASSUME Under(lines, Len(lines), l) = Kept(t, l, fs), new = lines
      PROVE  /\ Shaped(t, new)
             /\ Under(new, Len(new), l) = Kept(t, l, fs)
             /\ \A k \in Labels : k # l => Under(new, Len(new), k) = Under(lines, Len(lines), k)
  BY <1>6
<1>7. CASE EntriesOf(inside) = {} /\ ~Wanted(l, fs)
  <2>1. new = lines
    BY <1>3, <1>7 DEF ReconcileGroup
  <2>2. Under(lines, Len(lines), l) = Kept(t, l, fs)
    BY <1>4, <1>7 DEF Kept
  <2>. QED
    BY <1>6, <2>1, <2>2 DEF g
<1>8. CASE EntriesOf(inside) # {} /\ Wanted(l, fs)
  <2>1. new = lines
    BY <1>3, <1>8 DEF ReconcileGroup
  <2>2. Under(lines, Len(lines), l) = Kept(t, l, fs)
    BY <1>0, <1>4, <1>8 DEF Kept
  <2>. QED
    BY <1>6, <2>1, <2>2 DEF g
<1>9. CASE EntriesOf(inside) = {} /\ Wanted(l, fs)
  <2> DEFINE left == Without(inside, Notes)
             mid == left \o g.lines
  <2>1. left \in Seq(Body) /\ left \in Seq(Line) /\ EntriesOf(left) = {}
    BY <1>4, <1>9, WithoutNotes, LineKinds
  <2>2. new = Replace(lines, l, mid)
    BY <1>3, <1>9 DEF ReconcileGroup, RestoreGroup
  <2> HIDE DEF left
  <2>3. mid \in Seq(Body) /\ EntriesOf(mid) = own
    <3>1. EntriesOf(mid) = EntriesOf(left) \cup own
      BY <1>1, <2>1, JoinEntries
    <3>2. IsJoin(Body, mid, left, g.lines)
      BY <1>1, <2>1, JoinIs
    <3>. QED
      BY <2>1, <3>1, <3>2 DEF IsJoin
  <2>4. EntriesOf(mid) = Kept(t, l, fs)
    BY <1>1, <1>9, <2>3 DEF Kept
  <2> HIDE DEF mid, new
  <2>. QED
    BY <1>5, <2>2, <2>3, <2>4 DEF g, new
<1>10. CASE EntriesOf(inside) # {} /\ ~Wanted(l, fs)
  <2> DEFINE kept == Without(inside, EntryLines(own))
             note == IF EntriesOf(kept) = {} /\ (\A j \in DOMAIN kept : ~Is(kept[j], "note"))
                     THEN <<Note(l)>> ELSE <<>>
             mid == note \o kept
  <2>1. kept \in Seq(Body) /\ kept \in Seq(Line) /\ EntriesOf(kept) = EntriesOf(inside) \ own
    BY <1>4, WithoutEntries, LineKinds
  <2>2. EntriesOf(kept) = {}
    BY <1>0, <1>1, <1>4, <2>1
  <2>3. kept # inside
    BY <1>10, <2>2
  <2>4. new = Replace(lines, l, mid)
    BY <1>3, <1>10, <2>3 DEF ReconcileGroup, EmptyGroup
  <2>5. note \in Seq(Body) /\ note \in Seq(Line) /\ EntriesOf(note) = {}
    <3> HIDE DEF kept
    <3>. QED
      BY <1>1, NoteOrNone
  <2> HIDE DEF kept, note
  <2>6. mid \in Seq(Body) /\ EntriesOf(mid) = {}
    <3>1. EntriesOf(mid) = EntriesOf(note) \cup EntriesOf(kept)
      BY <2>1, <2>5, JoinEntries
    <3>2. IsJoin(Body, mid, note, kept)
      BY <2>1, <2>5, JoinIs
    <3>. QED
      BY <2>2, <2>5, <3>1, <3>2 DEF IsJoin
  <2>7. EntriesOf(mid) = Kept(t, l, fs)
    BY <1>10, <2>6 DEF Kept
  <2> HIDE DEF mid, new
  <2>. QED
    BY <1>5, <2>4, <2>6, <2>7 DEF g, new
<1>. QED
  BY <1>7, <1>8, <1>9, <1>10

\* A list that was seeded has, after any reconcile, what seeding would give it.
LEMMA ReconciledShape ==
  ASSUME NEW t \in Seq(Line), Valid(t), Once(t, Len(t)), NEW lines, Shaped(t, lines), NEW fs, NEW gs,
         \A l \in Labels : Under(lines, Len(lines), l) = Kept(t, l, gs)
  PROVE  /\ Shaped(t, Reconcile(lines, t, fs))
         /\ \A l \in Labels : Under(Reconcile(lines, t, fs), Len(Reconcile(lines, t, fs)), l) = Kept(t, l, fs)
<1> DEFINE upTo == ReconciledUpTo(lines, t, fs)
           n == Len(t)
           Read(k, l) == \E i \in Heads(t) : i <= k /\ GroupAt(t, i).label = l
           G(k) == /\ Shaped(t, upTo[k])
                   /\ \A l \in Labels : /\ Read(k, l) => Under(upTo[k], Len(upTo[k]), l) = Kept(t, l, fs)
                                        /\ ~Read(k, l) => Under(upTo[k], Len(upTo[k]), l) = Kept(t, l, gs)
           T == {k \in Nat : k <= n => G(k)}
<1>0. lines \in Seq(Line)
  BY DEF Shaped
<1>1. /\ n \in Nat /\ Heads(t) \subseteq 1 .. n /\ upTo[0] = lines
      /\ \A i \in 1 .. n :
           /\ i \in Heads(t) => upTo[i] = ReconcileGroup(upTo[i - 1], GroupAt(t, i), fs)
           /\ i \notin Heads(t) => upTo[i] = upTo[i - 1]
  BY <1>0, ReconciledIs DEF Heads
<1> HIDE DEF upTo
<1>1a. ASSUME NEW i \in Heads(t), NEW j \in Heads(t), GroupAt(t, i).label = GroupAt(t, j).label
       PROVE  i = j
  <2>1. /\ t[i] = Requires(GroupAt(t, i).label) /\ t[j] = Requires(GroupAt(t, j).label)
        /\ GroupAt(t, i).label \in Labels /\ i \in 1 .. n /\ j \in 1 .. n
    BY GroupUnder
  <2>. QED
    BY <1>1a, <2>1 DEF Once
<1>1b. \A i \in Heads(t) : GroupAt(t, i).label \in Labels
  BY GroupUnder
<1> HIDE DEF n
<1>2. 0 \in T
  <2>1. \A l : ~Read(0, l)
    BY <1>1
  <2> HIDE DEF Read
  <2>. QED
    BY <1>1, <2>1
<1>3. ASSUME NEW k \in Nat, k \in T PROVE k + 1 \in T
  <2> SUFFICES ASSUME k + 1 <= n PROVE G(k + 1)
    OBVIOUS
  <2>1. k + 1 \in 1 .. n /\ (k + 1) - 1 = k
    BY <1>1
  <2>2. G(k)
    BY <1>1, <1>3
  <2>2a. \A i \in Heads(t) : i \in Nat
    BY <1>1
  <2>2b. \A i \in Heads(t) : i <= k + 1 <=> i <= k \/ i = k + 1
    BY <2>2a
  <2>3. CASE k + 1 \notin Heads(t)
    <3>1. upTo[k + 1] = upTo[k]
      BY <1>1, <2>1, <2>3
    <3>2. \A l : Read(k + 1, l) <=> Read(k, l)
      BY <2>2b, <2>3
    <3> HIDE DEF Read
    <3>. QED
      BY <2>2, <3>1, <3>2
  <2>4. CASE k + 1 \in Heads(t)
    <3> DEFINE g == GroupAt(t, k + 1)
    <3>1. upTo[k + 1] = ReconcileGroup(upTo[k], g, fs)
      BY <1>1, <2>1, <2>4
    <3>2. Shaped(t, upTo[k])
      BY <2>2
    <3>3. ~Read(k, g.label)
      <4>1. ~(k + 1 <= k)
        OBVIOUS
      <4>. QED
        BY <1>1a, <2>4, <4>1
    <3>4. g.label \in Labels
      BY <1>1b, <2>4
    <3>5. Under(upTo[k], Len(upTo[k]), g.label) = Kept(t, g.label, gs)
      <4> HIDE DEF Read, g
      <4>. QED
        BY <2>2, <3>3, <3>4
    <3>6. Under(upTo[k], Len(upTo[k]), g.label) \in {{}, Under(t, Len(t), g.label)}
      BY <3>5 DEF Kept
    <3>7. /\ Shaped(t, upTo[k + 1])
          /\ Under(upTo[k + 1], Len(upTo[k + 1]), g.label) = Kept(t, g.label, fs)
          /\ \A l \in Labels : l # g.label => Under(upTo[k + 1], Len(upTo[k + 1]), l) = Under(upTo[k], Len(upTo[k]), l)
      BY <2>4, <3>1, <3>2, <3>6, GroupShaped
    <3>8. \A l : Read(k + 1, l) <=> Read(k, l) \/ l = g.label
      BY <2>2b, <2>4
    <3> HIDE DEF Read, g
    <3>. QED
      BY <2>2, <3>7, <3>8
  <2>. QED
    BY <2>3, <2>4
<1>4. G(n)
  <2> HIDE DEF T, G
  <2>1. n \in T
    BY <1>1, <1>2, <1>3, Counting
  <2> USE DEF T
  <2>. QED
    BY <1>1, <2>1
<1>5. ASSUME NEW l \in Labels, ~Read(n, l) PROVE Kept(t, l, gs) = {} /\ Kept(t, l, fs) = {}
  <2>1. \A i \in Heads(t) : i <= n
    BY <1>1
  <2>2. \A i \in Heads(t) : GroupAt(t, i).label # l
    BY <1>5, <2>1
  <2>3. \A p \in 1 .. Len(t) : t[p] # Requires(l)
    <3> SUFFICES ASSUME NEW p \in 1 .. Len(t), t[p] = Requires(l) PROVE FALSE
      OBVIOUS
    <3>1. Is(t[p], "requires") /\ t[p].arg = l
      BY Markers
    <3>2. p \in Heads(t) /\ GroupAt(t, p).label = l
      BY <3>1 DEF Heads, GroupAt
    <3>. QED
      BY <2>2, <3>2
  <2>4. \A x \in 1 .. Len(t) : \A p \in 1 .. x - 1 : p \in 1 .. Len(t)
    OBVIOUS
  <2>5. Under(t, Len(t), l) = {}
    BY <2>3, <2>4 DEF Under
  <2>. QED
    BY <2>5 DEF Kept
<1>6. Reconcile(lines, t, fs) = upTo[n]
  BY DEF Reconcile, upTo, n
<1> HIDE DEF Read
<1>. QED
  BY <1>4, <1>5, <1>6

\* The entries of a file are those below a label and those below none.
LEMMA EntriesBelow ==
  ASSUME NEW lines \in Seq(Line)
  PROVE  EntriesOf(lines) = Free(lines, Len(lines)) \cup UNION {Under(lines, Len(lines), l) : l \in Labels}
<1> DEFINE n == Len(lines)
<1>1. n \in Nat /\ DOMAIN lines = 1 .. n /\ \A i \in 1 .. n : lines[i] \in Line
  OBVIOUS
<1>2. ASSUME NEW d \in EntriesOf(lines), d \notin Free(lines, n) PROVE \E l \in Labels : d \in Under(lines, n, l)
  <2>1. PICK i \in 1 .. n : d \in Entries /\ lines[i] = Entry(d)
    BY <1>1, <1>2, EntriesAre
  <2>2. PICK p \in 1 .. i - 1 : Above(lines, i, p) /\ lines[p] # End
    BY <1>2, <2>1 DEF Free
  <2>3. p \in 1 .. n /\ IsMarker(lines[p])
    BY <1>1, <2>2 DEF Above
  <2>4. lines[p].arg \in Labels /\ lines[p] = Requires(lines[p].arg)
    <3>1. lines[p] \notin Body /\ lines[p] \in Line
      BY <1>1, <2>3 DEF Body
    <3>. QED
      BY <2>2, <3>1, LineOf
  <2>. QED
    BY <2>1, <2>2, <2>4 DEF Under
<1>3. ASSUME NEW d \in Free(lines, n) PROVE d \in EntriesOf(lines)
  BY <1>1, <1>3, EntriesAre DEF Free
<1>4. ASSUME NEW l, NEW d \in Under(lines, n, l) PROVE d \in EntriesOf(lines)
  BY <1>1, <1>4, EntriesAre DEF Under
<1>. QED
  BY <1>2, <1>3, <1>4

\* Two lists of one shape that agree below each marker have the same entries.
LEMMA SameEntries ==
  ASSUME NEW t, NEW a, NEW b, Shaped(t, a), Shaped(t, b),
         \A l \in Labels : Under(a, Len(a), l) = Under(b, Len(b), l)
  PROVE  EntriesOf(a) = EntriesOf(b)
<1>1. a \in Seq(Line) /\ b \in Seq(Line) /\ Free(a, Len(a)) = Free(b, Len(b))
  BY DEF Shaped
<1>2. {Under(a, Len(a), l) : l \in Labels} = {Under(b, Len(b), l) : l \in Labels}
  OBVIOUS
<1>. QED
  BY <1>1, <1>2, EntriesBelow

\* What is true of a list nobody touched, and inductive.
Untouched ==
  file # NoList /\ ~touched =>
    /\ Valid(template) /\ Shaped(template, file)
    /\ \A l \in Labels : Under(file, Len(file), l) = Kept(template, l, features)

\* A list nobody touched holds what seeding for the present features gives,
\* where no valid template has a label twice.
THEOREM UntouchedAgrees ==
  ASSUME \A t \in Templates : Valid(t) => Once(t, Len(t)) PROVE GroupSpec => []SeedAgrees
<1>1. GroupInit => Untouched
  BY DEF GroupInit, Untouched
<1>2. GroupTypeOK /\ Untouched /\ [GroupNext]_groupVars => Untouched'
  <2> SUFFICES ASSUME GroupTypeOK, Untouched, [GroupNext]_groupVars PROVE Untouched'
    OBVIOUS
  <2>1. CASE \E fs \in SUBSET Features : Create(fs)
    <3>1. PICK fs \in SUBSET Features : Create(fs)
      BY <2>1
    <3>2. /\ template \in Seq(Line) /\ Valid(template) /\ Once(template, Len(template))
          /\ template' = template /\ features' = fs /\ touched' = touched
      BY <3>1, GroupsAssumption DEF Create, GroupTypeOK
    <3>3. CASE file = NoList
      <4>1. file' = SeedFor(template, fs)
        BY <3>1, <3>3 DEF Create
      <4>. QED
        BY <3>2, <4>1, SeededShape DEF Untouched
    <3>4. CASE file # NoList
      <4>1. file' = Reconcile(file, template, fs)
        BY <3>1, <3>4 DEF Create
      <4> SUFFICES ASSUME ~touched
                   PROVE  /\ Valid(template) /\ Shaped(template, file')
                          /\ \A l \in Labels : Under(file', Len(file'), l) = Kept(template, l, fs)
        BY <3>2 DEF Untouched
      <4>2. /\ Shaped(template, file)
            /\ \A l \in Labels : Under(file, Len(file), l) = Kept(template, l, features)
        BY <3>4 DEF Untouched
      <4>. QED
        BY <3>2, <4>1, <4>2, ReconciledShape
    <3>. QED
      BY <3>3, <3>4
  <2>2. CASE UNCHANGED groupVars
    BY <2>2 DEF groupVars, Untouched
  <2>3. CASE touched' = TRUE \/ file' = NoList
    BY <2>3 DEF Untouched
  <2>. QED
    BY <2>1, <2>2, <2>3, Touched
<1>3. GroupTypeOK /\ Untouched => SeedAgrees
  <2> SUFFICES ASSUME GroupTypeOK, Untouched, file # NoList, ~touched
               PROVE  EntriesOf(file) = EntriesOf(SeedFor(template, features))
    BY DEF SeedAgrees
  <2>1. /\ Valid(template) /\ Shaped(template, file)
        /\ \A l \in Labels : Under(file, Len(file), l) = Kept(template, l, features)
    BY DEF Untouched
  <2>2. template \in Seq(Line) /\ Once(template, Len(template))
    BY <2>1, GroupsAssumption DEF GroupTypeOK
  <2>. QED
    BY <2>1, <2>2, SeededShape, SameEntries
<1>. QED
  BY <1>1, <1>2, <1>3, TypeCorrect, PTL DEF GroupSpec

----------------------------------------------------------------------------
(* What is a person's stays.                                               *)

\* Two stretches of m lines in which the same are to be taken.
Matching(u, v, K, L, a, c, m) ==
  /\ a \in Nat /\ c \in Nat /\ m \in Nat
  /\ Len(u) \in Nat /\ Len(v) \in Nat /\ a + m <= Len(u) /\ c + m <= Len(v)
  /\ \A j \in 1 .. m : (a + j \in K <=> c + j \in L) /\ (a + j \in K => u[a + j] = v[c + j])

\* From them as much is taken.
LEMMA TakenAlike ==
  ASSUME NEW u, NEW v, NEW K, NEW L, NEW a, NEW c, NEW m, NEW f, NEW h,
         Matching(u, v, K, L, a, c, m), Taking(f, u, K), Taking(h, v, L), f[a] = h[c]
  PROVE  f[a + m] = h[c + m]
<1> USE DEF Matching
<1> DEFINE T == {k \in Nat : k <= m => f[a + k] = h[c + k]}
<1>1. 0 \in T
  OBVIOUS
<1>2. ASSUME NEW k \in Nat, k \in T PROVE k + 1 \in T
  <2> SUFFICES ASSUME k + 1 <= m PROVE f[a + (k + 1)] = h[c + (k + 1)]
    OBVIOUS
  <2> DEFINE i == a + (k + 1)
             j == c + (k + 1)
  <2>1. k + 1 \in 1 .. m /\ i \in 1 .. Len(u) /\ j \in 1 .. Len(v) /\ i - 1 = a + k /\ j - 1 = c + k
    OBVIOUS
  <2>2. f[a + k] = h[c + k]
    BY <1>2
  <2>3. (i \in K <=> j \in L) /\ (i \in K => u[i] = v[j])
    BY <2>1
  <2> HIDE DEF i, j
  <2>4. f[i] = IF i \in K THEN Append(f[a + k], u[i]) ELSE f[a + k]
    BY <2>1 DEF Taking
  <2>5. h[j] = IF j \in L THEN Append(h[c + k], v[j]) ELSE h[c + k]
    BY <2>1 DEF Taking
  <2>. QED
    BY <2>2, <2>3, <2>4, <2>5 DEF i, j
<1>3. m \in T
  <2> HIDE DEF T
  <2>. QED
    BY <1>1, <1>2, Counting
<1>. QED
  BY <1>3

\* Where nothing is to be taken nothing is.
LEMMA NoneTaken ==
  ASSUME NEW u, NEW K, NEW a \in Nat, NEW m \in Nat, NEW f, Len(u) \in Nat, a + m <= Len(u), Taking(f, u, K),
         \A j \in 1 .. m : a + j \notin K
  PROVE  f[a + m] = f[a]
<1> DEFINE T == {k \in Nat : k <= m => f[a + k] = f[a]}
<1>1. 0 \in T
  OBVIOUS
<1>2. ASSUME NEW k \in Nat, k \in T PROVE k + 1 \in T
  <2> SUFFICES ASSUME k + 1 <= m PROVE f[a + (k + 1)] = f[a]
    OBVIOUS
  <2> DEFINE i == a + (k + 1)
  <2>1. k + 1 \in 1 .. m /\ i \in 1 .. Len(u) /\ i - 1 = a + k
    OBVIOUS
  <2>2. f[a + k] = f[a]
    BY <1>2
  <2>3. i \notin K
    BY <2>1
  <2> HIDE DEF i
  <2>4. f[i] = IF i \in K THEN Append(f[a + k], u[i]) ELSE f[a + k]
    BY <2>1 DEF Taking
  <2>. QED
    BY <2>2, <2>3, <2>4 DEF i
<1>3. m \in T
  <2> HIDE DEF T
  <2>. QED
    BY <1>1, <1>2, Counting
<1>. QED
  BY <1>3

\* A line put after two pieces, or after the second.
AppendsToLast(S, u, v, x) == Append(u \o v, x) = u \o Append(v, x)

\* A line put after two pieces is put after the second.
LEMMA AppendJoin ==
  ASSUME NEW S, NEW u \in Seq(S), NEW v \in Seq(S), NEW x \in S
  PROVE  AppendsToLast(S, u, v, x)
<1>1. u \o v \in Seq(S) /\ <<x>> \in Seq(S)
  OBVIOUS
<1>2. Append(u \o v, x) = (u \o v) \o <<x>>
  BY <1>1, AppendIsConcat
<1>3. (u \o v) \o <<x>> = u \o (v \o <<x>>)
  BY <1>1, ConcatAssociative
<1>4. v \o <<x>> = Append(v, x)
  BY AppendIsConcat
<1>. QED
  BY <1>2, <1>3, <1>4 DEF AppendsToLast

\* A stretch of lines of which some are to be taken, told by what they are.
Stretch(u, v, K, a, gone) ==
  /\ a \in Nat /\ a + Len(v) <= Len(u)
  /\ \A j \in 1 .. Len(v) : u[a + j] = v[j] /\ (a + j \in K <=> v[j] \notin gone)

TakenOf(f, v, a, gone) == f[a + Len(v)] = f[a] \o Without(v, gone)

\* What is taken of it is that stretch without the others.
LEMMA TakenWithout ==
  ASSUME NEW S, NEW u \in Seq(S), NEW v \in Seq(S), NEW K, NEW a, NEW gone, Stretch(u, v, K, a, gone),
         NEW f, Taking(f, u, K), f[a] \in Seq(S)
  PROVE  TakenOf(f, v, a, gone)
<1> DEFINE m == Len(v)
           L == {i \in DOMAIN v : v[i] \notin gone}
           h == TakenUpTo(v, L)
           base == f[a]
           J(k) == f[a + k] = base \o h[k]
           T == {k \in Nat : k <= m => J(k)}
<1>1. Taking(h, v, L) /\ \A i \in 0 .. m : h[i] \in Seq(S)
  BY TakenIs
<1>2. Without(v, gone) = h[m]
  BY DEF Without
<1>3. /\ m \in Nat /\ Len(u) \in Nat /\ a \in Nat /\ a + m <= Len(u) /\ base \in Seq(S)
      /\ \A j \in 1 .. m : v[j] \in S /\ (j \in L <=> v[j] \notin gone)
      /\ \A j \in 1 .. m : u[a + j] = v[j] /\ (a + j \in K <=> v[j] \notin gone)
  BY DEF Stretch
<1> HIDE DEF h, L, base
<1>4. 0 \in T
  <2>1. h[0] = <<>> /\ base \o <<>> = base /\ a + 0 = a
    BY <1>1, <1>3, ConcatEmptySeq DEF Taking
  <2>. QED
    BY <2>1 DEF base
<1>5. ASSUME NEW k \in Nat, k \in T PROVE k + 1 \in T
  <2> SUFFICES ASSUME k + 1 <= m PROVE f[a + (k + 1)] = base \o h[k + 1]
    OBVIOUS
  <2> DEFINE i == a + (k + 1)
             j == k + 1
  <2>1. j \in 1 .. m /\ i \in 1 .. Len(u) /\ i - 1 = a + k /\ j - 1 = k /\ k \in 0 .. m
    BY <1>3
  <2>2. f[a + k] = base \o h[k]
    BY <1>5
  <2>3. u[i] = v[j] /\ (i \in K <=> j \in L) /\ v[j] \in S /\ h[k] \in Seq(S)
    BY <1>1, <1>3, <2>1
  <2> HIDE DEF i, j
  <2>4. f[i] = IF i \in K THEN Append(f[a + k], u[i]) ELSE f[a + k]
    BY <2>1 DEF Taking
  <2>5. h[j] = IF j \in L THEN Append(h[k], v[j]) ELSE h[k]
    BY <1>1, <2>1 DEF Taking
  <2>6. Append(base \o h[k], v[j]) = base \o Append(h[k], v[j])
    <3> DEFINE x == v[j]
               y == h[k]
    <3>1. x \in S /\ y \in Seq(S) /\ base \in Seq(S)
      BY <1>3, <2>3
    <3> HIDE DEF x, y
    <3>2. AppendsToLast(S, base, y, x)
      BY <3>1, AppendJoin
    <3>. QED
      BY <3>2 DEF AppendsToLast, x, y
  <2>7. f[i] = base \o h[j]
    BY <2>2, <2>3, <2>4, <2>5, <2>6
  <2>. QED
    BY <2>7 DEF i, j
<1>6. m \in T
  <2> HIDE DEF T, m
  <2>. QED
    BY <1>3, <1>4, <1>5, Counting
<1>7. J(m)
  <2>1. m <= m
    BY <1>3
  <2>2. m <= m => J(m)
    BY <1>6 DEF T
  <2> HIDE DEF J
  <2>. QED
    BY <2>1, <2>2
<1>. QED
  BY <1>2, <1>7 DEF base, J, TakenOf

\* One line more to take or to leave.
LEMMA WithoutMore ==
  ASSUME NEW S, NEW u \in Seq(S), NEW x \in S, NEW gone
  PROVE  Without(Append(u, x), gone) = IF x \in gone THEN Without(u, gone) ELSE Append(Without(u, gone), x)
<1> DEFINE v == Append(u, x)
           n == Len(u)
           K == {i \in DOMAIN u : u[i] \notin gone}
           L == {i \in DOMAIN v : v[i] \notin gone}
           f == TakenUpTo(u, K)
           h == TakenUpTo(v, L)
<1>1. v \in Seq(S) /\ Len(v) = n + 1 /\ n \in Nat /\ v[n + 1] = x /\ \A i \in 1 .. n : v[i] = u[i]
  OBVIOUS
<1>2. Taking(f, u, K) /\ Taking(h, v, L)
  BY <1>1, TakenIs
<1>3. Without(u, gone) = f[n] /\ Without(v, gone) = h[n + 1]
  BY <1>1 DEF Without
<1>4. (\A i \in 1 .. n : i \in K <=> u[i] \notin gone) /\ (\A i \in 1 .. n + 1 : i \in L <=> v[i] \notin gone)
  BY <1>1
<1> HIDE DEF v, K, L, f, h, n
<1>5. \A j \in 1 .. n : (0 + j \in K <=> 0 + j \in L) /\ (0 + j \in K => u[0 + j] = v[0 + j])
  <2> TAKE j \in 1 .. n
  <2>1. 0 + j = j /\ j \in 1 .. n + 1
    BY <1>1
  <2>. QED
    BY <1>1, <1>4, <2>1
<1>6. f[0] = h[0]
  BY <1>2 DEF Taking
<1>7. f[0 + n] = h[0 + n]
  <2>1. 0 + n <= Len(u) /\ 0 + n <= Len(v) /\ Len(u) \in Nat /\ Len(v) \in Nat
    BY <1>1 DEF n
  <2>2. n \in Nat /\ 0 \in Nat
    BY <1>1
  <2>. QED
    <3>1. Matching(u, v, K, L, 0, 0, n)
      BY <1>5, <2>1, <2>2 DEF Matching
    <3>. QED
      BY <1>2, <1>6, <3>1, TakenAlike
<1>8. h[n + 1] = IF n + 1 \in L THEN Append(h[n], v[n + 1]) ELSE h[n]
  <2>1. n + 1 \in 1 .. Len(v) /\ (n + 1) - 1 = n
    BY <1>1
  <2>. QED
    BY <1>2, <2>1 DEF Taking
<1>9. 0 + n = n /\ n + 1 \in 1 .. n + 1
  BY <1>1
<1>. QED
  BY <1>1, <1>3, <1>4, <1>7, <1>8, <1>9 DEF v

\* Taking some lines out first changes nothing when they go anyway.
LEMMA WithoutTwice ==
  ASSUME NEW S, NEW lines \in Seq(S), NEW some, NEW gone, \A x \in S : x \in some => x \in gone
  PROVE  Without(Without(lines, some), gone) = Without(lines, gone)
<1> DEFINE n == Len(lines)
           K == {i \in DOMAIN lines : lines[i] \notin some}
           L == {i \in DOMAIN lines : lines[i] \notin gone}
           f == TakenUpTo(lines, K)
           h == TakenUpTo(lines, L)
           T == {k \in Nat : k <= n => Without(f[k], gone) = h[k]}
<1>1. Taking(f, lines, K) /\ Taking(h, lines, L) /\ \A i \in 0 .. n : f[i] \in Seq(S)
  BY TakenIs
<1>2. Without(lines, some) = f[n] /\ Without(lines, gone) = h[n]
  BY DEF Without
<1>3. n \in Nat /\ \A i \in 1 .. n : lines[i] \in S /\ (i \in K <=> lines[i] \notin some) /\ (i \in L <=> lines[i] \notin gone)
  OBVIOUS
<1> HIDE DEF f, h, K, L
<1>4. 0 \in T
  <2>1. f[0] = <<>> /\ h[0] = <<>>
    BY <1>1 DEF Taking
  <2>2. Without(<<>>, gone) = <<>>
    <3> DEFINE none == {i \in DOMAIN <<>> : <<>>[i] \notin gone}
               g == TakenUpTo(<<>>, none)
    <3>1. <<>> \in Seq(S) /\ Len(<<>>) = 0
      OBVIOUS
    <3>2. Without(<<>>, gone) = g[0]
      BY <3>1 DEF Without
    <3> HIDE DEF none
    <3>3. Taking(g, <<>>, none)
      BY <3>1, TakenIs
    <3>. QED
      BY <3>2, <3>3 DEF Taking
  <2>. QED
    BY <2>1, <2>2
<1>5. ASSUME NEW k \in Nat, k \in T PROVE k + 1 \in T
  <2> SUFFICES ASSUME k + 1 <= n PROVE Without(f[k + 1], gone) = h[k + 1]
    OBVIOUS
  <2> DEFINE i == k + 1
             x == lines[i]
  <2>1. i \in 1 .. n /\ i - 1 = k /\ k \in 0 .. n
    BY <1>3
  <2>2. Without(f[k], gone) = h[k]
    BY <1>5
  <2>3. x \in S /\ f[k] \in Seq(S) /\ (i \in K <=> x \notin some) /\ (i \in L <=> x \notin gone)
    BY <1>1, <1>3, <2>1
  <2> HIDE DEF i
  <2>4. f[i] = IF i \in K THEN Append(f[k], x) ELSE f[k]
    BY <1>1, <2>1 DEF Taking
  <2>5. h[i] = IF i \in L THEN Append(h[k], x) ELSE h[k]
    BY <1>1, <2>1 DEF Taking
  <2> HIDE DEF x
  <2>6. Without(Append(f[k], x), gone) = IF x \in gone THEN Without(f[k], gone) ELSE Append(Without(f[k], gone), x)
    <3> DEFINE y == f[k]
    <3>1. x \in S /\ y \in Seq(S)
      BY <2>3
    <3> HIDE DEF y
    <3>2. Without(Append(y, x), gone) = IF x \in gone THEN Without(y, gone) ELSE Append(Without(y, gone), x)
      BY <3>1, WithoutMore
    <3>. QED
      BY <3>2 DEF y
  <2>7. Without(f[i], gone) = h[i]
    BY <2>2, <2>3, <2>4, <2>5, <2>6
  <2>. QED
    BY <2>7 DEF i
<1>6. n \in T
  <2> HIDE DEF T, n
  <2>. QED
    BY <1>3, <1>4, <1>5, Counting
<1>. QED
  BY <1>2, <1>3, <1>6

\* Where a group is.
Placed(lines, l, s, f) ==
  /\ s \in 1 .. Len(lines) /\ f \in s + 1 .. Len(lines)
  /\ lines[s] = Requires(l) /\ lines[f] = End
  /\ \A i \in 1 .. s - 1 : lines[i] # Requires(l)
  /\ \A j \in s + 1 .. f - 1 : ~IsMarker(lines[j])

\* A closed group is where findGroup says, and only there.
LEMMA PlacedIs ==
  ASSUME NEW lines \in Seq(Line), NEW l
  PROVE  /\ Closed(lines, l) => Placed(lines, l, Start(lines, l), Finish(lines, l))
         /\ \A s, f : Placed(lines, l, s, f) => Closed(lines, l) /\ Start(lines, l) = s /\ Finish(lines, l) = f
<1>1. Len(lines) \in Nat
  OBVIOUS
<1>2. ASSUME Closed(lines, l) PROVE Placed(lines, l, Start(lines, l), Finish(lines, l))
  <2> DEFINE s == Start(lines, l)
             f == Finish(lines, l)
  <2>1. /\ s \in 1 .. Len(lines) /\ f \in s + 1 .. Len(lines) /\ lines[s] = Requires(l) /\ lines[f] = End
        /\ \A j \in s + 1 .. f - 1 : lines[j] \in Body
    BY <1>2, ClosedIs
  <2>2. \A i \in 1 .. Len(lines) : lines[i] = Requires(l) => s <= i
    BY <1>1, <2>1, StartIs
  <2> HIDE DEF s, f
  <2>3. \A i \in 1 .. s - 1 : lines[i] # Requires(l)
    BY <1>1, <2>1, <2>2
  <2>4. \A j \in s + 1 .. f - 1 : ~IsMarker(lines[j])
    BY <2>1, LineKinds
  <2>5. Placed(lines, l, s, f)
    BY <2>1, <2>3, <2>4 DEF Placed
  <2>. QED
    BY <2>5 DEF s, f
<1>3. ASSUME NEW s, NEW f, Placed(lines, l, s, f)
      PROVE  Closed(lines, l) /\ Start(lines, l) = s /\ Finish(lines, l) = f
  <2>1. /\ s \in 1 .. Len(lines) /\ f \in s + 1 .. Len(lines) /\ lines[s] = Requires(l) /\ lines[f] = End
        /\ \A i \in 1 .. s - 1 : lines[i] # Requires(l)
        /\ \A j \in s + 1 .. f - 1 : ~IsMarker(lines[j])
    BY <1>3 DEF Placed
  <2>2. Start(lines, l) = s
    BY <1>1, <2>1, StartIf
  <2>3. s \in Nat /\ s # 0 /\ f # 0 /\ IsMarker(lines[f])
    BY <1>1, <2>1, Markers
  <2>4. NextMarker(lines, s) = f
    BY <1>1, <2>1, <2>3, NextIf
  <2>5. Closed(lines, l)
    BY <2>1, <2>2, <2>3, <2>4, ClosedIs
  <2>. QED
    BY <2>2, <2>4, <2>5, ClosedIs
<1>. QED
  BY <1>2, <1>3

\* A group all of whose lines moved as one ...
MovedBy(lines, new, l, s, f, d) ==
  /\ lines \in Seq(Line) /\ new \in Seq(Line) /\ d \in Int
  /\ Placed(lines, l, s, f)
  /\ \A j \in s .. f : j + d \in 1 .. Len(new) /\ new[j + d] = lines[j]
  /\ \A i \in 1 .. s + d - 1 : new[i] # Requires(l)

\* ... is a group there.
LEMMA PlacedMoves ==
  ASSUME NEW lines, NEW new, NEW l, NEW s, NEW f, NEW d, MovedBy(lines, new, l, s, f, d)
  PROVE  Placed(new, l, s + d, f + d)
<1>0. /\ lines \in Seq(Line) /\ new \in Seq(Line) /\ d \in Int /\ Placed(lines, l, s, f)
      /\ \A j \in s .. f : j + d \in 1 .. Len(new) /\ new[j + d] = lines[j]
      /\ \A i \in 1 .. s + d - 1 : new[i] # Requires(l)
  BY DEF MovedBy
<1>1. /\ s \in 1 .. Len(lines) /\ f \in s + 1 .. Len(lines) /\ lines[s] = Requires(l) /\ lines[f] = End
      /\ \A j \in s + 1 .. f - 1 : ~IsMarker(lines[j])
  BY <1>0 DEF Placed
<1>2. Len(lines) \in Nat /\ Len(new) \in Nat /\ s \in Int /\ f \in Int /\ s + 1 <= f /\ s \in s .. f /\ f \in s .. f
  BY <1>0, <1>1
<1>3. new[s + d] = Requires(l) /\ new[f + d] = End /\ s + d \in 1 .. Len(new) /\ f + d \in 1 .. Len(new)
  BY <1>0, <1>1, <1>2
<1>4. f + d \in s + d + 1 .. Len(new)
  BY <1>0, <1>2, <1>3
<1>5. ASSUME NEW j \in s + d + 1 .. f + d - 1 PROVE ~IsMarker(new[j])
  <2> DEFINE i == j - d
  <2>1. i \in s + 1 .. f - 1 /\ i \in s .. f /\ i + d = j
    BY <1>0, <1>2
  <2> HIDE DEF i
  <2>2. new[j] = lines[i]
    BY <1>0, <2>1
  <2>. QED
    BY <1>1, <2>1, <2>2
<1>. QED
  BY <1>0, <1>3, <1>4, <1>5 DEF Placed

\* Two groups have no line in common.
LEMMA PlacedApart ==
  ASSUME NEW lines \in Seq(Line), NEW k, NEW l, k # l, NEW p, NEW e, Placed(lines, k, p, e), NEW s, NEW f, Placed(lines, l, s, f)
  PROVE  e < s \/ f < p
<1>1. /\ s \in 1 .. Len(lines) /\ f \in s + 1 .. Len(lines) /\ lines[s] = Requires(l) /\ lines[f] = End
      /\ p \in 1 .. Len(lines) /\ e \in p + 1 .. Len(lines) /\ lines[p] = Requires(k) /\ lines[e] = End
      /\ Len(lines) \in Nat
  BY DEF Placed
<1>2. (\A j \in s + 1 .. f - 1 : ~IsMarker(lines[j])) /\ (\A j \in p + 1 .. e - 1 : ~IsMarker(lines[j]))
  BY DEF Placed
<1>3. Requires(k) # Requires(l) /\ Requires(k) # End /\ Requires(l) # End /\ IsMarker(Requires(k)) /\ IsMarker(Requires(l))
  BY Markers
<1>4. p # s /\ p # f /\ e # s
  BY <1>1, <1>3
<1>5. p \notin s + 1 .. f - 1 /\ s \notin p + 1 .. e - 1
  BY <1>1, <1>2, <1>3
<1>. QED
  BY <1>1, <1>4, <1>5

\* One group with other lines inside, its end and all below it d lines further.
Opened(lines, new, l, s, f, d, mid) ==
  /\ d \in Int /\ f + d = s + Len(mid) + 1 /\ new \in Seq(Line) /\ Len(new) = Len(lines) + d
  /\ \A i \in 1 .. s : new[i] = lines[i]
  /\ \A j \in 1 .. Len(mid) : new[s + j] = mid[j]
  /\ \A i \in f .. Len(lines) : new[i + d] = lines[i]
  /\ Placed(lines, l, s, f) /\ Placed(new, l, s, f + d)
  /\ \A k \in Labels : \A p, e : k # l /\ Placed(lines, k, p, e) =>
       \/ e < s /\ Placed(new, k, p, e)
       \/ f < p /\ Placed(new, k, p + d, e + d)
  /\ \A k \in Labels : k # l /\ Closed(new, k) => Closed(lines, k)

\* Replacing what is in one group moves the others as a whole.
LEMMA ReplaceMoves ==
  ASSUME NEW lines \in Seq(Line), NEW l \in Labels, Closed(lines, l), NEW mid \in Seq(Body)
  PROVE  LET s == Start(lines, l) f == Finish(lines, l) IN
         Opened(lines, Replace(lines, l, mid), l, s, f, s + Len(mid) + 1 - f, mid)
<1> DEFINE n == Len(lines)
           m == Len(mid)
           s == Start(lines, l)
           f == Finish(lines, l)
           d == s + m + 1 - f
           new == Replace(lines, l, mid)
<1>1. Placed(lines, l, s, f)
  BY PlacedIs
<1>2. /\ n \in Nat /\ s \in 1 .. n /\ f \in s + 1 .. n /\ lines[s] = Requires(l) /\ lines[f] = End
      /\ (\A i \in 1 .. s - 1 : lines[i] # Requires(l)) /\ (\A j \in s + 1 .. f - 1 : ~IsMarker(lines[j]))
  BY <1>1 DEF Placed
<1>3. mid \in Seq(Line) /\ m \in Nat /\ \A j \in 1 .. m : mid[j] \in Body
  <2>1. Body \subseteq Line
    BY LineKinds
  <2>. QED
    BY <2>1
<1>4. new = SubSeq(lines, 1, s) \o mid \o SubSeq(lines, f, Len(lines))
  BY DEF Replace
<1>6. SameElsewhere(lines, new, l)
  BY ReplaceIs
<1> HIDE DEF s, f, n, new
<1>5. /\ new \in Seq(Line) /\ Len(new) = n + d
      /\ (\A i \in 1 .. s : new[i] = lines[i])
      /\ (\A j \in 1 .. m : new[s + j] = mid[j])
      /\ \A i \in f .. n : new[i + d] = lines[i]
  BY <1>2, <1>3, <1>4, SplicedIs DEF n
<1> HIDE DEF m
<1>7. d \in Int /\ f + d = s + m + 1 /\ d = s + m + 1 - f
  BY <1>2, <1>3
<1> HIDE DEF d
<1>8. ASSUME NEW q \in 1 .. n + d
      PROVE  \/ q \in 1 .. s /\ new[q] = lines[q]
             \/ q \in s + 1 .. f + d - 1 /\ new[q] \in Body
             \/ q - d \in f .. n /\ new[q] = lines[q - d]
  <2>1. CASE q \in 1 .. s
    BY <1>5, <2>1
  <2>2. CASE q \in s + 1 .. f + d - 1
    <3>1. q - s \in 1 .. m /\ s + (q - s) = q
      BY <1>2, <1>3, <1>7, <2>2
    <3>. QED
      BY <1>3, <1>5, <2>2, <3>1
  <2>3. CASE q \in f + d .. n + d
    <3>1. q - d \in f .. n /\ (q - d) + d = q
      BY <1>2, <1>7, <2>3
    <3>. QED
      BY <1>5, <3>1
  <2>. QED
    BY <1>2, <1>7, <2>1, <2>2, <2>3
<1>9. \A x \in Body : ~IsMarker(x) /\ \A k : x # Requires(k)
  BY LineKinds, Markers
<1>10. Placed(new, l, s, f + d)
  <2> DEFINE e == f + d
  <2>1. s \in 1 .. n + d /\ f + d \in s + 1 .. n + d /\ s \in 1 .. s /\ f \in f .. n
    BY <1>2, <1>3, <1>7
  <2>2. new[s] = Requires(l) /\ new[f + d] = End
    BY <1>2, <1>5, <2>1
  <2>3. ASSUME NEW i \in 1 .. s - 1 PROVE new[i] # Requires(l)
    <3>1. i \in 1 .. s
      BY <1>2
    <3>. QED
      BY <1>2, <1>5, <3>1
  <2>4. \A j \in s + 1 .. e - 1 : ~IsMarker(new[j])
    <3> TAKE j \in s + 1 .. e - 1
    <3>0. j \in Int /\ s + 1 <= j /\ j <= f + d - 1 /\ f + d <= n + d
      BY <1>2, <1>3, <1>7, <2>1
    <3>0a. /\ d \in Int /\ n \in Int /\ s \in Int /\ f \in Int /\ 1 <= s
      BY <1>2, <1>7
    <3> HIDE DEF e
    <3>0b. j \in 1 .. n + d
      BY <3>0, <3>0a
    <3>0c. j \notin 1 .. s
      BY <3>0, <3>0a
    <3>0d. j - d \notin f .. n
      BY <3>0, <3>0a
    <3>1. j \in 1 .. n + d /\ j \notin 1 .. s /\ j - d \notin f .. n
      BY <3>0b, <3>0c, <3>0d
    <3>. QED
      BY <1>8, <1>9, <3>1
  <2>5. Len(new) = n + d
    BY <1>5
  <2>5a. s \in 1 .. Len(new) /\ e \in s + 1 .. Len(new)
    <3> DEFINE z == n + d
    <3>1. s \in 1 .. z /\ e \in s + 1 .. z /\ Len(new) = z
      BY <2>1, <2>5
    <3> HIDE DEF e, z
    <3>. QED
      BY <3>1
  <2>5b. new[s] = Requires(l) /\ new[e] = End
    BY <2>2
  <2> HIDE DEF e
  <2>7. Placed(new, l, s, e)
    BY <2>3, <2>4, <2>5a, <2>5b DEF Placed
  <2>. QED
    BY <2>7 DEF e
<1>11. ASSUME NEW k \in Labels, NEW p, NEW e, k # l, Placed(lines, k, p, e)
       PROVE  \/ e < s /\ Placed(new, k, p, e)
              \/ f < p /\ Placed(new, k, p + d, e + d)
  <2>1. p \in 1 .. n /\ e \in p + 1 .. n /\ lines[p] = Requires(k) /\ \A i \in 1 .. p - 1 : lines[i] # Requires(k)
    BY <1>11 DEF Placed, n
  <2>2. e < s \/ f < p
    BY <1>1, <1>11, PlacedApart
  <2>3. CASE e < s
    <3>1. ASSUME NEW j \in p .. e PROVE j + 0 \in 1 .. Len(new) /\ new[j + 0] = lines[j]
      <4>1. j + 0 = j /\ j \in 1 .. s /\ j \in 1 .. n + d
        BY <1>2, <1>3, <1>7, <2>1, <2>3
      <4>. QED
        BY <1>5, <4>1
    <3>2. ASSUME NEW i \in 1 .. p + 0 - 1 PROVE new[i] # Requires(k)
      <4>1. i \in 1 .. p - 1 /\ i \in 1 .. s
        BY <1>2, <2>1, <2>3
      <4>. QED
        BY <1>5, <2>1, <4>1
    <3>3. Placed(new, k, p + 0, e + 0)
      <4>1. MovedBy(lines, new, k, p, e, 0)
        BY <1>5, <1>11, <3>1, <3>2 DEF MovedBy
      <4>. QED
        BY <4>1, PlacedMoves
    <3>4. p + 0 = p /\ e + 0 = e
      BY <2>1
    <3>. QED
      BY <2>3, <3>3, <3>4
  <2>4. CASE f < p
    <3>1. ASSUME NEW j \in p .. e PROVE j + d \in 1 .. Len(new) /\ new[j + d] = lines[j]
      <4>1. j \in f .. n /\ j + d \in 1 .. n + d
        BY <1>2, <1>3, <1>7, <2>1, <2>4
      <4>. QED
        BY <1>5, <4>1
    <3>2. ASSUME NEW i \in 1 .. p + d - 1 PROVE new[i] # Requires(k)
      <4>1. i \in 1 .. n + d /\ (i \in 1 .. s => i \in 1 .. p - 1) /\ (i - d \in f .. n => i - d \in 1 .. p - 1)
        BY <1>2, <1>3, <1>7, <2>1, <2>4
      <4>. QED
        BY <1>8, <1>9, <2>1, <4>1
    <3>3. Placed(new, k, p + d, e + d)
      <4>1. MovedBy(lines, new, k, p, e, d)
        BY <1>5, <1>7, <1>11, <3>1, <3>2 DEF MovedBy
      <4>. QED
        BY <4>1, PlacedMoves
    <3>. QED
      BY <2>4, <3>3
  <2>. QED
    BY <2>2, <2>3, <2>4
<1>12. \A k \in Labels : k # l /\ Closed(new, k) => Closed(lines, k)
  BY <1>6 DEF SameElsewhere, SameInside
<1>13. Opened(lines, new, l, s, f, d, mid)
  BY <1>1, <1>5, <1>7, <1>10, <1>11, <1>12 DEF n, m, Opened
<1>. QED
  BY <1>13 DEF s, f, d, m, new

\* A file with one group more, after all its lines: n of its own, and m inside.
Lengthened(lines, new, l, n, m, mid) ==
  /\ n = Len(lines) /\ n \in Nat /\ m = Len(mid) /\ m \in Nat
  /\ new \in Seq(Line) /\ Len(new) = n + m + 4
  /\ \A i \in 1 .. n : new[i] = lines[i]
  /\ new[n + 1] = Text /\ new[n + 2] = Requires(l) /\ new[n + 3] = Note(l)
  /\ \A j \in 1 .. m : new[n + 3 + j] = mid[j]
  /\ Placed(new, l, n + 2, n + m + 4)
  /\ \A k \in Labels : \A p, e : Placed(lines, k, p, e) => Placed(new, k, p, e)
  /\ \A k \in Labels : k # l /\ Closed(new, k) => Closed(lines, k)

\* A group put at the end leaves the others where they are.
LEMMA AppendMoves ==
  ASSUME NEW lines \in Seq(Line), NEW l \in Labels, ~HasGroup(lines, l), NEW mid \in Seq(Body)
  PROVE  Lengthened(lines, WithGroup(lines, l, mid), l, Len(lines), Len(mid), mid)
<1> DEFINE n == Len(lines)
           m == Len(mid)
           head == <<Text, Requires(l), Note(l)>>
           tail == <<End>>
           a == lines \o head
           b == a \o mid
           new == WithGroup(lines, l, mid)
<1>1. n \in Nat /\ m \in Nat
  OBVIOUS
<1>2. mid \in Seq(Line) /\ \A j \in 1 .. m : mid[j] \in Body
  BY LineKinds
<1>3. /\ head \in Seq(Line) /\ Len(head) = 3 /\ head[1] = Text /\ head[2] = Requires(l) /\ head[3] = Note(l)
      /\ tail \in Seq(Line) /\ Len(tail) = 1 /\ tail[1] = End
  BY LineKinds
<1>4. new = b \o tail
  BY DEF WithGroup
<1>5. SameElsewhere(lines, new, l)
  BY AppendIs
<1>5a. \A i \in 1 .. n : lines[i] # Requires(l)
  BY <1>1, StartIs DEF HasGroup
<1> HIDE DEF n, m, head, tail, new
<1>6. a \in Seq(Line) /\ Len(a) = n + 3 /\ (\A i \in 1 .. n : a[i] = lines[i]) /\ \A i \in 1 .. 3 : a[n + i] = head[i]
  <2>1. IsJoin(Line, a, lines, head)
    BY <1>3, JoinIs
  <2> HIDE DEF a
  <2>. QED
    BY <1>3, <2>1 DEF IsJoin, n
<1> HIDE DEF a
<1>7. b \in Seq(Line) /\ Len(b) = n + 3 + m /\ (\A i \in 1 .. n + 3 : b[i] = a[i]) /\ \A i \in 1 .. m : b[n + 3 + i] = mid[i]
  <2>1. IsJoin(Line, b, a, mid)
    BY <1>2, <1>6, JoinIs
  <2> HIDE DEF b
  <2>. QED
    BY <1>6, <2>1 DEF IsJoin, m
<1> HIDE DEF b
<1>8. new \in Seq(Line) /\ Len(new) = n + 3 + m + 1 /\ (\A i \in 1 .. n + 3 + m : new[i] = b[i]) /\ new[n + 3 + m + 1] = End
  <2>1. IsJoin(Line, new, b, tail)
    BY <1>3, <1>4, <1>7, JoinIs
  <2>2. new \in Seq(Line) /\ Len(new) = n + 3 + m + 1 /\ \A i \in 1 .. n + 3 + m : new[i] = b[i]
    BY <1>3, <1>7, <2>1 DEF IsJoin
  <2>3. \A i \in 1 .. 1 : new[n + 3 + m + i] = tail[i]
    BY <1>3, <1>7, <2>1 DEF IsJoin
  <2>. QED
    BY <1>3, <2>2, <2>3
<1> DEFINE e == n + m + 4
<1>9. e = n + 3 + m + 1 /\ e \in Nat /\ e = n + m + 4
  BY <1>1
<1> HIDE DEF e
<1>10. Len(new) = e /\ new[e] = End
  BY <1>8, <1>9
<1>11. ASSUME NEW i \in 1 .. n PROVE new[i] = lines[i]
  <2>1. i \in 1 .. n + 3 /\ i \in 1 .. n + 3 + m
    BY <1>1
  <2>. QED
    BY <1>6, <1>7, <1>8, <2>1
<1>12. ASSUME NEW i \in 1 .. 3 PROVE new[n + i] = head[i]
  <2>1. n + i \in 1 .. n + 3 /\ n + i \in 1 .. n + 3 + m
    BY <1>1
  <2>. QED
    BY <1>6, <1>7, <1>8, <2>1
<1>13. new[n + 1] = Text /\ new[n + 2] = Requires(l) /\ new[n + 3] = Note(l)
  <2>1. 1 \in 1 .. 3 /\ 2 \in 1 .. 3 /\ 3 \in 1 .. 3
    OBVIOUS
  <2>. QED
    BY <1>3, <1>12, <2>1
<1>14. ASSUME NEW j \in 1 .. m PROVE new[n + 3 + j] = mid[j]
  <2>1. n + 3 + j \in 1 .. n + 3 + m
    BY <1>1
  <2>. QED
    BY <1>7, <1>8, <2>1
<1>15. Placed(new, l, n + 2, e)
  <2> DEFINE s == n + 2
  <2>1. s \in 1 .. e /\ e \in s + 1 .. e /\ s = n + 2
    BY <1>1, <1>9
  <2>2. new[s] = Requires(l)
    BY <1>13
  <2>3. ASSUME NEW i \in 1 .. s - 1 PROVE new[i] # Requires(l)
    <3>1. CASE i \in 1 .. n
      BY <1>5a, <1>11, <3>1
    <3>2. CASE i = n + 1
      BY <1>13, <3>2, LineKinds, Markers
    <3>. QED
      BY <1>1, <3>1, <3>2
  <2>4. ASSUME NEW j \in s + 1 .. e - 1 PROVE ~IsMarker(new[j])
    <3>1. CASE j = n + 3
      BY <1>13, <3>1, LineKinds
    <3>2. CASE j # n + 3
      <4>1. j - (n + 3) \in 1 .. m /\ n + 3 + (j - (n + 3)) = j
        BY <1>1, <1>9, <3>2
      <4>2. new[j] = mid[j - (n + 3)]
        BY <1>14, <4>1
      <4>. QED
        BY <1>2, <4>1, <4>2, LineKinds
    <3>. QED
      BY <3>1, <3>2
  <2> HIDE DEF s
  <2>5. Placed(new, l, s, e)
    BY <1>10, <2>1, <2>2, <2>3, <2>4 DEF Placed
  <2>. QED
    BY <2>5 DEF s
<1>16. ASSUME NEW k \in Labels, NEW p, NEW q, Placed(lines, k, p, q) PROVE Placed(new, k, p, q)
  <2>1. p \in 1 .. n /\ q \in p + 1 .. n /\ \A i \in 1 .. p - 1 : lines[i] # Requires(k)
    BY <1>16 DEF Placed, n
  <2>2. ASSUME NEW j \in p .. q PROVE j + 0 \in 1 .. Len(new) /\ new[j + 0] = lines[j]
    <3>1. j + 0 = j /\ j \in 1 .. n /\ j \in 1 .. e
      BY <1>1, <1>9, <2>1
    <3>. QED
      BY <1>10, <1>11, <3>1
  <2>3. ASSUME NEW i \in 1 .. p + 0 - 1 PROVE new[i] # Requires(k)
    <3>1. i \in 1 .. p - 1 /\ i \in 1 .. n
      BY <1>1, <2>1
    <3>. QED
      BY <1>11, <2>1, <3>1
  <2>4. MovedBy(lines, new, k, p, q, 0)
    BY <1>8, <1>16, <2>2, <2>3 DEF MovedBy
  <2>5. Placed(new, k, p + 0, q + 0)
    BY <2>4, PlacedMoves
  <2>6. p + 0 = p /\ q + 0 = q
    BY <2>1
  <2>. QED
    BY <2>5, <2>6
<1>17. \A k \in Labels : k # l /\ Closed(new, k) => Closed(lines, k)
  BY <1>5 DEF SameElsewhere, SameInside
<1>18. Lengthened(lines, new, l, n, m, mid)
  <2>1. n = Len(lines) /\ m = Len(mid)
    BY DEF n, m
  <2>2. Len(new) = n + m + 4 /\ Placed(new, l, n + 2, n + m + 4)
    BY <1>9, <1>10, <1>15
  <2>. QED
    BY <1>1, <1>8, <1>11, <1>13, <1>14, <1>16, <1>17, <2>1, <2>2 DEF Lengthened
<1>. QED
  BY <1>18 DEF n, m, new

\* The template's entries under a label, and the lines that are no person's
\* under it.
Owned(t, l) == UNION {EntriesOf(g.lines) : g \in {h \in Groups(t) : h.label = l}}
Ours(t, l) == {x \in Line : Is(x, "entry") => x.arg \in Owned(t, l)}

\* A line of a group.
InGroup(lines, k, i) == \E p, e : Placed(lines, k, p, e) /\ i \in p .. e

\* A closed group has the lines from its marker to its end, one not closed has
\* none.
LEMMA InGroupIs ==
  ASSUME NEW lines \in Seq(Line), NEW k
  PROVE  /\ \A p, e, i : Placed(lines, k, p, e) => (InGroup(lines, k, i) <=> i \in p .. e)
         /\ \A i : InGroup(lines, k, i) <=> Closed(lines, k) /\ i \in Start(lines, k) .. Finish(lines, k)
<1>1. Closed(lines, k) => Placed(lines, k, Start(lines, k), Finish(lines, k))
  BY PlacedIs
<1>2. \A p, e : Placed(lines, k, p, e) => Closed(lines, k) /\ Start(lines, k) = p /\ Finish(lines, k) = e
  BY PlacedIs
<1>. QED
  BY <1>1, <1>2 DEF InGroup

\* Which lines are a person's.
LEMMA PersonIs ==
  ASSUME NEW lines \in Seq(Line), NEW t \in Seq(Line), Valid(t), NEW i
  PROVE  i \in PersonsAt(lines, t) <=>
           /\ i \in DOMAIN lines /\ Is(lines[i], "entry")
           /\ \A k \in Labels : InGroup(lines, k, i) => lines[i].arg \notin Owned(t, k)
<1>1. ASSUME NEW g \in Groups(t) PROVE g.label \in Labels
  <2>1. PICK j \in Heads(t) : g = GroupAt(t, j)
    BY DEF Groups
  <2>. QED
    BY <2>1, GroupIs DEF Proper
<1>2. ASSUME i \in PersonsAt(lines, t), NEW k \in Labels, InGroup(lines, k, i) PROVE lines[i].arg \notin Owned(t, k)
  <2>1. ASSUME NEW g \in Groups(t), g.label = k PROVE lines[i].arg \notin EntriesOf(g.lines)
    <3>1. Closed(lines, g.label) /\ i \in Start(lines, g.label) .. Finish(lines, g.label)
      BY <1>2, <2>1, InGroupIs
    <3>. QED
      BY <1>2, <3>1 DEF PersonsAt
  <2>. QED
    BY <2>1 DEF Owned
<1>3. i \in PersonsAt(lines, t) => i \in DOMAIN lines /\ Is(lines[i], "entry")
  BY DEF PersonsAt
<1>4. ASSUME i \in DOMAIN lines, Is(lines[i], "entry"),
             \A k \in Labels : InGroup(lines, k, i) => lines[i].arg \notin Owned(t, k)
      PROVE  i \in PersonsAt(lines, t)
  <2>1. ASSUME NEW g \in Groups(t), Closed(lines, g.label), i \in Start(lines, g.label) .. Finish(lines, g.label)
        PROVE  lines[i].arg \notin EntriesOf(g.lines)
    <3>1. g.label \in Labels /\ InGroup(lines, g.label, i)
      BY <1>1, <2>1, InGroupIs
    <3>2. lines[i].arg \notin Owned(t, g.label)
      BY <1>4, <3>1
    <3>. QED
      BY <3>2 DEF Owned
  <2>. QED
    BY <1>4, <2>1 DEF PersonsAt
<1>. QED
  BY <1>2, <1>3, <1>4

\* Lines that are not entries, or hold the template's, are no person's.
LEMMA OursGo ==
  ASSUME NEW t, NEW l, NEW lines \in Seq(Line), EntriesOf(lines) \subseteq Owned(t, l)
  PROVE  Without(lines, Ours(t, l)) = <<>>
<1> DEFINE w == Without(lines, Ours(t, l))
<1>1. /\ w \in Seq(Line) /\ \A j \in DOMAIN w : w[j] \notin Ours(t, l)
      /\ \A j \in DOMAIN w : \E i \in DOMAIN lines : lines[i] = w[j]
  BY WithoutIs
<1> HIDE DEF w
<1>2. \A i \in DOMAIN lines : lines[i] \in Ours(t, l)
  <2> TAKE i \in DOMAIN lines
  <2>1. lines[i] \in Line
    OBVIOUS
  <2>2. Is(lines[i], "entry") => lines[i].arg \in EntriesOf(lines)
    BY DEF EntriesOf
  <2>. QED
    BY <2>1, <2>2 DEF Ours
<1>3. \A j \in DOMAIN w : FALSE
  BY <1>1, <1>2
<1>4. Len(w) = 0
  BY <1>1, <1>3
<1>5. w = <<>>
  BY <1>1, <1>4
<1>. QED
  BY <1>5 DEF w

\* The lines above and below an opened group are in the groups they were in;
\* those inside are in that group and no other.
SameGroups(lines, new, l, s, f, d, k) ==
  /\ \A i \in 1 .. s : InGroup(lines, k, i) <=> InGroup(new, k, i)
  /\ \A i \in f .. Len(lines) : InGroup(lines, k, i) <=> InGroup(new, k, i + d)
  /\ \A i \in s + 1 .. f - 1 : InGroup(lines, k, i) <=> k = l
  /\ \A i \in s + 1 .. (f + d) - 1 : InGroup(new, k, i) <=> k = l

\* One case for the group itself, one for a group that is not closed, one for
\* each side.
LEMMA OpenedGroups ==
  ASSUME NEW lines \in Seq(Line), NEW new, NEW l \in Labels, NEW s, NEW f, NEW d, NEW mid,
         Opened(lines, new, l, s, f, d, mid), NEW k \in Labels
  PROVE  SameGroups(lines, new, l, s, f, d, k)
<1> USE DEF SameGroups
<1> DEFINE n == Len(lines)
           z == f + d
<1>1. new \in Seq(Line) /\ d \in Int /\ Placed(lines, l, s, f) /\ Placed(new, l, s, z)
  BY DEF Opened
<1>2. n \in Nat /\ s \in 1 .. n /\ f \in s + 1 .. n /\ z \in s + 1 .. Len(new) /\ z = f + d
  BY <1>1 DEF Placed
<1> HIDE DEF n, z
<1>0. /\ \A i \in 1 .. s : i \in Int
      /\ \A i \in f .. n : i \in Int /\ i + d \in Int
      /\ \A i \in s + 1 .. f - 1 : i \in Int
      /\ \A i \in s + 1 .. z - 1 : i \in Int
  BY <1>1, <1>2
<1>3. CASE k = l
  <2>1. \A i \in Int : InGroup(lines, k, i) <=> i \in s .. f
    BY <1>1, <1>3, InGroupIs
  <2>2. \A i \in Int : InGroup(new, k, i) <=> i \in s .. z
    BY <1>1, <1>3, InGroupIs
  <2>3. \A i \in 1 .. s : i \in s .. f <=> i \in s .. z
    BY <1>2
  <2>4. \A i \in f .. n : i \in s .. f <=> i + d \in s .. z
    BY <1>1, <1>2
  <2>5. (\A i \in s + 1 .. f - 1 : i \in s .. f) /\ \A i \in s + 1 .. z - 1 : i \in s .. z
    BY <1>2
  <2>7. \A i \in 1 .. s : InGroup(lines, k, i) <=> InGroup(new, k, i)
    BY <1>0, <1>3, <2>1, <2>2, <2>3, <2>4, <2>5
  <2>8. \A i \in f .. n : InGroup(lines, k, i) <=> InGroup(new, k, i + d)
    BY <1>0, <1>3, <2>1, <2>2, <2>3, <2>4, <2>5
  <2>9. (\A i \in s + 1 .. f - 1 : InGroup(lines, k, i) <=> k = l) /\ \A i \in s + 1 .. z - 1 : InGroup(new, k, i) <=> k = l
    BY <1>0, <1>3, <2>1, <2>2, <2>3, <2>4, <2>5
  <2>. QED
    BY <2>7, <2>8, <2>9 DEF n, z
<1>4. CASE k # l /\ ~Closed(lines, k)
  <2>1. ~Closed(new, k)
    BY <1>4 DEF Opened
  <2>2. \A i \in Int : ~InGroup(lines, k, i) /\ ~InGroup(new, k, i)
    BY <1>1, <1>4, <2>1, InGroupIs
  <2>7. \A i \in 1 .. s : InGroup(lines, k, i) <=> InGroup(new, k, i)
    BY <1>0, <2>2
  <2>8. \A i \in f .. n : InGroup(lines, k, i) <=> InGroup(new, k, i + d)
    BY <1>0, <2>2
  <2>9. (\A i \in s + 1 .. f - 1 : InGroup(lines, k, i) <=> k = l) /\ \A i \in s + 1 .. z - 1 : InGroup(new, k, i) <=> k = l
    BY <1>0, <1>4, <2>2
  <2>. QED
    BY <2>7, <2>8, <2>9 DEF n, z
<1>5. CASE k # l /\ Closed(lines, k)
  <2>1. PICK p, e : Placed(lines, k, p, e)
    BY <1>5, PlacedIs
  <2>2. p \in 1 .. n /\ e \in p + 1 .. n
    BY <2>1 DEF Placed, n
  <2>3. \/ e < s /\ Placed(new, k, p, e)
        \/ f < p /\ Placed(new, k, p + d, e + d)
    BY <1>5, <2>1 DEF Opened
  <2>4. \A i \in Int : InGroup(lines, k, i) <=> i \in p .. e
    BY <2>1, InGroupIs
  <2>5. CASE e < s /\ Placed(new, k, p, e)
    <3>1. \A i \in Int : InGroup(new, k, i) <=> i \in p .. e
      BY <1>1, <2>5, InGroupIs
    <3>2. \A i \in f .. n : i \notin p .. e /\ i + d \notin p .. e
      BY <1>1, <1>2, <2>2, <2>5
    <3>3. (\A i \in s + 1 .. f - 1 : i \notin p .. e) /\ \A i \in s + 1 .. z - 1 : i \notin p .. e
      BY <1>2, <2>2, <2>5
    <3>7. \A i \in 1 .. s : InGroup(lines, k, i) <=> InGroup(new, k, i)
      BY <1>0, <1>5, <2>4, <3>1, <3>2, <3>3
    <3>8. \A i \in f .. n : InGroup(lines, k, i) <=> InGroup(new, k, i + d)
      BY <1>0, <1>5, <2>4, <3>1, <3>2, <3>3
    <3>9. (\A i \in s + 1 .. f - 1 : InGroup(lines, k, i) <=> k = l) /\ \A i \in s + 1 .. z - 1 : InGroup(new, k, i) <=> k = l
      BY <1>0, <1>5, <2>4, <3>1, <3>2, <3>3
    <3>. QED
      BY <3>7, <3>8, <3>9 DEF n, z
  <2>6. CASE f < p /\ Placed(new, k, p + d, e + d)
    <3>1. \A i \in Int : InGroup(new, k, i) <=> i \in p + d .. e + d
      <4> DEFINE a == p + d
                 b == e + d
      <4>1. Placed(new, k, a, b)
        BY <2>6
      <4> HIDE DEF a, b
      <4>2. \A i \in Int : InGroup(new, k, i) <=> i \in a .. b
        BY <1>1, <4>1, InGroupIs
      <4>. QED
        BY <4>2 DEF a, b
    <3>2. \A i \in 1 .. s : i \notin p .. e /\ i \notin p + d .. e + d
      BY <1>1, <1>2, <2>2, <2>6
    <3>3. \A i \in f .. n : i \in p .. e <=> i + d \in p + d .. e + d
      BY <1>1, <1>2, <2>2, <2>6
    <3>4. (\A i \in s + 1 .. f - 1 : i \notin p .. e) /\ \A i \in s + 1 .. z - 1 : i \notin p + d .. e + d
      BY <1>1, <1>2, <2>2, <2>6
    <3>7. \A i \in 1 .. s : InGroup(lines, k, i) <=> InGroup(new, k, i)
      BY <1>0, <1>5, <2>4, <3>1, <3>2, <3>3, <3>4
    <3>8. \A i \in f .. n : InGroup(lines, k, i) <=> InGroup(new, k, i + d)
      BY <1>0, <1>5, <2>4, <3>1, <3>2, <3>3, <3>4
    <3>9. (\A i \in s + 1 .. f - 1 : InGroup(lines, k, i) <=> k = l) /\ \A i \in s + 1 .. z - 1 : InGroup(new, k, i) <=> k = l
      BY <1>0, <1>5, <2>4, <3>1, <3>2, <3>3, <3>4
    <3>. QED
      BY <3>7, <3>8, <3>9 DEF n, z
  <2>. QED
    BY <2>3, <2>5, <2>6
<1>. QED
  BY <1>3, <1>4, <1>5

\* What is a person's above and below an opened group is so after, and inside
\* it what is not the template's there.
SamePersons(lines, new, l, s, f, d, mid, K, L, gone) ==
  /\ \A i \in 1 .. s : i \in K <=> i \in L
  /\ \A i \in f .. Len(lines) : i \in K <=> i + d \in L
  /\ \A i \in s + 1 .. f - 1 : i \in K <=> lines[i] \notin gone
  /\ \A j \in 1 .. Len(mid) : s + j \in L <=> mid[j] \notin gone

\* What is a person's there depends on the line and on the groups it is in.
LEMMA OpenedPersons ==
  ASSUME NEW lines \in Seq(Line), NEW new, NEW l \in Labels, NEW s, NEW f, NEW d, NEW mid \in Seq(Line),
         Opened(lines, new, l, s, f, d, mid), NEW t \in Seq(Line), Valid(t)
  PROVE  SamePersons(lines, new, l, s, f, d, mid, PersonsAt(lines, t), PersonsAt(new, t), Ours(t, l))
<1> DEFINE n == Len(lines)
           m == Len(mid)
           K == PersonsAt(lines, t)
           L == PersonsAt(new, t)
           PK(i) == Is(lines[i], "entry") /\ \A k \in Labels : InGroup(lines, k, i) => lines[i].arg \notin Owned(t, k)
           PL(i) == Is(new[i], "entry") /\ \A k \in Labels : InGroup(new, k, i) => new[i].arg \notin Owned(t, k)
<1>1. /\ new \in Seq(Line) /\ Len(new) = n + d /\ d \in Int /\ f + d = s + m + 1
      /\ (\A i \in 1 .. s : new[i] = lines[i])
      /\ (\A j \in 1 .. m : new[s + j] = mid[j])
      /\ (\A i \in f .. n : new[i + d] = lines[i])
      /\ Placed(lines, l, s, f)
  BY DEF Opened
<1>2. n \in Nat /\ s \in 1 .. n /\ f \in s + 1 .. n
  BY <1>1 DEF Placed
<1>3. m \in Nat /\ \A j \in 1 .. m : mid[j] \in Line
  OBVIOUS
<1>4. \A i \in 1 .. n : i \in K <=> PK(i)
  BY PersonIs
<1>5. \A i \in 1 .. n + d : i \in L <=> PL(i)
  <2> DEFINE z == n + d
  <2>1. DOMAIN new = 1 .. z
    BY <1>1
  <2> HIDE DEF z
  <2>. QED
    BY <1>1, <2>1, PersonIs DEF z
<1>6. \A k \in Labels :
        /\ \A i \in 1 .. s : InGroup(lines, k, i) <=> InGroup(new, k, i)
        /\ \A i \in f .. n : InGroup(lines, k, i) <=> InGroup(new, k, i + d)
        /\ \A i \in s + 1 .. f - 1 : InGroup(lines, k, i) <=> k = l
        /\ \A i \in s + 1 .. (f + d) - 1 : InGroup(new, k, i) <=> k = l
  <2>1. \A k \in Labels : SameGroups(lines, new, l, s, f, d, k)
    BY OpenedGroups
  <2>. QED
    BY <2>1 DEF SameGroups
<1>7. \A x \in Line : x \notin Ours(t, l) <=> Is(x, "entry") /\ x.arg \notin Owned(t, l)
  BY DEF Ours
<1>8. \A i \in 1 .. n : lines[i] \in Line
  OBVIOUS
<1> HIDE DEF n, m, K, L
<1>9. ASSUME NEW i \in 1 .. s PROVE i \in K <=> i \in L
  <2>1. i \in 1 .. n /\ i \in 1 .. n + d
    BY <1>1, <1>2, <1>3
  <2>2. PK(i) <=> PL(i)
    BY <1>1, <1>6
  <2> HIDE DEF PK, PL
  <2>. QED
    BY <1>4, <1>5, <2>1, <2>2
<1>10. ASSUME NEW i \in f .. n PROVE i \in K <=> i + d \in L
  <2>1. i \in 1 .. n /\ i + d \in 1 .. n + d
    BY <1>1, <1>2, <1>3
  <2>2. new[i + d] = lines[i] /\ \A k \in Labels : InGroup(lines, k, i) <=> InGroup(new, k, i + d)
    BY <1>1, <1>6
  <2> DEFINE q == i + d
  <2>3. q \in 1 .. n + d /\ new[q] = lines[i] /\ \A k \in Labels : InGroup(lines, k, i) <=> InGroup(new, k, q)
    BY <2>1, <2>2
  <2> HIDE DEF q
  <2>4. PK(i) <=> PL(q)
    BY <2>3
  <2> HIDE DEF PK, PL
  <2>5. i \in K <=> q \in L
    BY <1>4, <1>5, <2>1, <2>3, <2>4
  <2>. QED
    BY <2>5 DEF q
<1>11. ASSUME NEW i \in s + 1 .. f - 1 PROVE i \in K <=> lines[i] \notin Ours(t, l)
  <2>1. i \in 1 .. n
    BY <1>2
  <2>2. PK(i) <=> Is(lines[i], "entry") /\ lines[i].arg \notin Owned(t, l)
    BY <1>6
  <2> HIDE DEF PK
  <2>. QED
    BY <1>4, <1>7, <1>8, <2>1, <2>2
<1>12. ASSUME NEW j \in 1 .. m PROVE s + j \in L <=> mid[j] \notin Ours(t, l)
  <2> DEFINE q == s + j
  <2>1. q \in 1 .. n + d /\ q \in s + 1 .. (f + d) - 1
    BY <1>1, <1>2, <1>3
  <2>2. new[q] = mid[j] /\ mid[j] \in Line
    BY <1>1, <1>3
  <2> HIDE DEF q
  <2>3. PL(q) <=> Is(mid[j], "entry") /\ mid[j].arg \notin Owned(t, l)
    BY <1>6, <2>1, <2>2
  <2> HIDE DEF PL
  <2>4. q \in L <=> mid[j] \notin Ours(t, l)
    BY <1>5, <1>7, <2>1, <2>2, <2>3
  <2>. QED
    BY <2>4 DEF q
<1>. QED
  BY <1>9, <1>10, <1>11, <1>12 DEF n, m, K, L, SamePersons

\* The lines between two of them are others but for some.
SameBetween(lines, s, f, mid, gone) ==
  LET u == SubSeq(lines, s + 1, f - 1) IN u \in Seq(Line) /\ Without(u, gone) = Without(mid, gone)

\* Putting other lines in a group keeps a person's lines when it keeps those
\* inside.
LEMMA OpenedKeeps ==
  ASSUME NEW lines \in Seq(Line), NEW new, NEW l \in Labels, NEW s, NEW f, NEW d, NEW mid \in Seq(Line),
         Opened(lines, new, l, s, f, d, mid), NEW t \in Seq(Line), Valid(t),
         SameBetween(lines, s, f, mid, Ours(t, l))
  PROVE  Persons(new, t) = Persons(lines, t)
<1> DEFINE n == Len(lines)
           m == Len(mid)
           u == SubSeq(lines, s + 1, f - 1)
           w == Len(u)
           K == PersonsAt(lines, t)
           L == PersonsAt(new, t)
           F == TakenUpTo(lines, K)
           H == TakenUpTo(new, L)
           gone == Ours(t, l)
           z == f - 1
           y == s + m
           r == n - z
<1>1. /\ new \in Seq(Line) /\ Len(new) = n + d /\ d \in Int /\ f + d = s + m + 1
      /\ (\A i \in 1 .. s : new[i] = lines[i])
      /\ (\A j \in 1 .. m : new[s + j] = mid[j])
      /\ (\A i \in f .. n : new[i + d] = lines[i])
      /\ Placed(lines, l, s, f)
  BY DEF Opened
<1>2. n \in Nat /\ s \in 1 .. n /\ f \in s + 1 .. n /\ m \in Nat
  <2>1. m \in Nat /\ n \in Nat
    OBVIOUS
  <2> HIDE DEF m
  <2>. QED
    BY <1>1, <2>1 DEF Placed
<1>3. /\ \A i \in 1 .. s : i \in K <=> i \in L
      /\ \A i \in f .. n : i \in K <=> i + d \in L
      /\ \A i \in s + 1 .. f - 1 : i \in K <=> lines[i] \notin gone
      /\ \A j \in 1 .. m : s + j \in L <=> mid[j] \notin gone
  <2>1. SamePersons(lines, new, l, s, f, d, mid, K, L, gone)
    BY OpenedPersons
  <2> HIDE DEF K, L, gone
  <2>. QED
    BY <2>1 DEF SamePersons
<1>4. Taking(F, lines, K) /\ (\A i \in 0 .. n : F[i] \in Seq(Line)) /\ Taking(H, new, L)
  BY <1>1, TakenIs
<1>5. Persons(lines, t) = F[n] /\ Persons(new, t) = H[Len(new)]
  BY DEF Persons
<1>5a. u \in Seq(Line) /\ Without(u, gone) = Without(mid, gone)
  BY DEF SameBetween
<1>6. w \in Nat /\ s + w = z /\ \A j \in 1 .. w : u[j] = lines[s + j]
  <2>1. s + 1 \in Nat \ {0} /\ z \in Nat /\ s + 1 <= z + 1 /\ z <= Len(lines)
    BY <1>2
  <2>2. IsCut(Line, SubSeq(lines, s + 1, z), lines, s + 1, z)
    <3> HIDE DEF z
    <3>. QED
      BY <2>1, CutIs
  <2>3. IsCut(Line, u, lines, s + 1, z)
    BY <2>2
  <2> HIDE DEF z, u
  <2>4. Len(u) = z + 1 - (s + 1)
    BY <2>3 DEF IsCut
  <2>5. \A j \in 1 .. z + 1 - (s + 1) : u[j] = lines[(s + 1) + j - 1]
    BY <2>3 DEF IsCut
  <2>6. w = z + 1 - (s + 1) /\ s + w = z /\ w \in Nat
    BY <1>2, <2>1, <2>4
  <2>7. \A j \in 1 .. w : u[j] = lines[s + j]
    <3> TAKE j \in 1 .. w
    <3>1. (s + 1) + j - 1 = s + j /\ j \in 1 .. z + 1 - (s + 1)
      BY <1>2, <2>6
    <3>. QED
      BY <2>5, <3>1
  <2>. QED
    BY <2>6, <2>7
<1> HIDE DEF n, m, w, u, K, L, F, H, gone
<1>7. F[0 + s] = H[0 + s]
  <2>1. \A j \in 1 .. s : (0 + j \in K <=> 0 + j \in L) /\ (0 + j \in K => lines[0 + j] = new[0 + j])
    <3> TAKE j \in 1 .. s
    <3>1. 0 + j = j
      BY <1>2
    <3>. QED
      BY <1>1, <1>3, <3>1
  <2>2. 0 + s <= Len(lines) /\ 0 + s <= Len(new) /\ Len(lines) \in Nat /\ Len(new) \in Nat /\ s \in Nat /\ 0 \in Nat
    BY <1>1, <1>2 DEF n
  <2>3. Matching(lines, new, K, L, 0, 0, s)
    BY <2>1, <2>2 DEF Matching
  <2>4. F[0] = H[0]
    BY <1>4 DEF Taking
  <2>. QED
    BY <1>4, <2>3, <2>4, TakenAlike
<1>8. F[s] = H[s] /\ F[s] \in Seq(Line)
  <2>1. 0 + s = s /\ s \in 0 .. n
    BY <1>2
  <2>. QED
    BY <1>4, <1>7, <2>1
<1>9. F[s + w] = F[s] \o Without(u, gone)
  <2>1. s \in Nat /\ s + Len(u) <= Len(lines) /\ Len(u) = w
    BY <1>2, <1>6 DEF n, w
  <2>2. \A j \in 1 .. Len(u) : lines[s + j] = u[j] /\ (s + j \in K <=> u[j] \notin gone)
    <3> TAKE j \in 1 .. Len(u)
    <3>1. j \in 1 .. w /\ s + j \in s + 1 .. f - 1
      BY <1>2, <1>6 DEF w
    <3>. QED
      BY <1>3, <1>6, <3>1
  <2>3. Stretch(lines, u, K, s, gone)
    BY <2>1, <2>2 DEF Stretch
  <2>. QED
    <3>1. TakenOf(F, u, s, gone)
      BY <1>4, <1>5a, <1>8, <2>3, TakenWithout
    <3>. QED
      BY <3>1 DEF TakenOf, w
<1>10. H[s + m] = H[s] \o Without(mid, gone)
  <2>1. s \in Nat /\ s + Len(mid) <= Len(new)
    BY <1>1, <1>2 DEF m
  <2>2. \A j \in 1 .. Len(mid) : new[s + j] = mid[j] /\ (s + j \in L <=> mid[j] \notin gone)
    BY <1>1, <1>3 DEF m
  <2>3. Stretch(new, mid, L, s, gone)
    BY <2>1, <2>2 DEF Stretch
  <2>4. H[s] \in Seq(Line)
    BY <1>8
  <2>. QED
    <3>1. TakenOf(H, mid, s, gone)
      BY <1>1, <1>4, <2>3, <2>4, TakenWithout
    <3>. QED
      BY <3>1 DEF TakenOf, m
<1>11. F[z] = H[y]
  BY <1>5a, <1>6, <1>8, <1>9, <1>10
<1>12. z \in Nat /\ y \in Nat /\ r \in Nat /\ z + r = n /\ y + r = Len(new) /\ z + 1 = f /\ y = z + d
  BY <1>1, <1>2
<1> HIDE DEF z, y, r
<1>13. F[z + r] = H[y + r]
  <2>1. \A j \in 1 .. r : (z + j \in K <=> y + j \in L) /\ (z + j \in K => lines[z + j] = new[y + j])
    <3> TAKE j \in 1 .. r
    <3> DEFINE i == z + j
    <3>1. i \in f .. n /\ i + d = y + j
      BY <1>1, <1>2, <1>12
    <3> HIDE DEF i
    <3>2. (i \in K <=> i + d \in L) /\ new[i + d] = lines[i]
      BY <1>1, <1>3, <3>1
    <3>. QED
      BY <3>1, <3>2 DEF i
  <2>2. z + r <= Len(lines) /\ y + r <= Len(new) /\ Len(lines) \in Nat /\ Len(new) \in Nat
    <3>1. Len(lines) = n
      BY DEF n
    <3>. QED
      BY <1>1, <1>2, <1>12, <3>1
  <2>3. Matching(lines, new, K, L, z, y, r)
    BY <1>12, <2>1, <2>2 DEF Matching
  <2>. QED
    BY <1>4, <1>11, <2>3, TakenAlike
<1>. QED
  BY <1>5, <1>12, <1>13

\* A group put at the end keeps a person's lines when all in it is the
\* template's.
LEMMA LengthenedKeeps ==
  ASSUME NEW lines \in Seq(Line), NEW new, NEW l \in Labels, NEW n, NEW m, NEW mid \in Seq(Line),
         Lengthened(lines, new, l, n, m, mid), ~HasGroup(lines, l), NEW t \in Seq(Line), Valid(t),
         EntriesOf(mid) \subseteq Owned(t, l)
  PROVE  Persons(new, t) = Persons(lines, t)
<1> DEFINE K == PersonsAt(lines, t)
           L == PersonsAt(new, t)
           F == TakenUpTo(lines, K)
           H == TakenUpTo(new, L)
           r == m + 4
<1>1. /\ n = Len(lines) /\ n \in Nat /\ m = Len(mid) /\ m \in Nat
      /\ new \in Seq(Line) /\ Len(new) = n + m + 4
      /\ (\A i \in 1 .. n : new[i] = lines[i])
      /\ new[n + 1] = Text /\ new[n + 2] = Requires(l) /\ new[n + 3] = Note(l)
      /\ (\A j \in 1 .. m : new[n + 3 + j] = mid[j])
      /\ Placed(new, l, n + 2, n + m + 4)
  BY DEF Lengthened
<1>2. Taking(F, lines, K) /\ Taking(H, new, L)
  BY <1>1, TakenIs
<1>3. Persons(lines, t) = F[n] /\ Persons(new, t) = H[Len(new)]
  BY <1>1 DEF Persons
<1>3a. /\ \A i \in 1 .. n : i \in K <=> /\ Is(lines[i], "entry")
                                        /\ \A k \in Labels : InGroup(lines, k, i) => lines[i].arg \notin Owned(t, k)
       /\ \A i \in 1 .. Len(new) : i \in L <=> /\ Is(new[i], "entry")
                                               /\ \A k \in Labels : InGroup(new, k, i) => new[i].arg \notin Owned(t, k)
  <2>1. \A i \in 1 .. n : i \in K <=> /\ Is(lines[i], "entry")
                                       /\ \A k \in Labels : InGroup(lines, k, i) => lines[i].arg \notin Owned(t, k)
    BY <1>1, PersonIs
  <2>2. \A i \in 1 .. Len(new) : i \in L <=> /\ Is(new[i], "entry")
                                              /\ \A k \in Labels : InGroup(new, k, i) => new[i].arg \notin Owned(t, k)
    <3> DEFINE z == Len(new)
    <3>1. DOMAIN new = 1 .. z /\ new \in Seq(Line)
      BY <1>1
    <3> HIDE DEF z
    <3>. QED
      BY <3>1, PersonIs DEF z
  <2> HIDE DEF K, L
  <2>. QED
    BY <2>1, <2>2
<1> HIDE DEF K, L, F, H
<1>4. ASSUME NEW k \in Labels, NEW i \in 1 .. n PROVE InGroup(lines, k, i) <=> InGroup(new, k, i)
  <2>1. CASE k = l
    <3>1. ~Closed(lines, k)
      BY <2>1, ClosedHasGroup
    <3>2. ~InGroup(lines, k, i)
      BY <3>1, InGroupIs
    <3> DEFINE p == n + 2
               e == n + m + 4
    <3>3. Placed(new, k, p, e) /\ i \notin p .. e
      BY <1>1, <2>1
    <3> HIDE DEF p, e
    <3>4. ~InGroup(new, k, i)
      BY <1>1, <3>3, InGroupIs
    <3>. QED
      BY <3>2, <3>4
  <2>2. CASE k # l /\ ~Closed(lines, k)
    <3>1. ~Closed(new, k)
      BY <2>2 DEF Lengthened
    <3>. QED
      BY <1>1, <2>2, <3>1, InGroupIs
  <2>3. CASE Closed(lines, k)
    <3>1. PICK p, e : Placed(lines, k, p, e)
      BY <2>3, PlacedIs
    <3>2. Placed(new, k, p, e)
      BY <3>1 DEF Lengthened
    <3>3. InGroup(lines, k, i) <=> i \in p .. e
      BY <3>1, InGroupIs
    <3>4. InGroup(new, k, i) <=> i \in p .. e
      BY <1>1, <3>2, InGroupIs
    <3>. QED
      BY <3>3, <3>4
  <2>. QED
    BY <2>1, <2>2, <2>3
<1>5. ASSUME NEW i \in 1 .. n PROVE (i \in K <=> i \in L) /\ lines[i] = new[i]
  <2>1. i \in 1 .. Len(new) /\ lines[i] = new[i]
    BY <1>1
  <2>. QED
    BY <1>3a, <1>4, <2>1
<1>6. F[0 + n] = H[0 + n]
  <2>1. \A j \in 1 .. n : (0 + j \in K <=> 0 + j \in L) /\ (0 + j \in K => lines[0 + j] = new[0 + j])
    <3> TAKE j \in 1 .. n
    <3>1. 0 + j = j
      BY <1>1
    <3>. QED
      BY <1>5, <3>1
  <2>2. 0 + n <= Len(lines) /\ 0 + n <= Len(new) /\ Len(lines) \in Nat /\ Len(new) \in Nat /\ n \in Nat /\ 0 \in Nat
    BY <1>1
  <2>3. Matching(lines, new, K, L, 0, 0, n)
    BY <2>1, <2>2 DEF Matching
  <2>4. F[0] = H[0]
    BY <1>2 DEF Taking
  <2>. QED
    BY <1>2, <2>3, <2>4, TakenAlike
<1>7. ASSUME NEW j \in 1 .. r PROVE n + j \notin L
  <2>1. n + j \in 1 .. Len(new)
    BY <1>1
  <2>2. CASE j \in {1, 2, 3, m + 4}
    <3>1. ~Is(Text, "entry") /\ ~Is(Requires(l), "entry") /\ ~Is(Note(l), "entry") /\ ~Is(End, "entry")
      BY DEF Is, Text, Requires, Note, End
    <3>2. new[n + m + 4] = End
      BY <1>1 DEF Placed
    <3>3. n + (m + 4) = n + m + 4
      BY <1>1
    <3>4. ~Is(new[n + j], "entry")
      BY <1>1, <2>2, <3>1, <3>2, <3>3
    <3>. QED
      BY <1>3a, <2>1, <3>4
  <2>3. CASE j \in 4 .. m + 3
    <3> DEFINE q == n + j
               i == j - 3
    <3>1. i \in 1 .. m /\ n + 3 + i = q /\ q \in n + 2 .. n + m + 4
      BY <1>1, <2>3
    <3>2. new[q] = mid[i] /\ i \in DOMAIN mid
      BY <1>1, <3>1
    <3>3. InGroup(new, l, q)
      BY <1>1, <3>1 DEF InGroup
    <3> HIDE DEF i
    <3>4. Is(new[q], "entry") => new[q].arg \in Owned(t, l)
      BY <3>2 DEF EntriesOf
    <3>5. q \in 1 .. Len(new)
      BY <2>1
    <3> HIDE DEF q
    <3>6. q \notin L
      BY <1>3a, <3>3, <3>4, <3>5
    <3>. QED
      BY <3>6 DEF q
  <2>. QED
    BY <1>1, <2>2, <2>3
<1>8. H[n + r] = H[n]
  <2>1. Len(new) \in Nat /\ n + r <= Len(new) /\ n \in Nat /\ r \in Nat
    BY <1>1
  <2> HIDE DEF r
  <2>. QED
    BY <1>2, <1>7, <2>1, NoneTaken
<1>9. n + r = Len(new) /\ 0 + n = n
  BY <1>1
<1>. QED
  BY <1>3, <1>6, <1>8, <1>9

\* Other lines in a closed group: a person's are kept when those inside are.
LEMMA ReplaceKeeps ==
  ASSUME NEW lines \in Seq(Line), NEW l \in Labels, Closed(lines, l), NEW mid \in Seq(Body), NEW t \in Seq(Line), Valid(t),
         Without(Inside(lines, l), Ours(t, l)) = Without(mid, Ours(t, l))
  PROVE  Persons(Replace(lines, l, mid), t) = Persons(lines, t)
<1> DEFINE s == Start(lines, l)
           f == Finish(lines, l)
           d == s + Len(mid) + 1 - f
           u == Inside(lines, l)
           new == Replace(lines, l, mid)
<1>1. Opened(lines, new, l, s, f, d, mid)
  BY ReplaceMoves
<1>2. u \in Seq(Line) /\ mid \in Seq(Line)
  BY InsideIs, LineKinds
<1>3. u = SubSeq(lines, s + 1, f - 1)
  BY DEF Inside
<1>4. SameBetween(lines, s, f, mid, Ours(t, l))
  BY <1>2, <1>3 DEF SameBetween
<1> HIDE DEF s, f, d, u, new
<1>5. Persons(new, t) = Persons(lines, t)
  BY <1>1, <1>2, <1>4, OpenedKeeps
<1>. QED
  BY <1>5 DEF new

\* reconcileGroup keeps a person's lines, in each of its branches.
LEMMA GroupKeepsPersons ==
  ASSUME NEW lines \in Seq(Line), NEW t \in Seq(Line), Valid(t), NEW i \in Heads(t), NEW fs
  PROVE  Persons(ReconcileGroup(lines, GroupAt(t, i), fs), t) = Persons(lines, t)
<1> DEFINE g == GroupAt(t, i)
           l == g.label
           own == EntriesOf(g.lines)
           inside == Inside(lines, l)
           new == ReconcileGroup(lines, g, fs)
           gone == Ours(t, l)
<1>1. g \in Groups(t) /\ l \in Labels /\ g.lines \in Seq(Body) /\ g.lines \in Seq(Line)
  BY GroupIs, LineKinds DEF Proper, Groups
<1>2. own \subseteq Owned(t, l)
  BY <1>1 DEF Owned
<1> HIDE DEF g
<1>3. CASE new = lines
  BY <1>3 DEF g
<1>4. CASE ~HasGroup(lines, l) /\ Wanted(l, fs)
  <2> DEFINE missing == Without(g.lines, EntryLines(EntriesOf(lines)))
  <2>1. missing \in Seq(Body) /\ missing \in Seq(Line) /\ EntriesOf(missing) \subseteq own
    BY <1>1, WithoutEntries, LineKinds
  <2>2. new = IF EntriesOf(missing) = {} THEN lines ELSE WithGroup(lines, l, missing)
    <3>1. ~Closed(lines, l)
      BY <1>4, ClosedHasGroup
    <3>. QED
      BY <1>4, <3>1 DEF ReconcileGroup, AppendGroup, WithGroup
  <2> HIDE DEF missing, new
  <2>3. CASE EntriesOf(missing) # {}
    <3>1. Lengthened(lines, new, l, Len(lines), Len(missing), missing)
      BY <1>1, <1>4, <2>1, <2>2, <2>3, AppendMoves
    <3>2. EntriesOf(missing) \subseteq Owned(t, l)
      BY <1>2, <2>1
    <3> HIDE DEF l, own
    <3>3. Persons(new, t) = Persons(lines, t)
      BY <1>1, <1>4, <2>1, <3>1, <3>2, LengthenedKeeps
    <3>. QED
      BY <3>3 DEF new, g
  <2>. QED
    BY <2>2, <2>3 DEF new, g
<1>5. CASE Closed(lines, l) /\ EntriesOf(inside) = {} /\ Wanted(l, fs)
  <2>0. HasGroup(lines, l) /\ inside \in Seq(Body) /\ inside \in Seq(Line)
    BY <1>5, ClosedHasGroup, InsideIs, LineKinds
  <2> DEFINE left == Without(inside, Notes)
             mid == left \o g.lines
  <2>1. left \in Seq(Body) /\ left \in Seq(Line) /\ EntriesOf(left) = {}
    BY <1>5, <2>0, WithoutNotes, LineKinds
  <2> HIDE DEF left
  <2>2. mid \in Seq(Body) /\ mid \in Seq(Line) /\ EntriesOf(mid) = own
    <3>1. EntriesOf(mid) = EntriesOf(left) \cup own
      BY <1>1, <2>1, JoinEntries
    <3>2. IsJoin(Body, mid, left, g.lines)
      BY <1>1, <2>1, JoinIs
    <3>. QED
      BY <2>1, <3>1, <3>2, LineKinds DEF IsJoin
  <2>3. new = Replace(lines, l, mid)
    BY <1>5, <2>0 DEF ReconcileGroup, RestoreGroup, left
  <2> HIDE DEF mid, new
  <2>4. Without(inside, gone) = <<>>
    BY <1>5, <2>0, OursGo
  <2>5. Without(mid, gone) = <<>>
    BY <1>2, <2>2, OursGo
  <2>6. Persons(Replace(lines, l, mid), t) = Persons(lines, t)
    <3> HIDE DEF l
    <3>. QED
      BY <1>1, <1>5, <2>2, <2>4, <2>5, ReplaceKeeps
  <2>. QED
    BY <2>3, <2>6 DEF new, g
<1>6. CASE Closed(lines, l) /\ EntriesOf(inside) # {} /\ ~Wanted(l, fs)
  <2>0. HasGroup(lines, l) /\ inside \in Seq(Body) /\ inside \in Seq(Line)
    BY <1>6, ClosedHasGroup, InsideIs, LineKinds
  <2> DEFINE kept == Without(inside, EntryLines(own))
             note == IF EntriesOf(kept) = {} /\ (\A j \in DOMAIN kept : ~Is(kept[j], "note"))
                     THEN <<Note(l)>> ELSE <<>>
             mid == note \o kept
  <2>1. kept \in Seq(Body) /\ kept \in Seq(Line)
    BY <2>0, WithoutEntries, LineKinds
  <2>2. new = IF kept = inside THEN lines ELSE Replace(lines, l, mid)
    BY <1>6, <2>0 DEF ReconcileGroup, EmptyGroup
  <2>3. Without(kept, gone) = Without(inside, gone)
    <3>1. \A x \in Line : x \in EntryLines(own) => x \in gone
      <4> TAKE x \in Line
      <4> SUFFICES ASSUME x \in EntryLines(own) PROVE x \in gone
        OBVIOUS
      <4>1. PICK c \in own : x = Entry(c)
        BY DEF EntryLines
      <4>2. x.arg \in Owned(t, l)
        BY <1>2, <4>1 DEF Entry
      <4>. QED
        BY <4>2 DEF Ours
    <3> HIDE DEF gone, own
    <3>. QED
      BY <2>0, <3>1, WithoutTwice
  <2>4. note \in Seq(Body) /\ note \in Seq(Line) /\ EntriesOf(note) = {} /\ (EntriesOf(kept) # {} => note = <<>>)
    <3> HIDE DEF kept
    <3>. QED
      BY <1>1, NoteOrNone
  <2> HIDE DEF note, kept
  <2>5. mid \in Seq(Body) /\ mid \in Seq(Line) /\ EntriesOf(mid) = EntriesOf(kept)
    <3>1. EntriesOf(mid) = EntriesOf(note) \cup EntriesOf(kept)
      BY <2>1, <2>4, JoinEntries
    <3>2. IsJoin(Body, mid, note, kept)
      BY <2>1, <2>4, JoinIs
    <3>. QED
      BY <2>4, <3>1, <3>2, LineKinds DEF IsJoin
  <2>6. Without(mid, gone) = Without(kept, gone)
    <3>1. CASE EntriesOf(kept) = {}
      <4>1. Without(kept, gone) = <<>>
        BY <2>1, <3>1, OursGo
      <4> HIDE DEF mid
      <4>2. Without(mid, gone) = <<>>
        BY <2>5, <3>1, OursGo
      <4>. QED
        BY <4>1, <4>2
    <3>2. CASE EntriesOf(kept) # {}
      <4>1. <<>> \o kept = kept
        BY <2>1, ConcatEmptySeq
      <4>2. mid = kept
        BY <2>4, <3>2, <4>1
      <4>. QED
        BY <4>2
    <3>. QED
      BY <3>1, <3>2
  <2> HIDE DEF mid, new
  <2>7. CASE kept # inside
    <3>1. Persons(Replace(lines, l, mid), t) = Persons(lines, t)
      <4> HIDE DEF l
      <4>. QED
        BY <1>1, <1>6, <2>3, <2>5, <2>6, ReplaceKeeps
    <3>. QED
      BY <2>2, <2>7, <3>1 DEF new, g
  <2>. QED
    BY <2>2, <2>7 DEF new, g
<1>7. \/ new = lines
      \/ ~HasGroup(lines, l) /\ Wanted(l, fs)
      \/ Closed(lines, l) /\ EntriesOf(inside) = {} /\ Wanted(l, fs)
      \/ Closed(lines, l) /\ EntriesOf(inside) # {} /\ ~Wanted(l, fs)
  BY DEF ReconcileGroup
<1>. QED
  BY <1>3, <1>4, <1>5, <1>6, <1>7 DEF g

\* So does all of reconcile.
LEMMA ReconcileKeepsPersons ==
  ASSUME NEW lines \in Seq(Line), NEW t \in Seq(Line), Valid(t), NEW fs
  PROVE  Persons(Reconcile(lines, t, fs), t) = Persons(lines, t)
<1> DEFINE upTo == ReconciledUpTo(lines, t, fs)
           n == Len(t)
           T == {k \in Nat : k <= n => Persons(upTo[k], t) = Persons(lines, t)}
<1>1. /\ n \in Nat /\ upTo[0] = lines
      /\ \A i \in 0 .. n : upTo[i] \in Seq(Line)
      /\ \A i \in 1 .. n :
           /\ i \in Heads(t) => upTo[i] = ReconcileGroup(upTo[i - 1], GroupAt(t, i), fs)
           /\ i \notin Heads(t) => upTo[i] = upTo[i - 1]
  BY ReconciledIs
<1> HIDE DEF upTo, n
<1>2. 0 \in T
  BY <1>1
<1>3. ASSUME NEW k \in Nat, k \in T PROVE k + 1 \in T
  <2> SUFFICES ASSUME k + 1 <= n PROVE Persons(upTo[k + 1], t) = Persons(lines, t)
    OBVIOUS
  <2> DEFINE j == k + 1
  <2>1. j \in 1 .. n /\ j - 1 = k /\ k \in 0 .. n /\ Persons(upTo[k], t) = Persons(lines, t)
    BY <1>1, <1>3
  <2> HIDE DEF j
  <2>2. upTo[k] \in Seq(Line)
    BY <1>1, <2>1
  <2>3. CASE j \in Heads(t)
    <3>1. upTo[j] = ReconcileGroup(upTo[k], GroupAt(t, j), fs)
      BY <1>1, <2>1, <2>3
    <3>2. Persons(ReconcileGroup(upTo[k], GroupAt(t, j), fs), t) = Persons(upTo[k], t)
      BY <2>2, <2>3, GroupKeepsPersons
    <3>. QED
      BY <2>1, <3>1, <3>2 DEF j
  <2>4. CASE j \notin Heads(t)
    <3>1. upTo[j] = upTo[k]
      BY <1>1, <2>1, <2>4
    <3>. QED
      BY <2>1, <3>1 DEF j
  <2>. QED
    BY <2>3, <2>4
<1>4. n \in T
  <2> HIDE DEF T
  <2>. QED
    BY <1>1, <1>2, <1>3, Counting
<1>5. Persons(upTo[n], t) = Persons(lines, t)
  BY <1>1, <1>4
<1>6. Reconcile(lines, t, fs) = upTo[n]
  BY DEF Reconcile, upTo, n
<1>. QED
  BY <1>5, <1>6

\* A create keeps every entry that is a person's, in its order, whatever the
\* person made of the file and of the markers in it.
THEOREM PersonsAreKept == GroupSpec => PersonsKept
<1> DEFINE Keeps == settled' /\ file # NoList => Persons(file', template) = Persons(file, template)
<1>1. GroupTypeOK /\ [GroupNext]_groupVars => [Keeps]_groupVars
  <2> SUFFICES ASSUME GroupTypeOK, [GroupNext]_groupVars, ~UNCHANGED groupVars, settled', file # NoList
               PROVE  Persons(file', template) = Persons(file, template)
    OBVIOUS
  <2>1. PICK fs \in SUBSET Features : Create(fs)
    BY Changed
  <2>2. template \in Seq(Line) /\ Valid(template) /\ file \in Seq(Line) /\ file' = Reconcile(file, template, fs)
    BY <2>1, GroupsAssumption DEF Create, GroupTypeOK
  <2>. QED
    BY <2>2, ReconcileKeepsPersons
<1>. QED
  BY <1>1, TypeCorrect, PTL DEF GroupSpec, PersonsKept
=============================================================================
