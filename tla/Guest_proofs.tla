---------------------------- MODULE Guest_proofs ----------------------------
(***************************************************************************)
(* Theorems about Guest: type correctness; that a done-marker stands for   *)
(* the whole of its script's work; that a guest that holds the token has   *)
(* what was asked for and is clamped whenever it is up; that a sandbox     *)
(* handed over on multipass has its mount.                                 *)
(***************************************************************************)
EXTENDS Guest, TLAPS

\* Where the scripts stand in either order.
LEMMA Positions ==
  /\ Len(Order) = 8 /\ Order[1] = "apt" /\ Order[2] = "base"
  /\ Order[3] = "extra" /\ Order[4] = "firewall" /\ Order[5] = "services"
  /\ backend = "lima" => Order[6] = "harden" /\ Order[7] = "toolchain" /\ Order[8] = "userenv"
  /\ backend # "lima" => Order[6] = "toolchain" /\ Order[7] = "userenv" /\ Order[8] = "harden"
<1>1. CASE backend = "lima"
  <2>1. Order = <<"apt", "base", "extra", "firewall", "services", "harden", "toolchain", "userenv">>
    BY <1>1 DEF Order
  <2>. QED
    BY <1>1, <2>1
<1>2. CASE backend # "lima"
  <2>1. Order = <<"apt", "base", "extra", "firewall", "services", "toolchain", "userenv", "harden">>
    BY <1>2 DEF Order
  <2>. QED
    BY <1>2, <2>1
<1>. QED
  BY <1>1, <1>2

LEMMA InitTypes == Init => TypeOK
<1> SUFFICES ASSUME Init PROVE TypeOK
  OBVIOUS
<1>1. work \in [Scripts -> {"none", "part", "whole"}] /\ marker \subseteq Scripts
  BY DEF Init, NoWork
<1>2. {equipped, refused, enabled, pinned, wall, root, bad, isNew, token} \subseteq BOOLEAN
  BY DEF Init
<1>3. step # "enter" => at < 9
  BY DEF Init
<1>4. step \in {"enable", "pin"} => Current = "firewall"
  BY DEF Init
<1>. QED
  BY <1>1, <1>2, <1>3, <1>4 DEF Init, TypeOK

\* The script that a boot stands at.
LEMMA CurrentIs ==
  ASSUME at \in 1 .. 8
  PROVE  /\ Current \in Scripts
         /\ Current = "apt" <=> at = 1
         /\ Current = "base" <=> at = 2
         /\ Current = "extra" <=> at = 3
         /\ Current = "firewall" <=> at = 4
         /\ Current = "harden" <=> at = IF backend = "lima" THEN 6 ELSE 8
<1>1. at \in {1, 2, 3, 4, 5, 6, 7, 8}
  OBVIOUS
<1>. QED
  BY <1>1, Positions DEF Current, Scripts

\* A boot writes well-formed state, whatever it finds.
LEMMA BootTypes ==
  ASSUME TypeOK, NEW m \in {"alive", "dead", "absent"}, BootWith(m)
  PROVE  /\ power' = "boot" /\ at' = 1 /\ step' = "enter"
         /\ wall' \in BOOLEAN /\ root' \in BOOLEAN /\ bad' \in BOOLEAN
         /\ mount' \in {"alive", "dead", "absent"}
<1>1. wall' \in BOOLEAN
  <2>1. (enabled /\ rules = "whole" /\ HasTools) \in BOOLEAN
    OBVIOUS
  <2>. QED
    BY <2>1 DEF BootWith
<1>2. root' \in BOOLEAN
  BY DEF BootWith, TypeOK
<1>. QED
  BY <1>1, <1>2 DEF BootWith

LEMMA TypeStep == TypeOK /\ [Next]_vars => TypeOK'
<1> SUFFICES ASSUME TypeOK, [Next]_vars PROVE TypeOK'
  OBVIOUS
<1> USE DEF kind, boot, firewall, disk, host, AtScript, NextScript, Free, Fail, Proceed
<1>a. Len(Order) = 8
  BY Positions
<1>b. at \in 1 .. 8 => Current \in Scripts
  BY CurrentIs
<1>1. CASE SkipScript
  BY <1>1, <1>a DEF SkipScript, TypeOK
<1>2. CASE EnterScript
  BY <1>2, <1>a, <1>b DEF EnterScript, TypeOK
<1>3. CASE Touch
  BY <1>3, <1>a, <1>b DEF Touch, TypeOK
<1>4. CASE ScriptFails
  <2>1. refused' \in BOOLEAN
    <3>1. (refused \/ Current = "extra") \in BOOLEAN
      OBVIOUS
    <3>. QED
      BY <1>4, <3>1 DEF ScriptFails
  <2>2. at < 9
    BY <1>4 DEF ScriptFails, MayFail, TypeOK
  <2>. QED
    BY <1>4, <2>1, <2>2 DEF ScriptFails, TypeOK
<1>5. CASE \E s \in Scripts : Complete(s)
  BY <1>5, <1>a, <1>b DEF Complete, TypeOK
<1>6. CASE WriteRules \/ EnableFirewall \/ PinResolver
  <2>1. work' \in [Scripts -> {"none", "part", "whole"}]
    BY <1>6 DEF WriteRules, EnableFirewall, PinResolver, TypeOK
  <2>2. /\ Current = "firewall" /\ Current' = Current /\ at < 9
        /\ step' \in {"enter", "work", "enable", "pin", "touch"}
    BY <1>6, <1>a DEF WriteRules, EnableFirewall, PinResolver, TypeOK, Current, Order
  <2>3. {equipped', refused', enabled', pinned', wall', root', bad', isNew', token'} \subseteq BOOLEAN
    BY <1>6 DEF WriteRules, EnableFirewall, PinResolver, TypeOK
  <2>. QED
    BY <1>6, <2>1, <2>2, <2>3 DEF WriteRules, EnableFirewall, PinResolver, TypeOK
<1>7. CASE MissToolchain
  BY <1>7, <1>a DEF MissToolchain, TypeOK, Current, Order
<1>8. CASE Harden
  <2>1. at \in 1 .. 8 /\ at' = at + 1 /\ step' = "enter" /\ root' = FALSE
    BY <1>8, <1>a DEF Harden, TypeOK
  <2>2. UNCHANGED <<kind, power, wall, bad, disk, mount, host>>
    BY <1>8 DEF Harden
  <2>3. {equipped', refused', enabled', pinned', wall', root', bad', isNew', token'} \subseteq BOOLEAN
    BY <2>1, <2>2 DEF TypeOK
  <2>. QED
    BY <2>1, <2>2, <2>3 DEF TypeOK
<1>9. CASE BootEnds
  BY <1>9, <1>a DEF BootEnds, TypeOK, Current, Order
<1>10. ASSUME NEW m \in {"alive", "dead", "absent"}, BootWith(m), UNCHANGED <<kind, disk>>,
              pc' \in {"idle", "create", "started", "restarted"}, isNew' \in BOOLEAN
       PROVE  TypeOK'
  <2>1. /\ power' = "boot" /\ at' = 1 /\ step' = "enter"
        /\ wall' \in BOOLEAN /\ root' \in BOOLEAN /\ bad' \in BOOLEAN
        /\ mount' \in {"alive", "dead", "absent"}
    BY <1>10, BootTypes
  <2>. QED
    BY <1>10, <2>1 DEF TypeOK
<1>11. CASE New \/ StartVM \/ Restart
  BY <1>10, <1>11 DEF New, StartVM, Restart, MountAfterBoot, TypeOK
<1>12. CASE Cut
  <2>1. CASE \E m \in {"dead", "absent"} : BootWith(m)
    BY <1>10, <1>12, <2>1 DEF Cut, TypeOK
  <2>2. CASE ~\E m \in {"dead", "absent"} : BootWith(m)
    BY <1>12, <2>2 DEF Cut, TypeOK, Current, Order
  <2>. QED
    BY <2>1, <2>2
<1>13. CASE CreateReturns \/ Halt \/ StartReturns \/ Probe \/ RestartReturns \/ Verify
  BY <1>13 DEF CreateReturns, Halt, StartReturns, Probe, RestartReturns, Verify, TypeOK, Current, Order
<1>14. CASE InjectToken
  BY <1>14 DEF InjectToken, TypeOK, Current, Order
<1>15. CASE Start \/ Stop \/ Abandon
  BY <1>15 DEF Start, Stop, Abandon, TypeOK, Current, Order
<1>16. CASE Remove
  <2>1. work' \in [Scripts -> {"none", "part", "whole"}] /\ marker' \subseteq Scripts
    BY <1>16 DEF Remove, NoWork
  <2>2. {refused', enabled', pinned', wall', root', bad', isNew', token'} \subseteq BOOLEAN
    BY <1>16 DEF Remove
  <2>. QED
    BY <1>16, <2>1, <2>2 DEF Remove, TypeOK
<1>17. CASE UNCHANGED vars
  BY <1>17 DEF vars, TypeOK, Current, Order
<1>18. (\E s \in Scripts : Complete(s)) \/ ~(SetUpApt \/ SetUpServices \/ InstallBase \/ InstallExtra \/ InstallToolchain \/ SetUpUser)
  BY DEF SetUpApt, SetUpServices, InstallBase, InstallExtra, InstallToolchain, SetUpUser, Scripts
<1>. QED
  BY <1>1, <1>2, <1>3, <1>4, <1>5, <1>6, <1>7, <1>8, <1>9, <1>11, <1>12, <1>13, <1>14, <1>15, <1>16, <1>17, <1>18
     DEF Next, Boot, Command

\* Guest is type-correct.
THEOREM GuestTypeCorrect == Spec => []TypeOK
BY InitTypes, TypeStep, PTL DEF Spec

----------------------------------------------------------------------------
(* What boots and commands leave behind.                                   *)

Booted == power \in {"boot", "up"}

\* The marker comes after the work; the firewall's parts come in order.
Marked ==
  /\ MarkerMeansWhole /\ "harden" \notin marker
  /\ Booted /\ step # "enter" => Current # "harden"
  /\ power = "none" => marker = {} /\ ~pinned /\ ~token
  /\ Booted /\ step \in {"enable", "pin", "touch"} /\ Current = "firewall" => rules = "whole"
  /\ Booted /\ step \in {"pin", "touch"} /\ Current = "firewall" => enabled
  /\ Booted /\ step = "touch" =>
       /\ Current = "toolchain" \/ work[Current] = "whole"
       /\ Current = "firewall" => pinned
  /\ power = "up" => at = 9

\* What a boot has done by the time it comes to a script.
Behind ==
  /\ MarkedMeansWalled
  /\ Booted /\ ~refused /\ (at > 3 \/ (at = 3 /\ step = "touch")) => work["extra"] = "whole"
  /\ Booted /\ at > (IF backend = "lima" THEN 6 ELSE 8) => ~root

\* The boot a `new` waits for is the guest's first, and raises the firewall.
First ==
  /\ pc = "create" => Booted
  /\ pc = "create" /\ (at < 4 \/ (at = 4 /\ step # "touch")) => ~pinned
  /\ pc = "create" /\ at > 4 => "firewall" \in marker
  /\ pc \in {"create", "halt", "verify", "inject"} => isNew
  /\ pc \in {"halt", "start", "started", "probe", "restarted", "verify", "inject"} /\ isNew =>
       "firewall" \in marker

\* What was verified is so when the token is injected, and stays.
Verified ==
  /\ pc = "inject" =>
       /\ power = "up" /\ wall /\ ~root /\ HasTools /\ mount = "alive"
       /\ work["extra"] = "whole" /\ work["toolchain"] = "whole"
  /\ token => "firewall" \in marker /\ HasTools /\ TokenMeansAsked
  /\ token /\ Booted => wall
  /\ UsableHasMount

GuestInv == Marked /\ Behind /\ First /\ Verified

LEMMA InitInv == Init => GuestInv
BY DEF Init, GuestInv, Marked, MarkerMeansWhole, Behind, MarkedMeansWalled, First, Verified, TokenMeansAsked, UsableHasMount, Booted

\* Whole work stays whole through a step of a boot.
LEMMA WorkKept ==
  ASSUME TypeOK, Boot
  PROVE  \A s \in Scripts : work[s] = "whole" => work'[s] = "whole"
<1> USE DEF AtScript
<1>1. CASE EnterScript
  BY <1>1 DEF EnterScript, TypeOK
<1>2. ASSUME NEW t \in Scripts, Complete(t) PROVE \A s \in Scripts : work[s] = "whole" => work'[s] = "whole"
  BY <1>2 DEF Complete, TypeOK
<1>3. CASE PinResolver
  BY <1>3 DEF PinResolver, TypeOK
<1>4. CASE UNCHANGED work
  BY <1>4
<1>5. EnterScript \/ (\E t \in Scripts : Complete(t)) \/ PinResolver \/ UNCHANGED work
  BY DEF Boot, SkipScript, Touch, ScriptFails, SetUpApt, InstallBase, InstallExtra, WriteRules,
         EnableFirewall, SetUpServices, InstallToolchain, MissToolchain, SetUpUser, Harden, BootEnds,
         Scripts, disk, firewall
<1>. QED
  BY <1>1, <1>2, <1>3, <1>4, <1>5

LEMMA BootStep ==
  ASSUME TypeOK, GuestInv, Boot
  PROVE  GuestInv'
<1> USE DEF GuestInv, Marked, MarkerMeansWhole, Behind, MarkedMeansWalled, First, Verified,
            TokenMeansAsked, UsableHasMount, Booted, HasTools, AtScript, NextScript,
            kind, boot, firewall, disk, host
<1>a. Len(Order) = 8 /\ (at \in 1 .. 8 => Current \in Scripts)
  BY Positions, CurrentIs
<1>b. /\ at \in 1 .. 8 => (Current = "apt" <=> at = 1) /\ (Current = "base" <=> at = 2)
      /\ at \in 1 .. 8 => (Current = "extra" <=> at = 3) /\ (Current = "firewall" <=> at = 4)
      /\ at \in 1 .. 8 => (Current = "harden" <=> at = IF backend = "lima" THEN 6 ELSE 8)
  BY CurrentIs
<1>c. "base" \in Scripts /\ "extra" \in Scripts /\ "firewall" \in Scripts /\ "toolchain" \in Scripts
  BY DEF Scripts
<1>d. at' = at /\ UNCHANGED kind => Current' = Current
  BY DEF Current, Order
<1>1. CASE SkipScript
  BY <1>1, <1>a, <1>b, <1>c, <1>d DEF SkipScript, TypeOK
<1>2. CASE EnterScript
  BY <1>2, <1>a, <1>b, <1>c, <1>d DEF EnterScript, TypeOK
<1>3. CASE Touch
  BY <1>3, <1>a, <1>b, <1>c, <1>d DEF Touch, TypeOK
<1>4. CASE ScriptFails
  <2>1. /\ at \in 1 .. 8 /\ at' = at + 1 /\ step' = "enter" /\ power = "boot"
        /\ refused' = (refused \/ Current = "extra")
        /\ Current # "harden" /\ (step = "pin" => pinned) /\ step \in {"work", "pin"}
        /\ at = 4 => step = "pin"
    BY <1>4, <1>a, <1>b DEF ScriptFails, MayFail, TypeOK
  <2>2. UNCHANGED <<kind, power, wall, root, marker, work, firewall, token, mount, host>>
    BY <1>4 DEF ScriptFails
  <2>3. ~refused' => ~refused /\ at # 3
    BY <2>1, <1>b
  <2>4. Marked'
    BY <2>1, <2>2
  <2>5. Behind'
    BY <2>1, <2>2, <2>3, <1>b
  <2>6. First'
    BY <2>1, <2>2, <1>b
  <2>7. Verified'
    BY <2>1, <2>2
  <2>. QED
    BY <2>4, <2>5, <2>6, <2>7
<1>5. ASSUME NEW s \in Scripts \ {"firewall", "harden"}, Complete(s) PROVE GuestInv'
  BY <1>5, <1>a, <1>b, <1>c, <1>d DEF Complete, TypeOK
<1>6. CASE WriteRules
  BY <1>6, <1>a, <1>b, <1>c, <1>d DEF WriteRules, TypeOK
<1>7. CASE EnableFirewall
  BY <1>7, <1>a, <1>b, <1>c, <1>d DEF EnableFirewall, TypeOK
<1>8. CASE PinResolver
  BY <1>8, <1>a, <1>b, <1>c, <1>d DEF PinResolver, TypeOK
<1>9. CASE MissToolchain
  BY <1>9, <1>a, <1>b, <1>c, <1>d DEF MissToolchain, TypeOK
<1>10. CASE Harden
  BY <1>10, <1>a, <1>b, <1>c, <1>d DEF Harden, TypeOK
<1>11. CASE BootEnds
  BY <1>11, <1>a, <1>b, <1>c, <1>d DEF BootEnds, TypeOK
<1>12. (\E s \in Scripts \ {"firewall", "harden"} : Complete(s))
       \/ ~(SetUpApt \/ SetUpServices \/ InstallBase \/ InstallExtra \/ InstallToolchain \/ SetUpUser)
  BY DEF SetUpApt, SetUpServices, InstallBase, InstallExtra, InstallToolchain, SetUpUser, Scripts
<1>. QED
  BY <1>1, <1>2, <1>3, <1>4, <1>5, <1>6, <1>7, <1>8, <1>9, <1>10, <1>11, <1>12 DEF Boot

\* The guest comes up, from a command or by itself.
LEMMA BootBegins ==
  ASSUME TypeOK, GuestInv, NEW m, BootWith(m), UNCHANGED <<kind, disk>>,
         \/ pc' = "idle"
         \/ pc' = "create" /\ isNew' /\ power = "none"
         \/ pc' \in {"started", "restarted"} /\ (isNew' => "firewall" \in marker)
  PROVE  GuestInv'
<1> USE DEF GuestInv, Marked, MarkerMeansWhole, Behind, MarkedMeansWalled, First, Verified,
            TokenMeansAsked, UsableHasMount, Booted, HasTools, kind, firewall, disk
<1>. QED
  BY DEF BootWith, TypeOK

LEMMA CommandStep ==
  ASSUME TypeOK, GuestInv, Command \/ Cut \/ UNCHANGED vars
  PROVE  GuestInv'
<1> USE DEF kind, boot, firewall, disk, host, Free, Fail, Proceed
<1>1. CASE New \/ StartVM \/ Restart
  <2>1. PICK m : BootWith(m)
    BY <1>1 DEF New, StartVM, Restart
  <2>. QED
    BY <1>1, <2>1, BootBegins DEF New, StartVM, Restart, GuestInv, First
<1>2. CASE Cut /\ \E m \in {"dead", "absent"} : BootWith(m)
  BY <1>2, BootBegins DEF Cut
<1> USE DEF GuestInv, Marked, MarkerMeansWhole, Behind, MarkedMeansWalled, First, Verified,
            TokenMeansAsked, UsableHasMount, Booted, HasTools
<1>a. at' = at /\ UNCHANGED kind => Current' = Current
  BY DEF Current, Order
<1>3. CASE Cut /\ ~\E m \in {"dead", "absent"} : BootWith(m)
  BY <1>3, <1>a DEF Cut
<1>4. CASE CreateReturns
  <2>1. /\ pc = "create" /\ at = 9 /\ pc' \in {"halt", "idle"} /\ isNew' = isNew
        /\ UNCHANGED <<kind, power, boot, disk, mount>>
    BY <1>4 DEF CreateReturns
  <2>. QED
    BY <2>1, <1>a
<1>5. CASE Halt
  BY <1>5, <1>a DEF Halt
<1>6. CASE StartReturns \/ Probe \/ RestartReturns
  BY <1>6, <1>a DEF StartReturns, Probe, RestartReturns
<1>7. CASE Verify
  BY <1>7, <1>a DEF Verify, IsolationHolds, PrivilegeGone, EgressClamped, ProxyReached, ToolsPresent, TypeOK
<1>8. CASE InjectToken
  BY <1>8, <1>a DEF InjectToken
<1>9. CASE Start \/ Stop \/ Abandon
  BY <1>9, <1>a DEF Start, Stop, Abandon
<1>10. CASE Remove
  BY <1>10 DEF Remove, NoWork
<1>11. CASE UNCHANGED vars
  BY <1>11, <1>a DEF vars
<1>. QED
  BY <1>1, <1>2, <1>3, <1>4, <1>5, <1>6, <1>7, <1>8, <1>9, <1>10, <1>11 DEF Command

LEMMA Inductive == Spec => [](TypeOK /\ GuestInv)
<1>1. TypeOK /\ GuestInv /\ [Next]_vars => GuestInv'
  BY BootStep, CommandStep DEF Next
<1>. QED
  BY <1>1, InitTypes, TypeStep, InitInv, PTL DEF Spec

\* A done-marker stands for the whole of its script's work.
THEOREM MarkersAreTrue == Spec => []MarkerMeansWhole
<1>1. TypeOK /\ GuestInv => MarkerMeansWhole
  BY DEF GuestInv, Marked
<1>. QED
  BY <1>1, Inductive, PTL

\* Once 20-firewall is done every boot begins behind the wall.
THEOREM MarkedIsWalled == Spec => []MarkedMeansWalled
<1>1. TypeOK /\ GuestInv => MarkedMeansWalled
  BY DEF GuestInv, Behind
<1>. QED
  BY <1>1, Inductive, PTL

\* A guest that holds the token has what its owner asked for.
THEOREM TokenAfterTools == Spec => []TokenMeansAsked
<1>1. TypeOK /\ GuestInv => TokenMeansAsked
  BY DEF GuestInv, Verified, TokenMeansAsked
<1>. QED
  BY <1>1, Inductive, PTL

\* Whenever a guest that holds the token is up, the wall stands and root is gone.
THEOREM ClampedForGood == Spec => []ClampedWhenUp
<1>1. TypeOK /\ GuestInv => ClampedWhenUp
  BY DEF GuestInv, Verified, Marked, Behind, Booted, ClampedWhenUp
<1>. QED
  BY <1>1, Inductive, PTL

\* On multipass a command succeeds only with the repo alive in the guest.
THEOREM HandedOverMounted == Spec => []UsableHasMount
<1>1. TypeOK /\ GuestInv => UsableHasMount
  BY DEF GuestInv, Verified
<1>. QED
  BY <1>1, Inductive, PTL
=============================================================================
