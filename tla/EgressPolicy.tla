---------------------------- MODULE EgressPolicy ----------------------------
(***************************************************************************)
(* What Proxy.Sync promises, without its steps: a policy is asked for and  *)
(* is then either in force as a whole, or refused as a whole with the old  *)
(* one still in force; and a report that nothing had to be done is true.   *)
(* This is the SyncResult of internal/proxy/proxy.go read as a contract.   *)
(***************************************************************************)
CONSTANTS
  Policies,    \* everything the host files can say
  Acceptable,  \* the policies squid accepts
  Nothing      \* no policy of ours: a proxy VM just created

VARIABLES goal, serving, outcome

vars == <<goal, serving, outcome>>

Init == goal \in Policies /\ serving = Nothing /\ outcome = "none"

Ask ==
  /\ outcome # "running"
  /\ outcome' = "running"
  /\ goal' \in Policies
  /\ UNCHANGED serving

Apply ==
  /\ outcome = "running"
  /\ goal \in Acceptable
  /\ serving' = goal
  /\ outcome' = "Applied"
  /\ UNCHANGED goal

Confirm ==
  /\ outcome = "running"
  /\ serving = goal
  /\ outcome' = "Unchanged"
  /\ UNCHANGED <<goal, serving>>

Refuse ==
  /\ outcome = "running"
  /\ goal \notin Acceptable
  /\ outcome' = "Rejected"
  /\ UNCHANGED <<goal, serving>>

Replace ==
  /\ outcome # "running"
  /\ serving' = Nothing
  /\ outcome' = "none"
  /\ UNCHANGED goal

Next == Ask \/ Apply \/ Confirm \/ Refuse \/ Replace

Spec == Init /\ [][Next]_vars
=============================================================================
