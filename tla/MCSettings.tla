----------------------------- MODULE MCSettings -----------------------------
(* The constants of Settings on a small instance: every key a rule of       *)
(* internal/config is about, two names that are no keys, a few words.       *)
EXTENDS Settings, TLC

MCKeys == Booleans \cup Numbers \cup FromHost \cup {"DISTRO", "IMAGE_URL", "REPO_ROOT"}
MCVMKeys == MCKeys \ {"REPO_ROOT", "LMSTUDIO_PORT"}
MCOthers == {"TOOLCHAIN", "WORK"}
MCWords == {"", "no", "yes", "n1", "n2", "n9", "n5", "deb", "ubu", "debimg", "ubuimg", "ownimg", "home", "me", "tools"}
MCDefault ==
  [k \in MCKeys |-> CASE k \in Booleans -> "no"
                      [] k \in {"CPUS", "PORT_MIN", "LMSTUDIO_PORT"} -> "n1"
                      [] k = "PORT_MAX" -> "n9"
                      [] k = "DISTRO" -> "deb"
                      [] k = "REPO_ROOT" -> "home"
                      [] OTHER -> ""]
MCEnviron == [k \in MCKeys |-> "unset"]
MCHostVar == [n \in MCKeys \cup MCOthers |-> ""]
MCNumber == ("n1" :> 1) @@ ("n2" :> 2) @@ ("n5" :> 5) @@ ("n9" :> 9)
MCWellFormed == [k \in MCKeys |-> CASE k = "IMAGE_URL" -> {"debimg", "ubuimg", "ownimg"}
                                    [] OTHER -> MCWords]
MCImage == ("deb" :> "debimg") @@ ("ubu" :> "ubuimg")
MCHostWord == [k \in MCKeys |-> "me"]
=============================================================================
