---------------------------- MODULE Transitions ----------------------------
(***************************************************************************)
(* What a change of a host's classification means: its risk                 *)
(* (internal/classification/levels.go), the state change and the severity   *)
(* verify gives it (internal/verify/engine.go), and the severity and the    *)
(* filters of a notification (pkg/notify/dispatcher.go).                    *)
(***************************************************************************)
EXTENDS Integers

Levels == {"TAKEN_OVER", "CONFIRMED_TAKEOVERABLE", "TAKEOVERABLE", "LIKELY_TAKEOVERABLE",
           "ZONE_CONTROL_CONFIRMED", "DELEGATION_CLAIMABILITY_VERIFIED",
           "DELEGATION_TAKEOVER_CANDIDATE", "DELEGATION_BROKEN", "EXPOSED", "ORPHANED",
           "MISCONFIGURED", "UNKNOWN", "INSUFFICIENT_EVIDENCE", "HEALTHY"}

(* "" is the classification a host does not have yet.                       *)
NoLevel == ""

RiskRank(level) ==
  CASE level = "HEALTHY" -> 0
    [] level = "INSUFFICIENT_EVIDENCE" -> 1
    [] level = "MISCONFIGURED" -> 3
    [] level = "EXPOSED" -> 4
    [] level \in {"ORPHANED", "DELEGATION_BROKEN"} -> 5
    [] level \in {"LIKELY_TAKEOVERABLE", "DELEGATION_TAKEOVER_CANDIDATE"} -> 6
    [] level = "TAKEOVERABLE" -> 7
    [] level \in {"CONFIRMED_TAKEOVERABLE", "DELEGATION_CLAIMABILITY_VERIFIED"} -> 8
    [] level = "ZONE_CONTROL_CONFIRMED" -> 9
    [] level = "TAKEN_OVER" -> 10
    [] OTHER -> 2

(* determineStateChange                                                     *)
StateChange(old, new) ==
  CASE old = new -> "UNCHANGED"
    [] old # new /\ new = "HEALTHY" -> "FIXED"
    [] new # "HEALTHY" /\ RiskRank(new) > RiskRank(old) -> "REGRESSED"
    [] new # "HEALTHY" /\ RiskRank(new) < RiskRank(old) -> "IMPROVED"
    [] OTHER -> "CHANGED"

(* GetTransitionSeverity, what verify prints of a change; at "NONE" it      *)
(* neither prints nor notifies.                                             *)
TransitionSeverity(old, new) ==
  CASE old = new -> "NONE"
    [] old # new /\ RiskRank(new) <= RiskRank(old) -> "LOW"
    [] RiskRank(new) > RiskRank(old) /\ RiskRank(new) >= RiskRank("TAKEOVERABLE") -> "CRITICAL"
    [] RiskRank(new) > RiskRank(old) /\ RiskRank(new) \in RiskRank("ORPHANED") .. RiskRank("TAKEOVERABLE") - 1 -> "HIGH"
    [] OTHER -> "MEDIUM"

(* The ranks of an alert's severity: info is 1 and critical is 5.           *)
ClassificationSeverity(level) ==
  CASE level \in {"TAKEN_OVER", "ZONE_CONTROL_CONFIRMED"} -> 5
    [] level \in {"CONFIRMED_TAKEOVERABLE", "DELEGATION_CLAIMABILITY_VERIFIED", "TAKEOVERABLE"} -> 4
    [] level \in {"LIKELY_TAKEOVERABLE", "DELEGATION_TAKEOVER_CANDIDATE", "EXPOSED"} -> 3
    [] level \in {"ORPHANED", "DELEGATION_BROKEN", "MISCONFIGURED"} -> 2
    [] OTHER -> 1

(* mapSeverity: an improvement is only information.                         *)
AlertSeverity(old, new) ==
  IF old # NoLevel /\ RiskRank(new) < RiskRank(old) THEN 1 ELSE ClassificationSeverity(new)

(* isAlwaysSuppressedInitialResult                                          *)
SuppressedInitial(old, new) ==
  old = NoLevel /\ new \in {"HEALTHY", "UNKNOWN", "INSUFFICIENT_EVIDENCE", NoLevel}
=============================================================================
