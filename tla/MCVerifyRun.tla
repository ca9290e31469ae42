---------------------------- MODULE MCVerifyRun -----------------------------
(* Instances of VerifyRun for TLC.                                          *)
EXTENDS VerifyRun

CONSTANTS a, b, v1, v2, s1

(* A broken delegation is one zone's, whichever host it was found at.       *)
MCSubject ==
  [p \in Hosts \X Found |-> IF p[2] = "DELEGATION_TAKEOVER_CANDIDATE" THEN main ELSE p[1]]
=============================================================================
