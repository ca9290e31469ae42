-------------------------- MODULE MCPlatformSync --------------------------
(* Instances of PlatformSync for TLC.                                       *)
EXTENDS PlatformSync

CONSTANTS a1, a2, apex1, www1, dev1, api2

(* The first asset is a wildcard that can move between two roots or be      *)
(* withdrawn from testing, the second an exact host or a wildcard.          *)
MCPlatformOf == [a \in Assets |-> IF a = a1 THEN 1 ELSE 2]
MCUnder == [r \in Roots |-> IF r = 1 THEN {www1, dev1} ELSE {api2}]
MCResults == [r \in Roots |->
  IF r = 1 THEN {{apex1, www1}, {dev1, api2}} ELSE {{api2}}]

Wildcard(r, e) == [eligible |-> e, wildcard |-> TRUE, root |-> r, host |-> Absent]
Exact(r, h) == [eligible |-> TRUE, wildcard |-> FALSE, root |-> r, host |-> h]

MCScopes == {Wildcard(1, TRUE), Wildcard(2, TRUE), Wildcard(1, FALSE), Exact(2, api2)}

(* What the platforms list at first.                                        *)
MCInit ==
  /\ Init
  /\ offered = [a \in Assets |-> IF a = a1 THEN Wildcard(1, TRUE) ELSE Exact(2, api2)]
MCSpec == MCInit /\ [][Next]_vars
MCFairSpec ==
  MCSpec /\ WF_vars(Advance) /\ WF_vars(Command(TRUE) /\ status = "RUNNING")
=============================================================================
