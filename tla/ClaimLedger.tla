---------------------------- MODULE ClaimLedger ----------------------------
(***************************************************************************)
(* What the claim engine promises about external resources, stated without *)
(* providers, locks, processes or failures.  Each attempt has at most one   *)
(* entry in a ledger and at most one resource in the world.  The entry is   *)
(* opened before the resource is created and closed after it is gone, and   *)
(* a new resource is created only while no other one exists.                *)
(* ClaimEngine implements this specification.                              *)
(***************************************************************************)
CONSTANT Attempts

VARIABLES
  open,    \* the attempts whose ledger entry is still to be settled
  settled, \* the attempts whose entry is closed for good
  exists   \* the attempts whose external resource exists

vars == <<open, settled, exists>>

Init == open = {} /\ settled = {} /\ exists = {}

(* An attempt is written down before anything is done about it.             *)
Open(a) ==
  /\ a \notin open \cup settled
  /\ open' = open \cup {a}
  /\ UNCHANGED <<settled, exists>>

(* Only a written-down attempt creates, and only one resource at a time.    *)
Create(a) ==
  /\ a \in open
  /\ exists = {}
  /\ exists' = {a}
  /\ UNCHANGED <<open, settled>>

Destroy(a) ==
  /\ a \in exists
  /\ exists' = exists \ {a}
  /\ UNCHANGED <<open, settled>>

(* An entry is closed only once its resource is gone, and stays closed.     *)
Settle(a) ==
  /\ a \in open \ exists
  /\ open' = open \ {a}
  /\ settled' = settled \cup {a}
  /\ UNCHANGED exists

Next == \E a \in Attempts : Open(a) \/ Create(a) \/ Destroy(a) \/ Settle(a)

Spec == Init /\ [][Next]_vars
=============================================================================
