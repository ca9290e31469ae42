---------------------------- MODULE MCDispatcher ----------------------------
(* An instance of Dispatcher for TLC.                                       *)
EXTENDS Dispatcher

CONSTANTS zone, host, c1, c2

(* What verify reports of a host, or a scan if it had no classification.    *)
Result(old, new, subject, kept) ==
  [state |-> IF old = NoLevel THEN "DISCOVERED" ELSE StateChange(old, new),
   old |-> old, new |-> new, subject |-> subject, kept |-> kept, by |-> 1]

(* Two hosts below one broken zone, a change for the better, below the      *)
(* minimum, a suppressed finding and one of a host of its own.              *)
MCResults ==
  LET found == Result(NoLevel, "DELEGATION_TAKEOVER_CANDIDATE", zone, TRUE)
  IN {found, [found EXCEPT !.by = 2],
      Result("TAKEOVERABLE", "HEALTHY", host, TRUE),
      Result(NoLevel, "EXPOSED", host, FALSE),
      Result("ORPHANED", "TAKEOVERABLE", host, TRUE)}
=============================================================================
