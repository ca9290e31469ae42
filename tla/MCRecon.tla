------------------------------ MODULE MCRecon ------------------------------
(***************************************************************************)
(* A root with seven names below it: three that sources know, of which one  *)
(* matches the wildcard and is in the zone transfer, one that a page        *)
(* mentions, one behind its alias, and two that words give, of which one    *)
(* does not resolve and is behind that alias too: it is set aside before it *)
(* is given.                                                                *)
(***************************************************************************)
EXTENDS Recon

MCNames == {"root", "api", "old", "edge", "mail", "page", "dev", "test"}
MCSources == {"crt", "otx"}
MCReported == [s \in MCSources |-> IF s = "crt" THEN {"api", "mail"} ELSE {"api", "old"}]
MCRecords == {"mail"}
MCZone == {"mail", "old"}
At(name, names) == [n \in MCNames |-> IF n = name THEN names ELSE {}]
MCAliases == At("page", {"edge", "test"})
MCReverse == At("api", {"old"})
MCPages == At("api", {"root", "page"})
MCWords == {"dev", "test"}
MCAlterations == At("api", {"dev"})
MCResolving == {"root", "api", "edge", "mail", "page", "dev"}
MCWild == {"mail"}
MCModes == {"passive", "standard", "exhaustive"}
MCLimits == [m \in MCModes |->
  CASE m = "passive" -> [rounds |-> 0, candidates |-> 5, tested |-> 5]
    [] m = "standard" -> [rounds |-> 1, candidates |-> 7, tested |-> 7]
    [] m = "exhaustive" -> [rounds |-> 2, candidates |-> 9, tested |-> 9]]
=============================================================================
