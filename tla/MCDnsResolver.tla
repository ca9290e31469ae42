--------------------------- MODULE MCDnsResolver -----------------------------
(***************************************************************************)
(* Two hosts resolve the same name through two resolvers, with the check of *)
(* a name server, and the one for NXDOMAIN, beside them.                    *)
(***************************************************************************)
EXTENDS DnsResolver

CONSTANTS c1, c2, s1, s2

MCAsks == c1 :> {"address", "health"} @@ c2 :> {"address", "nxdomain", "health"}
\* The servers agree on the name or do not.
MCInitially ==
  {s1 :> "v4" @@ s2 :> "v4", s1 :> "absent" @@ s2 :> "absent",
   s1 :> "v6" @@ s2 :> "absent", s1 :> "empty" @@ s2 :> "v4"}
==============================================================================
