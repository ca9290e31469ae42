--------------------------- MODULE MCClaimEngine ---------------------------
(* Instances of ClaimEngine for TLC.                                        *)
EXTENDS ClaimEngine

CONSTANTS h1, h2, h3, h4, bucket, zone, address

(* Two hosts on one bucket, one on a zone, one no adapter supports.         *)
MCResourceOf == [h \in Hosts |->
  CASE h \in {h1, h2} -> bucket [] h = h3 -> zone [] OTHER -> address]
MCKind == [r \in Resources |->
  CASE r = bucket -> "s3" [] r = zone -> "route53" [] OTHER -> "none"]

MCBothHomonyms == {Colleague, Stranger}
=============================================================================
