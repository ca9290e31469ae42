----------------------------- MODULE MCScanRun -----------------------------
(* Instances of ScanRun for TLC.                                            *)
EXTENDS ScanRun

CONSTANTS a, b, c, x, y

(* Certificates that name known hosts, new ones, and one of each twice.     *)
MCCertificate == [h \in Hosts |->
  CASE h = a -> {b, x} [] h = b -> {x, y} [] h = x -> {a, y} [] OTHER -> {}]

MCNoCertificate == [h \in Hosts |-> {}]
=============================================================================
