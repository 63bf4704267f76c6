--------------------------- MODULE MCMdnsDiscover ---------------------------
(***************************************************************************)
(* Model checking of a discovery on a small network: a printer whose print *)
(* service and scan service answer at different ports, the one with "rp",  *)
(* spelled with a slash, the other one with "rs".                          *)
(***************************************************************************)
EXTENDS MdnsDiscover, TLC

MCPath  == {"ipp/print", "/ipp/print", "ipp/scan"}
MCStrip == [p \in MCPath |-> IF p = "/ipp/print" THEN "ipp/print" ELSE p]

MCAnswer == {[port |-> 631, said |-> [rp |-> "/ipp/print"]],
             [port |-> 443, said |-> [rs |-> "ipp/scan", uuid |-> "ipp/scan"]]}

(* Addresses of a family are alike.                                        *)
Alike == Permutations(Inet)
=============================================================================
