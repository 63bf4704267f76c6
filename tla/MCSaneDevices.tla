--------------------------- MODULE MCSaneDevices ---------------------------
(***************************************************************************)
(* Model checking of device assembly, opening and tracing on a small       *)
(* network: the two services of a device, which agree neither on the       *)
(* spelling of its UUID nor on its name, the first of them seen on two     *)
(* interfaces, and a device that has no UUID.                              *)
(***************************************************************************)
EXTENDS SaneDevices

Literals == <<[inet6 |-> FALSE, net |-> "lan", host |-> 1],
              [inet6 |-> TRUE, net |-> "fe80", host |-> 1],
              [inet6 |-> FALSE, net |-> "far", host |-> 2],
              [inet6 |-> TRUE, net |-> "lan", host |-> 2]>>

OurIfaces == {[inet6 |-> FALSE, net |-> "lan", host |-> 9],
              [inet6 |-> TRUE, net |-> "fe80", host |-> 9]}

Known(i, s) == [id |-> i, spelling |-> s]

Printing == [name |-> 3, uuid |-> Known(1, "urn"), model |-> 0, rs |-> 0, rp |-> 1,
             tls |-> FALSE, ifindex |-> 1, addrs |-> <<2, 1>>, resolved |-> TRUE]

Scanning == [Printing EXCEPT !.name = 1, !.uuid.spelling = "bare", !.model = 1, !.rs = 2,
                             !.tls = TRUE, !.addrs = <<1>>]

Nameless == [Printing EXCEPT !.name = 2, !.uuid = NoUuid, !.rs = 2, !.addrs = <<3>>]

Symmetry == Permutations(Slot)

Findings == {Printing, [Printing EXCEPT !.ifindex = 2, !.addrs = <<1>>], Scanning, Nameless}

Variable == [name |-> 2, uuid |-> NoUuid, model |-> 0, scan |-> TRUE,
             endpoints |-> <<[addr |-> 4, tls |-> FALSE, res |-> 2,
                              inet6 |-> FALSE, linklocal |-> FALSE, distance |-> 0]>>]
=============================================================================
