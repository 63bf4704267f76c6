------------------------------ MODULE Zeroconf ------------------------------
(***************************************************************************)
(* ipp_zeroconf_discover() of ipp-zeroconf.c: the findings of a discovery  *)
(* are folded into devices, the devices are sorted by name and the         *)
(* endpoints of each by preference.  SaneDevices calls it.                 *)
(*                                                                         *)
(* Names, models, UUIDs, address literals and resources are numbers, in    *)
(* the order strcasecmp() or strcmp() has for them; 0 is NULL.  A resource *)
(* stands for the port and the path of a URI.  ipp_mdns_discover() may     *)
(* report any of the findings, each once, in any order (MdnsDiscover).     *)
(***************************************************************************)
EXTENDS Integers, SequencesExt

CONSTANTS
    Finding,        \* what the network has to report
    Parsed,         \* what an address literal stands for
    LinkLocal,      \* the network of the link-local addresses
    Ifaces,         \* the addresses of our own interfaces
    EnvDevice       \* the device in SANE_IPP_DEVICE, if it is understood

NULL   == 0
Text   == Nat \ {NULL}
Addr   == DOMAIN Parsed
NoUuid == [id |-> NULL, spelling |-> "canonical"]
Uuid   == [id : Text, spelling : {"canonical", "urn", "bare", "nonsense"}] \cup {NoUuid}

(* The fields of an ipp_device that are looked at.                         *)
FindingType ==
    [name : Text, uuid : Uuid, model : Nat, rs : Nat, rp : Text, tls : BOOLEAN,
     ifindex : Nat, addrs : Seq(Addr), resolved : BOOLEAN]

(* An ipp_endpoint, and an ipp_zc_device.  The interface of an endpoint and *)
(* the count of them are for display only, and left out.                   *)
Endpoint ==
    [addr : Addr, tls : BOOLEAN, res : Text, inet6 : BOOLEAN, linklocal : BOOLEAN,
     distance : 0 .. 2]
Device ==
    [name : Text, uuid : Uuid, model : Nat, scan : BOOLEAN, endpoints : Seq(Endpoint)]

ASSUME ZeroconfAssumption ==
    /\ Finding \subseteq FindingType /\ IsFiniteSet(Finding)
    /\ Addr \subseteq Nat /\ \A a \in Addr : Parsed[a].inet6 \in BOOLEAN
    /\ EnvDevice \in Device /\ Len(EnvDevice.endpoints) = 1

VARIABLES
    zc,             \* where the call is, "idle" when there is none
    found,          \* findings not folded yet
    ifaces,         \* what getifaddrs() returned
    list,           \* the device list
    turn,           \* the device whose endpoints are sorted next
    heard           \* history: every finding of the call

zcVars == <<zc, found, ifaces, list, turn, heard>>

ZcInit ==
    /\ zc = "idle" /\ found = <<>> /\ ifaces = {} /\ list = <<>> /\ turn = 1 /\ heard = {}

-----------------------------------------------------------------------------

(* The "d" of "uuid:" counts as a digit of the value.                      *)
UuidWithPrefix(u) ==
    IF u.spelling \in {"nonsense", "urn"} THEN NoUuid ELSE [u EXCEPT !.spelling = "canonical"]

(* Spelling does not matter, unless there is no UUID in it at all.         *)
UuidNormalize(u) ==
    IF u.spelling = "nonsense" THEN NoUuid ELSE [u EXCEPT !.spelling = "canonical"]

(* What a finding is known by.                                             *)
KnownBy(f) == IF UuidNormalize(f.uuid) = NoUuid THEN f.uuid ELSE UuidNormalize(f.uuid)

DeviceMatch(d, u) == d.uuid # NoUuid /\ u # NoUuid /\ d.uuid = u

Distance(p) ==
    IF p \in ifaces THEN 0
    ELSE IF \E i \in ifaces : i.inet6 = p.inet6 /\ i.net = p.net THEN 1 ELSE 2

EndpointNew(f, a) ==
    [addr |-> a, tls |-> f.tls, res |-> IF f.rs # NULL THEN f.rs ELSE f.rp,
     inet6 |-> Parsed[a].inet6, linklocal |-> Parsed[a].net = LinkLocal,
     distance |-> Distance(Parsed[a])]

(* Each endpoint is put before the ones there are.                         *)
Endpoints(f) == Reverse([i \in DOMAIN f.addrs |-> EndpointNew(f, f.addrs[i])])

(* What a finding adds to its device, new or not.                          *)
Fold(d, f) ==
    [d EXCEPT !.model = IF @ = NULL THEN f.model ELSE @,
              !.scan = @ \/ f.rs # NULL,
              !.endpoints = Endpoints(f) \o @]

DeviceNew(f) ==
    [name |-> f.name, uuid |-> KnownBy(f), model |-> f.model, scan |-> FALSE,
     endpoints |-> <<>>]

(* Devices are looked up by the UUID as it is spelled.                     *)
MatchingAsSpelled(f) == {i \in DOMAIN list : DeviceMatch(list[i], f.uuid)}

Matching(f) == {i \in DOMAIN list : DeviceMatch(list[i], KnownBy(f))}

DeviceMerge(f) ==
    IF Matching(f) = {} THEN <<Fold(DeviceNew(f), f)>> \o list
    ELSE [list EXCEPT ![CHOOSE i \in Matching(f) : \A j \in Matching(f) : i <= j] = Fold(@, f)]

(* Tuples of numbers, compared one by one.                                 *)
Less(k, l) == \E i \in DOMAIN k : k[i] < l[i] /\ \A j \in 1 .. i - 1 : k[j] = l[j]

(* qsort() by a key: what compares equal comes in any order.               *)
Sorted(s, Key(_)) ==
    {t \in {[i \in DOMAIN s |-> s[p[i]]] : p \in Injection(DOMAIN s, DOMAIN s)} :
        \A j \in DOMAIN t : \A i \in 1 .. j - 1 : ~Less(Key(t[j]), Key(t[i]))}

After(b) == IF b THEN 1 ELSE 0

(* The encrypted endpoint comes last.                                      *)
ClearTextFirst(e) ==
    <<e.distance, After(e.linklocal), After(e.tls), After(~e.inet6), e.addr, e.res>>

EndpointKey(e) ==
    <<e.distance, After(e.linklocal), After(~e.tls), After(~e.inet6), e.addr, e.res>>

DeviceKey(d) == <<d.name, d.uuid.id, After(d.uuid.spelling # "canonical")>>

(* The URI is all that tells one endpoint from another.                    *)
Uri(e) == <<e.tls, e.addr, e.res>>

(* Of neighbours with the same URI the first one is kept.                  *)
Keep(before, e) ==
    IF before # <<>> /\ Uri(Last(before)) = Uri(e) THEN before ELSE Append(before, e)

(* The loop over the endpoints; [i] is what it keeps of the first i.       *)
KeptOf(s) ==
    LET Of[i \in 0 .. Len(s)] == IF i = 0 THEN <<>> ELSE Keep(Of[i - 1], s[i])
    IN  Of

Dedup(s) == KeptOf(s)[Len(s)]

-----------------------------------------------------------------------------

(* The list is the device of SANE_IPP_DEVICE, which a frontend may set     *)
(* between two calls and may get wrong; or it is that of a discovery, which*)
(* may fail, and the interfaces may be unknown.                            *)
ZcBegin ==
    /\ zc = "idle"
    /\ \/ zc' = "ready" /\ list' = <<EnvDevice>>
          /\ UNCHANGED <<found, ifaces, turn, heard>>
       \/ zc' = "failed" /\ UNCHANGED <<found, ifaces, list, turn, heard>>
       \/ zc' = "merge"
          /\ found' \in SetToAllKPermutations(Finding) /\ heard' = ToSet(found')
          /\ ifaces' \in {Ifaces, {}}
          /\ UNCHANGED <<list, turn>>

ZcMerge ==
    /\ zc = "merge" /\ found # <<>>
    /\ list' = IF Head(found).resolved /\ Head(found).addrs # <<>>
               THEN DeviceMerge(Head(found)) ELSE list
    /\ found' = Tail(found)
    /\ UNCHANGED <<zc, ifaces, turn, heard>>

ZcSort ==
    /\ zc = "merge" /\ found = <<>>
    /\ list' \in Sorted(list, DeviceKey)
    /\ zc' = "dedup" /\ turn' = 1
    /\ UNCHANGED <<found, ifaces, heard>>

EndpointListSortDedup(d) ==
    {[d EXCEPT !.endpoints = Dedup(s)] : s \in Sorted(d.endpoints, EndpointKey)}

ZcDedup ==
    /\ zc = "dedup" /\ turn \in DOMAIN list
    /\ \E d \in EndpointListSortDedup(list[turn]) : list' = [list EXCEPT ![turn] = d]
    /\ turn' = turn + 1
    /\ UNCHANGED <<zc, found, ifaces, heard>>

ZcReturn ==
    /\ zc = "dedup" /\ turn \notin DOMAIN list
    /\ zc' = "ready"
    /\ UNCHANGED <<found, ifaces, list, turn, heard>>

ZcStep == ZcMerge \/ ZcSort \/ ZcDedup \/ ZcReturn

(* The caller has taken what it wanted.                                    *)
ZcEnd ==
    /\ zc' = "idle" /\ list' = <<>> /\ turn' = 1 /\ ifaces' = {} /\ heard' = {}
    /\ UNCHANGED found
=============================================================================
