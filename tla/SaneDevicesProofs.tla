------------------------- MODULE SaneDevicesProofs -------------------------
(***************************************************************************)
(* Proofs about a discovery, the list that is made of it, opening and      *)
(* tracing, for any network, any number of handles and any names.          *)
(***************************************************************************)
EXTENDS SaneDevices, InductionLemmas, SequenceTheorems, FiniteSetTheorems

(* However the opening of a device ends, its trace file is not left open   *)
(* without it.                                                             *)
THEOREM TracesAreOfOpenDevices == Spec => []TraceIsOfAnOpenDevice
<1>1. Init => TraceIsOfAnOpenDevice
    BY DEF Init, TraceIsOfAnOpenDevice
<1>2. TraceIsOfAnOpenDevice /\ [Next]_vars => TraceIsOfAnOpenDevice'
    <2> SUFFICES ASSUME TraceIsOfAnOpenDevice, [Next]_vars
                 PROVE  TraceIsOfAnOpenDevice'
        OBVIOUS
    <2> USE DEF TraceIsOfAnOpenDevice
    <2>1. CASE SaneInit
        BY <2>1 DEF SaneInit
    <2>2. CASE SaneExit
        BY <2>2 DEF SaneExit
    <2>3. CASE GetDevices
        BY <2>3 DEF GetDevices
    <2>4. CASE GetFailed \/ GetDone \/ GetNoMem
        BY <2>4 DEF GetFailed, GetDone, GetNoMem
    <2>5. CASE OpenDevice
        BY <2>5 DEF OpenDevice, TraceOpen
    <2>6. CASE OpenUri
        BY <2>6 DEF OpenUri, TraceOpen
    <2>7. CASE OpenFailed \/ OpenNoDevice \/ OpenGiveUp \/ SaneClose
        BY <2>7 DEF OpenFailed, OpenNoDevice, OpenGiveUp, SaneClose, TraceClose
    <2>8. CASE OpenFind
        BY <2>8 DEF OpenFind
    <2>9. CASE OpenNextEndpoint
        BY <2>9 DEF OpenNextEndpoint
    <2>10. CASE OpenGood
        BY <2>10 DEF OpenGood, OpenReturn
    <2>11. CASE Discovering \/ UNCHANGED vars
        BY <2>11 DEF Discovering, saneVars, vars
    <2>12. QED
        BY <2>1, <2>2, <2>3, <2>4, <2>5, <2>6, <2>7, <2>8, <2>9, <2>10, <2>11 DEF Next
<1>3. QED
    BY <1>1, <1>2, PTL DEF Spec

-----------------------------------------------------------------------------

(* The lists in memory: the one behind the SANE list, and the one          *)
(* sane_open() goes through.                                               *)
ListsInv ==
    /\ lists = Allocated(kept) + (IF call = "try" /\ arg # ByUri THEN 1 ELSE 0)
    /\ call = "get" => kept = <<>>
    /\ call = "open" => arg # ByUri

(* A list released is one that was allocated.                              *)
LEMMA Releasing ==
    ASSUME ListsInv, call = "none", DevlistFree
    PROVE  kept' = <<>> /\ lists' = 0
BY DEF ListsInv, DevlistFree, Allocated

(* The lists in memory are accounted for during calls too.                 *)
THEOREM ListsInvariant == Spec => []ListsInv
<1>1. Init => ListsInv
    BY DEF Init, ListsInv, Allocated
<1>2. ListsInv /\ [Next]_vars => ListsInv'
    <2> SUFFICES ASSUME ListsInv, [Next]_vars
                 PROVE  ListsInv'
        OBVIOUS
    <2> USE DEF ListsInv
    <2>1. CASE SaneInit
        BY <2>1 DEF SaneInit, Allocated
    <2>2. CASE SaneExit
        BY <2>2, Releasing DEF SaneExit, Allocated
    <2>3. CASE GetDevices
        BY <2>3, Releasing DEF GetDevices, Allocated
    <2>4. CASE GetDone
        BY <2>4 DEF GetDone, Allocated
    <2>5. CASE GetFailed \/ GetNoMem
        BY <2>5 DEF GetFailed, GetNoMem, Allocated
    <2>6. CASE OpenDevice
        BY <2>6, DevicesAssumption DEF OpenDevice, Allocated
    <2>7. CASE OpenUri
        BY <2>7 DEF OpenUri, Allocated
    <2>8. CASE OpenFailed \/ OpenNoDevice
        BY <2>8 DEF OpenFailed, OpenNoDevice, OpenReturn, Allocated
    <2>9. CASE OpenFind
        BY <2>9 DEF OpenFind, Allocated
    <2>10. CASE OpenNextEndpoint
        BY <2>10 DEF OpenNextEndpoint, Allocated
    <2>11. CASE OpenGood \/ OpenGiveUp
        BY <2>11 DEF OpenGood, OpenGiveUp, OpenReturn, OpenRelease, Allocated
    <2>12. CASE SaneClose
        BY <2>12 DEF SaneClose, Allocated
    <2>13. CASE Discovering \/ UNCHANGED vars
        BY <2>13 DEF Discovering, saneVars, vars, Allocated
    <2>14. QED
        BY <2>1, <2>2, <2>3, <2>4, <2>5, <2>6, <2>7, <2>8, <2>9, <2>10, <2>11, <2>12, <2>13
        DEF Next
<1>3. QED
    BY <1>1, <1>2, PTL DEF Spec

(* Every way out of sane_get_devices() and sane_open() releases what it    *)
(* has allocated, and releases it once.                                    *)
THEOREM NoListIsLost == Spec => []ListsReleased
<1>1. ListsInv => ListsReleased
    BY DEF ListsInv, ListsReleased, Allocated
<1>2. QED
    BY <1>1, ListsInvariant, PTL

-----------------------------------------------------------------------------

(* Lists of things with a "uuid", no two of which have the same.  What else*)
(* a device holds does not matter.                                         *)
Distinct(l) ==
    /\ l \in Seq(ToSet(l))
    /\ \A i \in DOMAIN l : "uuid" \in DOMAIN l[i]
    /\ \A i, j \in DOMAIN l : l[i].uuid = l[j].uuid /\ i # j => l[i].uuid = NoUuid

(* A sequence is one of its own elements.                                  *)
LEMMA OwnElements ==
    ASSUME NEW S, NEW l \in Seq(S)
    PROVE  l \in Seq(ToSet(l))
BY DEF ToSet

(* A device put before the others, if none of them has its UUID.           *)
LEMMA Prepended ==
    ASSUME NEW l, Distinct(l), NEW d, "uuid" \in DOMAIN d,
           \A i \in DOMAIN l : l[i].uuid = d.uuid => d.uuid = NoUuid
    PROVE  Distinct(<<d>> \o l)
<1> DEFINE T == ToSet(l) \cup {d}
<1>1. l \in Seq(T) /\ <<d>> \in Seq(T)
    BY DEF Distinct
<1> HIDE DEF T
<1>2. /\ <<d>> \o l \in Seq(T)
      /\ DOMAIN (<<d>> \o l) = 1 .. Len(l) + 1
      /\ (<<d>> \o l)[1] = d
      /\ \A i \in 2 .. Len(l) + 1 : i - 1 \in DOMAIN l /\ (<<d>> \o l)[i] = l[i - 1]
    BY <1>1
<1>3. <<d>> \o l \in Seq(ToSet(<<d>> \o l))
    BY <1>2, OwnElements
<1>4. Len(l) \in Nat
    BY <1>1
<1>5. \A i \in 1 .. Len(l) + 1 : i = 1 \/ i \in 2 .. Len(l) + 1
    BY <1>4
<1>6. QED
    BY <1>2, <1>3, <1>4, <1>5 DEF Distinct

(* A device of the list changed, but not its UUID.                         *)
LEMMA Updated ==
    ASSUME NEW l, Distinct(l), NEW k \in DOMAIN l, NEW d,
           "uuid" \in DOMAIN d, d.uuid = l[k].uuid
    PROVE  Distinct([l EXCEPT ![k] = d])
<1> DEFINE m == [l EXCEPT ![k] = d]
<1>1. DOMAIN m = DOMAIN l /\ \A i \in DOMAIN l : m[i] = IF i = k THEN d ELSE l[i]
    OBVIOUS
<1>2. m \in Seq(ToSet(l) \cup {d})
    BY DEF Distinct
<1>3. m \in Seq(ToSet(m))
    BY <1>2, OwnElements
<1>4. \A i \in DOMAIN m : "uuid" \in DOMAIN m[i] /\ m[i].uuid = l[i].uuid
    BY <1>1 DEF Distinct
<1> HIDE DEF m
<1>5. QED
    BY <1>1, <1>3, <1>4 DEF Distinct, m

(* The list in any other order.                                            *)
LEMMA Rearranged ==
    ASSUME NEW l, Distinct(l), NEW p \in Injection(DOMAIN l, DOMAIN l)
    PROVE  Distinct([i \in DOMAIN l |-> l[p[i]]])
<1> DEFINE m == [i \in DOMAIN l |-> l[p[i]]]
<1>1. PICK n \in Nat : DOMAIN l = 1 .. n
    BY DEF Distinct
<1>2. p \in [DOMAIN l -> DOMAIN l]
    BY DEF Injection
<1>3. \A i, j \in DOMAIN l : i # j => p[i] # p[j]
    BY DEF Injection, IsInjective
<1>4. m \in Seq(ToSet(l))
    BY <1>1, <1>2 DEF Distinct
<1>5. m \in Seq(ToSet(m))
    BY <1>4, OwnElements
<1>6. QED
    BY <1>2, <1>3, <1>5 DEF Distinct

(* What folding a finding into a device leaves alone.                      *)
LEMMA FoldKeepsUuid ==
    ASSUME NEW d, NEW f, "uuid" \in DOMAIN d
    PROVE  "uuid" \in DOMAIN Fold(d, f) /\ Fold(d, f).uuid = d.uuid
BY DEF Fold

(* A device is new only if no other has its UUID.                          *)
LEMMA MergeKeepsDistinct ==
    ASSUME Distinct(list), NEW f
    PROVE  Distinct(DeviceMerge(f))
<1>1. CASE Matching(f) = {}
    <2> DEFINE d == Fold(DeviceNew(f), f)
    <2>1. "uuid" \in DOMAIN DeviceNew(f) /\ DeviceNew(f).uuid = KnownBy(f)
        BY DEF DeviceNew
    <2>2. "uuid" \in DOMAIN d /\ d.uuid = KnownBy(f)
        BY <2>1, FoldKeepsUuid
    <2>3. \A i \in DOMAIN list : list[i].uuid = d.uuid => d.uuid = NoUuid
        BY <1>1, <2>2 DEF Matching, DeviceMatch
    <2> HIDE DEF d
    <2>4. Distinct(<<d>> \o list)
        BY <2>2, <2>3, Prepended
    <2>5. QED
        BY <1>1, <2>4 DEF DeviceMerge, d
<1>2. CASE Matching(f) # {}
    <2> DEFINE k == CHOOSE i \in Matching(f) : \A j \in Matching(f) : i <= j
    <2>1. PICK i \in Matching(f) : TRUE
        BY <1>2
    <2>2. \A j \in Matching(f) : j = i /\ i <= j
        BY DEF Matching, DeviceMatch, Distinct
    <2>3. k \in Matching(f)
        BY <2>1, <2>2
    <2>4. k \in DOMAIN list /\ "uuid" \in DOMAIN list[k]
        BY <2>3 DEF Matching, Distinct
    <2>5. DeviceMerge(f) = [list EXCEPT ![k] = Fold(list[k], f)]
        BY <1>2 DEF DeviceMerge
    <2> HIDE DEF k
    <2>6. "uuid" \in DOMAIN Fold(list[k], f) /\ Fold(list[k], f).uuid = list[k].uuid
        BY <2>4, FoldKeepsUuid
    <2> DEFINE d == Fold(list[k], f)
    <2> HIDE DEF d
    <2>7. Distinct([list EXCEPT ![k] = d])
        BY <2>4, <2>6, Updated DEF d
    <2>8. QED
        BY <2>5, <2>7 DEF d
<1>3. QED
    BY <1>1, <1>2

(* The list stays one of devices with UUIDs of their own.                  *)
THEOREM DistinctInvariant == Spec => []Distinct(list)
<1>1. Init => Distinct(list)
    BY DEF Init, ZcInit, Distinct
<1>2. Distinct(<<>>) /\ Distinct(<<EnvDevice>>)
    BY ZeroconfAssumption DEF Distinct, Device, ToSet
<1>3. Distinct(list) /\ [Next]_vars => Distinct(list)'
    <2> SUFFICES ASSUME Distinct(list), [Next]_vars
                 PROVE  Distinct(list')
        BY DEF Distinct, ToSet
    <2>1. CASE ZcBegin
        BY <2>1, <1>2 DEF ZcBegin
    <2>2. CASE ZcEnd
        BY <2>2, <1>2 DEF ZcEnd
    <2>3. CASE ZcMerge
        BY <2>3, MergeKeepsDistinct DEF ZcMerge
    <2>4. CASE ZcSort
        BY <2>4, Rearranged DEF ZcSort, Sorted
    <2>5. CASE ZcDedup
        <3>1. PICK d \in EndpointListSortDedup(list[turn]) : list' = [list EXCEPT ![turn] = d]
            BY <2>5 DEF ZcDedup
        <3>2. turn \in DOMAIN list /\ "uuid" \in DOMAIN list[turn]
            BY <2>5 DEF ZcDedup, Distinct
        <3>3. "uuid" \in DOMAIN d /\ d.uuid = list[turn].uuid
            BY <3>1, <3>2 DEF EndpointListSortDedup
        <3>4. QED
            BY <3>1, <3>2, <3>3, Updated
    <2>6. CASE ZcReturn \/ UNCHANGED zcVars
        BY <2>6 DEF ZcReturn, zcVars
    <2>7. ZcBegin \/ ZcEnd \/ ZcStep \/ UNCHANGED zcVars
        BY DEF Next, vars, SaneInit, SaneExit, GetDevices, GetFailed, GetDone, GetNoMem,
               OpenDevice, OpenUri, OpenFailed, OpenNoDevice, OpenFind, OpenNextEndpoint,
               OpenGood, OpenGiveUp, SaneClose, Discovering
    <2>8. QED
        BY <2>1, <2>2, <2>3, <2>4, <2>5, <2>6, <2>7 DEF ZcStep
<1>4. QED
    BY <1>1, <1>3, PTL DEF Spec

(* However often and in whatever spelling its UUID is reported, a device   *)
(* is in the list once.                                                    *)
THEOREM DevicesAreMerged == Spec => []OneDevicePerUuid
<1>1. Distinct(list) => OneDevicePerUuid
    BY DEF Distinct, OneDevicePerUuid
<1>2. QED
    BY <1>1, DistinctInvariant, PTL

-----------------------------------------------------------------------------

(* What sane_open() will return tells what the endpoints have come to so   *)
(* far.  A URI is the only endpoint there is to try.                       *)
SaidInv ==
    /\ call # "try" => said = {}
    /\ call = "open" => ret = "IO_ERROR"
    /\ call = "try" => (ret = "UNSUPPORTED" <=> "UNSUPPORTED" \in said)
    /\ call = "try" /\ arg = ByUri => left = <<>> \/ (left = <<ByUri>> /\ said = {})

(* sane_open() knows at each point what its endpoints have come to.        *)
THEOREM SaidInvariant == Spec => []SaidInv
<1>1. Init => SaidInv
    BY DEF Init, SaidInv
<1>2. SaidInv /\ ListsInv /\ [Next]_vars => SaidInv'
    <2> SUFFICES ASSUME SaidInv, ListsInv, [Next]_vars
                 PROVE  SaidInv'
        OBVIOUS
    <2> USE DEF SaidInv
    <2>1. CASE SaneInit
        BY <2>1 DEF SaneInit
    <2>2. CASE SaneExit
        BY <2>2 DEF SaneExit
    <2>3. CASE GetDevices
        BY <2>3 DEF GetDevices
    <2>4. CASE GetFailed \/ GetDone \/ GetNoMem
        BY <2>4 DEF GetFailed, GetDone, GetNoMem
    <2>5. CASE OpenDevice
        BY <2>5 DEF OpenDevice
    <2>6. CASE OpenUri
        BY <2>6 DEF OpenUri
    <2>7. CASE OpenFailed \/ OpenNoDevice \/ OpenGiveUp \/ OpenGood
        BY <2>7 DEF OpenFailed, OpenNoDevice, OpenGiveUp, OpenGood, OpenReturn
    <2>8. CASE OpenFind
        BY <2>8 DEF OpenFind, ListsInv
    <2>9. CASE OpenNextEndpoint
        <3>1. PICK s \in Outcome \ {"GOOD"} :
                  /\ said' = said \cup {s}
                  /\ ret' = IF s = "UNSUPPORTED" \/ arg = ByUri THEN s ELSE ret
            BY <2>9 DEF OpenNextEndpoint
        <3>2. call = "try" /\ call' = "try" /\ arg' = arg
            BY <2>9 DEF OpenNextEndpoint
        <3>3. arg = ByUri => said = {} /\ left' = <<>>
            <4>1. arg = ByUri => left = <<ByUri>> /\ said = {} /\ left' = Tail(left)
                BY <2>9 DEF OpenNextEndpoint
            <4>2. Tail(<<ByUri>>) = <<>>
                BY EmptySeq, HeadTailProperties, <<ByUri>> \in Seq({ByUri}), Len(<<ByUri>>) = 1
            <4>3. QED
                BY <4>1, <4>2
        <3>4. (ret' = "UNSUPPORTED" <=> "UNSUPPORTED" \in said')
            <4>1. ret = "UNSUPPORTED" <=> "UNSUPPORTED" \in said
                BY <3>2
            <4>2. CASE s = "UNSUPPORTED"
                BY <3>1, <4>2
            <4>3. CASE s # "UNSUPPORTED" /\ arg = ByUri
                BY <3>1, <3>3, <4>3
            <4>4. CASE s # "UNSUPPORTED" /\ arg # ByUri
                BY <3>1, <4>1, <4>4
            <4>5. QED
                BY <4>2, <4>3, <4>4
        <3>5. QED
            BY <3>2, <3>3, <3>4
    <2>10. CASE SaneClose
        BY <2>10 DEF SaneClose
    <2>11. CASE Discovering \/ UNCHANGED vars
        BY <2>11 DEF Discovering, saneVars, vars
    <2>12. QED
        BY <2>1, <2>2, <2>3, <2>4, <2>5, <2>6, <2>7, <2>8, <2>9, <2>10, <2>11 DEF Next
<1>3. QED
    BY <1>1, <1>2, ListsInvariant, PTL DEF Spec

(* sane-ipp.c, 405-408: sane_open() tries every endpoint before it gives   *)
(* up, and reports a device that does not scan exactly when one has said   *)
(* so, whatever order the endpoints fail in.                               *)
THEOREM FailuresSayWhy == Spec => FailureSaysWhy
<1> DEFINE Step == call = "try" /\ call' = "none" /\ ret' # "GOOD" =>
                       left = <<>> /\ (ret' = "UNSUPPORTED" <=> "UNSUPPORTED" \in said)
<1>1. SaidInv /\ [Next]_vars => [Step]_vars
    <2> SUFFICES ASSUME SaidInv, Next, call = "try", call' = "none", ret' # "GOOD"
                 PROVE  left = <<>> /\ (ret' = "UNSUPPORTED" <=> "UNSUPPORTED" \in said)
        OBVIOUS
    <2>1. OpenGiveUp
        BY DEF Next, SaneInit, SaneExit, GetDevices, GetFailed, GetDone, GetNoMem, OpenDevice,
               OpenUri, OpenFailed, OpenNoDevice, OpenFind, OpenNextEndpoint, OpenGood,
               SaneClose, Discovering, saneVars
    <2>2. QED
        BY <2>1 DEF OpenGiveUp, SaidInv
<1>2. QED
    BY <1>1, SaidInvariant, PTL DEF Spec, FailureSaysWhy

-----------------------------------------------------------------------------
(* The SANE list                                                           *)

(* The loop over the devices, turn by turn.                                *)
LEMMA UsableLoop ==
    ASSUME NEW l, Len(l) \in Nat
    PROVE  /\ UsableOf(l)[0] = <<>>
           /\ \A i \in 1 .. Len(l) : UsableOf(l)[i] =
                IF Usable(l[i]) THEN Append(UsableOf(l)[i - 1], i) ELSE UsableOf(l)[i - 1]
<1> DEFINE n == Len(l)
           S == Seq(Nat)
           Turn(d, i) == IF Usable(l[i]) THEN Append(d, i) ELSE d
           g == [i \in 1 .. n |-> [d \in S |-> Turn(d, i)]]
           F(b) == b = [i \in 0 .. n |-> IF i = 0 THEN <<>> ELSE Turn(b[i - 1], i)]
<1>1. n \in Nat /\ <<>> \in S
    OBVIOUS
<1>2. \A i \in 1 .. n, d \in S : Turn(d, i) \in S
    OBVIOUS
<1> HIDE DEF S, n
<1>3. /\ g \in [1 .. n -> [S -> S]]
      /\ \A i \in 1 .. n, d \in S : g[i][d] = Turn(d, i)
    <2> HIDE DEF Turn
    <2> QED
        BY <1>2
<1> HIDE DEF g
<1>4. PICK f \in Loops(S, <<>>, n, g) : TRUE
    BY <1>1, <1>3, LoopsCompute
<1>5. f \in [0 .. n -> S] /\ f[0] = <<>>
    BY DEF Loops
<1>6. \A i \in 1 .. n : f[i] = Turn(f[i - 1], i)
    <2> SUFFICES ASSUME NEW i \in 1 .. n
                 PROVE  f[i] = Turn(f[i - 1], i)
        OBVIOUS
    <2>1. i - 1 \in 0 .. n /\ f[i - 1] \in S
        BY <1>1, <1>5
    <2> HIDE DEF Turn
    <2> QED
        BY <1>3, <2>1 DEF Loops
<1> DEFINE B == CHOOSE b : F(b)
<1>7. UsableOf(l) = B
    BY DEF UsableOf, n
<1> HIDE DEF Turn
<1>8. F(f)
    BY <1>1, <1>5, <1>6
<1>9. F(B)
    BY <1>8
<1> HIDE DEF B
<1>10. B[0] = <<>> /\ \A i \in 1 .. n : B[i] = Turn(B[i - 1], i)
    BY <1>1, <1>9
<1> QED
    BY <1>7, <1>10 DEF n, Turn

(* It comes to places in the list, of usable devices.                      *)
LEMMA UsableBuilt ==
    ASSUME NEW T, NEW l \in Seq(T)
    PROVE  /\ DevlistBuild(l) \in Seq(Nat)
           /\ \A k \in DOMAIN DevlistBuild(l) :
                DevlistBuild(l)[k] \in DOMAIN l /\ Usable(l[DevlistBuild(l)[k]])
<1> DEFINE n == Len(l)
           U == UsableOf(l)
           W == {i \in DOMAIN l : Usable(l[i])}
           P == {i \in 0 .. n : U[i] \in Seq(W)}
<1>1. n \in Nat /\ DOMAIN l = 1 .. n
    OBVIOUS
<1>2. U[0] = <<>>
    BY <1>1, UsableLoop, Zenon
<1>3. \A i \in 1 .. n : U[i] = IF Usable(l[i]) THEN Append(U[i - 1], i) ELSE U[i - 1]
    BY <1>1, UsableLoop, Zenon
<1>4. \A i \in 1 .. n : Usable(l[i]) => i \in W
    BY <1>1
<1>5. W \subseteq Nat /\ \A i \in W : i \in DOMAIN l /\ Usable(l[i])
    BY <1>1
<1> HIDE DEF U, W
<1>6. 0 \in P
    <2>1. U[0] \in Seq(W)
        BY <1>2, EmptySeq
    <2> QED
        BY <1>1, <2>1
<1>7. \A i \in 1 .. n : i - 1 \in P => i \in P
    <2> SUFFICES ASSUME NEW i \in 1 .. n, U[i - 1] \in Seq(W)
                 PROVE  U[i] \in Seq(W)
        BY <1>1
    <2>1. CASE Usable(l[i])
        <3>1. U[i] = Append(U[i - 1], i) /\ i \in W
            BY <1>3, <1>4, <2>1
        <3> QED
            BY <3>1, AppendProperties
    <2>2. CASE ~Usable(l[i])
        BY <1>3, <2>2
    <2> QED
        BY <2>1, <2>2
<1> HIDE DEF P
<1>8. n \in P
    <2>1. \A i \in 0 .. n : i \in P
        BY <1>1, <1>6, <1>7, InductionUpTo
    <2> QED
        BY <1>1, <2>1
<1>9. U[n] \in Seq(W)
    BY <1>8 DEF P
<1>10. DevlistBuild(l) = U[n]
    BY DEF DevlistBuild, U
<1> HIDE DEF n
<1>11. U[n] \in Seq(Nat) /\ \A k \in DOMAIN U[n] : U[n][k] \in W
    <2> DEFINE u == U[n]
    <2>1. u \in Seq(W)
        BY <1>9
    <2> HIDE DEF u
    <2>2. u \in Seq(Nat)
        BY <1>5, <2>1, SeqMonotonic
    <2>3. \A k \in DOMAIN u : u[k] \in W
        BY <2>1, ElementOfSeq, LenProperties
    <2> QED
        BY <2>2, <2>3 DEF u
<1> QED
    BY <1>5, <1>10, <1>11

-----------------------------------------------------------------------------
(* A discovery                                                             *)

(* All that happens to the variables of a discovery.                       *)
LEMMA ZcSteps ==
    [Next]_vars => \/ ZcBegin \/ ZcStep \/ UNCHANGED zcVars
                   \/ zc \in {"ready", "failed"} /\ ZcEnd
BY DEF Next, vars, SaneInit, SaneExit, GetDevices, GetFailed, GetDone, GetNoMem,
       OpenDevice, OpenUri, OpenFailed, OpenNoDevice, OpenFind, OpenNextEndpoint,
       OpenGood, OpenGiveUp, SaneClose, Discovering

(* What is found is some of the findings, each once.                       *)
FoundOnce ==
    /\ found \in Seq(Finding) /\ ToSet(found) \subseteq heard /\ heard \subseteq Finding
    /\ \A i, j \in DOMAIN found : i # j => found[i] # found[j]

(* There is a list, and what it was made of, only while it is assembled    *)
(* and taken.                                                              *)
CallInv ==
    /\ zc \in {"idle", "merge", "dedup", "ready", "failed"}
    /\ ifaces \in {Ifaces, {}} /\ turn \in Nat
    /\ FoundOnce
    /\ zc # "merge" => found = <<>>
    /\ zc \in {"idle", "failed"} => list = <<>> /\ heard = {}

(* ipp_mdns_discover() returns no finding twice.                           *)
LEMMA FoundInAnyOrder ==
    ASSUME NEW s \in SetToAllKPermutations(Finding)
    PROVE  s \in Seq(Finding) /\ \A i, j \in DOMAIN s : i # j => s[i] # s[j]
<1>1. PICK T \in SUBSET Finding : s \in SetToSeqs(T)
    BY DEF SetToAllKPermutations
<1>2. Cardinality(T) \in Nat
    BY ZeroconfAssumption, FS_Subset, FS_CardinalityType DEF ZeroconfAssumption
<1>3. s \in [1 .. Cardinality(T) -> T] /\ \A i, j \in 1 .. Cardinality(T) : i # j => s[i] # s[j]
    BY <1>1 DEF SetToSeqs
<1> QED
    BY <1>2, <1>3

(* The first of the findings is not among the others.                      *)
LEMMA HeadOfFound ==
    ASSUME FoundOnce, found # <<>>
    PROVE  /\ Head(found) \in heard /\ Head(found) \in Finding
           /\ Tail(found) \in Seq(Finding)
           /\ ToSet(found) = ToSet(Tail(found)) \cup {Head(found)}
           /\ Head(found) \notin ToSet(Tail(found))
           /\ \A i, j \in DOMAIN Tail(found) : i # j => Tail(found)[i] # Tail(found)[j]
<1> DEFINE t == Tail(found)
           n == Len(found)
<1>1. /\ found \in Seq(Finding) /\ ToSet(found) \subseteq heard
      /\ \A i, j \in DOMAIN found : i # j => found[i] # found[j]
    BY DEF FoundOnce
<1>2. n \in Nat /\ n >= 1 /\ DOMAIN found = 1 .. n
    BY <1>1, EmptySeq
<1>3. t \in Seq(Finding) /\ DOMAIN t = 1 .. n - 1 /\ \A i \in 1 .. n - 1 : t[i] = found[i + 1]
    BY <1>1, HeadTailProperties
<1>4. Head(found) = found[1] /\ found[1] \in Finding
    BY <1>1, <1>2
<1> HIDE DEF t, n
<1>5. \A x : x \in ToSet(found) <=> \E i \in 1 .. n : x = found[i]
    BY <1>2 DEF ToSet
<1>6. \A x : x \in ToSet(t) <=> \E i \in 1 .. n - 1 : x = found[i + 1]
    BY <1>3 DEF ToSet
<1>7. \A i \in 1 .. n : i = 1 \/ (i - 1 \in 1 .. n - 1 /\ (i - 1) + 1 = i)
    BY <1>2
<1>8. \A i \in 1 .. n - 1 : i + 1 \in 1 .. n /\ i + 1 # 1
    BY <1>2
<1>9. 1 \in 1 .. n
    BY <1>2
<1>10. ToSet(found) = ToSet(t) \cup {found[1]}
    <2>1. ASSUME NEW x \in ToSet(found) PROVE x \in ToSet(t) \cup {found[1]}
        BY <1>5, <1>6, <1>7, <2>1
    <2>2. ASSUME NEW x \in ToSet(t) \cup {found[1]} PROVE x \in ToSet(found)
        BY <1>5, <1>6, <1>8, <1>9, <2>2
    <2> QED
        BY <2>1, <2>2
<1>11. found[1] \notin ToSet(t)
    BY <1>1, <1>2, <1>6, <1>8, <1>9
<1>12. \A i, j \in DOMAIN t : i # j => t[i] # t[j]
    <2> SUFFICES ASSUME NEW i \in 1 .. n - 1, NEW j \in 1 .. n - 1, i # j
                 PROVE  found[i + 1] # found[j + 1]
        BY <1>3
    <2>1. i + 1 # j + 1
        BY <1>2
    <2> QED
        BY <1>1, <1>2, <1>8, <2>1
<1> QED
    BY <1>1, <1>3, <1>4, <1>10, <1>11, <1>12 DEF t

(* Every step of every call keeps this.                                    *)
LEMMA CallInvStep == CallInv /\ [Next]_vars => CallInv'
<1> SUFFICES ASSUME CallInv, [Next]_vars
             PROVE  CallInv'
    OBVIOUS
<1>0. zc \in {"idle", "merge", "dedup", "ready", "failed"} /\ FoundOnce
    BY DEF CallInv
<1>1. CASE ZcBegin
    <2>1. CASE zc' = "ready" /\ UNCHANGED <<found, ifaces, turn, heard>>
        BY <1>1, <2>1 DEF ZcBegin, CallInv, FoundOnce
    <2>2. CASE zc' = "failed" /\ UNCHANGED <<found, ifaces, list, turn, heard>>
        BY <1>1, <2>2 DEF ZcBegin, CallInv, FoundOnce
    <2>3. CASE /\ zc' = "merge"
               /\ found' \in SetToAllKPermutations(Finding) /\ heard' = ToSet(found')
               /\ ifaces' \in {Ifaces, {}} /\ UNCHANGED <<list, turn>>
        <3>1. /\ found' \in Seq(Finding)
              /\ \A i, j \in DOMAIN found' : i # j => found'[i] # found'[j]
            BY <2>3, FoundInAnyOrder
        <3>2. heard' \subseteq Finding
            BY <2>3, <3>1 DEF ToSet
        <3> QED
            BY <2>3, <3>1, <3>2 DEF CallInv, FoundOnce
    <2> QED
        BY <1>1, <2>1, <2>2, <2>3 DEF ZcBegin
<1>2. CASE zc \in {"ready", "failed"} /\ ZcEnd
    <2>1. found = <<>> /\ found' = <<>>
        BY <1>2 DEF ZcEnd, CallInv
    <2> QED
        BY <1>2, <2>1 DEF ZcEnd, CallInv, FoundOnce, ToSet
<1>3. CASE ZcMerge
    <2>1. found # <<>> /\ found' = Tail(found) /\ UNCHANGED <<zc, ifaces, turn, heard>>
          /\ zc = "merge"
        BY <1>3 DEF ZcMerge
    <2>2. FoundOnce'
        BY <1>0, <2>1, HeadOfFound DEF FoundOnce
    <2> QED
        BY <2>1, <2>2 DEF CallInv
<1>4. CASE ZcSort \/ ZcDedup \/ ZcReturn \/ UNCHANGED zcVars
    BY <1>4 DEF ZcSort, ZcDedup, ZcReturn, zcVars, CallInv, FoundOnce
<1> QED
    BY <1>1, <1>2, <1>3, <1>4, ZcSteps DEF ZcStep

-----------------------------------------------------------------------------
(* The type of every variable                                              *)

(* The variables of the calls.                                             *)
SaneType ==
    /\ initialized \in BOOLEAN /\ call \in {"none", "get", "open", "try"}
    /\ slot \in Slot \cup {NoSlot} /\ arg \in OpenName \cup {AnyName, ByUri}
    /\ call \in {"open", "try"} => slot \in Slot
    /\ handles \subseteq Slot /\ traced \subseteq Slot /\ trace \in Slot \cup {NoSlot}
    /\ ret \in Outcome \cup {"INVAL"} /\ said \subseteq Outcome

(* Every step keeps the variables of the calls in range.                   *)
LEMMA SaneTypeStep == SaneType /\ [Next]_vars => SaneType'
<1> SUFFICES ASSUME SaneType, [Next]_vars
             PROVE  SaneType'
    OBVIOUS
<1> USE DEF SaneType
<1>1. CASE SaneInit
    BY <1>1 DEF SaneInit
<1>2. CASE SaneExit
    BY <1>2 DEF SaneExit
<1>3. CASE GetDevices
    BY <1>3 DEF GetDevices, Outcome
<1>4. CASE GetFailed \/ GetDone \/ GetNoMem
    BY <1>4 DEF GetFailed, GetDone, GetNoMem, Outcome
<1>5. CASE OpenDevice
    BY <1>5 DEF OpenDevice, TraceOpen, Outcome
<1>6. CASE OpenUri
    BY <1>6 DEF OpenUri, TraceOpen, Outcome
<1>7. CASE OpenFailed \/ OpenNoDevice \/ OpenGiveUp
    BY <1>7 DEF OpenFailed, OpenNoDevice, OpenGiveUp, OpenReturn, TraceClose
<1>8. CASE OpenFind
    BY <1>8 DEF OpenFind
<1>9. CASE OpenNextEndpoint
    BY <1>9 DEF OpenNextEndpoint, Outcome
<1>10. CASE OpenGood
    BY <1>10 DEF OpenGood, OpenReturn, Outcome
<1>11. CASE SaneClose
    BY <1>11 DEF SaneClose, TraceClose
<1>12. CASE Discovering \/ UNCHANGED vars
    BY <1>12 DEF Discovering, saneVars, vars
<1> QED
    BY <1>1, <1>2, <1>3, <1>4, <1>5, <1>6, <1>7, <1>8, <1>9, <1>10, <1>11, <1>12 DEF Next

(* What is done to the device list keeps it one of devices.                *)
LEMMA EndpointsOfFinding ==
    ASSUME NEW f \in Finding
    PROVE  /\ Endpoints(f) \in Seq(Endpoint)
           /\ ToSet(Endpoints(f)) = {EndpointNew(f, a) : a \in ToSet(f.addrs)}
<1> DEFINE n == Len(f.addrs)
           s == [i \in DOMAIN f.addrs |-> EndpointNew(f, f.addrs[i])]
           r == Endpoints(f)
<1>1. /\ f.addrs \in Seq(Addr) /\ f.tls \in BOOLEAN /\ f.rs \in Nat /\ f.rp \in Text
    BY ZeroconfAssumption DEF ZeroconfAssumption, FindingType
<1>2. n \in Nat /\ DOMAIN f.addrs = 1 .. n /\ \A i \in 1 .. n : f.addrs[i] \in Addr
    BY <1>1
<1>3. \A a \in Addr : EndpointNew(f, a) \in Endpoint
    <2> SUFFICES ASSUME NEW a \in Addr
                 PROVE  EndpointNew(f, a) \in Endpoint
        OBVIOUS
    <2>1. Parsed[a].inet6 \in BOOLEAN
        BY ZeroconfAssumption DEF ZeroconfAssumption
    <2>2. (Parsed[a].net = LinkLocal) \in BOOLEAN
        OBVIOUS
    <2>3. Distance(Parsed[a]) \in 0 .. 2
        BY DEF Distance
    <2>4. (IF f.rs # NULL THEN f.rs ELSE f.rp) \in Text
        BY <1>1 DEF Text, NULL
    <2> QED
        BY <1>1, <2>1, <2>2, <2>3, <2>4 DEF EndpointNew, Endpoint
<1>4. s \in [1 .. n -> Endpoint] /\ Len(s) = n
    BY <1>2, <1>3
<1>5. r = [i \in 1 .. n |-> s[(n - i) + 1]]
    BY <1>4 DEF Endpoints, Reverse
<1>6. \A i \in 1 .. n : (n - i) + 1 \in 1 .. n /\ (n - ((n - i) + 1)) + 1 = i
    BY <1>2
<1>7. \A i \in 1 .. n : s[i] = EndpointNew(f, f.addrs[i])
    BY <1>2
<1> HIDE DEF n, s, r
<1>8. r \in [1 .. n -> Endpoint]
    BY <1>4, <1>5, <1>6
<1>9. r \in Seq(Endpoint)
    BY <1>2, <1>8
<1>10. \A e : e \in ToSet(r) <=> \E i \in 1 .. n : e = EndpointNew(f, f.addrs[i])
    <2>1. \A e : e \in ToSet(r) <=> \E i \in 1 .. n : e = r[i]
        BY <1>8 DEF ToSet
    <2>2. \A i \in 1 .. n : r[i] = EndpointNew(f, f.addrs[(n - i) + 1])
        BY <1>5, <1>6, <1>7
    <2>3. \A i \in 1 .. n : r[(n - i) + 1] = EndpointNew(f, f.addrs[i])
        BY <1>6, <2>2
    <2> QED
        BY <1>6, <2>1, <2>2, <2>3
<1>11. \A a : a \in ToSet(f.addrs) <=> \E i \in 1 .. n : a = f.addrs[i]
    BY <1>2 DEF ToSet
<1> QED
    BY <1>9, <1>10, <1>11 DEF r

(* A device with one finding more: what is changed and what is not.        *)
LEMMA FoldIs ==
    ASSUME NEW d \in Device, NEW f \in Finding
    PROVE  /\ Fold(d, f) \in Device
           /\ Fold(d, f).uuid = d.uuid /\ Fold(d, f).name = d.name
           /\ Fold(d, f).model = (IF d.model = NULL THEN f.model ELSE d.model)
           /\ Fold(d, f).scan <=> d.scan \/ f.rs # NULL
           /\ ToSet(Fold(d, f).endpoints) = ToSet(Endpoints(f)) \cup ToSet(d.endpoints)
<1> DEFINE E == Endpoints(f) \o d.endpoints
           m == IF d.model = NULL THEN f.model ELSE d.model
           b == d.scan \/ f.rs # NULL
<1>1. /\ d = [name |-> d.name, uuid |-> d.uuid, model |-> d.model, scan |-> d.scan,
              endpoints |-> d.endpoints]
      /\ d.name \in Text /\ d.uuid \in Uuid /\ d.model \in Nat /\ d.endpoints \in Seq(Endpoint)
    BY DEF Device
<1>2. Endpoints(f) \in Seq(Endpoint) /\ f.model \in Nat
    BY EndpointsOfFinding, ZeroconfAssumption DEF ZeroconfAssumption, FindingType
<1>3. /\ E \in Seq(Endpoint) /\ Len(E) = Len(Endpoints(f)) + Len(d.endpoints)
      /\ \A i \in 1 .. Len(E) : E[i] = IF i <= Len(Endpoints(f)) THEN Endpoints(f)[i]
                                      ELSE d.endpoints[i - Len(Endpoints(f))]
    BY <1>1, <1>2, ConcatProperties
<1>4. ToSet(E) = ToSet(Endpoints(f)) \cup ToSet(d.endpoints)
    <2> DEFINE s == Endpoints(f)
               t == d.endpoints
    <2>1. /\ Len(s) \in Nat /\ DOMAIN s = 1 .. Len(s)
          /\ Len(t) \in Nat /\ DOMAIN t = 1 .. Len(t)
          /\ Len(E) = Len(s) + Len(t) /\ DOMAIN E = 1 .. Len(E)
        BY <1>1, <1>2, <1>3
    <2>2. \A i \in 1 .. Len(E) : E[i] = IF i <= Len(s) THEN s[i] ELSE t[i - Len(s)]
        BY <1>3
    <2> HIDE DEF s, t, E
    <2>3. \A x : x \in ToSet(E) => x \in ToSet(s) \cup ToSet(t)
        <3> SUFFICES ASSUME NEW i \in 1 .. Len(E)
                     PROVE  E[i] \in ToSet(s) \cup ToSet(t)
            BY <2>1 DEF ToSet
        <3>1. CASE i <= Len(s)
            <4>1. i \in DOMAIN s /\ E[i] = s[i]
                BY <2>1, <2>2, <3>1
            <4> QED
                BY <4>1 DEF ToSet
        <3>2. CASE ~(i <= Len(s))
            <4>1. i - Len(s) \in DOMAIN t /\ E[i] = t[i - Len(s)]
                BY <2>1, <2>2, <3>2
            <4> QED
                BY <4>1 DEF ToSet
        <3> QED
            BY <3>1, <3>2
    <2>4. \A i \in DOMAIN s : s[i] \in ToSet(E)
        <3> SUFFICES ASSUME NEW i \in DOMAIN s
                     PROVE  s[i] \in ToSet(E)
            OBVIOUS
        <3>1. i \in DOMAIN E /\ E[i] = s[i]
            BY <2>1, <2>2
        <3> QED
            BY <3>1 DEF ToSet
    <2>5. \A i \in DOMAIN t : t[i] \in ToSet(E)
        <3> SUFFICES ASSUME NEW i \in DOMAIN t
                     PROVE  t[i] \in ToSet(E)
            OBVIOUS
        <3>1. i + Len(s) \in DOMAIN E /\ E[i + Len(s)] = t[(i + Len(s)) - Len(s)]
            BY <2>1, <2>2
        <3>2. (i + Len(s)) - Len(s) = i
            BY <2>1
        <3>3. E[i + Len(s)] = t[i]
            BY <3>1, <3>2
        <3> QED
            BY <3>1, <3>3 DEF ToSet
    <2>6. ToSet(s) \subseteq ToSet(E) /\ ToSet(t) \subseteq ToSet(E)
        BY <2>4, <2>5 DEF ToSet
    <2> QED
        BY <2>3, <2>6 DEF s, t
<1>5. b \in BOOLEAN /\ (b <=> d.scan \/ f.rs # NULL)
    OBVIOUS
<1>6. m \in Nat
    BY <1>1, <1>2
<1>7. Fold(d, f) = [d EXCEPT !.model = m, !.scan = b, !.endpoints = E]
    BY DEF Fold
<1> HIDE DEF E, m, b
<1>8. Fold(d, f) = [name |-> d.name, uuid |-> d.uuid, model |-> m, scan |-> b, endpoints |-> E]
    BY <1>1, <1>7
<1>9. Fold(d, f) \in Device
    BY <1>1, <1>3, <1>5, <1>6, <1>8 DEF Device
<1>10. /\ Fold(d, f).uuid = d.uuid /\ Fold(d, f).name = d.name
       /\ Fold(d, f).model = m /\ Fold(d, f).endpoints = E
    BY <1>8
<1>11. Fold(d, f).scan <=> d.scan \/ f.rs # NULL
    <2>1. Fold(d, f).scan = b
        BY <1>8
    <2> QED
        BY <1>5, <2>1
<1> QED
    BY <1>4, <1>9, <1>10, <1>11 DEF m

(* A finding is known by a UUID or by none, and makes a device.            *)
LEMMA UuidOfFinding ==
    ASSUME NEW f \in Finding
    PROVE  KnownBy(f) \in Uuid /\ DeviceNew(f) \in Device
<1>1. f.name \in Text /\ f.uuid \in Uuid /\ f.model \in Nat
    BY ZeroconfAssumption DEF ZeroconfAssumption, FindingType
<1>2. UuidNormalize(f.uuid) \in Uuid
    <2>1. CASE f.uuid = NoUuid
        BY <1>1, <2>1 DEF UuidNormalize, NoUuid, Uuid
    <2>2. CASE f.uuid # NoUuid
        BY <1>1, <2>2 DEF UuidNormalize, Uuid
    <2> QED
        BY <2>1, <2>2
<1>3. KnownBy(f) \in Uuid
    BY <1>1, <1>2 DEF KnownBy
<1>4. <<>> \in Seq(Endpoint)
    BY EmptySeq
<1> QED
    BY <1>1, <1>3, <1>4 DEF DeviceNew, Device

(* A finding goes to the device with its UUID, or to a new one.            *)
LEMMA MergeIs ==
    ASSUME list \in Seq(Device), Distinct(list), NEW f \in Finding
    PROVE  \/ /\ Matching(f) = {}
              /\ DeviceMerge(f) = <<Fold(DeviceNew(f), f)>> \o list
           \/ \E k \in DOMAIN list :
                /\ Matching(f) = {k}
                /\ DeviceMerge(f) = [list EXCEPT ![k] = Fold(list[k], f)]
<1>1. CASE Matching(f) = {}
    BY <1>1 DEF DeviceMerge
<1>2. CASE Matching(f) # {}
    <2> DEFINE k == CHOOSE i \in Matching(f) : \A j \in Matching(f) : i <= j
    <2>1. PICK i \in Matching(f) : TRUE
        BY <1>2
    <2>2. \A j \in Matching(f) : j = i /\ i <= j
        BY DEF Matching, DeviceMatch, Distinct
    <2>3. k = i /\ Matching(f) = {k} /\ k \in DOMAIN list
        BY <2>1, <2>2 DEF Matching
    <2>4. DeviceMerge(f) = [list EXCEPT ![k] = Fold(list[k], f)]
        BY <1>2 DEF DeviceMerge
    <2> HIDE DEF k
    <2> QED
        BY <2>3, <2>4
<1> QED
    BY <1>1, <1>2

(* A permutation of a sequence has the same elements.                      *)
LEMMA PermutedIs ==
    ASSUME NEW T, NEW s \in Seq(T), NEW p \in Injection(DOMAIN s, DOMAIN s)
    PROVE  /\ p \in [DOMAIN s -> DOMAIN s]
           /\ \A i, j \in DOMAIN s : i # j => p[i] # p[j]
           /\ \A j \in DOMAIN s : \E i \in DOMAIN s : p[i] = j
           /\ [i \in DOMAIN s |-> s[p[i]]] \in Seq(T)
           /\ ToSet([i \in DOMAIN s |-> s[p[i]]]) = ToSet(s)
<1> DEFINE n == Len(s)
           t == [i \in DOMAIN s |-> s[p[i]]]
<1>1. n \in Nat /\ DOMAIN s = 1 .. n
    OBVIOUS
<1>2. p \in [DOMAIN s -> DOMAIN s] /\ \A i, j \in DOMAIN s : i # j => p[i] # p[j]
    BY DEF Injection, IsInjective
<1>3. p \in Surjection(DOMAIN s, DOMAIN s)
    <2>1. IsFiniteSet(DOMAIN s)
        BY <1>1, FS_Interval
    <2> QED
        BY <2>1, FS_Injection
<1>4. \A j \in DOMAIN s : \E i \in DOMAIN s : p[i] = j
    BY <1>3 DEF Surjection
<1>5. t \in Seq(T)
    BY <1>1, <1>2
<1>6. ToSet(t) = ToSet(s)
    BY <1>2, <1>4 DEF ToSet
<1> QED
    BY <1>2, <1>4, <1>5, <1>6

(* The loop over the endpoints, turn by turn.                              *)
LEMMA KeptLoop ==
    ASSUME NEW T, NEW s \in Seq(T)
    PROVE  /\ KeptOf(s)[0] = <<>>
           /\ \A i \in 1 .. Len(s) : KeptOf(s)[i] = Keep(KeptOf(s)[i - 1], s[i])
           /\ \A i \in 0 .. Len(s) : KeptOf(s)[i] \in Seq(T)
<1> DEFINE n == Len(s)
           S == Seq(T)
           g == [i \in 1 .. n |-> [d \in S |-> Keep(d, s[i])]]
           F(b) == b = [i \in 0 .. n |-> IF i = 0 THEN <<>> ELSE Keep(b[i - 1], s[i])]
<1>1. n \in Nat /\ <<>> \in S
    BY EmptySeq
<1>2. \A i \in 1 .. n, d \in S : Keep(d, s[i]) \in S
    BY ElementOfSeq, AppendProperties DEF Keep
<1> HIDE DEF S, n
<1>3. /\ g \in [1 .. n -> [S -> S]]
      /\ \A i \in 1 .. n, d \in S : g[i][d] = Keep(d, s[i])
    BY <1>2
<1> HIDE DEF g
<1>4. PICK f \in Loops(S, <<>>, n, g) : TRUE
    BY <1>1, <1>3, LoopsCompute
<1>5. f \in [0 .. n -> S] /\ f[0] = <<>>
    BY DEF Loops
<1>6. \A i \in 1 .. n : f[i] = Keep(f[i - 1], s[i])
    <2> SUFFICES ASSUME NEW i \in 1 .. n
                 PROVE  f[i] = Keep(f[i - 1], s[i])
        OBVIOUS
    <2>1. i - 1 \in 0 .. n /\ f[i - 1] \in S
        BY <1>1, <1>5
    <2> QED
        BY <1>3, <2>1 DEF Loops
<1> DEFINE B == CHOOSE b : F(b)
<1>7. KeptOf(s) = B
    BY DEF KeptOf, n
<1>8. F(f)
    BY <1>1, <1>5, <1>6
<1>9. F(B)
    BY <1>8
<1> HIDE DEF B
<1>10. B[0] = <<>> /\ \A i \in 1 .. n : B[i] = Keep(B[i - 1], s[i])
    BY <1>1, <1>9
<1>11. \A i \in 0 .. n : B[i] \in S
    <2> DEFINE P == {i \in 0 .. n : B[i] \in S}
    <2>1. 0 \in P
        BY <1>1, <1>10
    <2>2. \A i \in 1 .. n : i - 1 \in P => i \in P
        <3> SUFFICES ASSUME NEW i \in 1 .. n, B[i - 1] \in S
                     PROVE  B[i] \in S
            BY <1>1
        <3> QED
            BY <1>2, <1>10
    <2>3. \A i \in 0 .. n : i \in P
        <3> HIDE DEF P
        <3> QED
            BY <1>1, <2>1, <2>2, InductionUpTo
    <2> QED
        BY <2>3
<1> QED
    BY <1>7, <1>10, <1>11 DEF n, S

(* The endpoints sorted are the same ones, and none comes before one it    *)
(* should follow.                                                          *)
LEMMA SortedEndpoints ==
    ASSUME NEW l \in Seq(Endpoint), NEW s \in Sorted(l, EndpointKey)
    PROVE  /\ s \in Seq(Endpoint) /\ ToSet(s) = ToSet(l)
           /\ \A j \in DOMAIN s : \A i \in 1 .. j - 1 :
                ~Less(EndpointKey(s[j]), EndpointKey(s[i]))
<1>1. PICK p \in Injection(DOMAIN l, DOMAIN l) : s = [i \in DOMAIN l |-> l[p[i]]]
    BY DEF Sorted
<1>2. s \in Seq(Endpoint) /\ ToSet(s) = ToSet(l)
    <2> DEFINE t == [i \in DOMAIN l |-> l[p[i]]]
    <2>1. t \in Seq(Endpoint)
        BY PermutedIs
    <2>2. ToSet(t) = ToSet(l)
        BY PermutedIs
    <2>3. s = t
        BY <1>1
    <2> HIDE DEF t
    <2> QED
        BY <2>1, <2>2, <2>3
<1>3. \A j \in DOMAIN s : \A i \in 1 .. j - 1 : ~Less(EndpointKey(s[j]), EndpointKey(s[i]))
    BY DEF Sorted
<1> QED
    BY <1>2, <1>3

(* What is kept of endpoints are endpoints.                                *)
LEMMA DedupIsOfEndpoints ==
    ASSUME NEW s \in Seq(Endpoint)
    PROVE  Dedup(s) \in Seq(Endpoint)
<1>1. Len(s) \in Nat
    OBVIOUS
<1>2. \A i \in 0 .. Len(s) : KeptOf(s)[i] \in Seq(Endpoint)
    BY KeptLoop, Zenon
<1> QED
    BY <1>1, <1>2 DEF Dedup

(* Sorting the endpoints of a device leaves the rest of it alone.          *)
LEMMA SortDedupIs ==
    ASSUME NEW d \in Device, NEW c \in EndpointListSortDedup(d)
    PROVE  /\ c \in Device /\ c.name = d.name /\ c.uuid = d.uuid
           /\ c.model = d.model /\ c.scan = d.scan
           /\ \E s \in Sorted(d.endpoints, EndpointKey) : c.endpoints = Dedup(s)
<1>1. PICK s \in Sorted(d.endpoints, EndpointKey) : c = [d EXCEPT !.endpoints = Dedup(s)]
    BY DEF EndpointListSortDedup
<1>2. d.endpoints \in Seq(Endpoint)
    BY DEF Device
<1>3. s \in Seq(Endpoint)
    BY <1>2, SortedEndpoints
<1>4. Dedup(s) \in Seq(Endpoint)
    BY <1>3, DedupIsOfEndpoints
<1> DEFINE k == Dedup(s)
<1>5. k \in Seq(Endpoint) /\ c = [d EXCEPT !.endpoints = k]
    BY <1>1, <1>4
<1> HIDE DEF k
<1>6. /\ c \in Device /\ c.name = d.name /\ c.uuid = d.uuid
      /\ c.model = d.model /\ c.scan = d.scan /\ c.endpoints = k
    BY <1>5 DEF Device
<1> QED
    BY <1>6 DEF k

(* Every step leaves a list of devices.                                    *)
LEMMA DevicesStep ==
    ASSUME CallInv, Distinct(list), list \in Seq(Device), [Next]_vars
    PROVE  list' \in Seq(Device)
<1>1. CASE ZcBegin
    <2>1. EnvDevice \in Device
        BY ZeroconfAssumption DEF ZeroconfAssumption
    <2>2. <<EnvDevice>> \in Seq(Device)
        BY <2>1
    <2> QED
        BY <1>1, <2>2 DEF ZcBegin
<1>2. CASE zc \in {"ready", "failed"} /\ ZcEnd
    BY <1>2, EmptySeq DEF ZcEnd
<1>3. CASE ZcMerge
    <2> DEFINE f == Head(found)
    <2>1. list' = DeviceMerge(f) \/ list' = list
        BY <1>3 DEF ZcMerge
    <2>2. f \in Finding
        BY <1>3, HeadOfFound DEF ZcMerge, CallInv
    <2> HIDE DEF f
    <2>3. CASE list' = <<Fold(DeviceNew(f), f)>> \o list
        <3> DEFINE d == Fold(DeviceNew(f), f)
        <3>1. d \in Device
            BY <2>2, UuidOfFinding, FoldIs
        <3> HIDE DEF d
        <3>2. <<d>> \in Seq(Device)
            BY <3>1
        <3>3. <<d>> \o list \in Seq(Device)
            BY <3>2, ConcatProperties
        <3> QED
            BY <2>3, <3>3 DEF d
    <2>4. ASSUME NEW k \in DOMAIN list, list' = [list EXCEPT ![k] = Fold(list[k], f)]
          PROVE  list' \in Seq(Device)
        <3>1. list[k] \in Device
            BY <2>4
        <3> DEFINE d == Fold(list[k], f)
        <3>2. d \in Device
            BY <2>2, <3>1, FoldIs
        <3> HIDE DEF d
        <3>3. [list EXCEPT ![k] = d] \in Seq(Device)
            BY <3>2
        <3> QED
            BY <2>4, <3>3 DEF d
    <2> QED
        BY <2>1, <2>2, <2>3, <2>4, MergeIs
<1>4. CASE ZcSort
    <2>1. PICK p \in Injection(DOMAIN list, DOMAIN list) :
              list' = [i \in DOMAIN list |-> list[p[i]]]
        BY <1>4 DEF ZcSort, Sorted
    <2> QED
        BY <2>1, PermutedIs
<1>5. CASE ZcDedup
    <2>1. PICK d \in EndpointListSortDedup(list[turn]) : list' = [list EXCEPT ![turn] = d]
        BY <1>5 DEF ZcDedup
    <2>2. turn \in DOMAIN list /\ list[turn] \in Device
        BY <1>5 DEF ZcDedup
    <2>3. d \in Device
        BY <2>1, <2>2, SortDedupIs
    <2> QED
        BY <2>1, <2>2, <2>3
<1>6. CASE ZcReturn \/ UNCHANGED zcVars
    BY <1>6 DEF ZcReturn, zcVars
<1> QED
    BY <1>1, <1>2, <1>3, <1>4, <1>5, <1>6, ZcSteps DEF ZcStep

(* What the frontend is shown is put there, or taken away, all at once.    *)
LEMMA KeptSteps ==
    [Next]_vars =>
        \/ UNCHANGED <<kept, devs>>
        \/ kept' = <<>> /\ devs' = <<>>
        \/ zc = "ready" /\ call = "get" /\ kept' = list /\ devs' = DevlistBuild(list)
BY DEF Next, vars, SaneInit, SaneExit, GetDevices, GetFailed, GetDone, GetNoMem, DevlistFree,
       OpenDevice, OpenUri, OpenFailed, OpenNoDevice, OpenFind, OpenNextEndpoint,
       OpenGood, OpenGiveUp, SaneClose, Discovering, saneVars

(* The lists are lists of devices, and the SANE list is one of usable      *)
(* devices kept.                                                           *)
DevicesInv ==
    /\ CallInv /\ SaneType
    /\ list \in Seq(Device) /\ kept \in Seq(Device)
    /\ devs \in Seq(Nat)
    /\ DevsPointIntoKept

(* Whatever is found and whatever fails, the lists are in order and the    *)
(* SANE list points into the one that is kept.                             *)
THEOREM DevicesInvariant == Spec => []DevicesInv
<1>1. Init => DevicesInv
    <2> SUFFICES ASSUME Init
                 PROVE  DevicesInv
        OBVIOUS
    <2>1. CallInv
        BY EmptySeq DEF Init, ZcInit, CallInv, FoundOnce, ToSet
    <2>2. SaneType
        BY DEF Init, SaneType, Outcome
    <2>3. list \in Seq(Device) /\ kept \in Seq(Device) /\ devs \in Seq(Nat)
        BY EmptySeq DEF Init, ZcInit
    <2>4. DevsPointIntoKept
        BY DEF Init, DevsPointIntoKept
    <2> QED
        BY <2>1, <2>2, <2>3, <2>4 DEF DevicesInv
<1>2. DevicesInv /\ Distinct(list) /\ [Next]_vars => DevicesInv'
    <2> SUFFICES ASSUME DevicesInv, Distinct(list), [Next]_vars
                 PROVE  DevicesInv'
        OBVIOUS
    <2>1. CallInv' /\ SaneType'
        BY CallInvStep, SaneTypeStep DEF DevicesInv
    <2>2. list' \in Seq(Device)
        BY DevicesStep DEF DevicesInv
    <2>3. kept' \in Seq(Device) /\ devs' \in Seq(Nat) /\ DevsPointIntoKept'
        <3>1. CASE UNCHANGED <<kept, devs>>
            BY <3>1 DEF DevicesInv, DevsPointIntoKept
        <3>2. CASE kept' = <<>> /\ devs' = <<>>
            BY <3>2, EmptySeq DEF DevsPointIntoKept
        <3>3. CASE kept' = list /\ devs' = DevlistBuild(list)
            <4>1. list \in Seq(Device)
                BY DEF DevicesInv
            <4>2. /\ DevlistBuild(list) \in Seq(Nat)
                  /\ \A k \in DOMAIN DevlistBuild(list) :
                       DevlistBuild(list)[k] \in DOMAIN list
                       /\ Usable(list[DevlistBuild(list)[k]])
                BY <4>1, UsableBuilt, Zenon
            <4> QED
                BY <3>3, <4>1, <4>2 DEF DevsPointIntoKept
        <3> QED
            BY <3>1, <3>2, <3>3, KeptSteps
    <2> QED
        BY <2>1, <2>2, <2>3 DEF DevicesInv
<1>3. QED
    BY <1>1, <1>2, DistinctInvariant, PTL DEF Spec

(* Whatever is found and whichever calls are made, every variable of the   *)
(* device list and of a discovery stays in its range: a list assembled     *)
(* from any findings is one of devices with their endpoints, and no more   *)
(* than two lists are in memory.                                           *)
THEOREM DevicesTypeCorrect == Spec => []TypeOK
<1>1. DevicesInv /\ ListsInv => TypeOK
    <2> SUFFICES ASSUME DevicesInv, ListsInv
                 PROVE  TypeOK
        OBVIOUS
    <2>1. lists \in 0 .. 2
        BY DEF ListsInv, Allocated
    <2> QED
        BY <2>1 DEF DevicesInv, CallInv, SaneType, FoundOnce, TypeOK
<1>2. QED
    BY <1>1, DevicesInvariant, ListsInvariant, PTL

(* sane-ipp.c, 82-85: what sane_get_devices() has handed out stays good    *)
(* until it is replaced or the backend is left, whatever calls fail or     *)
(* look for devices again in between.                                      *)
THEOREM HandedOutStaysGood == Spec => []DevsPointIntoKept
<1>1. DevicesInv => DevsPointIntoKept
    BY DEF DevicesInv
<1>2. QED
    BY <1>1, DevicesInvariant, PTL

-----------------------------------------------------------------------------
(* The order of the endpoints                                              *)

(* What endpoint_new() makes of an address in this call.                   *)
MadeHere(e) ==
    /\ e.inet6 = Parsed[e.addr].inet6
    /\ e.linklocal <=> Parsed[e.addr].net = LinkLocal
    /\ e.distance = Distance(Parsed[e.addr])

(* An endpoint as good as another, or better.                              *)
NoWorse(e, f) ==
    /\ e.distance <= f.distance
    /\ e.distance = f.distance /\ e.linklocal => f.linklocal
    /\ e.distance = f.distance /\ e.linklocal = f.linklocal /\ f.tls => e.tls

InOrder(s) ==
    \A j \in DOMAIN s : \A i \in 1 .. j - 1 : Uri(s[i]) # Uri(s[j]) /\ NoWorse(s[i], s[j])

(* What ipp_endpoint_cmp() compares, part by part.                         *)
LEMMA KeyIs ==
    ASSUME NEW e \in Endpoint
    PROVE  /\ EndpointKey(e) \in [1 .. 6 -> Int]
           /\ EndpointKey(e)[1] = e.distance
           /\ EndpointKey(e)[2] = IF e.linklocal THEN 1 ELSE 0
           /\ EndpointKey(e)[3] = IF e.tls THEN 0 ELSE 1
           /\ EndpointKey(e)[4] = IF e.inet6 THEN 0 ELSE 1
           /\ EndpointKey(e)[5] = e.addr
           /\ EndpointKey(e)[6] = e.res
<1>1. /\ e.distance \in Int /\ e.addr \in Int /\ e.res \in Int
      /\ e.linklocal \in BOOLEAN /\ e.tls \in BOOLEAN /\ e.inet6 \in BOOLEAN
    <2>1. /\ e.distance \in 0 .. 2 /\ e.addr \in Addr /\ e.res \in Text
          /\ e.linklocal \in BOOLEAN /\ e.tls \in BOOLEAN /\ e.inet6 \in BOOLEAN
        BY DEF Endpoint
    <2>2. Addr \subseteq Nat
        BY ZeroconfAssumption, Zenon DEF ZeroconfAssumption
    <2>3. e.distance \in Int /\ e.addr \in Int /\ e.res \in Int
        <3>1. e.distance \in Int
            BY <2>1
        <3>2. e.addr \in Nat
            BY <2>1, <2>2, Zenon
        <3>3. e.res \in Int
            BY <2>1 DEF Text
        <3> QED
            BY <3>1, <3>2, <3>3, \A i \in Nat : i \in Int
    <2> QED
        BY <2>1, <2>3
<1>2. /\ After(e.linklocal) = IF e.linklocal THEN 1 ELSE 0
      /\ After(~e.tls) = IF e.tls THEN 0 ELSE 1
      /\ After(~e.inet6) = IF e.inet6 THEN 0 ELSE 1
    BY DEF After
<1> QED
    BY <1>1, <1>2 DEF EndpointKey

(* Of two keys of the same length one is less, or they are the same.       *)
LEMMA Trichotomy ==
    ASSUME NEW n \in Nat, NEW k \in [1 .. n -> Int], NEW l \in [1 .. n -> Int],
           ~Less(k, l), ~Less(l, k)
    PROVE  k = l
<1> DEFINE D == {i \in 1 .. n : k[i] # l[i]}
<1>1. SUFFICES ASSUME D # {}
               PROVE  FALSE
    OBVIOUS
<1>2. D \subseteq Nat
    OBVIOUS
<1>3. PICK m \in D : \A i \in D : m <= i
    <2> HIDE DEF D
    <2> QED
        BY <1>1, <1>2, Least
<1>4. m \in 1 .. n /\ \A i \in 1 .. m - 1 : k[i] = l[i]
    BY <1>3
<1>5. k[m] < l[m] \/ l[m] < k[m]
    BY <1>3
<1> QED
    BY <1>4, <1>5 DEF Less

(* An endpoint that may come first is no worse.                            *)
LEMMA NoWorseByKey ==
    ASSUME NEW e \in Endpoint, NEW f \in Endpoint, ~Less(EndpointKey(f), EndpointKey(e))
    PROVE  NoWorse(e, f)
<1> DEFINE k == EndpointKey(e)
           l == EndpointKey(f)
<1>1. \A i \in 1 .. 6 : l[i] < k[i] => \E j \in 1 .. i - 1 : k[j] # l[j]
    BY KeyIs DEF Less
<1>2. /\ k[1] = e.distance /\ k[2] = IF e.linklocal THEN 1 ELSE 0
      /\ k[3] = IF e.tls THEN 0 ELSE 1
      /\ l[1] = f.distance /\ l[2] = IF f.linklocal THEN 1 ELSE 0
      /\ l[3] = IF f.tls THEN 0 ELSE 1
    BY KeyIs
<1>3. e.distance \in Int /\ f.distance \in Int /\ e.linklocal \in BOOLEAN
      /\ f.linklocal \in BOOLEAN /\ e.tls \in BOOLEAN /\ f.tls \in BOOLEAN
    BY DEF Endpoint
<1> HIDE DEF k, l
<1>4. e.distance <= f.distance
    BY <1>1, <1>2, <1>3
<1>5. ASSUME e.distance = f.distance, e.linklocal PROVE f.linklocal
    <2>1. \A j \in 1 .. 2 - 1 : k[j] = l[j]
        BY <1>2, <1>5
    <2>2. ~(l[2] < k[2])
        BY <1>1, <2>1
    <2> QED
        BY <1>2, <1>3, <1>5, <2>2
<1>6. ASSUME e.distance = f.distance, e.linklocal = f.linklocal, f.tls PROVE e.tls
    <2>1. \A j \in 1 .. 3 - 1 : k[j] = l[j]
        BY <1>2, <1>6
    <2>2. ~(l[3] < k[3])
        BY <1>1, <2>1
    <2> QED
        BY <1>2, <1>3, <1>6, <2>2
<1> QED
    BY <1>4, <1>5, <1>6 DEF NoWorse

(* In one call, endpoints with one URI are the same.                       *)
LEMMA SameUri ==
    ASSUME NEW e \in Endpoint, NEW f \in Endpoint, MadeHere(e), MadeHere(f), Uri(e) = Uri(f)
    PROVE  e = f
<1>1. e.tls = f.tls /\ e.addr = f.addr /\ e.res = f.res
    BY DEF Uri
<1>2. e.inet6 = f.inet6 /\ e.distance = f.distance
    BY <1>1 DEF MadeHere
<1>3. e.linklocal = f.linklocal
    BY <1>1 DEF MadeHere, Endpoint
<1> QED
    BY <1>1, <1>2, <1>3 DEF Endpoint

(* Endpoints that compare equal have one URI.                              *)
LEMMA SameKey ==
    ASSUME NEW e \in Endpoint, NEW f \in Endpoint,
           ~Less(EndpointKey(f), EndpointKey(e)), ~Less(EndpointKey(e), EndpointKey(f))
    PROVE  Uri(e) = Uri(f)
<1>1. EndpointKey(e) = EndpointKey(f)
    <2>1. 6 \in Nat /\ EndpointKey(e) \in [1 .. 6 -> Int] /\ EndpointKey(f) \in [1 .. 6 -> Int]
        BY KeyIs
    <2> QED
        BY <2>1, Trichotomy
<1> DEFINE k == EndpointKey(e)
           l == EndpointKey(f)
<1>2. /\ k[3] = (IF e.tls THEN 0 ELSE 1) /\ k[5] = e.addr /\ k[6] = e.res
      /\ l[3] = (IF f.tls THEN 0 ELSE 1) /\ l[5] = f.addr /\ l[6] = f.res
    BY KeyIs
<1>3. k = l
    BY <1>1
<1>4. e.tls \in BOOLEAN /\ f.tls \in BOOLEAN
    BY DEF Endpoint
<1> HIDE DEF k, l
<1>5. e.addr = f.addr /\ e.res = f.res
    BY <1>2, <1>3
<1>6. e.tls = f.tls
    BY <1>2, <1>3, <1>4
<1> QED
    BY <1>5, <1>6 DEF Uri

(* What the first i of sorted endpoints have come to.                      *)
KeptThrough(k, s, i) ==
    /\ k \in Seq(Endpoint)
    /\ \A e : e \in ToSet(k) <=> \E m \in 1 .. i : e = s[m]
    /\ i >= 1 => Last(k) = s[i]
    /\ InOrder(k)

(* One endpoint more: it has the URI of the last one, and is skipped, or it*)
(* comes after all that were kept.                                         *)
LEMMA KeepsInOrder ==
    ASSUME NEW s \in Seq(Endpoint), \A m \in DOMAIN s : MadeHere(s[m]),
           \A j \in DOMAIN s : \A i \in 1 .. j - 1 :
             ~Less(EndpointKey(s[j]), EndpointKey(s[i])),
           NEW i \in 1 .. Len(s), NEW k, KeptThrough(k, s, i - 1)
    PROVE  KeptThrough(Keep(k, s[i]), s, i)
<1>1. /\ i \in Nat /\ i >= 1 /\ i \in DOMAIN s /\ \A m \in 1 .. i : m \in DOMAIN s
      /\ \A m \in 1 .. i : m = i \/ m \in 1 .. i - 1
      /\ \A m \in 1 .. i - 1 : m \in 1 .. i
      /\ \A m \in DOMAIN s : s[m] \in Endpoint
    OBVIOUS
<1>2. /\ k \in Seq(Endpoint) /\ InOrder(k)
      /\ \A e : e \in ToSet(k) <=> \E m \in 1 .. i - 1 : e = s[m]
      /\ i - 1 >= 1 => Last(k) = s[i - 1]
    BY DEF KeptThrough
<1>3. \A a \in DOMAIN k : k[a] \in ToSet(k)
    BY DEF ToSet
<1>4. k # <<>> => i - 1 >= 1
    <2>1. k # <<>> => 1 \in DOMAIN k
        BY <1>2, EmptySeq
    <2> QED
        BY <1>1, <1>2, <1>3, <2>1
<1>5. CASE k # <<>> /\ Uri(Last(k)) = Uri(s[i])
    <2>1. Keep(k, s[i]) = k
        BY <1>5 DEF Keep
    <2>2. i - 1 \in 1 .. i - 1 /\ Last(k) = s[i - 1]
        BY <1>1, <1>2, <1>4, <1>5
    <2>3. s[i - 1] = s[i]
        <3>1. i - 1 \in DOMAIN s /\ Uri(s[i - 1]) = Uri(s[i])
            BY <1>1, <1>5, <2>2
        <3> QED
            BY <1>1, <3>1, SameUri
    <2>4. \A e : e \in ToSet(k) <=> \E m \in 1 .. i : e = s[m]
        BY <1>1, <1>2, <2>2, <2>3
    <2> QED
        BY <1>2, <2>1, <2>2, <2>3, <2>4 DEF KeptThrough
<1>6. CASE ~(k # <<>> /\ Uri(Last(k)) = Uri(s[i]))
    <2> DEFINE c == Append(k, s[i])
               n == Len(k)
    <2>1. Keep(k, s[i]) = c
        BY <1>6 DEF Keep
    <2>2. /\ c \in Seq(Endpoint) /\ Len(c) = n + 1 /\ n \in Nat /\ DOMAIN k = 1 .. n
          /\ \A a \in 1 .. n : c[a] = k[a]
          /\ c[n + 1] = s[i]
        BY <1>1, <1>2, AppendProperties
    <2> HIDE DEF c, n
    <2>3. DOMAIN c = 1 .. n + 1 /\ \A a \in 1 .. n + 1 : a = n + 1 \/ a \in 1 .. n
        BY <2>2
    <2>4. Last(c) = s[i]
        BY <2>2 DEF Last
    <2>5. \A e : e \in ToSet(c) <=> \E m \in 1 .. i : e = s[m]
        <3>1. \A e : e \in ToSet(c) <=> \E a \in 1 .. n + 1 : e = c[a]
            BY <2>3 DEF ToSet
        <3>2. \A e : e \in ToSet(k) <=> \E a \in 1 .. n : e = k[a]
            BY <2>2 DEF ToSet
        <3>3. \A a \in 1 .. n : a \in 1 .. n + 1
            BY <2>2
        <3>4. n + 1 \in 1 .. n + 1 /\ i \in 1 .. i
            BY <1>1, <2>2
        <3>5. \A e : e \in ToSet(c) <=> e \in ToSet(k) \/ e = s[i]
            BY <2>2, <2>3, <3>1, <3>2, <3>3, <3>4
        <3>6. \A e : (\E m \in 1 .. i : e = s[m]) <=> (\E m \in 1 .. i - 1 : e = s[m]) \/ e = s[i]
            BY <1>1, <3>4
        <3> QED
            BY <1>2, <3>5, <3>6
    <2>6. \A m \in 1 .. i - 1 : k # <<>> => Uri(s[m]) # Uri(s[i])
        <3> SUFFICES ASSUME NEW m \in 1 .. i - 1, k # <<>>, Uri(s[m]) = Uri(s[i])
                     PROVE  FALSE
            OBVIOUS
        <3>1. m \in DOMAIN s /\ i - 1 \in DOMAIN s /\ m \in 1 .. i
            BY <1>1, <1>4
        <3>2. s[m] = s[i]
            BY <1>1, <3>1, SameUri
        <3>3. m # i - 1
            BY <1>2, <1>4, <1>6
        <3>4. m \in 1 .. (i - 1) - 1 /\ i - 1 \in 1 .. i - 1
            BY <1>1, <3>3
        <3>5. ~Less(EndpointKey(s[i - 1]), EndpointKey(s[m]))
            BY <3>1, <3>4
        <3>6. ~Less(EndpointKey(s[i]), EndpointKey(s[i - 1]))
            BY <1>1, <3>4
        <3>7. Uri(s[m]) = Uri(s[i - 1])
            BY <1>1, <3>1, <3>2, <3>5, <3>6, SameKey
        <3> QED
            BY <1>2, <1>4, <1>6, <3>7
    <2>7. \A a \in 1 .. n : Uri(k[a]) # Uri(s[i]) /\ NoWorse(k[a], s[i])
        <3> SUFFICES ASSUME NEW a \in 1 .. n
                     PROVE  Uri(k[a]) # Uri(s[i]) /\ NoWorse(k[a], s[i])
            OBVIOUS
        <3>1. PICK m \in 1 .. i - 1 : k[a] = s[m]
            BY <1>2, <1>3, <2>2
        <3>2. k # <<>>
            BY <2>2, EmptySeq
        <3>3. m \in DOMAIN s /\ ~Less(EndpointKey(s[i]), EndpointKey(s[m]))
            BY <1>1
        <3> QED
            BY <1>1, <2>6, <3>1, <3>2, <3>3, NoWorseByKey
    <2>8. InOrder(c)
        <3> SUFFICES ASSUME NEW b \in 1 .. n + 1, NEW a \in 1 .. b - 1
                     PROVE  Uri(c[a]) # Uri(c[b]) /\ NoWorse(c[a], c[b])
            BY <2>3 DEF InOrder
        <3>1. a \in 1 .. n /\ c[a] = k[a]
            BY <2>2
        <3>2. CASE b = n + 1
            BY <2>2, <2>7, <3>1, <3>2
        <3>3. CASE b \in 1 .. n
            <4>1. c[b] = k[b] /\ b \in DOMAIN k
                BY <2>2, <3>3
            <4> QED
                BY <1>2, <3>1, <4>1 DEF InOrder
        <3> QED
            BY <2>3, <3>2, <3>3
    <2> QED
        BY <2>1, <2>2, <2>4, <2>5, <2>8 DEF KeptThrough
<1> QED
    BY <1>5, <1>6

(* Sorted endpoints of one call are all kept, once each, in order.         *)
LEMMA DedupIs ==
    ASSUME NEW s \in Seq(Endpoint), \A e \in ToSet(s) : MadeHere(e),
           \A j \in DOMAIN s : \A i \in 1 .. j - 1 :
             ~Less(EndpointKey(s[j]), EndpointKey(s[i]))
    PROVE  ToSet(Dedup(s)) = ToSet(s) /\ InOrder(Dedup(s))
<1> DEFINE n == Len(s)
           K == KeptOf(s)
           P == {i \in 0 .. n : KeptThrough(K[i], s, i)}
<1>1. n \in Nat /\ DOMAIN s = 1 .. n
    OBVIOUS
<1>2. K[0] = <<>>
    BY KeptLoop, Zenon
<1>3. \A i \in 1 .. n : K[i] = Keep(K[i - 1], s[i])
    BY KeptLoop, Zenon
<1>4. \A m \in DOMAIN s : MadeHere(s[m])
    BY DEF ToSet
<1> HIDE DEF K
<1>5. 0 \in P
    <2>1. KeptThrough(<<>>, s, 0)
        BY EmptySeq DEF KeptThrough, ToSet, InOrder
    <2> QED
        BY <1>1, <1>2, <2>1
<1>6. \A i \in 1 .. n : i - 1 \in P => i \in P
    <2> SUFFICES ASSUME NEW i \in 1 .. n, KeptThrough(K[i - 1], s, i - 1)
                 PROVE  KeptThrough(K[i], s, i)
        BY <1>1
    <2> QED
        BY <1>3, <1>4, KeepsInOrder
<1> HIDE DEF P
<1>7. n \in P
    <2>1. \A i \in 0 .. n : i \in P
        <3> HIDE DEF n
        <3> QED
            BY <1>1, <1>5, <1>6, InductionUpTo
    <2> QED
        BY <1>1, <2>1
<1>8. KeptThrough(K[n], s, n)
    BY <1>7 DEF P
<1>9. Dedup(s) = K[n]
    BY DEF Dedup, K
<1> HIDE DEF n
<1>10. \A e : e \in ToSet(s) <=> \E m \in 1 .. n : e = s[m]
    BY <1>1 DEF ToSet
<1> DEFINE c == K[n]
<1>11. (\A e : e \in ToSet(c) <=> \E m \in 1 .. n : e = s[m]) /\ InOrder(c)
    BY <1>8 DEF KeptThrough
<1> HIDE DEF c
<1>12. ToSet(c) = ToSet(s)
    BY <1>10, <1>11
<1> QED
    BY <1>9, <1>11, <1>12 DEF c

(* During a call, all endpoints are of this call; the devices passed by    *)
(* the loop are in order, and so is all that leaves it.                    *)
OrderInv ==
    /\ zc \in {"merge", "dedup"} =>
         \A k \in DOMAIN list : \A e \in ToSet(list[k].endpoints) : MadeHere(e)
    /\ zc = "dedup" =>
         turn >= 1 /\ \A k \in DOMAIN list : k < turn => InOrder(list[k].endpoints)
    /\ zc = "ready" => \A k \in DOMAIN list : InOrder(list[k].endpoints)
    /\ \A k \in DOMAIN kept : InOrder(kept[k].endpoints)

(* The device of SANE_IPP_DEVICE has one endpoint.                         *)
LEMMA EnvInOrder == InOrder(EnvDevice.endpoints)
<1>1. EnvDevice.endpoints \in Seq(Endpoint) /\ Len(EnvDevice.endpoints) = 1
    BY ZeroconfAssumption DEF ZeroconfAssumption, Device
<1>2. DOMAIN EnvDevice.endpoints = {1}
    BY <1>1
<1>3. 1 .. 1 - 1 = {}
    OBVIOUS
<1> QED
    BY <1>2, <1>3 DEF InOrder

(* The endpoints of a finding are of this call.                            *)
LEMMA EndpointsMade ==
    ASSUME NEW f \in Finding, NEW e \in ToSet(Endpoints(f))
    PROVE  MadeHere(e)
<1>1. PICK a \in ToSet(f.addrs) : e = EndpointNew(f, a)
    BY EndpointsOfFinding
<1>2. /\ EndpointNew(f, a).addr = a
      /\ EndpointNew(f, a).inet6 = Parsed[a].inet6
      /\ EndpointNew(f, a).linklocal <=> Parsed[a].net = LinkLocal
      /\ EndpointNew(f, a).distance = Distance(Parsed[a])
    BY DEF EndpointNew
<1> QED
    BY <1>1, <1>2 DEF MadeHere

(* What a device has after its endpoints were sorted.                      *)
LEMMA SortDedupInOrder ==
    ASSUME NEW d \in Device, \A e \in ToSet(d.endpoints) : MadeHere(e),
           NEW c \in EndpointListSortDedup(d)
    PROVE  ToSet(c.endpoints) = ToSet(d.endpoints) /\ InOrder(c.endpoints)
<1>1. PICK s \in Sorted(d.endpoints, EndpointKey) : c.endpoints = Dedup(s)
    BY SortDedupIs
<1>2. d.endpoints \in Seq(Endpoint)
    BY DEF Device
<1>3. /\ s \in Seq(Endpoint) /\ ToSet(s) = ToSet(d.endpoints)
      /\ \A j \in DOMAIN s : \A i \in 1 .. j - 1 :
           ~Less(EndpointKey(s[j]), EndpointKey(s[i]))
    BY <1>2, SortedEndpoints
<1>4. ToSet(Dedup(s)) = ToSet(s) /\ InOrder(Dedup(s))
    BY <1>3, DedupIs
<1> QED
    BY <1>1, <1>3, <1>4

(* One finding more.                                                       *)
LEMMA MergeMade ==
    ASSUME list \in Seq(Device), Distinct(list), NEW f \in Finding,
           \A k \in DOMAIN list : \A e \in ToSet(list[k].endpoints) : MadeHere(e)
    PROVE  \A k \in DOMAIN DeviceMerge(f) :
               \A e \in ToSet(DeviceMerge(f)[k].endpoints) : MadeHere(e)
<1>1. ASSUME NEW d \in Device, \A e \in ToSet(d.endpoints) : MadeHere(e)
      PROVE  \A e \in ToSet(Fold(d, f).endpoints) : MadeHere(e)
    <2>1. ToSet(Fold(d, f).endpoints) = ToSet(Endpoints(f)) \cup ToSet(d.endpoints)
        BY FoldIs, Zenon
    <2>2. \A e \in ToSet(Endpoints(f)) : MadeHere(e)
        BY EndpointsMade
    <2> QED
        BY <1>1, <2>1, <2>2
<1>2. CASE DeviceMerge(f) = <<Fold(DeviceNew(f), f)>> \o list
    <2> DEFINE d == Fold(DeviceNew(f), f)
               l == <<d>> \o list
               n == Len(list)
    <2>1. DeviceNew(f) \in Device /\ ToSet(DeviceNew(f).endpoints) = {}
        BY UuidOfFinding DEF DeviceNew, ToSet
    <2>2. d \in Device /\ \A e \in ToSet(d.endpoints) : MadeHere(e)
        BY <1>1, <2>1, FoldIs
    <2> HIDE DEF d
    <2>3. n \in Nat /\ DOMAIN list = 1 .. n
        OBVIOUS
    <2>4. <<d>> \in Seq(Device) /\ Len(<<d>>) = 1 /\ <<d>>[1] = d
        BY <2>2
    <2>5. /\ l \in Seq(Device) /\ Len(l) = 1 + n
          /\ \A i \in 1 .. Len(l) : l[i] = IF i <= 1 THEN <<d>>[i] ELSE list[i - 1]
        BY <2>4, ConcatProperties
    <2> HIDE DEF l, n
    <2>6. SUFFICES ASSUME NEW k \in 1 .. n + 1
                   PROVE  \A e \in ToSet(l[k].endpoints) : MadeHere(e)
        BY <1>2, <2>3, <2>5 DEF d, l
    <2>7. CASE k = 1
        BY <2>2, <2>3, <2>4, <2>5, <2>7
    <2>8. CASE k # 1
        <3>1. k - 1 \in DOMAIN list /\ l[k] = list[k - 1]
            BY <2>3, <2>5, <2>8
        <3> QED
            BY <3>1
    <2> QED
        BY <2>7, <2>8
<1>3. ASSUME NEW m \in DOMAIN list, DeviceMerge(f) = [list EXCEPT ![m] = Fold(list[m], f)]
      PROVE  \A k \in DOMAIN DeviceMerge(f) :
               \A e \in ToSet(DeviceMerge(f)[k].endpoints) : MadeHere(e)
    <2> DEFINE d == Fold(list[m], f)
    <2>1. \A e \in ToSet(d.endpoints) : MadeHere(e)
        BY <1>1
    <2> HIDE DEF d
    <2>2. DOMAIN [list EXCEPT ![m] = d] = DOMAIN list
        OBVIOUS
    <2>3. \A k \in DOMAIN list : [list EXCEPT ![m] = d][k] = IF k = m THEN d ELSE list[k]
        OBVIOUS
    <2> QED
        BY <1>3, <2>1, <2>2, <2>3 DEF d
<1> QED
    BY <1>2, <1>3, MergeIs

(* Every step keeps the order of what is sorted.                           *)
LEMMA OrderStep ==
    ASSUME OrderInv, DevicesInv, Distinct(list), [Next]_vars
    PROVE  OrderInv'
<1>0. CallInv /\ list \in Seq(Device) /\ turn \in Nat
    BY DEF DevicesInv, CallInv
<1>1. \A k \in DOMAIN kept' : InOrder(kept'[k].endpoints)
    BY KeptSteps DEF OrderInv
<1>2. ASSUME ifaces' = ifaces
      PROVE  \A e : MadeHere(e) => MadeHere(e)'
    BY <1>2 DEF MadeHere, Distance
<1>3. CASE ZcBegin
    <2>1. CASE zc' = "ready"
        <3>1. list' = <<EnvDevice>>
            BY <1>3, <2>1 DEF ZcBegin
        <3> QED
            BY <1>1, <2>1, <3>1, EnvInOrder DEF OrderInv, InOrder
    <2>2. CASE zc' = "failed"
        BY <1>1, <2>2 DEF OrderInv
    <2>3. CASE zc' = "merge"
        <3>1. list' = <<>>
            BY <1>0, <1>3, <2>3 DEF ZcBegin, CallInv
        <3> QED
            BY <1>1, <2>3, <3>1 DEF OrderInv
    <2> QED
        BY <1>3, <2>1, <2>2, <2>3 DEF ZcBegin
<1>4. CASE ZcEnd
    BY <1>1, <1>4 DEF ZcEnd, OrderInv
<1>5. CASE ZcMerge
    <2> DEFINE f == Head(found)
    <2>1. /\ zc = "merge" /\ zc' = "merge" /\ ifaces' = ifaces
          /\ list' = DeviceMerge(f) \/ list' = list
        BY <1>5 DEF ZcMerge
    <2>2. f \in Finding
        BY <1>0, <1>5, HeadOfFound DEF ZcMerge, CallInv
    <2>3. \A k \in DOMAIN list : \A e \in ToSet(list[k].endpoints) : MadeHere(e)
        BY <2>1 DEF OrderInv
    <2> HIDE DEF f
    <2>4. \A k \in DOMAIN list' : \A e \in ToSet(list'[k].endpoints) : MadeHere(e)
        BY <1>0, <2>1, <2>2, <2>3, MergeMade
    <2>5. \A k \in DOMAIN list' : \A e \in ToSet(list'[k].endpoints) : MadeHere(e)'
        BY <1>2, <2>1, <2>4
    <2> QED
        BY <1>1, <2>1, <2>5 DEF OrderInv, InOrder, ToSet
<1>6. CASE ZcSort
    <2>1. /\ zc = "merge" /\ zc' = "dedup" /\ turn' = 1 /\ ifaces' = ifaces
        BY <1>6 DEF ZcSort
    <2>2. PICK p \in Injection(DOMAIN list, DOMAIN list) :
              list' = [i \in DOMAIN list |-> list[p[i]]]
        BY <1>6 DEF ZcSort, Sorted
    <2>3. p \in [DOMAIN list -> DOMAIN list]
        BY DEF Injection
    <2>4. \A k \in DOMAIN list : \A e \in ToSet(list[k].endpoints) : MadeHere(e)
        BY <2>1 DEF OrderInv
    <2>5. \A k \in DOMAIN list' : \A e \in ToSet(list'[k].endpoints) : MadeHere(e)'
        BY <1>2, <2>1, <2>2, <2>3, <2>4
    <2>6. \A k \in DOMAIN list' : ~(k < 1)
        BY <1>0, <2>2
    <2> QED
        BY <1>1, <2>1, <2>5, <2>6 DEF OrderInv, InOrder, ToSet
<1>7. CASE ZcDedup
    <2>1. /\ zc = "dedup" /\ zc' = "dedup" /\ turn' = turn + 1 /\ ifaces' = ifaces
          /\ turn \in DOMAIN list
        BY <1>7 DEF ZcDedup
    <2>2. PICK d \in EndpointListSortDedup(list[turn]) : list' = [list EXCEPT ![turn] = d]
        BY <1>7 DEF ZcDedup
    <2>3. /\ \A k \in DOMAIN list : \A e \in ToSet(list[k].endpoints) : MadeHere(e)
          /\ turn >= 1 /\ \A k \in DOMAIN list : k < turn => InOrder(list[k].endpoints)
        BY <2>1 DEF OrderInv
    <2>4. ToSet(d.endpoints) = ToSet(list[turn].endpoints) /\ InOrder(d.endpoints)
        <3>1. list[turn] \in Device
            BY <1>0, <2>1
        <3> QED
            BY <2>1, <2>3, <3>1, SortDedupInOrder
    <2>5. /\ DOMAIN list' = DOMAIN list
          /\ \A k \in DOMAIN list : list'[k] = IF k = turn THEN d ELSE list[k]
        BY <2>2
    <2>6. \A k \in DOMAIN list' : \A e \in ToSet(list'[k].endpoints) : MadeHere(e)'
        BY <1>2, <2>1, <2>3, <2>4, <2>5
    <2>7. \A k \in DOMAIN list' : k < turn' => InOrder(list'[k].endpoints)
        <3> SUFFICES ASSUME NEW k \in DOMAIN list, k < turn + 1
                     PROVE  InOrder(list'[k].endpoints)
            BY <2>1, <2>5
        <3>1. CASE k = turn
            BY <2>4, <2>5, <3>1
        <3>2. CASE k # turn
            <4>1. k < turn /\ list'[k] = list[k]
                BY <1>0, <2>5, <3>2
            <4> QED
                BY <2>3, <4>1
        <3> QED
            BY <3>1, <3>2
    <2>8. turn' >= 1
        BY <1>0, <2>1
    <2> QED
        BY <1>1, <2>1, <2>6, <2>7, <2>8 DEF OrderInv, InOrder, ToSet
<1>8. CASE ZcReturn
    <2>1. /\ zc = "dedup" /\ zc' = "ready" /\ list' = list /\ turn \notin DOMAIN list
        BY <1>8 DEF ZcReturn
    <2>2. \A k \in DOMAIN list : k < turn
        BY <1>0, <2>1 DEF OrderInv
    <2>3. \A k \in DOMAIN list' : InOrder(list'[k].endpoints)
        BY <2>1, <2>2 DEF OrderInv
    <2> QED
        BY <1>1, <2>1, <2>3 DEF OrderInv, InOrder
<1>9. CASE UNCHANGED zcVars
    <2>1. UNCHANGED <<zc, ifaces, list, turn>>
        BY <1>9 DEF zcVars
    <2>2. \A e : MadeHere(e) => MadeHere(e)'
        BY <1>2, <2>1
    <2> QED
        BY <1>1, <2>1, <2>2 DEF OrderInv, InOrder, ToSet
<1> QED
    BY <1>3, <1>4, <1>5, <1>6, <1>7, <1>8, <1>9, ZcSteps DEF ZcStep

(* Endpoints are of the call in progress until they are sorted, and in     *)
(* order ever after.                                                       *)
THEOREM OrderInvariant == Spec => []OrderInv
<1>1. Init => OrderInv
    BY DEF Init, ZcInit, OrderInv
<1>2. OrderInv /\ DevicesInv /\ Distinct(list) /\ [Next]_vars => OrderInv'
    BY OrderStep
<1>3. QED
    BY <1>1, <1>2, DevicesInvariant, DistinctInvariant, PTL DEF Spec

(* ipp_endpoint_cmp(): of the endpoints of a device, for any addresses,    *)
(* interfaces and number of findings, none is left twice, the nearer come  *)
(* first, then those not confined to their link, then the encrypted ones.  *)
THEOREM NearestEndpointFirst == Spec => []BestEndpointFirst
<1>1. OrderInv => BestEndpointFirst
    BY DEF OrderInv, InOrder, NoWorse, BestEndpointFirst
<1>2. QED
    BY <1>1, OrderInvariant, PTL

-----------------------------------------------------------------------------
(* What becomes of the findings                                            *)

Answered(F) == {f \in F : f.resolved /\ f.addrs # <<>>}

UrisOfFinding(f) ==
    {<<f.tls, a, IF f.rs # NULL THEN f.rs ELSE f.rp>> : a \in ToSet(f.addrs)}

UrisOf(d) == {Uri(e) : e \in ToSet(d.endpoints)}

(* The devices [l] are made of the findings [A]: [h] has those that went   *)
(* into each and one of which it is named after, no two devices have the   *)
(* same, and all of them went somewhere.                                   *)
Folded(l, A, h) ==
    /\ h \in [DOMAIN l -> SUBSET A]
    /\ \A i \in DOMAIN l : h[i] # {} /\ MadeOf(l[i], h[i])
    /\ \A i \in DOMAIN l : \A f \in h[i] :
         /\ KnownBy(f) = l[i].uuid
         /\ \A g \in A : g \in h[i] <=> OneDevice(f, g)
    /\ \A i \in DOMAIN l : \E f \in h[i] : f.name = l[i].name
    /\ \A f \in A : \E i \in DOMAIN l : f \in h[i]
    /\ \A i, j \in DOMAIN l : i # j => h[i] # h[j]

FoldInv ==
    zc \in {"merge", "dedup"} \/ (zc = "ready" /\ heard # {}) =>
        \E h : Folded(list, Answered(heard \ ToSet(found)), h)

(* A UUID that is understood is known in its canonical spelling, another   *)
(* one as it is.                                                           *)
LEMMA NormalizeIs ==
    ASSUME NEW w \in Uuid
    PROVE  /\ (IF UuidNormalize(w) = NoUuid THEN w ELSE UuidNormalize(w)) =
                [id |-> w.id, spelling |-> IF w.spelling = "nonsense" THEN "nonsense"
                                           ELSE "canonical"]
           /\ w.id = NULL <=> w = NoUuid
<1>1. w = [id |-> w.id, spelling |-> w.spelling] /\ (w.id = NULL <=> w = NoUuid)
    BY DEF Uuid, NoUuid, Text, NULL
<1>2. CASE w.spelling = "nonsense"
    BY <1>1, <1>2 DEF UuidNormalize
<1>3. CASE w.spelling # "nonsense"
    <2>1. UuidNormalize(w) = [id |-> w.id, spelling |-> "canonical"]
        BY <1>1, <1>3 DEF UuidNormalize
    <2>2. CASE w = NoUuid
        BY <1>1, <1>3, <2>1, <2>2 DEF NoUuid
    <2>3. CASE w # NoUuid
        <3>1. UuidNormalize(w) # NoUuid
            BY <1>1, <2>1, <2>3 DEF NoUuid
        <3> QED
            BY <1>1, <1>3, <2>1, <3>1
    <2> QED
        BY <2>2, <2>3
<1> QED
    BY <1>1, <1>2, <1>3

(* Spellings do not matter to what a finding is known by.                  *)
LEMMA OneDeviceIs ==
    ASSUME NEW f \in Finding, NEW g \in Finding
    PROVE  OneDevice(f, g) <=> f = g \/ (KnownBy(f) = KnownBy(g) /\ KnownBy(f) # NoUuid)
<1> DEFINE u == f.uuid
           v == g.uuid
<1>1. u \in Uuid /\ v \in Uuid
    BY ZeroconfAssumption DEF ZeroconfAssumption, FindingType
<1> HIDE DEF u, v
<1> DEFINE K(w) == IF UuidNormalize(w) = NoUuid THEN w ELSE UuidNormalize(w)
<1>2. ASSUME NEW w \in Uuid
      PROVE  /\ K(w) = [id |-> w.id, spelling |-> IF w.spelling = "nonsense" THEN "nonsense"
                                                  ELSE "canonical"]
             /\ w.id = NULL <=> w = NoUuid
    BY <1>2, NormalizeIs
<1>3. K(u) = KnownBy(f) /\ K(v) = KnownBy(g)
    BY DEF KnownBy, u, v
<1> HIDE DEF K
<1>4. K(u) = NoUuid <=> u.id = NULL
    <2>1. NoUuid.id = NULL /\ NoUuid.spelling = "canonical"
        BY DEF NoUuid
    <2>2. K(u).id = u.id
        BY <1>1, <1>2
    <2>3. u = NoUuid => K(u) = NoUuid
        BY <1>1, <1>2, <2>1 DEF NoUuid
    <2> QED
        BY <1>1, <1>2, <2>1, <2>2, <2>3
<1>5. K(u) = K(v) <=> u.id = v.id /\ (u.spelling = "nonsense" <=> v.spelling = "nonsense")
    <2>1. /\ K(u).id = u.id /\ K(v).id = v.id
          /\ K(u).spelling = IF u.spelling = "nonsense" THEN "nonsense" ELSE "canonical"
          /\ K(v).spelling = IF v.spelling = "nonsense" THEN "nonsense" ELSE "canonical"
        BY <1>1, <1>2
    <2> QED
        BY <1>1, <1>2, <2>1
<1>6. OneDevice(f, g) <=>
          f = g \/ (u.id = v.id /\ u.id # NULL
                    /\ (u.spelling = "nonsense" <=> v.spelling = "nonsense"))
    BY DEF OneDevice, u, v
<1> QED
    BY <1>3, <1>4, <1>5, <1>6

(* A finding adds its URIs to its device, and no others.                   *)
LEMMA UrisOfFold ==
    ASSUME NEW d \in Device, NEW f \in Finding
    PROVE  UrisOf(Fold(d, f)) = UrisOf(d) \cup UrisOfFinding(f)
<1>1. ToSet(Fold(d, f).endpoints) = ToSet(Endpoints(f)) \cup ToSet(d.endpoints)
    BY FoldIs, Zenon
<1>2. ToSet(Endpoints(f)) = {EndpointNew(f, a) : a \in ToSet(f.addrs)}
    BY EndpointsOfFinding, Zenon
<1>3. \A a : Uri(EndpointNew(f, a)) = <<f.tls, a, IF f.rs # NULL THEN f.rs ELSE f.rp>>
    BY DEF Uri, EndpointNew
<1>4. \A u : u \in UrisOfFinding(f) <=> \E e \in ToSet(Endpoints(f)) : u = Uri(e)
    BY <1>2, <1>3 DEF UrisOfFinding
<1> QED
    BY <1>1, <1>4 DEF UrisOf

(* What it is to be made of findings, part by part.                        *)
LEMMA MadeOfIs ==
    ASSUME NEW d, NEW fs
    PROVE  MadeOf(d, fs) <=>
             /\ UrisOf(d) = UNION {UrisOfFinding(f) : f \in fs}
             /\ d.scan <=> \E f \in fs : f.rs # NULL
             /\ d.model = NULL <=> \A f \in fs : f.model = NULL
BY DEF MadeOf, UrisOf, UrisOfFinding

(* A new device is made of the finding it comes from.                      *)
LEMMA MadeOfOne ==
    ASSUME NEW f \in Finding
    PROVE  MadeOf(Fold(DeviceNew(f), f), {f})
<1> DEFINE d == DeviceNew(f)
           c == Fold(d, f)
<1>1. d \in Device /\ UrisOf(d) = {} /\ d.model = f.model /\ d.scan = FALSE
    BY UuidOfFinding DEF DeviceNew, UrisOf, ToSet
<1>2. UrisOf(c) = UrisOf(d) \cup UrisOfFinding(f)
    BY <1>1, UrisOfFold, Zenon
<1>3. /\ c.model = (IF d.model = NULL THEN f.model ELSE d.model)
      /\ c.scan <=> d.scan \/ f.rs # NULL
    BY <1>1, FoldIs, Zenon
<1> HIDE DEF c, d
<1>4. UrisOf(c) = UNION {UrisOfFinding(g) : g \in {f}}
    BY <1>1, <1>2
<1>5. c.scan <=> \E g \in {f} : g.rs # NULL
    BY <1>1, <1>3
<1>6. c.model = NULL <=> \A g \in {f} : g.model = NULL
    BY <1>1, <1>3
<1>7. MadeOf(c, {f})
    BY <1>4, <1>5, <1>6, MadeOfIs
<1> QED
    BY <1>7 DEF c, d

(* A device, and one finding more.                                         *)
LEMMA MadeOfMore ==
    ASSUME NEW d \in Device, NEW fs, MadeOf(d, fs), NEW f \in Finding
    PROVE  MadeOf(Fold(d, f), fs \cup {f})
<1> DEFINE c == Fold(d, f)
<1>1. UrisOf(c) = UrisOf(d) \cup UrisOfFinding(f)
    BY UrisOfFold, Zenon
<1>2. /\ c.model = (IF d.model = NULL THEN f.model ELSE d.model)
      /\ c.scan <=> d.scan \/ f.rs # NULL
    BY FoldIs, Zenon
<1>3. /\ UrisOf(d) = UNION {UrisOfFinding(g) : g \in fs}
      /\ d.scan <=> \E g \in fs : g.rs # NULL
      /\ d.model = NULL <=> \A g \in fs : g.model = NULL
    BY MadeOfIs
<1> HIDE DEF c
<1>4. UrisOf(c) = UNION {UrisOfFinding(g) : g \in fs \cup {f}}
    BY <1>1, <1>3
<1>5. c.scan <=> \E g \in fs \cup {f} : g.rs # NULL
    BY <1>2, <1>3
<1>6. c.model = NULL <=> \A g \in fs \cup {f} : g.model = NULL
    BY <1>2, <1>3
<1>7. MadeOf(c, fs \cup {f})
    BY <1>4, <1>5, <1>6, MadeOfIs
<1> QED
    BY <1>7 DEF c

(* A finding that belongs to no device yet makes a new one.                *)
LEMMA FoldedNew ==
    ASSUME NEW l \in Seq(Device), NEW A, A \subseteq Finding, NEW h, Folded(l, A, h),
           NEW f \in Finding, f \notin A,
           \A i \in DOMAIN l : ~DeviceMatch(l[i], KnownBy(f)),
           NEW d, MadeOf(d, {f}), d.uuid = KnownBy(f), d.name = f.name,
           NEW m, DOMAIN m = 1 .. Len(l) + 1, m[1] = d,
           \A i \in DOMAIN l : m[i + 1] = l[i]
    PROVE  \E k : Folded(m, A \cup {f}, k)
<1> DEFINE n == Len(l)
           B == A \cup {f}
           k == [i \in 1 .. n + 1 |-> IF i = 1 THEN {f} ELSE h[i - 1]]
<1>1. n \in Nat /\ DOMAIN l = 1 .. n
    OBVIOUS
<1>2. /\ h \in [1 .. n -> SUBSET A]
      /\ \A i \in 1 .. n : h[i] # {} /\ MadeOf(l[i], h[i])
      /\ \A i \in 1 .. n : \A g \in h[i] :
           KnownBy(g) = l[i].uuid /\ \A x \in A : x \in h[i] <=> OneDevice(g, x)
      /\ \A g \in A : \E i \in 1 .. n : g \in h[i]
      /\ \A i, j \in 1 .. n : i # j => h[i] # h[j]
      /\ \A i \in 1 .. n : \E g \in h[i] : g.name = l[i].name
    BY <1>1 DEF Folded
<1>3. /\ DOMAIN m = 1 .. n + 1 /\ 1 \in 1 .. n + 1
      /\ \A i \in 1 .. n + 1 : i = 1 \/ (i - 1 \in 1 .. n /\ m[i] = l[i - 1])
      /\ \A i \in 1 .. n : i + 1 \in 1 .. n + 1 /\ i + 1 # 1
    <2>1. \A i \in 1 .. n + 1 : i = 1 \/ (i - 1 \in 1 .. n /\ (i - 1) + 1 = i)
        BY <1>1
    <2>2. \A i \in 1 .. n : m[i + 1] = l[i]
        BY <1>1
    <2>3. 1 \in 1 .. n + 1 /\ \A i \in 1 .. n : i + 1 \in 1 .. n + 1 /\ i + 1 # 1
        BY <1>1
    <2> HIDE DEF n
    <2>4. \A i \in 1 .. n + 1 : i = 1 \/ (i - 1 \in 1 .. n /\ m[i] = l[i - 1])
        BY <2>1, <2>2
    <2> QED
        BY <2>3, <2>4 DEF n
<1>4. /\ k[1] = {f} /\ DOMAIN k = 1 .. n + 1
      /\ \A i \in 1 .. n + 1 : i # 1 => k[i] = h[i - 1]
      /\ \A i \in 1 .. n : k[i + 1] = h[i]
    <2>1. \A i \in 1 .. n : (i + 1) - 1 = i
        BY <1>1
    <2> HIDE DEF n
    <2> QED
        BY <1>3, <2>1
<1>5. k \in [1 .. n + 1 -> SUBSET B]
    <2> HIDE DEF n
    <2> QED
        BY <1>2, <1>3
<1> HIDE DEF n, k
<1>6. \A x \in A : ~OneDevice(f, x) /\ ~OneDevice(x, f)
    <2> SUFFICES ASSUME NEW x \in A
                 PROVE  ~OneDevice(f, x) /\ ~OneDevice(x, f)
        OBVIOUS
    <2>1. PICK i \in 1 .. n : x \in h[i]
        BY <1>2
    <2>2. KnownBy(x) = l[i].uuid
        BY <1>2, <2>1
    <2>3. ~(KnownBy(x) = KnownBy(f) /\ KnownBy(f) # NoUuid)
        BY <1>1, <2>2 DEF DeviceMatch
    <2>4. x # f /\ x \in Finding
        OBVIOUS
    <2> QED
        BY <2>3, <2>4, OneDeviceIs
<1>7. \A i \in 1 .. n + 1 : k[i] # {} /\ MadeOf(m[i], k[i])
    <2> SUFFICES ASSUME NEW i \in 1 .. n + 1
                 PROVE  k[i] # {} /\ MadeOf(m[i], k[i])
        OBVIOUS
    <2>1. CASE i = 1
        BY <1>4, <2>1
    <2>2. CASE i # 1
        <3>1. i - 1 \in 1 .. n /\ m[i] = l[i - 1] /\ k[i] = h[i - 1]
            BY <1>3, <1>4, <2>2
        <3> QED
            BY <1>2, <3>1
    <2> QED
        BY <2>1, <2>2
<1>8. ASSUME NEW i \in 1 .. n + 1, NEW g \in k[i]
      PROVE  KnownBy(g) = m[i].uuid /\ \A x \in B : x \in k[i] <=> OneDevice(g, x)
    <2>1. CASE i = 1
        <3>1. g = f /\ m[i] = d /\ k[i] = {f}
            BY <1>4, <1>8, <2>1
        <3>2. OneDevice(f, f)
            BY DEF OneDevice
        <3> QED
            BY <1>6, <3>1, <3>2
    <2>2. CASE i # 1
        <3>1. /\ i - 1 \in 1 .. n /\ m[i] = l[i - 1] /\ k[i] = h[i - 1]
            BY <1>3, <1>4, <2>2
        <3>2. KnownBy(g) = m[i].uuid /\ \A x \in A : x \in k[i] <=> OneDevice(g, x)
            BY <1>2, <1>8, <3>1
        <3>3. f \notin k[i] /\ g \in A
            BY <1>2, <1>8, <3>1
        <3> QED
            BY <1>6, <3>2, <3>3
    <2> QED
        BY <2>1, <2>2
<1>9. \A g \in B : \E i \in 1 .. n + 1 : g \in k[i]
    <2>1. \A g \in A : \E i \in 1 .. n + 1 : g \in k[i]
        BY <1>2, <1>3, <1>4
    <2> QED
        BY <1>3, <1>4, <2>1
<1>10. \A i, j \in 1 .. n + 1 : i # j => k[i] # k[j]
    <2> SUFFICES ASSUME NEW i \in 1 .. n + 1, NEW j \in 1 .. n + 1, i # j
                 PROVE  k[i] # k[j]
        OBVIOUS
    <2>1. \A a \in 1 .. n + 1 : a # 1 => f \notin k[a]
        BY <1>2, <1>3, <1>4
    <2>2. CASE i = 1 \/ j = 1
        BY <1>4, <2>1, <2>2
    <2>3. CASE i # 1 /\ j # 1
        <3>1. i - 1 \in 1 .. n /\ j - 1 \in 1 .. n /\ i - 1 # j - 1
            BY <1>1, <1>3, <2>3
        <3> QED
            BY <1>2, <1>4, <2>3, <3>1
    <2> QED
        BY <2>2, <2>3
<1>11. \A i \in 1 .. n + 1 : \E g \in k[i] : g.name = m[i].name
    <2> SUFFICES ASSUME NEW i \in 1 .. n + 1
                 PROVE  \E g \in k[i] : g.name = m[i].name
        OBVIOUS
    <2>1. CASE i = 1
        BY <1>4, <2>1
    <2>2. CASE i # 1
        <3>1. i - 1 \in 1 .. n /\ m[i] = l[i - 1] /\ k[i] = h[i - 1]
            BY <1>3, <1>4, <2>2
        <3> QED
            BY <1>2, <3>1
    <2> QED
        BY <2>1, <2>2
<1>12. Folded(m, B, k)
    <2>1. DOMAIN m = 1 .. n + 1
        BY <1>3
    <2> HIDE DEF B
    <2> QED
        BY <2>1, <1>5, <1>7, <1>8, <1>9, <1>10, <1>11 DEF Folded
<1> QED
    BY <1>12

(* A finding of a device there is goes with the others of that device.     *)
LEMMA FoldedOld ==
    ASSUME NEW l \in Seq(Device), Distinct(l), NEW A, A \subseteq Finding,
           NEW h, Folded(l, A, h),
           NEW f \in Finding, f \notin A, NEW c \in DOMAIN l, DeviceMatch(l[c], KnownBy(f)),
           NEW d, MadeOf(d, h[c] \cup {f}), d.uuid = l[c].uuid, d.name = l[c].name
    PROVE  \E k : Folded([l EXCEPT ![c] = d], A \cup {f}, k)
<1> DEFINE D == DOMAIN l
           m == [l EXCEPT ![c] = d]
           B == A \cup {f}
           k == [h EXCEPT ![c] = h[c] \cup {f}]
<1>1. /\ h \in [D -> SUBSET A]
      /\ \A i \in D : h[i] # {} /\ MadeOf(l[i], h[i])
      /\ \A i \in D : \A g \in h[i] :
           KnownBy(g) = l[i].uuid /\ \A x \in A : x \in h[i] <=> OneDevice(g, x)
      /\ \A g \in A : \E i \in D : g \in h[i]
      /\ \A i, j \in D : i # j => h[i] # h[j]
      /\ \A i \in D : \E g \in h[i] : g.name = l[i].name
    BY DEF Folded
<1>2. DOMAIN m = D /\ m[c] = d /\ \A i \in D : i # c => m[i] = l[i]
    OBVIOUS
<1>3. /\ k \in [D -> SUBSET B] /\ k[c] = h[c] \cup {f}
      /\ \A i \in D : i # c => k[i] = h[i]
    BY <1>1
<1>4. l[c].uuid = KnownBy(f) /\ KnownBy(f) # NoUuid
    BY DEF DeviceMatch
<1>5. \A i \in D : l[i].uuid = KnownBy(f) => i = c
    BY <1>4 DEF Distinct
<1>6. \A x \in A : OneDevice(f, x) <=> KnownBy(x) = KnownBy(f)
    <2> SUFFICES ASSUME NEW x \in A
                 PROVE  OneDevice(f, x) <=> KnownBy(x) = KnownBy(f)
        OBVIOUS
    <2>1. x # f /\ x \in Finding
        OBVIOUS
    <2> QED
        BY <1>4, <2>1, OneDeviceIs
<1>7. \A x \in A : OneDevice(x, f) <=> KnownBy(x) = KnownBy(f)
    <2> SUFFICES ASSUME NEW x \in A
                 PROVE  OneDevice(x, f) <=> KnownBy(x) = KnownBy(f)
        OBVIOUS
    <2>1. x # f /\ x \in Finding
        OBVIOUS
    <2> QED
        BY <1>4, <2>1, OneDeviceIs
<1>8. OneDevice(f, f)
    BY DEF OneDevice
<1> HIDE DEF D, m, k
<1>9. c \in D
    BY DEF D
<1>10. \A i \in D : k[i] # {} /\ MadeOf(m[i], k[i])
    <2> SUFFICES ASSUME NEW i \in D
                 PROVE  k[i] # {} /\ MadeOf(m[i], k[i])
        OBVIOUS
    <2>1. CASE i = c
        BY <1>2, <1>3, <2>1
    <2>2. CASE i # c
        BY <1>1, <1>2, <1>3, <2>2
    <2> QED
        BY <2>1, <2>2
<1>11. ASSUME NEW i \in D, NEW g \in k[i]
       PROVE  KnownBy(g) = m[i].uuid /\ \A x \in B : x \in k[i] <=> OneDevice(g, x)
    <2>1. CASE i # c
        <3>1. k[i] = h[i] /\ m[i] = l[i] /\ g \in h[i] /\ g \in A /\ f \notin h[i]
            BY <1>1, <1>2, <1>3, <1>11, <2>1
        <3>2. KnownBy(g) = l[i].uuid /\ \A x \in A : x \in h[i] <=> OneDevice(g, x)
            BY <1>1, <3>1
        <3>3. ~OneDevice(g, f)
            BY <1>5, <1>7, <2>1, <3>1, <3>2
        <3> QED
            BY <3>1, <3>2, <3>3
    <2>2. CASE i = c /\ g \in h[c]
        <3>1. k[i] = h[c] \cup {f} /\ m[i] = d /\ g \in A
            BY <1>1, <1>2, <1>3, <1>9, <2>2
        <3>2. KnownBy(g) = l[c].uuid /\ \A x \in A : x \in h[c] <=> OneDevice(g, x)
            BY <1>1, <1>9, <2>2
        <3>3. OneDevice(g, f)
            BY <1>4, <1>7, <3>1, <3>2
        <3>4. \A x \in B : x \in k[i] <=> OneDevice(g, x)
            BY <3>1, <3>2, <3>3
        <3> QED
            BY <3>1, <3>2, <3>4
    <2>3. CASE i = c /\ g = f
        <3>1. k[i] = h[c] \cup {f} /\ m[i] = d
            BY <1>2, <1>3, <2>3
        <3>2. \A x \in A : x \in h[c] <=> KnownBy(x) = KnownBy(f)
            <4> SUFFICES ASSUME NEW x \in A
                         PROVE  x \in h[c] <=> KnownBy(x) = KnownBy(f)
                OBVIOUS
            <4>1. PICK j \in D : x \in h[j]
                BY <1>1
            <4>2. KnownBy(x) = l[j].uuid
                BY <1>1, <4>1
            <4>3. x \in h[c] => KnownBy(x) = l[c].uuid
                BY <1>1, <1>9
            <4> QED
                BY <1>4, <1>5, <4>1, <4>2, <4>3
        <3>3. \A x \in B : x \in k[i] <=> OneDevice(f, x)
            BY <1>6, <1>8, <3>1, <3>2
        <3> QED
            BY <1>4, <2>3, <3>1, <3>3
    <2>4. i = c => g \in h[c] \/ g = f
        BY <1>3, <1>11
    <2> QED
        BY <2>1, <2>2, <2>3, <2>4
<1>12. \A g \in B : \E i \in D : g \in k[i]
    <2>1. \A i \in D : h[i] \subseteq k[i]
        <3> SUFFICES ASSUME NEW i \in D
                     PROVE  h[i] \subseteq k[i]
            OBVIOUS
        <3>1. CASE i = c
            BY <1>3, <3>1
        <3>2. CASE i # c
            BY <1>3, <3>2
        <3> QED
            BY <3>1, <3>2
    <2>2. \A g \in A : \E i \in D : g \in k[i]
        BY <1>1, <2>1
    <2> QED
        BY <1>3, <1>9, <2>2
<1>13. \A i, j \in D : i # j => k[i] # k[j]
    <2> SUFFICES ASSUME NEW i \in D, NEW j \in D, i # j
                 PROVE  k[i] # k[j]
        OBVIOUS
    <2>1. \A a \in D : f \in k[a] <=> a = c
        BY <1>1, <1>3
    <2>2. CASE i = c \/ j = c
        BY <2>1, <2>2
    <2>3. CASE i # c /\ j # c
        BY <1>1, <1>3, <2>3
    <2> QED
        BY <2>2, <2>3
<1>14. \A i \in D : \E g \in k[i] : g.name = m[i].name
    <2> SUFFICES ASSUME NEW i \in D
                 PROVE  \E g \in k[i] : g.name = m[i].name
        OBVIOUS
    <2>1. PICK g \in h[i] : g.name = l[i].name
        BY <1>1
    <2>2. CASE i = c
        BY <1>2, <1>3, <2>1, <2>2
    <2>3. CASE i # c
        BY <1>2, <1>3, <2>1, <2>3
    <2> QED
        BY <2>2, <2>3
<1>15. Folded(m, B, k)
    BY <1>2, <1>3, <1>10, <1>11, <1>12, <1>13, <1>14 DEF Folded
<1> QED
    BY <1>15 DEF m

(* The devices in another order.                                           *)
LEMMA FoldedPermuted ==
    ASSUME NEW l \in Seq(Device), NEW A, NEW h, Folded(l, A, h),
           NEW p \in Injection(DOMAIN l, DOMAIN l)
    PROVE  \E k : Folded([i \in DOMAIN l |-> l[p[i]]], A, k)
<1> DEFINE D == DOMAIN l
           m == [i \in D |-> l[p[i]]]
           k == [i \in D |-> h[p[i]]]
<1>1. p \in [D -> D] /\ \A i, j \in D : i # j => p[i] # p[j]
    BY DEF Injection, IsInjective
<1>2. \A j \in D : \E i \in D : p[i] = j
    <2>1. \A j \in DOMAIN l : \E i \in DOMAIN l : p[i] = j
        BY PermutedIs
    <2> QED
        BY <2>1
<1>3. /\ h \in [D -> SUBSET A]
      /\ \A i \in D : h[i] # {} /\ MadeOf(l[i], h[i])
      /\ \A i \in D : \A g \in h[i] :
           KnownBy(g) = l[i].uuid /\ \A x \in A : x \in h[i] <=> OneDevice(g, x)
      /\ \A g \in A : \E i \in D : g \in h[i]
      /\ \A i, j \in D : i # j => h[i] # h[j]
      /\ \A i \in D : \E g \in h[i] : g.name = l[i].name
    BY DEF Folded
<1> HIDE DEF D
<1>4. k \in [D -> SUBSET A] /\ \A i \in D : k[i] = h[p[i]] /\ m[i] = l[p[i]] /\ p[i] \in D
    BY <1>1, <1>3
<1>5. DOMAIN m = D
    OBVIOUS
<1> HIDE DEF k, m
<1>6. \A g \in A : \E i \in D : g \in k[i]
    <2> SUFFICES ASSUME NEW g \in A
                 PROVE  \E i \in D : g \in k[i]
        OBVIOUS
    <2>1. PICK j \in D : g \in h[j]
        BY <1>3
    <2>2. PICK i \in D : p[i] = j
        BY <1>2
    <2> QED
        BY <1>4, <2>1, <2>2
<1>7. \A i, j \in D : i # j => k[i] # k[j]
    BY <1>1, <1>3, <1>4
<1>8. \A i \in D : k[i] # {} /\ MadeOf(m[i], k[i])
    BY <1>3, <1>4
<1>9. \A i \in D : \A g \in k[i] :
          KnownBy(g) = m[i].uuid /\ \A x \in A : x \in k[i] <=> OneDevice(g, x)
    BY <1>3, <1>4
<1>10. \A i \in D : \E g \in k[i] : g.name = m[i].name
    <2> SUFFICES ASSUME NEW i \in D
                 PROVE  \E g \in k[i] : g.name = m[i].name
        OBVIOUS
    <2>1. k[i] = h[p[i]] /\ m[i] = l[p[i]] /\ p[i] \in D
        BY <1>4
    <2>2. PICK g \in h[p[i]] : g.name = l[p[i]].name
        BY <1>3, <2>1
    <2> QED
        BY <2>1, <2>2
<1>11. Folded(m, A, k)
    BY <1>4, <1>5, <1>6, <1>7, <1>8, <1>9, <1>10 DEF Folded
<1> QED
    BY <1>11 DEF m, D

(* A device changed, but not in what its findings made of it.              *)
LEMMA FoldedUpdated ==
    ASSUME NEW l \in Seq(Device), NEW A, NEW h, Folded(l, A, h), NEW c \in DOMAIN l, NEW d,
           d.name = l[c].name, d.uuid = l[c].uuid, d.scan = l[c].scan, d.model = l[c].model,
           ToSet(d.endpoints) = ToSet(l[c].endpoints)
    PROVE  Folded([l EXCEPT ![c] = d], A, h)
<1> DEFINE m == [l EXCEPT ![c] = d]
<1>1. DOMAIN m = DOMAIN l /\ \A i \in DOMAIN l : m[i] = IF i = c THEN d ELSE l[i]
    OBVIOUS
<1> HIDE DEF m
<1>2. \A i \in DOMAIN l : m[i].uuid = l[i].uuid /\ m[i].name = l[i].name
    BY <1>1
<1>3. \A fs : MadeOf(l[c], fs) => MadeOf(d, fs)
    <2>1. UrisOf(d) = UrisOf(l[c])
        BY DEF UrisOf
    <2> QED
        BY <2>1, MadeOfIs
<1>4. \A i \in DOMAIN l : MadeOf(m[i], h[i])
    BY <1>1, <1>3 DEF Folded
<1>5. /\ h \in [DOMAIN l -> SUBSET A]
      /\ \A i \in DOMAIN l : h[i] # {}
      /\ \A i \in DOMAIN l : \A f \in h[i] :
           KnownBy(f) = l[i].uuid /\ \A g \in A : g \in h[i] <=> OneDevice(f, g)
      /\ \A i \in DOMAIN l : \E f \in h[i] : f.name = l[i].name
      /\ \A f \in A : \E i \in DOMAIN l : f \in h[i]
      /\ \A i, j \in DOMAIN l : i # j => h[i] # h[j]
    BY DEF Folded
<1>6. \A i \in DOMAIN l : \A f \in h[i] :
          KnownBy(f) = m[i].uuid /\ \A g \in A : g \in h[i] <=> OneDevice(f, g)
    BY <1>2, <1>5
<1>7. \A i \in DOMAIN l : \E f \in h[i] : f.name = m[i].name
    BY <1>2, <1>5
<1>8. DOMAIN m = DOMAIN l
    BY <1>1
<1>9. Folded(m, A, h)
    BY <1>4, <1>5, <1>6, <1>7, <1>8 DEF Folded
<1> QED
    BY <1>9 DEF m

(* One finding more: it is one answered or it is not.                      *)
LEMMA AnsweredMore ==
    ASSUME FoundOnce, found # <<>>
    PROVE  LET f == Head(found)
               A == Answered(heard \ ToSet(found))
               B == Answered(heard \ ToSet(Tail(found)))
           IN  /\ f \in Finding /\ f \notin A /\ A \subseteq Finding
               /\ B = IF f.resolved /\ f.addrs # <<>> THEN A \cup {f} ELSE A
<1> DEFINE f == Head(found)
           T == ToSet(Tail(found))
           F == heard \ ToSet(found)
           G == heard \ T
<1>1. f \in heard /\ f \in Finding /\ ToSet(found) = T \cup {f} /\ f \notin T
    BY HeadOfFound, Zenon
<1>2. heard \subseteq Finding
    BY DEF FoundOnce
<1> HIDE DEF f, T
<1>3. G = F \cup {f} /\ f \notin F /\ F \subseteq Finding
    BY <1>1, <1>2
<1> HIDE DEF F, G
<1>4. f \notin Answered(F) /\ Answered(F) \subseteq Finding
    BY <1>3 DEF Answered
<1>5. Answered(G) = IF f.resolved /\ f.addrs # <<>> THEN Answered(F) \cup {f} ELSE Answered(F)
    BY <1>3 DEF Answered
<1> QED
    BY <1>1, <1>4, <1>5 DEF f, T, F, G

(* DeviceMerge() either way.                                               *)
LEMMA FoldedMerge ==
    ASSUME list \in Seq(Device), Distinct(list), NEW A, A \subseteq Finding,
           NEW h, Folded(list, A, h), NEW f \in Finding, f \notin A
    PROVE  \E k : Folded(DeviceMerge(f), A \cup {f}, k)
<1>1. CASE Matching(f) = {} /\ DeviceMerge(f) = <<Fold(DeviceNew(f), f)>> \o list
    <2> DEFINE d == Fold(DeviceNew(f), f)
               m == <<d>> \o list
    <2>1. d \in Device /\ d.uuid = KnownBy(f) /\ d.name = f.name
        <3>1. /\ DeviceNew(f) \in Device /\ DeviceNew(f).uuid = KnownBy(f)
              /\ DeviceNew(f).name = f.name
            BY UuidOfFinding DEF DeviceNew
        <3> QED
            BY <3>1, FoldIs
    <2>2. MadeOf(d, {f})
        BY MadeOfOne
    <2> HIDE DEF d
    <2>3. <<d>> \in Seq(Device) /\ Len(<<d>>) = 1 /\ <<d>>[1] = d
        BY <2>1
    <2>4. /\ m \in Seq(Device) /\ Len(m) = 1 + Len(list)
          /\ \A i \in 1 .. Len(m) : m[i] = IF i <= 1 THEN <<d>>[i] ELSE list[i - 1]
        BY <2>3, ConcatProperties
    <2> HIDE DEF m
    <2>5. DOMAIN m = 1 .. Len(list) + 1 /\ m[1] = d
          /\ \A i \in DOMAIN list : m[i + 1] = list[i]
        <3> DEFINE n == Len(list)
        <3>1. n \in Nat /\ DOMAIN list = 1 .. n
            OBVIOUS
        <3>2. DOMAIN m = 1 .. n + 1
            BY <2>4, <3>1
        <3>3. m[1] = d
            BY <2>3, <2>4, <3>1
        <3>4. \A i \in 1 .. n : i + 1 \in 1 .. Len(m) /\ ~(i + 1 <= 1) /\ (i + 1) - 1 = i
            BY <2>4, <3>1
        <3> HIDE DEF n
        <3>5. \A i \in 1 .. n : m[i + 1] = list[i]
            BY <2>4, <3>4
        <3> QED
            BY <3>1, <3>2, <3>3, <3>5 DEF n
    <2>6. \A i \in DOMAIN list : ~DeviceMatch(list[i], KnownBy(f))
        BY <1>1 DEF Matching
    <2>7. \E k : Folded(m, A \cup {f}, k)
        BY <2>1, <2>2, <2>5, <2>6, FoldedNew
    <2> QED
        BY <1>1, <2>7 DEF d, m
<1>2. ASSUME NEW c \in DOMAIN list, Matching(f) = {c},
             DeviceMerge(f) = [list EXCEPT ![c] = Fold(list[c], f)]
      PROVE  \E k : Folded(DeviceMerge(f), A \cup {f}, k)
    <2> DEFINE d == Fold(list[c], f)
    <2>1. DeviceMatch(list[c], KnownBy(f))
        BY <1>2 DEF Matching
    <2>2. list[c] \in Device /\ MadeOf(list[c], h[c])
        BY DEF Folded
    <2>3. MadeOf(d, h[c] \cup {f}) /\ d.uuid = list[c].uuid /\ d.name = list[c].name
        BY <2>2, MadeOfMore, FoldIs
    <2> HIDE DEF d
    <2>4. \E k : Folded([list EXCEPT ![c] = d], A \cup {f}, k)
        BY <2>1, <2>3, FoldedOld
    <2> QED
        BY <1>2, <2>4 DEF d
<1> QED
    BY <1>1, <1>2, MergeIs

(* Every step of every call keeps the devices those of the findings folded *)
(* so far.                                                                 *)
LEMMA FoldStep ==
    ASSUME FoldInv, OrderInv, DevicesInv, Distinct(list), [Next]_vars
    PROVE  FoldInv'
<1>0. CallInv /\ FoundOnce /\ list \in Seq(Device)
    BY DEF DevicesInv, CallInv
<1>1. CASE ZcBegin
    <2>1. list = <<>> /\ heard = {}
        BY <1>0, <1>1 DEF ZcBegin, CallInv
    <2>2. CASE zc' # "merge"
        <3>1. heard' = {} /\ zc' \in {"ready", "failed"}
            BY <1>1, <2>1, <2>2 DEF ZcBegin
        <3> QED
            BY <3>1 DEF FoldInv
    <2>3. CASE zc' = "merge"
        <3>1. list' = <<>> /\ heard' = ToSet(found')
            BY <1>1, <2>1, <2>3 DEF ZcBegin
        <3>2. Answered(heard' \ ToSet(found')) = {}
            BY <3>1 DEF Answered
        <3> DEFINE h == [i \in DOMAIN <<>> |-> {}]
        <3>3. Folded(<<>>, {}, h)
            BY DEF Folded
        <3>4. \E k : Folded(list', Answered(heard' \ ToSet(found')), k)
            <4> HIDE DEF h
            <4> QED
                BY <3>1, <3>2, <3>3
        <3> QED
            BY <3>4 DEF FoldInv
    <2> QED
        BY <2>2, <2>3
<1>2. CASE ZcEnd
    BY <1>2 DEF ZcEnd, FoldInv
<1>3. CASE ZcMerge
    <2> DEFINE f == Head(found)
               A == Answered(heard \ ToSet(found))
               B == Answered(heard \ ToSet(Tail(found)))
    <2>1. /\ zc = "merge" /\ found # <<>> /\ found' = Tail(found) /\ heard' = heard
          /\ list' = IF f.resolved /\ f.addrs # <<>> THEN DeviceMerge(f) ELSE list
        BY <1>3 DEF ZcMerge
    <2>2. /\ f \in Finding /\ f \notin A /\ A \subseteq Finding
          /\ B = IF f.resolved /\ f.addrs # <<>> THEN A \cup {f} ELSE A
        BY <1>0, <2>1, AnsweredMore
    <2>3. PICK h : Folded(list, A, h)
        BY <2>1 DEF FoldInv
    <2>4. Answered(heard' \ ToSet(found')) = B
        BY <2>1
    <2> HIDE DEF f, A, B
    <2>5. \E k : Folded(list', B, k)
        <3>1. CASE f.resolved /\ f.addrs # <<>>
            <4>1. list' = DeviceMerge(f) /\ B = A \cup {f}
                BY <2>1, <2>2, <3>1
            <4>2. \E k : Folded(DeviceMerge(f), A \cup {f}, k)
                BY <1>0, <2>2, <2>3, FoldedMerge
            <4> QED
                BY <4>1, <4>2
        <3>2. CASE ~(f.resolved /\ f.addrs # <<>>)
            BY <2>1, <2>2, <2>3, <3>2
        <3> QED
            BY <3>1, <3>2
    <2> QED
        BY <2>4, <2>5 DEF FoldInv
<1>4. CASE ZcSort
    <2>1. zc = "merge" /\ found' = found /\ heard' = heard
        BY <1>4 DEF ZcSort
    <2>2. PICK p \in Injection(DOMAIN list, DOMAIN list) :
              list' = [i \in DOMAIN list |-> list[p[i]]]
        BY <1>4 DEF ZcSort, Sorted
    <2> DEFINE A == Answered(heard \ ToSet(found))
    <2>3. PICK h : Folded(list, A, h)
        BY <2>1 DEF FoldInv
    <2>4. Answered(heard' \ ToSet(found')) = A
        BY <2>1
    <2> HIDE DEF A
    <2>5. \E k : Folded(list', A, k)
        BY <1>0, <2>2, <2>3, FoldedPermuted
    <2> QED
        BY <2>4, <2>5 DEF FoldInv
<1>5. CASE ZcDedup
    <2>1. zc = "dedup" /\ found' = found /\ heard' = heard /\ turn \in DOMAIN list
        BY <1>5 DEF ZcDedup
    <2>2. PICK d \in EndpointListSortDedup(list[turn]) : list' = [list EXCEPT ![turn] = d]
        BY <1>5 DEF ZcDedup
    <2>3. list[turn] \in Device /\ \A e \in ToSet(list[turn].endpoints) : MadeHere(e)
        BY <1>0, <2>1 DEF OrderInv
    <2>4. /\ d.uuid = list[turn].uuid /\ d.scan = list[turn].scan
          /\ d.model = list[turn].model /\ d.name = list[turn].name
        BY <2>2, <2>3, SortDedupIs
    <2>5. ToSet(d.endpoints) = ToSet(list[turn].endpoints)
        BY <2>2, <2>3, SortDedupInOrder
    <2> DEFINE A == Answered(heard \ ToSet(found))
    <2>6. PICK h : Folded(list, A, h)
        BY <2>1 DEF FoldInv
    <2>7. Answered(heard' \ ToSet(found')) = A
        BY <2>1
    <2> HIDE DEF A
    <2>8. Folded(list', A, h)
        BY <1>0, <2>1, <2>2, <2>4, <2>5, <2>6, FoldedUpdated
    <2> QED
        BY <2>7, <2>8 DEF FoldInv
<1>6. CASE ZcReturn
    <2>1. zc = "dedup" /\ found' = found /\ heard' = heard /\ list' = list
          /\ zc' = "ready"
        BY <1>6 DEF ZcReturn
    <2> DEFINE A == Answered(heard \ ToSet(found))
    <2>2. Answered(heard' \ ToSet(found')) = A
        BY <2>1
    <2>3. zc' \in {"merge", "dedup"} \/ (zc' = "ready" /\ heard' # {}) => \E h : Folded(list', A, h)
        BY <2>1 DEF FoldInv
    <2> HIDE DEF A
    <2> QED
        BY <2>2, <2>3 DEF FoldInv
<1>7. CASE UNCHANGED zcVars
    <2>1. zc' = zc /\ found' = found /\ heard' = heard /\ list' = list
        BY <1>7 DEF zcVars
    <2> DEFINE A == Answered(heard \ ToSet(found))
    <2>2. Answered(heard' \ ToSet(found')) = A
        BY <2>1
    <2>3. zc' \in {"merge", "dedup"} \/ (zc' = "ready" /\ heard' # {}) => \E h : Folded(list', A, h)
        BY <2>1 DEF FoldInv
    <2> HIDE DEF A
    <2> QED
        BY <2>2, <2>3 DEF FoldInv
<1> QED
    BY <1>1, <1>2, <1>3, <1>4, <1>5, <1>6, <1>7, ZcSteps DEF ZcStep

(* At every point of a discovery the devices are those of the findings     *)
(* folded so far, each of which is in one of them.                         *)
THEOREM FoldInvariant == Spec => []FoldInv
<1>1. Init => FoldInv
    BY DEF Init, ZcInit, FoldInv
<1>2. FoldInv /\ OrderInv /\ DevicesInv /\ Distinct(list) /\ [Next]_vars => FoldInv'
    BY FoldStep
<1>3. QED
    BY <1>1, <1>2, OrderInvariant, DevicesInvariant, DistinctInvariant, PTL DEF Spec

(* There are as many devices as groups of findings, and each group has its *)
(* device.                                                                 *)
LEMMA FoldedIsAll ==
    ASSUME NEW l \in Seq(Device), NEW A, NEW h, Folded(l, A, h)
    PROVE  LET groups == {{g \in A : OneDevice(f, g)} : f \in A}
           IN  /\ Len(l) = Cardinality(groups)
               /\ \A fs \in groups : \E d \in ToSet(l) : MadeOf(d, fs)
<1> DEFINE n == Len(l)
           groups == {{g \in A : OneDevice(f, g)} : f \in A}
<1>1. n \in Nat /\ DOMAIN l = 1 .. n
    OBVIOUS
<1>2. /\ h \in [1 .. n -> SUBSET A]
      /\ \A i \in 1 .. n : h[i] # {} /\ MadeOf(l[i], h[i])
      /\ \A i \in 1 .. n : \A f \in h[i] : \A g \in A : g \in h[i] <=> OneDevice(f, g)
      /\ \A f \in A : \E i \in 1 .. n : f \in h[i]
      /\ \A i, j \in 1 .. n : i # j => h[i] # h[j]
    BY <1>1 DEF Folded
<1> HIDE DEF n
<1>3. \A i \in 1 .. n : \A f \in h[i] : h[i] = {g \in A : OneDevice(f, g)}
    BY <1>2
<1>4. \A i \in 1 .. n : h[i] \in groups
    <2> SUFFICES ASSUME NEW i \in 1 .. n
                 PROVE  h[i] \in groups
        OBVIOUS
    <2>1. PICK f \in h[i] : TRUE
        BY <1>2
    <2>2. f \in A /\ h[i] = {g \in A : OneDevice(f, g)}
        BY <1>2, <1>3
    <2> QED
        BY <2>2
<1>5. \A fs \in groups : \E i \in 1 .. n : h[i] = fs
    <2> SUFFICES ASSUME NEW f \in A
                 PROVE  \E i \in 1 .. n : h[i] = {g \in A : OneDevice(f, g)}
        OBVIOUS
    <2>1. PICK i \in 1 .. n : f \in h[i]
        BY <1>2
    <2> QED
        BY <1>3, <2>1
<1> HIDE DEF groups
<1>6. h \in Bijection(1 .. n, groups)
    <2>1. h \in [1 .. n -> groups]
        BY <1>2, <1>4
    <2> QED
        BY <1>2, <1>5, <2>1 DEF Bijection, Injection, Surjection, IsInjective
<1>7. Cardinality(groups) = n
    BY <1>1, <1>6, FS_CountingElements DEF ExistsBijection
<1>8. \A fs \in groups : \E d \in ToSet(l) : MadeOf(d, fs)
    <2> SUFFICES ASSUME NEW fs \in groups
                 PROVE  \E d \in ToSet(l) : MadeOf(d, fs)
        OBVIOUS
    <2>1. PICK i \in 1 .. n : h[i] = fs
        BY <1>5
    <2>2. l[i] \in ToSet(l) /\ MadeOf(l[i], fs)
        BY <1>1, <1>2, <2>1 DEF ToSet
    <2> QED
        BY <2>2
<1> QED
    BY <1>7, <1>8 DEF n, groups

(* ipp_zeroconf_discover(): whatever the network reports and in whatever   *)
(* order, every finding that was answered went into one device, with the   *)
(* others of its UUID and no others, each device has all the addresses of  *)
(* its findings, and there is no device without a finding.                 *)
THEOREM NoFindingIsLost == Spec => []FindingsAreFolded
<1>1. FoldInv /\ DevicesInv => FindingsAreFolded
    <2> SUFFICES ASSUME FoldInv, DevicesInv, zc = "ready", heard # {}
                 PROVE  LET answered == {f \in heard : f.resolved /\ f.addrs # <<>>}
                            groups   == {{g \in answered : OneDevice(f, g)} : f \in answered}
                        IN  /\ Len(list) = Cardinality(groups)
                            /\ \A fs \in groups : \E d \in ToSet(list) : MadeOf(d, fs)
        BY DEF FindingsAreFolded
    <2>1. found = <<>> /\ list \in Seq(Device)
        BY DEF DevicesInv, CallInv
    <2>2. heard \ ToSet(found) = heard
        BY <2>1 DEF ToSet
    <2>3. PICK h : Folded(list, Answered(heard), h)
        BY <2>2 DEF FoldInv
    <2> DEFINE A == Answered(heard)
    <2>4. A = {f \in heard : f.resolved /\ f.addrs # <<>>}
        BY DEF Answered
    <2> HIDE DEF A
    <2>5. LET groups == {{g \in A : OneDevice(f, g)} : f \in A}
          IN  /\ Len(list) = Cardinality(groups)
              /\ \A fs \in groups : \E d \in ToSet(list) : MadeOf(d, fs)
        BY <2>1, <2>3, FoldedIsAll DEF A
    <2> QED
        BY <2>4, <2>5
<1>2. QED
    BY <1>1, FoldInvariant, DevicesInvariant, PTL

-----------------------------------------------------------------------------
(* One device at a time                                                    *)

(* With one handle there is none while a device is being opened.           *)
TracedInv ==
    /\ handles \subseteq Slot
    /\ \A s \in handles : s \in traced => trace = s
    /\ call \in {"open", "try"} =>
         handles = {} /\ slot \in Slot /\ (slot \in traced => trace = slot)

(* sane-ipp.c, 450-452: a frontend that has one device open at a time finds*)
(* everything that happens to it in its trace file, if the file could be   *)
(* opened at all.  With two devices it is not so.                          *)
THEOREM OneTraceFollowsItsDevice ==
    ASSUME \A s, t \in Slot : s = t
    PROVE  Spec => []TraceFollowsTheDevice
<1>1. Init => TracedInv
    BY DEF Init, TracedInv
<1>2. TracedInv /\ [Next]_vars => TracedInv'
    <2> SUFFICES ASSUME TracedInv, [Next]_vars
                 PROVE  TracedInv'
        OBVIOUS
    <2> USE DEF TracedInv
    <2>1. CASE SaneInit
        BY <2>1 DEF SaneInit
    <2>2. CASE SaneExit
        BY <2>2 DEF SaneExit
    <2>3. CASE GetDevices
        BY <2>3 DEF GetDevices
    <2>4. CASE GetFailed \/ GetDone \/ GetNoMem
        BY <2>4 DEF GetFailed, GetDone, GetNoMem
    <2>5. CASE OpenDevice
        BY <2>5 DEF OpenDevice, TraceOpen
    <2>6. CASE OpenUri
        BY <2>6 DEF OpenUri, TraceOpen
    <2>7. CASE OpenFailed \/ OpenNoDevice \/ OpenGiveUp
        BY <2>7 DEF OpenFailed, OpenNoDevice, OpenGiveUp, OpenReturn, TraceClose
    <2>8. CASE OpenFind
        BY <2>8 DEF OpenFind
    <2>9. CASE OpenNextEndpoint
        BY <2>9 DEF OpenNextEndpoint
    <2>10. CASE OpenGood
        BY <2>10 DEF OpenGood, OpenReturn
    <2>11. CASE SaneClose
        BY <2>11 DEF SaneClose, TraceClose
    <2>12. CASE Discovering \/ UNCHANGED vars
        BY <2>12 DEF Discovering, saneVars, vars
    <2> QED
        BY <2>1, <2>2, <2>3, <2>4, <2>5, <2>6, <2>7, <2>8, <2>9, <2>10, <2>11, <2>12 DEF Next
<1>3. TracedInv => TraceFollowsTheDevice
    BY DEF TracedInv, TraceFollowsTheDevice
<1>4. QED
    BY <1>1, <1>2, <1>3, PTL DEF Spec

-----------------------------------------------------------------------------
(* The order of the SANE list                                              *)

(* What the loop over the devices has taken of the first i.                *)
TakenOf(u, l, i) ==
    /\ u \in Seq(Nat) /\ \A k \in DOMAIN u : u[k] <= i
    /\ \A b \in DOMAIN u : \A a \in 1 .. b - 1 : u[a] < u[b]
    /\ \A j \in 1 .. i : Usable(l[j]) => \E k \in DOMAIN u : u[k] = j

(* One turn of that loop.                                                 *)
LEMMA TakesInOrder ==
    ASSUME NEW l, NEW i \in Nat, i >= 1, NEW u, TakenOf(u, l, i - 1)
    PROVE  TakenOf(IF Usable(l[i]) THEN Append(u, i) ELSE u, l, i)
<1>1. /\ u \in Seq(Nat) /\ \A k \in DOMAIN u : u[k] <= i - 1
      /\ \A b \in DOMAIN u : \A a \in 1 .. b - 1 : u[a] < u[b]
      /\ \A j \in 1 .. i - 1 : Usable(l[j]) => \E k \in DOMAIN u : u[k] = j
    BY DEF TakenOf
<1>2. \A j \in 1 .. i : j = i \/ j \in 1 .. i - 1
    OBVIOUS
<1>3. \A k \in DOMAIN u : u[k] \in Nat /\ u[k] < i /\ u[k] <= i
    BY <1>1
<1>4. CASE ~Usable(l[i])
    <2>1. \A j \in 1 .. i : Usable(l[j]) => \E k \in DOMAIN u : u[k] = j
        BY <1>1, <1>2, <1>4
    <2> QED
        BY <1>1, <1>3, <1>4, <2>1 DEF TakenOf
<1>5. CASE Usable(l[i])
    <2> DEFINE c == Append(u, i)
               n == Len(u)
    <2>1. /\ c \in Seq(Nat) /\ n \in Nat /\ DOMAIN u = 1 .. n /\ DOMAIN c = 1 .. n + 1
          /\ c[n + 1] = i /\ \A a \in 1 .. n : c[a] = u[a]
        BY <1>1, AppendProperties
    <2>2. \A a \in 1 .. n + 1 : a = n + 1 \/ a \in 1 .. n
        BY <2>1
    <2>3. \A a \in 1 .. n : a \in 1 .. n + 1
        BY <2>1
    <2>4. n + 1 \in 1 .. n + 1
        BY <2>1
    <2>5. \A b \in 1 .. n + 1 : \A a \in 1 .. b - 1 : a \in 1 .. n
        BY <2>1
    <2> HIDE DEF c, n
    <2>6. \A k \in 1 .. n + 1 : c[k] <= i
        <3> SUFFICES ASSUME NEW k \in 1 .. n + 1
                     PROVE  c[k] <= i
            OBVIOUS
        <3>1. CASE k = n + 1
            BY <2>1, <3>1
        <3>2. CASE k \in 1 .. n
            <4>1. k \in DOMAIN u /\ c[k] = u[k]
                BY <2>1, <3>2
            <4> QED
                BY <1>3, <4>1
        <3> QED
            BY <2>2, <3>1, <3>2
    <2>7. \A b \in 1 .. n + 1 : \A a \in 1 .. b - 1 : c[a] < c[b]
        BY <1>1, <1>3, <2>1, <2>2, <2>5
    <2>8. \A j \in 1 .. i : Usable(l[j]) => \E k \in 1 .. n + 1 : c[k] = j
        <3> SUFFICES ASSUME NEW j \in 1 .. i, Usable(l[j])
                     PROVE  \E k \in 1 .. n + 1 : c[k] = j
            OBVIOUS
        <3>1. CASE j = i
            BY <2>1, <2>4, <3>1
        <3>2. CASE j \in 1 .. i - 1
            <4>1. PICK k \in 1 .. n : u[k] = j
                BY <1>1, <2>1, <3>2
            <4> QED
                BY <2>1, <2>3, <4>1
        <3> QED
            BY <1>2, <3>1, <3>2
    <2>9. TakenOf(c, l, i)
        BY <2>1, <2>6, <2>7, <2>8 DEF TakenOf
    <2> QED
        BY <1>5, <2>9 DEF c
<1> QED
    BY <1>4, <1>5

(* The SANE list has all of the usable devices, in the order of the list.  *)
LEMMA AllUsableInOrder ==
    ASSUME NEW T, NEW l \in Seq(T)
    PROVE  TakenOf(DevlistBuild(l), l, Len(l))
<1> DEFINE n == Len(l)
           U == UsableOf(l)
           P == {i \in 0 .. n : TakenOf(U[i], l, i)}
<1>1. n \in Nat
    OBVIOUS
<1>2. U[0] = <<>>
    BY <1>1, UsableLoop, Zenon
<1>3. \A i \in 1 .. n : U[i] = IF Usable(l[i]) THEN Append(U[i - 1], i) ELSE U[i - 1]
    BY <1>1, UsableLoop, Zenon
<1> HIDE DEF U, n
<1>4. 0 \in P
    <2>1. TakenOf(<<>>, l, 0)
        BY EmptySeq DEF TakenOf
    <2> QED
        BY <1>1, <1>2, <2>1
<1>5. \A i \in 1 .. n : i - 1 \in P => i \in P
    <2> SUFFICES ASSUME NEW i \in 1 .. n, TakenOf(U[i - 1], l, i - 1)
                 PROVE  TakenOf(U[i], l, i)
        BY <1>1
    <2> QED
        BY <1>3, TakesInOrder
<1> HIDE DEF P
<1>6. n \in P
    <2>1. \A i \in 0 .. n : i \in P
        BY <1>1, <1>4, <1>5, InductionUpTo
    <2> QED
        BY <1>1, <2>1
<1> QED
    BY <1>6 DEF P, DevlistBuild, U, n

(* A discovered list is in the order of its names.                         *)
SortedInv ==
    zc \in {"dedup", "ready"} /\ heard # {} =>
        \A j \in DOMAIN list : \A i \in 1 .. j - 1 :
            ~Less(DeviceKey(list[j]), DeviceKey(list[i]))

(* Every step keeps it: what is done to a device after the sort changes    *)
(* neither its name nor its UUID.                                          *)
LEMMA SortedStep ==
    ASSUME SortedInv, DevicesInv, [Next]_vars
    PROVE  SortedInv'
<1>0. CallInv /\ list \in Seq(Device)
    BY DEF DevicesInv
<1>1. CASE ZcBegin
    <2>1. zc' \in {"merge", "failed"} \/ heard' = {}
        BY <1>0, <1>1 DEF ZcBegin, CallInv
    <2> QED
        BY <2>1 DEF SortedInv
<1>2. CASE ZcEnd \/ ZcMerge
    <2>1. zc' \notin {"dedup", "ready"}
        BY <1>2 DEF ZcEnd, ZcMerge
    <2> QED
        BY <2>1 DEF SortedInv
<1>3. CASE ZcSort
    <2>1. \A j \in DOMAIN list' : \A i \in 1 .. j - 1 :
              ~Less(DeviceKey(list'[j]), DeviceKey(list'[i]))
        BY <1>3 DEF ZcSort, Sorted
    <2> QED
        BY <2>1 DEF SortedInv
<1>4. CASE ZcDedup
    <2>1. /\ zc = "dedup" /\ heard' = heard /\ turn \in DOMAIN list
        BY <1>4 DEF ZcDedup
    <2>2. PICK d \in EndpointListSortDedup(list[turn]) : list' = [list EXCEPT ![turn] = d]
        BY <1>4 DEF ZcDedup
    <2>3. d.name = list[turn].name /\ d.uuid = list[turn].uuid
        BY <1>0, <2>1, <2>2, SortDedupIs
    <2>4. /\ DOMAIN list' = DOMAIN list
          /\ \A k \in DOMAIN list : list'[k].name = list[k].name /\ list'[k].uuid = list[k].uuid
        BY <2>2, <2>3
    <2>5. \A k \in DOMAIN list : DeviceKey(list'[k]) = DeviceKey(list[k])
        BY <2>4 DEF DeviceKey
    <2>6. \A j \in DOMAIN list : \A i \in 1 .. j - 1 : i \in DOMAIN list
        BY <1>0
    <2>7. heard # {} => \A j \in DOMAIN list' : \A i \in 1 .. j - 1 :
              ~Less(DeviceKey(list'[j]), DeviceKey(list'[i]))
        BY <2>1, <2>4, <2>5, <2>6 DEF SortedInv
    <2> QED
        BY <2>1, <2>7 DEF SortedInv
<1>5. CASE ZcReturn
    <2>1. zc = "dedup" /\ list' = list /\ heard' = heard
        BY <1>5 DEF ZcReturn
    <2> QED
        BY <2>1 DEF SortedInv
<1>6. CASE UNCHANGED zcVars
    <2>1. zc' = zc /\ list' = list /\ heard' = heard
        BY <1>6 DEF zcVars
    <2> QED
        BY <2>1 DEF SortedInv
<1> QED
    BY <1>1, <1>2, <1>3, <1>4, <1>5, <1>6, ZcSteps DEF ZcStep

(* What a finding is sorted by, if its device is named as it is.           *)
KeyOf(f) == <<f.name, KnownBy(f).id, After(KnownBy(f).spelling # "canonical")>>

(* The findings of each device that scans.                                 *)
Scanned(A) == {G \in {{g \in A : OneDevice(f, g)} : f \in A} : \E f \in G : f.rs # NULL}

(* A SANE list with the UUIDs [u]: of n devices, the i-th of the findings  *)
(* r[i], in the order of their keys.                                       *)
ListedAs(u, A, n, r) ==
    /\ r \in Bijection(1 .. n, Scanned(A))
    /\ u \in [1 .. n -> Uuid]
    /\ \A i \in 1 .. n : r[i] # {} /\ \A f \in r[i] : u[i] = KnownBy(f)
    /\ \A i, j \in 1 .. n : i < j =>
         \A f \in r[i], g \in r[j] : ~Less(KeyOf(g), KeyOf(f))

Listed(u, A) == \E n \in Nat : \E r : ListedAs(u, A, n, r)

(* The services of a device have one name.                                 *)
NamesAgree == \A f, g \in Finding : OneDevice(f, g) => f.name = g.name

(* What devices are sorted by is three numbers.                             *)
(* What devices are sorted by is three numbers.                             *)
LEMMA KeyOfIs ==
    ASSUME NEW f \in Finding
    PROVE  KeyOf(f) \in [1 .. 3 -> Int]
<1>1. f.name \in Text /\ KnownBy(f) \in Uuid
    BY UuidOfFinding, ZeroconfAssumption DEF ZeroconfAssumption, FindingType
<1>2. KnownBy(f).id \in Nat
    BY <1>1 DEF Uuid, NoUuid, Text, NULL
<1>3. f.name \in Int /\ KnownBy(f).id \in Int
      /\ After(KnownBy(f).spelling # "canonical") \in Int
    BY <1>1, <1>2 DEF Text, After
<1> QED
    BY <1>3 DEF KeyOf

(* Findings of one device have one key.                                    *)
LEMMA OneKey ==
    ASSUME NamesAgree, NEW f \in Finding, NEW g \in Finding, OneDevice(f, g)
    PROVE  KeyOf(f) = KeyOf(g)
<1>1. f.name = g.name
    BY DEF NamesAgree
<1>2. KnownBy(f) = KnownBy(g)
    BY OneDeviceIs
<1> QED
    BY <1>1, <1>2 DEF KeyOf

(* No key is between a key and one that is not less.                       *)
LEMMA LessTrans ==
    ASSUME NEW n \in Nat, NEW a \in [1 .. n -> Int], NEW b \in [1 .. n -> Int],
           NEW c \in [1 .. n -> Int], ~Less(b, a), Less(b, c)
    PROVE  Less(a, c)
<1>1. CASE a = b
    BY <1>1
<1>2. CASE Less(a, b)
    <2>1. PICK i \in 1 .. n : a[i] < b[i] /\ \A k \in 1 .. i - 1 : a[k] = b[k]
        BY <1>2 DEF Less
    <2>2. PICK j \in 1 .. n : b[j] < c[j] /\ \A k \in 1 .. j - 1 : b[k] = c[k]
        BY DEF Less
    <2> DEFINE m == IF i <= j THEN i ELSE j
    <2>3. m \in 1 .. n /\ m <= i /\ m <= j /\ (m = i \/ m = j)
        OBVIOUS
    <2> HIDE DEF m
    <2>4. \A k \in 1 .. m - 1 : a[k] = c[k]
        <3> SUFFICES ASSUME NEW k \in 1 .. m - 1
                     PROVE  a[k] = c[k]
            OBVIOUS
        <3>1. k \in 1 .. i - 1 /\ k \in 1 .. j - 1
            BY <2>3
        <3> QED
            BY <2>1, <2>2, <3>1
    <2>5. a[m] < c[m]
        <3>1. a[m] \in Int /\ b[m] \in Int /\ c[m] \in Int
            BY <2>3
        <3>2. a[m] <= b[m]
            <4>1. m = i \/ m \in 1 .. i - 1
                BY <2>3
            <4> QED
                BY <2>1, <3>1, <4>1
        <3>3. b[m] <= c[m]
            <4>1. m = j \/ m \in 1 .. j - 1
                BY <2>3
            <4> QED
                BY <2>2, <3>1, <4>1
        <3>4. a[m] < b[m] \/ b[m] < c[m]
            BY <2>1, <2>2, <2>3
        <3> QED
            BY <3>1, <3>2, <3>3, <3>4
    <2> QED
        BY <2>3, <2>4, <2>5 DEF Less
<1> QED
    BY <1>1, <1>2, Trichotomy

(* Of two sorted sequences with the same keys, neither is ahead.           *)
LEMMA NotAhead ==
    ASSUME NEW n \in Nat, NEW w \in Nat,
           NEW k \in [1 .. n -> [1 .. w -> Int]], NEW l \in [1 .. n -> [1 .. w -> Int]],
           \A i, j \in 1 .. n : i < j => ~Less(k[j], k[i]),
           \A i, j \in 1 .. n : i < j => ~Less(l[j], l[i]),
           NEW p \in Injection(1 .. n, 1 .. n), \A i \in 1 .. n : k[i] = l[p[i]],
           NEW m \in 1 .. n
    PROVE  ~Less(k[m], l[m])
<1>1. SUFFICES ASSUME Less(k[m], l[m])
               PROVE  FALSE
    OBVIOUS
<1>2. p \in [1 .. n -> 1 .. n] /\ \A i, j \in 1 .. n : i # j => p[i] # p[j]
    BY DEF Injection, IsInjective
<1>3. \A x \in [1 .. w -> Int] : ~Less(x, x)
    BY DEF Less
<1>4. \A a \in 1 .. m : p[a] \in 1 .. m - 1
    <2> SUFFICES ASSUME NEW a \in 1 .. m
                 PROVE  p[a] \in 1 .. m - 1
        OBVIOUS
    <2>1. a \in 1 .. n /\ p[a] \in 1 .. n /\ k[a] = l[p[a]]
        BY <1>2
    <2>2. ~Less(k[m], k[a])
        BY <1>3, <2>1
    <2>3. Less(k[a], l[m])
        <3>1. k[a] \in [1 .. w -> Int] /\ k[m] \in [1 .. w -> Int] /\ l[m] \in [1 .. w -> Int]
            BY <2>1
        <3> QED
            BY <1>1, <2>2, <3>1, LessTrans
    <2>4. p[a] # m /\ ~(m < p[a])
        BY <1>3, <2>1, <2>3
    <2> QED
        BY <2>1, <2>4
<1> DEFINE S == 1 .. m
           T == 1 .. m - 1
           q == [a \in S |-> p[a]]
<1>5. IsFiniteSet(S) /\ IsFiniteSet(T) /\ Cardinality(T) < Cardinality(S)
    <2>1. 1 \in Int /\ m \in Int /\ m - 1 \in Int /\ m >= 1
        OBVIOUS
    <2>2. IsFiniteSet(S) /\ Cardinality(S) = IF 1 > m THEN 0 ELSE m - 1 + 1
        BY <2>1, FS_Interval, Zenon
    <2>3. IsFiniteSet(T) /\ Cardinality(T) = IF 1 > m - 1 THEN 0 ELSE (m - 1) - 1 + 1
        BY <2>1, FS_Interval, Zenon
    <2> QED
        BY <2>1, <2>2, <2>3
<1>6. q \in [S -> T]
    BY <1>4
<1>7. \A x, y \in S : x # y => q[x] # q[y]
    BY <1>2
<1> HIDE DEF S, T, q
<1> QED
    BY <1>5, <1>6, <1>7, FS_PigeonHole

(* The key of a finding tells its UUID.                                    *)
LEMMA UuidByKey ==
    ASSUME NEW f \in Finding, NEW g \in Finding, KeyOf(f) = KeyOf(g)
    PROVE  KnownBy(f) = KnownBy(g)
<1> DEFINE a == KnownBy(f)
           b == KnownBy(g)
           S(w) == IF w.spelling = "nonsense" THEN "nonsense" ELSE "canonical"
<1>1. f.uuid \in Uuid /\ g.uuid \in Uuid
    BY ZeroconfAssumption DEF ZeroconfAssumption, FindingType
<1>2. /\ a = [id |-> f.uuid.id, spelling |-> S(f.uuid)]
      /\ b = [id |-> g.uuid.id, spelling |-> S(g.uuid)]
    BY <1>1, NormalizeIs DEF KnownBy
<1>3. a.id = b.id /\ (a.spelling # "canonical" <=> b.spelling # "canonical")
    BY DEF KeyOf, After
<1>4. a.spelling \in {"nonsense", "canonical"} /\ b.spelling \in {"nonsense", "canonical"}
    BY <1>2
<1> HIDE DEF a, b, S
<1>5. a.spelling = b.spelling
    BY <1>3, <1>4
<1> QED
    BY <1>2, <1>3, <1>5 DEF a, b

(* The findings of a device, by any of them.                               *)
LEMMA KeyOfGroup ==
    ASSUME NamesAgree, NEW A, A \subseteq Finding, NEW G \in Scanned(A), NEW f \in G, NEW g \in G
    PROVE  f \in Finding /\ g \in Finding /\ KeyOf(f) = KeyOf(g)
<1>1. PICK e \in A : G = {x \in A : OneDevice(e, x)}
    BY DEF Scanned
<1>2. f \in Finding /\ g \in Finding /\ e \in Finding /\ OneDevice(e, f) /\ OneDevice(e, g)
    BY <1>1
<1>3. KeyOf(e) = KeyOf(f) /\ KeyOf(e) = KeyOf(g)
    BY <1>2, OneKey
<1> QED
    BY <1>2, <1>3

(* Of two sorted lists of the same devices, none is ahead of the other.    *)
(* Of two sorted lists of the same devices, none is ahead of the other.    *)
LEMMA NoneAhead ==
    ASSUME NamesAgree, NEW A, A \subseteq Finding, NEW n \in Nat,
           NEW u, NEW r, ListedAs(u, A, n, r), NEW v, NEW q, ListedAs(v, A, n, q),
           NEW i \in 1 .. n, NEW f \in r[i], NEW g \in q[i]
    PROVE  ~Less(KeyOf(f), KeyOf(g))
<1> DEFINE some(G) == CHOOSE e : e \in G
           k == [a \in 1 .. n |-> KeyOf(some(r[a]))]
           l == [a \in 1 .. n |-> KeyOf(some(q[a]))]
           p == [a \in 1 .. n |-> CHOOSE b \in 1 .. n : q[b] = r[a]]
<1>1. /\ r \in [1 .. n -> Scanned(A)] /\ \A a, b \in 1 .. n : a # b => r[a] # r[b]
      /\ \A a \in 1 .. n : r[a] # {}
      /\ \A a, b \in 1 .. n : a < b =>
           \A x \in r[a], y \in r[b] : ~Less(KeyOf(y), KeyOf(x))
    BY DEF ListedAs, Bijection, Injection, IsInjective
<1>2. /\ q \in [1 .. n -> Scanned(A)]
      /\ \A G \in Scanned(A) : \E b \in 1 .. n : q[b] = G
      /\ \A a \in 1 .. n : q[a] # {}
      /\ \A a, b \in 1 .. n : a < b =>
           \A x \in q[a], y \in q[b] : ~Less(KeyOf(y), KeyOf(x))
    BY DEF ListedAs, Bijection, Injection, Surjection
<1>3. \A G : G # {} => some(G) \in G
    OBVIOUS
<1>4. \A a \in 1 .. n : p[a] \in 1 .. n /\ q[p[a]] = r[a]
    BY <1>1, <1>2
<1> HIDE DEF some
<1>5. \A a \in 1 .. n : k[a] \in [1 .. 3 -> Int] /\ \A x \in r[a] : KeyOf(x) = k[a]
    <2> SUFFICES ASSUME NEW a \in 1 .. n
                 PROVE  k[a] \in [1 .. 3 -> Int] /\ \A x \in r[a] : KeyOf(x) = k[a]
        OBVIOUS
    <2>1. r[a] \in Scanned(A) /\ some(r[a]) \in r[a] /\ k[a] = KeyOf(some(r[a]))
        BY <1>1, <1>3
    <2> HIDE DEF k
    <2> QED
        BY <2>1, KeyOfGroup, KeyOfIs
<1>6. \A a \in 1 .. n : l[a] \in [1 .. 3 -> Int] /\ \A x \in q[a] : KeyOf(x) = l[a]
    <2> SUFFICES ASSUME NEW a \in 1 .. n
                 PROVE  l[a] \in [1 .. 3 -> Int] /\ \A x \in q[a] : KeyOf(x) = l[a]
        OBVIOUS
    <2>1. q[a] \in Scanned(A) /\ some(q[a]) \in q[a] /\ l[a] = KeyOf(some(q[a]))
        BY <1>2, <1>3
    <2> HIDE DEF l
    <2> QED
        BY <2>1, KeyOfGroup, KeyOfIs
<1>7. \A a \in 1 .. n : k[a] = l[p[a]]
    BY <1>4
<1>8. p \in Injection(1 .. n, 1 .. n)
    <2>1. p \in [1 .. n -> 1 .. n]
        BY <1>4
    <2>2. \A a, b \in 1 .. n : p[a] = p[b] => a = b
        BY <1>1, <1>4
    <2> HIDE DEF p
    <2> QED
        BY <2>1, <2>2 DEF Injection, IsInjective
<1>9. DOMAIN k = 1 .. n /\ DOMAIN l = 1 .. n /\ k = [a \in 1 .. n |-> k[a]]
      /\ l = [a \in 1 .. n |-> l[a]]
    OBVIOUS
<1> HIDE DEF k, l, p
<1>10. k \in [1 .. n -> [1 .. 3 -> Int]] /\ l \in [1 .. n -> [1 .. 3 -> Int]]
    BY <1>5, <1>6, <1>9
<1>11. \A a, b \in 1 .. n : a < b => ~Less(k[b], k[a])
    <2> SUFFICES ASSUME NEW a \in 1 .. n, NEW b \in 1 .. n, a < b
                 PROVE  ~Less(k[b], k[a])
        OBVIOUS
    <2>1. PICK x \in r[a] : TRUE
        BY <1>1
    <2>2. PICK y \in r[b] : TRUE
        BY <1>1
    <2>3. ~Less(KeyOf(y), KeyOf(x))
        BY <1>1, <2>1, <2>2
    <2>4. KeyOf(x) = k[a] /\ KeyOf(y) = k[b]
        BY <1>5, <2>1, <2>2
    <2> QED
        BY <2>3, <2>4
<1>12. \A a, b \in 1 .. n : a < b => ~Less(l[b], l[a])
    <2> SUFFICES ASSUME NEW a \in 1 .. n, NEW b \in 1 .. n, a < b
                 PROVE  ~Less(l[b], l[a])
        OBVIOUS
    <2>1. PICK x \in q[a] : TRUE
        BY <1>2
    <2>2. PICK y \in q[b] : TRUE
        BY <1>2
    <2>3. ~Less(KeyOf(y), KeyOf(x))
        BY <1>2, <2>1, <2>2
    <2>4. KeyOf(x) = l[a] /\ KeyOf(y) = l[b]
        BY <1>6, <2>1, <2>2
    <2> QED
        BY <2>3, <2>4
<1>13. 3 \in Nat
    OBVIOUS
<1>14. ~Less(k[i], l[i])
    BY <1>7, <1>8, <1>10, <1>11, <1>12, <1>13, NotAhead
<1> QED
    BY <1>5, <1>6, <1>14

(* Of certain findings there is one SANE list.                             *)
LEMMA OneList ==
    ASSUME NamesAgree, NEW A, A \subseteq Finding, NEW u, NEW v, Listed(u, A), Listed(v, A)
    PROVE  u = v
<1>1. PICK n \in Nat : \E r : ListedAs(u, A, n, r)
    BY DEF Listed
<1>2. PICK r : ListedAs(u, A, n, r)
    BY <1>1
<1>3. PICK m \in Nat : \E q : ListedAs(v, A, m, q)
    BY DEF Listed
<1>4. PICK q : ListedAs(v, A, m, q)
    BY <1>3
<1>5. n = m
    <2>1. Cardinality(Scanned(A)) = n
        BY <1>2, FS_CountingElements DEF ListedAs, ExistsBijection
    <2>2. Cardinality(Scanned(A)) = m
        BY <1>4, FS_CountingElements DEF ListedAs, ExistsBijection
    <2> QED
        BY <2>1, <2>2
<1>6. ListedAs(v, A, n, q)
    BY <1>4, <1>5
<1>7. ASSUME NEW i \in 1 .. n
      PROVE  u[i] = v[i]
    <2>1. /\ r[i] \in Scanned(A) /\ r[i] # {} /\ \A f \in r[i] : u[i] = KnownBy(f)
        BY <1>2 DEF ListedAs, Bijection, Injection
    <2>2. /\ q[i] \in Scanned(A) /\ q[i] # {} /\ \A f \in q[i] : v[i] = KnownBy(f)
        BY <1>6 DEF ListedAs, Bijection, Injection
    <2>3. PICK f \in r[i] : TRUE
        BY <2>1
    <2>4. PICK g \in q[i] : TRUE
        BY <2>2
    <2>5. f \in Finding /\ g \in Finding
        BY <2>1, <2>2, KeyOfGroup
    <2>6. ~Less(KeyOf(f), KeyOf(g))
        BY <1>2, <1>6, NoneAhead
    <2>7. ~Less(KeyOf(g), KeyOf(f))
        BY <1>2, <1>6, NoneAhead
    <2>8. KeyOf(f) = KeyOf(g)
        <3>1. 3 \in Nat /\ KeyOf(f) \in [1 .. 3 -> Int] /\ KeyOf(g) \in [1 .. 3 -> Int]
            BY <2>5, KeyOfIs
        <3> QED
            BY <2>6, <2>7, <3>1, Trichotomy
    <2>9. KnownBy(f) = KnownBy(g)
        BY <2>5, <2>8, UuidByKey
    <2> QED
        BY <2>1, <2>2, <2>9
<1>8. u \in [1 .. n -> Uuid] /\ v \in [1 .. n -> Uuid]
    BY <1>2, <1>6 DEF ListedAs
<1> QED
    BY <1>7, <1>8

(* What the frontend has is listed as the findings it was made of.         *)
ShownInv ==
    shown.of \subseteq Finding /\ (shown.of # {} => Listed(shown.uuids, Answered(shown.of)))

(* A device scans if one of its findings does.                             *)
LEMMA UsableIs ==
    ASSUME NEW d \in Device, NEW F, F \subseteq Finding, NEW fs, fs # {},
           fs \subseteq Answered(F), MadeOf(d, fs)
    PROVE  Usable(d) <=> \E f \in fs : f.rs # NULL
<1>1. d.scan <=> \E f \in fs : f.rs # NULL
    BY MadeOfIs
<1>2. PICK f \in fs : TRUE
    OBVIOUS
<1>3. f \in Finding /\ f.addrs # <<>> /\ f.addrs \in Seq(Addr)
    BY <1>2, ZeroconfAssumption DEF ZeroconfAssumption, Answered, FindingType
<1>4. UrisOfFinding(f) # {}
    <2>1. 1 \in DOMAIN f.addrs
        BY <1>3, EmptySeq
    <2>2. f.addrs[1] \in ToSet(f.addrs)
        BY <2>1 DEF ToSet
    <2> QED
        BY <2>2 DEF UrisOfFinding
<1>5. UrisOf(d) # {}
    <2>1. UrisOf(d) = UNION {UrisOfFinding(g) : g \in fs}
        BY MadeOfIs
    <2> QED
        BY <1>2, <1>4, <2>1
<1>6. d.endpoints # <<>>
    <2>1. ToSet(<<>>) = {}
        BY DEF ToSet
    <2> QED
        BY <1>5, <2>1 DEF UrisOf
<1> QED
    BY <1>1, <1>6 DEF Usable

(* A sorted list, and the SANE list made of it.                            *)
LEMMA ListedIs ==
    ASSUME NamesAgree, NEW F, F \subseteq Finding, NEW l \in Seq(Device),
           NEW h, Folded(l, Answered(F), h),
           \A j \in DOMAIN l : \A i \in 1 .. j - 1 :
             ~Less(DeviceKey(l[j]), DeviceKey(l[i]))
    PROVE  Listed([i \in DOMAIN DevlistBuild(l) |-> l[DevlistBuild(l)[i]].uuid], Answered(F))
<1> DEFINE A == Answered(F)
           D == DOMAIN l
           b == DevlistBuild(l)
           n == Len(b)
           u == [i \in DOMAIN b |-> l[b[i]].uuid]
           r == [i \in 1 .. n |-> h[b[i]]]
<1>1. /\ h \in [D -> SUBSET A]
      /\ \A i \in D : h[i] # {} /\ MadeOf(l[i], h[i])
      /\ \A i \in D : \A f \in h[i] :
           KnownBy(f) = l[i].uuid /\ \A g \in A : g \in h[i] <=> OneDevice(f, g)
      /\ \A f \in A : \E i \in D : f \in h[i]
      /\ \A i, j \in D : i # j => h[i] # h[j]
      /\ \A i \in D : \E f \in h[i] : f.name = l[i].name
    BY DEF Folded
<1>2. A \subseteq Finding
    BY DEF Answered
<1>3. /\ b \in Seq(Nat) /\ n \in Nat /\ DOMAIN b = 1 .. n
    <2>1. b \in Seq(Nat)
        BY UsableBuilt, Zenon
    <2> HIDE DEF b
    <2> QED
        BY <2>1
<1>4. \A k \in DOMAIN b : b[k] \in D /\ Usable(l[b[k]])
    BY UsableBuilt, Zenon
<1>5. TakenOf(b, l, Len(l))
    BY AllUsableInOrder
<1>6. /\ \A j \in 1 .. n : \A i \in 1 .. j - 1 : b[i] < b[j]
      /\ \A j \in D : Usable(l[j]) => \E k \in 1 .. n : b[k] = j
    <2>1. D = 1 .. Len(l)
        OBVIOUS
    <2> HIDE DEF b, n, D
    <2> QED
        BY <1>3, <1>5, <2>1 DEF TakenOf
<1>7. D = 1 .. Len(l) /\ Len(l) \in Nat /\ \A i \in D : l[i] \in Device
    OBVIOUS
<1>8. u = [i \in 1 .. n |-> l[b[i]].uuid]
    BY <1>3
<1> HIDE DEF A, b, n, D, u
<1>9. \A i \in D : Usable(l[i]) <=> \E f \in h[i] : f.rs # NULL
    <2> SUFFICES ASSUME NEW i \in D
                 PROVE  Usable(l[i]) <=> \E f \in h[i] : f.rs # NULL
        OBVIOUS
    <2>1. l[i] \in Device /\ h[i] # {} /\ h[i] \subseteq Answered(F) /\ MadeOf(l[i], h[i])
        BY <1>1, <1>7 DEF A
    <2> QED
        BY <2>1, UsableIs
<1>10. \A i \in D : \A f \in h[i] : h[i] = {g \in A : OneDevice(f, g)} /\ f \in A
    BY <1>1
<1>11. \A i \in D : Usable(l[i]) => h[i] \in Scanned(A)
    <2> SUFFICES ASSUME NEW i \in D, Usable(l[i])
                 PROVE  h[i] \in Scanned(A)
        OBVIOUS
    <2>1. PICK f \in h[i] : f.rs # NULL
        BY <1>9
    <2>2. f \in A /\ h[i] = {g \in A : OneDevice(f, g)}
        BY <1>10
    <2> QED
        BY <2>1, <2>2 DEF Scanned
<1>12. \A G \in Scanned(A) : \E i \in D : h[i] = G /\ Usable(l[i])
    <2> SUFFICES ASSUME NEW G \in Scanned(A)
                 PROVE  \E i \in D : h[i] = G /\ Usable(l[i])
        OBVIOUS
    <2>1. PICK f \in A : G = {g \in A : OneDevice(f, g)}
        BY DEF Scanned
    <2>2. PICK i \in D : f \in h[i]
        BY <1>1
    <2>3. h[i] = G
        BY <1>10, <2>1, <2>2
    <2>4. \E g \in h[i] : g.rs # NULL
        BY <2>3 DEF Scanned
    <2> QED
        BY <1>9, <2>3, <2>4
<1>13. \A i \in 1 .. n : b[i] \in D /\ Usable(l[b[i]]) /\ r[i] = h[b[i]]
    BY <1>3, <1>4
<1>14. \A i, j \in 1 .. n : i < j => b[i] < b[j] /\ b[i] \in 1 .. b[j] - 1
    <2> SUFFICES ASSUME NEW i \in 1 .. n, NEW j \in 1 .. n, i < j
                 PROVE  b[i] < b[j] /\ b[i] \in 1 .. b[j] - 1
        OBVIOUS
    <2>1. i \in 1 .. j - 1
        BY <1>3
    <2>2. b[i] < b[j]
        BY <1>6, <2>1
    <2> QED
        BY <1>7, <1>13, <2>2
<1>15. \A i, j \in 1 .. n : i # j => b[i] # b[j]
    <2> SUFFICES ASSUME NEW i \in 1 .. n, NEW j \in 1 .. n, i # j
                 PROVE  b[i] # b[j]
        OBVIOUS
    <2>1. b[i] \in Nat /\ b[j] \in Nat
        BY <1>7, <1>13
    <2>2. i < j \/ j < i
        BY <1>3
    <2>3. b[i] < b[j] \/ b[j] < b[i]
        BY <1>14, <2>2
    <2> QED
        BY <2>1, <2>3
<1>16. r \in Bijection(1 .. n, Scanned(A))
    <2>1. r \in [1 .. n -> Scanned(A)]
        BY <1>11, <1>13
    <2>2. \A i, j \in 1 .. n : r[i] = r[j] => i = j
        BY <1>1, <1>13, <1>15
    <2>3. \A G \in Scanned(A) : \E i \in 1 .. n : r[i] = G
        <3> SUFFICES ASSUME NEW G \in Scanned(A)
                     PROVE  \E i \in 1 .. n : r[i] = G
            OBVIOUS
        <3>1. PICK j \in D : h[j] = G /\ Usable(l[j])
            BY <1>12
        <3>2. PICK i \in 1 .. n : b[i] = j
            BY <1>6, <3>1
        <3> QED
            BY <1>13, <3>1, <3>2
    <2> HIDE DEF r
    <2> QED
        BY <2>1, <2>2, <2>3 DEF Bijection, Injection, Surjection, IsInjective
<1> HIDE DEF r
<1>17. u \in [1 .. n -> Uuid]
    <2>1. \A i \in 1 .. n : l[b[i]].uuid \in Uuid
        BY <1>7, <1>13 DEF Device
    <2> QED
        BY <1>8, <2>1
<1>18. \A i \in 1 .. n : r[i] # {} /\ \A f \in r[i] : u[i] = KnownBy(f)
    <2> SUFFICES ASSUME NEW i \in 1 .. n
                 PROVE  r[i] # {} /\ \A f \in r[i] : u[i] = KnownBy(f)
        OBVIOUS
    <2>1. u[i] = l[b[i]].uuid /\ r[i] = h[b[i]] /\ b[i] \in D
        BY <1>8, <1>13
    <2> QED
        BY <1>1, <2>1
<1>19. \A i \in D : \A f \in h[i] : DeviceKey(l[i]) = KeyOf(f)
    <2> SUFFICES ASSUME NEW i \in D, NEW f \in h[i]
                 PROVE  DeviceKey(l[i]) = KeyOf(f)
        OBVIOUS
    <2>1. PICK g \in h[i] : g.name = l[i].name
        BY <1>1
    <2>2. OneDevice(f, g) /\ f \in Finding /\ g \in Finding
        BY <1>2, <1>10, <2>1
    <2>3. f.name = l[i].name /\ KnownBy(f) = l[i].uuid
        BY <1>1, <2>1, <2>2 DEF NamesAgree
    <2> QED
        BY <2>3 DEF DeviceKey, KeyOf
<1>20. \A i, j \in 1 .. n : i < j =>
           \A f \in r[i], g \in r[j] : ~Less(KeyOf(g), KeyOf(f))
    <2> SUFFICES ASSUME NEW i \in 1 .. n, NEW j \in 1 .. n, i < j,
                        NEW f \in r[i], NEW g \in r[j]
                 PROVE  ~Less(KeyOf(g), KeyOf(f))
        OBVIOUS
    <2>1. /\ b[i] \in D /\ b[j] \in D /\ b[i] \in 1 .. b[j] - 1
          /\ r[i] = h[b[i]] /\ r[j] = h[b[j]]
        BY <1>13, <1>14
    <2>2. ~Less(DeviceKey(l[b[j]]), DeviceKey(l[b[i]]))
        BY <2>1 DEF D
    <2>3. DeviceKey(l[b[j]]) = KeyOf(g) /\ DeviceKey(l[b[i]]) = KeyOf(f)
        BY <1>19, <2>1
    <2> QED
        BY <2>2, <2>3
<1>21. ListedAs(u, A, n, r)
    BY <1>16, <1>17, <1>18, <1>20 DEF ListedAs
<1>22. Listed(u, A)
    BY <1>3, <1>21 DEF Listed
<1> QED
    BY <1>22 DEF A, u, b

(* The history changes with a new list, and when there is none any more.   *)
LEMMA ShownSteps ==
    [Next]_vars =>
        \/ shown' = shown \/ shown' = Nothing
        \/ /\ zc = "ready"
           /\ shown' = [of |-> heard,
                        uuids |-> [i \in DOMAIN DevlistBuild(list) |->
                                      list[DevlistBuild(list)[i]].uuid]]
BY DEF Next, vars, SaneInit, SaneExit, GetDevices, GetFailed, GetDone, GetNoMem,
       OpenDevice, OpenUri, OpenFailed, OpenNoDevice, OpenFind, OpenNextEndpoint,
       OpenGood, OpenGiveUp, SaneClose, Discovering, saneVars

(* What is shown is made of what was heard, at every step.                 *)
LEMMA ShownStep ==
    ASSUME NamesAgree, ShownInv, SortedInv, FoldInv, DevicesInv, [Next]_vars
    PROVE  ShownInv'
<1>1. CASE shown' = shown
    BY <1>1 DEF ShownInv
<1>2. CASE shown' = Nothing
    BY <1>2 DEF ShownInv, Nothing
<1>3. ASSUME zc = "ready",
             shown' = [of |-> heard,
                       uuids |-> [i \in DOMAIN DevlistBuild(list) |->
                                     list[DevlistBuild(list)[i]].uuid]]
      PROVE  ShownInv'
    <2> DEFINE u == [i \in DOMAIN DevlistBuild(list) |-> list[DevlistBuild(list)[i]].uuid]
    <2>1. list \in Seq(Device) /\ heard \subseteq Finding /\ found = <<>>
        BY <1>3 DEF DevicesInv, CallInv, FoundOnce
    <2>2. shown'.of = heard /\ shown'.uuids = u
        BY <1>3
    <2>3. ASSUME heard # {}
          PROVE  Listed(u, Answered(heard))
        <3>1. heard \ ToSet(found) = heard
            BY <2>1 DEF ToSet
        <3>2. PICK h : Folded(list, Answered(heard), h)
            BY <1>3, <2>3, <3>1 DEF FoldInv
        <3>3. \A j \in DOMAIN list : \A i \in 1 .. j - 1 :
                  ~Less(DeviceKey(list[j]), DeviceKey(list[i]))
            BY <1>3, <2>3 DEF SortedInv
        <3> QED
            BY <2>1, <3>2, <3>3, ListedIs
    <2> HIDE DEF u
    <2> QED
        BY <2>1, <2>2, <2>3 DEF ShownInv
<1> QED
    BY <1>1, <1>2, <1>3, ShownSteps

(* ipp-zeroconf.c, 574-578: if the services of a device have one name, a   *)
(* device keeps its place in the SANE list for as long as the network      *)
(* reports the same, in whatever order it does.  With different names it   *)
(* is not so.                                                              *)
THEOREM ListStaysPutWithNames ==
    ASSUME NamesAgree
    PROVE  Spec => ListStaysPut
<1> DEFINE Step == shown.of # {} /\ shown'.of = shown.of => shown'.uuids = shown.uuids
<1>1. Init => ShownInv /\ SortedInv
    BY DEF Init, ZcInit, ShownInv, SortedInv, Nothing
<1>2. SortedInv /\ DevicesInv /\ [Next]_vars => SortedInv'
    BY SortedStep
<1>3. ShownInv /\ SortedInv /\ FoldInv /\ DevicesInv /\ [Next]_vars => ShownInv'
    BY ShownStep
<1>4. ShownInv /\ ShownInv' /\ [Next]_vars => [Step]_shown
    <2> SUFFICES ASSUME ShownInv, ShownInv', shown.of # {}, shown'.of = shown.of
                 PROVE  shown'.uuids = shown.uuids
        OBVIOUS
    <2> DEFINE A == Answered(shown.of)
    <2>1. A \subseteq Finding /\ Listed(shown.uuids, A) /\ Listed(shown'.uuids, A)
        BY DEF ShownInv, Answered
    <2> HIDE DEF A
    <2> QED
        BY <2>1, OneList
<1>5. QED
    BY <1>1, <1>2, <1>3, <1>4, FoldInvariant, DevicesInvariant, PTL DEF Spec, ListStaysPut
=============================================================================
