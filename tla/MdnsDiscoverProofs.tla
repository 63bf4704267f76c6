------------------------- MODULE MdnsDiscoverProofs -------------------------
(***************************************************************************)
(* A discovery by ipp_mdns_discover() settles when it should, and leaves   *)
(* its devices addressed as they should be, for any number of services,    *)
(* addresses, answers and announcements, in any order of the callbacks.    *)
(***************************************************************************)
EXTENDS MdnsDiscover, FiniteSetTheorems, TLAPS

(* A resolver belongs to an announcement that has been: one that starts    *)
(* now is not in the list yet, so that the counter and the list agree.     *)
Counted ==
    /\ IsFiniteSet(rctxList)
    /\ \A r \in rctxList : r.turn <= findings

(* Before the poll nothing has happened.                                   *)
Unsettled ==
    pc = "start" => rctxList = {} /\ ~quit /\ ~err /\ \A s \in Service : ~allForNow[s]

(* What UriSuitsTheDevice says of one device, and what it rests on: of     *)
(* what a device said that it scans, nothing was forgotten, and one that   *)
(* has no URI has said nothing.                                            *)
Suits(d) ==
    /\ d.uri = NoUri => d.heard = {} /\ ~Scans(d.said)
    /\ (\E h \in d.heard : h[2]) => Scans(d.said)
    /\ d.uri # NoUri =>
        /\ \E rs \in BOOLEAN : <<d.uri.addr, rs>> \in d.heard
        /\ d.uri.addr \in Inet6 => \A h \in d.heard : h[1] \notin Inet
        /\ Scans(d.said) =>
              \/ d.uri.path = Strip[d.said["rs"]]
              \/ \E h \in d.heard : ~h[2]

(* TypeOK of one device.                                                   *)
Listed(d) ==
    /\ d \in Device
    /\ Len(d.addrs) <= MaxAddrs
    /\ \A j, k \in DOMAIN d.addrs : d.addrs[j] = d.addrs[k] => j = k

KeysDiffer(list) == \A i, j \in DOMAIN list : list[i].key = list[j].key => i = j

(* The list of devices.                                                    *)
ListInv ==
    /\ devices \in Seq(Device)
    /\ KeysDiffer(devices)
    /\ \A i \in DOMAIN devices : Listed(devices[i]) /\ Suits(devices[i])

(* The rest of it.                                                         *)
CallInv ==
    /\ pc \in {"start", "poll", "done", "returned"}
    /\ allForNow \in [Service -> BOOLEAN]
    /\ rctxList \subseteq Resolver
    /\ pending = Cardinality(rctxList)
    /\ err \in BOOLEAN /\ quit \in BOOLEAN /\ findings \in 0 .. MaxFindings
    /\ Counted /\ Unsettled /\ DoneExactlyWhenSettled

IInv == CallInv /\ ListInv

-----------------------------------------------------------------------------
(* Devices                                                                 *)

LEMMA SaidType == Said \subseteq {s \in Said : DOMAIN s \subseteq Field /\ \A f \in DOMAIN s : s[f] \in Path}
BY DEF Said

(* What is learned is of the type of what was known.                       *)
LEMMA LearnType ==
    ASSUME NEW old \in Said, NEW new \in Said
    PROVE  /\ Learn(old, new) \in Said
           /\ Scans(Learn(old, new)) <=> Scans(old) \/ Scans(new)
           /\ Scans(old) => Learn(old, new)["rs"] = old["rs"]
<1> DEFINE F == DOMAIN old \cup DOMAIN new
           l == Learn(old, new)
<1>1. /\ DOMAIN old \subseteq Field /\ \A f \in DOMAIN old : old[f] \in Path
      /\ DOMAIN new \subseteq Field /\ \A f \in DOMAIN new : new[f] \in Path
  BY SaidType
<1>2. l = [f \in F |-> IF f \in DOMAIN old THEN old[f] ELSE new[f]]
  BY DEF Learn
<1>3. l \in [F -> Path] /\ DOMAIN l = F
  BY <1>1, <1>2
<1>4. F \in SUBSET Field
  BY <1>1
<1>5. l \in Said
  BY <1>3, <1>4 DEF Said
<1>6. Scans(l) <=> Scans(old) \/ Scans(new)
  BY <1>3 DEF Scans
<1>7. Scans(old) => l["rs"] = old["rs"]
  BY <1>2 DEF Scans
<1> QED BY <1>5, <1>6, <1>7

(* ipp_uri_make() makes a URI, of the scan resource where there is one.    *)
LEMMA UriMakeType ==
    ASSUME NEW key \in Key, NEW a \in Addr, NEW port \in Port, NEW said \in Said
    PROVE  /\ UriMake(key, a, port, said) \in Uri
           /\ UriMake(key, a, port, said) # NoUri
           /\ UriMake(key, a, port, said).addr = a
           /\ Scans(said) => UriMake(key, a, port, said).path = Strip[said["rs"]]
<1> DEFINE path == CASE Scans(said) -> Strip[said["rs"]]
                     [] ~Scans(said) /\ "rp" \in DOMAIN said -> Strip[said["rp"]]
                     [] OTHER -> PrintPath
<1>1. \A f \in DOMAIN said : Strip[said[f]] \in Path
  BY SaidType, DiscoverAssumption
<1>2. path \in Path
  BY <1>1, DiscoverAssumption DEF Scans
<1>3. Scans(said) => path = Strip[said["rs"]]
  OBVIOUS
<1>4. UriMake(key, a, port, said) = [tls |-> key[2] = "ipps", addr |-> a, port |-> port, path |-> path]
  BY DEF UriMake
<1> HIDE DEF path
<1>5. (key[2] = "ipps") \in BOOLEAN
  OBVIOUS
<1>6. UriMake(key, a, port, said) \in Uri
  BY <1>2, <1>4, <1>5 DEF Uri
<1> QED BY <1>3, <1>4, <1>6, DiscoverAssumption

(* ipp_device_add_addr() adds an address once, as long as there is room.   *)
LEMMA AddAddrType ==
    ASSUME NEW s \in Seq(Addr), NEW a \in Addr, Len(s) <= MaxAddrs,
           \A j, k \in DOMAIN s : s[j] = s[k] => j = k
    PROVE  /\ AddAddr(s, a) \in Seq(Addr)
           /\ Len(AddAddr(s, a)) <= MaxAddrs
           /\ \A j, k \in DOMAIN AddAddr(s, a) : AddAddr(s, a)[j] = AddAddr(s, a)[k] => j = k
<1>1. CASE (\E i \in DOMAIN s : s[i] = a) \/ Len(s) = MaxAddrs
  BY <1>1 DEF AddAddr
<1>2. CASE ~((\E i \in DOMAIN s : s[i] = a) \/ Len(s) = MaxAddrs)
  <2>1. AddAddr(s, a) = Append(s, a)
    BY <1>2 DEF AddAddr
  <2>2. Len(s) \in Nat /\ MaxAddrs \in Nat /\ Len(Append(s, a)) = Len(s) + 1
    BY DiscoverAssumption
  <2> QED BY <1>2, <2>1, <2>2
<1> QED BY <1>1, <1>2

LEMMA DeviceUpdated ==
    ASSUME NEW d \in Device, NEW said \in Said, NEW port \in Port,
           NEW uri \in Uri \cup {NoUri}, NEW addrs \in Seq(Addr),
           NEW heard \in SUBSET (Addr \X BOOLEAN)
    PROVE  [d EXCEPT !.resolved = TRUE, !.said = said, !.port = port,
                     !.uri = uri, !.addrs = addrs, !.heard = heard] \in Device
BY DEF Device

(* An answer leaves the device as it should be.                            *)
LEMMA FoundKeeps ==
    ASSUME NEW d, Listed(d), Suits(d), NEW a \in Addr, NEW answer \in Answer
    PROVE  /\ Listed(Found(d, a, answer)) /\ Suits(Found(d, a, answer))
           /\ Found(d, a, answer).key = d.key
<1> DEFINE e    == Found(d, a, answer)
           said == Learn(d.said, answer.said)
           made == UriMake(d.key, a, answer.port, said)
           rs   == Scans(answer.said)
<1>1. /\ d \in Device
      /\ d.key \in Key /\ d.said \in Said /\ d.uri \in Uri \cup {NoUri}
      /\ d.addrs \in Seq(Addr) /\ d.heard \in SUBSET (Addr \X BOOLEAN)
  BY DEF Listed, Device
<1>2. answer.port \in Port /\ answer.said \in Said
  BY DiscoverAssumption
<1>3. /\ said \in Said
      /\ Scans(said) <=> Scans(d.said) \/ rs
      /\ Scans(d.said) => said["rs"] = d.said["rs"]
  BY <1>1, <1>2, LearnType
<1> HIDE DEF said
<1>4. /\ made \in Uri /\ made # NoUri /\ made.addr = a
      /\ Scans(said) => made.path = Strip[said["rs"]]
  BY <1>1, <1>2, <1>3, UriMakeType
<1>5. /\ e.key = d.key /\ e.dev = d.dev /\ e.resolved = TRUE /\ e.said = said
      /\ e.port = answer.port
      /\ e.uri = IF TakesUri(d, a) THEN made ELSE d.uri
      /\ e.addrs = AddAddr(d.addrs, a)
      /\ e.heard = d.heard \cup {<<a, rs>>}
  BY <1>1 DEF Found, Device, said
<1>6. rs \in BOOLEAN
  BY DEF Scans
<1> HIDE DEF made, rs
<1>7. Listed(e)
  <2>1. /\ e.addrs \in Seq(Addr) /\ Len(e.addrs) <= MaxAddrs
        /\ \A j, k \in DOMAIN e.addrs : e.addrs[j] = e.addrs[k] => j = k
    BY <1>1, <1>5, AddAddrType DEF Listed
  <2>2. e.heard \in SUBSET (Addr \X BOOLEAN)
    BY <1>1, <1>5, <1>6
  <2>3. e.uri \in Uri \cup {NoUri}
    BY <1>1, <1>4, <1>5
  <2>4. e = [d EXCEPT !.resolved = TRUE, !.said = e.said, !.port = e.port,
                      !.uri = e.uri, !.addrs = e.addrs, !.heard = e.heard]
    BY <1>1, <1>5 DEF Found, said, made, rs
  <2> HIDE DEF e
  <2>5. e.said \in Said /\ e.port \in Port
    BY <1>2, <1>3, <1>5
  <2>6. [d EXCEPT !.resolved = TRUE, !.said = e.said, !.port = e.port,
                  !.uri = e.uri, !.addrs = e.addrs, !.heard = e.heard] \in Device
    BY <1>1, <2>1, <2>2, <2>3, <2>5, DeviceUpdated
  <2>7. e \in Device
    BY <2>4, <2>6
  <2> QED BY <2>1, <2>7 DEF Listed
<1> HIDE DEF e
<1>8. Suits(e)
  <2>1. e.uri # NoUri
    BY <1>4, <1>5 DEF TakesUri
  <2>2. (\E h \in e.heard : h[2]) => Scans(e.said)
    BY <1>3, <1>5 DEF Suits
  <2>3. \E r \in BOOLEAN : <<e.uri.addr, r>> \in e.heard
    <3>1. CASE TakesUri(d, a)
      BY <3>1, <1>4, <1>5, <1>6
    <3>2. CASE ~TakesUri(d, a)
      BY <3>2, <1>5 DEF Suits, TakesUri
    <3> QED BY <3>1, <3>2
  <2>4. e.uri.addr \in Inet6 => \A h \in e.heard : h[1] \notin Inet
    <3>1. CASE d.uri = NoUri
      BY <3>1, <1>4, <1>5, DiscoverAssumption DEF Suits, TakesUri
    <3>2. CASE d.uri # NoUri
      BY <3>2, <1>4, <1>5, DiscoverAssumption DEF Suits, TakesUri
    <3> QED BY <3>1, <3>2
  <2>5. ASSUME Scans(e.said)
        PROVE  e.uri.path = Strip[e.said["rs"]] \/ \E h \in e.heard : ~h[2]
    <3>1. CASE TakesUri(d, a)
      BY <3>1, <2>5, <1>4, <1>5
    <3>2. CASE ~TakesUri(d, a) /\ Scans(d.said)
      BY <3>2, <1>3, <1>5 DEF Suits, TakesUri
    <3>3. CASE ~TakesUri(d, a) /\ ~Scans(d.said)
      <4>1. PICK r \in BOOLEAN : <<d.uri.addr, r>> \in d.heard
        BY <3>3 DEF Suits, TakesUri
      <4>2. ~r
        BY <3>3, <4>1 DEF Suits
      <4> QED BY <4>1, <4>2, <1>5
    <3> QED BY <3>1, <3>2, <3>3
  <2> QED BY <2>1, <2>2, <2>3, <2>4, <2>5 DEF Suits
<1> QED BY <1>5, <1>7, <1>8 DEF e

(* A device that has just been put in the list.                            *)
LEMMA NewDeviceGood ==
    ASSUME NEW key \in Key, findings + 1 \in 1 .. MaxFindings
    PROVE  /\ Listed(NewDevice(key)) /\ Suits(NewDevice(key))
           /\ NewDevice(key).key = key
<1> DEFINE d == NewDevice(key)
<1>1. <<>> \in Said
  <2>1. <<>> \in [{} -> Path]
    OBVIOUS
  <2> QED BY <2>1 DEF Said
<1>2. d = [key |-> key, dev |-> findings + 1, resolved |-> FALSE, said |-> <<>>,
           port |-> 0, uri |-> NoUri, addrs |-> <<>>, heard |-> {}]
  BY DEF NewDevice
<1>3. 0 \in Port /\ <<>> \in Seq(Addr) /\ {} \in SUBSET (Addr \X BOOLEAN)
  BY DEF Port
<1>4. d \in Device
  BY <1>1, <1>2, <1>3 DEF Device
<1>5. Listed(d)
  BY <1>2, <1>4, DiscoverAssumption DEF Listed
<1>6. ~Scans(d.said)
  BY <1>2 DEF Scans
<1> QED BY <1>2, <1>5, <1>6 DEF Suits

(* What is said of a device is kept by what is done to the list.           *)
LEMMA ListAppended ==
    ASSUME ListInv, NEW d, Listed(d), Suits(d),
           \A i \in DOMAIN devices : devices[i].key # d.key,
           devices' = Append(devices, d)
    PROVE  ListInv'
<1>1. d \in Device
  BY DEF Listed
<1>2. /\ devices' \in Seq(Device) /\ Len(devices') = Len(devices) + 1
      /\ Len(devices) \in Nat
      /\ \A i \in 1 .. Len(devices) : devices'[i] = devices[i]
      /\ devices'[Len(devices) + 1] = d
      /\ DOMAIN devices = 1 .. Len(devices) /\ DOMAIN devices' = 1 .. Len(devices')
  BY <1>1 DEF ListInv
<1>3. KeysDiffer(devices')
  BY <1>2 DEF ListInv, KeysDiffer
<1>4. \A i \in DOMAIN devices' : Listed(devices'[i]) /\ Suits(devices'[i])
  BY <1>2 DEF ListInv
<1> QED BY <1>2, <1>3, <1>4 DEF ListInv

LEMMA ListShortened ==
    ASSUME ListInv, NEW n \in DOMAIN devices, devices' = RemoveAt(devices, n)
    PROVE  ListInv'
<1> DEFINE old(i) == IF i < n THEN i ELSE i + 1
           front  == SubSeq(devices, 1, n - 1)
           back   == SubSeq(devices, n + 1, Len(devices))
<1>1. devices \in Seq(Device) /\ n \in 1 .. Len(devices) /\ Len(devices) \in Nat
  BY DEF ListInv
<1>2. /\ front \in Seq(Device) /\ Len(front) = n - 1
      /\ back \in Seq(Device) /\ Len(back) = Len(devices) - n
      /\ \A i \in 1 .. n - 1 : front[i] = devices[i]
      /\ \A i \in 1 .. Len(devices) - n : back[i] = devices[n + i]
  BY <1>1, SMTT(30)
<1>3. devices' = front \o back
  BY DEF RemoveAt
<1> HIDE DEF front, back
<1>4. /\ devices' \in Seq(Device) /\ Len(devices') = Len(devices) - 1
      /\ DOMAIN devices' = 1 .. Len(devices) - 1
  BY <1>1, <1>2, <1>3
<1>5. \A i \in DOMAIN devices' : devices'[i] = devices[old(i)]
  <2> TAKE i \in DOMAIN devices'
  <2>1. CASE i < n
    BY <2>1, <1>1, <1>2, <1>3, <1>4
  <2>2. CASE ~(i < n)
    <3>1. i - (n - 1) \in 1 .. Len(devices) - n
      BY <2>2, <1>1, <1>4
    <3>2. devices'[i] = back[i - (n - 1)]
      BY <2>2, <3>1, <1>1, <1>2, <1>3, <1>4, SMTT(30)
    <3>3. n + (i - (n - 1)) = i + 1
      BY <1>1, <1>4
    <3> QED BY <2>2, <3>1, <3>2, <3>3, <1>2
  <2> QED BY <2>1, <2>2
<1>6. /\ \A i \in DOMAIN devices' : old(i) \in DOMAIN devices
      /\ \A i, j \in DOMAIN devices' : old(i) = old(j) => i = j
  BY <1>1, <1>4
<1> HIDE DEF old
<1>7. KeysDiffer(devices')
  BY <1>5, <1>6 DEF ListInv, KeysDiffer
<1>8. \A i \in DOMAIN devices' : Listed(devices'[i]) /\ Suits(devices'[i])
  BY <1>5, <1>6 DEF ListInv
<1> QED BY <1>4, <1>7, <1>8 DEF ListInv

LEMMA ListAnswered ==
    ASSUME ListInv, NEW n, NEW a \in Addr, NEW answer \in Answer,
           devices' = [i \in DOMAIN devices |->
                         IF devices[i].dev = n THEN Found(devices[i], a, answer)
                         ELSE devices[i]]
    PROVE  ListInv'
<1>1. /\ DOMAIN devices' = DOMAIN devices
      /\ \A i \in DOMAIN devices' :
            devices'[i] = IF devices[i].dev = n THEN Found(devices[i], a, answer)
                          ELSE devices[i]
  OBVIOUS
<1>2. \A i \in DOMAIN devices' :
        /\ Listed(devices'[i]) /\ Suits(devices'[i])
        /\ devices'[i].key = devices[i].key
  BY <1>1, FoundKeeps DEF ListInv
<1>3. devices' \in Seq(Device)
  <2>1. devices \in Seq(Device) /\ Len(devices) \in Nat /\ DOMAIN devices = 1 .. Len(devices)
    BY DEF ListInv
  <2>2. \A i \in 1 .. Len(devices) : devices'[i] \in Device
    BY <2>1, <1>1, <1>2 DEF Listed
  <2>3. devices' = [i \in 1 .. Len(devices) |-> devices'[i]]
    BY <2>1
  <2>4. devices' \in [1 .. Len(devices) -> Device]
    BY <2>2, <2>3
  <2> QED BY <2>1, <2>4
<1>4. KeysDiffer(devices')
  BY <1>1, <1>2 DEF ListInv, KeysDiffer
<1> QED BY <1>2, <1>3, <1>4 DEF ListInv

-----------------------------------------------------------------------------
(* Resolvers                                                               *)

(* Resolvers for the families that could be had.                           *)
Started(had, dev, turn) == {[dev |-> dev, turn |-> turn, want |-> f] : f \in had}

(* Those started for an announcement are as many as could be had.          *)
LEMMA StartedCount ==
    ASSUME NEW had \in SUBSET Family, NEW dev, NEW turn
    PROVE  /\ IsFiniteSet(Started(had, dev, turn))
           /\ Cardinality(Started(had, dev, turn)) = Cardinality(had)
<1> DEFINE new == Started(had, dev, turn)
<1> DEFINE g == [f \in had |-> [dev |-> dev, turn |-> turn, want |-> f]]
<1>1. IsFiniteSet(had)
  <2>1. IsFiniteSet({Inet}) /\ IsFiniteSet({Inet6})
    BY FS_Singleton
  <2>2. IsFiniteSet({Inet} \cup {Inet6})
    BY <2>1, FS_Union
  <2>3. had \subseteq {Inet} \cup {Inet6}
    BY DEF Family
  <2> QED BY <2>2, <2>3, FS_Subset
<1>2. g \in [had -> new]
  BY DEF Started
<1>3. \A f1, f2 \in had : g[f1] = g[f2] => f1 = f2
  <2> TAKE f1, f2 \in had
  <2>1. g[f1].want = f1 /\ g[f2].want = f2
    OBVIOUS
  <2> QED BY <2>1
<1>4. \A r \in new : \E f \in had : g[f] = r
  BY DEF Started
<1> HIDE DEF new, g
<1>5. g \in Bijection(had, new)
  BY <1>2, <1>3, <1>4 DEF Bijection, Injection, Surjection, IsInjective
<1>6. ExistsBijection(had, new)
  BY <1>5 DEF ExistsBijection
<1> QED BY <1>1, <1>6, FS_Bijection DEF new

(* They are new to the list.                                               *)
LEMMA ListStarted ==
    ASSUME CallInv, NEW had \in SUBSET Family, NEW dev \in 1 .. MaxFindings,
           findings < MaxFindings, findings' = findings + 1,
           rctxList' = rctxList \cup
             {[dev |-> dev, turn |-> findings + 1, want |-> f] : f \in had},
           pending' = pending + Cardinality(had)
    PROVE  /\ findings' \in 0 .. MaxFindings
           /\ rctxList' \subseteq Resolver
           /\ pending' = Cardinality(rctxList')
           /\ Counted'
<1> DEFINE new == Started(had, dev, findings + 1)
<1>1. findings \in Nat /\ MaxFindings \in Nat /\ findings + 1 \in 1 .. MaxFindings
  BY DiscoverAssumption DEF CallInv
<1>2. IsFiniteSet(new) /\ Cardinality(new) = Cardinality(had)
  BY StartedCount
<1>3. \A r \in new : r \in Resolver /\ r.turn = findings + 1
  BY <1>1 DEF Resolver, Started
<1> HIDE DEF new
<1>4. rctxList' = rctxList \cup new
  BY DEF new, Started
<1>5. rctxList \cap new = {}
  BY <1>1, <1>3 DEF CallInv, Counted
<1>6. /\ IsFiniteSet(rctxList \cup new)
      /\ Cardinality(rctxList \cup new) = Cardinality(rctxList) + Cardinality(new) - Cardinality({})
  BY <1>2, <1>5, FS_Union, ZenonT(60) DEF CallInv, Counted
<1>7. Cardinality({}) = 0 /\ Cardinality(rctxList) \in Nat /\ Cardinality(new) \in Nat
  BY <1>2, FS_EmptySet, FS_CardinalityType DEF CallInv, Counted
<1>8. pending' = Cardinality(rctxList')
  <2>1. pending = Cardinality(rctxList)
    BY DEF CallInv
  <2>2. Cardinality(rctxList \cup new) = Cardinality(rctxList) + Cardinality(new)
    BY <1>6, <1>7
  <2> QED BY ONLY <1>2, <1>4, <2>1, <2>2, pending' = pending + Cardinality(had), Zenon
<1>9. \A r \in rctxList' : r.turn <= findings'
  BY <1>1, <1>3, <1>4 DEF CallInv, Counted, Resolver
<1>10. rctxList' \subseteq Resolver
  BY <1>3, <1>4 DEF CallInv
<1>11. IsFiniteSet(rctxList') /\ findings' \in 0 .. MaxFindings
  <2>1. IsFiniteSet(rctxList')
    BY ONLY <1>4, <1>6, Zenon
  <2>2. findings' \in 0 .. MaxFindings
    BY <1>1
  <2> QED BY <2>1, <2>2
<1> QED BY <1>8, <1>9, <1>10, <1>11 DEF Counted

(* The end of a resolver's callback.                                       *)
LEMMA Unlinked ==
    ASSUME CallInv, NEW r \in rctxList, Polling, Unlink(r),
           UNCHANGED <<pc, allForNow, err, findings>>
    PROVE  CallInv'
<1>1. /\ IsFiniteSet(rctxList \ {r})
      /\ Cardinality(rctxList \ {r}) = Cardinality(rctxList) - 1
  BY FS_RemoveElement DEF CallInv, Counted
<1>2. IsFiniteSet(rctxList') /\ pending' = Cardinality(rctxList')
  BY <1>1 DEF CallInv, Unlink
<1>3. pending' = 0 <=> rctxList' = {}
  BY <1>2, FS_EmptySet
<1>4. quit' \in BOOLEAN /\ (quit' <=> rctxList' = {} /\ \A s \in Service : allForNow'[s])
  BY <1>3 DEF Unlink, CheckDone
<1>5. Counted' /\ rctxList' \subseteq Resolver
  BY <1>2 DEF Unlink, CallInv, Counted
<1>6. Unsettled' /\ DoneExactlyWhenSettled'
  BY <1>4 DEF Polling, Unsettled, DoneExactlyWhenSettled
<1> QED BY <1>2, <1>4, <1>5, <1>6 DEF CallInv

-----------------------------------------------------------------------------
(* The steps                                                               *)

LEMMA ListStep == ASSUME IInv, [Next]_vars PROVE ListInv'
<1> USE DEF IInv
<1>1. CASE UNCHANGED devices
  BY <1>1 DEF ListInv
<1>2. ASSUME NEW key \in Key, BrowserNew(key)
      PROVE  ListInv'
  <2>1. CASE Find(key) # {}
    <3>1. UNCHANGED devices
      BY <1>2, <2>1 DEF BrowserNew, DeviceGet
    <3> QED BY <3>1, <1>1
  <2>2. CASE Find(key) = {}
    <3>1. devices' = Append(devices, NewDevice(key))
      BY <1>2, <2>2 DEF BrowserNew, DeviceGet
    <3>2. findings + 1 \in 1 .. MaxFindings
      BY <1>2, DiscoverAssumption DEF BrowserNew, CallInv
    <3>3. /\ Listed(NewDevice(key)) /\ Suits(NewDevice(key))
          /\ NewDevice(key).key = key
      BY <3>2, NewDeviceGood
    <3>4. \A i \in DOMAIN devices : devices[i].key # NewDevice(key).key
      BY <2>2, <3>3 DEF Find
    <3> QED BY <3>1, <3>3, <3>4, ListAppended
  <2> QED BY <2>1, <2>2
<1>3. ASSUME NEW key \in Key, BrowserRemove(key)
      PROVE  ListInv'
  <2>1. PICK n \in DOMAIN devices : devices' = RemoveAt(devices, n)
    BY <1>3 DEF BrowserRemove, Find
  <2> QED BY <2>1, ListShortened
<1>4. ASSUME NEW r \in rctxList, NEW b \in Answer, NEW a \in r.want, ResolverFound(r, a, b)
      PROVE  ListInv'
  <2>1. a \in Addr
    BY DEF CallInv, Resolver, Family, Addr
  <2> QED BY <1>4, <2>1, ListAnswered DEF ResolverFound
<1>5. CASE Return
  <2>1. CASE devices' = <<>>
    BY <2>1 DEF ListInv, KeysDiffer
  <2> QED BY <1>1, <1>5, <2>1 DEF Return
<1> QED BY <1>1, <1>2, <1>3, <1>4, <1>5
        DEF Next, vars, Start, BrowserAllForNow, BrowserFailure, ResolverFailure,
            Timeout, PollQuit, PollFailed

LEMMA CallStep == ASSUME IInv, [Next]_vars PROVE CallInv'
<1> USE DEF IInv
<1>1. CASE Start
  <2>1. UNCHANGED <<allForNow, pending, rctxList, quit, findings>>
    BY <1>1 DEF Start
  <2>2. (pc' = "poll" /\ UNCHANGED err) \/ (pc' = "done" /\ err' = TRUE)
    BY <1>1 DEF Start
  <2>3. pc = "start" /\ \E s \in Service : ~allForNow[s]
    BY <1>1 DEF Start, CallInv, Unsettled, Service
  <2> QED BY <2>1, <2>2, <2>3 DEF CallInv, Counted, Unsettled, DoneExactlyWhenSettled
<1>2. ASSUME NEW key \in Key, BrowserNew(key)
      PROVE  CallInv'
  <2>1. PICK had \in SUBSET Family, i \in DOMAIN devices' :
          /\ rctxList' = rctxList \cup
               {[dev |-> devices'[i].dev, turn |-> findings + 1, want |-> f] : f \in had}
          /\ pending' = pending + Cardinality(had)
    BY <1>2 DEF BrowserNew
  <2>2. devices'[i].dev \in 1 .. MaxFindings
    BY ListStep, <1>2 DEF ListInv, Listed, Device, Next
  <2>3. /\ Polling /\ findings < MaxFindings /\ findings' = findings + 1
        /\ UNCHANGED <<pc, allForNow, err, quit>>
    BY <1>2 DEF BrowserNew
  <2>4. /\ findings' \in 0 .. MaxFindings
        /\ rctxList' \subseteq Resolver
        /\ pending' = Cardinality(rctxList')
        /\ Counted'
    BY <2>1, <2>2, <2>3, ListStarted
  <2>5. rctxList' = {} => rctxList = {}
    BY <2>1
  <2>6. Unsettled' /\ DoneExactlyWhenSettled'
    BY <2>3, <2>5 DEF CallInv, Polling, Unsettled, DoneExactlyWhenSettled
  <2> QED BY <2>3, <2>4, <2>6 DEF CallInv
<1>3. ASSUME NEW key \in Key, BrowserRemove(key)
      PROVE  CallInv'
  BY <1>3 DEF BrowserRemove, CallInv, Counted, Unsettled, DoneExactlyWhenSettled
<1>4. ASSUME NEW s \in Service, BrowserAllForNow(s)
      PROVE  CallInv'
  <2>1. /\ Polling /\ allForNow' = [allForNow EXCEPT ![s] = TRUE]
        /\ UNCHANGED <<pc, pending, rctxList, err, findings>>
        /\ quit' = (pending = 0 /\ \A t \in Service : allForNow'[t])
    BY <1>4 DEF BrowserAllForNow, CheckDone
  <2>2. pending = 0 <=> rctxList = {}
    BY FS_EmptySet DEF CallInv, Counted
  <2>3. quit' \in BOOLEAN /\ allForNow' \in [Service -> BOOLEAN]
    BY <2>1 DEF CallInv
  <2>4. Unsettled' /\ DoneExactlyWhenSettled'
    BY <2>1, <2>2 DEF Polling, Unsettled, DoneExactlyWhenSettled
  <2> QED BY <2>1, <2>3, <2>4 DEF CallInv, Counted
<1>5. CASE BrowserFailure
  BY <1>5 DEF BrowserFailure, Polling, CallInv, Counted, Unsettled, DoneExactlyWhenSettled
<1>6. ASSUME NEW r \in rctxList, NEW b \in Answer, NEW a \in r.want, ResolverFound(r, a, b)
      PROVE  CallInv'
  BY <1>6, Unlinked DEF ResolverFound
<1>7. ASSUME NEW r \in rctxList, ResolverFailure(r)
      PROVE  CallInv'
  BY <1>7, Unlinked DEF ResolverFailure
<1>8. CASE Timeout \/ PollQuit \/ PollFailed
  BY <1>8 DEF Timeout, PollQuit, PollFailed, CallInv, Counted, Unsettled, DoneExactlyWhenSettled
<1>9. CASE Return
  <2>1. /\ pc' = "returned" /\ rctxList' = {} /\ pending' = pending - Cardinality(rctxList)
        /\ UNCHANGED <<allForNow, err, quit, findings>>
    BY <1>9 DEF Return
  <2>2. Cardinality(rctxList) \in Nat
    BY FS_CardinalityType DEF CallInv, Counted
  <2>3. pending' = 0
    BY <2>1, <2>2 DEF CallInv
  <2>4. IsFiniteSet(rctxList') /\ pending' = Cardinality(rctxList')
    BY <2>1, <2>3, FS_EmptySet
  <2> QED BY <2>1, <2>4 DEF CallInv, Counted, Unsettled, DoneExactlyWhenSettled
<1>10. CASE UNCHANGED vars
  BY <1>10 DEF vars, CallInv, Counted, Unsettled, DoneExactlyWhenSettled
<1> QED BY <1>1, <1>2, <1>3, <1>4, <1>5, <1>6, <1>7, <1>8, <1>9, <1>10 DEF Next

LEMMA IInvInit == Init => IInv
<1> SUFFICES ASSUME Init PROVE IInv
  OBVIOUS
<1>1. IsFiniteSet({}) /\ Cardinality({}) = 0
  BY FS_EmptySet
<1>2. Counted /\ Unsettled /\ DoneExactlyWhenSettled
  BY <1>1 DEF Init, Counted, Unsettled, DoneExactlyWhenSettled
<1>3. CallInv
  <2>1. 0 \in 0 .. MaxFindings
    BY DiscoverAssumption
  <2>2. allForNow \in [Service -> BOOLEAN]
    BY DEF Init
  <2> QED BY <1>1, <1>2, <2>1, <2>2 DEF Init, CallInv
<1>4. ListInv
  BY DEF Init, ListInv, KeysDiffer
<1> QED BY <1>3, <1>4 DEF IInv

LEMMA IInvStep == IInv /\ [Next]_vars => IInv'
BY CallStep, ListStep DEF IInv

LEMMA IInvHolds == Spec => []IInv
BY IInvInit, IInvStep, PTL DEF Spec

(* The fields keep their types, a service is in the list once, and         *)
(* "pending" counts the list of resolvers, although the two are changed    *)
(* apart, by the callbacks of two kinds.                                   *)
THEOREM DiscoveryTypeCorrect == Spec => []TypeOK
<1>1. ASSUME IInv PROVE TypeOK
  <2>1. \A i, j \in DOMAIN devices : devices[i].key = devices[j].key => i = j
    BY <1>1 DEF IInv, ListInv, KeysDiffer
  <2>2. \A i \in DOMAIN devices :
          /\ Len(devices[i].addrs) <= MaxAddrs
          /\ \A j, k \in DOMAIN devices[i].addrs :
              devices[i].addrs[j] = devices[i].addrs[k] => j = k
    BY <1>1 DEF IInv, ListInv, Listed
  <2> QED BY <1>1, <2>1, <2>2 DEF IInv, CallInv, ListInv, TypeOK
<1> QED BY <1>1, IInvHolds, PTL

(* Discovery returns when browsing has settled: it neither leaves early    *)
(* nor sits out the timeout (ipp-mdns.h, 64-66).                           *)
THEOREM DiscoverySettles == Spec => []DoneExactlyWhenSettled
<1>1. IInv => DoneExactlyWhenSettled
  BY DEF IInv, CallInv
<1> QED BY <1>1, IInvHolds, PTL

(* Whatever the order of the answers, a device is addressed by IPv4 when   *)
(* it can be, and at its scan resource when it has said so (ipp-mdns.c,    *)
(* 429-440).                                                               *)
THEOREM DevicesAreAddressed == Spec => []UriSuitsTheDevice
<1>1. IInv => UriSuitsTheDevice
  BY DEF IInv, ListInv, Suits, UriSuitsTheDevice
<1> QED BY <1>1, IInvHolds, PTL
=============================================================================
