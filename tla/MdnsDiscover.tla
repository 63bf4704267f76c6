---------------------------- MODULE MdnsDiscover ----------------------------
(***************************************************************************)
(* ipp_mdns_discover() of ipp-mdns.c: two browsers announce services, two  *)
(* resolvers per announcement (IPv4 and IPv6) look them up in parallel,    *)
(* and the call returns when all of them are through or time is up.        *)
(*                                                                         *)
(* Avahi is outside of the repository.  It is taken to do what the code    *)
(* relies on: one callback at a time, in any order, none once the poll has *)
(* been told to quit, and one answer per resolver, of the family it was    *)
(* asked for.  An address stands for its literal, with the zone a          *)
(* link-local one has: a device is seen through one interface.             *)
(***************************************************************************)
EXTENDS Integers, FiniteSets, SequencesExt

CONSTANTS
    Instance,       \* instances: a name on an interface
    Inet, Inet6,    \* addresses of the two families
    Path,           \* spellings of the resources of a service
    Strip,          \* the path that one comes to without its outer slashes
    PrintPath,      \* "ipp/print"
    Answer,         \* what a service may say, whatever the address
    NoUri,          \* uri is NULL
    MaxAddrs,       \* IPP_MDNS_MAX_ADDRS
    MaxFindings,    \* bound: announcements in one call
    EarlyRemove     \* a service may go away while it is being resolved

VARIABLES
    pc,             \* "start", "poll", "done" (the label) or "returned"
    (* ipp_mdns_ctx *)
    allForNow,      \* all_for_now
    pending,        \* pending
    rctxList,       \* rctx_list
    devices,        \* devices
    err,            \* err is not NULL
    (* the poll *)
    quit,           \* it has been told to quit
    findings        \* announcements so far: it also names what they create

vars == <<pc, allForNow, pending, rctxList, devices, err, quit, findings>>

Service == {"ipp", "ipps"}
Key     == Instance \X Service
Addr    == Inet \cup Inet6
Family  == {Inet, Inet6}

(* What a device is known by of all that is said of it: the host name and  *)
(* the values of the TXT record.  Only resources are looked into, so that  *)
(* the other values may as well be paths.                                  *)
Field == {"host", "ty", "uuid", "rp", "rs", "pdl", "adminurl"}
Said  == UNION {[F -> Path] : F \in SUBSET Field}
Port  == 0 .. 2 ^ 16 - 1

Uri == [tls : BOOLEAN, addr : Addr, port : Port, path : Path]

ASSUME DiscoverAssumption ==
    /\ Inet \cap Inet6 = {}
    /\ PrintPath \in Path /\ Strip \in [Path -> Path]
    /\ Answer \subseteq [port : Port, said : Said]
    /\ NoUri \notin Uri
    /\ MaxAddrs \in Nat \ {0}
    /\ MaxFindings \in Nat
    /\ EarlyRemove \in BOOLEAN

(* An ipp_device.  dev: which allocation it is.  heard (history): every    *)
(* address a resolver has reported, and whether the answer had "rs".       *)
Device == [key : Key, dev : 1 .. MaxFindings, resolved : BOOLEAN, said : Said,
           port : Port, uri : Uri \cup {NoUri},
           addrs : Seq(Addr), heard : SUBSET (Addr \X BOOLEAN)]

(* An ipp_mdns_rctx.  dev: the allocation it points to.  turn: the         *)
(* announcement it belongs to.                                             *)
Resolver == [dev : 1 .. MaxFindings, turn : 1 .. MaxFindings, want : Family]

Init ==
    /\ pc = "start"
    /\ allForNow = [s \in Service |-> FALSE]
    /\ pending = 0 /\ rctxList = {} /\ devices = <<>>
    /\ err = FALSE /\ quit = FALSE /\ findings = 0

-----------------------------------------------------------------------------

(* Poll, client and browsers are made, or one of them is not.              *)
Start ==
    /\ pc = "start"
    /\ \/ pc' = "poll" /\ UNCHANGED err
       \/ pc' = "done" /\ err' = TRUE
    /\ UNCHANGED <<allForNow, pending, rctxList, devices, quit, findings>>

(* A callback may run.                                                     *)
Polling == pc = "poll" /\ ~quit

(* A check that looks at the resolvers alone.                              *)
CheckPending(n, settled) == quit' = (n = 0)

(* ipp_mdns_check_done(), with what the callback has made of pending and   *)
(* all_for_now.                                                            *)
CheckDone(n, settled) == quit' = (n = 0 /\ \A s \in Service : settled[s])

-----------------------------------------------------------------------------
(* ipp_mdns_browser_callback()                                             *)

Find(key) == {i \in DOMAIN devices : devices[i].key = key}

NewDevice(key) ==
    [key |-> key, dev |-> findings + 1, resolved |-> FALSE, said |-> <<>>,
     port |-> 0, uri |-> NoUri, addrs |-> <<>>, heard |-> {}]

(* ipp_device_get() without the lookup.                                    *)
DeviceGetNew(key) == Append(devices, NewDevice(key))

(* ipp_device_get(): the list afterwards.                                  *)
DeviceGet(key) ==
    IF Find(key) # {} THEN devices ELSE Append(devices, NewDevice(key))

(* ipp_mdns_resolve(), twice; a resolver that cannot be had is left out.   *)
BrowserNew(key) ==
    /\ Polling /\ findings < MaxFindings
    /\ findings' = findings + 1
    /\ devices' = DeviceGet(key)
    /\ \E had \in SUBSET Family, i \in DOMAIN devices' :
        /\ devices'[i].key = key
        /\ rctxList' = rctxList \cup
            {[dev |-> devices'[i].dev, turn |-> findings + 1, want |-> f] : f \in had}
        /\ pending' = pending + Cardinality(had)
    /\ UNCHANGED <<pc, allForNow, err, quit>>

(* ipp_device_del().  Resolvers of the device stay as they are.            *)
BrowserRemove(key) ==
    /\ Polling
    /\ EarlyRemove \/ \A r \in rctxList, i \in Find(key) : r.dev # devices[i].dev
    /\ \E i \in Find(key) : devices' = RemoveAt(devices, i)
    /\ UNCHANGED <<pc, allForNow, pending, rctxList, err, quit, findings>>

BrowserAllForNow(s) ==
    /\ Polling
    /\ allForNow' = [allForNow EXCEPT ![s] = TRUE]
    /\ CheckDone(pending, allForNow')
    /\ UNCHANGED <<pc, pending, rctxList, devices, err, findings>>

(* AVAHI_BROWSER_FAILURE, and AVAHI_CLIENT_FAILURE of                      *)
(* ipp_mdns_client_callback().                                             *)
BrowserFailure ==
    /\ Polling
    /\ err' = TRUE /\ quit' = TRUE
    /\ UNCHANGED <<pc, allForNow, pending, rctxList, devices, findings>>

-----------------------------------------------------------------------------
(* ipp_mdns_resolver_callback()                                            *)

(* ipp_device_add_addr()                                                   *)
AddAddr(addrs, a) ==
    IF (\E i \in DOMAIN addrs : addrs[i] = a) \/ Len(addrs) = MaxAddrs
    THEN addrs ELSE Append(addrs, a)

(* The first answer makes the URI, whatever family it is of.               *)
TakesFirst(d, a) == d.uri = NoUri

(* The answer makes the URI: it is the first one, or the first of IPv4.    *)
TakesUri(d, a) == d.uri = NoUri \/ (d.uri.addr \in Inet6 /\ a \in Inet)

(* Of each field the first value that is given stays.                      *)
Learn(old, new) ==
    [f \in DOMAIN old \cup DOMAIN new |->
        IF f \in DOMAIN old THEN old[f] ELSE new[f]]

(* dev->scan                                                               *)
Scans(said) == "rs" \in DOMAIN said

(* A service with a print resource is addressed at that.                   *)
UriOfPrinter(key, a, port, said) ==
    [tls |-> key[2] = "ipps", addr |-> a, port |-> port,
     path |-> IF "rp" \in DOMAIN said THEN Strip[said["rp"]] ELSE PrintPath]

(* ipp_uri_make(), of the resource the device is addressed at, or of NULL. *)
UriMake(key, a, port, said) ==
    [tls |-> key[2] = "ipps", addr |-> a, port |-> port,
     path |-> CASE Scans(said) -> Strip[said["rs"]]
                [] ~Scans(said) /\ "rp" \in DOMAIN said -> Strip[said["rp"]]
                [] OTHER -> PrintPath]

(* AVAHI_RESOLVER_FOUND: the device after an answer with address a.        *)
Found(d, a, answer) ==
    LET said == Learn(d.said, answer.said)
    IN  [d EXCEPT !.resolved = TRUE,
                  !.said     = said,
                  !.port     = answer.port,
                  !.uri      = IF TakesUri(d, a)
                               THEN UriMake(d.key, a, answer.port, said) ELSE @,
                  !.addrs    = AddAddr(@, a),
                  !.heard    = @ \cup {<<a, Scans(answer.said)>>}]

(* The end of the callback, after an answer and after a failure.           *)
Unlink(r) ==
    /\ rctxList' = rctxList \ {r}
    /\ pending' = pending - 1
    /\ CheckDone(pending', allForNow)

(* An answer for a device that is gone writes to freed memory; what is in  *)
(* the list is taken to survive that.                                      *)
ResolverFound(r, a, answer) ==
    /\ Polling
    /\ devices' = [i \in DOMAIN devices |->
                     IF devices[i].dev = r.dev THEN Found(devices[i], a, answer)
                     ELSE devices[i]]
    /\ Unlink(r)
    /\ UNCHANGED <<pc, allForNow, err, findings>>

ResolverFailure(r) ==
    /\ Polling
    /\ Unlink(r)
    /\ UNCHANGED <<pc, allForNow, devices, err, findings>>

-----------------------------------------------------------------------------
(* The loop of ipp_mdns_discover(), and what follows it                    *)

(* The deadline is looked at before the poll is.                           *)
Timeout ==
    /\ pc = "poll" /\ pc' = "done"
    /\ UNCHANGED <<allForNow, pending, rctxList, devices, err, quit, findings>>

PollQuit ==
    /\ pc = "poll" /\ quit /\ pc' = "done"
    /\ UNCHANGED <<allForNow, pending, rctxList, devices, err, quit, findings>>

PollFailed ==
    /\ Polling
    /\ pc' = "done" /\ err' = TRUE
    /\ UNCHANGED <<allForNow, pending, rctxList, devices, quit, findings>>

(* ipp_mdns_ctx_cleanup() and the return: the list, or an error and none.  *)
Return ==
    /\ pc = "done" /\ pc' = "returned"
    /\ pending' = pending - Cardinality(rctxList)
    /\ rctxList' = {}
    /\ devices' = IF err THEN <<>> ELSE devices
    /\ UNCHANGED <<allForNow, err, quit, findings>>

Next ==
    \/ Start
    \/ \E k \in Key : BrowserNew(k)
    \/ \E k \in Key : BrowserRemove(k)
    \/ \E s \in Service : BrowserAllForNow(s)
    \/ BrowserFailure
    \/ \E r \in rctxList, b \in Answer : \E a \in r.want : ResolverFound(r, a, b)
    \/ \E r \in rctxList : ResolverFailure(r)
    \/ Timeout
    \/ PollQuit
    \/ PollFailed
    \/ Return

Spec == Init /\ [][Next]_vars

-----------------------------------------------------------------------------

(* The fields have their types; a service is in the list once (ipp-mdns.h, *)
(* 27-30) and its addresses are different ones, no more than fit;          *)
(* "pending" counts the list of resolvers it is kept beside.               *)
TypeOK ==
    /\ pc \in {"start", "poll", "done", "returned"}
    /\ allForNow \in [Service -> BOOLEAN]
    /\ rctxList \subseteq Resolver
    /\ pending = Cardinality(rctxList)
    /\ devices \in Seq(Device)
    /\ err \in BOOLEAN /\ quit \in BOOLEAN /\ findings \in 0 .. MaxFindings
    /\ \A i, j \in DOMAIN devices : devices[i].key = devices[j].key => i = j
    /\ \A i \in DOMAIN devices :
        /\ Len(devices[i].addrs) <= MaxAddrs
        /\ \A j, k \in DOMAIN devices[i].addrs :
            devices[i].addrs[j] = devices[i].addrs[k] => j = k

(* ipp-mdns.h, 64-66: discovery "blocks until browsing settles (all        *)
(* browsers reported ALL_FOR_NOW and every resolver has completed)".  The  *)
(* poll is told to quit in exactly that state: it neither returns early,   *)
(* with a device still being resolved, nor sits out the timeout with       *)
(* nothing left to wait for.                                               *)
DoneExactlyWhenSettled ==
    pc = "poll" /\ ~err =>
        (quit <=> rctxList = {} /\ \A s \in Service : allForNow[s])

(* ipp-mdns.c, 429-432: the URI prefers IPv4, although "both resolvers run *)
(* in parallel and either may answer first", and "a device that scans is   *)
(* addressed at its scan resource".  Whatever the order, and although the  *)
(* list of addresses may be full, a device that has reported an IPv4       *)
(* address is addressed by one, every one that has reported anything is    *)
(* addressed, and one that scans is addressed where it does - unless some  *)
(* of its answers do not say so: the URI is made of what is known by then. *)
UriSuitsTheDevice ==
    \A i \in DOMAIN devices : LET d == devices[i] IN
        /\ d.uri = NoUri => d.heard = {}
        /\ d.uri # NoUri =>
            /\ \E rs \in BOOLEAN : <<d.uri.addr, rs>> \in d.heard
            /\ d.uri.addr \in Inet6 => \A h \in d.heard : h[1] \notin Inet
            /\ Scans(d.said) =>
                  \/ d.uri.path = Strip[d.said["rs"]]
                  \/ \E h \in d.heard : ~h[2]

(* ipp-mdns.c, 72: the device of a resolver is the "device being           *)
(* resolved".  As long as the resolver is there, so is the device: both    *)
(* its callback (381) and the report of a timeout (698-700) follow the     *)
(* pointer.                                                                *)
DeviceBeingResolved ==
    \A r \in rctxList : \E i \in DOMAIN devices : devices[i].dev = r.dev
=============================================================================
