---------------------------- MODULE SaneDevices ----------------------------
(***************************************************************************)
(* The device list of sane-ipp.c, the opening of devices and the trace     *)
(* file of ipp-log.c: sane_init(), sane_get_devices(), sane_open(),        *)
(* sane_close() and sane_exit().  The frontend makes one call at a time    *)
(* and closes what it has opened before it leaves.  Calls that return at   *)
(* once and change nothing (no list wanted, local devices only, backend    *)
(* not initialized) are left out.                                          *)
(***************************************************************************)
EXTENDS Zeroconf

CONSTANTS
    Slot,           \* the handles a frontend holds at once
    AnyName,        \* sane_open() without a name
    ByUri,          \* sane_open() of a URI
    NoSlot,         \* none of them
    OpenName        \* names the frontend opens devices by

ASSUME DevicesAssumption == NoSlot \notin Slot /\ ByUri \notin OpenName

VARIABLES
    initialized,    \* ipp_sane_initialized
    kept,           \* ipp_sane_found, <<>> for NULL
    devs,           \* ipp_sane_devs: where in kept their strings are
    handles,        \* the slots that hold a handle
    trace,          \* whose trace file ipp_log_file is
    call,           \* "none", "get" or "open": the call in progress
    slot, arg,      \* of sane_open(): the handle to fill, and the name
    left,           \* endpoints sane_open() has not tried yet
    ret,            \* status of the last call, or of the one in progress
    lists,          \* device lists allocated and not released
    said,           \* history: what the endpoints tried have come to
    traced,         \* history: handles whose trace was started
    shown           \* history: the last list the frontend got, and of what

saneVars == <<initialized, kept, devs, handles, trace, call, slot, arg, left, ret,
              lists, said, traced, shown>>
vars == <<zcVars, saneVars>>

Outcome == {"GOOD", "IO_ERROR", "UNSUPPORTED", "NO_MEM"}
Nothing == [of |-> {}, uuids |-> <<>>]

Init ==
    /\ ZcInit
    /\ initialized = FALSE /\ kept = <<>> /\ devs = <<>> /\ lists = 0
    /\ handles = {} /\ trace = NoSlot /\ traced = {}
    /\ call = "none" /\ slot = NoSlot /\ arg = AnyName /\ left = <<>>
    /\ ret = "GOOD" /\ said = {} /\ shown = Nothing

-----------------------------------------------------------------------------

(* A list takes memory if there is anything in it.                         *)
Allocated(l) == IF l = <<>> THEN 0 ELSE 1

(* The device list is not released, or the SANE list is not.               *)
DevlistForget == kept' = <<>> /\ devs' = <<>> /\ lists' = lists
DevlistDangle == kept' = <<>> /\ devs' = devs /\ lists' = lists - Allocated(kept)

(* ipp_sane_devlist_free()                                                 *)
DevlistFree ==
    /\ kept' = <<>> /\ devs' = <<>> /\ lists' = lists - Allocated(kept)

SaneInit ==
    /\ call = "none" /\ ~initialized
    /\ initialized' = TRUE
    /\ UNCHANGED <<zcVars, kept, devs, handles, trace, call, slot, arg, left, ret, lists,
                   said, traced, shown>>

SaneExit ==
    /\ call = "none" /\ initialized /\ handles = {}
    /\ DevlistFree
    /\ initialized' = FALSE /\ trace' = NoSlot /\ shown' = Nothing
    /\ UNCHANGED <<zcVars, handles, call, slot, arg, left, ret, said, traced>>

-----------------------------------------------------------------------------

(* sane_get_devices(): the old list goes before the new one is looked for. *)
GetDevices ==
    /\ call = "none" /\ initialized
    /\ DevlistFree
    /\ ZcBegin
    /\ call' = "get" /\ ret' = "IO_ERROR"
    /\ UNCHANGED <<initialized, handles, trace, slot, arg, left, said, traced, shown>>

GetFailed ==
    /\ call = "get" /\ zc = "failed"
    /\ call' = "none"
    /\ ZcEnd
    /\ UNCHANGED <<initialized, kept, devs, handles, trace, slot, arg, left, ret, lists,
                   said, traced, shown>>

Usable(d) == d.endpoints # <<>> /\ d.scan

(* The loop over the devices; [i] is what it takes of the first i.         *)
UsableOf(l) ==
    LET Of[i \in 0 .. Len(l)] ==
            IF i = 0 THEN <<>>
            ELSE IF Usable(l[i]) THEN Append(Of[i - 1], i) ELSE Of[i - 1]
    IN  Of

(* ipp_sane_devlist_build(): the usable devices, in the order of the list. *)
DevlistBuild(l) == UsableOf(l)[Len(l)]

GetDone ==
    /\ call = "get" /\ zc = "ready"
    /\ devs' = DevlistBuild(list) /\ kept' = list
    /\ lists' = lists + Allocated(list)
    /\ shown' = [of |-> heard, uuids |-> [i \in DOMAIN devs' |-> list[devs'[i]].uuid]]
    /\ call' = "none" /\ ret' = "GOOD"
    /\ ZcEnd
    /\ UNCHANGED <<initialized, handles, trace, slot, arg, left, said, traced>>

(* No memory for the SANE list: the devices are released again.            *)
GetNoMem ==
    /\ call = "get" /\ zc = "ready"
    /\ call' = "none" /\ ret' = "NO_MEM"
    /\ ZcEnd
    /\ UNCHANGED <<initialized, kept, devs, handles, trace, slot, arg, left, lists, said,
                   traced, shown>>

-----------------------------------------------------------------------------

(* ipp_log_trace_open(): the file is opened in place of the one there is.  *)
(* It cannot be created, or it is not wanted or its directory cannot be    *)
(* made: then nothing is closed.                                           *)
TraceOpen(s) ==
    \/ trace' = s /\ traced' = traced \cup {s}
    \/ trace' \in {NoSlot, trace} /\ traced' = traced \ {s}

TraceClose == trace' = NoSlot

(* sane_open() returns.                                                    *)
OpenReturn ==
    call' = "none" /\ slot' = NoSlot /\ arg' = AnyName /\ left' = <<>> /\ said' = {}

OpenDevice ==
    /\ call = "none" /\ initialized
    /\ slot' \in Slot \ handles /\ arg' \in OpenName
    /\ TraceOpen(slot')
    /\ call' = "open" /\ ret' = "IO_ERROR"
    /\ ZcBegin
    /\ UNCHANGED <<initialized, kept, devs, handles, left, lists, said, shown>>

(* A URI needs no discovery.                                               *)
OpenUri ==
    /\ call = "none" /\ initialized
    /\ slot' \in Slot \ handles /\ arg' = ByUri
    /\ TraceOpen(slot')
    /\ call' = "try" /\ left' = <<ByUri>> /\ ret' = "IO_ERROR"
    /\ UNCHANGED <<zcVars, initialized, kept, devs, handles, lists, said, shown>>

OpenFailed ==
    /\ call = "open" /\ zc = "failed"
    /\ OpenReturn /\ TraceClose /\ ZcEnd
    /\ UNCHANGED <<initialized, kept, devs, handles, ret, lists, traced, shown>>

(* The devices a name may mean; the first of them is taken.                *)
Named == {i \in DOMAIN list : IF arg = AnyName THEN list[i].endpoints # <<>>
                              ELSE list[i].name = arg}

(* The trace stays open.                                                   *)
OpenNoDeviceTraced ==
    /\ call = "open" /\ zc = "ready" /\ Named = {}
    /\ ret' = "INVAL"
    /\ OpenReturn /\ ZcEnd
    /\ UNCHANGED <<initialized, kept, devs, handles, trace, lists, traced, shown>>

OpenNoDevice ==
    /\ call = "open" /\ zc = "ready" /\ Named = {}
    /\ ret' = "INVAL"
    /\ OpenReturn /\ TraceClose /\ ZcEnd
    /\ UNCHANGED <<initialized, kept, devs, handles, lists, traced, shown>>

OpenFind ==
    /\ call = "open" /\ zc = "ready" /\ Named # {}
    /\ left' = list[CHOOSE i \in Named : \A j \in Named : i <= j].endpoints
    /\ lists' = lists + 1
    /\ call' = "try" /\ ZcEnd
    /\ UNCHANGED <<initialized, kept, devs, handles, trace, slot, arg, ret, said, traced,
                   shown>>

(* sane_open() keeps its list.                                             *)
OpenKeepsList == UNCHANGED lists

(* The list sane_open() has of its own.                                    *)
OpenRelease == lists' = lists - (IF arg = ByUri THEN 0 ELSE 1)

(* The last failure is the one that is reported.                           *)
OpenLastFailure ==
    /\ call = "try" /\ left # <<>>
    /\ left' = Tail(left)
    /\ \E s \in Outcome \ {"GOOD"} : said' = said \cup {s} /\ ret' = s
    /\ UNCHANGED <<zcVars, initialized, kept, devs, handles, trace, call, slot, arg, lists,
                   traced, shown>>

(* ipp_sane_handle_new() at the next endpoint fails.  Of a device, only    *)
(* that it does not scan is remembered.                                    *)
OpenNextEndpoint ==
    /\ call = "try" /\ left # <<>>
    /\ left' = Tail(left)
    /\ \E s \in Outcome \ {"GOOD"} :
          /\ said' = said \cup {s}
          /\ ret' = IF s = "UNSUPPORTED" \/ arg = ByUri THEN s ELSE ret
    /\ UNCHANGED <<zcVars, initialized, kept, devs, handles, trace, call, slot, arg, lists,
                   traced, shown>>

OpenGood ==
    /\ call = "try" /\ left # <<>>
    /\ ret' = "GOOD" /\ handles' = handles \cup {slot}
    /\ OpenRelease /\ OpenReturn
    /\ UNCHANGED <<zcVars, initialized, kept, devs, trace, traced, shown>>

OpenGiveUp ==
    /\ call = "try" /\ left = <<>>
    /\ OpenRelease /\ OpenReturn /\ TraceClose
    /\ UNCHANGED <<zcVars, initialized, kept, devs, handles, ret, traced, shown>>

SaneClose ==
    /\ call = "none"
    /\ \E s \in handles : handles' = handles \ {s} /\ traced' = traced \ {s}
    /\ TraceClose
    /\ UNCHANGED <<zcVars, initialized, kept, devs, call, slot, arg, left, ret, lists, said,
                   shown>>

Discovering == ZcStep /\ UNCHANGED saneVars

Next ==
    \/ SaneInit \/ SaneExit
    \/ GetDevices \/ GetFailed \/ GetDone \/ GetNoMem
    \/ OpenDevice \/ OpenUri \/ OpenFailed \/ OpenNoDevice \/ OpenFind
    \/ OpenNextEndpoint \/ OpenGood \/ OpenGiveUp \/ SaneClose
    \/ Discovering

Spec == Init /\ [][Next]_vars
-----------------------------------------------------------------------------

(* Every variable, in range.                                               *)
TypeOK ==
    /\ zc \in {"idle", "merge", "dedup", "ready", "failed"}
    /\ found \in Seq(Finding) /\ heard \subseteq Finding /\ ifaces \in {Ifaces, {}}
    /\ list \in Seq(Device) /\ kept \in Seq(Device)
    /\ turn \in Nat /\ devs \in Seq(Nat) /\ lists \in 0 .. 2
    /\ initialized \in BOOLEAN /\ call \in {"none", "get", "open", "try"}
    /\ slot \in Slot \cup {NoSlot} /\ arg \in OpenName \cup {AnyName, ByUri}
    /\ handles \subseteq Slot /\ traced \subseteq Slot /\ trace \in Slot \cup {NoSlot}
    /\ ret \in Outcome \cup {"INVAL"} /\ said \subseteq Outcome

(* Two findings describe one device: their UUIDs are the same, however     *)
(* they are spelled (ipp-zeroconf.c 471-478).                              *)
OneDevice(f, g) ==
    \/ f = g
    \/ /\ f.uuid.id = g.uuid.id /\ f.uuid.id # NULL
       /\ (f.uuid.spelling = "nonsense") <=> (g.uuid.spelling = "nonsense")

(* A device made of certain findings, whatever order they came in.         *)
MadeOf(d, fs) ==
    /\ {Uri(e) : e \in ToSet(d.endpoints)} =
          UNION {{<<f.tls, a, IF f.rs # NULL THEN f.rs ELSE f.rp>> : a \in ToSet(f.addrs)} :
                    f \in fs}
    /\ d.scan <=> \E f \in fs : f.rs # NULL
    /\ d.model = NULL <=> \A f \in fs : f.model = NULL

(* What discovery returns is what it heard: one device for the findings    *)
(* of each device, with all of their addresses, and none besides.          *)
FindingsAreFolded ==
    zc = "ready" /\ heard # {} =>
        LET answered == {f \in heard : f.resolved /\ f.addrs # <<>>}
            groups   == {{g \in answered : OneDevice(f, g)} : f \in answered}
        IN  /\ Len(list) = Cardinality(groups)
            /\ \A fs \in groups : \E d \in ToSet(list) : MadeOf(d, fs)

(* At no time are there two devices with one UUID in a list, for all the   *)
(* spellings of a UUID (ipp_zc_device_find).                               *)
OneDevicePerUuid ==
    \A i, j \in DOMAIN list : list[i].uuid = list[j].uuid /\ i # j => list[i].uuid = NoUuid

(* Of the endpoints sane_open() goes through in order, none is there       *)
(* twice, and none comes before a nearer one, one not confined to its      *)
(* link, or, of its own reach, an encrypted one (ipp_endpoint_cmp).        *)
BestEndpointFirst ==
    \A k \in DOMAIN kept : \A j \in DOMAIN kept[k].endpoints : \A i \in 1 .. j - 1 :
        LET e == kept[k].endpoints[i]
            f == kept[k].endpoints[j]
        IN  /\ Uri(e) # Uri(f)
            /\ e.distance <= f.distance
            /\ e.distance = f.distance /\ e.linklocal => f.linklocal
            /\ e.distance = f.distance /\ e.linklocal = f.linklocal /\ f.tls => e.tls

(* The strings of the SANE list, which are not copied, are those of        *)
(* devices still kept, whatever calls failed since it was handed out       *)
(* (sane-ipp.c 82-85).                                                     *)
DevsPointIntoKept ==
    \A i \in DOMAIN devs : devs[i] \in DOMAIN kept /\ Usable(kept[devs[i]])

(* Between calls the only device list there is in memory is the one behind *)
(* the SANE list: every way out of sane_get_devices() and sane_open() has  *)
(* released its own, once.                                                 *)
ListsReleased == call = "none" => lists = Allocated(kept)

(* sane_open() gives up only when every endpoint has been tried, and says  *)
(* UNSUPPORTED if one of them answered that it does not scan, and only     *)
(* then (sane-ipp.c 405-408).                                              *)
FailureSaysWhy ==
    [][call = "try" /\ call' = "none" /\ ret' # "GOOD" =>
          left = <<>> /\ (ret' = "UNSUPPORTED" <=> "UNSUPPORTED" \in said)]_vars

(* A trace file belongs to a device that is open or being opened: no       *)
(* failure to open one leaves the file behind (ipp-log.h 62-65).           *)
TraceIsOfAnOpenDevice ==
    trace # NoSlot => trace \in handles \/ (call \in {"open", "try"} /\ trace = slot)

(* Everything that happens to a device after its trace was started goes to *)
(* its trace file (sane-ipp.c 450-452).  Not so with two devices.          *)
TraceFollowsTheDevice == \A s \in handles : s \in traced => trace = s

(* A device does not change its place in the SANE list between two calls   *)
(* that heard the same (ipp-zeroconf.c 574-578).  Not so: it is sorted by  *)
(* the name of the finding that came first.                                *)
ListStaysPut ==
    [][shown.of # {} /\ shown'.of = shown.of => shown'.uuids = shown.uuids]_shown
=============================================================================
