------------------------------- MODULE IppOpt -------------------------------
(***************************************************************************)
(* The options of an open device: what a scan service reports              *)
(* (ipp_scanner_decode() of ipp-proto.c), the SANE options built of it and *)
(* set by the frontend (ipp-opt.c, sane_control_option()), and the request *)
(* and the estimate they amount to (ipp_sane_job_start(),                  *)
(* ipp_sane_params_estimate()).                                            *)
(*                                                                         *)
(* Lengths in a response are in hundredths of a millimetre (hmm), those of *)
(* a frontend in SANE_Fixed: words of 1/65536 mm.  Strings that differ in  *)
(* case only are one string.                                               *)
(***************************************************************************)
EXTENDS Integers, SequencesExt

CONSTANTS
    Response,       \* answers to Get-Printer-Attributes
    MediaSize,      \* the sizes that media names spell out, where they do
    Word,           \* bound: what a frontend sets a corner to
    Dpi             \* bound: what a frontend sets the resolution to

NULL    == ""
Axis    == {"x", "y"}
TopLeft == [x |-> "tl_x", y |-> "tl_y"]
BotRight == [x |-> "br_x", y |-> "br_y"]
Corner  == {TopLeft[a] : a \in Axis} \cup {BotRight[a] : a \in Axis}
AxisOf(c) == IF c \in {TopLeft["x"], BotRight["x"]} THEN "x" ELSE "y"
IsTopLeft(c) == c = TopLeft[AxisOf(c)]
Option  == {"count", "group", "mode", "resolution", "source"} \cup Corner

-----------------------------------------------------------------------------
(* Decoding a response: ipp_scanner_decode()                               *)

(* What is not a string is NULL to ippGetString().  Of a list of keywords  *)
(* all that is ever asked is what is in it.                                *)
StrList(values) == ToSet(values) \ {NULL}

(* A member of a collection is a range, an integer, or of no use.          *)
ColRange(v) == IF v.tag = "integer" THEN v.value ELSE v.upper

Member == {"origin", "dimension"} \X Axis
Usable(col) ==
    \A m \in Member : m \in DOMAIN col /\ col[m].tag \in {"range", "integer"}

(* Of the ranges only the upper ends are looked at from here on, and of the*)
(* regions the largest.                                                    *)
RegionList(cols) ==
    LET usable == {i \in DOMAIN cols : Usable(cols[i])}
    IN  {[m \in Member |-> ColRange(cols[i][m])] : i \in usable}

Scanner(r) ==
    [colorModes |-> StrList(r.colorModes), sources |-> StrList(r.sources),
     sides |-> StrList(r.sides), media |-> StrList(r.media),
     resolutions |-> r.resolutions, regions |-> RegionList(r.regions),
     others |-> r.others]

(* No list has anything in it: the scanner is NULL, and sane_open() goes   *)
(* on to the next endpoint.                                                *)
NoScanner(s) ==
    /\ s.colorModes = {} /\ s.sources = {} /\ s.sides = {} /\ s.media = {}
    /\ s.resolutions = <<>> /\ s.regions = {} /\ s.others = 0

-----------------------------------------------------------------------------
(* Building the options: ipp_opt_new()                                     *)

Supported(list, keyword) == keyword \in list

Collapse(sane, keywords) ==
    [i \in DOMAIN keywords |-> [sane |-> sane, keyword |-> keywords[i]]]

ColorModes ==
    Collapse("Lineart", <<"bi-level">>) \o
    Collapse("Gray", <<"monochrome", "monochrome_8", "monochrome_16", "monochrome_4">>) \o
    Collapse("Color", <<"color", "color_8", "rgb_16", "rgba_8", "rgba_16", "cmyk_8",
                        "cmyk_16">>)

(* Every keyword is a mode of its own.                                     *)
AddModeAgain(offered, m) == Append(offered, m)

(* Several keywords may collapse onto a mode; the first stands for it.     *)
AddMode(offered, m) ==
    IF \E i \in DOMAIN offered : offered[i].sane = m.sane THEN offered
    ELSE Append(offered, m)

(* The table is gone through once; [i] is what the first i rows offer.     *)
ModesOffered(s) ==
    LET Offered[i \in 0 .. Len(ColorModes)] ==
            IF i = 0 THEN <<>>
            ELSE IF Supported(s.colorModes, ColorModes[i].keyword)
                 THEN AddMode(Offered[i - 1], ColorModes[i]) ELSE Offered[i - 1]
    IN  Offered

ModesBuild(s) == ModesOffered(s)[Len(ColorModes)]

(* Color, or the first.                                                    *)
ModeDefault(offered) ==
    IF \E i \in DOMAIN offered : offered[i].sane = "Color"
    THEN CHOOSE i \in DOMAIN offered : offered[i].sane = "Color" ELSE 1

(* ipp_opt_first_supported()                                               *)
FirstSupported(list, keywords) ==
    IF \E i \in DOMAIN keywords : Supported(list, keywords[i])
    THEN keywords[CHOOSE i \in DOMAIN keywords :
                    /\ Supported(list, keywords[i])
                    /\ \A j \in 1 .. i - 1 : ~Supported(list, keywords[j])]
    ELSE NULL

(* A duplex setting that is there whether or not the service has it.       *)
DuplexAlways(s) == "two-sided-long-edge"

Simplex(s) == FirstSupported(s.sides, <<"one-sided">>)
Duplex(s)  == FirstSupported(s.sides, <<"two-sided-long-edge", "two-sided-short-edge">>)

SourcesBuild(s) ==
    LET Offer(ok, sane, source, sides) ==
            IF ok THEN <<[sane |-> sane, source |-> source, sides |-> sides]>> ELSE <<>>
        adf == Supported(s.sources, "adf")
    IN  Offer(Supported(s.sources, "platen"), "Flatbed", "platen", Simplex(s)) \o
        Offer(adf, "ADF", "adf", Simplex(s)) \o
        Offer(adf /\ Duplex(s) # NULL, "ADF Duplex", "adf", Duplex(s)) \o
        Offer(Supported(s.sources, "film-reader"), "Film", "film-reader", Simplex(s))

(* qsort() of different numbers: each has its place by how many are less.  *)
Ascending(S) ==
    [k \in 1 .. Cardinality(S) |->
        CHOOSE n \in S : Cardinality({m \in S : m < n}) = k - 1]

(* The resolutions that the option can stand for.                          *)
Square(s) ==
    LET square == {i \in DOMAIN s.resolutions : LET r == s.resolutions[i] IN
                     r.units = "inch" /\ r.x = r.y /\ r.x > 0}
    IN  {s.resolutions[i].x : i \in square}

ResolutionsBuild(s) == Ascending(Square(s))

Abs(n) == IF n < 0 THEN -n ELSE n

(* One as near is taken, too.                                              *)
BetterOrAsGood(list, want, b, i) ==
    IF Abs(list[i] - want) <= Abs(list[b] - want) THEN i ELSE b

(* A later one has to be nearer to be taken.                               *)
Better(list, want, b, i) == IF Abs(list[i] - want) < Abs(list[b] - want) THEN i ELSE b

(* The loop over the list; [i] is the best of the first i.                 *)
NearestSoFar(list, want) ==
    LET Best[i \in 0 .. Len(list)] ==
            IF i = 0 THEN 1 ELSE Better(list, want, Best[i - 1], i)
    IN  Best

Nearest(list, want) == NearestSoFar(list, want)[Len(list)]

DefaultDpi == 300

(* The most of a member over all regions, 0 if there is none.              *)
Most(s, m) == Max({0} \cup {r[m] : r \in s.regions})

(* The largest medium whose size is known.                                 *)
MostMedia(s, a) ==
    Max({0} \cup {MediaSize[n][a] : n \in s.media \cap DOMAIN MediaSize})

(* Whether the regions say how large the area is, along both axes.         *)
RegionsTell(s) == \A a \in Axis : Most(s, <<"dimension", a>>) > 0

Reach(s, a)  == IF RegionsTell(s) THEN Most(s, <<"dimension", a>>) ELSE MostMedia(s, a)
Begins(s, a) == IF RegionsTell(s) THEN Most(s, <<"origin", a>>) ELSE Reach(s, a)

(* A scan cannot start beyond the far edge.                                *)
OriginMost(s, a) == IF Begins(s, a) > Reach(s, a) THEN Reach(s, a) ELSE Begins(s, a)

NoArea == [a \in Axis |-> [origin |-> 0, size |-> 0]]

AreaBuild(s) ==
    IF \A a \in Axis : Reach(s, a) > 0
    THEN [a \in Axis |-> [origin |-> OriginMost(s, a), size |-> Reach(s, a)]]
    ELSE NoArea

(* A length of which a SANE_Fixed can hold no more is 32767.99 mm; what    *)
(* the conversion of a longer one gives, C does not say.                   *)
MaxSize == 3276799

ASSUME OptAssumption ==
    /\ Word \subseteq Int /\ Dpi \subseteq Int
    /\ \A r \in Response : r.resolutions \in Seq([x : Int, y : Int, units : {"inch", "cm"}])
    /\ \A r \in Response, a \in Axis :
        /\ Reach(Scanner(r), a) \in 0 .. MaxSize
        /\ Begins(Scanner(r), a) \in Nat

-----------------------------------------------------------------------------

VARIABLES
    resp,           \* what the service has reported
    (* struct ipp_opt: what is offered, built once *)
    modes, sources, resolutions, area,
    (* the current values; the first three are indices *)
    mode, source, resolution, corner,
    (* history *)
    last            \* what the last call to set an option was told

offer  == <<resp, modes, sources, resolutions, area>>
values == <<mode, source, resolution, corner>>
vars   == <<offer, values, last>>

(* asked and told: the value before and after the call, if it is a number. *)
Answer ==
    [option : Option, asked : Int, told : Int,
     info : SUBSET {"INEXACT", "RELOAD_PARAMS"},
     status : {"GOOD", "INVAL", "UNSUPPORTED"}]

Init ==
    /\ resp \in {r \in Response : ~NoScanner(Scanner(r))}
    /\ modes = ModesBuild(Scanner(resp))
    /\ sources = SourcesBuild(Scanner(resp))
    /\ resolutions = ResolutionsBuild(Scanner(resp))
    /\ area = AreaBuild(Scanner(resp))
    /\ mode = ModeDefault(modes) /\ source = 1
    /\ resolution = Nearest(resolutions, DefaultDpi)
    /\ corner = [c \in Corner |-> IF IsTopLeft(c) THEN 0 ELSE area[AxisOf(c)].size]
    /\ last = [option |-> "count", asked |-> 0, told |-> 0, info |-> {}, status |-> "GOOD"]

(* ipp_opt_desc_area(): how far a corner may go, in hmm.                    *)
Edge(c) == IF IsTopLeft(c) THEN area[AxisOf(c)].origin ELSE area[AxisOf(c)].size

HasArea == \A a \in Axis : area[a].size > 0

(* SANE_CAP_SOFT_SELECT: the option can be set.                            *)
Active(o) ==
    \/ o = "mode" /\ modes # <<>>
    \/ o = "source" /\ sources # <<>>
    \/ o = "resolution" /\ resolutions # <<>>
    \/ o \in Corner /\ HasArea

(* ipp_opt_hmm_to_fixed() cuts off what is less than a word ...            *)
HmmToFixed(hmm) == (hmm * 65536) \div 100

(* A conversion back that cuts off, too.                                   *)
FixedToHmmCut(w) == (w * 100) \div 65536

(* ... and ipp_opt_fixed_to_hmm() rounds; no corner is negative.           *)
FixedToHmm(w) == (w * 100 + 32768) \div 65536

(* The upper end of the range in the descriptor of a corner.               *)
Limit(c) == HmmToFixed(Edge(c))

Clamp(w, c) == IF w < 0 THEN 0 ELSE IF w > Limit(c) THEN Limit(c) ELSE w

(* ipp_opt_get() on a corner.                                              *)
CornerGet(c) == HmmToFixed(corner[c])

-----------------------------------------------------------------------------
(* ipp_opt_set(), by way of sane_control_option()                          *)

(* A value that is taken as it is.                                         *)
SetAsAsked(o, asked, told) ==
    last' = [option |-> o, asked |-> asked, told |-> asked, info |-> {"RELOAD_PARAMS"},
             status |-> "GOOD"]

(* Success.  The caller's value is replaced if it could not be taken.      *)
Set(o, asked, told) ==
    last' = [option |-> o, asked |-> asked, told |-> told, status |-> "GOOD",
             info |-> IF told = asked THEN {"RELOAD_PARAMS"}
                      ELSE {"RELOAD_PARAMS", "INEXACT"}]

SetMode(i) ==
    /\ i \in DOMAIN modes
    /\ mode' = i
    /\ Set("mode", 0, 0)
    /\ UNCHANGED <<offer, source, resolution, corner>>

SetSource(i) ==
    /\ i \in DOMAIN sources
    /\ source' = i
    /\ Set("source", 0, 0)
    /\ UNCHANGED <<offer, mode, resolution, corner>>

SetResolution(want) ==
    /\ Active("resolution")
    /\ resolution' = Nearest(resolutions, want)
    /\ Set("resolution", want, resolutions[resolution'])
    /\ UNCHANGED <<offer, mode, source, corner>>

(* A corner whose change tells the frontend nothing.                       *)
SetCornerQuietly(c, want) ==
    /\ Active(c)
    /\ corner' = [corner EXCEPT ![c] = FixedToHmm(Clamp(want, c))]
    /\ last' = [option |-> c, asked |-> want, told |-> Clamp(want, c), status |-> "GOOD",
                info |-> IF Clamp(want, c) = want THEN {} ELSE {"INEXACT"}]
    /\ UNCHANGED <<offer, mode, source, resolution>>

SetCorner(c, want) ==
    /\ Active(c)
    /\ corner' = [corner EXCEPT ![c] = FixedToHmm(Clamp(want, c))]
    /\ Set(c, want, Clamp(want, c))
    /\ UNCHANGED <<offer, mode, source, resolution>>

(* An option that cannot be set, a string that is no choice, or            *)
(* SANE_ACTION_SET_AUTO.                                                   *)
SetRefused(o) ==
    /\ \E s \in {"INVAL", "UNSUPPORTED"} :
        /\ s = "INVAL" => o \in {"mode", "source"} \/ ~Active(o)
        /\ last' = [option |-> o, asked |-> 0, told |-> 0, info |-> {}, status |-> s]
    /\ UNCHANGED <<offer, values>>

Next ==
    \/ \E i \in DOMAIN modes : SetMode(i)
    \/ \E i \in DOMAIN sources : SetSource(i)
    \/ \E d \in Dpi : SetResolution(d)
    \/ \E c \in Corner, w \in Word : SetCorner(c, w)
    \/ \E o \in Option : SetRefused(o)

Spec == Init /\ [][Next]_vars

-----------------------------------------------------------------------------
(* What the options amount to                                              *)

ColorMode  == IF modes = <<>> THEN NULL ELSE modes[mode].keyword
Source     == IF sources = <<>> THEN NULL ELSE sources[source].source
Sides      == IF sources = <<>> THEN NULL ELSE sources[source].sides
Resolution == IF resolutions = <<>> THEN 0 ELSE resolutions[resolution]

(* A region that begins at the corner called the top left one.             *)
ScanRegionFromTl(a) ==
    [origin |-> corner[TopLeft[a]], dimension |-> Abs(corner[BotRight[a]] - corner[TopLeft[a]])]

(* ipp_opt_scan_region() along one axis: between the corners, whichever    *)
(* way round they are.                                                     *)
ScanRegion(a) ==
    LET tl == corner[TopLeft[a]]
        br == corner[BotRight[a]]
    IN  [origin |-> IF tl < br THEN tl ELSE br, dimension |-> Abs(br - tl)]

(* What ipp_sane_job_start() asks for.                                      *)
Request ==
    [colorMode |-> ColorMode, source |-> Source, sides |-> Sides,
     resolution |-> Resolution, region |-> [a \in Axis |-> ScanRegion(a)]]

(* ipp_job_request(): what is empty is left out, so that the service        *)
(* applies a default of its own.                                           *)
JobRequest ==
    LET given == {m \in {"colorMode", "source", "sides"} : Request[m] # NULL} \cup
                 {m \in {"resolution"} : Request[m] > 0} \cup
                 {m \in {"region"} : HasArea}
    IN  Restrict(Request, given)

(* The keywords that are gray by name, without the longer ones.            *)
GrayByName(keyword) == keyword \in {"monochrome", "bi-level"}

(* ipp_sane_mode_is_gray(), for the keywords there are.                    *)
ModeIsGray(keyword) ==
    keyword \in {"monochrome", "monochrome_4", "monochrome_8", "monochrome_16", "bi-level",
                 "auto-monochrome", "process-monochrome", "process-bi-level"}

(* ipp_sane_params_estimate()                                              *)
Estimate ==
    [gray |-> ModeIsGray(ColorMode),
     pixels |-> [a \in Axis |->
        IF Resolution > 0 /\ HasArea
        THEN (ScanRegion(a).dimension * Resolution) \div 2540
        ELSE IF a = "x" THEN 0 ELSE -1]]

-----------------------------------------------------------------------------

(* The fields have their types, and the arrays of modes and sources hold   *)
(* what is put into them (ipp-opt.c, 23-28), whatever the service lists.   *)
TypeOK ==
    /\ resp \in Response
    /\ Len(modes) <= 3 /\ Len(sources) <= 4
    /\ area \in [Axis -> [origin : Nat, size : Nat]]
    /\ mode \in 1 .. 3 /\ source \in 1 .. 4 /\ resolution \in Nat \ {0}
    /\ Active("mode") => mode \in DOMAIN modes
    /\ Active("source") => source \in DOMAIN sources
    /\ Active("resolution") => resolution \in DOMAIN resolutions
    /\ corner \in [Corner -> Nat]
    /\ last \in Answer

(* ipp-proto.h, 169-171: what is asked for are the service's own keywords, *)
(* "as reported by ipp_scanner".  Whatever the options are set to, in      *)
(* whatever order, a request names nothing the service did not report, and *)
(* both sides of a sheet only of a feeder; and what the service offers of  *)
(* what the code knows is not left out.                                    *)
RequestIsOffered ==
    LET Named(m) == m \in DOMAIN JobRequest
    IN  /\ Named("colorMode") => ColorMode \in ToSet(resp.colorModes)
        /\ Named("source") => Source \in ToSet(resp.sources)
        /\ Named("sides") => /\ Sides \in ToSet(resp.sides)
                             /\ Sides # "one-sided" => Source = "adf"
        /\ Named("resolution") => \E i \in DOMAIN resp.resolutions :
            resp.resolutions[i] = [x |-> Resolution, y |-> Resolution, units |-> "inch"]
        /\ Named("source") \/ ToSet(resp.sources) \cap {"platen", "adf", "film-reader"} = {}
        /\ Named("colorMode") \/ \A i \in DOMAIN ColorModes :
            ColorModes[i].keyword \notin ToSet(resp.colorModes)
        /\ Named("sides") \/ ~Named("source") \/ "one-sided" \notin ToSet(resp.sides)
        /\ Named("resolution") \/ \A i \in DOMAIN resp.resolutions :
            LET r == resp.resolutions[i] IN r.x # r.y \/ r.x <= 0 \/ r.units # "inch"

(* The four corners are set one by one, either way round, clamped in words *)
(* and kept in hmm.  Whatever is set, the region of a request starts where *)
(* the device can start and ends on it: rounding does not carry it over    *)
(* the edge.                                                               *)
RegionFitsTheDevice ==
    \A a \in Axis :
        /\ ScanRegion(a).dimension >= 0
        /\ ScanRegion(a).origin \in 0 .. area[a].origin
        /\ ScanRegion(a).origin + ScanRegion(a).dimension <= area[a].size

(* A frontend that saves the scan area and sets it again later gets the    *)
(* same one, with no word of a change: the value read is one that may be   *)
(* set, and means the same hmm, though reading cuts off and setting        *)
(* rounds.                                                                 *)
SavedAreaRestores ==
    \A c \in Corner :
        /\ Clamp(CornerGet(c), c) = CornerGet(c)
        /\ FixedToHmm(CornerGet(c)) = corner[c]

(* ipp-opt.h, 86-88: "A value the device cannot take exactly is replaced   *)
(* with the nearest one it can, and SANE_INFO_INEXACT is reported": what   *)
(* the frontend has in its hands after a corner was set is what it would   *)
(* read back, and it is not another value without a word.                  *)
CornerIsWhatWasTold ==
    last.option \in Corner /\ last.status = "GOOD" =>
        /\ CornerGet(last.option) = last.told
        /\ "INEXACT" \in last.info <=> last.told # last.asked

(* ipp-opt.c, 819-833: what becomes of a corner.  One beyond its range is  *)
(* replaced by the end of the range, the frontend is told so, and reads    *)
(* back what it was told, though it is kept in another unit.  One within   *)
(* the range is kept to the nearest hmm, which is at most half of one away *)
(* (that the frontend is not told of that is CornerIsWhatWasTold).         *)
CornerIsKept ==
    last.option \in Corner /\ last.status = "GOOD" =>
        IF last.asked \in 0 .. Limit(last.option)
        THEN Abs(CornerGet(last.option) - last.asked) <= 328
        ELSE /\ CornerGet(last.option) = last.told
             /\ "INEXACT" \in last.info

(* ipp-opt.h, 86-88, and ipp-opt.c, 350-351: the resolution is the nearest *)
(* the device has to what was asked for, of two the lower, and the         *)
(* frontend is told which if it is another one; so is the first one, of    *)
(* 300 dpi.                                                                *)
NearestResolution ==
    LET taken == resolutions[resolution]
        Nearer(r, want) == Abs(r - want) < Abs(taken - want)
        Ties(r, want)   == Abs(r - want) = Abs(taken - want) /\ r < taken
        Best(want) == \A i \in DOMAIN resolutions :
                        ~Nearer(resolutions[i], want) /\ ~Ties(resolutions[i], want)
    IN  Active("resolution") =>
        /\ last.option = "count" /\ last.status = "GOOD" => Best(DefaultDpi)
        /\ last.option = "resolution" /\ last.status = "GOOD" =>
            /\ Best(last.asked) /\ last.told = taken
            /\ "INEXACT" \in last.info <=> taken # last.asked

(* Two tables that have to agree: a mode shown as Gray or Lineart stands   *)
(* for a keyword whose images are estimated as gray, and Color for one     *)
(* that is not (ipp-opt.c, 147-160; sane-ipp.c, 687-697).                  *)
EstimateIsOfTheMode ==
    Active("mode") => (Estimate.gray <=> modes[mode].sane # "Color")

(* SANE_INFO_RELOAD_PARAMS (ipp-opt.c, 842-844): what sane_get_parameters()*)
(* would answer before a scan does not change without the frontend being   *)
(* told so.                                                                *)
ReloadIsTold == [][Estimate' # Estimate => "RELOAD_PARAMS" \in last'.info]_vars
=============================================================================
