---------------------------- MODULE IppOptProofs ----------------------------
(***************************************************************************)
(* The options, for any services, media and values that a frontend sets.   *)
(* The scan area: what is asked for is on the device, what is read can be  *)
(* set again, and what is told is true; the invariant behind all three is  *)
(* that a corner is kept within the range its descriptor shows.  The modes,*)
(* sources and resolutions: what was built of the response is still what   *)
(* the values index, so that a request names what the service has, and the *)
(* loops that build and search the lists are followed turn by turn.        *)
(***************************************************************************)
EXTENDS IppOpt, InductionLemmas, SequenceTheorems, FiniteSetTheorems

(* Conversions between hmm and words: what is lost in one direction is     *)
(* made good in the other.                                                 *)
LEMMA ThereAndBack ==
    ASSUME NEW h \in Nat
    PROVE  HmmToFixed(h) \in Nat /\ FixedToHmm(HmmToFixed(h)) = h
  BY DEF HmmToFixed, FixedToHmm

(* A value within a limit is kept within that limit.                       *)
LEMMA RoundingStaysWithin ==
    ASSUME NEW k \in Nat, NEW w \in 0 .. HmmToFixed(k)
    PROVE  FixedToHmm(w) \in 0 .. k
  BY DEF HmmToFixed, FixedToHmm

(* What is read back after rounding is half an hmm away at most.           *)
LEMMA RoundingIsClose ==
    ASSUME NEW w \in Nat
    PROVE  Abs(HmmToFixed(FixedToHmm(w)) - w) <= 328
  BY DEF HmmToFixed, FixedToHmm, Abs

LEMMA ConversionsAreMonotonic ==
    ASSUME NEW h \in Nat, NEW k \in Nat, h <= k
    PROVE  HmmToFixed(h) <= HmmToFixed(k)
  BY DEF HmmToFixed

-----------------------------------------------------------------------------

AreaOK ==
    /\ DOMAIN area = Axis
    /\ \A a \in Axis : /\ area[a].size \in Nat
                       /\ area[a].origin \in 0 .. area[a].size

CornersOK ==
    /\ DOMAIN corner = Corner
    /\ \A c \in Corner : corner[c] \in 0 .. Edge(c)

(* What the last call was told of a corner: the value that was asked for,  *)
(* moved into the range, of which the corner keeps whole hmm.              *)
ToldOK ==
    last.option \in Corner /\ last.status = "GOOD" =>
        /\ last.asked \in Word
        /\ last.told = Clamp(last.asked, last.option)
        /\ corner[last.option] = FixedToHmm(last.told)
        /\ "INEXACT" \in last.info <=> last.told # last.asked

IInv == AreaOK /\ CornersOK /\ ToldOK

(* The names of the corners.                                               *)
LEMMA Corners ==
    /\ Axis = {"x", "y"} /\ Corner = {"tl_x", "tl_y", "br_x", "br_y"}
    /\ TopLeft["x"] = "tl_x" /\ TopLeft["y"] = "tl_y"
    /\ BotRight["x"] = "br_x" /\ BotRight["y"] = "br_y"
    /\ AxisOf("tl_x") = "x" /\ AxisOf("tl_y") = "y"
    /\ AxisOf("br_x") = "x" /\ AxisOf("br_y") = "y"
    /\ IsTopLeft("tl_x") /\ IsTopLeft("tl_y")
    /\ ~IsTopLeft("br_x") /\ ~IsTopLeft("br_y")
    /\ "count" \notin Corner /\ "mode" \notin Corner
    /\ "source" \notin Corner /\ "resolution" \notin Corner
  BY DEF Axis, Corner, TopLeft, BotRight, AxisOf, IsTopLeft

(* No corner may be moved beyond the area.                                 *)
LEMMA Edges ==
    ASSUME AreaOK, NEW c \in Corner
    PROVE  Edge(c) \in 0 .. area[AxisOf(c)].size
  BY Corners DEF AreaOK, Edge

LEMMA InitOK == Init => IInv
<1> SUFFICES ASSUME Init PROVE IInv
  OBVIOUS
<1> DEFINE s == Scanner(resp)
<1>1. \A a \in Axis : Reach(s, a) \in Nat /\ Begins(s, a) \in Nat
  BY OptAssumption DEF Init
<1> HIDE DEF s
<1>2. \A a \in Axis : OriginMost(s, a) \in 0 .. Reach(s, a)
  BY <1>1 DEF OriginMost
<1>3. area = AreaBuild(s)
  BY DEF Init, s
<1>4. AreaOK
  BY <1>1, <1>2, <1>3 DEF AreaBuild, NoArea, AreaOK
<1>5. CornersOK
  <2>1. corner = [c \in Corner |-> IF IsTopLeft(c) THEN 0 ELSE area[AxisOf(c)].size]
    BY DEF Init
  <2> QED
    BY <1>4, <2>1, Corners DEF AreaOK, CornersOK, Edge
<1>6. ToldOK
  BY Corners DEF Init, ToldOK
<1> QED
  BY <1>4, <1>5, <1>6 DEF IInv

(* What a corner is set to is within its range, and a value that had to be *)
(* replaced is an end of the range, which is a whole number of hmm.        *)
LEMMA Clamped ==
    ASSUME AreaOK, NEW c \in Corner, NEW w \in Int
    PROVE  /\ Clamp(w, c) \in 0 .. HmmToFixed(Edge(c))
           /\ FixedToHmm(Clamp(w, c)) \in 0 .. Edge(c)
           /\ Clamp(w, c) # w => HmmToFixed(FixedToHmm(Clamp(w, c))) = Clamp(w, c)
<1>1. Edge(c) \in Nat
  BY Edges, Corners DEF AreaOK
<1>2. Limit(c) = HmmToFixed(Edge(c)) /\ Limit(c) \in Nat
  BY <1>1, ThereAndBack DEF Limit
<1>3. Clamp(w, c) \in 0 .. HmmToFixed(Edge(c))
  BY <1>2 DEF Clamp
<1>4. FixedToHmm(Clamp(w, c)) \in 0 .. Edge(c)
  BY <1>1, <1>3, RoundingStaysWithin
<1>5. ASSUME Clamp(w, c) # w
      PROVE  HmmToFixed(FixedToHmm(Clamp(w, c))) = Clamp(w, c)
  <2>1. Clamp(w, c) = 0 \/ Clamp(w, c) = Limit(c)
    BY <1>5 DEF Clamp
  <2>2. CASE Clamp(w, c) = 0
    BY <2>2 DEF HmmToFixed, FixedToHmm
  <2>3. CASE Clamp(w, c) = Limit(c)
    BY <1>1, <1>2, <2>3, ThereAndBack
  <2> QED
    BY <2>1, <2>2, <2>3
<1> QED
  BY <1>3, <1>4, <1>5

LEMMA StepOK == IInv /\ [Next]_vars => IInv'
<1> SUFFICES ASSUME IInv, [Next]_vars PROVE IInv'
  OBVIOUS
<1> USE DEF IInv
<1>1. ASSUME NEW i \in DOMAIN modes, SetMode(i) PROVE IInv'
  BY <1>1, Corners DEF SetMode, Set, offer, AreaOK, CornersOK, Edge, ToldOK
<1>2. ASSUME NEW i \in DOMAIN sources, SetSource(i) PROVE IInv'
  BY <1>2, Corners DEF SetSource, Set, offer, AreaOK, CornersOK, Edge, ToldOK
<1>3. ASSUME NEW d \in Dpi, SetResolution(d) PROVE IInv'
  BY <1>3, Corners DEF SetResolution, Set, offer, AreaOK, CornersOK, Edge, ToldOK
<1>4. ASSUME NEW c \in Corner, NEW w \in Word, SetCorner(c, w) PROVE IInv'
  <2>0. w \in Int
    BY OptAssumption
  <2> DEFINE got == Clamp(w, c)
  <2>1. /\ got \in Nat /\ FixedToHmm(got) \in 0 .. Edge(c)
        /\ got # w => HmmToFixed(FixedToHmm(got)) = got
    <3>1. Edge(c) \in Nat
      BY Edges, Corners DEF AreaOK
    <3>2. HmmToFixed(Edge(c)) \in Nat
      BY <3>1, ThereAndBack
    <3>3. /\ got \in 0 .. HmmToFixed(Edge(c)) /\ FixedToHmm(got) \in 0 .. Edge(c)
          /\ got # w => HmmToFixed(FixedToHmm(got)) = got
      BY <2>0, Clamped
    <3> HIDE DEF got
    <3> QED
      BY <3>2, <3>3
  <2>2. area' = area /\ corner' = [corner EXCEPT ![c] = FixedToHmm(got)]
    BY <1>4 DEF SetCorner, offer
  <2>3. last' = [option |-> c, asked |-> w, told |-> got, status |-> "GOOD",
                 info |-> IF got = w THEN {"RELOAD_PARAMS"}
                          ELSE {"RELOAD_PARAMS", "INEXACT"}]
    BY <1>4 DEF SetCorner, Set
  <2> HIDE DEF got
  <2>4. AreaOK'
    BY <2>2 DEF AreaOK
  <2>5. CornersOK'
    BY <2>1, <2>2 DEF CornersOK, Edge
  <2>6. corner'[c] = FixedToHmm(got)
    BY <2>2 DEF CornersOK
  <2>7. Clamp(w, c)' = got
    BY <2>2 DEF Clamp, Limit, Edge, got
  <2>8. ToldOK'
    BY <2>3, <2>6, <2>7 DEF ToldOK
  <2> QED
    BY <2>4, <2>5, <2>8
<1>5. ASSUME NEW o \in Option, SetRefused(o) PROVE IInv'
  <2>1. last'.status # "GOOD"
    BY <1>5 DEF SetRefused
  <2> QED
    BY <1>5, <2>1 DEF SetRefused, offer, values, AreaOK, CornersOK, Edge, ToldOK
<1>6. CASE UNCHANGED vars
  BY <1>6 DEF vars, offer, values, AreaOK, CornersOK, Edge, ToldOK, Clamp, Limit
<1> QED
  BY <1>1, <1>2, <1>3, <1>4, <1>5, <1>6 DEF Next

-----------------------------------------------------------------------------
(* The area is well formed, every corner is within the range that its      *)
(* descriptor shows, and the last answer on a corner is true of it.        *)
THEOREM AreaCorrect == Spec => []IInv
  BY InitOK, StepOK, PTL DEF Spec

(* The region of a request is on the device, however the corners are set   *)
(* and whichever way round they are (ipp_opt_scan_region()).               *)
THEOREM RegionOnTheDevice == Spec => []RegionFitsTheDevice
<1>1. IInv => RegionFitsTheDevice
  <2> SUFFICES ASSUME IInv, NEW a \in Axis
               PROVE  /\ ScanRegion(a).dimension >= 0
                      /\ ScanRegion(a).origin \in 0 .. area[a].origin
                      /\ ScanRegion(a).origin + ScanRegion(a).dimension <= area[a].size
    BY DEF RegionFitsTheDevice
  <2>1. /\ corner[TopLeft[a]] \in 0 .. area[a].origin
        /\ corner[BotRight[a]] \in 0 .. area[a].size
    BY Corners DEF IInv, CornersOK, Edge
  <2>2. area[a].size \in Nat /\ area[a].origin \in 0 .. area[a].size
    BY DEF IInv, AreaOK
  <2> QED
    BY <2>1, <2>2 DEF ScanRegion, Abs
<1> QED
  BY <1>1, AreaCorrect, PTL

(* A scan area that was read can be set again, exactly (ipp_opt_get(),     *)
(* ipp_opt_set()), though one cuts off and the other rounds.               *)
THEOREM SavedAreaComesBack == Spec => []SavedAreaRestores
<1>1. IInv => SavedAreaRestores
  <2> SUFFICES ASSUME IInv, NEW c \in Corner
               PROVE  /\ Clamp(CornerGet(c), c) = CornerGet(c)
                      /\ FixedToHmm(CornerGet(c)) = corner[c]
    BY DEF SavedAreaRestores
  <2>1. Edge(c) \in Nat /\ corner[c] \in Nat /\ corner[c] <= Edge(c)
    BY Edges, Corners DEF IInv, AreaOK, CornersOK
  <2>2. CornerGet(c) \in Nat /\ FixedToHmm(CornerGet(c)) = corner[c]
    BY <2>1, ThereAndBack DEF CornerGet
  <2>3. CornerGet(c) <= Limit(c) /\ Limit(c) \in Nat
    BY <2>1, ThereAndBack, ConversionsAreMonotonic DEF CornerGet, Limit
  <2> QED
    BY <2>2, <2>3 DEF Clamp
<1> QED
  BY <1>1, AreaCorrect, PTL

(* A corner beyond its range is replaced by the end of the range, and the  *)
(* frontend is told so; one within it is kept to the nearest hmm           *)
(* (ipp_opt_set()).                                                        *)
THEOREM CornersAreKept == Spec => []CornerIsKept
<1>1. IInv => CornerIsKept
  <2> SUFFICES ASSUME IInv, last.option \in Corner, last.status = "GOOD"
               PROVE  IF last.asked \in 0 .. Limit(last.option)
                      THEN Abs(CornerGet(last.option) - last.asked) <= 328
                      ELSE /\ CornerGet(last.option) = last.told
                           /\ "INEXACT" \in last.info
    BY DEF CornerIsKept
  <2> DEFINE c == last.option
             w == last.asked
  <2>1. /\ w \in Int /\ last.told = Clamp(w, c)
        /\ CornerGet(c) = HmmToFixed(FixedToHmm(Clamp(w, c)))
        /\ "INEXACT" \in last.info <=> Clamp(w, c) # w
    BY OptAssumption DEF IInv, ToldOK, CornerGet
  <2>2. Limit(c) \in Nat
    BY Edges, Corners, ThereAndBack DEF IInv, AreaOK, Limit
  <2>3. CASE w \in 0 .. Limit(c)
    <3>1. Clamp(w, c) = w
      BY <2>2, <2>3 DEF Clamp
    <3> QED
      BY <2>1, <2>3, <3>1, RoundingIsClose
  <2>4. CASE w \notin 0 .. Limit(c)
    <3>1. Clamp(w, c) # w
      BY <2>1, <2>2, <2>4 DEF Clamp
    <3> QED
      BY <2>1, <2>4, <3>1, Clamped DEF IInv
  <2> QED
    BY <2>3, <2>4
<1> QED
  BY <1>1, AreaCorrect, PTL

(* What ipp-opt.h, 86-88 promise is kept for a frontend that asks for no   *)
(* other corners than a SANE_Fixed can hold and a whole number of hmm      *)
(* stands for; one that asks for others is not told what becomes of them.  *)
THEOREM CornersAreAsTold ==
    ASSUME \A w \in Word : w >= 0 => HmmToFixed(FixedToHmm(w)) = w
    PROVE  Spec => []CornerIsWhatWasTold
<1>1. IInv => CornerIsWhatWasTold
  <2> SUFFICES ASSUME IInv, last.option \in Corner, last.status = "GOOD"
               PROVE  /\ CornerGet(last.option) = last.told
                      /\ "INEXACT" \in last.info <=> last.told # last.asked
    BY DEF CornerIsWhatWasTold
  <2> DEFINE c == last.option
             w == last.asked
             got == Clamp(w, c)
  <2>1. /\ w \in Word /\ w \in Int /\ last.told = got
        /\ CornerGet(c) = HmmToFixed(FixedToHmm(got))
        /\ "INEXACT" \in last.info <=> got # w
    BY OptAssumption DEF IInv, ToldOK, CornerGet
  <2>2. Edge(c) \in Nat /\ HmmToFixed(Edge(c)) \in Nat
    BY Edges, Corners, ThereAndBack DEF IInv, AreaOK
  <2>3. got \in Nat /\ (got # w => HmmToFixed(FixedToHmm(got)) = got)
    BY <2>1, <2>2, Clamped DEF IInv
  <2>4. got = w => HmmToFixed(FixedToHmm(got)) = got
    BY <2>1, <2>3
  <2> QED
    BY <2>1, <2>3, <2>4
<1> QED
  BY <1>1, AreaCorrect, PTL

(* The parameters change under the frontend only with RELOAD_PARAMS: all   *)
(* they are made of is set by calls that say so, or fixed when the device  *)
(* is opened.                                                              *)
THEOREM ReloadsAreTold == Spec => ReloadIsTold
<1>1. ASSUME [Next]_vars
      PROVE  [Estimate' # Estimate => "RELOAD_PARAMS" \in last'.info]_vars
  <2>1. ASSUME NEW i \in DOMAIN modes, SetMode(i) PROVE "RELOAD_PARAMS" \in last'.info
    BY <2>1 DEF SetMode, Set
  <2>2. ASSUME NEW i \in DOMAIN sources, SetSource(i) PROVE "RELOAD_PARAMS" \in last'.info
    BY <2>2 DEF SetSource, Set
  <2>3. ASSUME NEW d \in Dpi, SetResolution(d) PROVE "RELOAD_PARAMS" \in last'.info
    BY <2>3 DEF SetResolution, Set
  <2>4. ASSUME NEW c \in Corner, NEW w \in Word, SetCorner(c, w)
        PROVE  "RELOAD_PARAMS" \in last'.info
    BY <2>4 DEF SetCorner, Set
  <2>5. ASSUME NEW o \in Option, SetRefused(o) PROVE Estimate' = Estimate
    BY <2>5 DEF SetRefused, offer, values, Estimate, ColorMode, Resolution, HasArea,
                ScanRegion
  <2> QED
    BY <1>1, <2>1, <2>2, <2>3, <2>4, <2>5 DEF Next
<1> QED
  BY <1>1, PTL DEF Spec, ReloadIsTold

-----------------------------------------------------------------------------
(* The builders of the options                                             *)

(* The loop over the resolutions does what it says, from any list.         *)
LEMMA NearestLoop ==
    ASSUME NEW list \in Seq(Int), NEW want \in Int
    PROVE  LET b == NearestSoFar(list, want)
           IN  /\ b[0] = 1
               /\ \A i \in 1 .. Len(list) : b[i] = Better(list, want, b[i - 1], i)
<1> DEFINE n == Len(list)
           S == Nat \ {0}
           g == [i \in 1 .. n |-> [b \in S |-> Better(list, want, b, i)]]
           F(b) == b = [i \in 0 .. n |-> IF i = 0 THEN 1 ELSE Better(list, want, b[i - 1], i)]
<1>1. n \in Nat /\ 1 \in S
    OBVIOUS
<1>2. g \in [1 .. n -> [S -> S]]
    BY DEF Better
<1>3. \A b \in S, i \in 1 .. n : g[i][b] = Better(list, want, b, i)
    OBVIOUS
<1> HIDE DEF n, S, g
<1>4. PICK f \in Loops(S, 1, n, g) : TRUE
    BY <1>1, <1>2, LoopsCompute
<1>5. \A i \in 1 .. n : f[i] = Better(list, want, f[i - 1], i)
    <2> SUFFICES ASSUME NEW i \in 1 .. n
                 PROVE  f[i] = Better(list, want, f[i - 1], i)
        OBVIOUS
    <2>1. i - 1 \in 0 .. n /\ f[i - 1] \in S
        BY <1>1 DEF Loops
    <2> QED
        BY <1>3, <2>1 DEF Loops
<1>6. F(f)
    BY <1>1, <1>5 DEF Loops
<1> DEFINE B == CHOOSE b : F(b)
<1>7. F(B)
    BY <1>6
<1>8. NearestSoFar(list, want) = B
    BY DEF NearestSoFar, n
<1> HIDE DEF B
<1>9. B[0] = 1 /\ \A i \in 1 .. n : B[i] = Better(list, want, B[i - 1], i)
    BY <1>1, <1>7
<1> QED
    BY <1>8, <1>9 DEF n

(* It finds the first of the nearest.                                      *)
LEMMA NearestFound ==
    ASSUME NEW list \in Seq(Int), list # <<>>, NEW want \in Int
    PROVE  LET b == Nearest(list, want)
           IN  /\ b \in 1 .. Len(list)
               /\ \A i \in 1 .. Len(list) : Abs(list[b] - want) <= Abs(list[i] - want)
               /\ \A i \in 1 .. b - 1 : Abs(list[b] - want) < Abs(list[i] - want)
<1> DEFINE n == Len(list)
           d == [i \in 1 .. n |-> Abs(list[i] - want)]
           b == NearestSoFar(list, want)
           T == {i \in 0 .. n : /\ b[i] \in 1 .. n
                                /\ i > 0 => b[i] <= i
                                /\ \A j \in 1 .. i : d[b[i]] <= d[j]
                                /\ \A j \in 1 .. b[i] - 1 : d[b[i]] < d[j]}
<1>1. n \in Nat \ {0}
    BY EmptySeq
<1>2. d \in [1 .. n -> Int]
    BY DEF Abs
<1>3. \A i \in 1 .. n : \A j \in 1 .. n :
        Better(list, want, j, i) = IF d[i] < d[j] THEN i ELSE j
    BY DEF Better
<1>4. b[0] = 1 /\ \A i \in 1 .. n : b[i] = Better(list, want, b[i - 1], i)
    BY NearestLoop
<1>5. Nearest(list, want) = b[n]
    BY DEF Nearest
<1>6. \A i \in 1 .. n : d[i] = Abs(list[i] - want)
    OBVIOUS
<1> HIDE DEF n, d, b
<1>7. 0 \in T
    BY <1>1, <1>4
<1>8. ASSUME NEW i \in 1 .. n, i - 1 \in T
      PROVE  i \in T
    <2>1. /\ b[i - 1] \in 1 .. n /\ (i > 1 => b[i - 1] <= i - 1)
          /\ \A j \in 1 .. i - 1 : d[b[i - 1]] <= d[j]
          /\ \A j \in 1 .. b[i - 1] - 1 : d[b[i - 1]] < d[j]
        BY <1>1, <1>8
    <2>2. b[i] = IF d[i] < d[b[i - 1]] THEN i ELSE b[i - 1]
        BY <1>3, <1>4, <2>1
    <2>3. CASE d[i] < d[b[i - 1]]
        <3>1. b[i] = i
            BY <2>2, <2>3
        <3>2. \A j \in 1 .. i - 1 : d[i] < d[j]
            BY <1>1, <1>2, <2>1, <2>3
        <3>3. \A j \in 1 .. i : j = i \/ j \in 1 .. i - 1
            BY <1>1
        <3>4. d[i] <= d[i]
            BY <1>2
        <3>5. \A j \in 1 .. b[i] - 1 : d[b[i]] < d[j]
            BY <3>1, <3>2
        <3>6. \A j \in 1 .. i : d[b[i]] <= d[j]
            BY <1>1, <1>2, <3>1, <3>2, <3>3, <3>4
        <3>7. i \in 0 .. n /\ b[i] \in 1 .. n /\ b[i] <= i
            BY <1>1, <3>1
        <3> QED
            BY <3>5, <3>6, <3>7
    <2>4. CASE ~(d[i] < d[b[i - 1]])
        <3>1. b[i] = b[i - 1] /\ d[b[i]] <= d[i]
            BY <1>1, <1>2, <2>1, <2>2, <2>4
        <3>2. i = 1 => b[i] = 1
            BY <1>4, <3>1
        <3>3. b[i] \in 1 .. n /\ b[i] <= i
            <4>1. CASE i = 1
                BY <1>1, <2>1, <3>1, <3>2, <4>1
            <4>2. CASE i > 1
                BY <1>1, <2>1, <3>1, <4>2
            <4> QED
                BY <1>1, <4>1, <4>2
        <3>4. \A j \in 1 .. i : j = i \/ j \in 1 .. i - 1
            BY <1>1
        <3>5. \A j \in 1 .. i : d[b[i]] <= d[j]
            BY <2>1, <3>1, <3>4
        <3>6. \A j \in 1 .. b[i] - 1 : d[b[i]] < d[j]
            BY <2>1, <3>1
        <3> QED
            BY <3>3, <3>5, <3>6
    <2> QED
        BY <2>3, <2>4
<1> HIDE DEF T
<1>9. n \in T
    <2>1. \A i \in 0 .. n : i \in T
        BY <1>1, <1>7, <1>8, InductionUpTo
    <2> QED
        BY <1>1, <2>1
<1>10. /\ b[n] \in 1 .. n
       /\ \A j \in 1 .. n : d[b[n]] <= d[j]
       /\ \A j \in 1 .. b[n] - 1 : d[b[n]] < d[j]
    BY <1>9 DEF T
<1>11. \A j \in 1 .. b[n] - 1 : j \in 1 .. n
    BY <1>1, <1>10
<1> QED
    BY <1>5, <1>6, <1>10, <1>11 DEF n

SaneMode == {"Lineart", "Gray", "Color"}

LineartWord == {"bi-level"}
GrayWord    == {"monochrome", "monochrome_8", "monochrome_16", "monochrome_4"}
ColorWord   == {"color", "color_8", "rgb_16", "rgba_8", "rgba_16", "cmyk_8", "cmyk_16"}
ModeWord    == LineartWord \cup GrayWord \cup ColorWord

(* What holds of every row of the table.                                   *)
Row == {r \in [sane : SaneMode, keyword : ModeWord] :
            \/ r.sane = "Color" /\ ~ModeIsGray(r.keyword)
            \/ r.sane # "Color" /\ ModeIsGray(r.keyword)}

LEMMA ModeWords ==
    /\ NULL \notin ModeWord
    /\ \A k \in LineartWord \cup GrayWord : ModeIsGray(k)
    /\ \A k \in ColorWord : ~ModeIsGray(k)
  BY DEF ModeWord, LineartWord, GrayWord, ColorWord, ModeIsGray, NULL

LEMMA Rows == ColorModes \in Seq(Row)
<1> DEFINE L == <<"bi-level">>
           G == <<"monochrome", "monochrome_8", "monochrome_16", "monochrome_4">>
           C == <<"color", "color_8", "rgb_16", "rgba_8", "rgba_16", "cmyk_8", "cmyk_16">>
           Is(m, k) == [sane |-> m, keyword |-> k] \in Row
<1>1. \A k \in LineartWord : Is("Lineart", k)
    BY ModeWords DEF Row, ModeWord, SaneMode
<1>2. \A k \in GrayWord : Is("Gray", k)
    BY ModeWords DEF Row, ModeWord, SaneMode
<1>3. \A k \in ColorWord : Is("Color", k)
    BY ModeWords DEF Row, ModeWord, SaneMode
<1> HIDE DEF Is, L, G, C
<1>4. ASSUME NEW m, NEW K, NEW ks \in Seq(K), \A k \in K : Is(m, k)
      PROVE  Collapse(m, ks) \in Seq(Row)
    BY <1>4 DEF Collapse, Is
<1>5. L \in Seq(LineartWord) /\ G \in Seq(GrayWord) /\ C \in Seq(ColorWord)
    BY DEF L, G, C, LineartWord, GrayWord, ColorWord
<1>6. /\ Collapse("Lineart", L) \in Seq(Row) /\ Collapse("Gray", G) \in Seq(Row)
      /\ Collapse("Color", C) \in Seq(Row)
    BY <1>1, <1>2, <1>3, <1>4, <1>5
<1>7. ColorModes = Collapse("Lineart", L) \o Collapse("Gray", G) \o Collapse("Color", C)
    BY DEF ColorModes, L, G, C
<1> QED
    BY <1>6, <1>7

(* What a mode stands for is a keyword of the service and of the table.    *)
ModesOK(offered, s) ==
    /\ offered \in Seq(Row)
    /\ \A k \in 1 .. Len(offered) : offered[k].keyword \in s.colorModes
    /\ \A k, l \in 1 .. Len(offered) : offered[k].sane = offered[l].sane => k = l

LEMMA AddModeKeeps ==
    ASSUME NEW s, NEW offered, ModesOK(offered, s), NEW m \in Row, m.keyword \in s.colorModes
    PROVE  ModesOK(AddMode(offered, m), s) /\ AddMode(offered, m) # <<>>
<1>1. DOMAIN offered = 1 .. Len(offered) /\ Len(offered) \in Nat
    BY DEF ModesOK
<1>2. CASE \E i \in DOMAIN offered : offered[i].sane = m.sane
    <2>1. AddMode(offered, m) = offered /\ offered # <<>>
        BY <1>2 DEF AddMode
    <2> QED
        BY <2>1
<1>3. CASE ~\E i \in DOMAIN offered : offered[i].sane = m.sane
    <2> DEFINE t == Append(offered, m)
    <2>1. AddMode(offered, m) = t
        BY <1>3 DEF AddMode
    <2>2. /\ t \in Seq(Row) /\ Len(t) = Len(offered) + 1 /\ t # <<>>
          /\ \A i \in 1 .. Len(offered) : t[i] = offered[i]
          /\ t[Len(offered) + 1] = m
        BY AppendProperties DEF ModesOK
    <2> HIDE DEF t
    <2>3. \A k \in 1 .. Len(t) : k \in 1 .. Len(offered) \/ k = Len(offered) + 1
        BY <1>1, <2>2
    <2>4. ModesOK(t, s)
        BY <1>1, <1>3, <2>2, <2>3 DEF ModesOK
    <2> QED
        BY <2>1, <2>2, <2>4
<1> QED
    BY <1>2, <1>3

(* The loop over the table does what it says.                              *)
LEMMA ModesLoop ==
    ASSUME NEW s
    PROVE  LET b == ModesOffered(s)
           IN  /\ b[0] = <<>>
               /\ \A i \in 1 .. Len(ColorModes) :
                    b[i] = IF Supported(s.colorModes, ColorModes[i].keyword)
                           THEN AddMode(b[i - 1], ColorModes[i]) ELSE b[i - 1]
<1> DEFINE n == Len(ColorModes)
           S == Seq(Row)
           Turn(o, i) == IF Supported(s.colorModes, ColorModes[i].keyword)
                         THEN AddMode(o, ColorModes[i]) ELSE o
           g == [i \in 1 .. n |-> [o \in S |-> Turn(o, i)]]
           F(b) == b = [i \in 0 .. n |-> IF i = 0 THEN <<>> ELSE Turn(b[i - 1], i)]
<1>1. n \in Nat /\ <<>> \in S
    BY Rows
<1>2. \A o \in S, i \in 1 .. n : Turn(o, i) \in S
    BY Rows DEF AddMode
<1> HIDE DEF n, S, Turn
<1>3. g \in [1 .. n -> [S -> S]] /\ \A o \in S, i \in 1 .. n : g[i][o] = Turn(o, i)
    BY <1>2
<1> HIDE DEF g
<1>4. PICK f \in Loops(S, <<>>, n, g) : TRUE
    BY <1>1, <1>3, LoopsCompute
<1>5. \A i \in 1 .. n : f[i] = Turn(f[i - 1], i)
    <2> SUFFICES ASSUME NEW i \in 1 .. n
                 PROVE  f[i] = Turn(f[i - 1], i)
        OBVIOUS
    <2>1. i - 1 \in 0 .. n /\ f[i - 1] \in S
        BY <1>1 DEF Loops
    <2> QED
        BY <1>3, <2>1 DEF Loops
<1>6. F(f)
    BY <1>1, <1>5 DEF Loops
<1> DEFINE B == CHOOSE b : F(b)
<1>7. F(B)
    BY <1>6
<1>8. ModesOffered(s) = B
    BY DEF ModesOffered, n, Turn
<1> HIDE DEF B
<1>9. B[0] = <<>> /\ \A i \in 1 .. n : B[i] = Turn(B[i - 1], i)
    BY <1>1, <1>7
<1> QED
    BY <1>8, <1>9 DEF n, Turn

(* The modes are the service's own, one to each name, and none is left out.*)
LEMMA ModesBuilt ==
    ASSUME NEW s
    PROVE  /\ ModesOK(ModesBuild(s), s)
           /\ ModesBuild(s) = <<>> =>
                \A i \in 1 .. Len(ColorModes) : ColorModes[i].keyword \notin s.colorModes
<1> DEFINE n == Len(ColorModes)
           b == ModesOffered(s)
           T == {i \in 0 .. n :
                    /\ ModesOK(b[i], s)
                    /\ b[i] = <<>> => \A j \in 1 .. i : ColorModes[j].keyword \notin s.colorModes}
<1>1. n \in Nat /\ \A i \in 1 .. n : ColorModes[i] \in Row
    BY Rows
<1>2. /\ b[0] = <<>>
      /\ \A i \in 1 .. n : b[i] = IF ColorModes[i].keyword \in s.colorModes
                                 THEN AddMode(b[i - 1], ColorModes[i]) ELSE b[i - 1]
    BY ModesLoop DEF Supported
<1>3. ModesBuild(s) = b[n]
    BY DEF ModesBuild
<1> HIDE DEF n, b
<1>4. 0 \in T
    <2>1. b[0] \in Seq(Row) /\ Len(b[0]) = 0
        BY <1>2, EmptySeq
    <2> QED
        BY <1>1, <2>1 DEF ModesOK
<1>5. ASSUME NEW i \in 1 .. n, i - 1 \in T
      PROVE  i \in T
    <2>1. /\ ModesOK(b[i - 1], s)
          /\ b[i - 1] = <<>> => \A j \in 1 .. i - 1 : ColorModes[j].keyword \notin s.colorModes
        BY <1>5
    <2>2. CASE ColorModes[i].keyword \in s.colorModes
        <3>1. b[i] = AddMode(b[i - 1], ColorModes[i])
            BY <1>2, <2>2
        <3>2. ModesOK(b[i], s) /\ b[i] # <<>>
            BY <1>1, <2>1, <2>2, <3>1, AddModeKeeps
        <3> QED
            BY <1>1, <3>2
    <2>3. CASE ColorModes[i].keyword \notin s.colorModes
        <3>1. b[i] = b[i - 1]
            BY <1>2, <2>3
        <3>2. \A j \in 1 .. i : j = i \/ j \in 1 .. i - 1
            BY <1>1
        <3> QED
            BY <1>1, <2>1, <2>3, <3>1, <3>2
    <2> QED
        BY <2>2, <2>3
<1> HIDE DEF T
<1>6. n \in T
    <2>1. \A i \in 0 .. n : i \in T
        BY <1>1, <1>4, <1>5, InductionUpTo
    <2> QED
        BY <1>1, <2>1
<1> QED
    BY <1>3, <1>6 DEF T, n

(* There are three names.                                                  *)
LEMMA ModesFit ==
    ASSUME NEW s, NEW offered, ModesOK(offered, s)
    PROVE  Len(offered) \in 0 .. 3
<1> DEFINE n == Len(offered)
           f == [k \in 1 .. n |-> offered[k].sane]
<1>1. n \in Nat /\ \A k \in 1 .. n : offered[k].sane \in SaneMode
    BY DEF ModesOK, Row
<1>2. f \in [1 .. n -> SaneMode] /\ \A k, l \in 1 .. n : f[k] = f[l] => k = l
    BY <1>1 DEF ModesOK
<1>3. IsFiniteSet(SaneMode) /\ Cardinality(SaneMode) = 3
    <2>1. IsFiniteSet({"Lineart"}) /\ Cardinality({"Lineart"}) = 1
        BY FS_Singleton
    <2>2. IsFiniteSet({"Lineart"} \cup {"Gray"}) /\ Cardinality({"Lineart"} \cup {"Gray"}) = 2
        BY <2>1, FS_AddElement
    <2>3. /\ IsFiniteSet(({"Lineart"} \cup {"Gray"}) \cup {"Color"})
          /\ Cardinality(({"Lineart"} \cup {"Gray"}) \cup {"Color"}) = 3
        BY <2>2, FS_AddElement
    <2>4. SaneMode = ({"Lineart"} \cup {"Gray"}) \cup {"Color"}
        BY DEF SaneMode
    <2> QED
        BY <2>3, <2>4
<1>4. IsFiniteSet(1 .. n) /\ Cardinality(1 .. n) = n
    BY <1>1, FS_Interval
<1> HIDE DEF f, n
<1>5. ~(Cardinality(SaneMode) < Cardinality(1 .. n))
    BY <1>2, <1>3, <1>4, FS_PigeonHole
<1> QED
    BY <1>1, <1>3, <1>4, <1>5 DEF n

-----------------------------------------------------------------------------

(* Of some keywords the first that the service has, if it has any.         *)
LEMMA FirstIsSupported ==
    ASSUME NEW list, NEW K, NEW keywords \in Seq(K)
    PROVE  \/ /\ FirstSupported(list, keywords) = NULL
              /\ \A k \in DOMAIN keywords : keywords[k] \notin list
           \/ FirstSupported(list, keywords) \in K \cap list
<1> SUFFICES ASSUME NEW i \in DOMAIN keywords, Supported(list, keywords[i])
             PROVE  FirstSupported(list, keywords) \in K \cap list
    BY DEF FirstSupported, Supported
<1> DEFINE T == {k \in DOMAIN keywords : Supported(list, keywords[k])}
           IsFirst(k) == /\ Supported(list, keywords[k])
                         /\ \A j \in 1 .. k - 1 : ~Supported(list, keywords[j])
           c == CHOOSE k \in DOMAIN keywords : IsFirst(k)
<1>1. T \subseteq Nat /\ T # {} /\ DOMAIN keywords = 1 .. Len(keywords) /\ Len(keywords) \in Nat
    OBVIOUS
<1>2. PICK m \in T : \A k \in T : m <= k
    BY <1>1, Least
<1>3. \A j \in 1 .. m - 1 : ~Supported(list, keywords[j])
    BY <1>1, <1>2
<1>4. c \in DOMAIN keywords /\ IsFirst(c)
    BY <1>2, <1>3
<1>5. FirstSupported(list, keywords) = keywords[c]
    BY DEF FirstSupported
<1> HIDE DEF c
<1> QED
    BY <1>4, <1>5 DEF Supported

SourceWord == {"platen", "adf", "film-reader"}

(* What holds of every source that is offered.                             *)
SourceOK(r, s) ==
    /\ r.source \in s.sources \cap SourceWord
    /\ r.sides # NULL => r.sides \in s.sides
    /\ r.sides # NULL /\ r.sides # "one-sided" => r.source = "adf"
    /\ r.sides = NULL => "one-sided" \notin s.sides

SourceRow(s) ==
    {r \in [sane : {"Flatbed", "ADF", "ADF Duplex", "Film"}, source : SourceWord,
            sides : {NULL} \cup s.sides] : SourceOK(r, s)}

LEMMA SourcesBuilt ==
    ASSUME NEW s
    PROVE  /\ SourcesBuild(s) \in Seq(SourceRow(s))
           /\ Len(SourcesBuild(s)) \in 0 .. 4
           /\ SourcesBuild(s) = <<>> => s.sources \cap SourceWord = {}
<1> DEFINE R == SourceRow(s)
           Offer(ok, name, from, ways) ==
                IF ok THEN <<[sane |-> name, source |-> from, sides |-> ways]>> ELSE <<>>
           A == Offer("platen" \in s.sources, "Flatbed", "platen", Simplex(s))
           B == Offer("adf" \in s.sources, "ADF", "adf", Simplex(s))
           C == Offer("adf" \in s.sources /\ Duplex(s) # NULL, "ADF Duplex", "adf", Duplex(s))
           D == Offer("film-reader" \in s.sources, "Film", "film-reader", Simplex(s))
<1>1. \/ Simplex(s) = NULL /\ "one-sided" \notin s.sides
      \/ Simplex(s) \in {"one-sided"} \cap s.sides
    <2> DEFINE words == <<"one-sided">>
    <2>1. words \in Seq({"one-sided"}) /\ 1 \in DOMAIN words /\ words[1] = "one-sided"
        OBVIOUS
    <2> HIDE DEF words
    <2>2. \/ /\ FirstSupported(s.sides, words) = NULL
             /\ \A k \in DOMAIN words : words[k] \notin s.sides
          \/ FirstSupported(s.sides, words) \in {"one-sided"} \cap s.sides
        BY <2>1, FirstIsSupported
    <2> QED
        BY <2>1, <2>2 DEF Simplex, words
<1>2. Duplex(s) = NULL \/ Duplex(s) \in s.sides
    <2>1. <<"two-sided-long-edge", "two-sided-short-edge">>
            \in Seq({"two-sided-long-edge", "two-sided-short-edge"})
        OBVIOUS
    <2> QED
        BY <2>1, FirstIsSupported DEF Duplex
<1>3. SourcesBuild(s) = A \o B \o C \o D
    BY DEF SourcesBuild, Supported
<1>4. ASSUME NEW ok, NEW r, ok => r \in R, NEW t, t = IF ok THEN <<r>> ELSE <<>>
      PROVE  t \in Seq(R) /\ Len(t) \in 0 .. 1 /\ (Len(t) = 0 => ~ok)
    <2>1. CASE ok
        BY <1>4, <2>1
    <2>2. CASE ~ok
        BY <1>4, <2>2, EmptySeq
    <2> QED
        BY <2>1, <2>2
<1>5. A \in Seq(R) /\ Len(A) \in 0 .. 1 /\ (Len(A) = 0 => "platen" \notin s.sources)
    <2>1. "platen" \in s.sources =>
            [sane |-> "Flatbed", source |-> "platen", sides |-> Simplex(s)] \in R
        BY <1>1 DEF SourceRow, SourceOK, SourceWord, NULL
    <2>2. A = IF "platen" \in s.sources
              THEN <<[sane |-> "Flatbed", source |-> "platen", sides |-> Simplex(s)]>> ELSE <<>>
        OBVIOUS
    <2> HIDE DEF R, A, B, C, D
    <2> QED
        BY <1>4, <2>1, <2>2
<1>6. B \in Seq(R) /\ Len(B) \in 0 .. 1 /\ (Len(B) = 0 => "adf" \notin s.sources)
    <2>1. "adf" \in s.sources =>
            [sane |-> "ADF", source |-> "adf", sides |-> Simplex(s)] \in R
        BY <1>1 DEF SourceRow, SourceOK, SourceWord, NULL
    <2>2. B = IF "adf" \in s.sources
              THEN <<[sane |-> "ADF", source |-> "adf", sides |-> Simplex(s)]>> ELSE <<>>
        OBVIOUS
    <2> HIDE DEF R, A, B, C, D
    <2> QED
        BY <1>4, <2>1, <2>2
<1>7. C \in Seq(R) /\ Len(C) \in 0 .. 1
    <2>1. "adf" \in s.sources /\ Duplex(s) # NULL =>
            [sane |-> "ADF Duplex", source |-> "adf", sides |-> Duplex(s)] \in R
        BY <1>2 DEF SourceRow, SourceOK, SourceWord
    <2>2. C = IF "adf" \in s.sources /\ Duplex(s) # NULL
              THEN <<[sane |-> "ADF Duplex", source |-> "adf", sides |-> Duplex(s)]>> ELSE <<>>
        OBVIOUS
    <2> HIDE DEF R, A, B, C, D
    <2> QED
        BY <1>4, <2>1, <2>2
<1>8. D \in Seq(R) /\ Len(D) \in 0 .. 1 /\ (Len(D) = 0 => "film-reader" \notin s.sources)
    <2>1. "film-reader" \in s.sources =>
            [sane |-> "Film", source |-> "film-reader", sides |-> Simplex(s)] \in R
        BY <1>1 DEF SourceRow, SourceOK, SourceWord, NULL
    <2>2. D = IF "film-reader" \in s.sources
              THEN <<[sane |-> "Film", source |-> "film-reader", sides |-> Simplex(s)]>> ELSE <<>>
        OBVIOUS
    <2> HIDE DEF R, A, B, C, D
    <2> QED
        BY <1>4, <2>1, <2>2
<1> HIDE DEF A, B, C, D, R
<1>9. A \o B \in Seq(R) /\ Len(A \o B) = Len(A) + Len(B)
    BY <1>5, <1>6, ConcatProperties
<1>10. A \o B \o C \in Seq(R) /\ Len(A \o B \o C) = Len(A) + Len(B) + Len(C)
    BY <1>5, <1>6, <1>7, <1>9, ConcatProperties
<1>11. /\ A \o B \o C \o D \in Seq(R)
       /\ Len(A \o B \o C \o D) = Len(A) + Len(B) + Len(C) + Len(D)
    BY <1>5, <1>6, <1>7, <1>8, <1>10, ConcatProperties
<1>12. SourcesBuild(s) = <<>> => Len(A) = 0 /\ Len(B) = 0 /\ Len(D) = 0
    BY <1>3, <1>5, <1>6, <1>7, <1>8, <1>11, EmptySeq
<1>13. SourcesBuild(s) = <<>> => s.sources \cap SourceWord = {}
    BY <1>5, <1>6, <1>8, <1>12 DEF SourceWord
<1>14. Len(SourcesBuild(s)) \in 0 .. 4
    <2>1. \A k, l, m, n \in 0 .. 1 : k + l + m + n \in 0 .. 4
        OBVIOUS
    <2>2. Len(A) + Len(B) + Len(C) + Len(D) \in 0 .. 4
        BY <1>5, <1>6, <1>7, <1>8, <2>1, Zenon
    <2> QED
        BY <1>3, <1>11, <2>2
<1> QED
    BY <1>3, <1>11, <1>13, <1>14 DEF R

-----------------------------------------------------------------------------

(* Those of a set that are less than a number, and how many they are.      *)
Below(S, n) == {m \in S : m < n}

LEMMA Ranks ==
    ASSUME NEW S, S \subseteq Nat, IsFiniteSet(S), NEW n \in S
    PROVE  /\ IsFiniteSet(Below(S, n)) /\ Cardinality(Below(S, n)) \in Nat
           /\ \A m \in S : m <= n => Cardinality(Below(S, m)) <= Cardinality(Below(S, n))
<1>1. \A m \in S : IsFiniteSet(Below(S, m)) /\ Cardinality(Below(S, m)) \in Nat
    BY FS_Subset, FS_CardinalityType DEF Below
<1>2. \A m \in S : m <= n => Below(S, m) \subseteq Below(S, n)
    <2> SUFFICES ASSUME NEW m \in S, m <= n, NEW l \in S, l < m
                 PROVE  l < n
        BY DEF Below
    <2> QED
        BY l \in Nat, m \in Nat, n \in Nat
<1> QED
    BY <1>1, <1>2, FS_Subset

(* There is a number to every rank.                                        *)
LEMMA RanksAreTaken ==
    ASSUME NEW S, S \subseteq Nat, IsFiniteSet(S), NEW k \in 1 .. Cardinality(S)
    PROVE  \E n \in S : Cardinality(Below(S, n)) = k - 1
<1> DEFINE c == Cardinality(S)
           T == {i \in Nat : i < c => \E n \in S : Cardinality(Below(S, n)) = i}
<1>1. c \in Nat
    BY FS_CardinalityType
<1>2. 0 \in T
    <2> SUFFICES ASSUME 0 < c
                 PROVE  \E n \in S : Cardinality(Below(S, n)) = 0
        OBVIOUS
    <2>1. S # {}
        BY FS_EmptySet
    <2>2. PICK n \in S : \A m \in S : n <= m
        BY <2>1, Least
    <2>3. Below(S, n) = {}
        <3> SUFFICES ASSUME NEW l \in S, l < n PROVE FALSE
            BY DEF Below
        <3> QED
            BY <2>2, l \in Nat, n \in Nat
    <2> QED
        BY <2>3, FS_EmptySet
<1>3. ASSUME NEW i \in Nat, i \in T
      PROVE  i + 1 \in T
    <2> SUFFICES ASSUME i + 1 < c
                 PROVE  \E n \in S : Cardinality(Below(S, n)) = i + 1
        OBVIOUS
    <2>1. PICK n \in S : Cardinality(Below(S, n)) = i
        BY <1>1, <1>3
    <2> DEFINE U == Below(S, n) \cup {n}
               V == S \ U
    <2>2. IsFiniteSet(U) /\ Cardinality(U) = i + 1
        <3>1. n \notin Below(S, n)
            BY n \in Nat DEF Below
        <3>2. IsFiniteSet(Below(S, n))
            BY Ranks
        <3> QED
            BY <2>1, <3>1, <3>2, FS_AddElement
    <2>3. V # {}
        <3> SUFFICES ASSUME V = {} PROVE FALSE
            OBVIOUS
        <3>1. S = U
            BY DEF Below
        <3> QED
            BY <1>1, <2>2, <3>1
    <2>4. PICK m \in V : \A l \in V : m <= l
        <3>1. V \subseteq Nat
            OBVIOUS
        <3> HIDE DEF V
        <3> QED
            BY <2>3, <3>1, Least
    <2>5. Below(S, m) = U
        <3> SUFFICES ASSUME NEW l \in S
                     PROVE  l < m <=> l < n \/ l = n
            BY <2>4 DEF Below
        <3>1. l \in Nat /\ m \in Nat /\ n \in Nat
            OBVIOUS
        <3>2. ~(m < n) /\ m # n
            BY <2>4 DEF Below
        <3>3. ~(l < n) /\ l # n => m <= l
            BY <2>4 DEF Below
        <3> QED
            BY <3>1, <3>2, <3>3
    <2> QED
        BY <2>2, <2>4, <2>5
<1> HIDE DEF T, c
<1>4. \A i \in Nat : i \in T
    BY <1>2, <1>3, Induction
<1>5. k - 1 \in Nat /\ k - 1 < c
    BY <1>1 DEF c
<1> QED
    BY <1>4, <1>5 DEF T

(* The numbers of a set in their order.                                    *)
LEMMA AscendingIs ==
    ASSUME NEW S, S \subseteq Nat, IsFiniteSet(S)
    PROVE  /\ Ascending(S) \in Seq(S) /\ Len(Ascending(S)) = Cardinality(S)
           /\ \A i, j \in 1 .. Len(Ascending(S)) : i < j => Ascending(S)[i] < Ascending(S)[j]
<1> DEFINE c == Cardinality(S)
           A == Ascending(S)
<1>1. c \in Nat
    BY FS_CardinalityType
<1>2. A = [k \in 1 .. c |-> CHOOSE n \in S : Cardinality(Below(S, n)) = k - 1]
    BY DEF Ascending, Below
<1>3. \A k \in 1 .. c : A[k] \in S /\ Cardinality(Below(S, A[k])) = k - 1
    BY <1>2, RanksAreTaken
<1>4. DOMAIN A = 1 .. c /\ A \in [1 .. c -> S]
    BY <1>2, <1>3
<1> HIDE DEF A, c
<1>5. A \in Seq(S) /\ Len(A) = c
    BY <1>1, <1>4
<1>6. ASSUME NEW i \in 1 .. c, NEW j \in 1 .. c, i < j
      PROVE  A[i] < A[j]
    <2>1. A[i] \in S /\ A[j] \in S /\ A[i] \in Nat /\ A[j] \in Nat
        BY <1>3
    <2>2. A[j] <= A[i] => Cardinality(Below(S, A[j])) <= Cardinality(Below(S, A[i]))
        BY <2>1, Ranks
    <2>3. ~(j - 1 <= i - 1)
        BY <1>1, <1>6
    <2> QED
        BY <1>3, <2>1, <2>2, <2>3
<1> QED
    BY <1>5, <1>6 DEF A, c

(* The resolutions are square ones of the service, in their order.         *)
LEMMA ResolutionsBuilt ==
    ASSUME NEW s, s.resolutions \in Seq([x : Int, y : Int, units : {"inch", "cm"}])
    PROVE  /\ ResolutionsBuild(s) \in Seq(Square(s))
           /\ ResolutionsBuild(s) = <<>> => Square(s) = {}
           /\ Square(s) \subseteq Nat \ {0}
           /\ \A i, j \in 1 .. Len(ResolutionsBuild(s)) :
                i < j => ResolutionsBuild(s)[i] < ResolutionsBuild(s)[j]
<1> DEFINE D == {i \in DOMAIN s.resolutions :
                    /\ s.resolutions[i].units = "inch"
                    /\ s.resolutions[i].x = s.resolutions[i].y /\ s.resolutions[i].x > 0}
           f == [i \in D |-> s.resolutions[i].x]
<1>1. Square(s) = {s.resolutions[i].x : i \in D}
    BY DEF Square
<1>2. Square(s) \subseteq Nat \ {0}
    <2>1. \A i \in D : s.resolutions[i].x \in Int /\ s.resolutions[i].x > 0
        <3>1. \A i \in DOMAIN s.resolutions : 
                s.resolutions[i] \in [x : Int, y : Int, units : {"inch", "cm"}]
            BY LenProperties
        <3> QED
            BY <3>1
    <2> HIDE DEF D
    <2> QED
        BY <1>1, <2>1
<1>3. f \in [D -> Square(s)] /\ \A x \in Square(s) : \E i \in D : f[i] = x
    BY <1>1
<1>4. f \in Surjection(D, Square(s))
    <2> HIDE DEF f, D
    <2> QED
        BY <1>3 DEF Surjection
<1>5. IsFiniteSet(D)
    <2>1. Len(s.resolutions) \in Nat /\ D \in SUBSET (1 .. Len(s.resolutions))
        OBVIOUS
    <2> HIDE DEF D
    <2>2. IsFiniteSet(1 .. Len(s.resolutions))
        BY <2>1, FS_Interval
    <2> QED
        BY <2>1, <2>2, FS_Subset
<1> HIDE DEF f, D
<1>6. IsFiniteSet(Square(s))
    BY <1>4, <1>5, FS_Surjection
<1>7. Square(s) \subseteq Nat /\ ResolutionsBuild(s) = Ascending(Square(s))
    BY <1>2 DEF ResolutionsBuild
<1>8. ResolutionsBuild(s) = <<>> => Square(s) = {}
    BY <1>6, <1>7, AscendingIs, EmptySeq, FS_EmptySet
<1> QED
    BY <1>2, <1>6, <1>7, <1>8, AscendingIs

-----------------------------------------------------------------------------
(* What is offered and what is chosen of it                                *)

OfferInv ==
    /\ resp \in Response
    /\ modes = ModesBuild(Scanner(resp))
    /\ sources = SourcesBuild(Scanner(resp))
    /\ resolutions = ResolutionsBuild(Scanner(resp))
    /\ area = AreaBuild(Scanner(resp))

ChoiceInv ==
    /\ mode \in 1 .. 3 /\ (modes # <<>> => mode \in DOMAIN modes)
    /\ source \in 1 .. 4 /\ (sources # <<>> => source \in DOMAIN sources)
    /\ resolution \in Nat \ {0} /\ (resolutions # <<>> => resolution \in DOMAIN resolutions)
    /\ corner \in [Corner -> Nat]

(* What the last call says of the resolution is how it was chosen.         *)
LastInv ==
    /\ last \in Answer
    /\ last.option = "count" /\ last.status = "GOOD" =>
        resolution = Nearest(resolutions, DefaultDpi)
    /\ last.option = "resolution" /\ last.status = "GOOD" =>
        /\ resolution = Nearest(resolutions, last.asked)
        /\ last.told = resolutions[resolution]
        /\ "INEXACT" \in last.info <=> last.told # last.asked

ValuesInv == OfferInv /\ ChoiceInv /\ LastInv

(* The lists that are offered are well formed.                             *)
LEMMA Offered ==
    ASSUME OfferInv
    PROVE  /\ ModesOK(modes, Scanner(resp)) /\ Len(modes) \in 0 .. 3
           /\ sources \in Seq(SourceRow(Scanner(resp))) /\ Len(sources) \in 0 .. 4
           /\ resolutions \in Seq(Square(Scanner(resp))) /\ resolutions \in Seq(Int)
           /\ resolutions = <<>> => Square(Scanner(resp)) = {}
           /\ \A i, j \in 1 .. Len(resolutions) : i < j => resolutions[i] < resolutions[j]
<1> DEFINE s == Scanner(resp)
<1>1. s.resolutions = resp.resolutions
    BY DEF Scanner
<1>2. s.resolutions \in Seq([x : Int, y : Int, units : {"inch", "cm"}])
    BY <1>1, OptAssumption DEF OfferInv
<1> HIDE DEF s
<1>3. /\ modes = ModesBuild(s) /\ sources = SourcesBuild(s)
      /\ resolutions = ResolutionsBuild(s)
    BY DEF OfferInv, s
<1>4. ModesOK(modes, s) /\ Len(modes) \in 0 .. 3
    BY <1>3, ModesBuilt, ModesFit
<1>5. sources \in Seq(SourceRow(s)) /\ Len(sources) \in 0 .. 4
    BY <1>3, SourcesBuilt
<1>6. /\ resolutions \in Seq(Square(s)) /\ Square(s) \subseteq Int
      /\ resolutions = <<>> => Square(s) = {}
      /\ \A i, j \in 1 .. Len(resolutions) : i < j => resolutions[i] < resolutions[j]
    BY <1>2, <1>3, ResolutionsBuilt
<1>7. resolutions \in Seq(Int)
    BY <1>6, SeqMonotonic
<1> QED
    BY <1>4, <1>5, <1>6, <1>7 DEF s

(* The resolution that is nearest is one of the list, if there is any.     *)
LEMMA NearestIsThere ==
    ASSUME NEW list \in Seq(Int), NEW want \in Int
    PROVE  /\ Nearest(list, want) \in Nat \ {0}
           /\ list # <<>> => Nearest(list, want) \in DOMAIN list
<1>1. CASE list = <<>>
    <2>1. Len(list) = 0
        BY <1>1, EmptySeq
    <2>2. NearestSoFar(list, want)[0] = 1
        BY NearestLoop
    <2> QED
        BY <1>1, <2>1, <2>2 DEF Nearest
<1>2. CASE list # <<>>
    <2>1. Nearest(list, want) \in 1 .. Len(list)
        BY <1>2, NearestFound
    <2>2. DOMAIN list = 1 .. Len(list) /\ Len(list) \in Nat
        OBVIOUS
    <2> QED
        BY <2>1, <2>2
<1> QED
    BY <1>1, <1>2

LEMMA ValuesInit == Init => ValuesInv
<1> SUFFICES ASSUME Init PROVE ValuesInv
    OBVIOUS
<1>1. OfferInv
    BY DEF Init, OfferInv
<1>2. DefaultDpi \in Int
    BY DEF DefaultDpi
<1>3. mode \in 1 .. 3 /\ (modes # <<>> => mode \in DOMAIN modes)
    <2>1. mode = ModeDefault(modes)
        BY DEF Init
    <2>2. DOMAIN modes = 1 .. Len(modes) /\ Len(modes) \in 0 .. 3
          /\ (modes # <<>> => Len(modes) # 0)
        BY <1>1, Offered, EmptySeq DEF ModesOK
    <2>3. ModeDefault(modes) \in DOMAIN modes \/ ModeDefault(modes) = 1
        BY DEF ModeDefault
    <2> QED
        BY <2>1, <2>2, <2>3
<1>4. source \in 1 .. 4 /\ (sources # <<>> => source \in DOMAIN sources)
    <2>1. source = 1
        BY DEF Init
    <2>2. DOMAIN sources = 1 .. Len(sources) /\ Len(sources) \in 0 .. 4
          /\ (sources # <<>> => Len(sources) # 0)
        BY <1>1, Offered, EmptySeq
    <2> QED
        BY <2>1, <2>2
<1>5. resolution = Nearest(resolutions, DefaultDpi)
    BY DEF Init
<1>6. resolution \in Nat \ {0} /\ (resolutions # <<>> => resolution \in DOMAIN resolutions)
    BY <1>1, <1>2, <1>5, Offered, NearestIsThere
<1>7. corner \in [Corner -> Nat]
    <2>1. corner = [c \in Corner |-> IF IsTopLeft(c) THEN 0 ELSE area[AxisOf(c)].size]
        BY DEF Init
    <2>2. \A c \in Corner : AxisOf(c) \in Axis
        BY Corners
    <2>3. \A a \in Axis : area[a].size \in Nat
        BY InitOK DEF IInv, AreaOK
    <2> QED
        BY <2>1, <2>2, <2>3
<1>8. LastInv
    <2>1. last = [option |-> "count", asked |-> 0, told |-> 0, info |-> {}, status |-> "GOOD"]
        BY DEF Init
    <2>2. last \in Answer
        BY <2>1 DEF Answer, Option
    <2> QED
        BY <1>5, <2>1, <2>2 DEF LastInv
<1> QED
    BY <1>1, <1>3, <1>4, <1>6, <1>7, <1>8 DEF ValuesInv, ChoiceInv

(* An answer of success.                                                   *)
LEMMA AnswerSet ==
    ASSUME NEW o \in Option, NEW asked \in Int, NEW told \in Int, Set(o, asked, told)
    PROVE  /\ last' \in Answer /\ last'.option = o /\ last'.asked = asked /\ last'.told = told
           /\ "INEXACT" \in last'.info <=> told # asked
  BY DEF Set, Answer

LEMMA ValuesStep == IInv /\ ValuesInv /\ [Next]_vars => ValuesInv'
<1> SUFFICES ASSUME IInv, ValuesInv, [Next]_vars PROVE ValuesInv'
    OBVIOUS
<1>0. /\ OfferInv /\ ChoiceInv /\ LastInv
      /\ DOMAIN modes = 1 .. Len(modes) /\ Len(modes) \in 0 .. 3
      /\ DOMAIN sources = 1 .. Len(sources) /\ Len(sources) \in 0 .. 4
      /\ resolutions \in Seq(Int)
    <2>1. OfferInv /\ ChoiceInv /\ LastInv
        BY DEF ValuesInv
    <2> QED
        BY <2>1, Offered DEF ModesOK
<1>1. UNCHANGED offer => OfferInv'
    BY <1>0 DEF offer, OfferInv
<1>2. {"mode", "source", "resolution"} \cup Corner \subseteq Option
    BY DEF Option
<1>3. ASSUME NEW i \in DOMAIN modes, SetMode(i) PROVE ValuesInv'
    <2>1. Set("mode", 0, 0) /\ mode' = i /\ UNCHANGED <<offer, source, resolution, corner>>
        BY <1>3 DEF SetMode
    <2>2. last' \in Answer /\ last'.option = "mode"
        BY <1>2, <2>1, AnswerSet
    <2>3. LastInv'
        BY <2>2 DEF LastInv
    <2>4. ChoiceInv'
        BY <1>0, <2>1 DEF ChoiceInv, offer
    <2> QED
        BY <1>1, <2>1, <2>3, <2>4 DEF ValuesInv
<1>4. ASSUME NEW i \in DOMAIN sources, SetSource(i) PROVE ValuesInv'
    <2>1. Set("source", 0, 0) /\ source' = i /\ UNCHANGED <<offer, mode, resolution, corner>>
        BY <1>4 DEF SetSource
    <2>2. last' \in Answer /\ last'.option = "source"
        BY <1>2, <2>1, AnswerSet
    <2>3. LastInv'
        BY <2>2 DEF LastInv
    <2>4. ChoiceInv'
        BY <1>0, <2>1 DEF ChoiceInv, offer
    <2> QED
        BY <1>1, <2>1, <2>3, <2>4 DEF ValuesInv
<1>5. ASSUME NEW d \in Dpi, SetResolution(d) PROVE ValuesInv'
    <2>1. /\ resolutions # <<>> /\ resolution' = Nearest(resolutions, d)
          /\ Set("resolution", d, resolutions[resolution'])
          /\ UNCHANGED <<offer, mode, source, corner>>
        BY <1>5, Corners DEF SetResolution, Active
    <2>2. d \in Int
        BY OptAssumption
    <2>3. resolution' \in DOMAIN resolutions /\ resolution' \in Nat \ {0}
        BY <1>0, <2>1, <2>2, NearestIsThere
    <2>4. resolutions[resolution'] \in Int
        BY <1>0, <2>3
    <2>5. /\ last' \in Answer /\ last'.option = "resolution" /\ last'.asked = d
          /\ last'.told = resolutions[resolution']
          /\ "INEXACT" \in last'.info <=> last'.told # d
        BY <1>2, <2>1, <2>2, <2>4, AnswerSet
    <2>6. UNCHANGED resolutions
        BY <2>1 DEF offer
    <2>7. LastInv'
        BY <2>1, <2>5, <2>6 DEF LastInv
    <2>8. ChoiceInv'
        BY <1>0, <2>1, <2>3 DEF ChoiceInv, offer
    <2> QED
        BY <1>1, <2>1, <2>7, <2>8 DEF ValuesInv
<1>6. ASSUME NEW c \in Corner, NEW w \in Word, SetCorner(c, w) PROVE ValuesInv'
    <2>1. w \in Int
        BY OptAssumption
    <2>2. /\ Set(c, w, Clamp(w, c)) /\ UNCHANGED <<offer, mode, source, resolution>>
          /\ corner' = [corner EXCEPT ![c] = FixedToHmm(Clamp(w, c))]
        BY <1>6 DEF SetCorner
    <2>3. Clamp(w, c) \in Int /\ FixedToHmm(Clamp(w, c)) \in Nat
        <3>1. Edge(c) \in Nat
            BY Edges, Corners DEF IInv, AreaOK
        <3>2. HmmToFixed(Edge(c)) \in Nat
            BY <3>1, ThereAndBack
        <3> QED
            BY <2>1, <3>1, <3>2, Clamped DEF IInv
    <2>4. last' \in Answer /\ last'.option = c
        BY <1>2, <2>1, <2>2, <2>3, AnswerSet
    <2>5. LastInv'
        BY <2>4, Corners DEF LastInv
    <2>6. corner' \in [Corner -> Nat]
        BY <1>0, <2>2, <2>3 DEF ChoiceInv
    <2>7. ChoiceInv'
        BY <1>0, <2>2, <2>6 DEF ChoiceInv, offer
    <2> QED
        BY <1>1, <2>2, <2>5, <2>7 DEF ValuesInv
<1>7. ASSUME NEW o \in Option, SetRefused(o) PROVE ValuesInv'
    <2>1. PICK r \in {"INVAL", "UNSUPPORTED"} :
            last' = [option |-> o, asked |-> 0, told |-> 0, info |-> {}, status |-> r]
        BY <1>7 DEF SetRefused
    <2>2. last' \in Answer /\ last'.status # "GOOD"
        BY <2>1 DEF Answer
    <2>3. LastInv'
        BY <2>2 DEF LastInv
    <2>4. UNCHANGED <<offer, values>>
        BY <1>7 DEF SetRefused
    <2>5. ChoiceInv'
        BY <1>0, <2>4 DEF ChoiceInv, offer, values
    <2> QED
        BY <1>1, <2>3, <2>4, <2>5 DEF ValuesInv
<1>8. CASE UNCHANGED vars
    BY <1>0, <1>1, <1>8 DEF vars, values, offer, ChoiceInv, LastInv, ValuesInv
<1> QED
    BY <1>3, <1>4, <1>5, <1>6, <1>7, <1>8 DEF Next

(* What is offered stays what was made of the answer, and what is chosen   *)
(* is offered, if anything is.                                             *)
THEOREM ValuesCorrect == Spec => []ValuesInv
  BY ValuesInit, ValuesStep, AreaCorrect, PTL DEF Spec

(* The arrays of modes and sources hold what is put into them (ipp-opt.c,  *)
(* 23-28), and every choice is one of the list there is, for any services. *)
THEOREM OptionsTypeCorrect == Spec => []TypeOK
<1>1. IInv /\ ValuesInv => TypeOK
    <2> SUFFICES ASSUME IInv, ValuesInv PROVE TypeOK
        OBVIOUS
    <2>1. OfferInv /\ ChoiceInv /\ last \in Answer
        BY DEF ValuesInv, LastInv
    <2>2. Len(modes) <= 3 /\ Len(sources) <= 4
        <3>1. Len(modes) \in 0 .. 3 /\ Len(sources) \in 0 .. 4
            BY <2>1, Offered
        <3>2. (\A k \in 0 .. 3 : k <= 3) /\ \A k \in 0 .. 4 : k <= 4
            OBVIOUS
        <3> QED
            BY <3>1, <3>2, Zenon
    <2>3. /\ Active("mode") <=> modes # <<>>
          /\ Active("source") <=> sources # <<>>
          /\ Active("resolution") <=> resolutions # <<>>
        BY Corners DEF Active
    <2>4. area \in [Axis -> [origin : Nat, size : Nat]]
        <3>1. area = AreaBuild(Scanner(resp))
            BY <2>1 DEF OfferInv
        <3>2. \A a \in Axis : area[a].size \in Nat /\ area[a].origin \in Nat
            BY DEF IInv, AreaOK
        <3>3. area = [a \in Axis |-> area[a]]
            BY <3>1 DEF AreaBuild, NoArea
        <3>4. \A a \in Axis : area[a] \in [origin : Nat, size : Nat]
            <4> SUFFICES ASSUME NEW a \in Axis PROVE area[a] \in [origin : Nat, size : Nat]
                OBVIOUS
            <4>1. area[a] = [origin |-> area[a].origin, size |-> area[a].size]
                BY <3>1 DEF AreaBuild, NoArea
            <4> QED
                BY <3>2, <4>1
        <3> QED
            BY <3>3, <3>4
    <2> QED
        BY <2>1, <2>2, <2>3, <2>4 DEF TypeOK, ChoiceInv, OfferInv
<1> QED
    BY <1>1, AreaCorrect, ValuesCorrect, PTL

(* The resolution is the nearest the device has, of two the lower, and the *)
(* frontend is told which (ipp-opt.h, 86-88, ipp-opt.c, 350-351), for any  *)
(* list and anything asked for.                                            *)
THEOREM ResolutionsAreNearest == Spec => []NearestResolution
<1>1. ValuesInv => NearestResolution
    <2> SUFFICES ASSUME ValuesInv, Active("resolution") PROVE NearestResolution
        BY DEF NearestResolution
    <2> DEFINE n == Len(resolutions)
               taken == resolutions[resolution]
    <2>1. /\ OfferInv /\ ChoiceInv /\ LastInv /\ resolutions # <<>>
        BY Corners DEF ValuesInv, Active
    <2>2. /\ resolutions \in Seq(Int) /\ n \in Nat /\ DOMAIN resolutions = 1 .. n
          /\ \A i, j \in 1 .. n : i < j => resolutions[i] < resolutions[j]
        BY <2>1, Offered
    <2>3. ASSUME NEW want \in Int, resolution = Nearest(resolutions, want),
                 NEW i \in DOMAIN resolutions
          PROVE  /\ ~(Abs(resolutions[i] - want) < Abs(taken - want))
                 /\ ~(Abs(resolutions[i] - want) = Abs(taken - want) /\ resolutions[i] < taken)
        <3>1. /\ resolution \in 1 .. n
              /\ \A j \in 1 .. n : Abs(taken - want) <= Abs(resolutions[j] - want)
              /\ \A j \in 1 .. resolution - 1 : Abs(taken - want) < Abs(resolutions[j] - want)
            BY <2>1, <2>2, <2>3, NearestFound
        <3>2. i \in 1 .. n /\ resolutions[i] \in Int /\ taken \in Int
            BY <2>2, <3>1
        <3>3. Abs(taken - want) \in Int /\ Abs(resolutions[i] - want) \in Int
            BY <3>2 DEF Abs
        <3>4. resolutions[i] < taken => i \in 1 .. resolution - 1
            <4>1. CASE i < resolution
                BY <2>2, <3>1, <3>2, <4>1
            <4>2. CASE i = resolution
                BY <3>2, <4>2
            <4>3. CASE resolution < i
                BY <2>2, <3>1, <3>2, <4>3
            <4> QED
                BY <2>2, <3>1, <3>2, <4>1, <4>2, <4>3
        <3> QED
            BY <3>1, <3>2, <3>3, <3>4
    <2>4. DefaultDpi \in Int /\ last.asked \in Int
        BY <2>1 DEF DefaultDpi, LastInv, Answer
    <2> QED
        BY <2>1, <2>3, <2>4 DEF NearestResolution, LastInv
<1> QED
    BY <1>1, ValuesCorrect, PTL

(* The two tables of modes agree (ipp-opt.c, 147-160; sane-ipp.c, 687-697).*)
THEOREM EstimatesAreOfTheMode == Spec => []EstimateIsOfTheMode
<1>1. ValuesInv => EstimateIsOfTheMode
    <2> SUFFICES ASSUME ValuesInv, Active("mode")
                 PROVE  Estimate.gray <=> modes[mode].sane # "Color"
        BY DEF EstimateIsOfTheMode
    <2>1. modes # <<>> /\ mode \in DOMAIN modes /\ modes \in Seq(Row)
        BY Corners, Offered DEF ValuesInv, ChoiceInv, Active, ModesOK
    <2>2. modes[mode] \in Row
        BY <2>1
    <2>3. Estimate.gray = ModeIsGray(modes[mode].keyword)
        BY <2>1 DEF Estimate, ColorMode
    <2> QED
        BY <2>2, <2>3, Zenon DEF Row
<1> QED
    BY <1>1, ValuesCorrect, PTL

(* What is asked for is the service's own (ipp-proto.h, 169-171), whatever *)
(* it reports and however the options are set.                             *)
THEOREM RequestsAreOffered == Spec => []RequestIsOffered
<1>1. ValuesInv => RequestIsOffered
    <2> SUFFICES ASSUME ValuesInv PROVE RequestIsOffered
        OBVIOUS
    <2> DEFINE s == Scanner(resp)
               Named(m) == m \in DOMAIN JobRequest
    <2>0. \A i \in DOMAIN resp.resolutions :
            resp.resolutions[i] \in [x : Int, y : Int, units : {"inch", "cm"}]
        <3>1. resp.resolutions \in Seq([x : Int, y : Int, units : {"inch", "cm"}])
            BY OptAssumption DEF ValuesInv, OfferInv
        <3> QED
            BY <3>1, LenProperties
    <2>1. /\ s.colorModes = ToSet(resp.colorModes) \ {NULL}
          /\ s.sources = ToSet(resp.sources) \ {NULL}
          /\ s.sides = ToSet(resp.sides) \ {NULL}
          /\ s.resolutions = resp.resolutions
        BY DEF Scanner, StrList
    <2>2. /\ modes \in Seq(Row) /\ \A k \in DOMAIN modes : modes[k].keyword \in s.colorModes
          /\ sources \in Seq(SourceRow(s)) /\ resolutions \in Seq(Square(s))
          /\ modes # <<>> => mode \in DOMAIN modes
          /\ sources # <<>> => source \in DOMAIN sources
          /\ resolutions # <<>> => resolution \in DOMAIN resolutions
        <3>1. OfferInv /\ ChoiceInv
            BY DEF ValuesInv
        <3>2. /\ ModesOK(modes, s) /\ sources \in Seq(SourceRow(s))
              /\ resolutions \in Seq(Square(s))
            BY <3>1, Offered
        <3> QED
            BY <3>1, <3>2 DEF ChoiceInv, ModesOK
    <2>3. /\ modes = <<>> =>
                \A i \in DOMAIN ColorModes : ColorModes[i].keyword \notin s.colorModes
          /\ sources = <<>> => s.sources \cap SourceWord = {}
        <3>1. modes = ModesBuild(s) /\ sources = SourcesBuild(s)
            BY DEF ValuesInv, OfferInv
        <3>2. DOMAIN ColorModes = 1 .. Len(ColorModes)
            BY Rows, LenProperties
        <3> HIDE DEF s
        <3> QED
            BY <3>1, <3>2, ModesBuilt, SourcesBuilt
    <2> HIDE DEF s
    <2>4. /\ Named("colorMode") <=> ColorMode # NULL
          /\ Named("source") <=> Source # NULL
          /\ Named("sides") <=> Sides # NULL
          /\ Named("resolution") <=> Resolution > 0
        BY DEF JobRequest, Request, Restrict
    <2> HIDE DEF Named
    <2>5. /\ ColorMode # NULL => ColorMode \in ToSet(resp.colorModes)
          /\ modes # <<>> => ColorMode # NULL
        BY <2>1, <2>2 DEF ColorMode
    <2>6. \A i \in DOMAIN ColorModes : ColorModes[i].keyword # NULL
        BY Rows, ModeWords DEF Row
    <2>7. sources # <<>> => SourceOK(sources[source], s)
        <3>1. sources # <<>> => sources[source] \in SourceRow(s)
            BY <2>2
        <3> QED
            BY <3>1 DEF SourceRow
    <2>8. /\ Source # NULL => Source \in ToSet(resp.sources)
          /\ sources # <<>> => Source # NULL
          /\ Sides # NULL => Sides \in ToSet(resp.sides)
          /\ Sides # NULL /\ Sides # "one-sided" => Source = "adf"
        BY <2>1, <2>7 DEF Source, Sides, SourceOK
    <2>9. Resolution > 0 => \E i \in DOMAIN resp.resolutions :
                resp.resolutions[i] = [x |-> Resolution, y |-> Resolution, units |-> "inch"]
        <3> SUFFICES ASSUME Resolution > 0
                     PROVE  \E i \in DOMAIN resp.resolutions : resp.resolutions[i]
                                = [x |-> Resolution, y |-> Resolution, units |-> "inch"]
            OBVIOUS
        <3>1. resolutions # <<>>
            BY DEF Resolution
        <3>2. Resolution \in Square(s)
            BY <2>2, <3>1 DEF Resolution
        <3>3. PICK i \in DOMAIN resp.resolutions :
                /\ resp.resolutions[i].units = "inch"
                /\ resp.resolutions[i].x = resp.resolutions[i].y
                /\ Resolution = resp.resolutions[i].x
            BY <2>1, <3>2 DEF Square
        <3>4. resp.resolutions[i] \in [x : Int, y : Int, units : {"inch", "cm"}]
            BY <2>0
        <3> QED
            BY <3>3, <3>4
    <2>10. NULL \notin SourceWord
        BY DEF NULL, SourceWord
    <2>11. Named("source") \/ ToSet(resp.sources) \cap SourceWord = {}
        BY <2>1, <2>3, <2>4, <2>8, <2>10
    <2>12. Named("colorMode") \/ \A i \in DOMAIN ColorModes :
                ColorModes[i].keyword \notin ToSet(resp.colorModes)
        BY <2>1, <2>3, <2>4, <2>5, <2>6
    <2>13. Named("sides") \/ ~Named("source") \/ "one-sided" \notin ToSet(resp.sides)
        <3>1. NULL # "one-sided"
            BY DEF NULL
        <3>2. Sides = NULL /\ Source # NULL => "one-sided" \notin s.sides
            BY <2>7 DEF Source, Sides, SourceOK
        <3> QED
            BY <2>1, <2>4, <3>1, <3>2
    <2>14. Named("resolution") \/ \A i \in DOMAIN resp.resolutions :
            LET r == resp.resolutions[i] IN r.x # r.y \/ r.x <= 0 \/ r.units # "inch"
        <3> SUFFICES ASSUME NEW i \in DOMAIN resp.resolutions,
                            resp.resolutions[i].x = resp.resolutions[i].y,
                            ~(resp.resolutions[i].x <= 0), resp.resolutions[i].units = "inch"
                     PROVE  Named("resolution")
            OBVIOUS
        <3>1. resp.resolutions[i].x > 0
            <4>1. resp.resolutions[i] \in [x : Int, y : Int, units : {"inch", "cm"}]
                BY <2>0
            <4> QED
                BY <4>1
        <3>2. resp.resolutions[i].x \in Square(s)
            BY <2>1, <3>1 DEF Square
        <3>3. resolutions # <<>>
            BY <3>2, Offered DEF ValuesInv, s
        <3>4. Resolution \in Square(s)
            BY <2>2, <3>3 DEF Resolution
        <3>5. \A x \in Square(s) : x > 0
            BY DEF Square
        <3> QED
            BY <2>4, <3>4, <3>5
    <2> QED
        BY <2>4, <2>5, <2>8, <2>9, <2>11, <2>12, <2>13, <2>14
        DEF RequestIsOffered, Named, SourceWord
<1> QED
    BY <1>1, ValuesCorrect, PTL
=============================================================================
