-------------------------- MODULE SaneIppPageProofs --------------------------
(***************************************************************************)
(* Theorems about the pages of the backend: the cancel that is meant for   *)
(* one of them, the job that outlives them on a feeder, and the data that  *)
(* each is made of.  They rest on where the thread may be, which           *)
(* SaneIppProofs says.                                                     *)
(***************************************************************************)
EXTENDS SaneIppProofs, InductionLemmas

-----------------------------------------------------------------------------
(* Cancels                                                                 *)

(* From the clearing of the flag on, it can only be set by a sane_cancel() *)
(* that found the page being started: a signal handler raises the flag     *)
(* where it finds it, so that none is still on its way to an earlier page. *)
WantedInv ==
    /\ ~late
    /\ pc \notin {"start", "clear"} /\ cancel => wanted
    /\ pc = "return" /\ ret = "CANCELLED" => wanted

LEMMA StepWanted == ~Threaded /\ WantedInv /\ [Next]_vars => WantedInv'
<1> SUFFICES ASSUME ~Threaded, WantedInv, [Next]_vars
             PROVE  WantedInv'
    OBVIOUS
<1> USE DEF WantedInv, Goto, Return
<1> USE DEF handleVars, handle, options, session, thread
<1>1. CASE StartCall \/ ReadCall
    BY <1>1 DEF StartCall, ReadCall
<1>2. CASE StartTest \/ StartClear \/ StartArm \/ StartBegin
    BY <1>2 DEF StartTest, StartClear, StartArm, StartBegin
<1>3. CASE StartCreate \/ StartNoJob
    BY <1>3 DEF StartCreate, StartNoJob
<1>4. CASE StartReturn \/ ReadReturn \/ ReadFinish \/ Teardown
    BY <1>4 DEF StartReturn, ReadReturn, ReadFinish, Teardown, PageEnded
<1>5. CASE (Reset \/ Poll \/ Nap \/ Header \/ Feed) /\ UNCHANGED handleVars
    BY <1>5 DEF Reset, Poll, Nap, Header, Feed
<1>6. CASE Ask /\ UNCHANGED handleVars
    BY <1>6 DEF Ask, AskReady, AskWait, AskDone, AskError, NoMorePages
<1>7. CASE (Ready \/ Recv) /\ UNCHANGED handleVars
    BY <1>7 DEF Ready, Recv
<1>8. CASE (Decode \/ ScanTake \/ Rest) /\ UNCHANGED handleVars
    BY <1>8 DEF Decode, ScanTake, Rest, Caller
<1>9. CASE SaneClose
    BY <1>9 DEF SaneClose
<1>10. CASE SetSource \/ SaneCancel \/ CancelTest \/ CancelStore
    BY <1>10 DEF SetSource, SaneCancel, CancelTest, CancelStore, scanVars
<1>11. CASE UNCHANGED vars
    BY <1>11 DEF vars, scanVars
<1>12. QED
    BY <1>1, <1>2, <1>3, <1>4, <1>5, <1>6, <1>7, <1>8, <1>9, <1>10, <1>11
       DEF Next, CallStep, SessionStep

(* From a signal handler, whatever else the frontend calls and when, a     *)
(* sane_cancel() only ever ends a call of the page it came for             *)
(* (sane-ipp.c, 57-61).  It is the condition that keeps one for an earlier *)
(* page away: from another thread, whose store comes after its test, one   *)
(* may end the page after.                                                 *)
THEOREM CancelsHitTheirPage ==
    ASSUME ~Threaded
    PROVE  Spec => []CancelHitsItsPage
<1>1. Init => WantedInv
    BY DEF Init, WantedInv
<1>2. WantedInv => CancelHitsItsPage
    BY DEF WantedInv, CancelHitsItsPage
<1>3. WantedInv /\ [Next]_vars => WantedInv'
    BY StepWanted
<1>4. QED
    BY <1>1, <1>2, <1>3, PTL DEF Spec

(* With signals only, and no sane_start() inside of a page, "scanning" is  *)
(* down while sane_start() tests and clears the flag, so that no cancel    *)
(* comes between the two.                                                  *)
SignalsOnly == ~Threaded /\ ~MidPageStart

QuietStart ==
    /\ ~late
    /\ pc \in {"start", "clear"} => ~scanning
    /\ pc = "clear" /\ cancel => ~scan

LEMMA StepQuiet == SignalsOnly /\ QuietStart /\ [Next]_vars => QuietStart'
<1> SUFFICES ASSUME SignalsOnly, QuietStart, [Next]_vars
             PROVE  QuietStart'
    OBVIOUS
<1> USE DEF SignalsOnly, QuietStart, Goto, Return
<1> USE DEF handleVars, handle, options, session, thread
<1>1. CASE StartCall \/ ReadCall
    BY <1>1 DEF StartCall, ReadCall
<1>2. CASE StartTest
    BY <1>2 DEF StartTest, ScanEnd
<1>3. CASE StartClear \/ StartArm \/ StartBegin
    BY <1>3 DEF StartClear, StartArm, StartBegin
<1>4. CASE StartCreate \/ StartNoJob
    BY <1>4 DEF StartCreate, StartNoJob
<1>5. CASE StartReturn \/ ReadReturn \/ ReadFinish \/ Teardown
    BY <1>5 DEF StartReturn, ReadReturn, ReadFinish, Teardown, PageEnded
<1>6. CASE (Reset \/ Poll \/ Nap \/ Header \/ Feed) /\ UNCHANGED handleVars
    BY <1>6 DEF Reset, Poll, Nap, Header, Feed
<1>7. CASE Ask /\ UNCHANGED handleVars
    BY <1>7 DEF Ask, AskReady, AskWait, AskDone, AskError
<1>8. CASE (Ready \/ Recv) /\ UNCHANGED handleVars
    BY <1>8 DEF Ready, Recv
<1>9. CASE (Decode \/ ScanTake \/ Rest) /\ UNCHANGED handleVars
    BY <1>9 DEF Decode, ScanTake, Rest, Caller
<1>10. CASE SaneClose
    BY <1>10 DEF SaneClose
<1>11. CASE SetSource \/ SaneCancel \/ CancelTest \/ CancelStore
    BY <1>11 DEF SetSource, SaneCancel, CancelTest, CancelStore, scanVars
<1>12. CASE UNCHANGED vars
    BY <1>12 DEF vars, scanVars
<1>13. QED
    BY <1>1, <1>2, <1>3, <1>4, <1>5, <1>6, <1>7, <1>8, <1>9, <1>10, <1>11, <1>12
       DEF Next, CallStep, SessionStep

LEMMA ClearedWithItsJob == QuietStart /\ [Next]_vars => (cancel /\ ~cancel' => ~scan')
<1> SUFFICES ASSUME QuietStart, [Next]_vars, cancel, ~cancel'
             PROVE  ~scan'
    OBVIOUS
<1> USE DEF QuietStart, handleVars, handle, session
<1>1. CASE StartClear
    BY <1>1 DEF StartClear
<1>2. CASE SaneClose
    BY <1>2 DEF SaneClose, ScanEnd
<1>3. CASE StartTest \/ StartArm \/ StartBegin \/ StartCreate \/ StartNoJob
    BY <1>3 DEF StartTest, StartArm, StartBegin, StartCreate, StartNoJob
<1>4. CASE StartReturn \/ ReadReturn \/ ReadFinish \/ Teardown
    BY <1>4 DEF StartReturn, ReadReturn, ReadFinish, Teardown
<1>5. CASE SessionStep
    BY <1>5 DEF SessionStep, Reset, Poll, Ask, Nap, Ready, Header, Feed, Recv, Decode,
                ScanTake, Rest
<1>6. CASE StartCall \/ ReadCall \/ SetSource \/ SaneCancel \/ CancelTest \/ CancelStore
    BY <1>6 DEF StartCall, ReadCall, SetSource, SaneCancel, CancelTest, CancelStore, scanVars
<1>7. CASE UNCHANGED vars
    BY <1>7 DEF vars, scanVars
<1>8. QED
    BY <1>1, <1>2, <1>3, <1>4, <1>5, <1>6, <1>7 DEF Next, CallStep

(* A signal's cancel is not lost: the flag comes down only with the job it *)
(* was raised for (sane-ipp.c, 863-873).  The run scan_lost_cancel shows   *)
(* that a sane_start() inside of a page has to be excepted.                *)
THEOREM CancelsAreNotLost ==
    ASSUME SignalsOnly
    PROVE  Spec => CancelNotLost
<1>1. Init => QuietStart
    BY DEF Init, QuietStart
<1>2. QuietStart /\ [Next]_vars => QuietStart'
    BY StepQuiet
<1>3. QED
    BY <1>1, <1>2, ClearedWithItsJob, PTL DEF Spec, CancelNotLost

-----------------------------------------------------------------------------
(* Jobs on a feeder                                                        *)

(* The session is of the kind the handle takes it for, and one on a feeder *)
(* is only torn down for a failure.                                        *)
FeederInv ==
    /\ scan => hMulti = multi
    /\ pc = "return" /\ call = "start" => ret # "EOF"
    /\ pc = "finish" => ~hMulti
    /\ pc = "teardown" /\ hMulti => ret \notin {"GOOD", "EOF"}

LEMMA StepFeeder == SessionInv /\ FeederInv /\ [Next]_vars => FeederInv'
<1> SUFFICES ASSUME SessionInv, FeederInv, [Next]_vars
             PROVE  FeederInv'
    OBVIOUS
<1>0. /\ pc \in {"create", "nojob"} => ~scan
      /\ pc \in {"take", "rest"} => call = "read"
    BY DEF SessionInv, Whereabouts, CallAt, SessionAt, ReadOnly
<1> USE DEF FeederInv, Goto, Return
<1> USE DEF handleVars, handle, options, session, thread
<1>1. CASE StartCall \/ ReadCall
    BY <1>1 DEF StartCall, ReadCall
<1>2. CASE StartTest \/ StartBegin
    BY <1>2 DEF StartTest, StartBegin, ScanEnd, ScanFree
<1>3. CASE StartClear \/ StartArm
    BY <1>3 DEF StartClear, StartArm
<1>4. CASE StartCreate \/ StartNoJob
    BY <1>0, <1>4 DEF StartCreate, StartNoJob, ScanNew
<1>5. CASE StartReturn \/ ReadReturn
    BY <1>5 DEF StartReturn, ReadReturn, PageEnded
<1>6. CASE ReadFinish
    BY <1>6 DEF ReadFinish, ScanFinish
<1>7. CASE Teardown \/ SaneClose
    BY <1>7 DEF Teardown, SaneClose, ScanEnd
<1>8. CASE (Reset \/ Poll \/ Nap \/ Header \/ Feed) /\ UNCHANGED handleVars
    BY <1>8 DEF Reset, Poll, Nap, Header, Feed
<1>9. CASE Ask /\ UNCHANGED handleVars
    BY <1>9 DEF Ask, AskReady, AskWait, AskDone, AskError, NoMorePages
<1>10. CASE (Ready \/ Recv) /\ UNCHANGED handleVars
    BY <1>10 DEF Ready, Recv
<1>11. CASE Decode /\ UNCHANGED handleVars
    BY <1>11 DEF Decode, Caller
<1>12. CASE (ScanTake \/ Rest) /\ UNCHANGED handleVars
    BY <1>0, <1>12 DEF ScanTake, Rest
<1>13. CASE SetSource \/ SaneCancel \/ CancelTest \/ CancelStore
    BY <1>13 DEF SetSource, SaneCancel, CancelTest, CancelStore, scanVars
<1>14. CASE UNCHANGED vars
    BY <1>14 DEF vars, scanVars
<1>15. QED
    BY <1>1, <1>2, <1>3, <1>4, <1>5, <1>6, <1>7, <1>8, <1>9, <1>10, <1>11, <1>12,
       <1>13, <1>14
       DEF Next, CallStep, SessionStep

LEMMA SessionEndsWith ==
    ASSUME SessionInv, FeederInv, [Next]_vars, scan, ~scan'
    PROVE  cancel \/ ~multi \/ pc = "idle" \/ ret \notin {"GOOD", "EOF"}
<1> USE DEF FeederInv, handleVars, handle, options
<1>1. CASE StartTest \/ StartBegin \/ Teardown \/ SaneClose
    BY <1>1 DEF StartTest, StartBegin, Teardown, SaneClose, OnePageJob
<1>2. CASE StartCreate
    BY <1>2 DEF StartCreate
<1>3. CASE StartClear \/ StartArm \/ StartNoJob \/ StartReturn \/ ReadReturn \/ ReadFinish
    BY <1>3 DEF StartClear, StartArm, StartNoJob, StartReturn, ReadReturn, ReadFinish
<1>4. CASE StartCall \/ ReadCall \/ SetSource \/ SaneCancel \/ CancelTest \/ CancelStore
    BY <1>4 DEF StartCall, ReadCall, SetSource, SaneCancel, CancelTest, CancelStore
<1>5. CASE UNCHANGED vars
    BY <1>5 DEF vars
<1>6. QED
    BY <1>1, <1>2, <1>3, <1>4, <1>5 DEF Next, CallStep

(* A job on a feeder survives the end of its pages, with the source set    *)
(* between them or not (sane-ipp.c, 961-963).                              *)
THEOREM FeederJobsSurvive == Spec => FeederJobSurvives
<1>1. Init => FeederInv
    BY DEF Init, FeederInv
<1>2. SessionInv /\ FeederInv /\ [Next]_vars =>
        (scan /\ ~scan' =>
            cancel \/ ~multi \/ pc = "idle" \/ ret \notin {"GOOD", "EOF"})
    BY SessionEndsWith
<1>3. QED
    BY <1>1, <1>2, StepFeeder, SessionInvariant, PTL DEF Spec, FeederJobSurvives

-----------------------------------------------------------------------------
(* Data that comes in pieces                                               *)

(* The events libpng stops at.                                             *)
Stop == {"error", "end"}

(* libpng gets to the first of them, if there is one.                      *)
LEMMA StopIsReached ==
    ASSUME NEW c \in Seq(Event), NEW k \in DOMAIN c, c[k] \in Stop
    PROVE  \E i \in Reached(c) : c[i] \in Stop
<1> DEFINE T == {i \in DOMAIN c : c[i] \in Stop}
<1>1. T \subseteq Nat /\ T # {} /\ Len(c) \in Nat /\ DOMAIN c = 1 .. Len(c)
    OBVIOUS
<1>2. PICK m \in T : \A i \in T : m <= i
    BY <1>1, Least
<1>3. \A j \in 1 .. m - 1 : c[j] \notin Stop
    BY <1>1, <1>2
<1>4. m \in Reached(c)
    BY <1>2, <1>3 DEF Reached, Stop
<1>5. QED
    BY <1>2, <1>4

LEMMA JoinType ==
    ASSUME NEW c \in Seq(Event), NEW r \in Seq(Event)
    PROVE  /\ c \o r \in Seq(Event) /\ Len(c) \in Nat /\ Len(r) \in Nat
           /\ DOMAIN c = 1 .. Len(c) /\ DOMAIN r = 1 .. Len(r)
           /\ DOMAIN (c \o r) = 1 .. Len(c) + Len(r)
           /\ \A i \in 1 .. Len(c) : (c \o r)[i] = c[i]
           /\ \A i \in 1 .. Len(r) : (c \o r)[Len(c) + i] = r[i]
OBVIOUS

(* A piece that libpng stops in: what follows it is never looked at.       *)
LEMMA Stopped ==
    ASSUME NEW c \in Seq(Event), NEW r \in Seq(Event), Has(c, "end") \/ Has(c, "error")
    PROVE  /\ Reached(c \o r) = Reached(c)
           /\ RowsIn(c \o r) = RowsIn(c)
           /\ \A e \in Event : Has(c \o r, e) <=> Has(c, e)
<1> DEFINE s == c \o r
<1>1. /\ s \in Seq(Event) /\ Len(c) \in Nat /\ Len(r) \in Nat
      /\ DOMAIN c = 1 .. Len(c) /\ DOMAIN s = 1 .. Len(c) + Len(r)
      /\ \A i \in 1 .. Len(c) : s[i] = c[i]
    BY JoinType
<1> HIDE DEF s
<1>2. PICK k \in Reached(c) : c[k] \in Stop
    BY DEF Has, Stop
<1>3. k \in 1 .. Len(c)
    BY <1>1, <1>2 DEF Reached
<1>4. ASSUME NEW i \in Reached(s) PROVE i \in Reached(c)
    <2>1. i \in 1 .. Len(c) + Len(r) /\ \A j \in 1 .. i - 1 : s[j] \notin Stop
        BY <1>1 DEF Reached, Stop
    <2>2. i <= k
        BY <1>1, <1>2, <1>3, <2>1
    <2>3. i \in 1 .. Len(c) /\ \A j \in 1 .. i - 1 : c[j] \notin Stop
        BY <1>1, <1>3, <2>1, <2>2
    <2>4. QED
        BY <1>1, <2>3 DEF Reached, Stop
<1>5. ASSUME NEW i \in Reached(c) PROVE i \in Reached(s)
    <2>1. i \in 1 .. Len(c) /\ \A j \in 1 .. i - 1 : c[j] \notin Stop
        BY <1>1 DEF Reached, Stop
    <2>2. i \in DOMAIN s /\ \A j \in 1 .. i - 1 : s[j] \notin Stop
        BY <1>1, <2>1
    <2>3. QED
        BY <2>2 DEF Reached, Stop
<1>6. Reached(s) = Reached(c)
    BY <1>4, <1>5
<1>7. \A i \in Reached(c) : s[i] = c[i]
    BY <1>1 DEF Reached
<1>8. {i \in Reached(s) : s[i] = "row"} = {i \in Reached(c) : c[i] = "row"}
    BY <1>6, <1>7
<1>9. RowsIn(s) = RowsIn(c)
    BY <1>8, Zenon DEF RowsIn
<1>10. \A e \in Event : Has(s, e) <=> Has(c, e)
    BY <1>6, <1>7 DEF Has
<1>11. QED
    BY <1>6, <1>9, <1>10 DEF s

(* A piece that libpng takes in full: it goes on with what follows.        *)
LEMMA GoesOn ==
    ASSUME NEW c \in Seq(Event), NEW r \in Seq(Event), ~Has(c, "end"), ~Has(c, "error")
    PROVE  /\ Reached(c) = DOMAIN c
           /\ Reached(c \o r) = DOMAIN c \cup {Len(c) + i : i \in Reached(r)}
<1> DEFINE s == c \o r
<1>1. /\ s \in Seq(Event) /\ Len(c) \in Nat /\ Len(r) \in Nat
      /\ DOMAIN c = 1 .. Len(c) /\ DOMAIN r = 1 .. Len(r)
      /\ DOMAIN s = 1 .. Len(c) + Len(r)
      /\ \A i \in 1 .. Len(c) : s[i] = c[i]
      /\ \A i \in 1 .. Len(r) : s[Len(c) + i] = r[i]
    BY JoinType
<1> HIDE DEF s
<1>2. \A i \in DOMAIN c : c[i] \notin Stop
    BY StopIsReached DEF Has, Stop
<1>3. Reached(c) = DOMAIN c
    <2>1. ASSUME NEW i \in 1 .. Len(c), NEW j \in 1 .. i - 1 PROVE c[j] \notin Stop
        <3>1. j \in 1 .. Len(c)
            BY <1>1
        <3>2. QED
            BY <1>1, <1>2, <3>1
    <2>2. QED
        BY <1>1, <2>1 DEF Reached, Stop
<1>4. ASSUME NEW i \in Reached(s), i \notin DOMAIN c
      PROVE  \E j \in Reached(r) : i = Len(c) + j
    <2>1. i \in 1 .. Len(c) + Len(r) /\ \A j \in 1 .. i - 1 : s[j] \notin Stop
        BY <1>1 DEF Reached, Stop
    <2> DEFINE k == i - Len(c)
    <2>2. k \in 1 .. Len(r) /\ i = Len(c) + k
        BY <1>1, <1>4, <2>1
    <2>3. \A j \in 1 .. k - 1 : r[j] \notin Stop
        <3> TAKE j \in 1 .. k - 1
        <3>1. Len(c) + j \in 1 .. i - 1 /\ j \in 1 .. Len(r)
            BY <1>1, <2>2
        <3>2. QED
            BY <1>1, <2>1, <3>1
    <2> HIDE DEF k
    <2>4. k \in Reached(r)
        BY <1>1, <2>2, <2>3 DEF Reached, Stop
    <2>5. QED
        BY <2>2, <2>4
<1>5. ASSUME NEW j \in Reached(r) PROVE Len(c) + j \in Reached(s)
    <2>1. j \in 1 .. Len(r) /\ \A i \in 1 .. j - 1 : r[i] \notin Stop
        BY <1>1 DEF Reached, Stop
    <2>2. ASSUME NEW i \in 1 .. Len(c) + j - 1 PROVE s[i] \notin Stop
        <3>1. CASE i <= Len(c)
            BY <1>1, <1>2, <3>1
        <3>2. CASE i > Len(c)
            <4>1. i - Len(c) \in 1 .. j - 1 /\ i - Len(c) \in 1 .. Len(r)
                  /\ i = Len(c) + (i - Len(c))
                BY <1>1, <2>1, <3>2
            <4>2. QED
                BY <1>1, <2>1, <4>1
        <3>3. QED
            BY <1>1, <3>1, <3>2
    <2>3. Len(c) + j \in DOMAIN s
        BY <1>1, <2>1
    <2>4. QED
        BY <2>2, <2>3 DEF Reached, Stop
<1>6. ASSUME NEW i \in DOMAIN c PROVE i \in Reached(s)
    <2>1. i \in DOMAIN s /\ \A j \in 1 .. i - 1 : j \in 1 .. Len(c)
        BY <1>1
    <2>2. \A j \in 1 .. i - 1 : s[j] \notin Stop
        BY <1>1, <1>2, <2>1
    <2>3. QED
        BY <2>1, <2>2 DEF Reached, Stop
<1>7. Reached(s) = DOMAIN c \cup {Len(c) + i : i \in Reached(r)}
    BY <1>4, <1>5, <1>6
<1>8. QED
    BY <1>3, <1>7 DEF s

Shift(n, S) == {n + i : i \in S}

LEMMA ShiftCount ==
    ASSUME NEW n \in Nat, NEW S \in SUBSET Nat, IsFiniteSet(S)
    PROVE  IsFiniteSet(Shift(n, S)) /\ Cardinality(Shift(n, S)) = Cardinality(S)
<1> DEFINE T == Shift(n, S)
           g == [i \in S |-> n + i]
<1>1. g \in [S -> T]
    BY DEF Shift
<1>2. \A i, j \in S : g[i] = g[j] => i = j
    OBVIOUS
<1>3. \A t \in T : \E i \in S : g[i] = t
    BY DEF Shift
<1> HIDE DEF T, g
<1>4. g \in Bijection(S, T)
    BY <1>1, <1>2, <1>3 DEF Bijection, Injection, Surjection, IsInjective
<1>5. ExistsBijection(S, T)
    BY <1>4 DEF ExistsBijection
<1>6. QED
    BY <1>5, FS_Bijection DEF T

(* The rows libpng gets to.                                                *)
RowsAt(c) == {i \in Reached(c) : c[i] = "row"}

LEMMA RowsAtFinite ==
    ASSUME NEW c \in Seq(Event)
    PROVE  /\ RowsAt(c) \in SUBSET (1 .. Len(c))
           /\ IsFiniteSet(RowsAt(c))
           /\ RowsIn(c) = Cardinality(RowsAt(c))
<1>1. Len(c) \in Nat /\ DOMAIN c = 1 .. Len(c)
    OBVIOUS
<1>2. RowsAt(c) \in SUBSET (1 .. Len(c))
    BY <1>1 DEF Reached, RowsAt
<1>3. IsFiniteSet(1 .. Len(c))
    BY <1>1, FS_Interval
<1>4. IsFiniteSet(RowsAt(c))
    BY <1>2, <1>3, FS_Subset
<1>5. QED
    BY <1>2, <1>4 DEF RowsIn, RowsAt

(* So the events of both are counted.                                      *)
LEMMA AddsUp ==
    ASSUME NEW c \in Seq(Event), NEW r \in Seq(Event), ~Has(c, "end"), ~Has(c, "error")
    PROVE  /\ RowsIn(c \o r) = RowsIn(c) + RowsIn(r)
           /\ \A e \in Event : Has(c \o r, e) <=> Has(c, e) \/ Has(r, e)
<1> DEFINE s == c \o r
<1>1. /\ s \in Seq(Event) /\ Len(c) \in Nat /\ Len(r) \in Nat
      /\ DOMAIN c = 1 .. Len(c) /\ DOMAIN r = 1 .. Len(r)
      /\ \A i \in 1 .. Len(c) : s[i] = c[i]
      /\ \A i \in 1 .. Len(r) : s[Len(c) + i] = r[i]
    BY JoinType
<1>2. Reached(c) = 1 .. Len(c) /\ Reached(s) = 1 .. Len(c) \cup Shift(Len(c), Reached(r))
    BY <1>1, GoesOn DEF Shift
<1>3. Reached(r) \subseteq 1 .. Len(r)
    BY <1>1 DEF Reached
<1> HIDE DEF s
<1>4. RowsAt(s) = RowsAt(c) \cup Shift(Len(c), RowsAt(r))
    BY <1>1, <1>2, <1>3 DEF RowsAt, Shift
<1>5. /\ RowsAt(c) \in SUBSET (1 .. Len(c)) /\ IsFiniteSet(RowsAt(c))
      /\ RowsAt(r) \in SUBSET (1 .. Len(r)) /\ IsFiniteSet(RowsAt(r))
    BY RowsAtFinite
<1>6. /\ IsFiniteSet(Shift(Len(c), RowsAt(r)))
      /\ Cardinality(Shift(Len(c), RowsAt(r))) = Cardinality(RowsAt(r))
    BY <1>1, <1>5, ShiftCount
<1>7. RowsAt(c) \cap Shift(Len(c), RowsAt(r)) = {}
    BY <1>1, <1>5 DEF Shift
<1>8. Cardinality(RowsAt(s)) =
        Cardinality(RowsAt(c)) + Cardinality(RowsAt(r)) - Cardinality({})
    BY <1>4, <1>5, <1>6, <1>7, FS_Union
<1>9. RowsIn(s) = RowsIn(c) + RowsIn(r)
    BY <1>1, <1>8, RowsAtFinite, RowsInType, FS_EmptySet
<1>10. ASSUME NEW e \in Event
       PROVE  Has(s, e) <=> Has(c, e) \/ Has(r, e)
    BY <1>1, <1>2, <1>3, ZenonT(60) DEF Has, Shift
<1>11. QED
    BY <1>9, <1>10 DEF s

(* ipp_png_write(): a body leaves the decoder in the same state however it  *)
(* was cut into chunks, so it does not matter how many bytes each           *)
(* ipp_proto_read() brings.                                                 *)
THEOREM CutsDoNotMatter ==
    ASSUME NEW p \in Decoder, NEW a \in Seq(Event), NEW b \in Seq(Event)
    PROVE  Write(Write(p, a), b) = Write(p, a \o b)
<1> DEFINE q == Write(p, a)
<1>1. CASE p.failed \/ p.ended
    BY <1>1 DEF Write
<1>2. CASE ~p.failed /\ ~p.ended
    <2>1. q = [open |-> p.open, params |-> p.params \/ Has(a, "info"),
               ended |-> Has(a, "end"), failed |-> Has(a, "error"),
               rows |-> p.rows + RowsIn(a), taken |-> p.taken]
        BY <1>2 DEF Write, Decoder
    <2>2. Write(p, a \o b) =
              [open |-> p.open, params |-> p.params \/ Has(a \o b, "info"),
               ended |-> Has(a \o b, "end"), failed |-> Has(a \o b, "error"),
               rows |-> p.rows + RowsIn(a \o b), taken |-> p.taken]
        BY <1>2 DEF Write, Decoder
    <2>3. CASE Has(a, "end") \/ Has(a, "error")
        <3>1. /\ RowsIn(a \o b) = RowsIn(a)
              /\ \A e \in Event : Has(a \o b, e) <=> Has(a, e)
            BY <2>3, Stopped
        <3>2. Write(q, b) = q
            BY <2>1, <2>3 DEF Write
        <3>3. /\ Has(a \o b, "info") = Has(a, "info")
              /\ Has(a \o b, "end") = Has(a, "end")
              /\ Has(a \o b, "error") = Has(a, "error")
            BY <3>1 DEF Event, Has
        <3>4. QED
            BY <2>1, <2>2, <3>1, <3>2, <3>3
    <2>4. CASE ~Has(a, "end") /\ ~Has(a, "error")
        <3>1. /\ RowsIn(a \o b) = RowsIn(a) + RowsIn(b)
              /\ \A e \in Event : Has(a \o b, e) <=> Has(a, e) \/ Has(b, e)
            BY <2>4, AddsUp
        <3>2. Write(q, b) =
                  [open |-> p.open,
                   params |-> (p.params \/ Has(a, "info")) \/ Has(b, "info"),
                   ended |-> Has(b, "end"), failed |-> Has(b, "error"),
                   rows |-> (p.rows + RowsIn(a)) + RowsIn(b), taken |-> p.taken]
            <4>1. ~q.failed /\ ~q.ended
                BY <2>1, <2>4
            <4>2. QED
                BY <2>1, <4>1 DEF Write
        <3>3. /\ ((p.params \/ Has(a, "info")) \/ Has(b, "info"))
                  = (p.params \/ Has(a \o b, "info"))
              /\ Has(a \o b, "end") = Has(b, "end")
              /\ Has(a \o b, "error") = Has(b, "error")
            BY <2>4, <3>1 DEF Event, Has
        <3>4. (p.rows + RowsIn(a)) + RowsIn(b) = p.rows + RowsIn(a \o b)
            <4>1. p.rows \in Nat
                BY DEF Decoder
            <4>2. RowsIn(a) \in Nat /\ RowsIn(b) \in Nat
                BY RowsInType
            <4>3. QED
                BY <3>1, <4>1, <4>2
        <3>5. QED
            BY <2>2, <3>2, <3>3, <3>4
    <2>5. QED
        BY <2>3, <2>4
<1>3. QED
    BY <1>1, <1>2

(* What WellFormed says of the pieces: no row and no end comes before the  *)
(* header.                                                                 *)
LEMMA HeaderFirst ==
    ASSUME NEW c \in Seq(Event), NEW r \in Seq(Event), WellFormed(c \o r),
           ~Has(c, "info"), ~Has(c, "error")
    PROVE  ~Has(c, "end") /\ RowsIn(c) = 0 /\ WellFormed(r)
<1> DEFINE s == c \o r
<1>1. /\ s \in Seq(Event) /\ Len(c) \in Nat /\ Len(r) \in Nat
      /\ DOMAIN c = 1 .. Len(c) /\ DOMAIN r = 1 .. Len(r)
      /\ \A i \in 1 .. Len(c) : s[i] = c[i]
      /\ \A i \in 1 .. Len(r) : s[Len(c) + i] = r[i]
    BY JoinType
<1> HIDE DEF s
<1>2. WellFormed(s)
    BY DEF s
<1>3. ~Has(c, "end")
    <2> SUFFICES ASSUME Has(c, "end") PROVE FALSE
        OBVIOUS
    <2>1. Reached(s) = Reached(c)
        BY Stopped DEF s
    <2>2. Reached(c) \subseteq 1 .. Len(c)
        BY <1>1 DEF Reached
    <2>3. QED
        BY <1>1, <1>2, <2>1, <2>2 DEF WellFormed, Has
<1>4. Reached(c) = 1 .. Len(c) /\ Reached(s) = 1 .. Len(c) \cup Shift(Len(c), Reached(r))
    BY <1>1, <1>3, GoesOn DEF Shift, s
<1>5. Reached(r) \subseteq 1 .. Len(r)
    BY <1>1 DEF Reached
<1>6. ASSUME NEW i \in Reached(s), s[i] \in {"row", "end"}
      PROVE  \E k \in Reached(r) : r[k] = "info" /\ Len(c) + k < i
    <2>1. PICK j \in Reached(s) : j < i /\ s[j] = "info"
        BY <1>2, <1>6 DEF WellFormed
    <2>2. j \notin 1 .. Len(c)
        BY <1>1, <1>4, <2>1 DEF Has
    <2>3. PICK k \in Reached(r) : j = Len(c) + k
        BY <1>4, <2>2 DEF Shift
    <2>4. QED
        BY <1>1, <1>5, <2>1, <2>3
<1>7. RowsAt(c) = {}
    <2> SUFFICES ASSUME NEW i \in RowsAt(c) PROVE FALSE
        OBVIOUS
    <2>1. i \in 1 .. Len(c) /\ c[i] = "row"
        BY <1>4 DEF RowsAt
    <2>2. PICK k \in Reached(r) : Len(c) + k < i
        BY <1>1, <1>4, <1>6, <2>1
    <2>3. QED
        BY <1>1, <1>5, <2>1, <2>2
<1>8. RowsIn(c) = 0
    BY <1>7, RowsAtFinite, FS_EmptySet
<1>9. WellFormed(r)
    <2> SUFFICES ASSUME NEW i \in Reached(r), r[i] \in {"row", "end"}
                 PROVE  \E j \in Reached(r) : j < i /\ r[j] = "info"
        BY DEF WellFormed
    <2>1. i \in 1 .. Len(r) /\ Len(c) + i \in Reached(s) /\ s[Len(c) + i] = r[i]
        BY <1>1, <1>4, <1>5 DEF Shift
    <2>2. PICK k \in Reached(r) : r[k] = "info" /\ Len(c) + k < Len(c) + i
        BY <1>6, <2>1
    <2>3. k < i
        BY <1>1, <1>5, <2>1, <2>2
    <2>4. QED
        BY <2>2, <2>3
<1>10. QED
    BY <1>3, <1>8, <1>9

LEMMA NoData ==
    /\ <<>> \in Seq(Event) /\ Reached(<<>>) = {}
    /\ RowsIn(<<>>) = 0 /\ \A e \in Event : ~Has(<<>>, e)
<1>1. <<>> \in Seq(Event) /\ Reached(<<>>) = {}
    BY DEF Reached
<1>2. RowsAt(<<>>) = {}
    BY <1>1 DEF RowsAt
<1>3. RowsIn(<<>>) = 0
    BY <1>1, <1>2, RowsAtFinite, FS_EmptySet
<1>4. QED
    BY <1>1, <1>3 DEF Has

(* ipp_png_write(), field by field.                                        *)
LEMMA WriteFields ==
    ASSUME NEW p \in Decoder, ~p.failed, ~p.ended, NEW c
    PROVE  /\ Write(p, c).rows = p.rows + RowsIn(c)
           /\ Write(p, c).taken = p.taken
           /\ Write(p, c).ended <=> Has(c, "end")
           /\ Write(p, c).failed <=> Has(c, "error")
           /\ Write(p, c).params <=> p.params \/ Has(c, "info")
<1> DEFINE a == p.params \/ Has(c, "info")
           e == Has(c, "end")
           f == Has(c, "error")
<1>1. Write(p, c) = [p EXCEPT !.params = a, !.rows = p.rows + RowsIn(c),
                              !.ended = e, !.failed = f]
    BY DEF Write, Decoder
<1> HIDE DEF a, e, f
<1>2. /\ Write(p, c).rows = p.rows + RowsIn(c) /\ Write(p, c).taken = p.taken
      /\ Write(p, c).ended = e /\ Write(p, c).failed = f /\ Write(p, c).params = a
    BY <1>1 DEF Decoder
<1>3. QED
    BY <1>2, Zenon DEF a, e, f

-----------------------------------------------------------------------------
(* The page that is being read                                             *)

(* What the decoder has not had yet, and whether there is no more to be had *)
(* of a page that is not whole.                                            *)
Left == chunk \o wire
Lost == pc = "decode" /\ chunk = <<>>

Live ==
    \/ pc \in WithPage
    \/ pc = "return" /\ ret = "GOOD"
    \/ pc = "idle" /\ scanning

(* The decoder has had the image up to Left.                               *)
Had ==
    /\ doc \in Bodies
    /\ ~png.failed
    /\ png.ended => png.params /\ png.rows = RowsIn(doc) /\ Whole(doc)
    /\ ~png.ended /\ ~Lost => /\ RowsIn(doc) = png.rows + RowsIn(Left)
                              /\ Whole(doc) <=> Whole(Left)
    /\ ~png.params => png.rows = 0 /\ (Lost \/ WellFormed(Left))

(* Where the thread asks for more of it, nothing is left to be taken and   *)
(* something to come.                                                      *)
Asks ==
    /\ pc # "rest" => ~netEof
    /\ pc = "rest" => Eof(png)
    /\ pc \in {"feed", "recv", "decode"} => Held(png) = 0 /\ ~png.ended
    /\ call = "start" => png.taken = 0

StartStatus == {"GOOD", "CANCELLED", "NO_DOCS", "IO_ERROR", "UNSUPPORTED", "NO_MEM"}
ReadStatus  == {"GOOD", "EOF", "CANCELLED", "IO_ERROR"}

(* On the way to a page and out of it.                                     *)
Flow ==
    /\ ret \in Status
    /\ pc # "decode" => chunk = <<>>
    /\ pc \in {"poll", "ask", "nap", "ready"} => ~netEof
    /\ pc = "ready" => wire = doc /\ doc \in Bodies
    /\ pc \notin {"idle", "start", "clear", "arm", "finish", "teardown"} => scanning
    /\ pc = "return" => ret \in IF call = "start" THEN StartStatus ELSE ReadStatus
    /\ pc = "return" /\ ret = "EOF" =>
        Whole(doc) /\ png.taken = RowsIn(doc) * RowBytes

PageInv == Flow /\ (Live => Had /\ Asks)

LEMMA InitPage == Init => PageInv
BY DEF Init, JobInit, PageInv, Flow, Live, WithPage, Status

(* What is in a page that is whole.                                        *)
LEMMA EofMeansAll ==
    ASSUME SessionInv, Had, Eof(png)
    PROVE  Whole(doc) /\ png.taken = RowsIn(doc) * RowBytes
<1>1. png.taken \in Nat /\ png.rows * RowBytes \in Nat
    BY RowBytesAssumption DEF SessionInv, DataOK, Sound, Decoder
<1>2. QED
    BY <1>1 DEF Had, Eof, Held

(* Nothing but the place of the thread changes.                            *)
LEMMA SameHad ==
    ASSUME Had, UNCHANGED <<png, doc, wire, chunk>>, pc # "decode", pc' # "decode"
    PROVE  Had'
BY DEF Had, Lost, Left

(* A chunk that spoils nothing, after ipp_png_write().                     *)
LEMMA DecodeHad ==
    ASSUME SessionInv, Flow, Had, Asks, Decode, pc' # "return"
    PROVE  Had' /\ Asks' /\ chunk' = <<>> /\ pc' \in {"header", "take"}
<1>1. /\ pc = "decode" /\ ~cancel /\ png' = Decoded(chunk) /\ ~png'.failed
      /\ netEof' = (netEof \/ chunk = <<>>) /\ pc' \in {"header", "take"}
      /\ chunk' = <<>> /\ wire' = wire /\ doc' = doc /\ call' = call
    BY DEF Decode, Goto, Return, Caller, jobVars, service, history
<1>2. png \in Decoder /\ chunk \in Seq(Event) /\ wire \in Seq(Event)
    BY DEF SessionInv, DataOK, Sound, JobInv, JobTypeOK
<1>3. ~netEof /\ ~png.ended /\ ~png.failed
    BY <1>1 DEF Asks, Had
<1>4. chunk # <<>>
    <2> SUFFICES ASSUME chunk = <<>> PROVE FALSE
        OBVIOUS
    <2>1. Finish(png).failed = (png.failed \/ ~png.ended)
        BY <1>2 DEF Finish, Decoder
    <2>2. QED
        BY <1>1, <1>3, <2>1 DEF Decoded
<1>5. png' = Write(png, chunk)
    BY <1>1, <1>4 DEF Decoded
<1>6. /\ png'.rows = png.rows + RowsIn(chunk) /\ png'.taken = png.taken
      /\ png'.ended <=> Has(chunk, "end")
      /\ ~Has(chunk, "error")
      /\ png'.params <=> png.params \/ Has(chunk, "info")
    BY <1>1, <1>2, <1>3, <1>5, WriteFields
<1>7. /\ RowsIn(doc) = png.rows + RowsIn(chunk \o wire)
      /\ Whole(doc) <=> Has(chunk \o wire, "end")
      /\ ~png.params => png.rows = 0 /\ WellFormed(chunk \o wire)
    BY <1>3, <1>4 DEF Had, Lost, Left, Whole
<1>8. ~Lost' /\ Left' = wire
    <2>1. <<>> \o wire = wire
        BY <1>2
    <2>2. QED
        BY <1>1, <2>1 DEF Lost, Left
<1>9. ~png'.params => /\ ~Has(chunk, "end") /\ RowsIn(chunk) = 0 /\ WellFormed(wire)
                      /\ png.rows = 0
    BY <1>2, <1>6, <1>7, HeaderFirst
<1>10. png'.ended => /\ png'.params /\ png'.rows = RowsIn(doc) /\ Whole(doc)
    <2> SUFFICES ASSUME Has(chunk, "end")
                 PROVE  png'.params /\ png'.rows = RowsIn(doc) /\ Whole(doc)
        BY <1>6
    <2>1. RowsIn(chunk \o wire) = RowsIn(chunk) /\ Has(chunk \o wire, "end")
        BY <1>2, Stopped DEF Event
    <2>2. QED
        BY <1>6, <1>7, <1>9, <2>1 DEF Whole
<1>11. ~png'.ended => /\ RowsIn(doc) = png'.rows + RowsIn(wire)
                      /\ Whole(doc) <=> Whole(wire)
    <2> SUFFICES ASSUME ~Has(chunk, "end")
                 PROVE  /\ RowsIn(doc) = png'.rows + RowsIn(wire)
                        /\ Whole(doc) <=> Whole(wire)
        BY <1>6
    <2>1. /\ RowsIn(chunk \o wire) = RowsIn(chunk) + RowsIn(wire)
          /\ Has(chunk \o wire, "end") <=> Has(wire, "end")
        BY <1>2, <1>6, AddsUp DEF Event
    <2>2. RowsIn(chunk) \in Nat /\ RowsIn(wire) \in Nat /\ png.rows \in Nat
        BY <1>2, RowsInType DEF Decoder
    <2>3. QED
        BY <1>6, <1>7, <2>1, <2>2 DEF Whole
<1>12. Had'
    <2>1. doc' \in Bodies /\ ~png'.failed
        BY <1>1 DEF Had
    <2>2. png'.ended => png'.params /\ png'.rows = RowsIn(doc') /\ Whole(doc')
        BY <1>1, <1>10, Zenon
    <2>3. ~png'.ended => RowsIn(doc') = png'.rows + RowsIn(Left') /\ (Whole(doc') <=> Whole(Left'))
        BY <1>1, <1>8, <1>11, Zenon
    <2>4. ~png'.params => png'.rows = 0 /\ WellFormed(Left')
        <3>1. ~png'.params => png'.rows = 0
            BY <1>6, <1>9
        <3>2. QED
            BY <1>8, <1>9, <3>1, Zenon
    <2>5. QED
        BY <2>1, <2>2, <2>3, <2>4 DEF Had
<1>13. Asks'
    BY <1>1, <1>3, <1>4, <1>6 DEF Asks
<1>14. QED
    BY <1>1, <1>12, <1>13

LEMMA StepFlow == SessionInv /\ PageInv /\ [Next]_vars => Flow'
<1> SUFFICES ASSUME SessionInv, PageInv, [Next]_vars
             PROVE  Flow'
    OBVIOUS
<1>0. /\ Flow /\ (Live => Had /\ Asks)
      /\ CallAt /\ PageAt
    BY DEF PageInv, SessionInv, Whereabouts
<1> USE <1>0 DEF Flow, Goto, Return, Status, StartStatus, ReadStatus, CallAt, StartOnly,
                 ReadOnly, Starting
<1> USE DEF handleVars, handle, options, session, thread, jobVars, service, history
(* sane_start()                                                            *)
<1>1. CASE StartCall \/ StartClear \/ StartArm
    BY <1>1 DEF StartCall, StartClear, StartArm
<1>2. CASE StartTest \/ StartBegin
    BY <1>2 DEF StartTest, StartBegin
<1>3. CASE StartCreate
    BY <1>3 DEF StartCreate, ScanNew
<1>4. CASE StartNoJob \/ StartReturn
    BY <1>4 DEF StartNoJob, StartReturn
(* sane_read()                                                             *)
<1>5. CASE ReadCall \/ ReadReturn \/ ReadFinish
    BY <1>5 DEF ReadCall, ReadReturn, PageEnded, ReadFinish, ScanFinish
<1>6. CASE Teardown \/ SaneClose
    BY <1>6 DEF Teardown, SaneClose
(* the session                                                             *)
<1>7. CASE (Reset \/ Poll \/ Nap) /\ UNCHANGED handleVars
    BY <1>7 DEF Reset, Poll, Nap
<1>8. CASE Ask /\ UNCHANGED handleVars
    <2>1. CASE AskReady
        <3>1. PICK b \in Bodies, k \in BOOLEAN : DocReady(b, k)
            BY <2>1 DEF AskReady, NextDocument
        <3>2. wire' = doc' /\ doc' \in Bodies
            BY <3>1 DEF DocReady
        <3>3. QED
            BY <1>8, <2>1, <3>2 DEF Ask, AskReady
    <2>2. CASE AskWait \/ AskDone \/ AskError
        BY <1>8, <2>2 DEF Ask, AskWait, AskDone, AskError, NoMorePages
    <2>3. QED
        BY <1>8, <2>1, <2>2 DEF Ask
<1>9. CASE (Ready \/ Header \/ Feed \/ Recv) /\ UNCHANGED handleVars
    BY <1>9 DEF Ready, Header, Feed, Recv
<1>10. CASE Decode /\ UNCHANGED handleVars
    BY <1>10 DEF Decode, Caller
<1>11. CASE ScanTake /\ UNCHANGED handleVars
    BY <1>11 DEF ScanTake, PageAt, WithPage
<1>12. CASE Rest /\ UNCHANGED handleVars
    <2>1. pc = "rest" /\ png' = png /\ doc' = doc /\ chunk' = chunk /\ call' = call
          /\ scanning' = scanning
        BY <1>12, ReadKeepsJob DEF Rest, RestStops, ReadData, ReadStop, ReadNothing
    <2>2. Whole(doc) /\ png.taken = RowsIn(doc) * RowBytes
        BY <2>1, EofMeansAll DEF Live, WithPage, Asks
    <2>3. (pc' = pc /\ ret' = ret) \/ (pc' = "return" /\ ret' = "EOF")
        BY <1>12 DEF Rest
    <2>4. QED
        BY <2>1, <2>2, <2>3
(* beside the calls                                                        *)
<1>13. CASE SetSource \/ SaneCancel \/ CancelTest \/ CancelStore
    BY <1>13 DEF SetSource, SaneCancel, CancelTest, CancelStore, scanVars
<1>14. CASE UNCHANGED vars
    BY <1>14 DEF vars, scanVars
<1>15. QED
    BY <1>1, <1>2, <1>3, <1>4, <1>5, <1>6, <1>7, <1>8, <1>9, <1>10, <1>11, <1>12, <1>13, <1>14
       DEF Next, CallStep, SessionStep

LEMMA StepPage == SessionInv /\ PageInv /\ [Next]_vars => PageInv'
<1> SUFFICES ASSUME SessionInv, PageInv, [Next]_vars, Live'
             PROVE  Had' /\ Asks'
    BY StepFlow DEF PageInv
<1>0. /\ Flow /\ (Live => Had /\ Asks)
      /\ CallAt /\ PageAt /\ ScanningAt
      /\ png \in Decoder /\ Held(png) \in Nat
      /\ chunk \in Seq(Event) /\ wire \in Seq(Event)
    BY DEF PageInv, SessionInv, Whereabouts, DataOK, Sound, JobInv, JobTypeOK
<1> USE <1>0 DEF Live, WithPage, Goto, Return
<1> USE DEF handleVars, handle, options, session, thread, jobVars, service, history
(* steps that are not of a page                                            *)
<1>1. CASE StartCall \/ StartTest \/ StartClear \/ StartArm \/ StartBegin
    BY <1>1 DEF StartCall, StartTest, StartClear, StartArm, StartBegin
<1>2. CASE StartCreate \/ StartNoJob
    BY <1>2 DEF StartCreate, StartNoJob
<1>3. CASE ReadFinish \/ Teardown \/ SaneClose
    BY <1>3 DEF ReadFinish, Teardown, SaneClose, ScanningAt
<1>4. CASE (Reset \/ Poll \/ Nap) /\ UNCHANGED handleVars
    BY <1>4 DEF Reset, Poll, Nap
<1>5. CASE Ask /\ UNCHANGED handleVars
    BY <1>5 DEF Ask, AskReady, AskWait, AskDone, AskError, NoMorePages
(* steps between the calls, and at their ends                              *)
<1>6. CASE StartReturn \/ ReadReturn
    <2>1. pc = "return" /\ pc' = "idle" /\ ret = "GOOD" /\ UNCHANGED <<png, doc, wire, chunk, netEof, call>>
        BY <1>6 DEF StartReturn, ReadReturn, PageEnded
    <2>2. Had'
        BY <2>1, SameHad
    <2>3. QED
        BY <2>1, <2>2 DEF Asks
<1>7. CASE ReadCall
    <2>1. pc = "idle" /\ scanning /\ pc' \in {"idle", "take"}
          /\ call' = "read" /\ UNCHANGED <<png, doc, wire, chunk, netEof>>
        BY <1>7 DEF ReadCall
    <2>2. Had'
        BY <2>1, SameHad
    <2>3. QED
        BY <2>1, <2>2 DEF Asks
<1>8. CASE SetSource \/ SaneCancel \/ CancelTest \/ CancelStore \/ UNCHANGED vars
    <2>1. UNCHANGED <<png, doc, wire, chunk, netEof, call, pc, ret, scanning>>
        BY <1>8 DEF SetSource, SaneCancel, CancelTest, CancelStore, scanVars, vars
    <2>2. Had
        BY <2>1
    <2>3. Had'
        BY <2>1, <2>2 DEF Had, Lost, Left
    <2>4. QED
        BY <2>1, <2>3 DEF Asks, Held, Eof
(* steps of a page                                                         *)
<1>9. CASE Ready /\ UNCHANGED handleVars
    <2>1. /\ pc = "ready" /\ pc' = "header" /\ png' = FreshPng
          /\ UNCHANGED <<doc, wire, chunk, netEof>>
        BY <1>9 DEF Ready
    <2>2. chunk = <<>> /\ wire = doc /\ doc \in Bodies /\ ~netEof
        BY <2>1 DEF Flow
    <2>3. ~Lost' /\ Left' = doc
        <3>1. <<>> \o wire = wire
            OBVIOUS
        <3>2. QED
            BY <2>1, <2>2, <3>1 DEF Lost, Left
    <2>4. WellFormed(doc) /\ RowsIn(doc) \in Nat
        BY <2>2, RowsInType, ScanAssumption
    <2>5. /\ ~png'.failed /\ ~png'.ended /\ ~png'.params
          /\ png'.rows = 0 /\ png'.taken = 0
        BY <2>1 DEF FreshPng
    <2>6. Had'
        BY <2>1, <2>2, <2>3, <2>4, <2>5 DEF Had
    <2>7. QED
        BY <2>1, <2>2, <2>5, <2>6 DEF Asks
<1>10. CASE Header /\ UNCHANGED handleVars
    <2>1. pc = "header" /\ UNCHANGED <<png, doc, wire, chunk, netEof, call>>
          /\ pc' \in {"return", "feed"}
        BY <1>10 DEF Header
    <2>6. pc' = "feed" => ~png.params
        BY <1>10 DEF Header
    <2>2. Had'
        BY <2>1, SameHad
    <2>3. call = "start" /\ Had /\ Asks
        BY <2>1 DEF CallAt, StartOnly, Starting
    <2>4. ~png.params => Held(png) = 0 /\ ~png.ended
        BY <2>1, <2>3, RowBytesAssumption DEF Had, Asks, Held
    <2>5. QED
        BY <2>1, <2>2, <2>3, <2>4, <2>6 DEF Asks, Held
<1>11. CASE Feed /\ UNCHANGED handleVars
    <2>1. pc = "feed" /\ pc' = "recv" /\ UNCHANGED <<png, doc, wire, chunk, netEof, call>>
        BY <1>11 DEF Feed
    <2>2. Had'
        BY <2>1, SameHad
    <2>3. QED
        BY <2>1, <2>2 DEF Asks, Held
<1>12. CASE Recv /\ UNCHANGED handleVars
    <2>1. pc = "recv" /\ pc' = "decode" /\ UNCHANGED <<png, doc, netEof, call>>
        BY <1>12 DEF Recv, ReadData, ReadStop, ReadNothing
    <2>2. Had /\ Asks /\ chunk = <<>> /\ ~Lost /\ Left = wire
        <3>1. <<>> \o wire = wire
            OBVIOUS
        <3>2. QED
            BY <2>1, <3>1 DEF Flow, Lost, Left
    <2>3. CASE chunk' = <<>>
        BY <2>1, <2>2, <2>3 DEF Had, Lost, Asks, Held
    <2>4. CASE chunk' # <<>>
        <3>1. PICK c \in Chunks : ReadData(c) /\ chunk' = c
            BY <1>12, <2>1, <2>4 DEF Recv
        <3>2. wire = chunk' \o wire'
            BY <3>1 DEF ReadData
        <3>3. ~Lost' /\ Left' = Left
            BY <2>2, <2>4, <3>2 DEF Lost, Left
        <3>4. Had'
            BY <2>1, <2>2, <3>3 DEF Had
        <3>5. QED
            BY <2>1, <2>2, <3>4 DEF Asks, Held
    <2>5. QED
        BY <2>3, <2>4
<1>13. CASE Decode /\ UNCHANGED handleVars
    <2>1. pc = "decode" /\ Had /\ Asks
        BY <1>13 DEF Decode
    <2>2. CASE pc' # "return"
        BY <1>13, <2>1, <2>2, DecodeHad DEF SessionInv
    <2>3. CASE pc' = "return"
        <3>1. ret' # "GOOD"
            BY <1>13, <2>3 DEF Decode, Caller
        <3>2. QED
            BY <2>3, <3>1
    <2>4. QED
        BY <2>2, <2>3
<1>14. CASE ScanTake /\ UNCHANGED handleVars
    <2>1. /\ pc = "take" /\ call = "read" /\ png.open
          /\ UNCHANGED <<doc, wire, chunk, netEof, call>>
        BY <1>14 DEF ScanTake, CallAt, ReadOnly, PageAt
    <2>2. CASE TakeQueued /\ pc' = "return"
        <3>1. PICK n \in 1 .. MaxRead : png' = Take(png, n)
            BY <2>2 DEF TakeQueued
        <3>2. /\ png'.failed = png.failed /\ png'.ended = png.ended
              /\ png'.params = png.params /\ png'.rows = png.rows
            BY <3>1 DEF Take, Decoder
        <3>3. Had'
            BY <2>1, <2>2, <3>2 DEF Had, Lost, Left
        <3>4. QED
            BY <2>1, <2>2, <3>3 DEF Asks
    <2>3. CASE /\ UNCHANGED png /\ Held(png) = 0
               /\ pc' = IF Eof(png) THEN "rest" ELSE "feed"
        <3>1. Had'
            BY <2>1, <2>3, SameHad
        <3>2. QED
            BY <2>1, <2>3, <3>1 DEF Asks, Eof, Held
    <2>4. QED
        BY <1>14, <2>1, <2>2, <2>3 DEF ScanTake
<1>15. CASE Rest /\ UNCHANGED handleVars
    <2>1. /\ pc = "rest" /\ pc' = "rest" /\ UNCHANGED <<png, call, chunk>>
          /\ doc' = doc
        BY <1>15, ReadKeepsJob DEF Rest, RestStops, ReadData, ReadStop, ReadNothing
    <2>2. Had /\ Asks /\ png.ended /\ png.params
        BY <2>1 DEF Asks, Eof, Had
    <2>3. Had'
        BY <2>1, <2>2 DEF Had
    <2>4. QED
        BY <2>1, <2>2, <2>3 DEF Asks, Eof, Held
<1>16. QED
    BY <1>1, <1>2, <1>3, <1>4, <1>5, <1>6, <1>7, <1>8, <1>9, <1>10, <1>11, <1>12, <1>13,
       <1>14, <1>15
       DEF Next, CallStep, SessionStep

THEOREM PageInvariant == Spec => []PageInv
BY InitPage, StepPage, SessionInvariant, PTL DEF Spec

(* A feed is asked for only with the queue empty and before the end of the *)
(* data, whatever the frontend reads and wherever bodies are cut           *)
(* (ipp-scan.c, 152-155 and 387-389).                                      *)
THEOREM FeedsAreNeeded == Spec => []FeedNeverStarved
<1>1. PageInv => FeedNeverStarved
    BY DEF PageInv, Live, WithPage, Asks, FeedNeverStarved
<1>2. QED
    BY <1>1, PageInvariant, PTL

-----------------------------------------------------------------------------
(* The backend implements SanePages                                        *)

Ends == {"idle", "finish", "teardown"}

LEMMA InitPages == Init => Pages!Init
BY DEF Init, Pages!Init, PageOpen, Pages!NoImage

(* Inside of sane_start() a frontend sees nothing.                         *)
LEMMA StartUnseen ==
    ASSUME call = "start", call' = "start", pc \notin Ends, pc' \notin Ends
    PROVE  UNCHANGED Pages!pageVars
BY DEF Ends, Pages!pageVars, PageOpen

(* Inside of sane_read() it sees nothing as long as none of the page is    *)
(* given.                                                                  *)
LEMMA ReadUnseen ==
    ASSUME call = "read", pc \notin Ends, pc' \notin Ends,
           ~(pc = "return" /\ ret = "GOOD"), ~(pc' = "return" /\ ret' = "GOOD"),
           png.taken' = png.taken, UNCHANGED <<call, scanning, doc>>
    PROVE  UNCHANGED Pages!pageVars
BY DEF Ends, Pages!pageVars, PageOpen

(* Where nothing changes that it can see.                                  *)
LEMMA Unseen ==
    ASSUME UNCHANGED <<pc, call, ret, scanning, doc, png>>
    PROVE  UNCHANGED Pages!pageVars
BY DEF Pages!pageVars, PageOpen

LEMMA RowsFit ==
    ASSUME NEW a \in Nat, NEW b \in Nat, a <= b
    PROVE  a * RowBytes <= b * RowBytes
<1>1. \A d \in Nat : a * RowBytes <= (a + d) * RowBytes
    <2> TAKE d \in Nat
    <2>1. (a + d) * RowBytes = a * RowBytes + d * RowBytes
        BY RowBytesAssumption
    <2>2. a * RowBytes \in Nat /\ d * RowBytes \in Nat
        BY RowBytesAssumption
    <2>3. QED
        BY <2>1, <2>2
<1>2. b - a \in Nat /\ b = a + (b - a)
    OBVIOUS
<1>3. QED
    BY <1>1, <1>2

(* What is given is of the page that was announced.                        *)
LEMMA Given ==
    ASSUME SessionInv, PageInv, pc = "take", NEW n \in 1 .. MaxRead, n <= Held(png)
    PROVE  png.taken + n \in png.taken + 1 .. RowsIn(doc) * RowBytes
<1>1. /\ png.taken \in Nat /\ png.rows \in Nat /\ RowBytes \in Nat /\ n \in Nat
      /\ wire \in Seq(Event) /\ chunk \in Seq(Event)
    BY RowBytesAssumption, ScanAssumption
       DEF SessionInv, DataOK, Sound, Decoder, JobInv, JobTypeOK
<1>2. Had
    BY DEF PageInv, Live, WithPage
<1>3. RowsIn(doc) \in Nat /\ png.rows <= RowsIn(doc)
    <2>1. doc \in Seq(Event) /\ Left \in Seq(Event)
        BY <1>1, <1>2, JobAssumption, JoinType DEF Had, Left
    <2>2. RowsIn(doc) \in Nat /\ RowsIn(Left) \in Nat
        BY <2>1, RowsInType
    <2>3. png.ended \/ RowsIn(doc) = png.rows + RowsIn(Left)
        BY <1>2 DEF Had, Lost
    <2>4. QED
        BY <1>1, <1>2, <2>2, <2>3 DEF Had
<1>4. png.rows * RowBytes <= RowsIn(doc) * RowBytes
    BY <1>1, <1>3, RowsFit
<1>5. png.rows * RowBytes \in Nat /\ RowsIn(doc) * RowBytes \in Nat
    BY <1>1, <1>3
<1>6. QED
    BY <1>1, <1>4, <1>5, SMTT(30) DEF Held

LEMMA StepPages == SessionInv /\ PageInv /\ [Next]_vars => [Pages!Next]_(Pages!pageVars)
<1> SUFFICES ASSUME SessionInv, PageInv, [Next]_vars
             PROVE  Pages!Next \/ UNCHANGED Pages!pageVars
    OBVIOUS
<1>0. /\ Flow /\ (Live => Had /\ Asks)
      /\ CallAt /\ PageAt /\ ScanningAt
      /\ png \in Decoder /\ Held(png) \in Nat
    BY DEF PageInv, SessionInv, Whereabouts, DataOK, Sound
<1> USE <1>0 DEF CallAt, StartOnly, ReadOnly, Starting, Goto, Return, Ends
<1> USE DEF handleVars, handle, options, session, thread, jobVars, service, history
(* sane_start()                                                            *)
<1>1. CASE StartCall
    <2>1. /\ pc = "idle" /\ pc' = "start" /\ call' = "start"
        BY <1>1 DEF StartCall
    <2>2. Pages!Start
        BY <2>1 DEF Pages!Start, Pages!NoPage, Pages!NoImage, PageOpen
    <2>3. QED
        BY <2>2 DEF Pages!Next
<1>2. CASE StartTest \/ StartClear \/ StartArm \/ StartBegin \/ StartCreate \/ StartNoJob
    BY <1>2, StartUnseen DEF StartTest, StartClear, StartArm, StartBegin, StartCreate, StartNoJob
<1>3. CASE StartReturn /\ ret = "GOOD"
    <2>1. /\ pc = "return" /\ pc' = "idle" /\ call = "start" /\ scanning
          /\ UNCHANGED <<call, ret, scanning, doc, png>>
        BY <1>3 DEF StartReturn, Flow
    <2>2. doc \in Bodies /\ png.taken = 0
        BY <1>3, <2>1 DEF Live, Had, Asks
    <2>3. Pages!Started
        BY <1>3, <2>1, <2>2 DEF Pages!Started, PageOpen
    <2>4. QED
        BY <2>3 DEF Pages!Next
<1>4. CASE StartReturn /\ ret # "GOOD"
    <2>1. /\ pc = "return" /\ pc' = "teardown" /\ call = "start" /\ call' = "start"
          /\ ret' = ret /\ ret \in Pages!StartFailure
        BY <1>4 DEF StartReturn, Flow, StartStatus, Pages!StartFailure
    <2>2. Pages!NotStarted
        BY <2>1 DEF Pages!NotStarted, PageOpen
    <2>3. QED
        BY <2>2 DEF Pages!Next
(* sane_read()                                                             *)
<1>5. CASE ReadCall /\ scanning
    <2>1. /\ pc = "idle" /\ pc' = "take" /\ call' = "read"
          /\ UNCHANGED <<scanning, doc, png>>
        BY <1>5 DEF ReadCall
    <2>2. Pages!Read
        BY <1>5, <2>1 DEF Pages!Read, PageOpen
    <2>3. QED
        BY <2>2 DEF Pages!Next
<1>6. CASE ReadCall /\ ~scanning
    <2>1. /\ pc = "idle" /\ pc' = "idle" /\ ret' \in {"CANCELLED", "INVAL"}
          /\ UNCHANGED <<scanning, doc, png>>
        BY <1>6 DEF ReadCall
    <2>2. Pages!ReadRefused
        BY <1>6, <2>1 DEF Pages!ReadRefused, PageOpen
    <2>3. QED
        BY <2>2 DEF Pages!Next
<1>7. CASE ReadReturn /\ ret = "GOOD"
    <2>1. /\ pc = "return" /\ pc' = "idle" /\ call = "read" /\ scanning
          /\ UNCHANGED <<call, ret, scanning, doc, png>>
        BY <1>7 DEF ReadReturn, Flow
    <2>2. Pages!Leave
        BY <1>7, <2>1 DEF Pages!Leave, PageOpen
    <2>3. QED
        BY <2>2 DEF Pages!Next
<1>8. CASE ReadReturn /\ ret # "GOOD"
    <2>1. /\ pc = "return" /\ pc' \in Ends /\ call = "read" /\ call' = "read"
          /\ scanning /\ ~scanning' /\ ret' = ret
        BY <1>8 DEF ReadReturn, PageEnded, Flow
    <2>2. \/ ret = "EOF" /\ Whole(doc) /\ png.taken = RowsIn(doc) * RowBytes
          \/ ret \in Pages!ReadFailure
        BY <1>8, <2>1 DEF Flow, ReadStatus, Pages!ReadFailure
    <2>3. Pages!ReadEnds
        BY <1>8, <2>1, <2>2 DEF Pages!ReadEnds, Pages!NoPage, Pages!NoImage, PageOpen
    <2>4. QED
        BY <2>3 DEF Pages!Next
<1>9. CASE ReadFinish
    <2>1. /\ pc = "finish" /\ pc' = "teardown" /\ ~scanning
          /\ UNCHANGED <<call, ret, scanning>>
        BY <1>9 DEF ReadFinish, ScanningAt
    <2>2. UNCHANGED Pages!pageVars
        BY <2>1 DEF Pages!pageVars, PageOpen
    <2>3. QED
        BY <2>2
<1>10. CASE Teardown
    <2>1. /\ pc = "teardown" /\ pc' = "idle" /\ ~scanning
          /\ UNCHANGED <<call, ret, scanning>>
          /\ ret # "none" /\ call # "none"
        BY <1>10 DEF Teardown, ScanningAt, Flow, Status
    <2>2. Pages!Leave
        BY <2>1 DEF Pages!Leave, PageOpen
    <2>3. QED
        BY <2>2 DEF Pages!Next
(* the session                                                             *)
<1>11. CASE (Reset \/ Poll \/ Ask \/ Nap \/ Ready \/ Header) /\ UNCHANGED handleVars
    BY <1>11, StartUnseen
       DEF Reset, Poll, Ask, AskReady, AskWait, AskDone, AskError, Nap, Ready, Header
<1>12. CASE (Feed \/ Recv \/ Decode \/ Rest) /\ UNCHANGED handleVars
    <2>1. /\ pc \in {"feed", "recv", "decode", "rest"} /\ pc' \notin Ends
          /\ UNCHANGED <<call, scanning>>
          /\ pc' = "return" => ret' # "GOOD"
        BY <1>12 DEF Feed, Recv, Decode, Caller, Rest
    <2>2. doc' = doc
        BY <1>12, ReadKeepsJob DEF Feed, Recv, Decode, Rest, RestStops, ReadData, ReadStop, ReadNothing
    <2>3. png'.taken = png.taken
        <3>1. CASE png' = png
            BY <3>1
        <3>2. CASE png' = Decoded(chunk) /\ pc = "decode"
            <4>1. Finish(png).taken = png.taken
                BY DEF Finish, Decoder
            <4>2. ~png.failed /\ ~png.ended
                BY <3>2 DEF Live, WithPage, Had, Asks
            <4>3. QED
                BY <3>2, <4>1, <4>2, WriteFields DEF Decoded
        <3>3. QED
            BY <1>12, <3>1, <3>2 DEF Feed, Recv, Decode, Rest
    <2>4. CASE call = "start"
        BY <2>1, <2>4, StartUnseen
    <2>5. CASE call = "read"
        BY <2>1, <2>2, <2>3, <2>5, ReadUnseen
    <2>6. QED
        BY <2>4, <2>5
<1>13. CASE ScanTake /\ UNCHANGED handleVars
    <2>1. pc = "take" /\ call = "read" /\ scanning /\ png.open
          /\ UNCHANGED <<call, scanning, doc>>
        BY <1>13 DEF ScanTake, PageAt, WithPage, Flow
    <2>2. CASE TakeQueued /\ pc' = "return" /\ ret' = "GOOD"
        <3>1. PICK n \in 1 .. MaxRead : n <= Held(png) /\ png' = Take(png, n)
            BY <2>2 DEF TakeQueued
        <3>2. png'.taken = png.taken + n
            BY <3>1 DEF Take, Decoder
        <3>3. png.taken + n \in png.taken + 1 .. RowsIn(doc) * RowBytes
            BY <2>1, <3>1, Given
        <3>4. Pages!Give
            BY <2>1, <2>2, <3>2, <3>3 DEF Pages!Give, PageOpen
        <3>5. QED
            BY <3>4 DEF Pages!Next
    <2>3. CASE UNCHANGED png /\ pc' \in {"rest", "feed", "return"} /\ ~(pc' = "return" /\ ret' = "GOOD")
        BY <2>1, <2>3, ReadUnseen
    <2>4. QED
        BY <1>13, <2>1, <2>2, <2>3 DEF ScanTake
(* beside the calls                                                        *)
<1>14. CASE SaneClose
    <2>1. /\ pc = "idle" /\ pc' = "idle" /\ ret' = "GOOD" /\ ~scanning'
        BY <1>14 DEF SaneClose
    <2>2. Pages!Close
        BY <2>1 DEF Pages!Close, Pages!NoPage, Pages!NoImage, PageOpen
    <2>3. QED
        BY <2>2 DEF Pages!Next
<1>15. CASE SetSource \/ SaneCancel \/ CancelTest \/ CancelStore \/ UNCHANGED vars
    BY <1>15, Unseen DEF SetSource, SaneCancel, CancelTest, CancelStore, scanVars, vars
<1>16. QED
    BY <1>1, <1>2, <1>3, <1>4, <1>5, <1>6, <1>7, <1>8, <1>9, <1>10, <1>11, <1>12, <1>13,
       <1>14, <1>15
       DEF Next, CallStep, SessionStep

(* GOOD comes with data of the page that was started, EOF only for a page  *)
(* that came whole and was given in full, and after EOF or a failure there *)
(* is nothing to read: for any bodies, cut short and spoilt in any way,    *)
(* any chunks and reads, and any mix of calls, cancels and failures.       *)
THEOREM PagesServed == Spec => PagesAreServed
<1>1. SessionInv /\ PageInv /\ [Next]_vars => [Pages!Next]_(Pages!pageVars)
    BY StepPages
<1>2. QED
    BY <1>1, InitPages, SessionInvariant, PageInvariant, PTL
       DEF Spec, PagesAreServed, Pages!Spec

-----------------------------------------------------------------------------
(* A platen job that has come to its end                                   *)

(* A session has not cancelled its job, and has opened no more pages than  *)
(* images were announced; what its last question came to is what decides   *)
(* whether it will.                                                        *)
AskedInv ==
    /\ docs \in Nat /\ pages \in Nat
    /\ scan => told = "no" /\ pages <= docs
    /\ pc = "ready" => pages < docs
    /\ pc = "teardown" /\ call = "read" /\ ret = "EOF" =>
        scan /\ (Silent \/ heard \in {"wait", "error"} \/ docs > pages)
    /\ pc = "idle" /\ call = "read" /\ ret = "EOF" /\ ~scan /\ told # "no" =>
        heard \in {"wait", "error"} \/ docs > pages

(* The end of a session leaves an end of the job in peace.                 *)
LEMMA EndedInPeace ==
    ASSUME ScanEnd
    PROVE  /\ UNCHANGED <<docs, pages>> /\ ~scan'
           /\ Silent \/ ~scan => told' = told
           /\ heard' = heard
<1>1. CASE scan
    BY <1>1 DEF ScanEnd, ScanFree, JobFree, CancelTold
<1>2. CASE ~scan
    BY <1>2 DEF ScanEnd, session, jobVars, service, history
<1>3. QED
    BY <1>1, <1>2

(* What is known when the service has been asked.                          *)
LEMMA Asked ==
    ASSUME NEW r \in DocResult, NextDocument(r), docs \in Nat
    PROVE  /\ told' = told
           /\ docs' \in Nat /\ docs <= docs'
           /\ r = "ready" => docs < docs'
           /\ r = "done" => Silent'
           /\ r \in {"wait", "error"} => heard' = r
<1>1. CASE \E b \in Bodies, k \in BOOLEAN : DocReady(b, k) /\ r = "ready"
    BY <1>1 DEF DocReady
<1>2. CASE DocWait /\ r = "wait"
    BY <1>2 DEF DocWait, DocEmpty
<1>3. CASE DocNone /\ r = "done"
    BY <1>3 DEF DocNone, Silent, jobVars, jobFields, service, history
<1>4. CASE DocDone /\ r = "done"
    BY <1>4 DEF DocDone, DocEmpty, Silent
<1>5. CASE DocError /\ r = "error"
    BY <1>5 DEF DocError, DocEmpty
<1>6. QED
    BY <1>1, <1>2, <1>3, <1>4, <1>5 DEF NextDocument

LEMMA StepAsked == SessionInv /\ PageInv /\ AskedInv /\ [Next]_vars => AskedInv'
<1> SUFFICES ASSUME SessionInv, PageInv, AskedInv, [Next]_vars
             PROVE  AskedInv'
    OBVIOUS
<1>0. CallAt /\ SessionAt /\ PageAt
    BY DEF SessionInv, Whereabouts
<1> USE <1>0 DEF AskedInv, Goto, Return, CallAt, StartOnly,
                 ReadOnly, Starting, InSession, SessionAt
<1> USE DEF handleVars, handle, options, session, thread, jobVars, jobFields, service, history
(* sane_start()                                                            *)
<1>1. CASE StartCall \/ StartClear \/ StartArm \/ StartNoJob \/ StartReturn
    BY <1>1 DEF StartCall, StartClear, StartArm, StartNoJob, StartReturn
<1>2. CASE StartTest \/ StartBegin
    BY <1>2, EndedInPeace DEF StartTest, StartBegin, ScanEnd
<1>3. CASE StartCreate
    BY <1>3 DEF StartCreate, ScanNew, JobCreated, JobRefused
(* sane_read()                                                             *)
<1>4. CASE ReadCall
    BY <1>4 DEF ReadCall
<1>5. CASE ReadReturn
    BY <1>5 DEF ReadReturn, PageEnded, PageAt
<1>6. CASE ReadFinish
    <2>1. PICK r \in DocResult : NextDocument(r)
        BY <1>6 DEF ReadFinish, ScanFinish
    <2>2. /\ pc = "finish" /\ pc' = "teardown" /\ scan /\ scan'
          /\ UNCHANGED <<pages, call, ret>>
        BY <1>6 DEF ReadFinish, ScanFinish
    <2>3. QED
        BY <2>1, <2>2, Asked DEF DocResult
<1>7. CASE Teardown
    <2>1. /\ pc = "teardown" /\ pc' = "idle" /\ UNCHANGED <<call, ret>>
        BY <1>7 DEF Teardown
    <2>2. /\ UNCHANGED <<docs, pages>> /\ ~scan' /\ heard' = heard
          /\ Silent /\ scan => told' = "no"
        BY <1>7, EndedInPeace DEF Teardown
    <2>3. QED
        BY <2>1, <2>2
(* the session                                                             *)
<1>8. CASE (Reset \/ Poll \/ Nap \/ Ready \/ Header \/ Feed) /\ UNCHANGED handleVars
    BY <1>8 DEF Reset, Poll, Nap, Ready, Header, Feed
<1>9. CASE Ask /\ UNCHANGED handleVars
    <2>1. PICK r \in DocResult : NextDocument(r) /\ (r = "ready" <=> pc' = "ready")
        BY <1>9 DEF Ask, AskReady, AskWait, AskDone, AskError, DocResult
    <2>2. /\ pc = "ask" /\ pc' \in {"ready", "nap", "return"} /\ call = "start"
          /\ UNCHANGED <<pages, call, scan>>
        BY <1>9 DEF Ask, AskReady, AskWait, AskDone, AskError
    <2>3. scan
        BY <2>2
    <2>4. QED
        BY <2>1, <2>2, <2>3, Asked
<1>10. CASE (Recv \/ Rest) /\ UNCHANGED handleVars
    BY <1>10 DEF Recv, Rest, RestStops, ReadData, ReadStop, ReadNothing
<1>11. CASE (Decode \/ ScanTake) /\ UNCHANGED handleVars
    BY <1>11 DEF Decode, ScanTake, Caller
(* beside the calls                                                        *)
<1>12. CASE SaneClose
    BY <1>12, EndedInPeace DEF SaneClose, ScanEnd
<1>13. CASE SetSource \/ SaneCancel \/ CancelTest \/ CancelStore
    BY <1>13 DEF SetSource, SaneCancel, CancelTest, CancelStore, scanVars, Silent
<1>14. CASE UNCHANGED vars
    BY <1>14 DEF vars, scanVars, Silent
<1>15. QED
    BY <1>1, <1>2, <1>3, <1>4, <1>5, <1>6, <1>7, <1>8, <1>9, <1>10, <1>11, <1>12, <1>13, <1>14
       DEF Next, CallStep, SessionStep

LEMMA AskedInvariant == Spec => []AskedInv
<1>1. Init => AskedInv
    BY DEF Init, JobInit, AskedInv
<1>2. QED
    BY <1>1, StepAsked, SessionInvariant, PageInvariant, PTL DEF Spec

(* Where the end of the data was seen, the body is closed, until the       *)
(* service is asked for another one; and with it every page that was       *)
(* handed over.                                                            *)
FreeInv ==
    /\ scan /\ netEof /\ pc # "teardown" => ~reading
    /\ pc = "decode" /\ chunk = <<>> => ~reading
    /\ call = "read" /\ ret = "EOF" /\ (pc \in {"return", "finish"} \/ (pc = "idle" /\ scan)) =>
        ~reading

LEMMA StepFree == SessionInv /\ PageInv /\ FreeInv /\ [Next]_vars => FreeInv'
<1> SUFFICES ASSUME SessionInv, PageInv, FreeInv, [Next]_vars
             PROVE  FreeInv'
    OBVIOUS
<1>0. /\ CallAt /\ SessionAt /\ PageAt
      /\ pc \in {"poll", "ask", "nap", "ready"} => ~netEof
    BY DEF SessionInv, Whereabouts, PageInv, Flow
<1> USE <1>0 DEF FreeInv, Goto, Return, CallAt, StartOnly, ReadOnly, Starting, InSession,
                 SessionAt
<1> USE DEF handleVars, handle, options, session, thread, jobVars, jobFields, service, history
(* sane_start()                                                            *)
<1>1. CASE StartCall \/ StartClear \/ StartArm \/ StartNoJob \/ StartReturn
    BY <1>1 DEF StartCall, StartClear, StartArm, StartNoJob, StartReturn
<1>2. CASE StartTest \/ StartBegin
    BY <1>2 DEF StartTest, StartBegin, ScanEnd
<1>3. CASE StartCreate
    BY <1>3 DEF StartCreate, ScanNew, JobCreated, JobRefused
(* sane_read()                                                             *)
<1>4. CASE ReadCall
    BY <1>4 DEF ReadCall
<1>5. CASE ReadReturn
    BY <1>5 DEF ReadReturn, PageEnded
<1>6. CASE ReadFinish
    BY <1>6 DEF ReadFinish, ScanFinish
<1>7. CASE Teardown
    BY <1>7 DEF Teardown, ScanEnd
(* the session                                                             *)
<1>8. CASE (Reset \/ Poll \/ Nap \/ Ready \/ Header \/ Feed) /\ UNCHANGED handleVars
    BY <1>8 DEF Reset, Poll, Nap, Ready, Header, Feed
<1>9. CASE Ask /\ UNCHANGED handleVars
    <2>1. /\ ~netEof /\ call = "start" /\ UNCHANGED <<netEof, call, scan, chunk>>
          /\ pc' \in {"ready", "nap", "return"}
        BY <1>9 DEF Ask, AskReady, AskWait, AskDone, AskError
    <2>2. QED
        BY <2>1
<1>10. CASE (Recv \/ Rest) /\ UNCHANGED handleVars
    BY <1>10 DEF Recv, Rest, RestStops, ReadData, ReadStop, ReadNothing
<1>11. CASE (Decode \/ ScanTake) /\ UNCHANGED handleVars
    <2>1. CASE Decode
        <3>1. /\ pc = "decode" /\ pc' \in {"return", "header", "take"}
              /\ pc' = "return" => ret' # "EOF"
              /\ UNCHANGED <<scan, reading, call>>
            BY <1>11, <2>1 DEF Decode, Caller
        <3>2. netEof' => netEof \/ chunk = <<>>
            BY <2>1 DEF Decode
        <3>3. QED
            BY <3>1, <3>2
    <2>2. CASE ScanTake
        BY <1>11, <2>2 DEF ScanTake, PageAt, WithPage
    <2>3. QED
        BY <1>11, <2>1, <2>2
(* beside the calls                                                        *)
<1>12. CASE SaneClose
    BY <1>12 DEF SaneClose, ScanEnd
<1>13. CASE SetSource \/ SaneCancel \/ CancelTest \/ CancelStore
    BY <1>13 DEF SetSource, SaneCancel, CancelTest, CancelStore, scanVars
<1>14. CASE UNCHANGED vars
    BY <1>14 DEF vars, scanVars
<1>15. QED
    BY <1>1, <1>2, <1>3, <1>4, <1>5, <1>6, <1>7, <1>8, <1>9, <1>10, <1>11, <1>12, <1>13, <1>14
       DEF Next, CallStep, SessionStep

(* ipp-scan.c, 433-437 and 196-199: a platen job that the service said was *)
(* over is not cancelled, whatever else the service may answer, and        *)
(* whenever; and no page that was handed over leaves anything of its image *)
(* on the connection that the next request goes out on.                    *)
THEOREM FinishedJobsAreLeft == Spec => []FinishedJobNotCancelled
<1>1. Init => FreeInv
    BY DEF Init, JobInit, FreeInv
<1>2. SessionInv /\ AskedInv /\ FreeInv => FinishedJobNotCancelled
    BY DEF SessionInv, JobInv, JobTypeOK, AskedInv, FreeInv, FinishedJobNotCancelled
<1>3. QED
    BY <1>1, <1>2, StepFree, AskedInvariant, SessionInvariant, PageInvariant, PTL DEF Spec

-----------------------------------------------------------------------------
(* Types                                                                   *)

Flags ==
    /\ multi \in BOOLEAN /\ netEof \in BOOLEAN /\ cancel \in BOOLEAN
    /\ scan \in BOOLEAN /\ hMulti \in BOOLEAN /\ page \in BOOLEAN
    /\ scanning \in BOOLEAN /\ feeder \in BOOLEAN /\ offered \in BOOLEAN
    /\ late \in BOOLEAN /\ wanted \in BOOLEAN

LEMMA ScanEndFlags ==
    ASSUME Flags, ScanEnd
    PROVE  /\ scan' \in BOOLEAN /\ page' \in BOOLEAN
           /\ multi' \in BOOLEAN /\ netEof' \in BOOLEAN
<1>1. multi' = multi /\ netEof' = netEof
    BY DEF ScanEnd, ScanFree, session
<1>2. QED
    BY <1>1 DEF ScanEnd, Flags

LEMMA StepFlags == Flags /\ [Next]_vars => Flags'
<1> SUFFICES ASSUME Flags, [Next]_vars
             PROVE  Flags'
    OBVIOUS
<1> USE DEF Flags
<1> USE DEF handleVars, handle, options, session, thread
(* sane_start()                                                            *)
<1>1. CASE StartCall
    BY <1>1, ZenonT(60) DEF StartCall
<1>2. CASE StartClear \/ StartArm
    BY <1>2, ZenonT(60) DEF StartClear, StartArm
<1>3. CASE StartNoJob
    BY <1>3, ZenonT(60) DEF StartNoJob
<1>4. CASE StartReturn
    BY <1>4, ZenonT(60) DEF StartReturn
<1>5. CASE StartTest \/ StartBegin
    BY <1>5, ScanEndFlags, ZenonT(60) DEF StartTest, StartBegin
<1>6. CASE StartCreate
    BY <1>6, ZenonT(60) DEF StartCreate, ScanNew
(* sane_read()                                                             *)
<1>7. CASE ReadCall \/ ReadFinish
    <2>1. CASE ReadCall
        BY <2>1, ZenonT(60) DEF ReadCall
    <2>2. CASE ReadFinish
        BY <2>2, ZenonT(60) DEF ReadFinish, ScanFinish
    <2>3. QED
        BY <1>7, <2>1, <2>2
<1>8. CASE ReadReturn
    BY <1>8, ZenonT(60) DEF ReadReturn
<1>9. CASE Teardown \/ SaneClose
    BY <1>9, ScanEndFlags DEF Teardown, SaneClose
(* the session                                                             *)
<1>10. CASE (Reset \/ Poll \/ Nap) /\ UNCHANGED handleVars
    BY <1>10, ZenonT(60) DEF Reset, Poll, Nap
<1>11. CASE (Ask \/ Header) /\ UNCHANGED handleVars
    BY <1>11, ZenonT(60) DEF Ask, Header
<1>12. CASE (Feed \/ Recv) /\ UNCHANGED handleVars
    BY <1>12, ZenonT(60) DEF Feed, Recv
<1>13. CASE (Ready \/ ScanTake) /\ UNCHANGED handleVars
    BY <1>13, ZenonT(60) DEF Ready, ScanTake
<1>14. CASE Decode /\ UNCHANGED handleVars
    <2>1. netEof' = netEof \/ netEof' = (netEof \/ chunk = <<>>)
        BY <1>14 DEF Decode
    <2>2. netEof' \in BOOLEAN
        BY <2>1, Zenon
    <2>3. QED
        BY <1>14, <2>2 DEF Decode
<1>15. CASE Rest /\ UNCHANGED handleVars
    BY <1>15, ZenonT(60) DEF Rest, RestStops
(* beside the calls                                                        *)
<1>16. CASE SetSource
    BY <1>16, ZenonT(60) DEF SetSource, scanVars
<1>17. CASE SaneCancel \/ CancelTest \/ CancelStore
    BY <1>17, ZenonT(60) DEF SaneCancel, CancelTest, CancelStore, scanVars
<1>18. CASE UNCHANGED vars
    BY <1>18 DEF vars, scanVars
<1>19. QED
    BY <1>1, <1>2, <1>3, <1>4, <1>5, <1>6, <1>7, <1>8, <1>9, <1>10, <1>11, <1>12, <1>13,
       <1>14, <1>15, <1>16, <1>17, <1>18
       DEF Next, CallStep, SessionStep

LEMMA StepNaps == naps \in Nat /\ [Next]_vars => (naps \in Nat)'
<1> SUFFICES ASSUME naps \in Nat, [Next]_vars, naps' # naps
             PROVE  naps' \in Nat
    OBVIOUS
<1>1. Ask \/ Nap
    BY DEF Next, CallStep, SessionStep, StartTest, StartClear, StartArm, StartBegin, StartCreate,
           StartNoJob, StartReturn, ReadReturn, ReadFinish, Teardown, Reset, Poll, Ready, Header,
           Feed, Recv, Decode, ScanTake, Rest, StartCall, ReadCall, SaneClose, SetSource,
           SaneCancel, CancelTest, CancelStore, vars, scanVars, thread
<1>2. QED
    BY <1>1, ScanAssumption DEF Ask, AskReady, AskWait, AskDone, AskError, Nap

(* Every field of the handle, the session and the job has its type, and    *)
(* queue_len - queue_pos (ipp-png.c, 103) is never negative.               *)
THEOREM BackendTypeCorrect == Spec => []TypeOK
<1>1. Init => Flags
    BY Zenon DEF Init, Flags
<1>2. SessionInv /\ PageInv /\ AskedInv /\ Flags /\ naps \in Nat => TypeOK
    BY DEF SessionInv, JobInv, DataOK, Sound, Whereabouts, CallAt, Places, StartOnly,
           ReadOnly, Starting, PageInv, Flow, AskedInv, Flags, TypeOK
<1>3. Init => naps \in Nat
    BY DEF Init
<1>4. QED
    BY <1>1, <1>2, <1>3, StepFlags, StepNaps, AskedInvariant, SessionInvariant,
       PageInvariant, PTL DEF Spec
=============================================================================
