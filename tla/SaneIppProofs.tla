---------------------------- MODULE SaneIppProofs ----------------------------
(***************************************************************************)
(* Theorems about the scan job, for any client that holds one at a time,   *)
(* and about the scanning calls of the backend, which is such a client:    *)
(* any bodies, any number of images, reads of any length, waits of any     *)
(* length, a cancel between any two steps, from a signal handler or from   *)
(* another thread, and a frontend that makes its calls in any order.       *)
(***************************************************************************)
EXTENDS SaneIpp, SequenceTheorems, FiniteSetTheorems, TLAPS

-----------------------------------------------------------------------------
(* A scan job, for any client that holds one job at a time                 *)

(* What a read leaves on the wire is a sequence of events again.           *)
LEMMA RestOfWire ==
    ASSUME NEW w \in Seq(Event), NEW n \in 1 .. Len(w)
    PROVE  /\ SubSeq(w, n + 1, Len(w)) \in Seq(Event)
           /\ SubSeq(w, 1, n) \in Seq(Event)
           /\ Len(SubSeq(w, 1, n)) = n
BY SubSeqProperties

(* What the job remembers of its end: an end that was heard of, or a try   *)
(* to cancel, leaves it finished.                                          *)
JobInv ==
    /\ JobTypeOK
    /\ ~clash
    /\ stray = 0
    /\ heard = "done" => told = "no"
    /\ svc # "none" => /\ told # "no" => finished
                       /\ heard = "done" => finished
                       /\ finished => svc = "over" \/ told # "no"

LEMMA JobInitFlags == JobInit => JobFlags
BY Zenon DEF JobInit, JobFlags

(* Every step leaves flags that are flags.                                 *)
LEMMA JobStepFlags == JobFlags /\ [JobNext]_jobVars => JobFlags'
<1> SUFFICES ASSUME JobFlags, [JobNext]_jobVars
             PROVE  JobFlags'
    OBVIOUS
<1> USE DEF JobFlags
<1>1. CASE JobCreated
    BY <1>1, Zenon DEF JobCreated
<1>2. ASSUME NEW b \in Bodies, NEW k \in BOOLEAN, DocReady(b, k)
      PROVE  JobFlags'
    BY <1>2, Zenon DEF DocReady, Asking, Send
<1>3. ASSUME NEW a, DocEmpty(a), finished' \in BOOLEAN
      PROVE  JobFlags'
    BY <1>3, Zenon DEF DocEmpty, Asking, Send
<1>4. CASE DocWait \/ DocDone \/ DocError
    BY <1>3, <1>4, Zenon DEF DocWait, DocDone, DocError
<1>5. ASSUME NEW c, ReadData(c)
      PROVE  JobFlags'
    BY <1>5, Zenon DEF ReadData, jobFields, history
<1>6. CASE ReadStop
    BY <1>6, Zenon DEF ReadStop, history
<1>7. ASSUME NEW l \in Luck, CancelSent(l)
      PROVE  clash' \in BOOLEAN
    BY <1>7, Zenon DEF CancelSent, Send
<1>8. ASSUME NEW l \in Luck, JobCancel(l)
      PROVE  JobFlags'
    BY <1>7, <1>8, Zenon DEF JobCancel
<1>9. ASSUME NEW l \in Luck, JobFree(l)
      PROVE  JobFlags'
    BY <1>7, <1>9, Zenon DEF JobFree
<1>10. CASE UNCHANGED jobVars
    BY <1>10, Zenon DEF jobVars, jobFields, history
<1>11. QED
    BY <1>1, <1>2, <1>4, <1>5, <1>6, <1>8, <1>9, <1>10
       DEF JobNext, NextDocument, DocNone, ReadNothing

LEMMA JobInitInv == JobInit => JobInv
<1>1. JobInit => JobFlags
    BY JobInitFlags
<1>2. QED
    BY <1>1, JobAssumption DEF JobInit, JobInv, JobTypeOK

LEMMA JobStepInv == JobInv /\ [JobNext]_jobVars => JobInv'
<1> SUFFICES ASSUME JobInv, [JobNext]_jobVars
             PROVE  JobInv'
    OBVIOUS
<1>0. JobFlags'
    BY JobStepFlags DEF JobInv, JobTypeOK
<1> USE <1>0, JobAssumption DEF JobInv, JobTypeOK, JobFlags
<1>1. CASE svc = "none" /\ JobCreated
    BY <1>1 DEF JobCreated
<1>2. ASSUME NEW r \in DocResult, NextDocument(r)
      PROVE  JobInv'
    <2> USE DEF Asking, Send, Silent, Drained
    <2>1. ASSUME NEW b \in Bodies, NEW k \in BOOLEAN, DocReady(b, k)
          PROVE  JobInv'
        BY <2>1 DEF DocReady
    <2>2. CASE DocWait
        BY <2>2 DEF DocWait, DocEmpty
    <2>3. CASE DocNone
        BY <2>3 DEF DocNone, jobVars, jobFields, service, history
    <2>4. CASE DocDone
        BY <2>4 DEF DocDone, DocEmpty
    <2>5. CASE DocError
        BY <2>5 DEF DocError, DocEmpty
    <2>6. QED
        BY <1>2, <2>1, <2>2, <2>3, <2>4, <2>5 DEF NextDocument
<1>3. ASSUME NEW c \in Chunks, ReadData(c)
      PROVE  JobInv'
    <2>1. PICK n \in 1 .. Len(wire) : c = SubSeq(wire, 1, n)
        BY <1>3 DEF Chunks
    <2>2. Len(c) = n /\ SubSeq(wire, n + 1, Len(wire)) \in Seq(Event)
        BY <2>1, RestOfWire
    <2>3. wire' \in Seq(Event) /\ reading
        BY <1>3, <2>2 DEF ReadData
    <2>4. QED
        BY <1>3, <2>3 DEF ReadData, jobFields, history
<1>4. CASE ReadStop
    BY <1>4 DEF ReadStop, history
<1>5. CASE ReadNothing
    BY <1>5 DEF ReadNothing, jobVars, jobFields, service, history
<1>6. ASSUME NEW l \in Luck, JobCancel(l)
      PROVE  JobInv'
    BY <1>6 DEF JobCancel, CancelSent, CancelTold, CancelSvc, LeftForCancel,
                Silent, Send, Luck
<1>7. ASSUME NEW l \in Luck, JobFree(l)
      PROVE  JobInv'
    BY <1>7 DEF JobFree, CancelSent, CancelTold, CancelSvc, LeftForCancel,
                Silent, Send, Luck
<1>8. CASE UNCHANGED jobVars
    BY <1>8 DEF jobVars, jobFields, service, history
<1>9. QED
    BY <1>1, <1>2, <1>3, <1>4, <1>5, <1>6, <1>7, <1>8 DEF JobNext

THEOREM JobInvariant == JobSpec => []JobInv
BY JobInitInv, JobStepInv, PTL DEF JobSpec

(* The job is well typed, and a call that closes a body leaves nothing of  *)
(* it on the connection.                                                   *)
THEOREM JobTypeCorrect == JobSpec => []JobTypeOK
<1>1. JobInv => JobTypeOK
    BY DEF JobInv
<1>2. QED
    BY <1>1, JobInvariant, PTL

(* No request is ever sent on a connection that still has a body on it     *)
(* (ipp-proto.c, 749-752).                                                 *)
THEOREM ExchangesDoNotOverlap == JobSpec => []OneExchangeAtATime
<1>1. JobInv => OneExchangeAtATime
    BY DEF JobInv, OneExchangeAtATime
<1>2. QED
    BY <1>1, JobInvariant, PTL

(* A job is let go of only when it is over, or after a try to cancel it    *)
(* (ipp_job_free(), ipp-proto.c 1188-1204).                                *)
THEOREM JobsAreNotForgotten == JobSpec => []NothingLeftRunning
<1>1. JobInv => NothingLeftRunning
    BY DEF JobInv, NothingLeftRunning
<1>2. QED
    BY <1>1, JobInvariant, PTL

(* Cancel-Job is not sent for a job the service has said is over.          *)
THEOREM EndedJobsAreNotCancelled == JobSpec => []NoCancelAfterTheEnd
<1>1. JobInv => NoCancelAfterTheEnd
    BY DEF JobInv, NoCancelAfterTheEnd
<1>2. QED
    BY <1>1, JobInvariant, PTL

-----------------------------------------------------------------------------
(* The decoder                                                             *)

LEMMA RowsInType ==
    ASSUME NEW c \in Seq(Event)
    PROVE  RowsIn(c) \in Nat
<1> DEFINE R == {i \in Reached(c) : c[i] = "row"}
<1>1. Len(c) \in Nat /\ DOMAIN c = 1 .. Len(c)
    OBVIOUS
<1>2. R \in SUBSET (1 .. Len(c))
    BY <1>1 DEF Reached
<1>3. IsFiniteSet(1 .. Len(c))
    BY <1>1, FS_Interval
<1>4. IsFiniteSet(R)
    BY <1>2, <1>3, FS_Subset
<1>5. Cardinality(R) \in Nat
    BY <1>4, FS_CardinalityType
<1>6. QED
    BY <1>5 DEF RowsIn

(* A decoder that holds what it has decoded and not handed out.            *)
Sound(p) == p \in Decoder /\ Held(p) \in Nat

LEMMA MoreRows ==
    ASSUME NEW a \in Nat, NEW b \in Nat, NEW t \in Nat, a * RowBytes - t \in Nat
    PROVE  (a + b) * RowBytes - t \in Nat
<1>1. (a + b) * RowBytes = a * RowBytes + b * RowBytes
    BY RowBytesAssumption
<1>2. a * RowBytes \in Nat /\ b * RowBytes \in Nat
    BY RowBytesAssumption
<1>3. QED
    BY <1>1, <1>2

LEMMA FreshSound == Sound(FreshPng) /\ Sound(NoPng) /\ FreshPng.open
<1>1. FreshPng \in Decoder /\ NoPng \in Decoder
    BY DEF FreshPng, NoPng, Decoder
<1>2. Held(FreshPng) = 0 /\ Held(NoPng) = 0
    BY RowBytesAssumption DEF FreshPng, NoPng, Held
<1>3. QED
    BY <1>1, <1>2 DEF Sound, FreshPng

(* A decoder whose flags and rows are set is a decoder.                    *)
LEMMA DecoderSet ==
    ASSUME NEW p \in Decoder, NEW a \in BOOLEAN, NEW n \in Nat,
           NEW e \in BOOLEAN, NEW f \in BOOLEAN
    PROVE  [p EXCEPT !.params = a, !.rows = n, !.ended = e, !.failed = f] \in Decoder
BY DEF Decoder

(* ipp_png_write() on a sound decoder.                                     *)
LEMMA WriteSound ==
    ASSUME NEW p, Sound(p), NEW c \in Seq(Event)
    PROVE  /\ Sound(Write(p, c))
           /\ Write(p, c).open = p.open
           /\ p.params => Write(p, c).params
<1>1. RowsIn(c) \in Nat
    BY RowsInType
<1>2. Has(c, "info") \in BOOLEAN /\ Has(c, "end") \in BOOLEAN /\ Has(c, "error") \in BOOLEAN
    BY Zenon DEF Has
<1>3. (p.params \/ Has(c, "info")) \in BOOLEAN
    BY Zenon
<1>4. CASE p.failed \/ p.ended
    BY <1>4 DEF Write
<1>5. CASE ~(p.failed \/ p.ended)
    <2> DEFINE q == Write(p, c)
    <2>1. q = [p EXCEPT !.params = @ \/ Has(c, "info"), !.rows = @ + RowsIn(c),
                        !.ended = Has(c, "end"), !.failed = Has(c, "error")]
        BY <1>5 DEF Write
    <2>2. q \in Decoder
        <3>1. p \in Decoder /\ p.rows + RowsIn(c) \in Nat
            BY <1>1 DEF Sound, Decoder
        <3>2. [p EXCEPT !.params = p.params \/ Has(c, "info"),
                        !.rows = p.rows + RowsIn(c),
                        !.ended = Has(c, "end"),
                        !.failed = Has(c, "error")] \in Decoder
            BY ONLY <1>2, <1>3, <3>1, DecoderSet, Zenon
        <3>3. QED
            BY <2>1, <3>2, Zenon
    <2>3. q.rows = p.rows + RowsIn(c) /\ q.taken = p.taken /\ q.open = p.open
        BY <2>1 DEF Sound, Decoder
    <2>4. p.params => q.params
        BY <2>1 DEF Sound, Decoder
    <2>5. p.rows \in Nat /\ p.taken \in Nat /\ p.rows * RowBytes - p.taken \in Nat
        BY DEF Sound, Decoder, Held
    <2>6. (p.rows + RowsIn(c)) * RowBytes - p.taken \in Nat
        BY <1>1, <2>5, MoreRows
    <2>7. Held(q) \in Nat
        BY <2>3, <2>6 DEF Held
    <2> HIDE DEF q
    <2>8. QED
        BY <2>2, <2>3, <2>4, <2>7 DEF Sound, q
<1>6. QED
    BY <1>4, <1>5

(* ipp_png_finish() on a sound decoder.                                    *)
LEMMA FinishSound ==
    ASSUME NEW p, Sound(p)
    PROVE  Sound(Finish(p)) /\ Finish(p).open = p.open /\ Finish(p).params = p.params
<1>1. (p.failed \/ ~p.ended) \in BOOLEAN
    BY Zenon
<1>2. Finish(p) \in Decoder
    BY <1>1 DEF Finish, Sound, Decoder
<1>3. Finish(p).rows = p.rows /\ Finish(p).taken = p.taken
      /\ Finish(p).open = p.open /\ Finish(p).params = p.params
    BY DEF Finish, Sound, Decoder
<1>4. QED
    BY <1>2, <1>3 DEF Sound, Held

(* ipp_png_read() on a sound decoder.                                      *)
LEMMA TakeSound ==
    ASSUME NEW p, Sound(p), NEW n \in Nat, n <= Held(p)
    PROVE  Sound(Take(p, n)) /\ Take(p, n).open = p.open /\ Take(p, n).params = p.params
<1>1. Take(p, n) \in Decoder
    BY DEF Take, Sound, Decoder
<1>2. Take(p, n).rows = p.rows /\ Take(p, n).taken = p.taken + n
      /\ Take(p, n).open = p.open /\ Take(p, n).params = p.params
    BY DEF Take, Sound, Decoder
<1>3. p.taken \in Nat /\ p.rows * RowBytes \in Nat
    BY RowBytesAssumption DEF Sound, Decoder
<1>4. Held(Take(p, n)) = Held(p) - n
    BY <1>2, <1>3 DEF Held
<1>5. QED
    BY <1>1, <1>2, <1>4 DEF Sound

-----------------------------------------------------------------------------
(* What the thread may find at each point of a call                        *)

(* Points of sane_start() after it has let go of the page before.          *)
Starting == {"create", "nojob", "reset", "poll", "ask", "nap", "ready", "header"}

StartOnly == {"start", "clear", "arm", "begin"} \cup Starting
ReadOnly  == {"take", "rest", "finish"}
WithPage  == {"header", "feed", "recv", "decode", "take", "rest"}
Places    == StartOnly \cup ReadOnly \cup {"idle", "feed", "recv", "decode", "return", "teardown"}

(* Which call is at which point.                                           *)
CallAt ==
    /\ pc \in Places /\ call \in {"start", "read"}
    /\ pc \in StartOnly => call = "start"
    /\ pc \in ReadOnly => call = "read"

(* The session and the job of it.                                          *)
SessionAt ==
    /\ scan <=> svc # "none"
    /\ pc \in InSession => scan
    /\ pc \in {"create", "nojob"} => ~scan

(* The page: "page" is only set on a session with its header decoded, and  *)
(* a call that starts a page has none.                                     *)
PageAt ==
    /\ page /\ pc # "teardown" => scan /\ png.open /\ png.params
    /\ pc \in WithPage => png.open
    /\ call = "start" /\ pc \in {"feed", "recv", "decode", "return"} \cup Starting => ~page
    /\ call = "read" /\ pc \notin {"idle", "teardown"} => page
    /\ pc = "return" /\ call = "start" /\ ret = "GOOD" => scan /\ png.open /\ png.params

(* "scanning" between the calls means that there is a page.                *)
ScanningAt ==
    /\ pc = "idle" /\ scanning => page
    /\ pc \in {"finish", "teardown"} => ~scanning

Whereabouts == CallAt /\ SessionAt /\ PageAt /\ ScanningAt

(* What the session needs of its decoder and of its data.                  *)
DataOK == Sound(png) /\ chunk \in Seq(Event)

SessionInv == JobInv /\ DataOK /\ Whereabouts

-----------------------------------------------------------------------------
(* What the calls of IppJob and IppScan do to the session                  *)

(* A service that is asked has a job, before and after.                    *)
LEMMA DocumentKeepsJob ==
    ASSUME NEW r \in DocResult, NextDocument(r)
    PROVE  svc # "none" /\ svc' # "none" /\ JobNext
<1>1. JobNext
    BY DEF JobNext
<1>2. CASE \E b \in Bodies, k \in BOOLEAN : DocReady(b, k)
    BY <1>1, <1>2 DEF DocReady, Asking
<1>3. CASE DocWait
    BY <1>1, <1>3 DEF DocWait, DocEmpty, Asking
<1>4. CASE DocNone
    BY <1>1, <1>4 DEF DocNone, jobVars, service
<1>5. CASE DocDone
    BY <1>1, <1>5 DEF DocDone, DocEmpty, Asking
<1>6. CASE DocError
    BY <1>1, <1>6 DEF DocError, DocEmpty, Asking
<1>7. QED
    BY <1>2, <1>3, <1>4, <1>5, <1>6 DEF NextDocument

(* ipp_sane_scan_end() leaves neither a session nor a job.                 *)
LEMMA ScanEndStep ==
    ASSUME SessionInv, ScanEnd
    PROVE  /\ ~scan' /\ ~page' /\ svc' = "none"
           /\ Sound(png')
           /\ [JobNext]_jobVars
<1>1. CASE scan
    <2>1. PICK l \in Luck : ScanFree(l)
        BY <1>1 DEF ScanEnd
    <2>2. JobFree(l) /\ png' = NoPng
        BY <2>1 DEF ScanFree
    <2>3. svc' = "none" /\ JobNext
        BY <2>2 DEF JobFree, JobNext
    <2>4. QED
        BY <2>2, <2>3, FreshSound DEF ScanEnd
<1>2. CASE ~scan
    BY <1>2 DEF ScanEnd, SessionInv, Whereabouts, SessionAt, DataOK, session,
                jobVars, service
<1>3. QED
    BY <1>1, <1>2

(* ipp_scan_read() and ipp_scan_page_end(): what comes from the connection *)
LEMMA ReadKeepsJob ==
    ASSUME (\E c \in Chunks : ReadData(c)) \/ ReadStop \/ ReadNothing
    PROVE  svc' = svc /\ JobNext
BY DEF ReadData, ReadStop, ReadNothing, JobNext, jobVars, service

(* What comes from the wire is a sequence of events.                       *)
LEMMA ChunkType ==
    ASSUME SessionInv, NEW c \in Chunks
    PROVE  c \in Seq(Event)
<1>1. wire \in Seq(Event)
    BY DEF SessionInv, JobInv, JobTypeOK
<1>2. PICK n \in 1 .. Len(wire) : c = SubSeq(wire, 1, n)
    BY DEF Chunks
<1>3. QED
    BY <1>1, <1>2, RestOfWire

-----------------------------------------------------------------------------
(* The backend is a client of IppJob                                       *)

LEMMA InitIsJobInit == Init => JobInit
BY DEF Init

(* Every step of the backend is a call that IppJob allows, or none.        *)
LEMMA StepIsJobStep == SessionInv /\ [Next]_vars => [JobNext]_jobVars
<1> SUFFICES ASSUME SessionInv, [Next]_vars
             PROVE  [JobNext]_jobVars
    OBVIOUS
<1>1. CASE StartTest \/ StartBegin \/ Teardown \/ SaneClose
    BY <1>1, ScanEndStep DEF StartTest, StartBegin, Teardown, SaneClose
<1>2. CASE StartCreate
    <2>1. svc = "none"
        BY <1>2 DEF StartCreate, SessionInv, Whereabouts, SessionAt
    <2>2. QED
        BY <1>2, <2>1 DEF StartCreate, ScanNew, JobRefused, JobNext
<1>3. CASE ReadFinish
    BY <1>3, DocumentKeepsJob DEF ReadFinish, ScanFinish
<1>4. CASE Ask
    BY <1>4, DocumentKeepsJob
       DEF Ask, AskReady, AskWait, AskDone, AskError, DocResult
<1>5. CASE Recv
    BY <1>5, ReadKeepsJob DEF Recv
<1>6. CASE Rest
    BY <1>6, ReadKeepsJob DEF Rest, RestStops
<1>7. CASE UNCHANGED jobVars
    BY <1>7
<1>8. CASE Reset \/ Poll \/ Nap \/ Ready \/ Header \/ Feed \/ Decode \/ ScanTake
    BY <1>7, <1>8 DEF Reset, Poll, Nap, Ready, Header, Feed, Decode, ScanTake
<1>9. CASE StartClear \/ StartArm \/ StartNoJob \/ StartReturn \/ ReadReturn
    BY <1>7, <1>9 DEF StartClear, StartArm, StartNoJob, StartReturn, ReadReturn
<1>10. CASE StartCall \/ ReadCall \/ SetSource \/ SaneCancel \/ CancelTest \/ CancelStore
    BY <1>7, <1>10 DEF StartCall, ReadCall, SetSource, SaneCancel, CancelTest, CancelStore,
                       scanVars
<1>11. CASE UNCHANGED vars
    BY <1>7, <1>11 DEF vars
<1>12. QED
    BY <1>1, <1>2, <1>3, <1>4, <1>5, <1>6, <1>8, <1>9, <1>10, <1>11
       DEF Next, CallStep, SessionStep

-----------------------------------------------------------------------------
(* The session stays sound                                                 *)

LEMMA InitSession == Init => SessionInv
<1> SUFFICES ASSUME Init
             PROVE  SessionInv
    OBVIOUS
<1>1. JobInv
    BY JobInitInv, InitIsJobInit
<1>2. DataOK
    BY FreshSound DEF Init, DataOK
<1>3. Whereabouts
    BY DEF Init, JobInit, Whereabouts, CallAt, SessionAt, PageAt, ScanningAt,
           InSession, Places, StartOnly, ReadOnly, WithPage, Starting
<1>4. QED
    BY <1>1, <1>2, <1>3 DEF SessionInv

(* The decoder after a feed.                                               *)
LEMMA DecodedSound ==
    ASSUME SessionInv
    PROVE  /\ Sound(Decoded(chunk))
           /\ Decoded(chunk).open = png.open
           /\ png.params => Decoded(chunk).params
BY WriteSound, FinishSound DEF SessionInv, DataOK, Decoded

(* The decoder after a read.                                               *)
LEMMA TakenSound ==
    ASSUME SessionInv, TakeQueued
    PROVE  Sound(png') /\ png'.open = png.open /\ png'.params = png.params
<1>1. PICK n \in 1 .. MaxRead : n <= Held(png) /\ png' = Take(png, n)
    BY DEF TakeQueued
<1>2. n \in Nat
    BY ScanAssumption
<1>3. QED
    BY <1>1, <1>2, TakeSound DEF SessionInv, DataOK

LEMMA StepData == SessionInv /\ [Next]_vars => DataOK'
<1> SUFFICES ASSUME SessionInv, [Next]_vars
             PROVE  DataOK'
    OBVIOUS
<1> USE DEF DataOK
<1>0. Sound(png) /\ chunk \in Seq(Event) /\ <<>> \in Seq(Event)
    BY DEF SessionInv
<1>1. CASE StartTest \/ StartBegin \/ Teardown \/ SaneClose
    BY <1>0, <1>1, ScanEndStep DEF StartTest, StartBegin, Teardown, SaneClose, session
<1>2. CASE StartCreate
    BY <1>0, <1>2, FreshSound DEF StartCreate, ScanNew, session
<1>3. CASE ReadFinish
    BY <1>0, <1>3, FreshSound DEF ReadFinish, ScanFinish
<1>4. CASE Reset \/ Ready
    BY <1>0, <1>4, FreshSound DEF Reset, Ready
<1>5. CASE Recv
    BY <1>0, <1>5, ChunkType DEF Recv, session
<1>6. CASE Decode
    BY <1>0, <1>6, DecodedSound DEF Decode
<1>7. CASE ScanTake
    BY <1>0, <1>7, TakenSound DEF ScanTake
<1>8. CASE UNCHANGED <<png, chunk>>
    BY <1>0, <1>8
<1>9. CASE Poll \/ Ask \/ Nap \/ Header \/ Feed \/ Rest
    BY <1>8, <1>9 DEF Poll, Ask, Nap, Header, Feed, Rest, session
<1>10. CASE StartClear \/ StartArm \/ StartNoJob \/ StartReturn \/ ReadReturn
    BY <1>8, <1>10 DEF StartClear, StartArm, StartNoJob, StartReturn, ReadReturn, session
<1>11. CASE StartCall \/ ReadCall \/ SetSource \/ SaneCancel \/ CancelTest \/ CancelStore
    BY <1>8, <1>11 DEF StartCall, ReadCall, SetSource, SaneCancel, CancelTest, CancelStore,
                       scanVars, session, thread
<1>12. CASE UNCHANGED vars
    BY <1>8, <1>12, SMTT(30) DEF vars, scanVars, session, thread
<1>13. QED
    BY <1>1, <1>2, <1>3, <1>4, <1>5, <1>6, <1>7, <1>9, <1>10, <1>11, <1>12
       DEF Next, CallStep, SessionStep

LEMMA StepWhere == SessionInv /\ [Next]_vars => Whereabouts'
<1> SUFFICES ASSUME SessionInv, [Next]_vars
             PROVE  Whereabouts'
    OBVIOUS
<1>0. Whereabouts
    BY DEF SessionInv
<1> USE <1>0 DEF Whereabouts, CallAt, SessionAt, PageAt, ScanningAt, InSession, Places,
                 StartOnly, ReadOnly, WithPage, Starting, Goto, Return
<1> USE DEF handleVars, handle, options, session, thread
(* sane_start()                                                            *)
<1>1. CASE StartCall
    BY <1>1 DEF StartCall, jobVars, service
<1>2. CASE StartTest
    BY <1>2, ScanEndStep DEF StartTest, jobVars, service
<1>3. CASE StartClear
    BY <1>3 DEF StartClear, jobVars, service
<1>4. CASE StartArm
    BY <1>4 DEF StartArm, jobVars, service
<1>5. CASE StartBegin
    BY <1>5, ScanEndStep DEF StartBegin, jobVars, service
<1>6. CASE StartCreate
    BY <1>6 DEF StartCreate, ScanNew, JobCreated, JobRefused, jobVars, service
<1>7. CASE StartNoJob
    BY <1>7 DEF StartNoJob, jobVars, service
<1>8. CASE StartReturn
    BY <1>8 DEF StartReturn, jobVars, service
(* sane_read()                                                             *)
<1>9. CASE ReadCall
    BY <1>9 DEF ReadCall, jobVars, service
<1>10. CASE ReadReturn
    BY <1>10 DEF ReadReturn, PageEnded, jobVars, service
<1>11. CASE ReadFinish
    BY <1>11, DocumentKeepsJob DEF ReadFinish, ScanFinish
<1>12. CASE Teardown
    BY <1>12, ScanEndStep DEF Teardown
(* the session                                                             *)
<1>13. CASE Reset /\ UNCHANGED handleVars
    BY <1>13 DEF Reset, jobVars, service
<1>14. CASE Poll /\ UNCHANGED handleVars
    BY <1>14 DEF Poll, jobVars, service
<1>15. CASE Ask /\ UNCHANGED handleVars
    BY <1>15, DocumentKeepsJob
       DEF Ask, AskReady, AskWait, AskDone, AskError, DocResult, NoMorePages
<1>16. CASE Nap /\ UNCHANGED handleVars
    BY <1>16 DEF Nap, jobVars, service
<1>17. CASE Ready /\ UNCHANGED handleVars
    BY <1>17, FreshSound DEF Ready, jobVars, service
<1>18. CASE Header /\ UNCHANGED handleVars
    BY <1>18 DEF Header, jobVars, service
<1>19. CASE Feed /\ UNCHANGED handleVars
    BY <1>19 DEF Feed, jobVars, service
<1>20. CASE Recv /\ UNCHANGED handleVars
    BY <1>20, ReadKeepsJob DEF Recv
<1>21. CASE Decode /\ UNCHANGED handleVars
    BY <1>21, DecodedSound DEF Decode, Caller, jobVars, service
<1>22. CASE ScanTake /\ UNCHANGED handleVars
    BY <1>22, TakenSound DEF ScanTake, jobVars, service
<1>23. CASE Rest /\ UNCHANGED handleVars
    <2>1. svc' = svc
        BY <1>23, ReadKeepsJob DEF Rest, RestStops, jobVars, service
    <2>2. scan' = scan /\ page' = page /\ scanning' = scanning /\ call' = call /\ png' = png
        BY <1>23 DEF Rest
    <2>3. CASE pc' = pc /\ ret' = ret
        BY <1>23, <2>1, <2>2, <2>3 DEF Rest
    <2>4. CASE pc' = "return" /\ ret' = "EOF"
        BY <1>23, <2>1, <2>2, <2>4 DEF Rest
    <2>5. QED
        BY <1>23, <2>3, <2>4 DEF Rest
(* beside the calls                                                        *)
<1>24. CASE SaneClose
    BY <1>24, ScanEndStep DEF SaneClose
<1>25. CASE SetSource \/ SaneCancel \/ CancelTest \/ CancelStore
    BY <1>25 DEF SetSource, SaneCancel, CancelTest, CancelStore, scanVars, jobVars, service
<1>26. CASE UNCHANGED vars
    BY <1>26 DEF vars, scanVars, jobVars, service
<1>27. QED
    BY <1>1, <1>2, <1>3, <1>4, <1>5, <1>6, <1>7, <1>8, <1>9, <1>10, <1>11, <1>12,
       <1>13, <1>14, <1>15, <1>16, <1>17, <1>18, <1>19, <1>20, <1>21, <1>22, <1>23,
       <1>24, <1>25, <1>26
       DEF Next, CallStep, SessionStep

LEMMA StepSession == SessionInv /\ [Next]_vars => SessionInv'
<1>1. SessionInv /\ [Next]_vars => JobInv'
    BY StepIsJobStep, JobStepInv DEF SessionInv
<1>2. QED
    BY <1>1, StepData, StepWhere DEF SessionInv

THEOREM SessionInvariant == Spec => []SessionInv
BY InitSession, StepSession, PTL DEF Spec

(* Whatever the order of the calls, however each of them ends and whenever *)
(* a cancel comes, no call follows a pointer that is NULL (sane-ipp.c,     *)
(* 832-833 and 910-914).                                                   *)
THEOREM SessionsAreThere == Spec => []NoNullSession
<1>1. SessionInv => NoNullSession
    BY DEF SessionInv, Whereabouts, CallAt, SessionAt, PageAt, ScanningAt,
           NoNullSession, InSession, WithPage
<1>2. QED
    BY <1>1, SessionInvariant, PTL

(* The calls on the job are ones its client may make: the detailed backend *)
(* implements the job's client.                                            *)
THEOREM BackendIsAJobClient == Spec => OneJobAtATime
<1>1. Spec => JobInit
    BY InitIsJobInit DEF Spec
<1>2. SessionInv /\ [Next]_vars => [JobNext]_jobVars
    BY StepIsJobStep
<1>3. QED
    BY <1>1, <1>2, SessionInvariant, PTL DEF Spec, OneJobAtATime, JobSpec

(* So what holds of any client of a job holds of the backend: requests do  *)
(* not overlap, no job is forgotten, and none is cancelled after its end.  *)
THEOREM BackendJobs ==
    Spec => [](OneExchangeAtATime /\ NothingLeftRunning /\ NoCancelAfterTheEnd)
BY BackendIsAJobClient, ExchangesDoNotOverlap, JobsAreNotForgotten,
   EndedJobsAreNotCancelled, PTL DEF OneJobAtATime
=============================================================================
