------------------------------- MODULE IppJob -------------------------------
(***************************************************************************)
(* A scan job of ipp-proto.c: struct ipp_job and the calls on it, together *)
(* with the scan service at the other end of its connection.               *)
(*                                                                         *)
(* Every call is one action: none of them looks at anything that another   *)
(* thread or a signal handler may change while it blocks.  What the        *)
(* network and the service do is chosen freely: any request may be refused *)
(* or get no answer, a body may break off at any point, and the service    *)
(* may be done with the job whenever it is asked.                          *)
(*                                                                         *)
(* The client is not in this module.  JobSpec lets it make any call at any *)
(* time; IppScan and SaneIpp say which calls the backend makes.            *)
(***************************************************************************)
EXTENDS PngContract

CONSTANTS
    Bodies,         \* the image bodies a service may send
    MaxDocs         \* bound: images a service sends in one job

ASSUME JobAssumption ==
    /\ Bodies \subseteq Seq(Event)
    /\ MaxDocs \in Nat

VARIABLES
    (* struct ipp_job *)
    http,           \* http is not NULL
    reading,        \* reading
    finished,       \* finished
    format,         \* format names one we decode
    (* the service and the wire *)
    svc,            \* the job at the service: "none" held, "active", "over"
    docs,           \* images the service has sent in it
    wire,           \* what is still to be read of a body on the connection
    (* history *)
    doc,            \* the whole body that was last announced
    heard,          \* the last answer to Get-Next-Document-Data
    told,           \* Cancel-Job: "no", "delivered" or "lost"
    clash,          \* a request was sent into an unread body
    stray           \* jobs let go of while active and with no try to cancel

jobFields == <<http, reading, finished, format>>
service   == <<svc, docs, wire>>
history   == <<doc, heard, told, clash, stray>>
jobVars   == <<jobFields, service, history>>

(* No job is held.                                                         *)
JobInit ==
    /\ http = FALSE /\ reading = FALSE /\ finished = FALSE /\ format = FALSE
    /\ svc = "none" /\ docs = 0 /\ wire = <<>>
    /\ doc = <<>> /\ heard = "nothing" /\ told = "no"
    /\ clash = FALSE /\ stray = 0

-----------------------------------------------------------------------------
(* ipp_job_create()                                                        *)

(* The service has made a job and said its job-id.                         *)
JobCreated ==
    /\ http' = TRUE /\ reading' = FALSE /\ finished' = FALSE /\ format' = FALSE
    /\ svc' = "active" /\ docs' = 0 /\ wire' = <<>>
    /\ doc' = <<>> /\ heard' = "nothing" /\ told' = "no"
    /\ UNCHANGED <<clash, stray>>

(* No connection, no answer, an error status, or an answer with no job-id: *)
(* no job is held.  If the service has made one all the same, the client   *)
(* has no name for it.                                                     *)
JobRefused == UNCHANGED jobVars

-----------------------------------------------------------------------------
(* ipp_job_next_document()                                                 *)

(* A next_document() or job_cancel() that takes an open body for the end   *)
(* of the job.                                                             *)
SilentMidImage == finished \/ ~http \/ reading

(* There is nobody to ask: the test both of the calls that send a request  *)
(* begin with.                                                             *)
Silent == finished \/ ~http

(* No drain: what is left of the body stays on the connection.             *)
NotDrained == wire

(* ipp_job_drain(): what is left on the connection after it.               *)
Drained == IF reading THEN <<>> ELSE wire

(* A request goes out on a connection that has w unread on it.             *)
Send(w) == clash' = (clash \/ w # <<>>)

Asking == svc # "none" /\ ~Silent /\ Send(Drained)

(* Nobody is asked: the answer is that there are no more images.           *)
DocNone == svc # "none" /\ Silent /\ UNCHANGED jobVars

(* An image, in a format we decode or in another one.                      *)
DocReady(body, known) ==
    /\ Asking
    /\ svc = "active" /\ docs < MaxDocs
    /\ reading' = TRUE /\ format' = known
    /\ docs' = docs + 1 /\ wire' = body
    /\ doc' = body /\ heard' = "ready"
    /\ UNCHANGED <<http, finished, svc, told, stray>>

(* An answer, or none, that brings no image.                               *)
DocEmpty(answer) ==
    /\ Asking
    /\ reading' = FALSE /\ format' = FALSE
    /\ wire' = Drained
    /\ heard' = answer
    /\ UNCHANGED <<http, docs, doc, told, stray>>

(* Nothing yet.                                                            *)
DocWait == svc = "active" /\ DocEmpty("wait") /\ UNCHANGED <<finished, svc>>

(* An end of the job that is not remembered.                               *)
DocDoneForgotten == DocEmpty("done") /\ svc' = "over" /\ UNCHANGED finished

(* "last-document", or the service does not know the job any more.         *)
DocDone == DocEmpty("done") /\ svc' = "over" /\ finished' = TRUE

(* An error status, or no answer.  The job may be over, or not.            *)
DocError ==
    /\ DocEmpty("error")
    /\ svc' \in {svc, "over"}
    /\ UNCHANGED finished

(* The call, by what it returns.                                           *)
NextDocument(result) ==
    \/ result = "ready" /\ \E b \in Bodies, k \in BOOLEAN : DocReady(b, k)
    \/ result = "wait"  /\ DocWait
    \/ result = "done"  /\ (DocNone \/ DocDone)
    \/ result = "error" /\ DocError

DocResult == {"ready", "wait", "done", "error"}

-----------------------------------------------------------------------------
(* ipp_job_read()                                                          *)

(* Data: a chunk of any size from the front of what is on the wire.        *)
ReadData(chunk) ==
    /\ reading
    /\ chunk # <<>>
    /\ wire = chunk \o SubSeq(wire, Len(chunk) + 1, Len(wire))
    /\ wire' = SubSeq(wire, Len(chunk) + 1, Len(wire))
    /\ UNCHANGED <<jobFields, svc, docs, history>>

(* The chunks ReadData can give.                                           *)
Chunks == {SubSeq(wire, 1, n) : n \in 1 .. Len(wire)}

(* No more data, or an error: the end of the body, or a connection that    *)
(* broke off before it.                                                    *)
ReadStop ==
    /\ reading
    /\ reading' = FALSE /\ wire' = <<>>
    /\ UNCHANGED <<http, finished, format, svc, docs, history>>

(* No body is open: no data.                                               *)
ReadNothing == svc # "none" /\ ~reading /\ UNCHANGED jobVars

-----------------------------------------------------------------------------
(* ipp_job_cancel() and ipp_job_free()                                     *)

(* A cancel that leaves the connection with the open body on it.           *)
KeptForCancel == wire

(* A connection with an open body is dropped for a new one.                *)
LeftForCancel == IF reading THEN <<>> ELSE wire

(* What Cancel-Job came to, with the given luck of the connection.  No     *)
(* answer is looked at, so a lost one is as good as any.                   *)
CancelTold(luck) == IF Silent THEN told ELSE luck
CancelSvc(luck)  == IF ~Silent /\ luck = "delivered" THEN "over" ELSE svc
CancelSent(luck) == IF Silent THEN UNCHANGED clash ELSE Send(LeftForCancel)

Luck == {"delivered", "lost"}

JobCancel(luck) ==
    /\ svc # "none" /\ ~Silent
    /\ CancelSent(luck)
    /\ told' = CancelTold(luck)
    /\ svc' = CancelSvc(luck)
    /\ http' \in IF reading /\ luck = "lost" THEN BOOLEAN ELSE {TRUE}
    /\ reading' = FALSE /\ finished' = TRUE
    /\ wire' = LeftForCancel
    /\ UNCHANGED <<format, docs, doc, heard, stray>>

(* The job is cancelled if it has not finished, the connection closed.     *)
JobFree(luck) ==
    /\ svc # "none"
    /\ CancelSent(luck)
    /\ told' = CancelTold(luck)
    /\ stray' = IF CancelSvc(luck) = "active" /\ CancelTold(luck) = "no"
                THEN stray + 1 ELSE stray
    /\ svc' = "none"
    /\ http' = FALSE /\ reading' = FALSE /\ finished' = FALSE /\ format' = FALSE
    /\ wire' = <<>>
    /\ UNCHANGED <<docs, doc, heard>>

-----------------------------------------------------------------------------
(* Any client that holds one job at a time.                                *)

JobNext ==
    \/ svc = "none" /\ JobCreated
    \/ \E r \in DocResult : NextDocument(r)
    \/ \E c \in Chunks : ReadData(c)
    \/ ReadStop
    \/ ReadNothing
    \/ \E l \in Luck : JobCancel(l)
    \/ \E l \in Luck : JobFree(l)

JobSpec == JobInit /\ [][JobNext]_jobVars

-----------------------------------------------------------------------------

(* The flags of struct ipp_job, and the one flag of the history.           *)
JobFlags ==
    /\ http \in BOOLEAN /\ reading \in BOOLEAN
    /\ finished \in BOOLEAN /\ format \in BOOLEAN
    /\ clash \in BOOLEAN

(* The fields have their types; a body is open only on a connection,       *)
(* nothing is left on the wire by a call that closed the body, and a job   *)
(* that has lost its connection counts as finished.                        *)
JobTypeOK ==
    /\ JobFlags
    /\ svc \in {"none", "active", "over"}
    /\ docs \in 0 .. MaxDocs
    /\ wire \in Seq(Event) /\ doc \in Seq(Event)
    /\ heard \in {"nothing", "ready", "wait", "done", "error"}
    /\ told \in {"no", "delivered", "lost"}
    /\ stray \in Nat
    /\ reading => http
    /\ ~reading => wire = <<>>
    /\ svc = "none" => ~http
    /\ svc # "none" /\ ~http => finished

(* ipp-proto.c, 749-752: "only one thing can be in flight on it at a       *)
(* time".  Whatever calls came before, and wherever a body was left, no    *)
(* request is sent on a connection that still has an answer to be read.    *)
OneExchangeAtATime == ~clash

(* No job is forgotten while the service still scans: a job let go of is   *)
(* over, or the service was told to cancel it, or could not be told.       *)
NothingLeftRunning == stray = 0

(* A job the service has said is over is never cancelled (ipp-scan.c,      *)
(* 433-437: "a service may count a cancelled job as a failed one").        *)
NoCancelAfterTheEnd == heard = "done" => told = "no"
=============================================================================
