------------------------------ MODULE SaneIpp ------------------------------
(***************************************************************************)
(* The scanning calls of the backend, sane-ipp.c, over the session of      *)
(* IppScan and the job of IppJob: sane_start(), sane_read(),               *)
(* sane_cancel(), sane_close() on one open device.                         *)
(*                                                                         *)
(* One thread of the frontend makes the calls, one after another; it is    *)
(* "idle" between them.  sane_cancel() is made beside it: by a signal      *)
(* handler, which runs between two steps of that thread and to its end, or *)
(* (Threaded) by another thread, whose test of the scanning flag and whose *)
(* store to the cancel flag are two steps of their own.                    *)
(***************************************************************************)
EXTENDS IppScan

CONSTANTS
    Threaded,       \* sane_cancel() comes from another thread
    MidPageStart    \* the frontend calls sane_start() inside of a page, too

ASSUME SaneAssumption == Threaded \in BOOLEAN /\ MidPageStart \in BOOLEAN

VARIABLES
    (* ipp_sane_handle *)
    scan,           \* scan is not NULL
    hMulti,         \* multi
    page,           \* page
    scanning,       \* scanning
    (* its surroundings *)
    feeder,         \* the source option: a feeder, not the platen
    offered,        \* the device offers a format we decode, or lists none
    (* sane_cancel() on another thread *)
    late,           \* it has found scanning set, and not yet set cancel
    (* history *)
    wanted          \* a sane_cancel() found scanning set, since sane_start()
                    \* was called

handle   == <<scan, hMulti, page, scanning>>
options  == <<feeder, offered>>
handleVars == <<handle, options, late, wanted>>
vars     == <<handleVars, scanVars, jobVars>>

(* A handle out of sane_open(): calloc()ed, its source any of the device's.*)
Init ==
    /\ scan = FALSE /\ hMulti = FALSE /\ page = FALSE /\ scanning = FALSE
    /\ feeder \in BOOLEAN /\ offered \in BOOLEAN
    /\ late = FALSE /\ wanted = FALSE
    /\ multi = FALSE /\ pages = 0 /\ png = NoPng /\ netEof = FALSE
    /\ cancel = FALSE
    /\ pc = "idle" /\ call = "start" /\ ret = "GOOD" /\ chunk = <<>> /\ naps = 0
    /\ JobInit

-----------------------------------------------------------------------------

(* ipp_sane_scan_end(): the session is freed, if there is one.             *)
ScanEnd ==
    /\ IF scan THEN \E l \in Luck : ScanFree(l)
       ELSE UNCHANGED <<session, jobVars>>
    /\ scan' = FALSE /\ page' = FALSE

-----------------------------------------------------------------------------
(* sane_start()                                                            *)

StartCall ==
    /\ pc = "idle"
    /\ scanning => MidPageStart
    /\ call' = "start" /\ wanted' = FALSE
    /\ Goto("start")
    /\ UNCHANGED <<handle, options, late, session, cancel, ret, chunk, naps, jobVars>>

(* A start that forgets the job a late cancel was meant for.               *)
StartKeepsJob ==
    /\ pc = "start"
    /\ UNCHANGED <<scan, page, session, jobVars>>
    /\ Goto("clear")
    /\ UNCHANGED <<hMulti, scanning, options, late, wanted, cancel, call, ret, chunk, naps>>

(* A cancel that nobody has acted on ends its job here.                    *)
StartTest ==
    /\ pc = "start"
    /\ IF cancel THEN ScanEnd ELSE UNCHANGED <<scan, page, session, jobVars>>
    /\ Goto("clear")
    /\ UNCHANGED <<hMulti, scanning, options, late, wanted, cancel, call, ret, chunk, naps>>

(* A start that leaves the flag as it was.                                 *)
StartNoClear ==
    /\ pc = "clear"
    /\ Goto("arm")
    /\ UNCHANGED <<handleVars, session, cancel, call, ret, chunk, naps, jobVars>>

StartClear ==
    /\ pc = "clear"
    /\ cancel' = FALSE
    /\ Goto("arm")
    /\ UNCHANGED <<handleVars, session, call, ret, chunk, naps, jobVars>>

StartArm ==
    /\ pc = "arm"
    /\ scanning' = TRUE
    /\ Goto("begin")
    /\ UNCHANGED <<scan, hMulti, page, options, late, wanted, session, cancel,
                   call, ret, chunk, naps, jobVars>>

(* A job that is only good for one page.                                   *)
OnePageJob == scan /\ ~hMulti

(* ipp_sane_start(): a job on the platen gives one page, so one that is    *)
(* still there is ended; a job on a feeder goes on.                        *)
StartBegin ==
    /\ pc = "begin"
    /\ IF OnePageJob THEN ScanEnd
       ELSE page' = FALSE /\ UNCHANGED <<scan, session, jobVars>>
    /\ Goto(IF scan' THEN "reset" ELSE "create")
    /\ UNCHANGED <<hMulti, scanning, options, late, wanted, cancel, call, ret, chunk, naps>>

(* ipp_sane_job_start().  The answer may be a long time coming, so the     *)
(* flag is looked at in a step of its own when there is no job.            *)
StartCreate ==
    /\ pc = "create"
    /\ \/ /\ ~offered
          /\ Return("UNSUPPORTED")
          /\ UNCHANGED <<scan, hMulti, session, jobVars>>
       \/ /\ offered
          /\ hMulti' = feeder
          /\ \/ ScanNew(feeder) /\ scan' = TRUE /\ Goto("reset")
             \/ JobRefused /\ Goto("nojob") /\ UNCHANGED <<scan, session>>
          /\ UNCHANGED ret
    /\ UNCHANGED <<page, scanning, options, late, wanted, cancel, call, chunk, naps>>

StartNoJob ==
    /\ pc = "nojob"
    /\ Return(IF cancel THEN "CANCELLED" ELSE "IO_ERROR")
    /\ UNCHANGED <<handleVars, session, cancel, call, chunk, naps, jobVars>>

(* A start that calls a page started before it knows.                      *)
StartReturnAnyway ==
    /\ pc = "return" /\ call = "start"
    /\ page' = TRUE /\ Goto("idle") /\ UNCHANGED scanning
    /\ UNCHANGED <<scan, hMulti, options, late, wanted, session, cancel,
                   call, ret, chunk, naps, jobVars>>

StartReturn ==
    /\ pc = "return" /\ call = "start"
    /\ IF ret = "GOOD"
       THEN page' = TRUE /\ Goto("idle") /\ UNCHANGED scanning
       ELSE scanning' = FALSE /\ Goto("teardown") /\ UNCHANGED page
    /\ UNCHANGED <<scan, hMulti, options, late, wanted, session, cancel,
                   call, ret, chunk, naps, jobVars>>

-----------------------------------------------------------------------------
(* sane_read()                                                             *)

ReadCall ==
    /\ pc = "idle"
    /\ call' = "read"
    /\ IF scanning THEN Goto("take") /\ UNCHANGED ret
       ELSE ret' = (IF cancel THEN "CANCELLED" ELSE "INVAL") /\ UNCHANGED pc
    /\ UNCHANGED <<handleVars, session, cancel, chunk, naps, jobVars>>

(* Where a platen page that ended goes without ipp_scan_finish().          *)
NotFinished == IF hMulti THEN "idle" ELSE "teardown"

(* Where a job goes that is ended with every page.                         *)
EveryPageEnds == "finish"

(* The end of a page leaves a job on a feeder in place.                    *)
PageEnded == IF hMulti THEN "idle" ELSE "finish"

ReadReturn ==
    /\ pc = "return" /\ call = "read"
    /\ IF ret = "GOOD" THEN Goto("idle") /\ UNCHANGED scanning
       ELSE /\ scanning' = FALSE
            /\ Goto(IF ret = "EOF" THEN PageEnded ELSE "teardown")
    /\ UNCHANGED <<scan, hMulti, page, options, late, wanted, session, cancel,
                   call, ret, chunk, naps, jobVars>>

ReadFinish ==
    /\ pc = "finish"
    /\ ScanFinish
    /\ Goto("teardown")
    /\ UNCHANGED <<handleVars, cancel, call, ret, chunk, naps>>

(* An end of a call that forgets its session without freeing it.           *)
TeardownLeaks ==
    /\ pc = "teardown"
    /\ scan' = FALSE /\ page' = FALSE
    /\ Goto("idle")
    /\ UNCHANGED <<hMulti, scanning, options, late, wanted, session, cancel,
                   call, ret, chunk, naps, jobVars>>

(* The last step of a call that failed, or that ended a platen job.        *)
Teardown ==
    /\ pc = "teardown"
    /\ ScanEnd
    /\ Goto("idle")
    /\ UNCHANGED <<hMulti, scanning, options, late, wanted, cancel, call, ret, chunk, naps>>

-----------------------------------------------------------------------------
(* sane_close(), and the sane_open() of the next device.                   *)

SaneClose ==
    /\ pc = "idle" /\ ~late
    /\ ScanEnd
    /\ hMulti' = FALSE /\ scanning' = FALSE /\ cancel' = FALSE /\ wanted' = FALSE
    /\ call' = "start" /\ ret' = "GOOD"
    /\ feeder' \in BOOLEAN /\ offered' \in BOOLEAN
    /\ UNCHANGED <<late, pc, chunk, naps>>

(* sane_control_option() on the source, which may come between two pages.  *)
SetSource ==
    /\ pc = "idle"
    /\ feeder' = ~feeder
    /\ UNCHANGED <<handle, offered, late, wanted, scanVars, jobVars>>

-----------------------------------------------------------------------------
(* sane_cancel()                                                           *)

(* From a signal handler.                                                  *)
SaneCancel ==
    /\ ~Threaded
    /\ scanning
    /\ cancel' = TRUE /\ wanted' = TRUE
    /\ UNCHANGED <<handle, options, late, session, thread, jobVars>>

(* From another thread: the test, then the store.                          *)
CancelTest ==
    /\ Threaded
    /\ scanning /\ ~late
    /\ late' = TRUE /\ wanted' = TRUE
    /\ UNCHANGED <<handle, options, scanVars, jobVars>>

CancelStore ==
    /\ late
    /\ cancel' = TRUE /\ late' = FALSE
    /\ UNCHANGED <<handle, options, wanted, session, thread, jobVars>>

-----------------------------------------------------------------------------

(* A step of the calling thread inside of a call.                          *)
CallStep ==
    \/ StartTest
    \/ StartClear
    \/ StartArm
    \/ StartBegin
    \/ StartCreate
    \/ StartNoJob
    \/ StartReturn
    \/ ReadReturn
    \/ ReadFinish
    \/ Teardown
    \/ SessionStep /\ UNCHANGED handleVars

Next ==
    \/ CallStep
    \/ StartCall
    \/ ReadCall
    \/ SaneClose
    \/ SetSource
    \/ SaneCancel
    \/ CancelTest
    \/ CancelStore

Spec == Init /\ [][Next]_vars

(* A call goes on by itself: the exchanges it waits for time out           *)
(* (httpSetTimeout()), and a wait takes steps of 100 ms.  Nothing makes    *)
(* the frontend call anything, or a user cancel.                           *)
FairSpec == Spec /\ WF_vars(CallStep)

-----------------------------------------------------------------------------

(* The fields have their types, and no more is taken from the decoder than *)
(* it holds: queue_len - queue_pos is an unsigned number.                  *)
TypeOK ==
    /\ JobTypeOK
    /\ multi \in BOOLEAN /\ pages \in Nat /\ netEof \in BOOLEAN
    /\ png \in Decoder /\ Held(png) \in Nat
    /\ cancel \in BOOLEAN
    /\ pc \in {"idle", "start", "clear", "arm", "begin", "create", "nojob",
               "reset", "poll", "ask", "nap", "ready", "header", "feed", "recv",
               "decode", "take", "rest", "return", "finish", "teardown"}
    /\ call \in {"start", "read"} /\ ret \in Status
    /\ chunk \in Seq(Event) /\ naps \in Nat
    /\ scan \in BOOLEAN /\ hMulti \in BOOLEAN /\ page \in BOOLEAN
    /\ scanning \in BOOLEAN /\ feeder \in BOOLEAN /\ offered \in BOOLEAN
    /\ late \in BOOLEAN /\ wanted \in BOOLEAN

(* The points inside of ipp_scan_next_page() and ipp_scan_read().          *)
InSession == {"reset", "poll", "ask", "nap", "ready", "header", "feed", "recv",
              "decode", "take", "rest", "finish"}

(* No pointer is followed that is NULL: sane_read() trusts "scanning" to   *)
(* mean that there is a session (sane-ipp.c, 910-914), and                 *)
(* sane_get_parameters() trusts "page" to mean that it has a page with its *)
(* header (832-833, ipp-scan.c 375).  It holds through every failure,      *)
(* cancel and change of source, in whatever order the calls come.          *)
NoNullSession ==
    /\ pc \in InSession => scan
    /\ pc \in {"header", "feed", "recv", "decode", "take", "rest"} => png.open
    /\ pc = "idle" /\ page => scan /\ png.open /\ png.params
    /\ pc = "idle" /\ scanning => page
    /\ scan <=> svc # "none"

(* ipp-scan.c, 152-155: "It cannot come to this" (data is asked for after  *)
(* its end), and 387-389: rows are never asked for on top of rows that     *)
(* have not been taken, so what is held is the rows of one buffer.         *)
FeedNeverStarved ==
    pc \in {"feed", "recv", "decode"} => ~netEof /\ Held(png) = 0

(* ipp-scan.c, 433-437: a platen job whose page was handed over in full is *)
(* not cancelled if the service, asked once more, says at once that it is  *)
(* over.  It is cancelled only if it was asked and said something else. To *)
(* ask it, and to cancel it, the connection is free of the image, as it is *)
(* after every page that was handed over (196-199: "Until those are read   *)
(* the connection is still busy with the image").                          *)
FinishedJobNotCancelled ==
    call = "read" /\ ret = "EOF" =>
        /\ pc = "idle" /\ ~scan /\ told # "no" =>
            heard \in {"wait", "error"} \/ docs > pages
        /\ pc \in {"return", "finish"} \/ (pc = "idle" /\ scan) =>
            ~reading /\ wire = <<>>

(* sane-ipp.c, 52-55: a cancel is not forgotten: the flag comes down only  *)
(* with the job it was raised for.                                         *)
CancelNotLost == [][cancel /\ ~cancel' => ~scan']_vars

(* sane-ipp.c, 57-61 and 860-873: a call is only cancelled by a            *)
(* sane_cancel() that came since sane_start() of the same page was called: *)
(* one for an earlier page does not reach it.  From a signal handler, that *)
(* is: a thread that found the earlier page being scanned may raise the    *)
(* flag when the next one is.                                              *)
CancelHitsItsPage ==
    pc = "return" /\ ret = "CANCELLED" => wanted

(* sane-ipp.c, 961-963: a job on a feeder survives the end of its pages. A *)
(* session ends for a cancel, a status that is neither GOOD nor EOF, or    *)
(* sane_close(); only a session on the platen ends with its page.          *)
FeederJobSurvives ==
    [][scan /\ ~scan' =>
        cancel \/ ~multi \/ pc = "idle" \/ ret \notin {"GOOD", "EOF"}]_vars

(* The backend makes the calls of IppJob's client: no job is created on    *)
(* top of another one.                                                     *)
OneJobAtATime == JobSpec

(* What a frontend sees of all this: a page is open while it may be read,  *)
(* and a status is settled before the call that returns it has cleaned up. *)
PageOpen == scanning /\ (pc = "idle" \/ call = "read")

Pages == INSTANCE SanePages WITH
    Image  <- {[bytes |-> RowsIn(b) * RowBytes, whole |-> Whole(b)] : b \in Bodies},
    busy   <- IF pc = "idle" THEN "none" ELSE call,
    open   <- PageOpen,
    image  <- IF PageOpen THEN [bytes |-> RowsIn(doc) * RowBytes, whole |-> Whole(doc)]
              ELSE [bytes |-> 0, whole |-> FALSE],
    got    <- IF PageOpen THEN png.taken ELSE 0,
    status <- IF \/ pc \in {"idle", "finish", "teardown"}
                 \/ pc = "return" /\ call = "read" /\ ret = "GOOD"
              THEN ret ELSE "none"

(* The calls serve pages as SANE has it (the statuses of ipp-scan.h, 77-79,*)
(* and sane-ipp.c, 893-949).  Whatever fails, and however calls and        *)
(* cancels mix: GOOD comes with data of the page that was started, each    *)
(* byte once; EOF "when the page has been read in full", and never for one *)
(* that was cut short, spoilt or cancelled; and after EOF or a failure     *)
(* there is nothing to read before the next sane_start().                  *)
PagesAreServed == Pages!Spec

(* A cancel raised while a page is scanned ends the call in progress, even *)
(* with a service that asks to be polled for ever.                         *)
CancelEndsTheCall == (pc # "idle" /\ scanning /\ cancel) ~> pc = "idle"

(* No loop of a call goes on for ever, but for the polling of a service    *)
(* that has no page yet.                                                   *)
CallsReturn == []<>(pc = "idle" \/ pc = "nap")
=============================================================================
