------------------------------ MODULE IppScan ------------------------------
(***************************************************************************)
(* The scan session of ipp-scan.c: a job, the page of it being read, and   *)
(* the cancel flag of the handle, which anybody may raise between any two  *)
(* steps.                                                                  *)
(*                                                                         *)
(* ipp_scan_next_page(), ipp_scan_read() and ipp_scan_feed() test the flag *)
(* at several points, so they are taken apart there: pc is the point the   *)
(* caller's thread has come to, and a step runs from one test of the flag, *)
(* or one call that may block, to the next.  A finished call leaves its    *)
(* status in ret and pc at "return", where SaneIpp takes over.             *)
(*                                                                         *)
(*   "reset" -> "poll" -> "ask" -> "ready" -> "header"     next_page       *)
(*                 ^        |                   |  ^                       *)
(*                 +-"nap"<-+                   v  |                       *)
(*                               "feed" -> "recv" -> "decode"              *)
(*                                 ^                   |                   *)
(*                               "take" <--------------+   read            *)
(*                                 +-> "rest"                              *)
(***************************************************************************)
EXTENDS IppJob

CONSTANTS
    NapSteps,       \* bound: steps in a wait for the next page
    MaxRead         \* bound: largest max_length of a sane_read()

(* Bodies are what a PNG encoder may send, cut short or spoilt: one header,*)
(* rows and the end only after it.                                         *)
WellFormed(body) ==
    \A i \in Reached(body) : body[i] \in {"row", "end"} =>
        \E j \in Reached(body) : j < i /\ body[j] = "info"

ASSUME ScanAssumption ==
    /\ \A b \in Bodies : WellFormed(b)
    /\ NapSteps \in Nat
    /\ MaxRead \in Nat \ {0}

VARIABLES
    (* struct ipp_scan *)
    multi,          \* multi
    pages,          \* pages
    png,            \* png
    netEof,         \* net_eof
    (* the flag of the handle it points to *)
    cancel,
    (* the thread *)
    pc,             \* where it is
    call,           \* the entry it runs: "start" or "read"
    ret,            \* the status a call ends, or ended, with
    chunk,          \* data received and not decoded
    naps            \* steps of a wait still to be taken

session  == <<multi, pages, png, netEof>>
thread   == <<pc, call, ret, chunk, naps>>
scanVars == <<session, cancel, thread>>

Status == {"GOOD", "EOF", "CANCELLED", "NO_DOCS", "IO_ERROR", "UNSUPPORTED",
           "NO_MEM", "INVAL"}

Goto(l) == pc' = l
Return(s) == ret' = s /\ pc' = "return"

-----------------------------------------------------------------------------
(* ipp_scan_new() and ipp_scan_free()                                      *)

ScanNew(feeds) ==
    /\ JobCreated
    /\ multi' = feeds /\ pages' = 0 /\ png' = NoPng /\ netEof' = FALSE

ScanFree(luck) ==
    /\ JobFree(luck)
    /\ png' = NoPng
    /\ UNCHANGED <<multi, pages, netEof>>

-----------------------------------------------------------------------------
(* ipp_scan_next_page()                                                    *)

Reset ==
    /\ pc = "reset"
    /\ png' = NoPng /\ netEof' = FALSE
    /\ Goto("poll")
    /\ UNCHANGED <<multi, pages, cancel, call, ret, chunk, naps, jobVars>>

(* The loop begins: the flag is tested before the service is asked.        *)
Poll ==
    /\ pc = "poll"
    /\ IF cancel THEN Return("CANCELLED") ELSE Goto("ask") /\ UNCHANGED ret
    /\ UNCHANGED <<session, cancel, call, chunk, naps, jobVars>>

(* What no more images means: an empty feeder, or a job that failed.       *)
NoMorePages == IF multi \/ pages # 0 THEN "NO_DOCS" ELSE "IO_ERROR"

AskReady == NextDocument("ready") /\ Goto("ready") /\ UNCHANGED <<ret, naps>>
AskWait  == NextDocument("wait") /\ Goto("nap") /\ naps' = NapSteps /\ UNCHANGED ret
AskDone  == NextDocument("done") /\ Return(NoMorePages) /\ UNCHANGED naps
AskError == NextDocument("error") /\ Return("IO_ERROR") /\ UNCHANGED naps

Ask ==
    /\ pc = "ask"
    /\ AskReady \/ AskWait \/ AskDone \/ AskError
    /\ UNCHANGED <<session, cancel, call, chunk>>

(* A wait that nothing interrupts.                                         *)
SleepThrough ==
    /\ pc = "nap"
    /\ IF naps = 0 THEN Goto("ask") /\ UNCHANGED naps
       ELSE naps' = naps - 1 /\ UNCHANGED pc
    /\ UNCHANGED <<session, cancel, call, ret, chunk, jobVars>>

(* ipp_scan_sleep(): the flag is tested before each step and after the     *)
(* last one.                                                               *)
Nap ==
    /\ pc = "nap"
    /\ IF cancel THEN Return("CANCELLED") /\ naps' = 0
       ELSE IF naps = 0 THEN Goto("poll") /\ UNCHANGED <<ret, naps>>
       ELSE naps' = naps - 1 /\ UNCHANGED <<pc, ret>>
    /\ UNCHANGED <<session, cancel, call, chunk, jobVars>>

(* An image has been announced.  The decoder may fail for want of memory.  *)
Ready ==
    /\ pc = "ready"
    /\ \/ ~format /\ Return("UNSUPPORTED") /\ UNCHANGED <<png, pages>>
       \/ format /\ Return("NO_MEM") /\ UNCHANGED <<png, pages>>
       \/ /\ format
          /\ png' = FreshPng /\ pages' = pages + 1
          /\ Goto("header") /\ UNCHANGED ret
    /\ UNCHANGED <<multi, netEof, cancel, call, chunk, naps, jobVars>>

(* Data is fed until the header is complete.                               *)
Header ==
    /\ pc = "header"
    /\ IF png.params THEN Return("GOOD") ELSE Goto("feed") /\ UNCHANGED ret
    /\ UNCHANGED <<session, cancel, call, chunk, naps, jobVars>>

-----------------------------------------------------------------------------
(* ipp_scan_feed()                                                         *)

Feed ==
    /\ pc = "feed"
    /\ IF cancel THEN Return("CANCELLED")
       ELSE IF netEof THEN Return("IO_ERROR")
       ELSE Goto("recv") /\ UNCHANGED ret
    /\ UNCHANGED <<session, cancel, call, chunk, naps, jobVars>>

(* The read may block.  No data is an empty chunk.                         *)
Recv ==
    /\ pc = "recv"
    /\ \/ \E c \in Chunks : ReadData(c) /\ chunk' = c /\ Goto("decode") /\ UNCHANGED ret
       \/ ReadStop /\ chunk' = <<>> /\ Goto("decode") /\ UNCHANGED ret
       \/ ReadNothing /\ chunk' = <<>> /\ Goto("decode") /\ UNCHANGED ret
       \/ ReadStop /\ Return("IO_ERROR") /\ UNCHANGED chunk
    /\ UNCHANGED <<session, cancel, call, naps>>

(* Where a feed returns to: the loop that asked for data.                  *)
Caller == IF call = "start" THEN "header" ELSE "take"

(* An end of data nobody tells the decoder of.                             *)
DecodedUnfinished(c) == Write(png, c)

(* The decoder after a chunk, or after the end of the data.                *)
Decoded(c) == IF c = <<>> THEN Finish(png) ELSE Write(png, c)

Decode ==
    /\ pc = "decode"
    /\ IF cancel
       THEN Return("CANCELLED") /\ UNCHANGED <<png, netEof>>
       ELSE /\ png' = Decoded(chunk)
            /\ netEof' = (netEof \/ chunk = <<>>)
            /\ IF Decoded(chunk).failed THEN Return("IO_ERROR")
               ELSE Goto(Caller) /\ UNCHANGED ret
    /\ chunk' = <<>>
    /\ UNCHANGED <<multi, pages, cancel, call, naps, jobVars>>

-----------------------------------------------------------------------------
(* ipp_scan_read()                                                         *)

(* A read of as much as was asked for, whatever there is.                  *)
TakeAsked == \E n \in 1 .. MaxRead : Held(png) > 0 /\ png' = Take(png, n)

(* A read that gives nothing when there is nothing yet.                    *)
TakeAny == \E n \in 0 .. MaxRead : n <= Held(png) /\ png' = Take(png, n)

(* Whatever is decoded is given before anything else is done.              *)
TakeQueued ==
    \E n \in 1 .. MaxRead :
        /\ n <= Held(png)
        /\ png' = Take(png, n)

ScanTake ==
    /\ pc = "take"
    /\ \/ ~png.open /\ Return("EOF") /\ UNCHANGED png
       \/ png.open /\ cancel /\ Return("CANCELLED") /\ UNCHANGED png
       \/ png.open /\ ~cancel /\ TakeQueued /\ Return("GOOD")
       \/ /\ png.open /\ ~cancel /\ Held(png) = 0
          /\ Goto(IF Eof(png) THEN "rest" ELSE "feed")
          /\ UNCHANGED <<png, ret>>
    /\ UNCHANGED <<multi, pages, netEof, cancel, call, chunk, naps, jobVars>>

(* A loop that only more data, or its absence, were to end.                *)
RestGoesOn == (ReadStop \/ ReadNothing) /\ UNCHANGED netEof

(* No data, or an error: all the same once the page is whole.              *)
RestStops == (ReadStop \/ ReadNothing) /\ netEof' = TRUE

(* ipp_scan_page_end(): the response is read to its end, whatever comes.   *)
Rest ==
    /\ pc = "rest"
    /\ \/ netEof /\ Return("EOF") /\ UNCHANGED <<netEof, jobVars>>
       \/ /\ ~netEof
          /\ \/ \E c \in Chunks : ReadData(c) /\ UNCHANGED netEof
             \/ RestStops
          /\ UNCHANGED <<pc, ret>>
    /\ UNCHANGED <<multi, pages, png, cancel, call, chunk, naps>>

(* ipp_scan_finish(): the service is asked once, its answer is not looked  *)
(* at.                                                                     *)
ScanFinish ==
    /\ png' = NoPng
    /\ \E r \in DocResult : NextDocument(r)
    /\ UNCHANGED <<multi, pages, netEof>>

SessionStep ==
    \/ Reset
    \/ Poll
    \/ Ask
    \/ Nap
    \/ Ready
    \/ Header
    \/ Feed
    \/ Recv
    \/ Decode
    \/ ScanTake
    \/ Rest
=============================================================================
