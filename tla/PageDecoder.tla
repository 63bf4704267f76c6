---------------------------- MODULE PageDecoder ----------------------------
(***************************************************************************)
(* What ipp-png.h promises of a decoder: the caller pushes in encoded data *)
(* and takes out pixels, neither waits for the other, and the bytes come   *)
(* out in order, each of them once.  The queue between the two is not      *)
(* here: it is IppPng's way of keeping the promise.                        *)
(***************************************************************************)
EXTENDS PngContract

CONSTANTS MaxRows,      \* rows of the largest image
          MaxRead       \* largest max_length of an ipp_png_read()

VARIABLES png,          \* the decoder
          out           \* the bytes the last ipp_png_read() gave

vars == <<png, out>>

Init == png = NoPng /\ out = <<>>

(* ipp_png_new()                                                           *)
New == ~png.open /\ png' = FreshPng /\ out' = <<>>

(* What libpng may report next: one header, rows only after it.            *)
Legal(e) ==
    CASE e = "info" -> ~png.params
      [] e = "row"  -> png.params /\ png.rows < MaxRows
      [] e = "end"  -> png.params
      [] OTHER      -> TRUE

Push(e) ==
    /\ png.open
    /\ ~png.failed /\ ~png.ended => Legal(e)
    /\ png' = Write(png, <<e>>)
    /\ UNCHANGED out

EndOfData == png.open /\ png' = Finish(png) /\ UNCHANGED out

(* n bytes come out, the ones that follow what came out before.            *)
Read(n) ==
    /\ png.open
    /\ n <= Held(png)
    /\ png' = Take(png, n)
    /\ out' = [i \in 1 .. n |-> png.taken + i]

Free == png.open /\ png' = NoPng /\ out' = <<>>

Next ==
    \/ New
    \/ \E e \in Event : Push(e)
    \/ EndOfData
    \/ \E n \in 0 .. MaxRead : Read(n)
    \/ Free

Spec == Init /\ [][Next]_vars
============================================================================
