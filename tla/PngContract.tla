---------------------------- MODULE PngContract ----------------------------
(***************************************************************************)
(* What one call of the PNG decoder (ipp-png.c) does, as operators on the  *)
(* state of a decoder.                                                     *)
(*                                                                         *)
(* The bytes of an image are numbered 1, 2, 3, ... in the order they leave *)
(* libpng, so the rows the decoder holds but has not handed out are the    *)
(* bytes taken + 1 .. rows * RowBytes: two counters describe the queue.    *)
(* IppPng has the queue itself and is shown to implement these operators.  *)
(*                                                                         *)
(* Encoded data is abstracted to what libpng makes of it, a sequence of    *)
(* events:                                                                 *)
(*   "info"  the header is complete, and the image is one we decode        *)
(*   "row"   one more row is complete                                      *)
(*   "end"   the image is complete                                         *)
(*   "error" libpng (or the info callback, for an interlaced image) gives  *)
(*           up                                                            *)
(*   "more"  bytes that complete nothing                                   *)
(***************************************************************************)
EXTENDS Integers, Sequences, FiniteSets

CONSTANT RowBytes       \* bytes_per_line of the image

ASSUME RowBytesAssumption == RowBytes \in Nat \ {0}

Event == {"info", "row", "end", "error", "more"}

(* A decoder.  open: it exists.  rows: rows decoded so far.  taken: bytes  *)
(* handed out so far.                                                      *)
Decoder == [open : BOOLEAN, params : BOOLEAN, ended : BOOLEAN,
            failed : BOOLEAN, rows : Nat, taken : Nat]

FreshPng == [open |-> TRUE, params |-> FALSE, ended |-> FALSE,
             failed |-> FALSE, rows |-> 0, taken |-> 0]

NoPng == [FreshPng EXCEPT !.open = FALSE]

(* The events of a chunk libpng gets to: it jumps out at the first error   *)
(* and takes nothing more once the image has ended.                        *)
Reached(chunk) ==
    {i \in DOMAIN chunk : \A j \in 1 .. i - 1 : chunk[j] \notin {"error", "end"}}

Has(chunk, e) == \E i \in Reached(chunk) : chunk[i] = e

RowsIn(chunk) == Cardinality({i \in Reached(chunk) : chunk[i] = "row"})

(* The whole image is there.                                               *)
Whole(chunk) == Has(chunk, "end")

(* Bytes decoded and not taken.                                            *)
Held(p) == p.rows * RowBytes - p.taken

(* ipp_png_write(): the decoder after a chunk.  It returned -1 exactly     *)
(* when the result has failed.                                             *)
Write(p, chunk) ==
    IF p.failed \/ p.ended THEN p
    ELSE [p EXCEPT !.params = @ \/ Has(chunk, "info"),
                   !.rows   = @ + RowsIn(chunk),
                   !.ended  = Has(chunk, "end"),
                   !.failed = Has(chunk, "error")]

(* ipp_png_finish(): data that stops before the end of the image is data   *)
(* that was cut short.                                                     *)
Finish(p) == [p EXCEPT !.failed = @ \/ ~p.ended]

(* ipp_png_read(): n bytes are taken, n never more than there are.         *)
Take(p, n) == [p EXCEPT !.taken = @ + n]

(* ipp_png_eof()                                                           *)
Eof(p) == p.ended /\ Held(p) = 0
============================================================================
