------------------------------- MODULE IppPng -------------------------------
(***************************************************************************)
(* The PNG decoder of ipp-png.c: libpng's callbacks on one side, a queue   *)
(* of decoded bytes, and ipp_png_read() on the other.                      *)
(*                                                                         *)
(* A call of ipp_png_write() is taken apart into the callbacks it runs.    *)
(* The row callback is taken apart further, into the steps of              *)
(* ipp_png_queue_add(): rewind an empty queue, grow it until the row fits, *)
(* copy the row.  No other call comes between those three (adding).        *)
(***************************************************************************)
EXTENDS PngContract

CONSTANTS MaxRows,      \* bound: rows of the largest image
          MaxRead       \* bound: largest max_length of an ipp_png_read()

ASSUME DecoderBounds == MaxRows \in Nat /\ MaxRead \in Nat

VARIABLES
    open,               \* the decoder exists
    haveParams,         \* have_params
    ended,              \* ended
    failed,             \* failed
    rows,               \* rows
    queue,              \* queue: [1 .. cap -> bytes], 0 where nothing was stored
    cap,                \* queue_cap
    len,                \* queue_len
    pos,                \* queue_pos
    adding,             \* ipp_png_queue_add() is under way
    taken,              \* history: bytes handed out so far
    out                 \* history: the bytes the last ipp_png_read() gave

flags == <<open, haveParams, ended, failed>>
store == <<rows, queue, cap, len, pos, adding>>
given == <<taken, out>>
vars  == <<flags, store, given>>

NoBytes == [i \in {} |-> 0]

Init ==
    /\ open = FALSE /\ haveParams = FALSE /\ ended = FALSE /\ failed = FALSE
    /\ rows = 0 /\ queue = NoBytes /\ cap = 0
    /\ len = 0 /\ pos = 0 /\ adding = FALSE
    /\ taken = 0 /\ out = <<>>

-----------------------------------------------------------------------------

(* All that a decoder holds, gone or not there yet: calloc(), free().       *)
Cleared ==
    /\ haveParams' = FALSE /\ ended' = FALSE /\ failed' = FALSE
    /\ rows' = 0 /\ queue' = NoBytes /\ cap' = 0
    /\ len' = 0 /\ pos' = 0 /\ adding' = FALSE
    /\ taken' = 0 /\ out' = <<>>

(* ipp_png_new()                                                           *)
New == ~open /\ open' = TRUE /\ Cleared

(* ipp_png_free()                                                          *)
Free == open /\ ~adding /\ open' = FALSE /\ Cleared

(* An ipp_png_write() that does not look at "ended".                       *)
DecodingAfterEnd == open /\ ~failed /\ ~adding

(* libpng is reached by ipp_png_write() only before a failure and before   *)
(* the end of the image.                                                   *)
Decoding == open /\ ~failed /\ ~ended /\ ~adding

Info ==
    /\ Decoding /\ ~haveParams
    /\ haveParams' = TRUE
    /\ UNCHANGED <<open, ended, failed, store, given>>

(* The error callback jumps back into ipp_png_write(): rows queued before  *)
(* the error stay in the queue.                                            *)
Error ==
    /\ Decoding
    /\ failed' = TRUE
    /\ UNCHANGED <<open, haveParams, ended, store, given>>

End ==
    /\ Decoding /\ haveParams
    /\ ended' = TRUE
    /\ UNCHANGED <<open, haveParams, failed, store, given>>

(* A rewind that forgets that a part of the queue may not have been read.  *)
RewindAlways == len' = 0 /\ pos' = 0

(* ipp_png_queue_add() begins: a queue read to its end is rewound.         *)
Rewind ==
    IF pos = len THEN len' = 0 /\ pos' = 0 ELSE UNCHANGED <<len, pos>>

RowBegin ==
    /\ Decoding /\ haveParams /\ rows < MaxRows
    /\ Rewind
    /\ adding' = TRUE
    /\ UNCHANGED <<flags, rows, queue, cap, given>>

(* A check that looks at the row alone and not at what is queued already.  *)
FitsAlone == RowBytes <= cap

Fits == len + RowBytes <= cap

(* One turn of the loop that doubles the capacity.  What realloc() keeps   *)
(* is kept, the rest is not set.                                           *)
Grow ==
    /\ adding /\ ~Fits
    /\ cap' = IF cap # 0 THEN 2 * cap ELSE RowBytes
    /\ queue' = [i \in 1 .. cap' |-> IF i <= cap THEN queue[i] ELSE 0]
    /\ UNCHANGED <<flags, rows, len, pos, adding, given>>

(* memcpy() of the row behind what is queued.                              *)
Copy ==
    /\ adding /\ Fits
    /\ queue' = [i \in 1 .. cap |-> IF i \in len + 1 .. len + RowBytes
                                    THEN rows * RowBytes + i - len
                                    ELSE queue[i]]
    /\ len' = len + RowBytes
    /\ rows' = rows + 1
    /\ adding' = FALSE
    /\ UNCHANGED <<flags, cap, pos, given>>

(* ipp_png_finish()                                                        *)
FinishData ==
    /\ open /\ ~adding
    /\ failed' = (failed \/ ~ended)
    /\ UNCHANGED <<open, haveParams, ended, store, given>>

(* What a read of the given size gives: never more than is held.           *)
Grant(size) == IF size > len - pos THEN len - pos ELSE size

(* ipp_png_read()                                                          *)
ReadQueue(size) ==
    /\ open /\ ~adding
    /\ pos' = pos + Grant(size)
    /\ taken' = taken + Grant(size)
    /\ out' = [i \in 1 .. Grant(size) |-> queue[pos + i]]
    /\ UNCHANGED <<flags, rows, queue, cap, len, adding>>

Next ==
    \/ New
    \/ Info
    \/ Error
    \/ End
    \/ RowBegin
    \/ Grow
    \/ Copy
    \/ FinishData
    \/ \E size \in 1 .. MaxRead : ReadQueue(size)
    \/ Free

Spec == Init /\ [][Next]_vars

-----------------------------------------------------------------------------

(* The fields have their types, and reads and writes of the queue stay     *)
(* inside of the allocated memory: the read position never passes what was *)
(* written, and what was written never passes the capacity, through every  *)
(* rewind, growth and partial read.                                        *)
TypeOK ==
    /\ open \in BOOLEAN /\ haveParams \in BOOLEAN
    /\ ended \in BOOLEAN /\ failed \in BOOLEAN /\ adding \in BOOLEAN
    /\ rows \in Nat
    /\ cap \in Nat
    /\ len \in 0 .. cap
    /\ pos \in 0 .. len
    /\ queue \in [1 .. cap -> Nat]
    /\ taken \in Nat
    /\ out \in Seq(Nat)

(* ipp-png.h, 100-102: "The bytes are rows of pixels, one after another".  *)
(* Whatever the sizes of the reads and wherever the queue was rewound or   *)
(* moved by realloc(), a read gives the bytes of the image that follow the *)
(* ones given before: none lost, none twice, none that was never decoded.  *)
BytesInOrder ==
    \A i \in DOMAIN out : out[i] = taken - Len(out) + i

(* The decoder seen without its queue.                                     *)
Page == INSTANCE PageDecoder WITH
    png <- [open |-> open, params |-> haveParams, ended |-> ended,
            failed |-> failed, rows |-> rows, taken |-> taken]

(* The queue implements what ipp-png.h promises.                           *)
Refines == Page!Spec
=============================================================================
