---------------------------- MODULE IppPngProofs ----------------------------
(***************************************************************************)
(* Theorems about the row queue of the PNG decoder, for rows and images of *)
(* any size and reads of any length.                                       *)
(***************************************************************************)
EXTENDS IppPng, SequenceTheorems, FiniteSetTheorems, TLAPS

Flags ==
    /\ open \in BOOLEAN /\ haveParams \in BOOLEAN
    /\ ended \in BOOLEAN /\ failed \in BOOLEAN /\ adding \in BOOLEAN

(* The queue and what was handed out, as numbers.                          *)
Shape ==
    /\ rows \in Nat /\ cap \in Nat /\ len \in 0 .. cap /\ pos \in 0 .. len
    /\ queue \in [1 .. cap -> Nat]
    /\ taken \in Nat

(* Nothing is lost between libpng and the reader, and what waits in the    *)
(* queue is what comes next.                                               *)
Balance ==
    /\ taken + (len - pos) = rows * RowBytes
    /\ \A i \in pos + 1 .. len : queue[i] = taken + (i - pos)

(* The bytes of the last read.                                             *)
Given == out \in Seq(Nat) /\ BytesInOrder

QueueInv == Flags /\ Shape /\ Balance /\ Given

LEMMA StepFlags == Flags /\ [Next]_vars => Flags'
<1> SUFFICES ASSUME Flags, [Next]_vars
             PROVE  Flags'
    OBVIOUS
<1> USE DEF Flags
<1>1. CASE New \/ Free
    BY <1>1, Zenon DEF New, Free, Cleared
<1>2. CASE Info \/ Error \/ End
    BY <1>2, Zenon DEF Info, Error, End, store
<1>3. CASE RowBegin \/ Grow \/ Copy
    BY <1>3, Zenon DEF RowBegin, Grow, Copy, flags
<1>4. CASE FinishData
    BY <1>4, Zenon DEF FinishData, store
<1>5. ASSUME NEW size \in 1 .. MaxRead, ReadQueue(size)
      PROVE  Flags'
    BY <1>5, Zenon DEF ReadQueue, flags
<1>6. CASE UNCHANGED vars
    BY <1>6, Zenon DEF vars, flags, store
<1>7. QED
    BY <1>1, <1>2, <1>3, <1>4, <1>5, <1>6 DEF Next

LEMMA ClearedQueue == Cleared => Shape' /\ Balance' /\ Given'
<1> SUFFICES ASSUME Cleared
             PROVE  Shape' /\ Balance' /\ Given'
    OBVIOUS
<1>1. Shape'
    BY DEF Cleared, Shape, NoBytes
<1>2. Balance'
    BY RowBytesAssumption DEF Cleared, Balance
<1>3. Given'
    BY DEF Cleared, Given, BytesInOrder
<1>4. QED
    BY <1>1, <1>2, <1>3

LEMMA InitQueue == Init => QueueInv
<1> SUFFICES ASSUME Init
             PROVE  QueueInv
    OBVIOUS
<1>1. Flags
    BY Zenon DEF Init, Flags
<1>2. Shape
    BY DEF Init, Shape, NoBytes
<1>3. Balance
    BY RowBytesAssumption DEF Init, Balance
<1>4. Given
    BY DEF Init, Given, BytesInOrder
<1>5. QED
    BY <1>1, <1>2, <1>3, <1>4 DEF QueueInv

(* The three steps of ipp_png_queue_add().                                 *)
LEMMA RowBeginQueue == QueueInv /\ RowBegin => Shape' /\ Balance'
<1> SUFFICES ASSUME QueueInv, RowBegin
             PROVE  Shape' /\ Balance'
    OBVIOUS
<1> USE DEF QueueInv, RowBegin, Rewind, given, Shape, Balance
<1>1. CASE pos = len
    BY <1>1, RowBytesAssumption
<1>2. CASE pos # len
    BY <1>2, RowBytesAssumption
<1>3. QED
    BY <1>1, <1>2

LEMMA GrowQueue == QueueInv /\ Grow => Shape' /\ Balance'
<1> SUFFICES ASSUME QueueInv, Grow
             PROVE  Shape' /\ Balance'
    OBVIOUS
<1> USE RowBytesAssumption DEF QueueInv, Shape, given
<1>1. cap' \in Nat /\ cap <= cap'
    BY DEF Grow
<1>2. queue' \in [1 .. cap' -> Nat]
    BY <1>1 DEF Grow
<1>3. \A i \in 1 .. cap : queue'[i] = queue[i]
    BY <1>1 DEF Grow
<1>4. Shape'
    BY <1>1, <1>2 DEF Grow
<1>5. Balance'
    BY <1>3 DEF Grow, Balance
<1>6. QED
    BY <1>4, <1>5

LEMMA CopyQueue == QueueInv /\ Copy => Shape' /\ Balance'
<1> SUFFICES ASSUME QueueInv, Copy
             PROVE  Shape' /\ Balance'
    OBVIOUS
<1> USE RowBytesAssumption DEF QueueInv, Shape, given
<1>1. rows * RowBytes \in Nat /\ rows' * RowBytes = rows * RowBytes + RowBytes
    BY DEF Copy
<1>2. /\ len' = len + RowBytes /\ len' <= cap /\ cap' = cap
      /\ pos' = pos /\ taken' = taken
    BY DEF Copy, Fits
<1>3. \A i \in 1 .. cap :
        queue'[i] = IF i \in len + 1 .. len + RowBytes
                    THEN rows * RowBytes + i - len ELSE queue[i]
    BY DEF Copy
<1>4. queue' \in [1 .. cap -> Nat]
    BY <1>1 DEF Copy
<1>5. Shape'
    BY <1>2, <1>4 DEF Copy
<1>6. ASSUME NEW i \in pos + 1 .. len + RowBytes
      PROVE  queue'[i] = taken + (i - pos)
    <2>1. i \in 1 .. cap /\ i \in Int
        BY <1>2
    <2>a. taken + (len - pos) = rows * RowBytes
        BY DEF Balance
    <2>2. CASE i \in len + 1 .. len + RowBytes
        <3>1. queue'[i] = rows * RowBytes + i - len
            BY <1>3, <2>1, <2>2
        <3>2. QED
            BY <1>1, <2>1, <2>a, <3>1
    <2>3. CASE i \notin len + 1 .. len + RowBytes
        <3>1. i \in pos + 1 .. len
            BY <2>1, <2>3
        <3>2. queue[i] = taken + (i - pos)
            BY <3>1 DEF Balance
        <3>3. QED
            BY <1>3, <2>1, <2>3, <3>2
    <2>4. QED
        BY <2>2, <2>3
<1>7. Balance'
    BY <1>1, <1>2, <1>6 DEF Balance
<1>8. QED
    BY <1>5, <1>7

(* ipp_png_read()                                                          *)
LEMMA ReadQueueStep ==
    ASSUME QueueInv, NEW size \in 1 .. MaxRead, ReadQueue(size)
    PROVE  Shape' /\ Balance' /\ Given'
<1> DEFINE n == Grant(size)
<1> USE DecoderBounds, RowBytesAssumption DEF QueueInv, Shape
<1>1. n \in Nat /\ n <= len - pos
    BY DEF Grant
<1>2. /\ pos' = pos + n /\ taken' = taken + n
      /\ out' = [i \in 1 .. n |-> queue[pos + i]]
      /\ len' = len /\ cap' = cap /\ queue' = queue /\ rows' = rows
    BY DEF ReadQueue
<1> HIDE DEF n
<1>3. Shape'
    BY <1>1, <1>2
<1>4. Balance'
    BY <1>1, <1>2 DEF Balance
<1>5. \A i \in 1 .. n : queue[pos + i] \in Nat /\ queue[pos + i] = taken + i
    BY <1>1 DEF Balance
<1>6. out' \in Seq(Nat) /\ Len(out') = n
    BY <1>1, <1>2, <1>5
<1>7. \A i \in DOMAIN out' : out'[i] = taken' - Len(out') + i
    <2>1. DOMAIN out' = 1 .. n
        BY <1>2
    <2>2. ASSUME NEW i \in 1 .. n
          PROVE  out'[i] = taken' - Len(out') + i
        <3>1. out'[i] = taken + i
            BY <1>2, <1>5
        <3>2. taken' - Len(out') = taken
            BY <1>1, <1>2, <1>6
        <3>3. QED
            BY <3>1, <3>2
    <2>3. QED
        BY <2>1, <2>2
<1>8. Given'
    BY <1>6, <1>7 DEF Given, BytesInOrder
<1>9. QED
    BY <1>3, <1>4, <1>8

LEMMA StepQueue == QueueInv /\ [Next]_vars => QueueInv'
<1> SUFFICES ASSUME QueueInv, [Next]_vars
             PROVE  QueueInv'
    OBVIOUS
<1>0. Flags'
    BY StepFlags DEF QueueInv
<1>1. CASE New \/ Free
    BY <1>0, <1>1, ClearedQueue DEF New, Free, QueueInv
<1>2. CASE UNCHANGED <<store, given>>
    BY <1>0, <1>2 DEF QueueInv, Shape, Balance, Given, BytesInOrder, store, given
<1>3. CASE Info \/ Error \/ End \/ FinishData
    BY <1>2, <1>3 DEF Info, Error, End, FinishData
<1>4. CASE RowBegin \/ Grow \/ Copy
    <2>1. Shape' /\ Balance'
        BY <1>4, RowBeginQueue, GrowQueue, CopyQueue
    <2>2. Given'
        BY <1>4 DEF QueueInv, Given, BytesInOrder, RowBegin, Grow, Copy, given
    <2>3. QED
        BY <1>0, <2>1, <2>2 DEF QueueInv
<1>5. ASSUME NEW size \in 1 .. MaxRead, ReadQueue(size)
      PROVE  QueueInv'
    BY <1>0, <1>5, ReadQueueStep DEF QueueInv
<1>6. CASE UNCHANGED vars
    BY <1>2, <1>6 DEF vars
<1>7. QED
    BY <1>1, <1>3, <1>4, <1>5, <1>6 DEF Next

THEOREM QueueInvariant == Spec => []QueueInv
BY InitQueue, StepQueue, PTL DEF Spec

(* The queue never leaves the memory allocated for it, however rows and    *)
(* reads of any size alternate (ipp_png_queue_add(), ipp_png_read()).      *)
THEOREM QueueTypeCorrect == Spec => []TypeOK
<1>1. QueueInv => TypeOK
    BY DEF QueueInv, Flags, Shape, Given, TypeOK
<1>2. QED
    BY <1>1, QueueInvariant, PTL

(* The bytes of an image come out of the decoder in order, each of them    *)
(* once (ipp-png.h, 98-105).                                               *)
THEOREM BytesComeInOrder == Spec => []BytesInOrder
<1>1. QueueInv => BytesInOrder
    BY DEF QueueInv, Given
<1>2. QED
    BY <1>1, QueueInvariant, PTL

-----------------------------------------------------------------------------
(* The queue implements PageDecoder.                                       *)

(* A row is put in the queue on behalf of a callback that libpng may make. *)
RowInv == adding => open /\ haveParams /\ ~failed /\ ~ended /\ rows < MaxRows

LEMMA RowInvHolds == Spec => []RowInv
<1>1. Init => RowInv
    BY Zenon DEF Init, RowInv
<1>2. RowInv /\ [Next]_vars => RowInv'
    <2> SUFFICES ASSUME RowInv, [Next]_vars
                 PROVE  RowInv'
        OBVIOUS
    <2> USE DEF RowInv
    <2>1. CASE New \/ Free \/ Copy
        BY <2>1, Zenon DEF New, Free, Cleared, Copy
    <2>2. CASE Info \/ Error \/ End
        BY <2>2, Zenon DEF Info, Error, End, Decoding, store
    <2>3. CASE RowBegin
        BY <2>3, Zenon DEF RowBegin, Decoding, flags
    <2>4. CASE Grow
        BY <2>4, Zenon DEF Grow, flags
    <2>5. CASE FinishData
        BY <2>5, Zenon DEF FinishData, store
    <2>6. ASSUME NEW size \in 1 .. MaxRead, ReadQueue(size)
          PROVE  RowInv'
        BY <2>6, Zenon DEF ReadQueue, flags
    <2>7. CASE UNCHANGED vars
        BY <2>7, Zenon DEF vars, flags, store
    <2>8. QED
        BY <2>1, <2>2, <2>3, <2>4, <2>5, <2>6, <2>7 DEF Next
<1>3. QED
    BY <1>1, <1>2, PTL DEF Spec

(* What a chunk of one event comes to.                                     *)
LEMMA OneEvent ==
    ASSUME NEW e \in Event
    PROVE  /\ \A f \in Event : Page!Has(<<e>>, f) <=> e = f
           /\ Page!RowsIn(<<e>>) = IF e = "row" THEN 1 ELSE 0
<1>1. Page!Reached(<<e>>) = {1}
    BY DEF Page!Reached
<1>2. <<e>>[1] = e
    OBVIOUS
<1>3. \A f \in Event : Page!Has(<<e>>, f) <=> e = f
    BY <1>1, <1>2 DEF Page!Has
<1>4. {i \in Page!Reached(<<e>>) : <<e>>[i] = "row"} = IF e = "row" THEN {1} ELSE {}
    BY <1>1, <1>2
<1>5. Page!RowsIn(<<e>>) = IF e = "row" THEN 1 ELSE 0
    <2>1. Page!RowsIn(<<e>>) = Cardinality({i \in Page!Reached(<<e>>) : <<e>>[i] = "row"})
        BY Zenon DEF Page!RowsIn, Page!Cardinality, Cardinality
    <2>2. Cardinality({1}) = 1 /\ Cardinality({}) = 0
        BY FS_Singleton, FS_EmptySet
    <2>3. QED
        BY ONLY <1>4, <2>1, <2>2, Zenon
<1>6. QED
    BY <1>3, <1>5

(* The decoder of the contract.                                            *)
Seen == [open |-> open, params |-> haveParams, ended |-> ended,
         failed |-> failed, rows |-> rows, taken |-> taken]

LEMMA Updated ==
    ASSUME NEW p, NEW a, NEW n, NEW b, NEW c, NEW x, NEW m,
           x = (p.params \/ a), m = p.rows + n
    PROVE  [p EXCEPT !.params = @ \/ a, !.rows = @ + n, !.ended = b, !.failed = c]
             = [p EXCEPT !.params = x, !.rows = m, !.ended = b, !.failed = c]
BY Zenon

LEMMA SeenUpdated ==
    ASSUME NEW x, NEW m, NEW b, NEW c
    PROVE  [Seen EXCEPT !.params = x, !.rows = m, !.ended = b, !.failed = c]
             = [open |-> open, params |-> x, ended |-> b, failed |-> c,
                rows |-> m, taken |-> taken]
<1> DEFINE R(p, e, f, r) == [open |-> open, params |-> p, ended |-> e, failed |-> f,
                             rows |-> r, taken |-> taken]
<1>1. Seen = R(haveParams, ended, failed, rows)
    BY DEF Seen
<1>2. [R(haveParams, ended, failed, rows) EXCEPT !.params = x] = R(x, ended, failed, rows)
    OBVIOUS
<1>3. [R(x, ended, failed, rows) EXCEPT !.rows = m] = R(x, ended, failed, m)
    OBVIOUS
<1>4. [R(x, ended, failed, m) EXCEPT !.ended = b] = R(x, b, failed, m)
    OBVIOUS
<1>5. [R(x, b, failed, m) EXCEPT !.failed = c] = R(x, b, c, m)
    OBVIOUS
<1> HIDE DEF R
<1>6. [Seen EXCEPT !.params = x, !.rows = m, !.ended = b, !.failed = c]
        = [[[[Seen EXCEPT !.params = x] EXCEPT !.rows = m]
                EXCEPT !.ended = b] EXCEPT !.failed = c]
    OBVIOUS
<1>7. [Seen EXCEPT !.params = x, !.rows = m, !.ended = b, !.failed = c] = R(x, b, c, m)
    BY ONLY <1>1, <1>2, <1>3, <1>4, <1>5, <1>6, Zenon
<1>8. QED
    BY <1>7 DEF R

LEMMA PushStep ==
    ASSUME NEW e \in Event, open, ~failed, ~ended, Flags, rows \in Nat,
           e = "info" => ~haveParams,
           e = "row" => haveParams /\ rows < MaxRows,
           e = "end" => haveParams,
           Flags', open',
           haveParams' <=> haveParams \/ e = "info",
           ended' <=> e = "end",
           failed' <=> e = "error",
           rows' = rows + IF e = "row" THEN 1 ELSE 0,
           UNCHANGED given
    PROVE  Page!Push(e)
<1>1. Page!Legal(e)
    BY DEF Page!Legal, Event
<1>2. Seen.open /\ ~Seen.failed /\ ~Seen.ended
    BY DEF Seen
<1>3. /\ "info" \in Event /\ "end" \in Event /\ "error" \in Event
      /\ Page!RowsIn(<<e>>) = IF e = "row" THEN 1 ELSE 0
      /\ \A f \in Event : Page!Has(<<e>>, f) <=> e = f
    BY OneEvent DEF Event
<1>4. Page!Write(Seen, <<e>>)
        = [Seen EXCEPT !.params = @ \/ Page!Has(<<e>>, "info"),
                       !.rows   = @ + Page!RowsIn(<<e>>),
                       !.ended  = Page!Has(<<e>>, "end"),
                       !.failed = Page!Has(<<e>>, "error")]
    BY <1>2 DEF Page!Write
<1>5. /\ (haveParams \/ Page!Has(<<e>>, "info")) = haveParams'
      /\ Page!Has(<<e>>, "end") = ended'
      /\ Page!Has(<<e>>, "error") = failed'
    <2>1. /\ Page!Has(<<e>>, "info") \in BOOLEAN
          /\ Page!Has(<<e>>, "end") \in BOOLEAN
          /\ Page!Has(<<e>>, "error") \in BOOLEAN
        BY Zenon DEF Page!Has
    <2>2. QED
        BY <1>3, <2>1, Zenon DEF Flags
<1>7. Page!Write(Seen, <<e>>)
        = [Seen EXCEPT !.params = haveParams', !.rows = rows',
                       !.ended = Page!Has(<<e>>, "end"),
                       !.failed = Page!Has(<<e>>, "error")]
    <2>1. haveParams' = (Seen.params \/ Page!Has(<<e>>, "info"))
        BY <1>5, Zenon DEF Seen
    <2>2. rows' = Seen.rows + Page!RowsIn(<<e>>)
        BY <1>3 DEF Seen
    <2>3. QED
        BY ONLY <1>4, <2>1, <2>2, Updated, Zenon
<1>8. Page!Write(Seen, <<e>>) = Seen'
    BY <1>5, <1>7, SeenUpdated DEF Seen, given
<1>9. QED
    BY <1>1, <1>2, <1>8 DEF Page!Push, Seen, given

(* ipp_png_finish() changes at most the one flag.                          *)
LEMMA FinishStep == Flags /\ FinishData => Page!EndOfData
<1> SUFFICES ASSUME Flags, FinishData
             PROVE  Page!EndOfData
    OBVIOUS
<1>1. /\ open /\ failed' = (failed \/ ~ended)
      /\ UNCHANGED <<open, haveParams, ended, rows, taken, out>>
    BY Zenon DEF FinishData, store, given
<1>2. Seen.open /\ failed' = (Seen.failed \/ ~Seen.ended)
    BY <1>1, Zenon DEF Seen
<1>3. Page!Finish(Seen) = [Seen EXCEPT !.failed = failed']
    BY ONLY <1>2, Zenon DEF Page!Finish
<1>4. [Seen EXCEPT !.failed = failed']
        = [open |-> open, params |-> haveParams, ended |-> ended,
           failed |-> failed', rows |-> rows, taken |-> taken]
    BY DEF Seen
<1>5. Page!Finish(Seen) = Seen'
    BY <1>1, <1>3, <1>4, Zenon DEF Seen
<1>6. QED
    BY <1>1, <1>2, <1>5 DEF Page!EndOfData, Seen

(* What is read is what comes next, and no more than there is.             *)
LEMMA ReadStep ==
    ASSUME QueueInv, NEW size \in 1 .. MaxRead, ReadQueue(size)
    PROVE  \E n \in 0 .. MaxRead : Page!Read(n)
<1> DEFINE n == Grant(size)
<1>1. n \in 0 .. MaxRead /\ n <= len - pos
    BY DecoderBounds DEF Grant, QueueInv, Shape
<1>2. /\ open /\ taken' = taken + n
      /\ out' = [i \in 1 .. n |-> queue[pos + i]]
      /\ UNCHANGED <<open, haveParams, ended, failed, rows>>
    BY DEF ReadQueue, flags
<1> HIDE DEF n
<1>3. Seen.open /\ Seen.taken = taken /\ Seen.rows = rows
    BY <1>2 DEF Seen
<1>4. rows * RowBytes \in Nat /\ rows * RowBytes - taken = len - pos
    BY RowBytesAssumption DEF QueueInv, Shape, Balance
<1>5. n <= Page!Held(Seen)
    BY <1>1, <1>3, <1>4 DEF Page!Held
<1>6. out' = [i \in 1 .. n |-> Seen.taken + i]
    <2>1. \A i \in 1 .. n : queue[pos + i] = taken + i
        <3> TAKE i \in 1 .. n
        <3>1. pos + i \in pos + 1 .. len /\ pos + i - pos = i
            BY <1>1 DEF QueueInv, Shape
        <3>2. QED
            BY <3>1 DEF QueueInv, Shape, Balance
    <2>2. QED
        BY <1>2, <1>3, <2>1
<1>7. Page!Take(Seen, n) = Seen'
    <2>1. Page!Take(Seen, n) = [Seen EXCEPT !.taken = @ + n]
        BY DEF Page!Take
    <2>2. @ = [open |-> open, params |-> haveParams, ended |-> ended,
               failed |-> failed, rows |-> rows, taken |-> taken + n]
        BY DEF Seen
    <2>3. QED
        BY <1>2, <2>1, <2>2 DEF Seen
<1>8. Page!Read(n)
    BY <1>3, <1>5, <1>6, <1>7 DEF Page!Read, Seen
<1>9. QED
    BY <1>1, <1>8

LEMMA NoDecoder ==
    Page!NoPng = [open |-> FALSE, params |-> FALSE, ended |-> FALSE,
                  failed |-> FALSE, rows |-> 0, taken |-> 0]
<1> DEFINE R(x, y) == [open |-> x, params |-> y, ended |-> y,
                       failed |-> y, rows |-> 0, taken |-> 0]
<1>1. \A x, y, z : [R(x, y) EXCEPT !.open = z] = R(z, y)
    OBVIOUS
<1>2. Page!FreshPng = R(TRUE, FALSE)
    BY Zenon DEF Page!FreshPng
<1> HIDE DEF R
<1>3. Page!NoPng = R(FALSE, FALSE)
    BY <1>1, <1>2, Zenon DEF Page!NoPng
<1>4. QED
    BY <1>3, Zenon DEF R

(* Every step of the queue is one of the contract, or none.                *)
LEMMA QueueImplementsStep == QueueInv /\ RowInv /\ [Next]_vars => [Page!Next]_(Page!vars)
<1> SUFFICES ASSUME QueueInv, RowInv, [Next]_vars
             PROVE  [Page!Next]_(Page!vars)
    OBVIOUS
<1> USE DEF Page!Next
<1>1. Flags /\ Flags' /\ rows \in Nat
    BY StepFlags DEF QueueInv, Shape
<1>2. CASE New
    <2>1. Page!New
        BY <1>2 DEF New, Cleared, Page!New, Page!FreshPng
    <2>2. QED
        BY <2>1
<1>3. CASE Free
    <2>1. open' = FALSE /\ Cleared /\ open
        BY <1>3 DEF Free
    <2>2. Page!NoPng = [open |-> FALSE, params |-> FALSE, ended |-> FALSE,
                        failed |-> FALSE, rows |-> 0, taken |-> 0]
        BY NoDecoder
    <2>3. Page!Free
        BY <2>1, <2>2 DEF Cleared, Page!Free
    <2>4. QED
        BY <2>3
<1>4. CASE Info
    <2>1. Page!Push("info")
        <3>1. /\ open /\ ~failed /\ ~ended /\ open' /\ UNCHANGED given
              /\ haveParams' <=> haveParams \/ "info" = "info"
              /\ ended' <=> "info" = "end"
              /\ failed' <=> "info" = "error"
            BY <1>4 DEF Info, Decoding, store
        <3>2. ~haveParams /\ UNCHANGED rows
            BY <1>1, <1>4 DEF Info, Decoding, store
        <3>3. QED
            BY <1>1, <3>1, <3>2, PushStep, "info" \in Event DEF Event
    <2>2. QED
        BY <2>1 DEF Page!Event
<1>5. CASE Error
    <2>1. Page!Push("error")
        <3>1. /\ open /\ ~failed /\ ~ended /\ open' /\ UNCHANGED given
              /\ haveParams' <=> haveParams \/ "error" = "info"
              /\ ended' <=> "error" = "end"
              /\ failed' <=> "error" = "error"
            BY <1>5 DEF Error, Decoding, store
        <3>2. UNCHANGED rows
            BY <1>1, <1>5 DEF Error, Decoding, store
        <3>3. QED
            BY <1>1, <3>1, <3>2, PushStep, "error" \in Event DEF Event
    <2>2. QED
        BY <2>1 DEF Page!Event
<1>6. CASE End
    <2>1. Page!Push("end")
        <3>1. /\ open /\ ~failed /\ ~ended /\ open' /\ UNCHANGED given
              /\ haveParams' <=> haveParams \/ "end" = "info"
              /\ ended' <=> "end" = "end"
              /\ failed' <=> "end" = "error"
            BY <1>6 DEF End, Decoding, store
        <3>2. haveParams /\ UNCHANGED rows
            BY <1>1, <1>6 DEF End, Decoding, store
        <3>3. QED
            BY <1>1, <3>1, <3>2, PushStep, "end" \in Event DEF Event
    <2>2. QED
        BY <2>1 DEF Page!Event
<1>7. CASE Copy
    <2>1. Page!Push("row")
        <3>1. /\ open /\ ~failed /\ ~ended /\ open' /\ UNCHANGED given
              /\ haveParams' <=> haveParams \/ "row" = "info"
              /\ ended' <=> "row" = "end"
              /\ failed' <=> "row" = "error"
            BY <1>7 DEF Copy, RowInv, flags
        <3>2. haveParams /\ rows < MaxRows /\ rows' = rows + 1
            BY <1>1, <1>7 DEF Copy, RowInv, flags
        <3>3. QED
            BY <1>1, <3>1, <3>2, PushStep, "row" \in Event DEF Event
    <2>2. QED
        BY <2>1 DEF Page!Event
<1>8. CASE RowBegin \/ Grow
    BY <1>8 DEF RowBegin, Grow, flags, given, Page!vars
<1>9. CASE FinishData
    BY <1>1, <1>9, FinishStep
<1>10. ASSUME NEW size \in 1 .. MaxRead, ReadQueue(size)
       PROVE  [Page!Next]_(Page!vars)
    BY <1>10, ReadStep
<1>11. CASE UNCHANGED vars
    BY <1>11 DEF vars, flags, store, given, Page!vars
<1>12. QED
    BY <1>2, <1>3, <1>4, <1>5, <1>6, <1>7, <1>8, <1>9, <1>10, <1>11 DEF Next

(* The decoder with its queue keeps the promise of ipp-png.h: rows are     *)
(* taken out in the order libpng made them, whatever the two sides do.     *)
THEOREM QueueImplementsDecoder == Spec => Refines
<1>1. Init => Page!Init
    <2>1. Page!NoPng = [open |-> FALSE, params |-> FALSE, ended |-> FALSE,
                        failed |-> FALSE, rows |-> 0, taken |-> 0]
        BY NoDecoder
    <2>2. QED
        BY <2>1 DEF Init, Page!Init
<1>2. QED
    BY <1>1, QueueImplementsStep, QueueInvariant, RowInvHolds, PTL
       DEF Spec, Refines, Page!Spec
=============================================================================
