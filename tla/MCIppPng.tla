------------------------------ MODULE MCIppPng ------------------------------
(***************************************************************************)
(* Model checking of the PNG decoder.                                      *)
(***************************************************************************)
EXTENDS IppPng, TLC

(* Chunks of up to n events.                                               *)
ChunksUpTo(n) == UNION {[1 .. k -> Event] : k \in 0 .. n}

(* ipp_png_write() does not care how the data was cut: two chunks one      *)
(* after the other leave the decoder as the two together do.  It is what   *)
(* lets IppPng take a call apart into events, and IppScan read a body in   *)
(* chunks of any size.                                                     *)
ASSUME CuttingDoesNotMatter ==
    \A a, b \in ChunksUpTo(3) :
        Write(Write(FreshPng, a), b) = Write(FreshPng, a \o b)
=============================================================================
