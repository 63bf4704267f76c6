----------------------------- MODULE MCSaneIpp -----------------------------
(***************************************************************************)
(* Model checking of the backend's scanning calls.                         *)
(***************************************************************************)
EXTENDS SaneIpp

(* A page of two rows with bytes behind its end, and one that libpng       *)
(* rejects after its first row.  Either may break off anywhere.            *)
SomeBodies == {<<"info", "row", "row", "end", "more">>, <<"info", "row", "error">>}

(* An image of no bytes, too.                                              *)
EmptyToo == SomeBodies \cup {<<>>}
=============================================================================
