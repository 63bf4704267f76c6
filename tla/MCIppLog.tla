------------------------------ MODULE MCIppLog -------------------------------
(***************************************************************************)
(* Model checking of the log: three threads, two devices, and files of     *)
(* configuration that override one another.                                *)
(***************************************************************************)
EXTENDS IppLog, TLC

MCWord   == {"true", "no", "~/trace", ""}
MCExpand == [p \in MCWord \ {""} |-> IF p = "~/trace" THEN "/home/trace" ELSE p]

Sec(n) == [kind |-> "section", name |-> n]
Let(n, v) == [kind |-> "setting", name |-> n, value |-> v]
Skipped == [kind |-> "skipped"]

(* Everything on; after it, files that turn it off, that have a setting    *)
(* outside of any section or in another one, and values that it cannot     *)
(* have; and one with many settings by itself.                             *)
On == <<Sec("debug"), Let("enable", "true"), Skipped, Let("trace", "~/trace")>>

Over == {<<>>,
         <<Sec("debug"), Let("trace", ""), Let("enable", "no")>>,
         <<Let("trace", "true"), Let("enable", "no")>>,
         <<Sec("debug"), Let("enable", "~/trace"), Sec("other"), Let("trace", "true")>>,
         <<Sec("other"), Let("enable", "no"), Sec("debug"), Let("other", "no"),
           Let("trace", "no"), Let("trace", "true")>>}

MCFiles == {<< <<>>, On>>} \cup {<<On, f>> : f \in Over} \cup {<<f>> : f \in Over}

MCEnv == {[word |-> "number", number |-> 2], [word |-> "false", number |-> 0]}

Alike == Permutations(Thread) \cup Permutations(Device)
=============================================================================
