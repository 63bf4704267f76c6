----------------------------- MODULE SanePages ------------------------------
(***************************************************************************)
(* What the scanning calls promise a frontend (sane-ipp.c, "Scanning"),    *)
(* with nothing said of how: a page begins with a sane_start() that        *)
(* returns GOOD, each sane_read() that returns GOOD brings some more of    *)
(* it, and the one that does not is the last, with EOF only for a page     *)
(* that is whole and has been given in full.  SaneIpp is shown to          *)
(* implement this.                                                         *)
(***************************************************************************)
EXTENDS Integers

CONSTANT Image          \* [bytes : Nat, whole : BOOLEAN]: how many bytes a page
                        \* has, and whether it came to its end

VARIABLES
    busy,           \* the call in progress, or "none"
    open,           \* a page is there to be read
    image,          \* which one, NoImage for none
    got,            \* bytes of it given so far
    status          \* what the call returns or the last one did, or "none"

pageVars == <<busy, open, image, got, status>>

NoImage == [bytes |-> 0, whole |-> FALSE]

StartFailure == {"CANCELLED", "NO_DOCS", "IO_ERROR", "UNSUPPORTED", "NO_MEM"}
ReadFailure  == {"CANCELLED", "IO_ERROR"}

NoPage == open' = FALSE /\ image' = NoImage /\ got' = 0

Init ==
    /\ busy = "none" /\ status = "GOOD"
    /\ open = FALSE /\ image = NoImage /\ got = 0

(* sane_start() gives up the page there is, and may bring another one.     *)
Start ==
    /\ busy = "none"
    /\ busy' = "start" /\ status' = "none"
    /\ NoPage

Started ==
    /\ busy = "start" /\ status = "none"
    /\ busy' = "none" /\ status' = "GOOD"
    /\ open' = TRUE /\ image' \in Image /\ got' = 0

NotStarted ==
    /\ busy = "start" /\ status = "none"
    /\ status' \in StartFailure
    /\ UNCHANGED <<busy, open, image, got>>

(* sane_read() with no page to read.                                       *)
ReadRefused ==
    /\ busy = "none" /\ ~open
    /\ status' \in {"CANCELLED", "INVAL"}
    /\ UNCHANGED <<busy, open, image, got>>

Read ==
    /\ busy = "none" /\ open
    /\ busy' = "read" /\ status' = "none"
    /\ UNCHANGED <<open, image, got>>

(* Some of the page, never nothing.                                        *)
Give ==
    /\ busy = "read" /\ status = "none"
    /\ got' \in got + 1 .. image.bytes
    /\ status' = "GOOD"
    /\ UNCHANGED <<busy, open, image>>

(* The end of the page.  A call may have more to do before it returns.     *)
ReadEnds ==
    /\ busy = "read" /\ status = "none"
    /\ \/ status' = "EOF" /\ image.whole /\ got = image.bytes
       \/ status' \in ReadFailure
    /\ busy' \in {"none", "read"}
    /\ NoPage

Leave ==
    /\ busy # "none" /\ status # "none"
    /\ busy' = "none"
    /\ UNCHANGED <<open, image, got, status>>

(* sane_close(), and the next device.                                      *)
Close == busy = "none" /\ status' = "GOOD" /\ NoPage /\ UNCHANGED busy

Next ==
    \/ Start
    \/ Started
    \/ NotStarted
    \/ ReadRefused
    \/ Read
    \/ Give
    \/ ReadEnds
    \/ Leave
    \/ Close

Spec == Init /\ [][Next]_pageVars
=============================================================================
