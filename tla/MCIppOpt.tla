------------------------------ MODULE MCIppOpt ------------------------------
(***************************************************************************)
(* Model checking of the options of four services.                         *)
(***************************************************************************)
EXTENDS IppOpt

Dots(n)  == [x |-> n, y |-> n, units |-> "inch"]
Span(n)    == [tag |-> "range", lower |-> 0, upper |-> n]
Exactly(n) == [tag |-> "integer", value |-> n]

Region(ox, oy, dx, dy) ==
    [m \in Member |-> IF m[1] = "origin" THEN IF m[2] = "x" THEN ox ELSE oy
                      ELSE IF m[2] = "x" THEN dx ELSE dy]

Nothing ==
    [colorModes |-> <<>>, sources |-> <<>>, sides |-> <<>>, media |-> <<>>,
     resolutions |-> <<>>, regions |-> <<>>, others |-> 0]

(* A platen and a feeder; modes that collapse; resolutions on both sides   *)
(* of 300, one twice, and two of no use; a region that starts only near to *)
(* the edge, one that starts beyond the area, and half a one.              *)
Office ==
    [colorModes |-> <<"auto", "color_8", "rgb_16", NULL, "monochrome_16", "monochrome_8", "bi-level">>,
     sources |-> <<"adf", "platen">>,
     sides |-> <<"two-sided-short-edge", "one-sided">>,
     media |-> <<"na_ledger">>,
     resolutions |-> <<Dots(400), Dots(200), Dots(400), Dots(0),
                       [x |-> 300, y |-> 600, units |-> "inch"],
                       [x |-> 300, y |-> 300, units |-> "cm"]>>,
     regions |-> <<Region(Span(10000), Span(30000), Exactly(21590), Span(29700)),
                   [m \in {<<"origin", "x">>} |-> Span(32767)]>>,
     others |-> 1]

(* Only media say how large the area is, for the region has no height.     *)
Film ==
    [Nothing EXCEPT !.colorModes = <<"monochrome">>, !.sources = <<"film-reader", "camera">>,
                    !.sides = <<"two-sided-long-edge">>,
                    !.media = <<"na_letter", "iso_a4", "custom">>,
                    !.resolutions = <<Dots(1200)>>,
                    !.regions = <<Region(Span(0), Span(0), Span(20000), Exactly(0))>>]

(* A feeder of which no area, sides, or usable resolution is known.        *)
Feeder ==
    [Nothing EXCEPT !.colorModes = <<"auto">>, !.sources = <<"adf">>,
                    !.resolutions = <<[x |-> 118, y |-> 118, units |-> "cm"]>>]

(* Nothing but qualities; and no scan service at all.                      *)
Quality == [Nothing EXCEPT !.others = 1]

Services == {Office, Film, Feeder, Quality, Nothing}

Sizes == [n \in {"iso_a4", "na_letter", "na_ledger"} |->
            CASE n = "iso_a4"    -> [x |-> 21000, y |-> 29700]
              [] n = "na_letter" -> [x |-> 21590, y |-> 27940]
              [] n = "na_ledger" -> [x |-> 27940, y |-> 32000]]

(* Below the range, 10.003 mm, above it.                                   *)
Words == {-1, 655557, 2147483647}
Dpis  == {-1, 300, 301}
=============================================================================
