------------------------------ MODULE MCFlash ------------------------------
(* Small instances of FlashExecute: a plan of two or three sectors of one   *)
(* or two blocks, the counter wrapping within a sector, up to three runs.   *)
EXTENDS FlashClaims

CONSTANTS s1, s2, s3

TwoSectors   == <<s1, s2>>
ThreeSectors == <<s1, s2, s3>>

Default == [silence |-> TRUE, dry |-> FALSE, verify |-> TRUE, journaled |-> TRUE,
            wellFormed |-> TRUE, bulk |-> FALSE, armed |-> FALSE]

(* The plan options one at a time off their defaults, and the combinations  *)
(* that meet in one branch of the code.                                     *)
EachOption ==
    {Default,
     [Default EXCEPT !.silence = FALSE],
     [Default EXCEPT !.dry = TRUE],
     [Default EXCEPT !.verify = FALSE, !.silence = FALSE],
     [Default EXCEPT !.journaled = FALSE],
     [Default EXCEPT !.wellFormed = FALSE],
     [Default EXCEPT !.bulk = TRUE, !.silence = FALSE],
     [Default EXCEPT !.bulk = TRUE, !.armed = TRUE]}

Plain == {[Default EXCEPT !.silence = FALSE]}
=============================================================================
