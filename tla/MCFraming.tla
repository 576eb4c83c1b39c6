------------------------------ MODULE MCFraming ------------------------------
(***************************************************************************)
(* Up to three blocks of up to two bytes, empty ones among them, of which  *)
(* an int has two, and messages whose blocks are too few, too many or of   *)
(* a wrong size.                                                           *)
(***************************************************************************)
EXTENDS Framing

MCHeader == 2
MCIntSize == 2

MCCalls ==
    {[params |-> ps, blocks |-> bs, wanted |-> w] :
        ps \in BoundedSeq(Types, 3), bs \in BoundedSeq(0 .. 2, 3), w \in BOOLEAN}
=============================================================================
