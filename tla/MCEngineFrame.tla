--------------------------- MODULE MCEngineFrame ---------------------------
(* Instances of EngineFrame for TLC.                                        *)
EXTENDS EngineFrame, TLC

CONSTANTS c1, c2

Symmetry == Permutations(Entities)

(* One component can be shared or attached again, another one is not.       *)
TwiceAndOnce == c1 :> 2 @@ c2 :> 1
=============================================================================
