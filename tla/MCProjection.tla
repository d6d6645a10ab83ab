---------------------------- MODULE MCProjection ----------------------------
(* Instances of Projection for TLC.                                         *)
EXTENDS Projection, TLC

(* The compiled texts are interchangeable; no run with a liveness property    *)
(* uses this.                                                                 *)
Sym == Permutations(Texts)

=============================================================================
