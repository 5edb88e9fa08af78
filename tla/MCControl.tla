----------------------------- MODULE MCControl -----------------------------
(* Constants for model checking tkmcontrol and the control socket.          *)
EXTENDS ControlProperties, TLC

CONSTANTS c1, c2, c3

\* The runs of tkmcontrol are interchangeable.
ControlSymmetry == Permutations(Controls)
=============================================================================
