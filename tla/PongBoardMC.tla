---------------------------- MODULE PongBoardMC ----------------------------
(* PongBoard for TLC: the balls are interchangeable. *)
EXTENDS PongBoard, TLC

BallSymmetry == Permutations(Balls)
=============================================================================
