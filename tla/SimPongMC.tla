----------------------------- MODULE SimPongMC -----------------------------
(* SimPong for TLC: balls and threads are interchangeable. *)
EXTENDS SimPong, TLC

Symmetry == Permutations(Balls) \cup Permutations(Threads)

(* The simulator on a board and on its mirror images is the same, so that   *)
(* one sticky cell need be in one quarter only (its middle line included).  *)
MirrorInit ==
    /\ Init
    /\ \A c \in Board!Cells : type[c] = "sticky" => 2 * c[1] < Width /\ 2 * c[2] < Height
MirrorFairSpec == MirrorInit /\ [][Next]_vars /\ Fairness
=============================================================================
