------------------------------ MODULE WeensyOSMC ------------------------------
(* Small instances of WeensyOS for TLC; see the .cfg files. *)
EXTENDS MemViewer

(* The history variable boot is read by no guard and no invariant, and every *)
(* property treats its two values alike: states that differ in it only are   *)
(* explored once.                                                            *)
SansBoot == <<refcount, mem, pagetable, state, current, viewer, halted>>
===============================================================================
