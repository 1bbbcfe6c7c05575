------------------------------ MODULE ProcSpace ------------------------------
(***************************************************************************)
(* What WeensyOS (src/pset3) promises its processes: each has an address   *)
(* space of its own.  No page tables, no physical pages and no reference   *)
(* counts; a space is a function from mapped virtual pages to a value and  *)
(* whether it may be written.  WeensyOS is checked to implement this.      *)
(***************************************************************************)
EXTENDS Integers

CONSTANTS Pids,     \* process IDs
          VA,       \* virtual pages
          Values,   \* what a page can hold
          Initial,  \* the processes that a boot starts
          Loaded    \* the address space that each of them starts with

Empty == [va \in {} |-> 0]

VARIABLES status,   \* pid |-> "free", "runnable" or "broken"
          space,    \* pid |-> its address space
          boot      \* changes with every boot, and with nothing else
vars == <<status, space, boot>>

FirstStatus == [p \in Pids |-> IF p \in Initial THEN "runnable" ELSE "free"]
FirstSpaces == [p \in Pids |-> IF p \in Initial THEN Loaded ELSE Empty]

Init == status = FirstStatus /\ space = FirstSpaces /\ boot = 0

(* p writes to a page of its own that it may write. *)
Write(p, va, v) ==
    /\ UNCHANGED status
    /\ va \in DOMAIN space[p] /\ space[p][va].w
    /\ space' = [space EXCEPT ![p][va].v = v]

(* A fresh page at va takes the place of whatever p had there. *)
Alloc(p, va) ==
    /\ UNCHANGED status
    /\ space' = [space EXCEPT ![p] =
          [a \in DOMAIN @ \cup {va} |-> IF a = va THEN [v |-> 0, w |-> TRUE] ELSE @[a]]]

(* The child starts with the parent's memory. *)
Fork(p, c) ==
    /\ status[c] = "free"
    /\ status' = [status EXCEPT ![c] = "runnable"]
    /\ space' = [space EXCEPT ![c] = space[p]]

(* A process exits or is killed, by itself or by another one. *)
End(p) ==
    /\ status' = [status EXCEPT ![p] = "free"]
    /\ space' = [space EXCEPT ![p] = Empty]

(* A page fault. *)
Break(p) ==
    /\ status' = [status EXCEPT ![p] = "broken"]
    /\ UNCHANGED space

(* The kernel starts afresh: nothing is left of any process. *)
Reboot == status' = FirstStatus /\ space' = FirstSpaces /\ boot' = 1 - boot

(* What the processes do, or is done to them. *)
Act ==
    \E p \in Pids :
        \/ /\ status[p] = "runnable"
           /\ \/ \E va \in VA, v \in Values : Write(p, va, v)
              \/ \E va \in VA : Alloc(p, va)
              \/ \E c \in Pids : Fork(p, c)
              \/ Break(p)
        \/ End(p)

Next == \/ Act /\ UNCHANGED boot
        \/ Reboot

Spec == Init /\ [][Next]_vars
==============================================================================
