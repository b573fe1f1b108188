----------------------------- MODULE FlatMemory -----------------------------
(***************************************************************************)
(* What the debugger's user is promised about the target's memory: one     *)
(* memory, read and written by gdb while the target is stopped and by the  *)
(* target while it executes, as if no cache and no breakpoint instruction  *)
(* stood in between.                                                       *)
(***************************************************************************)
CONSTANTS
    Cell,       \* the addresses
    Content,    \* what a cell can hold
    Blocks      \* the blocks of addresses gdb asks for, Cell may not hold all

VARIABLES
    mem,        \* the memory
    running,    \* is the target executing?
    answer      \* the last answer to gdb

flatVars == <<mem, running, answer>>

(* An answer to gdb: a status and the cells read. *)
Reply(status, cells) == [status |-> status, cells |-> cells]
Status(status)       == Reply(status, [a \in {} |-> 0])

Init ==
    /\ mem \in [Cell -> Content]
    /\ running = FALSE
    /\ answer = Status("none")

(* gdb reads the cells of S, all of them inside the memory. *)
Read(S) ==
    /\ ~running
    /\ S \subseteq Cell
    /\ answer' = Reply("OK", [a \in S |-> mem[a]])
    /\ UNCHANGED <<mem, running>>

(* gdb writes; a block that does not fit is refused, and what did fit may  *)
(* have been written.                                                      *)
Write(new) ==
    /\ ~running
    /\ mem' = [a \in Cell |-> IF a \in DOMAIN new THEN new[a] ELSE mem[a]]
    /\ answer' = Status(IF DOMAIN new \subseteq Cell THEN "OK" ELSE "error")
    /\ UNCHANGED running

(* A request that neither reads nor writes memory. *)
Other ==
    /\ answer' \in {Status("none"), Status("OK"), Status("error")}
    /\ UNCHANGED <<mem, running>>

Resume ==
    /\ ~running
    /\ running' = TRUE
    /\ UNCHANGED <<mem, answer>>

Store ==
    /\ running
    /\ \E a \in Cell, v \in Content : mem' = [mem EXCEPT ![a] = v]
    /\ UNCHANGED <<running, answer>>

(* The target stops; a request that waited for it is answered now. *)
Halt ==
    /\ running
    /\ running' = FALSE
    /\ answer' \in {answer, Status("OK")}
    /\ UNCHANGED mem

Next ==
    \/ \E S \in Blocks : Read(S)
    \/ \E S \in Blocks : \E new \in [S -> Content] : Write(new)
    \/ Other \/ Resume \/ Store \/ Halt

Spec == Init /\ [][Next]_flatVars
=============================================================================
