------------------------------ MODULE Dialogue ------------------------------
(***************************************************************************)
(* What the packets between gdb and the server are for: gdb asks one thing *)
(* after the other, the server deals with each exactly once, and gdb takes *)
(* the answer to what it has asked before it asks again.                   *)
(***************************************************************************)
EXTENDS Naturals

VARIABLES
    asked,      \* the requests gdb has made
    handled,    \* the requests the server has dealt with
    answered    \* the request whose answer gdb took last

dialogue == <<asked, handled, answered>>

DialogueInit == asked = 0 /\ handled = 0 /\ answered = 0

Ask ==
    /\ answered = asked
    /\ asked' = asked + 1 /\ UNCHANGED <<handled, answered>>

Handle ==
    /\ handled < asked
    /\ handled' = handled + 1 /\ UNCHANGED <<asked, answered>>

Answer ==
    /\ answered < handled
    /\ answered' = asked /\ UNCHANGED <<asked, handled>>

DialogueSpec ==
    DialogueInit /\ [][Ask \/ Handle \/ Answer]_dialogue
=============================================================================
