-------------------------- MODULE DurableRegister --------------------------
(***************************************************************************)
(* What the pod store promises its controller: a register that survives    *)
(* crashes.  A write that was confirmed is read back by the next recovery  *)
(* unless a later write replaced it; a write that was begun and not        *)
(* confirmed may or may not have happened.  That much holds of an anchored *)
(* register; one that is not yet anchored may go back to an older write.   *)
(***************************************************************************)
EXTENDS Naturals

CONSTANTS
    Contents,     \* the values a register may hold
    Blank,        \* what a new register holds
    Version       \* a number for each of them, smaller for an older one

VARIABLES
    value,        \* the last confirmed write
    pending,      \* writes begun since and never confirmed
    up,           \* may the register be written?
    anchored      \* has it become certain to keep what is confirmed?

registerVars == <<value, pending, up, anchored>>

Init == value = Blank /\ pending = {} /\ up = FALSE /\ anchored = FALSE

Start(s) == up /\ pending' = pending \cup {s} /\ UNCHANGED <<value, up, anchored>>

Confirm == up /\ value' \in pending /\ pending' = {} /\ UNCHANGED <<up, anchored>>

\* It becomes certain, once and for all, that nothing confirmed is lost.
Anchor == anchored' /\ UNCHANGED <<value, pending, up>>

\* The owner stops, of its own will or in a crash; what a crash spared is certain.
Stop == up' = FALSE /\ (anchored' \/ UNCHANGED anchored) /\ UNCHANGED <<value, pending>>

\* A crash takes a register that is not anchored back to a write no newer than the
\* confirmed one, or to a doubtful one.
Lose ==
    /\ ~anchored /\ up' = FALSE /\ pending' = {}
    /\ value' \in pending \cup {s \in Contents : Version[s] =< Version[value]}
    /\ UNCHANGED anchored

\* A recovery returns the confirmed value or one of the doubtful writes.  It may
\* settle the doubt, even if it is cut short, or leave it to a later recovery.
Recover ==
    /\ ~up /\ up' \in BOOLEAN
    /\ \/ value' \in {value} \cup pending /\ pending' = {}
       \/ UNCHANGED <<value, pending>>
    /\ UNCHANGED anchored

Next == (\E s \in Contents : Start(s)) \/ Confirm \/ Anchor \/ Stop \/ Lose \/ Recover

Spec == Init /\ [][Next]_registerVars
=============================================================================
