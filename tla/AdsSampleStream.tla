--------------------------- MODULE AdsSampleStream ---------------------------
(***************************************************************************)
(* What the value path promises for a variable that EPICS only follows:    *)
(* the records see values that the variable really had, never a value from *)
(* the future and never an older one after a newer one.  Values may be     *)
(* skipped.  An array may also be blank, after it has been resized.        *)
(***************************************************************************)
EXTENDS Naturals

CONSTANTS
    Vars,    \* the variables that are followed
    Arrays   \* the arrays

VARIABLES
    cur,     \* version of the variable's value in the PLC
    shown    \* version the records were given last; 0: none, or a blank array

vars == <<cur, shown>>

Init ==
    /\ cur = [v \in Vars |-> 1]
    /\ shown = [v \in Vars |-> 0]

Change(v) ==
    /\ cur' = [cur EXCEPT ![v] = cur[v] + 1]
    /\ UNCHANGED shown

Publish ==
    /\ shown' \in [Vars -> Nat]
    /\ \A v \in Vars : \/ shown[v] <= shown'[v] /\ shown'[v] <= cur[v]
                       \/ v \in Arrays /\ shown'[v] = 0
    /\ UNCHANGED cur

Next == Publish \/ \E v \in Vars : Change(v)

Spec == Init /\ [][Next]_vars
=============================================================================
