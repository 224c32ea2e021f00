----------------------------- MODULE AtomicSwitch -----------------------------
(***************************************************************************)
(* What the key switch promises: an all-or-nothing change of the key in a  *)
(* set of places, by one commit point.                                     *)
(*                                                                         *)
(* Before the commit no place has the new key and the switch may be called *)
(* off; after it the only way is forward, place by place, until every      *)
(* place has it.  The old key is kept before any of this.                  *)
(***************************************************************************)
CONSTANT Place

VARIABLES
    places,     \* the places that hold a key
    phase,      \* "old", "armed", "committed", "done"
    promoted,   \* the places that have the new key
    kept        \* the old key is kept for reading

vars == <<places, phase, promoted, kept>>

Init ==
    /\ places \in SUBSET Place
    /\ phase = "old" /\ promoted = {} /\ kept = FALSE

Keep ==
    /\ ~kept /\ kept' = TRUE
    /\ UNCHANGED <<places, phase, promoted>>

Arm ==
    /\ phase = "old" /\ kept
    /\ phase' = "armed"
    /\ UNCHANGED <<places, promoted, kept>>

CallOff ==
    /\ phase = "armed"
    /\ phase' = "old"
    /\ UNCHANGED <<places, promoted, kept>>

Commit ==
    /\ phase = "armed"
    /\ phase' = "committed"
    /\ UNCHANGED <<places, promoted, kept>>

Promote ==
    /\ phase = "committed"
    /\ \E p \in places \ promoted : promoted' = promoted \cup {p}
    /\ UNCHANGED <<places, phase, kept>>

Finish ==
    /\ phase = "committed" /\ promoted = places
    /\ phase' = "done"
    /\ UNCHANGED <<places, promoted, kept>>

Next == Keep \/ Arm \/ CallOff \/ Commit \/ Promote \/ Finish

Spec == Init /\ [][Next]_vars

\* An armed switch is decided, a committed one is carried through.
FairSpec ==
    /\ Spec
    /\ WF_vars(CallOff \/ Commit)
    /\ WF_vars(Promote \/ Finish)

\* No place has the new key unless the switch was committed and the old key kept.
AllOrNothing ==
    /\ promoted # {} => phase \in {"committed", "done"} /\ kept
    /\ phase = "done" => promoted = places
=============================================================================
