---------------------------- MODULE MCKeySwitch ----------------------------
(***************************************************************************)
(* Small devices for KeySwitch: the root directory and two profiles.       *)
(***************************************************************************)
EXTENDS KeySwitch

CONSTANTS root, p1, p2, old, new, nokey

MCLoc     == {root, p1, p2}
MCKeys    == {old, new}
MCOneKey  == {old}
MCNone    == {}
MCSecond  == {p2}
MCOwn     == {"own", "offline"}
MCAnyone  == {"own", "other", "offline"}
MCScreen  == {}
MCEarly   == {"early"}
MCUnlock  == {"unlock"}
MCAny     == {"again", "unlock"}
MCMirror  == {TRUE}
MCBoth    == BOOLEAN
MCPlain   == {FALSE}
=============================================================================
