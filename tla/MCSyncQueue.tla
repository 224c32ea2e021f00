----------------------------- MODULE MCSyncQueue -----------------------------
(* Two transfers of the open profile and one another profile left behind.    *)
EXTENDS SyncQueue

CONSTANTS up, down, other, s1, s2

MCWorks     == {up, down, other}
MCDownloads == {down, other}
MCForeign   == {other}
MCGivenUp   == {down}
MCSlots     == {s1, s2}
==============================================================================
