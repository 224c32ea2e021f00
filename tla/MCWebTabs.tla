----------------------------- MODULE MCWebTabs -----------------------------
(* Model values for WebTabs.                                                 *)
EXTENDS WebTabs

\* The places of a hang: in the guards of a run, or inside the shared cycle.
MCGuard == {"guard"}
MCPull == {"pull"}
MCBoth == {"guard", "pull"}
==============================================================================
