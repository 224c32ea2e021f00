--------------------------- MODULE MCPublishLoop ---------------------------
(***************************************************************************)
(* Small vaults for PublishLoop.                                           *)
(***************************************************************************)
EXTENDS PublishLoop

CONSTANTS meta, blob, cont, junk

MCMixed == {meta, blob, junk}
MCPair  == {blob, cont}
MCTwo   == {meta, blob}
MCOne   == {meta}
MCNone  == {}
MCTrio  == {meta, blob, cont}
MCKind  == [i \in Items |-> CASE i = meta -> "machine" [] i = blob -> "sealed"
                              [] i = cont -> "container" [] i = junk -> "broken"]
MCOff   == {FALSE}
MCLock  == BOOLEAN
=============================================================================
