----------------------------- MODULE PublishLoop -----------------------------
(***************************************************************************)
(* Publishing a vault on the account, up to the proof the key switch asks  *)
(* for (electron/publish): buildInventory, startPublishing, runLoop and    *)
(* runVerification of publishEngine.ts with itemTransfer.ts, ledger.ts,    *)
(* inventoryScan.ts and the journal's canSwitch.                           *)
(*                                                                         *)
(* Every item of the vault is sealed under the account's key and stored on *)
(* the account; one line of an append-only ledger records it.  When all    *)
(* are handled a manifest is pushed, the stored bytes of a sample are read *)
(* back, and the journal then says whether the switch may be committed.    *)
(* Meanwhile the vault is in use, the network fails, and the process may   *)
(* die between two disk operations or in the middle of a ledger line.      *)
(*                                                                         *)
(* One profile; items are handled in any order; KeySwitch has what follows *)
(* and the ways out of a migration.                                        *)
(***************************************************************************)
EXTENDS Naturals, FiniteSets

CONSTANTS
    Items,          \* keys of the elements there may be in the vault
    Kind,           \* how each is sealed, see Kinds
    Sample,         \* the elements buildVerifyPlan picks when they are published
    AtStart,        \* the elements in the vault when the migration begins
    DamageAllowed,  \* exceedsDamageThreshold: 5% of the elements, at most 50
    EnhancedLock,   \* values the "enhanced lock" setting may have when we quit
    TornLines,      \* may a crash leave half a ledger line?
    Deletable,      \* bound: the elements that may be deleted meanwhile
    MaxVersion,     \* bound: contents of an element, and their editions
    MaxFaults       \* bound: crashes, failed transfers, failed writes

\* machine: under the profile's machine key, its bytes are sent as they are;
\* sealed, container: under the vault key, a renderer blob or a V3 container;
\* broken: presumed under the vault key, but no key opens it.
Kinds == {"machine", "sealed", "container", "broken"}

ASSUME ItemsAssumption ==
    /\ IsFiniteSet(Items) /\ Items # {} /\ Kind \in [Items -> Kinds]
    /\ {Sample, AtStart, Deletable} \subseteq SUBSET Items
    /\ DamageAllowed \in Nat
    /\ EnhancedLock \subseteq BOOLEAN /\ TornLines \in BOOLEAN
    /\ MaxVersion \in Nat \ {0} /\ MaxFaults \in Nat

VARIABLES
    vault,      \* content of each element on the device, 0 when there is none
    \* --- disk ---
    journal,    \* publish-journal.json
    ledger,     \* last readable line of each element
    torn,       \* the ledger ends in half a line
    keySafe,    \* .fek_safe holds the vault key
    \* --- account ---
    object,     \* the bytes stored for each element
    manifest,   \* the checksum the pushed manifest gives for each element
    \* --- memory of the main process ---
    pc,         \* the await the engine is at; "off" when the process is dead
    mj,         \* state.journal
    planned,    \* state.plan exists
    plan,       \* plan.order: the elements to send
    bad,        \* plan.damagedAtScan not logged yet
    todo,       \* elements the running loop has not handled
    cur,        \* element being sent
    line,       \* the line it will get
    republish,  \* it is sent again by the verification
    proofLines, \* ledgerByKey of the running verification
    starting,   \* the inventory is built on the way to publishing
    pauseAsked, \* state.pauseRequested
    activeFek,  \* state.activeFek is there
    faults

disk    == <<journal, ledger, torn, keySafe>>
account == <<object, manifest>>
flow    == <<planned, plan, bad, todo, cur, line, republish, proofLines, starting,
             pauseAsked, activeFek>>
vars == <<vault, journal, ledger, torn, keySafe, object, manifest, pc, mj, planned,
          plan, bad, todo, cur, line, republish, proofLines, starting, pauseAsked,
          activeFek, faults>>

\* What the account may store for an element: a content and the nonce it was
\* sealed with.  Bytes sent as they are have nonce 0.
Nonces   == 0..5
Digests  == [content : 1..MaxVersion, nonce : Nonces]
NoDigest == [content |-> 0, nonce |-> 0]
Lines    == [s : {"done", "damaged"}, r : Digests \cup {NoDigest}]
NoLine   == [s |-> "pending", r |-> NoDigest]

Journals == [state : {"PREPARING", "READY", "PUBLISHING", "VERIFYING", "FAILED"},
             done : Nat, damaged : Nat, total : Nat,
             sample : SUBSET Items, ok : SUBSET Items, failed : BOOLEAN]

Steps == {"off", "idle", "inventory", "start", "damaged", "next", "upload", "append",
          "push", "verifying", "reset", "manifest", "verify", "recheck"}

TypeOK ==
    /\ vault \in [Items -> 0..MaxVersion]
    /\ journal \in Journals /\ mj \in Journals
    /\ ledger \in [Items -> Lines \cup {NoLine}]
    /\ proofLines \in [Items -> Lines \cup {NoLine}]
    /\ object \in [Items -> Digests \cup {NoDigest}]
    /\ manifest \in [Items -> Digests \cup {NoDigest}]
    /\ torn \in BOOLEAN /\ keySafe \in BOOLEAN
    /\ pc \in Steps /\ line \in Lines \cup {NoLine} /\ cur \in Items
    /\ plan \subseteq Items /\ bad \subseteq Items /\ todo \subseteq Items
    /\ {planned, republish, starting, pauseAsked, activeFek} \subseteq BOOLEAN
    /\ faults \in 0..MaxFaults

-----------------------------------------------------------------------------
InLedger(s) == {i \in Items : ledger[i].s = s}

\* refreshCounters: what the ledger says, whatever the plan is.
Refreshed(j) == [j EXCEPT !.done = Cardinality(InLedger("done")),
                          !.damaged = Cardinality(InLedger("damaged"))]

TooManyDamaged(j) == j.damaged > DamageAllowed

\* journalMachine.canSwitch.
CanSwitch(j) ==
    /\ j.state = "VERIFYING"
    /\ j.done + j.damaged >= j.total
    /\ ~j.failed
    /\ IF j.sample = {} THEN j.done = 0 ELSE Cardinality(j.ok) >= Cardinality(j.sample)

Persist(j) == mj' = j /\ journal' = j
Fault == faults < MaxFaults /\ faults' = faults + 1

NewJournal == [state |-> "PREPARING", done |-> 0, damaged |-> 0, total |-> 0,
               sample |-> {}, ok |-> {}, failed |-> FALSE]

\* beginMigration: nothing published, no ledger.
Init ==
    /\ vault = [i \in Items |-> IF i \in AtStart THEN 1 ELSE 0]
    /\ journal = NewJournal /\ mj = NewJournal
    /\ ledger = [i \in Items |-> NoLine] /\ torn = FALSE
    /\ keySafe = TRUE /\ activeFek = TRUE
    /\ object = [i \in Items |-> NoDigest] /\ manifest = object
    /\ pc = "idle"
    /\ planned = FALSE /\ plan = {} /\ bad = {} /\ todo = {}
    /\ cur = (CHOOSE i \in Items : TRUE) /\ line = NoLine /\ republish = FALSE
    /\ proofLines = ledger
    /\ starting = FALSE /\ pauseAsked = FALSE
    /\ faults = 0

-----------------------------------------------------------------------------
(***************************************************************************)
(* The buttons.                                                            *)
(***************************************************************************)
OpenInventory ==
    /\ pc = "idle" /\ mj.state \in {"PREPARING", "READY"}
    /\ pc' = "inventory" /\ starting' = FALSE
    /\ UNCHANGED <<vault, disk, account, mj, planned, plan, bad, todo, cur, line,
                   republish, proofLines, pauseAsked, activeFek, faults>>

\* startPublishing and retryPublishing; a plan that did not survive is rebuilt.
PressStart ==
    /\ pc = "idle" /\ mj.state \in {"READY", "FAILED"}
    /\ pc' = IF planned THEN "start" ELSE "inventory"
    /\ starting' = TRUE
    /\ UNCHANGED <<vault, disk, account, mj, planned, plan, bad, todo, cur, line,
                   republish, proofLines, pauseAsked, activeFek, faults>>

RequestPause ==
    /\ pc \notin {"off", "idle"} /\ journal.state = "PUBLISHING" /\ ~pauseAsked
    /\ pauseAsked' = TRUE
    /\ UNCHANGED <<vault, disk, account, pc, mj, planned, plan, bad, todo, cur, line,
                   republish, proofLines, starting, activeFek, faults>>

-----------------------------------------------------------------------------
(***************************************************************************)
(* buildInventory: what is in the vault now, classified with the key at    *)
(* hand.  Containers that no key opens are counted damaged; renderer blobs *)
(* are presumed good.                                                      *)
(***************************************************************************)
Unreadable == {i \in Items : Kind[i] = "container" /\ ~activeFek}

BuildInventory ==
    /\ pc = "inventory"
    /\ LET present == {i \in Items : vault[i] # 0}
       IN  /\ plan' = present \ Unreadable
           /\ bad'  = present \cap Unreadable
           /\ Persist([Refreshed(mj) EXCEPT !.state = "READY", !.total = Cardinality(present)])
    /\ planned' = TRUE
    /\ pc' = IF starting THEN "start" ELSE "idle"
    /\ UNCHANGED <<vault, ledger, torn, keySafe, account, todo, cur, line, republish,
                   proofLines, starting, pauseAsked, activeFek, faults>>

StartPublishing ==
    /\ pc = "start"
    /\ IF mj.state \in {"READY", "FAILED"}
       THEN Persist([mj EXCEPT !.state = "PUBLISHING"])
       ELSE UNCHANGED <<mj, journal>>
    /\ pauseAsked' = FALSE
    /\ todo' = plan
    /\ pc' = "damaged"
    /\ UNCHANGED <<vault, ledger, torn, keySafe, account, planned, plan, bad, cur, line,
                   republish, proofLines, starting, activeFek, faults>>

-----------------------------------------------------------------------------
(***************************************************************************)
(* appendLedger and parseLedger: a line appended after half a line is not  *)
(* readable, the one after it is.                                          *)
(***************************************************************************)
\* Mutant: the line is written, not appended.
MutAppended(i, l) == [k \in Items |-> IF k = i THEN l ELSE NoLine]
Appended(i, l) == IF torn THEN ledger ELSE [ledger EXCEPT ![i] = l]

AppendLine(i, l) == ledger' = Appended(i, l) /\ torn' = FALSE

\* runLoop logs what the inventory could not read, unless it is known already.
LogDamaged ==
    /\ pc = "damaged"
    /\ IF bad = {} THEN pc' = "next" /\ UNCHANGED <<ledger, torn, bad>>
       ELSE \E i \in bad :
              /\ IF ledger[i] # NoLine THEN UNCHANGED <<ledger, torn>>
                 ELSE AppendLine(i, [s |-> "damaged", r |-> NoDigest])
              /\ bad' = bad \ {i} /\ UNCHANGED pc
    /\ UNCHANGED <<vault, journal, keySafe, account, mj, planned, plan, todo, cur, line,
                   republish, proofLines, starting, pauseAsked, activeFek, faults>>

Pause ==
    /\ pc = "next" /\ todo # {} /\ pauseAsked
    /\ Persist([Refreshed(mj) EXCEPT !.state = "READY"])
    /\ pc' = "idle"
    /\ UNCHANGED <<vault, ledger, torn, keySafe, account, flow, faults>>

\* resumeActionFor: a line that is done or damaged is never taken up again.
\* Mutant: neither is what the account has received.
MutHandled(i) == ledger[i] # NoLine \/ object[i] # NoDigest
Handled(i) == ledger[i] # NoLine

Skip ==
    /\ pc = "next" /\ ~pauseAsked
    /\ \E i \in todo : Handled(i) /\ todo' = todo \ {i}
    /\ UNCHANGED <<vault, disk, account, pc, mj, planned, plan, bad, cur, line,
                   republish, proofLines, starting, pauseAsked, activeFek, faults>>

\* Every now and then the counters are written, and too much damage stops all.
FlushCounters ==
    /\ pc = "next" /\ mj # Refreshed(mj)
    /\ IF TooManyDamaged(Refreshed(mj))
       THEN Persist([Refreshed(mj) EXCEPT !.state = "FAILED"]) /\ pc' = "idle"
       ELSE Persist(Refreshed(mj)) /\ UNCHANGED pc
    /\ UNCHANGED <<vault, ledger, torn, keySafe, account, flow, faults>>

-----------------------------------------------------------------------------
(***************************************************************************)
(* processItem: transferItem, then the line.  What is under the machine    *)
(* key is hashed first and read again to be sent; what is under the vault  *)
(* key is read once and sealed with a fresh nonce.                         *)
(***************************************************************************)
UsedNonces(i) == {object[i].nonce, manifest[i].nonce, ledger[i].r.nonce,
                  proofLines[i].r.nonce}
FreshNonce(i) == CHOOSE n \in Nonces \ {0} : n \notin UsedNonces(i)

\* Mutant: renderer blobs are not tried under the vault key.
MutOpens(i) == Kind[i] = "container" /\ activeFek
Opens(i) == Kind[i] # "broken" /\ activeFek

\* Mutant: the former protocol, one line for the transfer and one for its end.
MutLineFor(i) ==
    [s |-> "uploaded", r |-> [content |-> vault[i], nonce |-> FreshNonce(i)]]

LineFor(i) ==
    IF Kind[i] = "machine"
    THEN [s |-> "done", r |-> [content |-> vault[i], nonce |-> 0]]
    ELSE IF Opens(i)
    THEN [s |-> "done", r |-> [content |-> vault[i], nonce |-> FreshNonce(i)]]
    ELSE [s |-> "damaged", r |-> NoDigest]

Send(i) ==
    /\ vault[i] # 0
    /\ cur' = i /\ line' = LineFor(i)
    /\ pc' = IF line'.s = "done" THEN "upload" ELSE "append"

SendNext ==
    /\ pc = "next" /\ ~pauseAsked
    /\ \E i \in todo :
         /\ ~Handled(i) /\ Send(i)
         /\ todo' = todo \ {i}
    /\ republish' = FALSE
    /\ UNCHANGED <<vault, disk, account, mj, planned, plan, bad, proofLines, starting,
                   pauseAsked, activeFek, faults>>

Upload ==
    /\ pc = "upload"
    /\ IF Kind[cur] = "machine"
       THEN /\ vault[cur] # 0
            /\ object' = [object EXCEPT ![cur] = [content |-> vault[cur], nonce |-> 0]]
       ELSE object' = [object EXCEPT ![cur] = line.r]
    /\ pc' = "append"
    /\ UNCHANGED <<vault, disk, manifest, mj, flow, faults>>

Append ==
    /\ pc = "append"
    /\ AppendLine(cur, line)
    /\ pc' = IF republish THEN "recheck" ELSE "next"
    /\ UNCHANGED <<vault, journal, keySafe, account, mj, flow, faults>>

\* A transfer or an append fails, or the element is gone: in the loop that ends
\* the publication, in the verification the element is marked failed.
Gone == (pc = "upload" /\ Kind[cur] = "machine" /\ vault[cur] = 0)
TransferFails ==
    /\ pc \in {"upload", "append"}
    /\ \/ Gone /\ UNCHANGED faults
       \/ ~Gone /\ Fault
    /\ IF republish
       THEN mj' = [mj EXCEPT !.failed = TRUE] /\ UNCHANGED journal /\ pc' = "verify"
       ELSE Persist([Refreshed(mj) EXCEPT !.state = "FAILED"]) /\ pc' = "idle"
    /\ UNCHANGED <<vault, ledger, torn, keySafe, account, flow>>

\* An element of the plan was deleted before its turn.
SendGone ==
    /\ pc = "next" /\ ~pauseAsked
    /\ \E i \in todo : ~Handled(i) /\ vault[i] = 0
    /\ Persist([Refreshed(mj) EXCEPT !.state = "FAILED"]) /\ pc' = "idle"
    /\ UNCHANGED <<vault, ledger, torn, keySafe, account, flow, faults>>
-----------------------------------------------------------------------------
(***************************************************************************)
(* The end of runLoop, and runVerification.                                *)
(***************************************************************************)
FinishLoop ==
    /\ pc = "next" /\ todo = {}
    /\ IF TooManyDamaged(Refreshed(mj))
       THEN Persist([Refreshed(mj) EXCEPT !.state = "FAILED"]) /\ pc' = "idle"
       ELSE mj' = Refreshed(mj) /\ pc' = "push" /\ UNCHANGED journal
    /\ UNCHANGED <<vault, ledger, torn, keySafe, account, flow, faults>>

\* The manifest of the target profile: every line that is done.
PushTargetManifests ==
    /\ pc = "push"
    /\ manifest' = [i \in Items |-> IF ledger[i].s = "done" THEN ledger[i].r ELSE NoDigest]
    /\ pc' = "verifying"
    /\ UNCHANGED <<vault, disk, object, mj, flow, faults>>

\* VERIFYING is written with what an earlier verification left.
EnterVerifying ==
    /\ pc = "verifying"
    /\ Persist([mj EXCEPT !.state = "VERIFYING"])
    /\ pc' = "reset"
    /\ UNCHANGED <<vault, ledger, torn, keySafe, account, flow, faults>>

ResetProof ==
    /\ pc = "reset"
    /\ Persist([mj EXCEPT !.ok = {}, !.failed = FALSE])
    /\ pc' = "manifest"
    /\ UNCHANGED <<vault, ledger, torn, keySafe, account, flow, faults>>

\* First the manifest, read back and compared with the ledger line by line; then
\* the sample is drawn among the published elements of the plan.
CheckManifest ==
    /\ pc = "manifest"
    /\ LET agree == \A i \in Items :
                      manifest[i] = IF ledger[i].s = "done" THEN ledger[i].r ELSE NoDigest
           picked == {i \in plan \cap Sample : ledger[i].s = "done"}
       IN  IF agree
           THEN /\ Persist([mj EXCEPT !.sample = picked])
                /\ todo' = picked /\ pc' = "verify"
           ELSE /\ Persist([mj EXCEPT !.state = "FAILED", !.failed = TRUE])
                /\ UNCHANGED todo /\ pc' = "idle"
    /\ proofLines' = ledger
    /\ UNCHANGED <<vault, ledger, torn, keySafe, account, planned, plan, bad, cur, line,
                   republish, starting, pauseAsked, activeFek, faults>>

\* The network fails under the manifests.
ManifestFails ==
    /\ pc \in {"push", "manifest"} /\ Fault
    /\ Persist([mj EXCEPT !.state = "FAILED"]) /\ pc' = "idle"
    /\ UNCHANGED <<vault, ledger, torn, keySafe, account, flow>>

\* Mutant: the element is compared with the line it has now.
MutProofLine(i) == ledger[i]
ProofLine(i) == proofLines[i]

\* verifyOneItem: the stored bytes are those of the line.
Matches(i) == object[i] = ProofLine(i).r

VerifyItem ==
    /\ pc = "verify"
    /\ \E i \in todo :
         \/ /\ Matches(i)
            /\ Persist([mj EXCEPT !.ok = @ \cup {i}])
            /\ todo' = todo \ {i}
            /\ UNCHANGED <<pc, cur, line, republish, faults>>
         \/ /\ (Matches(i) /\ Fault) \/ (~Matches(i) /\ UNCHANGED faults)
            /\ todo' = todo \ {i}
            /\ \/ Send(i) /\ republish' = TRUE /\ UNCHANGED <<mj, journal>>
               \/ /\ vault[i] = 0 /\ mj' = [mj EXCEPT !.failed = TRUE]
                  /\ UNCHANGED <<journal, pc, cur, line, republish>>
    /\ UNCHANGED <<vault, ledger, torn, keySafe, account, planned, plan, bad,
                   proofLines, starting, pauseAsked, activeFek>>

\* After the one republication: the line is still the one read at the beginning.
Recheck ==
    /\ pc = "recheck"
    /\ \/ /\ Matches(cur) /\ UNCHANGED faults
          /\ Persist([mj EXCEPT !.ok = @ \cup {cur}])
       \/ /\ (Matches(cur) /\ Fault) \/ (~Matches(cur) /\ UNCHANGED faults)
          /\ Persist([mj EXCEPT !.failed = TRUE])
    /\ pc' = "verify"
    /\ UNCHANGED <<vault, ledger, torn, keySafe, account, flow>>

FinishVerification ==
    /\ pc = "verify" /\ todo = {}
    /\ Persist(IF mj.failed THEN [mj EXCEPT !.state = "FAILED"] ELSE mj)
    /\ pc' = "idle"
    /\ UNCHANGED <<vault, ledger, torn, keySafe, account, flow, faults>>
-----------------------------------------------------------------------------
(***************************************************************************)
(* The user and the machine.                                               *)
(***************************************************************************)
Edit(i) ==
    /\ pc # "off" /\ vault[i] \in 1..(MaxVersion - 1)
    /\ vault' = [vault EXCEPT ![i] = @ + 1]
    /\ UNCHANGED <<disk, account, pc, mj, flow, faults>>

Create(i) ==
    /\ pc # "off" /\ i \notin AtStart /\ vault[i] = 0 /\ object[i] = NoDigest
    /\ vault' = [vault EXCEPT ![i] = 1]
    /\ UNCHANGED <<disk, account, pc, mj, flow, faults>>

Delete(i) ==
    /\ pc # "off" /\ i \in Deletable /\ vault[i] # 0
    /\ vault' = [vault EXCEPT ![i] = 0]
    /\ UNCHANGED <<disk, account, pc, mj, flow, faults>>

\* The vault is opened with the password: the key is stored again.
Unlock ==
    /\ pc # "off" /\ ~keySafe
    /\ keySafe' = TRUE
    /\ UNCHANGED <<vault, journal, ledger, torn, account, pc, mj, flow, faults>>

\* The process ends.
Stop ==
    /\ pc' = "off"
    /\ mj' = NewJournal
    /\ planned' = FALSE /\ plan' = {} /\ bad' = {} /\ todo' = {}
    /\ line' = NoLine /\ republish' = FALSE
    /\ proofLines' = [i \in Items |-> NoLine]
    /\ starting' = FALSE /\ pauseAsked' = FALSE /\ activeFek' = FALSE
    /\ UNCHANGED <<vault, journal, ledger, account, cur>>

\* deleteFEKSafe: under the enhanced lock quitting wipes the stored key.
DeleteFEKSafe == \E lock \in EnhancedLock : keySafe' = (keySafe /\ ~lock)

Quit == pc = "idle" /\ Stop /\ DeleteFEKSafe /\ UNCHANGED <<torn, faults>>

Crash ==
    /\ pc \notin {"off", "idle"} /\ Stop /\ Fault
    /\ keySafe' = keySafe \/ DeleteFEKSafe
    /\ torn' \in IF TornLines /\ pc = "append" THEN {torn, TRUE} ELSE {torn}

\* resumeOnStartup and decideResume: what was under way is taken up again.
\* Mutant: only the proof is.
MutRestarts == journal.state = "VERIFYING"
Restarts == journal.state \in {"PUBLISHING", "VERIFYING"}

Start ==
    /\ pc = "off"
    /\ activeFek' = keySafe
    /\ Persist(IF journal.state = "READY" THEN [journal EXCEPT !.state = "PREPARING"]
                                          ELSE journal)
    /\ pc' = IF Restarts THEN "inventory" ELSE "idle"
    /\ starting' = Restarts
    /\ UNCHANGED <<vault, ledger, torn, keySafe, account, planned, plan, bad, todo, cur,
                   line, republish, proofLines, pauseAsked, faults>>

-----------------------------------------------------------------------------
Engine ==
    \/ BuildInventory \/ StartPublishing \/ LogDamaged \/ Pause \/ Skip
    \/ FlushCounters \/ SendNext \/ SendGone \/ Upload \/ Append \/ TransferFails
    \/ FinishLoop \/ PushTargetManifests \/ EnterVerifying \/ ResetProof
    \/ CheckManifest \/ ManifestFails \/ VerifyItem \/ Recheck \/ FinishVerification

Next ==
    \/ OpenInventory \/ PressStart \/ RequestPause
    \/ Engine
    \/ \E i \in Items : Edit(i) \/ Create(i) \/ Delete(i)
    \/ Unlock \/ Quit \/ Crash \/ Start

Spec == Init /\ [][Next]_vars

\* The engine goes on while the process lives, and the process is started again.
FairSpec == Spec /\ WF_vars(Engine) /\ WF_vars(Start)
-----------------------------------------------------------------------------
(***************************************************************************)
(* What publishing promises.                                               *)
(***************************************************************************)

\* The proof is a proof: when a journal allows the switch, every sampled element
\* is stored with the bytes its ledger line and the manifest announce
\* (runVerification). A VERIFYING written before the verification has begun bears
\* the counts of an earlier one; what that one found in place still is.
ProofIsSound ==
    CanSwitch(journal) =>
        \A i \in journal.sample :
            ledger[i].s = "done" /\ object[i] = ledger[i].r /\ manifest[i] = ledger[i].r

\* The first lock of canSwitch: the switch is not allowed while an element the
\* inventory listed has neither been published nor been found unreadable.
NothingForgotten ==
    CanSwitch(journal) /\ pc = "idle" /\ planned =>
        \A i \in plan : ledger[i].s = "damaged" \/ manifest[i] # NoDigest

\* An element is reported damaged only when the vault key does not open it
\* (itemTransfer.ts: it was lost before the migration).
DamagedWasUnreadable ==
    \A i \in Items : ledger[i].s = "damaged" => Kind[i] = "broken"

\* A published element is not lost again: once its line is done it stays done,
\* across crashes, republications and later runs.
PublishedStays ==
    [][\A i \in Items : ledger[i].s = "done" => ledger'[i].s = "done"]_vars

\* A publication under way, killed or not, is proved, fails or comes to rest where
\* the screen offers to go on (resumeAfterRestart): none is left in PUBLISHING
\* without a loop that publishes.
PublishingMovesOn ==
    journal.state = "PUBLISHING" ~>
        \/ journal.state \in {"VERIFYING", "FAILED"}
        \/ journal.state \in {"READY", "PREPARING"} /\ pc = "idle"
=============================================================================
