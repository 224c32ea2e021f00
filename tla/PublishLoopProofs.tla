-------------------------- MODULE PublishLoopProofs --------------------------
(***************************************************************************)
(* Publishing, for any vault: what is called damaged, what the proof rests *)
(* on, and that nothing is forgotten.                                      *)
(*                                                                         *)
(* The proof compares an element with the line it had when the             *)
(* verification began, and the element may be sent and logged anew before  *)
(* it is compared.  The comparison is sound because the bytes then differ: *)
(* a sealed element has a fresh nonce, one sent as it is a content at      *)
(* least as new (Republishes, ContentsGrow).                               *)
(***************************************************************************)
EXTENDS PublishLoop, FiniteSetTheorems, TLAPS

-----------------------------------------------------------------------------
(***************************************************************************)
(* Without the enhanced lock the vault key is at hand whenever the process *)
(* runs, and what it opens is never called damaged.                        *)
(***************************************************************************)
KeyAtHand ==
    /\ keySafe /\ (pc # "off" => activeFek)
    /\ bad = {}

\* The element being sent.
Sending == pc \in {"upload", "append"}
SentIsOpened ==
    /\ pc = "upload" => line.s = "done"
    /\ Sending \/ pc = "recheck" =>
          /\ line.s = "done" => Kind[cur] # "broken" /\ line.r # NoDigest
          /\ line.s = "damaged" => Kind[cur] = "broken"
          /\ line.s # "pending"
    /\ pc = "append" /\ line.s = "done" => object[cur] # NoDigest

\* What a line says of its element, in the ledger and as the verification read it.
Truthful(lines) ==
    \A i \in Items :
       /\ lines[i].s = "done" =>
            Kind[i] # "broken" /\ object[i] # NoDigest /\ lines[i].r # NoDigest
       /\ lines[i].s = "damaged" => Kind[i] = "broken"

Opened == KeyAtHand /\ SentIsOpened /\ Truthful(ledger) /\ Truthful(proofLines)

-----------------------------------------------------------------------------
(***************************************************************************)
(* Contents only grow, so the bytes of a note that were sent later than    *)
(* their line was made are not those of an older line.                     *)
(***************************************************************************)
UpTo(i, r) == vault[i] = 0 \/ r.content <= vault[i]
ContentsGrow ==
    /\ \A i \in Items : ledger[i].s = "done" => UpTo(i, ledger[i].r)
    /\ \A i \in Items : proofLines[i].s = "done" => UpTo(i, proofLines[i].r)
    /\ Sending => cur \in AtStart \/ vault[cur] # 0
    /\ Sending /\ line.s = "done" => UpTo(cur, line.r)

-----------------------------------------------------------------------------
(***************************************************************************)
(* The proof.                                                              *)
(***************************************************************************)
Stands(i) ==
    ledger[i].s = "done" /\ object[i] = ledger[i].r /\ manifest[i] = ledger[i].r

\* The copy in memory and the one on disk agree on the sample and on what was found.
Memory ==
    IF pc = "off" THEN mj = NewJournal
    ELSE journal.ok = mj.ok /\ journal.sample = mj.sample

\* The verification runs, an element of it may be sent once more.
InProof == pc \in {"verify", "recheck"} \/ (republish /\ Sending)

OkStands ==
    /\ journal.ok \subseteq journal.sample
    /\ \A i \in journal.ok : Stands(i)

\* The loop sends what has no line yet.
LoopSends == Sending /\ ~republish => ledger[cur] = NoLine

\* What the verification compares: the ledger as it was, which the manifest repeats.
Compares ==
    /\ pc = "manifest" => mj.ok = {}
    /\ InProof =>
        /\ \A i \in Items :
             manifest[i] = IF proofLines[i].s = "done" THEN proofLines[i].r ELSE NoDigest
        /\ \A i \in mj.sample : proofLines[i].s = "done"
        /\ todo \subseteq mj.sample \ mj.ok
        /\ \A i \in todo : ledger[i] = proofLines[i]

\* The element sent once more gets other bytes than its first line announces.
Republishes ==
    InProof /\ pc # "verify" =>
        /\ cur \in mj.sample \ (mj.ok \cup todo)
        /\ line.s = "done"
        /\ pc # "recheck" => ledger[cur] = proofLines[cur]
        /\ pc = "recheck" => ledger[cur] \in {line, proofLines[cur]}
        /\ IF Kind[cur] = "machine"
           THEN /\ line.r.nonce = 0 /\ proofLines[cur].r.content <= line.r.content
                /\ pc # "upload" =>
                     object[cur].nonce = 0 /\ line.r.content <= object[cur].content
           ELSE /\ line.r.nonce # proofLines[cur].r.nonce
                /\ pc # "upload" => object[cur] = line.r

ProofInvariant == Memory /\ OkStands /\ LoopSends /\ Compares /\ Republishes

-----------------------------------------------------------------------------
(***************************************************************************)
(* What the steps write is of its type.                                    *)
(***************************************************************************)
\* There is a nonce that none of the four digests of an element has.
LEMMA FreshNonceType ==
    ASSUME NEW i \in Items
    PROVE  FreshNonce(i) \in Nonces \ {0} /\ FreshNonce(i) \notin UsedNonces(i)
<1>1. \A a, b, c, d : \E n \in Nonces \ {0} : n \notin {a, b, c, d}
  <2> SUFFICES ASSUME NEW a, NEW b, NEW c, NEW d,
                      \A n \in Nonces \ {0} : n \in {a, b, c, d}
               PROVE  FALSE
    OBVIOUS
  <2>1. {1, 2, 3, 4, 5} \subseteq {a, b, c, d}
    BY DEF Nonces
  <2> QED
    BY <2>1
<1>2. \E n \in Nonces \ {0} : n \notin UsedNonces(i)
  BY <1>1 DEF UsedNonces
<1> QED
  BY <1>2 DEF FreshNonce

\* A line of an element of the vault is one.
LEMMA LineForType ==
    ASSUME TypeOK, NEW i \in Items, vault[i] # 0 PROVE LineFor(i) \in Lines
<1>1. vault[i] \in 1..MaxVersion
  BY ItemsAssumption DEF TypeOK
<1>2. FreshNonce(i) \in Nonces /\ 0 \in Nonces
  BY FreshNonceType DEF Nonces
<1>3. \A n \in Nonces : [s |-> "done", r |-> [content |-> vault[i], nonce |-> n]] \in Lines
  BY <1>1 DEF Lines, Digests
<1>4. [s |-> "damaged", r |-> NoDigest] \in Lines
  BY DEF Lines
<1> QED
  BY <1>2, <1>3, <1>4 DEF LineFor

\* The elements with a line are finitely many, and the counters tell how many.
LEMMA CountsType ==
    /\ \A s : IsFiniteSet(InLedger(s)) /\ Cardinality(InLedger(s)) \in Nat
    /\ \A S \in SUBSET Items : IsFiniteSet(S) /\ Cardinality(S) \in Nat
<1>1. \A S \in SUBSET Items : IsFiniteSet(S) /\ Cardinality(S) \in Nat
  BY ItemsAssumption, FS_Subset, FS_CardinalityType
<1> QED
  BY <1>1 DEF InLedger

\* The counters recomputed from the ledger leave a journal.
LEMMA RefreshedType == ASSUME NEW j \in Journals PROVE Refreshed(j) \in Journals
  BY CountsType DEF Refreshed, Journals

\* What the engine writes into its journal leaves it one.
LEMMA JournalEdits ==
    ASSUME NEW j \in Journals
    PROVE  /\ \A s \in {"PREPARING", "READY", "PUBLISHING", "VERIFYING", "FAILED"} :
                /\ [j EXCEPT !.state = s] \in Journals
                /\ \A n \in Nat : [j EXCEPT !.state = s, !.total = n] \in Journals
                /\ [j EXCEPT !.state = s, !.failed = TRUE] \in Journals
           /\ [j EXCEPT !.ok = {}, !.failed = FALSE] \in Journals
           /\ [j EXCEPT !.failed = TRUE] \in Journals
           /\ \A S \in SUBSET Items : [j EXCEPT !.sample = S] \in Journals
           /\ \A i \in Items : [j EXCEPT !.ok = @ \cup {i}] \in Journals
  BY DEF Journals

\* A migration begins with a journal.
LEMMA NewJournalType == NewJournal \in Journals
  BY DEF Journals, NewJournal

\* Every step keeps the types.
LEMMA TypeStep ==
    ASSUME TypeOK, [Next]_vars
    PROVE  TypeOK'
<1> USE ItemsAssumption DEF TypeOK, Steps
<1>0. /\ mj \in Journals /\ journal \in Journals /\ NewJournal \in Journals
     /\ NoLine \in Lines \cup {NoLine} /\ Refreshed(mj) \in Journals
  BY NewJournalType, RefreshedType
<1>1. CASE OpenInventory
  BY <1>0, <1>1 DEF OpenInventory, disk, account
<1>2. CASE PressStart
  BY <1>0, <1>2 DEF PressStart, disk, account
<1>3. CASE RequestPause
  BY <1>0, <1>3 DEF RequestPause, disk, account
<1>4. CASE BuildInventory
  <2> DEFINE present == {i \in Items : vault[i] # 0}
  <2>1. Cardinality(present) \in Nat
    BY CountsType
  <2>2. mj' \in Journals /\ journal' = mj'
    BY <1>0, <1>4, <2>1, JournalEdits DEF BuildInventory, Persist
  <2> QED
    BY <1>0, <1>4, <2>2 DEF BuildInventory, account, Unreadable
<1>5. CASE StartPublishing
  <2>1. mj' \in Journals /\ journal' \in Journals
    BY <1>0, <1>5, JournalEdits DEF StartPublishing, account, Persist
  <2>2. TypeOK'
    BY <1>0, <1>5, <2>1 DEF StartPublishing, account, Persist
  <2> QED
    BY <2>2
<1>6. CASE LogDamaged
  <2>1. [s |-> "damaged", r |-> NoDigest] \in Lines
    BY DEF Lines
  <2>2. ledger' \in [Items -> Lines \cup {NoLine}] /\ torn' \in BOOLEAN
    BY <1>6, <2>1 DEF LogDamaged, AppendLine, Appended
  <2> QED
    BY <1>0, <1>6, <2>2 DEF LogDamaged, account
<1>7. CASE Pause
  <2>1. mj' \in Journals /\ journal' \in Journals
    BY <1>0, <1>7, JournalEdits DEF Pause, account, flow, Persist
  <2>2. TypeOK'
    BY <1>0, <1>7, <2>1 DEF Pause, account, flow, Persist
  <2> QED
    BY <2>2
<1>8. CASE Skip
  BY <1>0, <1>8 DEF Skip, disk, account
<1>9. CASE FlushCounters
  <2>1. mj' \in Journals /\ journal' \in Journals
    BY <1>0, <1>9, JournalEdits DEF FlushCounters, account, flow, Persist
  <2>2. TypeOK'
    BY <1>0, <1>9, <2>1 DEF FlushCounters, account, flow, Persist
  <2> QED
    BY <2>2
<1>10. CASE SendNext
  <2>1. PICK i \in todo : Send(i) /\ todo' = todo \ {i}
    BY <1>10 DEF SendNext
  <2>2. line' \in Lines
    BY <2>1, LineForType DEF Send
  <2> QED
    BY <1>0, <1>10, <2>1, <2>2 DEF SendNext, Send, disk, account
<1>11. CASE SendGone
  <2>1. mj' \in Journals /\ journal' \in Journals
    BY <1>0, <1>11, JournalEdits DEF SendGone, account, flow, Persist
  <2>2. TypeOK'
    BY <1>0, <1>11, <2>1 DEF SendGone, account, flow, Persist
  <2> QED
    BY <2>2
<1>12. CASE Upload
  <2>1. line.r \in Digests \cup {NoDigest}
    BY DEF Lines, NoLine
  <2>2. vault[cur] # 0 => [content |-> vault[cur], nonce |-> 0] \in Digests
    BY DEF Digests, Nonces
  <2>3. object' \in [Items -> Digests \cup {NoDigest}]
    BY <1>12, <2>1, <2>2 DEF Upload
  <2> QED
    BY <1>0, <1>12, <2>3 DEF Upload, disk, flow
<1>13. CASE Append
  BY <1>0, <1>13 DEF Append, account, flow, AppendLine, Appended, Lines
<1>14. CASE TransferFails
  <2>1. mj' \in Journals /\ journal' \in Journals
    BY <1>0, <1>14, JournalEdits DEF TransferFails, account, flow, Persist, Fault, Gone
  <2>2. TypeOK'
    BY <1>0, <1>14, <2>1 DEF TransferFails, account, flow, Persist, Fault, Gone
  <2> QED
    BY <2>2
<1>15. CASE FinishLoop
  <2>1. mj' \in Journals /\ journal' \in Journals
    BY <1>0, <1>15, JournalEdits DEF FinishLoop, account, flow, Persist
  <2>2. TypeOK'
    BY <1>0, <1>15, <2>1 DEF FinishLoop, account, flow, Persist
  <2> QED
    BY <2>2
<1>16. CASE PushTargetManifests
  <2>1. \A i \in Items : ledger[i].r \in Digests \cup {NoDigest}
    BY DEF Lines, NoLine
  <2>2. manifest' \in [Items -> Digests \cup {NoDigest}]
    BY <1>16, <2>1 DEF PushTargetManifests
  <2> QED
    BY <1>0, <1>16, <2>2 DEF PushTargetManifests, disk, flow
<1>17. CASE EnterVerifying
  <2>1. mj' \in Journals /\ journal' \in Journals
    BY <1>0, <1>17, JournalEdits DEF EnterVerifying, account, flow, Persist
  <2>2. TypeOK'
    BY <1>0, <1>17, <2>1 DEF EnterVerifying, account, flow, Persist
  <2> QED
    BY <2>2
<1>18. CASE ResetProof
  <2>1. mj' \in Journals /\ journal' \in Journals
    BY <1>0, <1>18, JournalEdits DEF ResetProof, account, flow, Persist
  <2>2. TypeOK'
    BY <1>0, <1>18, <2>1 DEF ResetProof, account, flow, Persist
  <2> QED
    BY <2>2
<1>19. CASE CheckManifest
  <2> DEFINE picked == {i \in plan \cap Sample : ledger[i].s = "done"}
  <2>1. picked \in SUBSET Items
    OBVIOUS
  <2>2. [mj EXCEPT !.sample = picked] \in Journals
    BY <1>0, <2>1, JournalEdits
  <2>3. [mj EXCEPT !.state = "FAILED", !.failed = TRUE] \in Journals
    BY <1>0, JournalEdits
  <2>4. /\ mj' \in Journals /\ journal' \in Journals
        /\ todo' \subseteq Items /\ pc' \in {"verify", "idle"}
    BY <1>19, <2>2, <2>3 DEF CheckManifest, Persist
  <2> QED
    BY <1>19, <2>4 DEF CheckManifest, account
<1>20. CASE ManifestFails
  <2>1. mj' \in Journals /\ journal' \in Journals
    BY <1>0, <1>20, JournalEdits DEF ManifestFails, account, flow, Persist, Fault
  <2>2. TypeOK'
    BY <1>0, <1>20, <2>1 DEF ManifestFails, account, flow, Persist, Fault
  <2> QED
    BY <2>2
<1>21. CASE VerifyItem
  <2>1. PICK i \in todo :
           /\ todo' = todo \ {i}
           /\ \/ Persist([mj EXCEPT !.ok = @ \cup {i}]) /\ UNCHANGED <<pc, cur, line, republish>>
              \/ Send(i) /\ republish' = TRUE /\ UNCHANGED <<mj, journal>>
              \/ /\ mj' = [mj EXCEPT !.failed = TRUE]
                 /\ UNCHANGED <<journal, pc, cur, line, republish>>
           /\ faults' = faults \/ Fault
    BY <1>21 DEF VerifyItem
  <2>2. mj' \in Journals /\ journal' \in Journals
    <3>1. [mj EXCEPT !.ok = @ \cup {i}] \in Journals /\ [mj EXCEPT !.failed = TRUE] \in Journals
      BY <1>0, JournalEdits
    <3> QED
      BY <1>0, <2>1, <3>1 DEF Persist
  <2>3. Send(i) => line' \in Lines /\ cur' \in Items /\ pc' \in {"upload", "append"}
    BY <2>1, LineForType DEF Send
  <2>4. faults' \in 0..MaxFaults
    BY <2>1 DEF Fault
  <2> QED
    BY <1>21, <2>1, <2>2, <2>3, <2>4 DEF VerifyItem, account
<1>22. CASE Recheck
  <2>1. Persist([mj EXCEPT !.ok = @ \cup {cur}]) => {mj', journal'} \subseteq Journals
    <3>1. [mj EXCEPT !.ok = @ \cup {cur}] \in Journals
      BY <1>0, JournalEdits
    <3> QED
      BY <3>1 DEF Persist
  <2>2. Persist([mj EXCEPT !.failed = TRUE]) => {mj', journal'} \subseteq Journals
    <3>1. [mj EXCEPT !.failed = TRUE] \in Journals
      BY <1>0, JournalEdits
    <3> QED
      BY <3>1 DEF Persist
  <2>3. mj' \in Journals /\ journal' \in Journals
    BY <1>22, <2>1, <2>2 DEF Recheck
  <2>4. TypeOK'
    BY <1>0, <1>22, <2>3 DEF Recheck, account, flow, Persist, Fault
  <2> QED
    BY <2>4
<1>23. CASE FinishVerification
  <2>1. mj' \in Journals /\ journal' \in Journals
    BY <1>0, <1>23, JournalEdits DEF FinishVerification, account, flow, Persist
  <2>2. TypeOK'
    BY <1>0, <1>23, <2>1 DEF FinishVerification, account, flow, Persist
  <2> QED
    BY <2>2
<1>24. CASE \E i \in Items : Edit(i)
  BY <1>0, <1>24 DEF Edit, disk, account, flow
<1>25. CASE \E i \in Items : Create(i)
  BY <1>0, <1>25 DEF Create, disk, account, flow
<1>26. CASE \E i \in Items : Delete(i)
  BY <1>0, <1>26 DEF Delete, disk, account, flow
<1>27. CASE Unlock
  BY <1>0, <1>27 DEF Unlock, account, flow
<1>28. CASE Quit
  <2>1. mj' \in Journals /\ journal' \in Journals
    BY <1>0, <1>28, JournalEdits DEF Quit, Stop, account, DeleteFEKSafe
  <2>2. TypeOK'
    BY <1>0, <1>28, <2>1 DEF Quit, Stop, account, DeleteFEKSafe
  <2> QED
    BY <2>2
<1>29. CASE Crash
  <2>1. mj' \in Journals /\ journal' \in Journals
    BY <1>0, <1>29 DEF Crash, Stop
  <2>2. keySafe' \in BOOLEAN
    BY <1>29 DEF Crash, DeleteFEKSafe
  <2>3. torn' \in BOOLEAN
    BY <1>29 DEF Crash
  <2>4. faults' \in 0..MaxFaults
    BY <1>29 DEF Crash, Fault
  <2> QED
    BY <1>0, <1>29, <2>1, <2>2, <2>3, <2>4 DEF Crash, Stop, account
<1>30. CASE Start
  <2>1. mj' \in Journals /\ journal' = mj'
    BY <1>0, <1>30, JournalEdits DEF Start, Persist
  <2>2. starting' \in BOOLEAN
    BY <1>30 DEF Start, Restarts
  <2> QED
    BY <1>30, <2>1, <2>2 DEF Start, account
<1>31. CASE UNCHANGED vars
  BY <1>31 DEF vars
<1> QED
  BY <1>1, <1>2, <1>3, <1>4, <1>5, <1>6, <1>7, <1>8, <1>9, <1>10, <1>11, <1>12, <1>13,
     <1>14, <1>15, <1>16, <1>17, <1>18, <1>19, <1>20, <1>21, <1>22, <1>23, <1>24, <1>25,
     <1>26, <1>27, <1>28, <1>29, <1>30, <1>31 DEF Next, Engine

\* The types hold.
THEOREM TypeCorrect == Spec => []TypeOK
<1>1. Init => TypeOK
  <2> SUFFICES ASSUME Init PROVE TypeOK
    OBVIOUS
  <2>1. cur \in Items
    BY ItemsAssumption DEF Init
  <2>2. journal \in Journals /\ mj \in Journals
    BY NewJournalType DEF Init
  <2>3. vault \in [Items -> 0..MaxVersion]
    BY ItemsAssumption DEF Init
  <2>4. /\ ledger \in [Items -> Lines \cup {NoLine}] /\ proofLines = ledger
        /\ object \in [Items -> Digests \cup {NoDigest}] /\ manifest = object
    BY DEF Init
  <2>5. /\ {planned, republish, starting, pauseAsked, activeFek} \subseteq BOOLEAN
        /\ torn \in BOOLEAN /\ keySafe \in BOOLEAN /\ line = NoLine
    BY DEF Init
  <2>6. faults \in 0..MaxFaults /\ plan = {} /\ bad = {} /\ todo = {} /\ pc = "idle"
    BY ItemsAssumption DEF Init
  <2> QED
    BY <2>1, <2>2, <2>3, <2>4, <2>5, <2>6 DEF TypeOK, Steps
<1> QED
  BY <1>1, TypeStep, PTL DEF Spec

-----------------------------------------------------------------------------
(***************************************************************************)
(* What is called damaged could not be opened.                             *)
(***************************************************************************)

\* Every step keeps what the lines say of the elements.
LEMMA OpenedStep ==
    ASSUME EnhancedLock \subseteq {FALSE}, TypeOK, Opened, [Next]_vars
    PROVE  Opened'
<1> USE ItemsAssumption DEF Opened, KeyAtHand, SentIsOpened, Sending, Truthful
<1>0. vault \in [Items -> 0..MaxVersion] /\ ledger \in [Items -> Lines \cup {NoLine}]
     /\ object \in [Items -> Digests \cup {NoDigest}] /\ todo \subseteq Items
  BY DEF TypeOK
<1>1. CASE OpenInventory
  BY <1>0, <1>1 DEF OpenInventory, disk, account
<1>2. CASE PressStart
  BY <1>0, <1>2 DEF PressStart, disk, account
<1>3. CASE BuildInventory
  BY <1>0, <1>3 DEF BuildInventory, account, Persist, Refreshed, Unreadable
<1>4. CASE StartPublishing
  BY <1>0, <1>4 DEF StartPublishing, account, Persist
<1>5. CASE LogDamaged
  BY <1>0, <1>5 DEF LogDamaged, account, AppendLine, Appended
<1>6. CASE Pause
  BY <1>0, <1>6 DEF Pause, account, flow, Persist, Refreshed
<1>7. CASE FlushCounters
  BY <1>0, <1>7 DEF FlushCounters, account, flow, Persist, Refreshed, TooManyDamaged
<1>8. CASE SendNext
  BY <1>0, <1>8 DEF SendNext, disk, account, Send, LineFor, NoDigest, Opens
<1>9. CASE SendGone
  BY <1>0, <1>9 DEF SendGone, account, flow, Persist, Refreshed
<1>10. CASE Upload
  <2>1. object'[cur] # NoDigest /\ \A i \in Items \ {cur} : object'[i] = object[i]
    BY <1>0, <1>10 DEF Upload, NoDigest, TypeOK
  <2>2. pc = "upload" /\ pc' = "append"
        /\ UNCHANGED <<keySafe, activeFek, bad, line, cur, ledger, proofLines>>
    BY <1>10 DEF Upload, disk, flow
  <2> QED
    BY <2>1, <2>2
<1>11. CASE Append
  BY <1>0, <1>11 DEF Append, account, flow, AppendLine, Appended, NoLine
<1>12. CASE TransferFails
  BY <1>0, <1>12 DEF TransferFails, account, flow, Persist, Refreshed, Fault, Gone
<1>13. CASE FinishLoop
  BY <1>0, <1>13 DEF FinishLoop, account, flow, Persist, Refreshed, TooManyDamaged
<1>14. CASE PushTargetManifests
  BY <1>0, <1>14 DEF PushTargetManifests, disk, flow
<1>15. CASE EnterVerifying
  BY <1>0, <1>15 DEF EnterVerifying, account, flow, Persist
<1>16. CASE ResetProof
  BY <1>0, <1>16 DEF ResetProof, account, flow, Persist
<1>17. CASE CheckManifest
  BY <1>0, <1>17 DEF CheckManifest, account, Persist
<1>18. CASE ManifestFails
  BY <1>0, <1>18 DEF ManifestFails, account, flow, Persist, Fault
<1>19. CASE VerifyItem
  BY <1>0, <1>19 DEF VerifyItem, account, Persist, Send, Fault, LineFor, NoDigest, Opens,
     NoLine
<1>20. CASE Recheck
  BY <1>0, <1>20 DEF Recheck, account, flow, Persist, Fault
<1>21. CASE FinishVerification
  BY <1>0, <1>21 DEF FinishVerification, account, flow, Persist
<1>22. CASE Unlock
  BY <1>0, <1>22 DEF Unlock, account, flow
<1>23. CASE Quit
  BY <1>0, <1>23 DEF Quit, Stop, account, DeleteFEKSafe, NoLine
<1>24. CASE Crash
  BY <1>0, <1>24 DEF Crash, Fault, Stop, account, DeleteFEKSafe, NoLine
<1>25. CASE Start
  BY <1>0, <1>25 DEF Start, account, Persist
<1>26. CASE RequestPause \/ Skip \/ (\E i \in Items : Edit(i))
            \/ (\E i \in Items : Create(i)) \/ (\E i \in Items : Delete(i))
  <2>1. UNCHANGED <<keySafe, pc, activeFek, bad, line, cur, ledger, proofLines, object>>
    BY <1>26 DEF RequestPause, Skip, Edit, Create, Delete, disk, account, flow
  <2> QED
    BY <2>1
<1>27. CASE UNCHANGED vars
  BY <1>27 DEF vars
<1> QED
  BY <1>1, <1>2, <1>3, <1>4, <1>5, <1>6, <1>7, <1>8, <1>9, <1>10, <1>11, <1>12, <1>13,
     <1>14, <1>15, <1>16, <1>17, <1>18, <1>19, <1>20, <1>21, <1>22, <1>23, <1>24, <1>25,
     <1>26, <1>27 DEF Next, Engine

-----------------------------------------------------------------------------
(***************************************************************************)
(* The proof rests on stored bytes.                                        *)
(***************************************************************************)
\* The contents of lines are numbers, of an element of the vault positive ones.
LEMMA ContentTypes ==
    ASSUME TypeOK
    PROVE  /\ vault \in [Items -> 0..MaxVersion] /\ MaxVersion \in Nat
           /\ ledger \in [Items -> Lines \cup {NoLine}]
           /\ object \in [Items -> Digests \cup {NoDigest}]
           /\ todo \subseteq Items /\ cur \in Items
           /\ \A i \in Items : ledger[i].r.content \in Nat /\ proofLines[i].r.content \in Nat
           /\ line.r.content \in Nat
<1>1. \A l \in Lines \cup {NoLine} : l.r.content \in Nat
  BY DEF Lines, NoLine, Digests, NoDigest
<1> QED
  BY <1>1, ItemsAssumption DEF TypeOK

\* Every step leaves contents at least as new as the lines say.
LEMMA GrowStep ==
    ASSUME EnhancedLock \subseteq {FALSE}, Deletable \subseteq AtStart,
           TypeOK, Opened, ContentsGrow, [Next]_vars
    PROVE  ContentsGrow'
<1> USE ItemsAssumption, ContentTypes DEF ContentsGrow, UpTo, Sending, Opened, KeyAtHand,
        SentIsOpened, Truthful
<1>1. CASE OpenInventory
  BY <1>1 DEF OpenInventory, disk, account
<1>2. CASE PressStart
  BY <1>2 DEF PressStart, disk, account
<1>3. CASE BuildInventory
  BY <1>3 DEF BuildInventory, account, Persist, Refreshed, Unreadable
<1>4. CASE StartPublishing
  BY <1>4 DEF StartPublishing, account, Persist
<1>5. CASE LogDamaged
  BY <1>5 DEF LogDamaged, account, AppendLine, Appended
<1>6. CASE Pause
  BY <1>6 DEF Pause, account, flow, Persist, Refreshed
<1>7. CASE FlushCounters
  BY <1>7 DEF FlushCounters, account, flow, Persist, Refreshed, TooManyDamaged
<1>8. CASE SendNext
  BY <1>8 DEF SendNext, disk, account, Send, LineFor, NoDigest, Opens
<1>9. CASE SendGone
  BY <1>9 DEF SendGone, account, flow, Persist, Refreshed
<1>10. CASE Upload
  BY <1>10 DEF Upload, disk, flow
<1>11. CASE Append
  BY <1>11 DEF Append, account, flow, AppendLine, Appended, NoLine
<1>12. CASE TransferFails
  BY <1>12 DEF TransferFails, account, flow, Persist, Refreshed, Fault, Gone
<1>13. CASE FinishLoop
  BY <1>13 DEF FinishLoop, account, flow, Persist, Refreshed, TooManyDamaged
<1>14. CASE PushTargetManifests
  BY <1>14 DEF PushTargetManifests, disk, flow
<1>15. CASE EnterVerifying
  BY <1>15 DEF EnterVerifying, account, flow, Persist
<1>16. CASE ResetProof
  BY <1>16 DEF ResetProof, account, flow, Persist
<1>17. CASE CheckManifest
  BY <1>17 DEF CheckManifest, account, Persist
<1>18. CASE ManifestFails
  BY <1>18 DEF ManifestFails, account, flow, Persist, Fault
<1>19. CASE VerifyItem
  BY <1>19 DEF VerifyItem, account, Persist, Send, Fault, LineFor, NoDigest, Opens, NoLine
<1>20. CASE Recheck
  BY <1>20 DEF Recheck, account, flow, Persist, Fault
<1>21. CASE FinishVerification
  BY <1>21 DEF FinishVerification, account, flow, Persist
<1>22. CASE \E i \in Items : Edit(i)
  BY <1>22 DEF Edit, disk, account, flow
<1>23. CASE \E i \in Items : Create(i)
  BY <1>23 DEF Create, disk, account, flow
<1>24. CASE \E i \in Items : Delete(i)
  BY <1>24 DEF Delete, disk, account, flow
<1>25. CASE Quit
  BY <1>25 DEF Quit, Stop, account, DeleteFEKSafe, NoLine
<1>26. CASE Crash
  BY <1>26 DEF Crash, Fault, Stop, account, DeleteFEKSafe, NoLine
<1>27. CASE Start
  BY <1>27 DEF Start, account, Persist
<1>28. CASE RequestPause \/ Skip \/ Unlock
  <2>1. UNCHANGED <<vault, ledger, proofLines, pc, cur, line>>
    BY <1>28 DEF RequestPause, Skip, Unlock, disk, account, flow
  <2> QED
    BY <2>1
<1>29. CASE UNCHANGED vars
  BY <1>29 DEF vars
<1> QED
  BY <1>1, <1>2, <1>3, <1>4, <1>5, <1>6, <1>7, <1>8, <1>9, <1>10, <1>11, <1>12, <1>13,
     <1>14, <1>15, <1>16, <1>17, <1>18, <1>19, <1>20, <1>21, <1>22, <1>23, <1>24, <1>25,
     <1>26, <1>27, <1>28, <1>29 DEF Next, Engine

\* Two contents none of which is newer are one.
LEMMA NatsEqual == \A a, b \in Nat : a <= b /\ b <= a => a = b
  OBVIOUS

\* Every write of the journal takes the sample and what was found along.
LEMMA MemoryStep ==
    ASSUME TypeOK, ProofInvariant, [Next]_vars
    PROVE  Memory'
<1> USE DEF ProofInvariant, Memory
<1>0. mj \in Journals /\ journal \in Journals
  BY DEF TypeOK
<1>1. CASE OpenInventory
  BY <1>0, <1>1 DEF OpenInventory, disk, account
<1>2. CASE PressStart
  BY <1>0, <1>2 DEF PressStart, disk, account
<1>3. CASE BuildInventory
  BY <1>0, <1>3 DEF BuildInventory, account, Persist, Refreshed, Unreadable, Journals
<1>4. CASE StartPublishing
  BY <1>0, <1>4 DEF StartPublishing, account, Persist, Journals
<1>5. CASE LogDamaged
  BY <1>0, <1>5 DEF LogDamaged, account, AppendLine, Appended
<1>6. CASE Pause
  BY <1>0, <1>6 DEF Pause, account, flow, Persist, Refreshed, Journals
<1>7. CASE FlushCounters
  BY <1>0, <1>7 DEF FlushCounters, account, flow, Persist, Refreshed, TooManyDamaged,
     Journals
<1>8. CASE SendNext
  BY <1>0, <1>8 DEF SendNext, disk, account, Send
<1>9. CASE SendGone
  BY <1>0, <1>9 DEF SendGone, account, flow, Persist, Refreshed, Journals
<1>10. CASE Upload
  BY <1>0, <1>10 DEF Upload, disk, flow
<1>11. CASE Append
  BY <1>0, <1>11 DEF Append, account, flow, AppendLine, Appended
<1>12. CASE TransferFails
  BY <1>0, <1>12 DEF TransferFails, account, flow, Persist, Refreshed, Fault, Gone, Journals
<1>13. CASE FinishLoop
  BY <1>0, <1>13 DEF FinishLoop, account, flow, Persist, Refreshed, TooManyDamaged, Journals
<1>14. CASE PushTargetManifests
  BY <1>0, <1>14 DEF PushTargetManifests, disk, flow
<1>15. CASE EnterVerifying
  BY <1>0, <1>15 DEF EnterVerifying, account, flow, Persist, Journals
<1>16. CASE ResetProof
  BY <1>0, <1>16 DEF ResetProof, account, flow, Persist, Journals
<1>17. CASE CheckManifest
  BY <1>0, <1>17 DEF CheckManifest, account, Persist, Journals
<1>18. CASE ManifestFails
  BY <1>0, <1>18 DEF ManifestFails, account, flow, Persist, Fault, Journals
<1>19. CASE VerifyItem
  BY <1>0, <1>19 DEF VerifyItem, account, Persist, Send, Fault, Journals
<1>20. CASE Recheck
  BY <1>0, <1>20 DEF Recheck, account, flow, Persist, Fault, Journals
<1>21. CASE FinishVerification
  BY <1>0, <1>21 DEF FinishVerification, account, flow, Persist, Journals
<1>22. CASE Quit
  BY <1>0, <1>22 DEF Quit, Stop, account, DeleteFEKSafe, Journals
<1>23. CASE Crash
  BY <1>0, <1>23 DEF Crash, Fault, Stop, account, DeleteFEKSafe, Journals
<1>24. CASE Start
  BY <1>0, <1>24 DEF Start, account, Persist, Journals
<1>25. CASE RequestPause \/ Skip \/ (\E i \in Items : Edit(i))
            \/ (\E i \in Items : Create(i)) \/ (\E i \in Items : Delete(i)) \/ Unlock
  <2>1. UNCHANGED <<pc, mj, journal>>
    BY <1>25 DEF RequestPause, Skip, Edit, Create, Delete, Unlock, disk, account, flow
  <2> QED
    BY <2>1
<1>26. CASE UNCHANGED vars
  BY <1>26 DEF vars
<1> QED
  BY <1>1, <1>2, <1>3, <1>4, <1>5, <1>6, <1>7, <1>8, <1>9, <1>10, <1>11, <1>12, <1>13,
     <1>14, <1>15, <1>16, <1>17, <1>18, <1>19, <1>20, <1>21, <1>22, <1>23, <1>24, <1>25,
     <1>26 DEF Next, Engine

\* The loop sends what has no line.
LEMMA LoopSendsStep ==
    ASSUME TypeOK, ProofInvariant, [Next]_vars
    PROVE  LoopSends'
<1> USE ContentTypes DEF ProofInvariant, LoopSends, Sending
<1>1. CASE OpenInventory
  BY <1>1 DEF OpenInventory, disk, account
<1>2. CASE PressStart
  BY <1>2 DEF PressStart, disk, account
<1>3. CASE BuildInventory
  BY <1>3 DEF BuildInventory, account, Persist, Refreshed, Unreadable
<1>4. CASE StartPublishing
  BY <1>4 DEF StartPublishing, account, Persist
<1>5. CASE LogDamaged
  BY <1>5 DEF LogDamaged, account, AppendLine, Appended
<1>6. CASE Pause
  BY <1>6 DEF Pause, account, flow, Persist, Refreshed
<1>7. CASE FlushCounters
  BY <1>7 DEF FlushCounters, account, flow, Persist, Refreshed, TooManyDamaged
<1>8. CASE SendNext
  BY <1>8 DEF SendNext, disk, account, Send, Handled
<1>9. CASE SendGone
  BY <1>9 DEF SendGone, account, flow, Persist, Refreshed
<1>10. CASE Upload
  BY <1>10 DEF Upload, disk, flow
<1>11. CASE Append
  BY <1>11 DEF Append, account, flow, AppendLine, Appended
<1>12. CASE TransferFails
  BY <1>12 DEF TransferFails, account, flow, Persist, Refreshed, Fault, Gone
<1>13. CASE FinishLoop
  BY <1>13 DEF FinishLoop, account, flow, Persist, Refreshed, TooManyDamaged
<1>14. CASE PushTargetManifests
  BY <1>14 DEF PushTargetManifests, disk, flow
<1>15. CASE EnterVerifying
  BY <1>15 DEF EnterVerifying, account, flow, Persist
<1>16. CASE ResetProof
  BY <1>16 DEF ResetProof, account, flow, Persist
<1>17. CASE CheckManifest
  BY <1>17 DEF CheckManifest, account, Persist
<1>18. CASE ManifestFails
  BY <1>18 DEF ManifestFails, account, flow, Persist, Fault
<1>19. CASE VerifyItem
  BY <1>19 DEF VerifyItem, account, Persist, Send, Fault
<1>20. CASE Recheck
  BY <1>20 DEF Recheck, account, flow, Persist, Fault
<1>21. CASE FinishVerification
  BY <1>21 DEF FinishVerification, account, flow, Persist
<1>22. CASE Quit
  BY <1>22 DEF Quit, Stop, account, DeleteFEKSafe
<1>23. CASE Crash
  BY <1>23 DEF Crash, Fault, Stop, account, DeleteFEKSafe
<1>24. CASE Start
  BY <1>24 DEF Start, account, Persist
<1>25. CASE RequestPause \/ Skip \/ (\E i \in Items : Edit(i))
            \/ (\E i \in Items : Create(i)) \/ (\E i \in Items : Delete(i)) \/ Unlock
  <2>1. UNCHANGED <<pc, republish, ledger, cur>>
    BY <1>25 DEF RequestPause, Skip, Edit, Create, Delete, Unlock, disk, account, flow
  <2> QED
    BY <2>1
<1>26. CASE UNCHANGED vars
  BY <1>26 DEF vars
<1> QED
  BY <1>1, <1>2, <1>3, <1>4, <1>5, <1>6, <1>7, <1>8, <1>9, <1>10, <1>11, <1>12, <1>13,
     <1>14, <1>15, <1>16, <1>17, <1>18, <1>19, <1>20, <1>21, <1>22, <1>23, <1>24, <1>25,
     <1>26 DEF Next, Engine

\* What was found in place stays in place.
LEMMA OkStandsStep ==
    ASSUME EnhancedLock \subseteq {FALSE}, Deletable \subseteq AtStart,
           TypeOK, Opened, ContentsGrow, ProofInvariant, [Next]_vars
    PROVE  OkStands'
<1> USE ContentTypes DEF ProofInvariant, OkStands, Stands, Memory, InProof, Sending,
        LoopSends, Compares, Republishes
<1>0. /\ mj \in Journals /\ journal \in Journals /\ journal.ok \subseteq Items
     /\ Refreshed(mj) \in Journals /\ Refreshed(mj).ok = mj.ok /\ Refreshed(mj).sample = mj.sample
  BY RefreshedType DEF TypeOK, Journals, Refreshed
<1>1. CASE BuildInventory
  BY <1>0, <1>1 DEF BuildInventory, account, Persist, Refreshed, Unreadable, Journals
<1>2. CASE StartPublishing
  BY <1>0, <1>2 DEF StartPublishing, account, Persist, Journals
<1>3. CASE LogDamaged
  <2>1. journal'.ok = journal.ok /\ journal'.sample = journal.sample
    BY <1>0, <1>3 DEF LogDamaged, account, AppendLine, Appended, NoLine, Journals
  <2>2. \A i \in journal.ok : UNCHANGED <<ledger[i], object[i], manifest[i]>>
    BY <1>0, <1>3 DEF LogDamaged, account, AppendLine, Appended, NoLine
  <2> QED
    BY <2>1, <2>2
<1>4. CASE Pause
  BY <1>0, <1>4 DEF Pause, account, flow, Persist, Refreshed, Journals
<1>5. CASE FlushCounters
  <2>1. journal'.ok = journal.ok /\ journal'.sample = journal.sample
    BY <1>0, <1>5 DEF FlushCounters, account, flow, Persist, Journals
  <2>2. \A i \in journal.ok : UNCHANGED <<ledger[i], object[i], manifest[i]>>
    BY <1>0, <1>5 DEF FlushCounters, account, flow, Persist
  <2> QED
    BY <2>1, <2>2
<1>6. CASE SendGone
  BY <1>0, <1>6 DEF SendGone, account, flow, Persist, Refreshed, Journals
<1>7. CASE Upload
  <2>1. journal'.ok = journal.ok /\ journal'.sample = journal.sample
    BY <1>0, <1>7 DEF Upload, disk, flow, NoLine, Journals
  <2>0. cur \notin journal.ok
    BY <1>0, <1>7 DEF Upload, NoLine
  <2>2. \A i \in journal.ok : UNCHANGED <<ledger[i], object[i], manifest[i]>>
    BY <1>0, <2>0, <1>7 DEF Upload, disk, flow
  <2> QED
    BY <2>1, <2>2
<1>8. CASE Append
  <2>1. journal'.ok = journal.ok /\ journal'.sample = journal.sample
    BY <1>0, <1>8 DEF Append, account, flow, AppendLine, Appended, NoLine, Journals
  <2>2. \A i \in journal.ok : UNCHANGED <<ledger[i], object[i], manifest[i]>>
    BY <1>0, <1>8 DEF Append, account, flow, AppendLine, Appended, NoLine
  <2> QED
    BY <2>1, <2>2
<1>9. CASE TransferFails
  <2>1. journal'.ok = journal.ok /\ journal'.sample = journal.sample
    BY <1>0, <1>9 DEF TransferFails, account, flow, Persist, Fault, Gone, Journals
  <2>2. \A i \in journal.ok : UNCHANGED <<ledger[i], object[i], manifest[i]>>
    BY <1>0, <1>9 DEF TransferFails, account, flow, Persist, Fault, Gone
  <2> QED
    BY <2>1, <2>2
<1>10. CASE FinishLoop
  <2>1. journal'.ok = journal.ok /\ journal'.sample = journal.sample
    BY <1>0, <1>10 DEF FinishLoop, account, flow, Persist, Journals
  <2>2. \A i \in journal.ok : UNCHANGED <<ledger[i], object[i], manifest[i]>>
    BY <1>0, <1>10 DEF FinishLoop, account, flow, Persist
  <2> QED
    BY <2>1, <2>2
<1>11. CASE PushTargetManifests
  <2>1. /\ UNCHANGED <<journal, ledger, object>>
        /\ \A i \in Items : ledger[i].s = "done" => manifest'[i] = ledger[i].r
    BY <1>11 DEF PushTargetManifests, disk
  <2> QED
    BY <1>0, <2>1
<1>12. CASE EnterVerifying
  BY <1>0, <1>12 DEF EnterVerifying, account, flow, Persist, Journals
<1>13. CASE ResetProof
  BY <1>0, <1>13 DEF ResetProof, account, flow, Persist, Journals
<1>14. CASE CheckManifest
  <2>1. mj.ok = {} /\ UNCHANGED <<ledger, object, manifest>>
    BY <1>14 DEF CheckManifest, account
  <2>2. \/ \E picked : journal' = [mj EXCEPT !.sample = picked]
        \/ journal' = [mj EXCEPT !.state = "FAILED", !.failed = TRUE]
    BY <1>14 DEF CheckManifest, Persist
  <2>3. journal'.ok = {}
    BY <1>0, <2>1, <2>2 DEF Journals
  <2> QED
    BY <2>3
<1>15. CASE ManifestFails
  BY <1>0, <1>15 DEF ManifestFails, account, flow, Persist, Fault, Journals
<1>16. CASE VerifyItem
  BY <1>0, <1>16 DEF VerifyItem, account, Persist, Send, Fault, Journals, Matches, ProofLine
<1>17. CASE Recheck
  <2>1. UNCHANGED <<ledger, object, manifest>>
    BY <1>17 DEF Recheck, account
  <2>2. CASE Matches(cur) /\ journal' = [mj EXCEPT !.ok = @ \cup {cur}]
    <3>1. Stands(cur)
      <4>1. proofLines[cur].s = "done" /\ manifest[cur] = proofLines[cur].r
        BY <1>17 DEF Recheck
      <4>2. object[cur] = proofLines[cur].r
        BY <2>2 DEF Matches, ProofLine
      <4>3. CASE ledger[cur] = proofLines[cur]
        BY <4>1, <4>2, <4>3
      <4>4. CASE ledger[cur] = line
        <5>1. Kind[cur] = "machine"
          BY <1>17, <4>2 DEF Recheck
        <5>2. line.r = object[cur]
          <6>1. /\ line.r.nonce = object[cur].nonce /\ line.r.content <= object[cur].content
                /\ object[cur].content <= line.r.content
            BY <1>17, <4>2, <5>1 DEF Recheck
          <6>0. line.r.content \in Nat /\ object[cur].content \in Nat
            BY <4>2, ContentTypes
          <6>2. line.r.content = object[cur].content
            BY <6>0, <6>1, NatsEqual
          <6>3. line.r \in Digests \cup {NoDigest} /\ object[cur] \in Digests \cup {NoDigest}
            BY DEF TypeOK, Lines, NoLine
          <6> QED
            BY <6>1, <6>2, <6>3 DEF Digests, NoDigest
        <5> QED
          BY <1>17, <4>1, <4>2, <4>4, <5>2 DEF Recheck
      <4> QED
        BY <1>17, <4>3, <4>4 DEF Recheck
    <3>2. journal'.ok = journal.ok \cup {cur} /\ journal'.sample = journal.sample
          /\ cur \in journal.sample
      BY <1>0, <1>17, <2>2 DEF Recheck, Journals
    <3> QED
      BY <1>0, <2>1, <3>1, <3>2
  <2>3. CASE journal' = [mj EXCEPT !.failed = TRUE]
    <3>1. journal'.ok = journal.ok /\ journal'.sample = journal.sample
      BY <1>0, <1>17, <2>3 DEF Recheck, Journals
    <3> QED
      BY <2>1, <3>1
  <2> QED
    BY <1>17, <2>2, <2>3 DEF Recheck, Persist
<1>18. CASE FinishVerification
  BY <1>0, <1>18 DEF FinishVerification, account, flow, Persist, Journals
<1>19. CASE Start
  BY <1>0, <1>19 DEF Start, account, Persist, Journals
<1>20. CASE OpenInventory \/ PressStart \/ RequestPause \/ Skip \/ SendNext
            \/ (\E i \in Items : Edit(i)) \/ (\E i \in Items : Create(i))
            \/ (\E i \in Items : Delete(i)) \/ Unlock \/ Quit \/ Crash
  <2>1. UNCHANGED <<journal, ledger, object, manifest>>
    BY <1>20 DEF OpenInventory, PressStart, RequestPause, Skip, SendNext, Edit, Create,
       Delete, Unlock, Quit, Crash, disk, account, Send, flow, Stop, DeleteFEKSafe, Fault
  <2> QED
    BY <2>1
<1>21. CASE UNCHANGED vars
  BY <1>21 DEF vars
<1> QED
  BY <1>1, <1>2, <1>3, <1>4, <1>5, <1>6, <1>7, <1>8, <1>9, <1>10, <1>11, <1>12, <1>13,
     <1>14, <1>15, <1>16, <1>17, <1>18, <1>19, <1>20, <1>21 DEF Next, Engine

\* The verification compares with the ledger it found.
LEMMA ComparesStep ==
    ASSUME EnhancedLock \subseteq {FALSE}, Deletable \subseteq AtStart,
           TypeOK, Opened, ContentsGrow, ProofInvariant, [Next]_vars
    PROVE  Compares'
<1> USE ContentTypes DEF ProofInvariant, Compares, InProof, Sending, Memory, OkStands,
        LoopSends, Republishes
<1>0. mj \in Journals /\ journal \in Journals
  BY DEF TypeOK
<1>1. CASE OpenInventory
  BY <1>0, <1>1 DEF OpenInventory, disk, account
<1>2. CASE PressStart
  BY <1>0, <1>2 DEF PressStart, disk, account
<1>3. CASE BuildInventory
  BY <1>0, <1>3 DEF BuildInventory, account, Persist, Refreshed, Unreadable, Journals
<1>4. CASE StartPublishing
  BY <1>0, <1>4 DEF StartPublishing, account, Persist, Journals
<1>5. CASE LogDamaged
  BY <1>0, <1>5 DEF LogDamaged, account, AppendLine, Appended
<1>6. CASE Pause
  BY <1>0, <1>6 DEF Pause, account, flow, Persist, Refreshed, Journals
<1>7. CASE Skip
  BY <1>0, <1>7 DEF Skip, disk, account
<1>8. CASE FlushCounters
  BY <1>0, <1>8 DEF FlushCounters, account, flow, Persist, Refreshed, TooManyDamaged,
     Journals
<1>9. CASE SendNext
  BY <1>0, <1>9 DEF SendNext, disk, account, Send
<1>10. CASE SendGone
  BY <1>0, <1>10 DEF SendGone, account, flow, Persist, Refreshed, Journals
<1>11. CASE Upload
  BY <1>0, <1>11 DEF Upload, disk, flow
<1>12. CASE Append
  BY <1>0, <1>12 DEF Append, account, flow, AppendLine, Appended
<1>13. CASE TransferFails
  BY <1>0, <1>13 DEF TransferFails, account, flow, Persist, Refreshed, Fault, Gone, Journals
<1>14. CASE FinishLoop
  BY <1>0, <1>14 DEF FinishLoop, account, flow, Persist, Refreshed, TooManyDamaged, Journals
<1>15. CASE PushTargetManifests
  BY <1>0, <1>15 DEF PushTargetManifests, disk, flow
<1>16. CASE EnterVerifying
  BY <1>0, <1>16 DEF EnterVerifying, account, flow, Persist, Journals
<1>17. CASE ResetProof
  BY <1>0, <1>17 DEF ResetProof, account, flow, Persist, Journals
<1>18. CASE CheckManifest
  BY <1>0, <1>18 DEF CheckManifest, account, Persist, Journals
<1>19. CASE ManifestFails
  BY <1>0, <1>19 DEF ManifestFails, account, flow, Persist, Fault, Journals
<1>20. CASE VerifyItem
  BY <1>0, <1>20 DEF VerifyItem, account, Persist, Send, Fault, Journals
<1>21. CASE Recheck
  BY <1>0, <1>21 DEF Recheck, account, flow, Persist, Fault, Journals
<1>22. CASE FinishVerification
  BY <1>0, <1>22 DEF FinishVerification, account, flow, Persist, Journals
<1>23. CASE Quit
  BY <1>0, <1>23 DEF Quit, Stop, account, DeleteFEKSafe, Journals
<1>24. CASE Crash
  BY <1>0, <1>24 DEF Crash, Fault, Stop, account, DeleteFEKSafe, Journals
<1>25. CASE Start
  BY <1>0, <1>25 DEF Start, account, Persist, Journals
<1>26. CASE RequestPause \/ (\E i \in Items : Edit(i)) \/ (\E i \in Items : Create(i))
            \/ (\E i \in Items : Delete(i)) \/ Unlock
  <2>1. UNCHANGED <<pc, mj, journal, republish, manifest, proofLines, todo, ledger>>
    BY <1>26 DEF RequestPause, Edit, Create, Delete, Unlock, disk, account, flow
  <2> QED
    BY <2>1
<1>27. CASE UNCHANGED vars
  BY <1>27 DEF vars
<1> QED
  BY <1>1, <1>2, <1>3, <1>4, <1>5, <1>6, <1>7, <1>8, <1>9, <1>10, <1>11, <1>12, <1>13,
     <1>14, <1>15, <1>16, <1>17, <1>18, <1>19, <1>20, <1>21, <1>22, <1>23, <1>24, <1>25,
     <1>26, <1>27 DEF Next, Engine

\* What is sent once more gets other bytes.
LEMMA RepublishesStep ==
    ASSUME EnhancedLock \subseteq {FALSE}, Deletable \subseteq AtStart,
           TypeOK, Opened, ContentsGrow, ProofInvariant, [Next]_vars
    PROVE  Republishes'
<1> USE ContentTypes, ItemsAssumption DEF ProofInvariant, Compares, InProof, Sending,
        Memory, OkStands, LoopSends, Republishes, Opened, KeyAtHand, SentIsOpened,
        Truthful, ContentsGrow, UpTo
<1>0. mj \in Journals /\ journal \in Journals
  BY DEF TypeOK
<1>1. CASE OpenInventory
  BY <1>0, <1>1 DEF OpenInventory, disk, account
<1>2. CASE PressStart
  BY <1>0, <1>2 DEF PressStart, disk, account
<1>3. CASE BuildInventory
  BY <1>0, <1>3 DEF BuildInventory, account, Persist, Refreshed, Unreadable, Journals
<1>4. CASE StartPublishing
  BY <1>0, <1>4 DEF StartPublishing, account, Persist, Journals
<1>5. CASE LogDamaged
  BY <1>0, <1>5 DEF LogDamaged, account, AppendLine, Appended
<1>6. CASE Pause
  BY <1>0, <1>6 DEF Pause, account, flow, Persist, Refreshed, Journals
<1>7. CASE Skip
  BY <1>0, <1>7 DEF Skip, disk, account
<1>8. CASE FlushCounters
  BY <1>0, <1>8 DEF FlushCounters, account, flow, Persist, Refreshed, TooManyDamaged,
     Journals
<1>9. CASE SendNext
  BY <1>0, <1>9 DEF SendNext, disk, account, Send
<1>10. CASE SendGone
  BY <1>0, <1>10 DEF SendGone, account, flow, Persist, Refreshed, Journals
<1>11. CASE Upload
  BY <1>0, <1>11 DEF Upload, disk, flow
<1>12. CASE Append
  BY <1>0, <1>12 DEF Append, account, flow, AppendLine, Appended
<1>13. CASE TransferFails
  BY <1>0, <1>13 DEF TransferFails, account, flow, Persist, Refreshed, Fault, Gone, Journals
<1>14. CASE FinishLoop
  BY <1>0, <1>14 DEF FinishLoop, account, flow, Persist, Refreshed, TooManyDamaged, Journals
<1>15. CASE PushTargetManifests
  BY <1>0, <1>15 DEF PushTargetManifests, disk, flow
<1>16. CASE EnterVerifying
  BY <1>0, <1>16 DEF EnterVerifying, account, flow, Persist, Journals
<1>17. CASE ResetProof
  BY <1>0, <1>17 DEF ResetProof, account, flow, Persist, Journals
<1>18. CASE CheckManifest
  BY <1>0, <1>18 DEF CheckManifest, account, Persist, Journals
<1>19. CASE ManifestFails
  BY <1>0, <1>19 DEF ManifestFails, account, flow, Persist, Fault, Journals
<1>20. CASE VerifyItem
  <2>1. PICK i \in todo :
           /\ todo' = todo \ {i}
           /\ \/ pc' = "verify"
              \/ Send(i) /\ republish' = TRUE /\ UNCHANGED <<mj, journal>>
    BY <1>20 DEF VerifyItem
  <2>2. UNCHANGED <<ledger, object, manifest, proofLines, vault>> /\ pc = "verify" /\ activeFek
    BY <1>20 DEF VerifyItem, account
  <2>3. CASE pc' = "verify"
    BY <2>3
  <2>4. CASE Send(i) /\ republish' = TRUE /\ UNCHANGED <<mj, journal>>
    <3>1. /\ i \in mj.sample \ mj.ok /\ ledger[i] = proofLines[i] /\ proofLines[i].s = "done"
          /\ Kind[i] # "broken" /\ cur' = i /\ vault[i] # 0
      BY <1>0, <2>2, <2>4 DEF Send
    <3>2. line' = LineFor(i) /\ line'.s = "done" /\ pc' = "upload"
      BY <2>2, <2>4, <3>1 DEF Send, LineFor, Opens
    <3>3. CASE Kind[i] = "machine"
      <4>1. line'.r.nonce = 0 /\ line'.r.content = vault[i]
        BY <3>2, <3>3 DEF LineFor
      <4>2. proofLines[i].r.content <= vault[i]
        BY <3>1
      <4> QED
        BY <2>1, <2>2, <2>4, <3>1, <3>2, <3>3, <4>1, <4>2
    <3>4. CASE Kind[i] # "machine"
      <4>1. line'.r.nonce = FreshNonce(i)
        BY <2>2, <3>1, <3>2, <3>4 DEF LineFor, Opens
      <4>2. FreshNonce(i) # proofLines[i].r.nonce
        BY <1>0, FreshNonceType DEF UsedNonces
      <4> QED
        BY <2>1, <2>2, <2>4, <3>1, <3>2, <3>4, <4>1, <4>2
    <3> QED
      BY <3>3, <3>4
  <2> QED
    BY <2>1, <2>3, <2>4
<1>21. CASE Recheck
  BY <1>0, <1>21 DEF Recheck, account, flow, Persist, Fault, Journals
<1>22. CASE FinishVerification
  BY <1>0, <1>22 DEF FinishVerification, account, flow, Persist, Journals
<1>23. CASE Quit
  BY <1>0, <1>23 DEF Quit, Stop, account, DeleteFEKSafe, Journals
<1>24. CASE Crash
  BY <1>0, <1>24 DEF Crash, Fault, Stop, account, DeleteFEKSafe, Journals
<1>25. CASE Start
  BY <1>0, <1>25 DEF Start, account, Persist, Journals
<1>26. CASE RequestPause \/ (\E i \in Items : Edit(i)) \/ (\E i \in Items : Create(i))
            \/ (\E i \in Items : Delete(i)) \/ Unlock
  <2>1. UNCHANGED <<pc, mj, journal, republish, proofLines, todo, ledger, cur, line, object>>
    BY <1>26 DEF RequestPause, Edit, Create, Delete, Unlock, disk, account, flow
  <2> QED
    BY <2>1
<1>27. CASE UNCHANGED vars
  BY <1>27 DEF vars
<1> QED
  BY <1>1, <1>2, <1>3, <1>4, <1>5, <1>6, <1>7, <1>8, <1>9, <1>10, <1>11, <1>12, <1>13,
     <1>14, <1>15, <1>16, <1>17, <1>18, <1>19, <1>20, <1>21, <1>22, <1>23, <1>24, <1>25,
     <1>26, <1>27 DEF Next, Engine

\* No line that is done is lost.
LEMMA PublishedStep ==
    ASSUME EnhancedLock \subseteq {FALSE}, Deletable \subseteq AtStart,
           TypeOK, Opened, ContentsGrow, ProofInvariant, Next
    PROVE  \A i \in Items : ledger[i].s = "done" => ledger'[i].s = "done"
<1> USE ContentTypes DEF ProofInvariant, OkStands, Memory, InProof, Sending, LoopSends,
        Compares, Republishes
<1>1. CASE LogDamaged
  BY <1>1 DEF LogDamaged, account, AppendLine, Appended, NoLine
<1>2. CASE Append
  BY <1>2 DEF Append, account, flow, AppendLine, Appended, NoLine
<1>3. CASE OpenInventory \/ PressStart \/ RequestPause \/ BuildInventory
            \/ StartPublishing \/ Pause \/ Skip \/ FlushCounters \/ SendNext
            \/ SendGone \/ Upload \/ TransferFails \/ FinishLoop
            \/ PushTargetManifests \/ EnterVerifying \/ ResetProof \/ CheckManifest
            \/ ManifestFails \/ VerifyItem \/ Recheck \/ FinishVerification
            \/ (\E i \in Items : Edit(i)) \/ (\E i \in Items : Create(i))
            \/ (\E i \in Items : Delete(i)) \/ Unlock \/ Quit \/ Crash \/ Start
  <2>1. UNCHANGED ledger
    BY <1>3 DEF OpenInventory, PressStart, RequestPause, BuildInventory, StartPublishing,
       Pause, Skip, FlushCounters, SendNext, SendGone, Upload, TransferFails, FinishLoop,
       PushTargetManifests, EnterVerifying, ResetProof, CheckManifest, ManifestFails,
       VerifyItem, Recheck, FinishVerification, Edit, Create, Delete, Unlock, Quit, Crash,
       Start, disk, account, Persist, Refreshed, Unreadable, flow, TooManyDamaged, Send,
       Fault, Gone, Stop, DeleteFEKSafe
  <2> QED
    BY <2>1
<1> QED
  BY <1>1, <1>2, <1>3 DEF Next, Engine

\* They hold at the start.
LEMMA ProofStart == Init => Opened /\ ContentsGrow /\ ProofInvariant
<1> SUFFICES ASSUME Init PROVE Opened /\ ContentsGrow /\ ProofInvariant
  OBVIOUS
<1>1. /\ \A i \in Items : ledger[i] = NoLine /\ proofLines[i] = NoLine
      /\ pc = "idle" /\ journal = NewJournal /\ mj = NewJournal /\ keySafe /\ activeFek
      /\ bad = {} /\ ~republish
  BY DEF Init
<1>2. Opened
  BY <1>1 DEF Opened, KeyAtHand, SentIsOpened, Sending, Truthful, NoLine
<1>3. ContentsGrow
  BY <1>1 DEF ContentsGrow, Sending, NoLine
<1>4. ProofInvariant
  BY <1>1 DEF ProofInvariant, Memory, OkStands, LoopSends, Compares, Republishes, InProof,
     Sending, NewJournal
<1> QED
  BY <1>2, <1>3, <1>4

\* Every step keeps the invariant of the proof, part by part.
LEMMA ProofStep ==
    ASSUME EnhancedLock \subseteq {FALSE}, Deletable \subseteq AtStart,
           TypeOK, Opened, ContentsGrow, ProofInvariant, [Next]_vars
    PROVE  ProofInvariant'
  BY MemoryStep, OkStandsStep, LoopSendsStep, ComparesStep, RepublishesStep
  DEF ProofInvariant

\* What is sent and reported was opened, in every state.
LEMMA OpenedHolds ==
    ASSUME EnhancedLock \subseteq {FALSE} PROVE Spec => [](TypeOK /\ Opened)
  BY ProofStart, OpenedStep, TypeCorrect, PTL DEF Spec

\* The invariant of the proof holds in every state.
LEMMA ProofHolds ==
    ASSUME EnhancedLock \subseteq {FALSE}, Deletable \subseteq AtStart
    PROVE  Spec => [](TypeOK /\ Opened /\ ContentsGrow /\ ProofInvariant)
  BY ProofStart, OpenedHolds, GrowStep, ProofStep, PTL DEF Spec

\* What is reported damaged is what the vault key does not open, whatever is torn,
\* edited, deleted or fails meanwhile: without the enhanced lock the key is at hand
\* in every inventory and transfer, those of a restart included.
THEOREM DamagedTheorem ==
    ASSUME EnhancedLock \subseteq {FALSE} PROVE Spec => []DamagedWasUnreadable
<1>1. Opened => DamagedWasUnreadable
  BY DEF Opened, Truthful, DamagedWasUnreadable
<1> QED
  BY <1>1, OpenedHolds, PTL

\* A journal that allows the switch vouches for stored bytes: every sampled element
\* was found in place, and no crash, republication, edit or later run took that back.
THEOREM ProofTheorem ==
    ASSUME EnhancedLock \subseteq {FALSE}, Deletable \subseteq AtStart
    PROVE  Spec => []ProofIsSound
<1>1. ASSUME TypeOK, OkStands, CanSwitch(journal) PROVE journal.sample = journal.ok
  <2>1. journal.sample \in SUBSET Items /\ journal.ok \in SUBSET journal.sample
    BY <1>1 DEF TypeOK, Journals, OkStands
  <2>2. CASE journal.sample = {}
    BY <2>1, <2>2
  <2>3. CASE journal.sample # {}
    <3>1. IsFiniteSet(journal.sample)
      BY <2>1, ItemsAssumption, FS_Subset
    <3>2. /\ Cardinality(journal.ok) \in Nat /\ Cardinality(journal.sample) \in Nat
          /\ Cardinality(journal.ok) <= Cardinality(journal.sample)
          /\ Cardinality(journal.sample) = Cardinality(journal.ok)
               => journal.sample = journal.ok
      BY <2>1, <3>1, FS_Subset, FS_CardinalityType
    <3>3. Cardinality(journal.ok) >= Cardinality(journal.sample)
      BY <1>1, <2>3 DEF CanSwitch
    <3> QED
      BY <3>2, <3>3
  <2> QED
    BY <2>2, <2>3
<1>2. TypeOK /\ ProofInvariant => ProofIsSound
  BY <1>1 DEF ProofInvariant, OkStands, Stands, ProofIsSound
<1> QED
  BY <1>2, ProofHolds, PTL

\* A published element is not lost again, in any later run or republication.
THEOREM PublishedTheorem ==
    ASSUME EnhancedLock \subseteq {FALSE}, Deletable \subseteq AtStart
    PROVE  Spec => PublishedStays
<1>1. TypeOK /\ Opened /\ ContentsGrow /\ ProofInvariant /\ [Next]_vars
        => [\A i \in Items : ledger[i].s = "done" => ledger'[i].s = "done"]_vars
  BY PublishedStep
<1> QED
  BY <1>1, ProofHolds, PTL DEF Spec, PublishedStays

-----------------------------------------------------------------------------
(***************************************************************************)
(* Nothing is forgotten.  Two reasons, of which the code needs one: either *)
(* no line is lost, and then the loop has left a line for every element of *)
(* the plan; or nothing is deleted, and then as many lines as elements are *)
(* lines of all of them, whatever half line a crash has made unreadable.   *)
(***************************************************************************)
\* The elements with a line.
Lined == {i \in Items : ledger[i] # NoLine}

\* At rest after a verification that did not fail.
AtRest == pc = "idle" /\ planned /\ journal.state = "VERIFYING"
AfterPush == pc \in {"verifying", "reset", "manifest"} \/ InProof \/ AtRest

\* A line is good for the manifest, and what is done is in it.
Pushed ==
    /\ \A i \in Items : ledger[i].s = "done" => ledger[i].r # NoDigest
    /\ Sending => line # NoLine /\ (line.s = "done" => line.r # NoDigest)
    /\ AfterPush => \A i \in Items : ledger[i].s = "done" => manifest[i] # NoDigest
    /\ InProof => \A i \in todo : manifest[i] # NoDigest /\ ledger[i] # NoLine
    /\ InProof /\ pc # "verify" => manifest[cur] # NoDigest /\ ledger[cur] # NoLine

\* When no line is lost: what the loop no longer has to do has a line.
HandledAll ==
    /\ ~torn
    /\ pc = "damaged" => plan \subseteq todo
    /\ pc = "next" => plan \subseteq todo \cup Lined
    /\ Sending /\ ~republish => plan \subseteq todo \cup Lined \cup {cur}
    /\ pc = "push" \/ AfterPush => plan \subseteq Lined

\* When nothing is deleted: what has a line, or is to get one, is in the vault, and
\* the total counts all of it.
Known == plan \cup bad \cup Lined
InVault ==
    /\ \A i \in Known : vault[i] # 0
    /\ pc \in {"damaged", "next"} \/ (Sending /\ ~republish) => todo \subseteq plan
    /\ Sending => vault[cur] # 0 /\ cur \in plan \cup Lined
    /\ InProof => todo \subseteq Lined
Counts ==
    /\ planned => mj.total = journal.total /\ Cardinality(Known) <= mj.total
    /\ journal.done + journal.damaged <= Cardinality(Lined)
    /\ mj.done + mj.damaged <= Cardinality(Lined)

\* The types the lemmas of this part use.
LEMMA LineTypes ==
    ASSUME TypeOK
    PROVE  /\ ledger \in [Items -> Lines \cup {NoLine}] /\ cur \in Items
           /\ manifest \in [Items -> Digests \cup {NoDigest}]
           /\ plan \subseteq Items /\ bad \subseteq Items /\ todo \subseteq Items
           /\ mj \in Journals /\ journal \in Journals
           /\ vault \in [Items -> 0..MaxVersion]
  BY DEF TypeOK

\* Every step keeps lines and manifest together.
LEMMA PushedStep ==
    ASSUME TypeOK, Pushed, [Next]_vars
    PROVE  Pushed'
<1> USE ItemsAssumption, LineTypes DEF Pushed, AfterPush, AtRest, InProof, Sending
<1>1. CASE OpenInventory
  BY <1>1 DEF OpenInventory, disk, account
<1>2. CASE PressStart
  BY <1>2 DEF PressStart, disk, account
<1>3. CASE BuildInventory
  BY <1>3 DEF BuildInventory, account, Persist, Refreshed, Unreadable, Journals
<1>4. CASE StartPublishing
  BY <1>4 DEF StartPublishing, account, Persist
<1>5. CASE LogDamaged
  BY <1>5 DEF LogDamaged, account, AppendLine, Appended, NoDigest, NoLine
<1>6. CASE Pause
  BY <1>6 DEF Pause, account, flow, Persist, Refreshed, Journals
<1>7. CASE Skip
  BY <1>7 DEF Skip, disk, account
<1>8. CASE FlushCounters
  BY <1>8 DEF FlushCounters, account, flow, Persist, Refreshed, TooManyDamaged, Journals
<1>9. CASE SendNext
  BY <1>9 DEF SendNext, disk, account, Send, LineFor, NoDigest, NoLine
<1>10. CASE SendGone
  BY <1>10 DEF SendGone, account, flow, Persist, Refreshed, Journals
<1>11. CASE Upload
  BY <1>11 DEF Upload, disk, flow
<1>12. CASE Append
  BY <1>12 DEF Append, account, flow, AppendLine, Appended, NoLine
<1>13. CASE TransferFails
  BY <1>13 DEF TransferFails, account, flow, Persist, Refreshed, Fault, Gone, Journals
<1>14. CASE FinishLoop
  BY <1>14 DEF FinishLoop, account, flow, Persist, Refreshed, TooManyDamaged, Journals
<1>15. CASE PushTargetManifests
  BY <1>15 DEF PushTargetManifests, disk, flow
<1>16. CASE EnterVerifying
  BY <1>16 DEF EnterVerifying, account, flow, Persist
<1>17. CASE ResetProof
  BY <1>17 DEF ResetProof, account, flow, Persist
<1>18. CASE CheckManifest
  BY <1>18 DEF CheckManifest, account, Persist, NoLine, Journals
<1>19. CASE ManifestFails
  BY <1>19 DEF ManifestFails, account, flow, Persist, Fault, Journals
<1>20. CASE VerifyItem
  BY <1>20 DEF VerifyItem, account, Persist, Send, Fault, LineFor, NoDigest, NoLine
<1>21. CASE Recheck
  BY <1>21 DEF Recheck, account, flow, Persist, Fault
<1>22. CASE FinishVerification
  BY <1>22 DEF FinishVerification, account, flow, Persist
<1>23. CASE Quit
  BY <1>23 DEF Quit, Stop, account, DeleteFEKSafe
<1>24. CASE Crash
  BY <1>24 DEF Crash, Fault, Stop, account, DeleteFEKSafe
<1>25. CASE Start
  BY <1>25 DEF Start, account, Persist, Restarts, Journals
<1>26. CASE RequestPause \/ (\E i \in Items : Edit(i)) \/ (\E i \in Items : Create(i))
            \/ (\E i \in Items : Delete(i)) \/ Unlock
  <2>1. UNCHANGED <<pc, planned, journal, ledger, line, republish, manifest, todo, cur>>
    BY <1>26 DEF RequestPause, Edit, Create, Delete, Unlock, disk, account, flow
  <2> QED
    BY <2>1
<1>27. CASE UNCHANGED vars
  BY <1>27 DEF vars
<1> QED
  BY <1>1, <1>2, <1>3, <1>4, <1>5, <1>6, <1>7, <1>8, <1>9, <1>10, <1>11, <1>12, <1>13,
     <1>14, <1>15, <1>16, <1>17, <1>18, <1>19, <1>20, <1>21, <1>22, <1>23, <1>24, <1>25,
     <1>26, <1>27 DEF Next, Engine

\* Every step leaves a line for what is handled.
LEMMA HandledStep ==
    ASSUME TornLines = FALSE, TypeOK, Pushed, HandledAll, [Next]_vars
    PROVE  HandledAll'
<1> USE LineTypes DEF HandledAll, Pushed, AfterPush, AtRest, InProof, Sending, Lined
<1>1. CASE OpenInventory
  BY <1>1 DEF OpenInventory, disk, account
<1>2. CASE PressStart
  BY <1>2 DEF PressStart, disk, account
<1>3. CASE BuildInventory
  BY <1>3 DEF BuildInventory, account, Persist, Refreshed, Unreadable, Journals
<1>4. CASE StartPublishing
  BY <1>4 DEF StartPublishing, account, Persist
<1>5. CASE LogDamaged
  BY <1>5 DEF LogDamaged, account, AppendLine, Appended, NoLine
<1>6. CASE Pause
  BY <1>6 DEF Pause, account, flow, Persist, Refreshed, Journals
<1>7. CASE Skip
  BY <1>7 DEF Skip, disk, account, Handled
<1>8. CASE FlushCounters
  BY <1>8 DEF FlushCounters, account, flow, Persist, Refreshed, TooManyDamaged, Journals
<1>9. CASE SendNext
  BY <1>9 DEF SendNext, disk, account, Send, Handled
<1>10. CASE SendGone
  BY <1>10 DEF SendGone, account, flow, Persist, Refreshed, Journals
<1>11. CASE Upload
  BY <1>11 DEF Upload, disk, flow
<1>12. CASE Append
  BY <1>12 DEF Append, account, flow, AppendLine, Appended
<1>13. CASE TransferFails
  BY <1>13 DEF TransferFails, account, flow, Persist, Refreshed, Fault, Gone, Journals
<1>14. CASE FinishLoop
  BY <1>14 DEF FinishLoop, account, flow, Persist, Refreshed, TooManyDamaged, Journals
<1>15. CASE PushTargetManifests
  BY <1>15 DEF PushTargetManifests, disk, flow
<1>16. CASE EnterVerifying
  BY <1>16 DEF EnterVerifying, account, flow, Persist
<1>17. CASE ResetProof
  BY <1>17 DEF ResetProof, account, flow, Persist
<1>18. CASE CheckManifest
  BY <1>18 DEF CheckManifest, account, Persist, Journals
<1>19. CASE ManifestFails
  BY <1>19 DEF ManifestFails, account, flow, Persist, Fault, Journals
<1>20. CASE VerifyItem
  BY <1>20 DEF VerifyItem, account, Persist, Send, Fault
<1>21. CASE Recheck
  BY <1>21 DEF Recheck, account, flow, Persist, Fault
<1>22. CASE FinishVerification
  BY <1>22 DEF FinishVerification, account, flow, Persist
<1>23. CASE Quit
  BY <1>23 DEF Quit, Stop, account, DeleteFEKSafe
<1>24. CASE Crash
  BY <1>24 DEF Crash, Fault, Stop, account, DeleteFEKSafe
<1>25. CASE Start
  BY <1>25 DEF Start, account, Persist, Restarts, Journals
<1>26. CASE RequestPause \/ (\E i \in Items : Edit(i)) \/ (\E i \in Items : Create(i))
            \/ (\E i \in Items : Delete(i)) \/ Unlock
  <2>1. UNCHANGED <<torn, pc, planned, plan, todo, ledger, cur, republish, journal>>
    BY <1>26 DEF RequestPause, Edit, Create, Delete, Unlock, disk, account, flow
  <2> QED
    BY <2>1
<1>27. CASE UNCHANGED vars
  BY <1>27 DEF vars
<1> QED
  BY <1>1, <1>2, <1>3, <1>4, <1>5, <1>6, <1>7, <1>8, <1>9, <1>10, <1>11, <1>12, <1>13,
     <1>14, <1>15, <1>16, <1>17, <1>18, <1>19, <1>20, <1>21, <1>22, <1>23, <1>24, <1>25,
     <1>26, <1>27 DEF Next, Engine

\* Every step handles what is in the vault.
LEMMA VaultStep ==
    ASSUME Deletable = {}, TypeOK, Pushed, InVault, [Next]_vars
    PROVE  InVault'
<1> USE LineTypes DEF InVault, Known, Pushed, InProof, Sending, Lined
<1>1. CASE OpenInventory
  BY <1>1 DEF OpenInventory, disk, account
<1>2. CASE PressStart
  BY <1>2 DEF PressStart, disk, account
<1>3. CASE BuildInventory
  BY <1>3 DEF BuildInventory, account, Persist, Refreshed, Unreadable
<1>4. CASE StartPublishing
  BY <1>4 DEF StartPublishing, account, Persist
<1>5. CASE LogDamaged
  BY <1>5 DEF LogDamaged, account, AppendLine, Appended, NoLine
<1>6. CASE Pause
  BY <1>6 DEF Pause, account, flow, Persist, Refreshed
<1>7. CASE Skip
  BY <1>7 DEF Skip, disk, account
<1>8. CASE FlushCounters
  BY <1>8 DEF FlushCounters, account, flow, Persist, Refreshed, TooManyDamaged
<1>9. CASE SendNext
  BY <1>9 DEF SendNext, disk, account, Send
<1>10. CASE SendGone
  BY <1>10 DEF SendGone, account, flow, Persist, Refreshed
<1>11. CASE Upload
  BY <1>11 DEF Upload, disk, flow
<1>12. CASE Append
  BY <1>12 DEF Append, account, flow, AppendLine, Appended, NoLine
<1>13. CASE TransferFails
  BY <1>13 DEF TransferFails, account, flow, Persist, Refreshed, Fault, Gone
<1>14. CASE FinishLoop
  BY <1>14 DEF FinishLoop, account, flow, Persist, Refreshed, TooManyDamaged
<1>15. CASE PushTargetManifests
  BY <1>15 DEF PushTargetManifests, disk, flow
<1>16. CASE EnterVerifying
  BY <1>16 DEF EnterVerifying, account, flow, Persist
<1>17. CASE ResetProof
  BY <1>17 DEF ResetProof, account, flow, Persist
<1>18. CASE CheckManifest
  BY <1>18 DEF CheckManifest, account, Persist, NoLine
<1>19. CASE ManifestFails
  BY <1>19 DEF ManifestFails, account, flow, Persist, Fault
<1>20. CASE VerifyItem
  BY <1>20 DEF VerifyItem, account, Persist, Send, Fault
<1>21. CASE Recheck
  BY <1>21 DEF Recheck, account, flow, Persist, Fault
<1>22. CASE FinishVerification
  BY <1>22 DEF FinishVerification, account, flow, Persist
<1>23. CASE \E i \in Items : Edit(i)
  BY <1>23 DEF Edit, disk, account, flow
<1>24. CASE \E i \in Items : Create(i)
  BY <1>24 DEF Create, disk, account, flow
<1>25. CASE \E i \in Items : Delete(i)
  BY <1>25 DEF Delete, disk, account, flow
<1>26. CASE Quit
  BY <1>26 DEF Quit, Stop, account, DeleteFEKSafe
<1>27. CASE Crash
  BY <1>27 DEF Crash, Fault, Stop, account, DeleteFEKSafe
<1>28. CASE Start
  BY <1>28 DEF Start, account, Persist
<1>29. CASE RequestPause \/ Unlock
  <2>1. UNCHANGED <<vault, plan, bad, ledger, pc, todo, republish, cur>>
    BY <1>29 DEF RequestPause, Unlock, disk, account, flow
  <2> QED
    BY <2>1
<1>30. CASE UNCHANGED vars
  BY <1>30 DEF vars
<1> QED
  BY <1>1, <1>2, <1>3, <1>4, <1>5, <1>6, <1>7, <1>8, <1>9, <1>10, <1>11, <1>12, <1>13,
     <1>14, <1>15, <1>16, <1>17, <1>18, <1>19, <1>20, <1>21, <1>22, <1>23, <1>24, <1>25,
     <1>26, <1>27, <1>28, <1>29, <1>30 DEF Next, Engine

\* The part of a set of elements has no more of them.
LEMMA FewerElements ==
    ASSUME NEW T \in SUBSET Items, NEW S \in SUBSET T
    PROVE  /\ Cardinality(S) \in Nat /\ Cardinality(T) \in Nat
           /\ Cardinality(S) <= Cardinality(T)
           /\ Cardinality(S) = Cardinality(T) => S = T
<1>1. IsFiniteSet(T) /\ Cardinality(S) \in Nat /\ Cardinality(T) \in Nat
  BY CountsType
<1> QED
  BY <1>1, FS_Subset

\* The counters of a journal that was just refreshed are those of the ledger.
LEMMA RefreshedCounts ==
    ASSUME TypeOK
    PROVE  /\ Refreshed(mj) \in Journals
           /\ Refreshed(mj).done + Refreshed(mj).damaged = Cardinality(Lined)
           /\ Refreshed(mj).total = mj.total
<1>1. InLedger("done") \cup InLedger("damaged") = Lined
      /\ InLedger("done") \cap InLedger("damaged") = {}
  BY LineTypes DEF InLedger, Lined, Lines, NoLine
<1>2. Cardinality(Lined) = Cardinality(InLedger("done")) + Cardinality(InLedger("damaged"))
  <2>1. Cardinality(InLedger("done") \cup InLedger("damaged"))
          = Cardinality(InLedger("done")) + Cardinality(InLedger("damaged"))
              - Cardinality(InLedger("done") \cap InLedger("damaged"))
    BY CountsType, FS_Union
  <2>2. Cardinality({}) = 0
    BY FS_EmptySet
  <2> QED
    BY <1>1, <2>1, <2>2, CountsType
<1> QED
  BY <1>2, LineTypes, RefreshedType DEF Refreshed, Journals

\* The sets that are counted are finite.
LEMMA LinedSets ==
    ASSUME TypeOK PROVE Lined \in SUBSET Items /\ Cardinality(Lined) \in Nat
                        /\ Known \in SUBSET Items /\ Cardinality(Known) \in Nat
  BY LineTypes, CountsType DEF Lined, Known

\* Every step counts no more lines than there are, and no fewer elements.
LEMMA CountsStep ==
    ASSUME Deletable = {}, TypeOK, Pushed, InVault, Counts, [Next]_vars
    PROVE  Counts'
<1> USE DEF Counts
<1>0. /\ mj \in Journals /\ journal \in Journals /\ Cardinality(Lined) \in Nat
     /\ Refreshed(mj) \in Journals /\ Refreshed(mj).total = mj.total
     /\ Refreshed(mj).done + Refreshed(mj).damaged = Cardinality(Lined)
  BY LineTypes, LinedSets, RefreshedCounts
<1>1. CASE BuildInventory
  <2> DEFINE present == {i \in Items : vault[i] # 0}
  <2>1. Known' \subseteq present /\ Lined' = Lined
    BY <1>1, LineTypes DEF BuildInventory, Known, Lined, InVault
  <2>2. mj' = [Refreshed(mj) EXCEPT !.state = "READY", !.total = Cardinality(present)]
        /\ journal' = mj'
    BY <1>1 DEF BuildInventory, Persist
  <2>3. mj'.total = Cardinality(present) /\ mj'.done + mj'.damaged = Cardinality(Lined)
    BY <1>0, <2>2 DEF Journals
  <2>4. Cardinality(Known') <= Cardinality(present)
    BY <2>1, FewerElements
  <2> QED
    BY <1>0, <2>1, <2>2, <2>3, <2>4
<1>2. CASE StartPublishing
  <2>1. Lined' = Lined /\ Known' = Known
    BY <1>2 DEF StartPublishing, account, Persist, Lined, Known
  <2>2. planned' => planned /\ mj'.total = mj.total /\ journal'.total = journal.total
    BY <1>0, <1>2 DEF StartPublishing, account, Persist, Journals, NewJournal
  <2>3. /\ mj'.done + mj'.damaged <= Cardinality(Lined)
        /\ journal'.done + journal'.damaged <= Cardinality(Lined)
    BY <1>0, <1>2 DEF StartPublishing, account, Persist, Journals, NewJournal
  <2> QED
    BY <2>1, <2>2, <2>3
<1>3. CASE LogDamaged
  <2>1. Lined \subseteq Lined' /\ Known' \subseteq Known /\ Known \subseteq Items
    BY <1>3, LineTypes DEF LogDamaged, account, AppendLine, Appended, Lined, Known,
       InVault, Pushed, Sending, NoLine
  <2>2. UNCHANGED <<planned, mj, journal>>
    BY <1>3 DEF LogDamaged, account, AppendLine, Appended
  <2>3. /\ Lined \in SUBSET Lined' /\ Lined' \in SUBSET Items
        /\ Known' \in SUBSET Known /\ Known \in SUBSET Items
    BY <2>1 DEF Lined
  <2>4. /\ Cardinality(Lined) <= Cardinality(Lined') /\ Cardinality(Known') <= Cardinality(Known)
        /\ Cardinality(Lined') \in Nat /\ Cardinality(Known') \in Nat
        /\ Cardinality(Known) \in Nat
    BY <2>3, FewerElements
  <2>5. /\ mj.done + mj.damaged \in Nat /\ journal.done + journal.damaged \in Nat
        /\ mj.total \in Nat
    BY <1>0 DEF Journals
  <2> QED
    BY <1>0, <2>2, <2>4, <2>5
<1>4. CASE Pause
  <2>1. Lined' = Lined /\ Known' = Known
    BY <1>4 DEF Pause, account, flow, Persist, Lined, Known
  <2>2. planned' => planned /\ mj'.total = mj.total /\ journal'.total = journal.total
    BY <1>0, <1>4 DEF Pause, account, flow, Persist, Journals, NewJournal
  <2>3. /\ mj'.done + mj'.damaged <= Cardinality(Lined)
        /\ journal'.done + journal'.damaged <= Cardinality(Lined)
    BY <1>0, <1>4 DEF Pause, account, flow, Persist, Journals, NewJournal
  <2> QED
    BY <2>1, <2>2, <2>3
<1>5. CASE FlushCounters
  <2>1. Lined' = Lined /\ Known' = Known
    BY <1>5 DEF FlushCounters, account, flow, Persist, Lined, Known
  <2>2. planned' => planned /\ mj'.total = mj.total /\ journal'.total = journal.total
    BY <1>0, <1>5 DEF FlushCounters, account, flow, Persist, Journals, NewJournal
  <2>3. /\ mj'.done + mj'.damaged <= Cardinality(Lined)
        /\ journal'.done + journal'.damaged <= Cardinality(Lined)
    BY <1>0, <1>5 DEF FlushCounters, account, flow, Persist, Journals, NewJournal
  <2> QED
    BY <2>1, <2>2, <2>3
<1>6. CASE SendGone
  <2>1. Lined' = Lined /\ Known' = Known
    BY <1>6 DEF SendGone, account, flow, Persist, Lined, Known
  <2>2. planned' => planned /\ mj'.total = mj.total /\ journal'.total = journal.total
    BY <1>0, <1>6 DEF SendGone, account, flow, Persist, Journals, NewJournal
  <2>3. /\ mj'.done + mj'.damaged <= Cardinality(Lined)
        /\ journal'.done + journal'.damaged <= Cardinality(Lined)
    BY <1>0, <1>6 DEF SendGone, account, flow, Persist, Journals, NewJournal
  <2> QED
    BY <2>1, <2>2, <2>3
<1>7. CASE Append
  <2>1. Lined \subseteq Lined' /\ Known' \subseteq Known /\ Known \subseteq Items
    BY <1>7, LineTypes DEF Append, account, flow, AppendLine, Appended, Lined, Known,
       InVault, Pushed, Sending, NoLine
  <2>2. UNCHANGED <<planned, mj, journal>>
    BY <1>7 DEF Append, account, flow, AppendLine, Appended
  <2>3. /\ Lined \in SUBSET Lined' /\ Lined' \in SUBSET Items
        /\ Known' \in SUBSET Known /\ Known \in SUBSET Items
    BY <2>1 DEF Lined
  <2>4. /\ Cardinality(Lined) <= Cardinality(Lined') /\ Cardinality(Known') <= Cardinality(Known)
        /\ Cardinality(Lined') \in Nat /\ Cardinality(Known') \in Nat
        /\ Cardinality(Known) \in Nat
    BY <2>3, FewerElements
  <2>5. /\ mj.done + mj.damaged \in Nat /\ journal.done + journal.damaged \in Nat
        /\ mj.total \in Nat
    BY <1>0 DEF Journals
  <2> QED
    BY <1>0, <2>2, <2>4, <2>5
<1>8. CASE TransferFails
  <2>1. Lined' = Lined /\ Known' = Known
    BY <1>8 DEF TransferFails, account, flow, Persist, Fault, Gone, Lined, Known
  <2>2. planned' => planned /\ mj'.total = mj.total /\ journal'.total = journal.total
    BY <1>0, <1>8 DEF TransferFails, account, flow, Persist, Fault, Gone, Journals,
       NewJournal
  <2>3. /\ mj'.done + mj'.damaged <= Cardinality(Lined)
        /\ journal'.done + journal'.damaged <= Cardinality(Lined)
    BY <1>0, <1>8 DEF TransferFails, account, flow, Persist, Fault, Gone, Journals,
       NewJournal
  <2> QED
    BY <2>1, <2>2, <2>3
<1>9. CASE FinishLoop
  <2>1. Lined' = Lined /\ Known' = Known
    BY <1>9 DEF FinishLoop, account, flow, Persist, Lined, Known
  <2>2. planned' => planned /\ mj'.total = mj.total /\ journal'.total = journal.total
    BY <1>0, <1>9 DEF FinishLoop, account, flow, Persist, Journals, NewJournal
  <2>3. /\ mj'.done + mj'.damaged <= Cardinality(Lined)
        /\ journal'.done + journal'.damaged <= Cardinality(Lined)
    BY <1>0, <1>9 DEF FinishLoop, account, flow, Persist, Journals, NewJournal
  <2> QED
    BY <2>1, <2>2, <2>3
<1>10. CASE EnterVerifying
  <2>1. Lined' = Lined /\ Known' = Known
    BY <1>10 DEF EnterVerifying, account, flow, Persist, Lined, Known
  <2>2. planned' => planned /\ mj'.total = mj.total /\ journal'.total = journal.total
    BY <1>0, <1>10 DEF EnterVerifying, account, flow, Persist, Journals, NewJournal
  <2>3. /\ mj'.done + mj'.damaged <= Cardinality(Lined)
        /\ journal'.done + journal'.damaged <= Cardinality(Lined)
    BY <1>0, <1>10 DEF EnterVerifying, account, flow, Persist, Journals, NewJournal
  <2> QED
    BY <2>1, <2>2, <2>3
<1>11. CASE ResetProof
  <2>1. Lined' = Lined /\ Known' = Known
    BY <1>11 DEF ResetProof, account, flow, Persist, Lined, Known
  <2>2. planned' => planned /\ mj'.total = mj.total /\ journal'.total = journal.total
    BY <1>0, <1>11 DEF ResetProof, account, flow, Persist, Journals, NewJournal
  <2>3. /\ mj'.done + mj'.damaged <= Cardinality(Lined)
        /\ journal'.done + journal'.damaged <= Cardinality(Lined)
    BY <1>0, <1>11 DEF ResetProof, account, flow, Persist, Journals, NewJournal
  <2> QED
    BY <2>1, <2>2, <2>3
<1>12. CASE CheckManifest
  <2>1. Lined' = Lined /\ Known' = Known
    BY <1>12 DEF CheckManifest, account, Persist, Lined, Known
  <2>2. planned' => planned /\ mj'.total = mj.total /\ journal'.total = journal.total
    BY <1>0, <1>12 DEF CheckManifest, account, Persist, Journals, NewJournal
  <2>3. /\ mj'.done + mj'.damaged <= Cardinality(Lined)
        /\ journal'.done + journal'.damaged <= Cardinality(Lined)
    BY <1>0, <1>12 DEF CheckManifest, account, Persist, Journals, NewJournal
  <2> QED
    BY <2>1, <2>2, <2>3
<1>13. CASE ManifestFails
  <2>1. Lined' = Lined /\ Known' = Known
    BY <1>13 DEF ManifestFails, account, flow, Persist, Fault, Lined, Known
  <2>2. planned' => planned /\ mj'.total = mj.total /\ journal'.total = journal.total
    BY <1>0, <1>13 DEF ManifestFails, account, flow, Persist, Fault, Journals, NewJournal
  <2>3. /\ mj'.done + mj'.damaged <= Cardinality(Lined)
        /\ journal'.done + journal'.damaged <= Cardinality(Lined)
    BY <1>0, <1>13 DEF ManifestFails, account, flow, Persist, Fault, Journals, NewJournal
  <2> QED
    BY <2>1, <2>2, <2>3
<1>14. CASE VerifyItem
  <2>1. Lined' = Lined /\ Known' = Known
    BY <1>14 DEF VerifyItem, account, Persist, Send, Fault, Lined, Known
  <2>2. planned' => planned /\ mj'.total = mj.total /\ journal'.total = journal.total
    BY <1>0, <1>14 DEF VerifyItem, account, Persist, Send, Fault, Journals, NewJournal
  <2>3. /\ mj'.done + mj'.damaged <= Cardinality(Lined)
        /\ journal'.done + journal'.damaged <= Cardinality(Lined)
    BY <1>0, <1>14 DEF VerifyItem, account, Persist, Send, Fault, Journals, NewJournal
  <2> QED
    BY <2>1, <2>2, <2>3
<1>15. CASE Recheck
  <2>1. Lined' = Lined /\ Known' = Known
    BY <1>15 DEF Recheck, account, flow, Persist, Fault, Lined, Known
  <2>2. planned' => planned /\ mj'.total = mj.total /\ journal'.total = journal.total
    BY <1>0, <1>15 DEF Recheck, account, flow, Persist, Fault, Journals, NewJournal
  <2>3. /\ mj'.done + mj'.damaged <= Cardinality(Lined)
        /\ journal'.done + journal'.damaged <= Cardinality(Lined)
    BY <1>0, <1>15 DEF Recheck, account, flow, Persist, Fault, Journals, NewJournal
  <2> QED
    BY <2>1, <2>2, <2>3
<1>16. CASE FinishVerification
  <2>1. Lined' = Lined /\ Known' = Known
    BY <1>16 DEF FinishVerification, account, flow, Persist, Lined, Known
  <2>2. planned' => planned /\ mj'.total = mj.total /\ journal'.total = journal.total
    BY <1>0, <1>16 DEF FinishVerification, account, flow, Persist, Journals, NewJournal
  <2>3. /\ mj'.done + mj'.damaged <= Cardinality(Lined)
        /\ journal'.done + journal'.damaged <= Cardinality(Lined)
    BY <1>0, <1>16 DEF FinishVerification, account, flow, Persist, Journals, NewJournal
  <2> QED
    BY <2>1, <2>2, <2>3
<1>17. CASE Quit
  <2>1. Lined' = Lined
    BY <1>17 DEF Quit, Stop, account, DeleteFEKSafe, Lined
  <2>2. ~planned'
    BY <1>0, <1>17 DEF Quit, Stop, account, DeleteFEKSafe, Journals, NewJournal
  <2>3. /\ mj'.done + mj'.damaged <= Cardinality(Lined)
        /\ journal'.done + journal'.damaged <= Cardinality(Lined)
    BY <1>0, <1>17 DEF Quit, Stop, account, DeleteFEKSafe, Journals, NewJournal
  <2> QED
    BY <2>1, <2>2, <2>3
<1>18. CASE Crash
  <2>1. Lined' = Lined
    BY <1>18 DEF Crash, Fault, Stop, account, DeleteFEKSafe, Lined
  <2>2. ~planned'
    BY <1>0, <1>18 DEF Crash, Fault, Stop, account, DeleteFEKSafe, Journals, NewJournal
  <2>3. /\ mj'.done + mj'.damaged <= Cardinality(Lined)
        /\ journal'.done + journal'.damaged <= Cardinality(Lined)
    BY <1>0, <1>18 DEF Crash, Fault, Stop, account, DeleteFEKSafe, Journals, NewJournal
  <2> QED
    BY <2>1, <2>2, <2>3
<1>19. CASE Start
  <2>1. Lined' = Lined /\ Known' = Known
    BY <1>19 DEF Start, account, Persist, Lined, Known
  <2>2. planned' => planned /\ mj'.total = mj.total /\ journal'.total = journal.total
    BY <1>0, <1>19 DEF Start, account, Persist, Journals, NewJournal
  <2>3. /\ mj'.done + mj'.damaged <= Cardinality(Lined)
        /\ journal'.done + journal'.damaged <= Cardinality(Lined)
    BY <1>0, <1>19 DEF Start, account, Persist, Journals, NewJournal
  <2> QED
    BY <2>1, <2>2, <2>3
<1>20. CASE OpenInventory \/ PressStart \/ RequestPause \/ Skip \/ SendNext \/ Upload
            \/ PushTargetManifests \/ (\E i \in Items : Edit(i))
            \/ (\E i \in Items : Create(i)) \/ (\E i \in Items : Delete(i)) \/ Unlock
  <2>1. UNCHANGED <<planned, mj, journal, plan, bad, ledger>>
    BY <1>20 DEF OpenInventory, PressStart, RequestPause, Skip, SendNext, Upload,
       PushTargetManifests, Edit, Create, Delete, Unlock, disk, account, Send, flow
  <2> QED
    BY <2>1 DEF Known, Lined
<1>21. CASE UNCHANGED vars
  BY <1>21 DEF vars, Known, Lined
<1> QED
  BY <1>1, <1>2, <1>3, <1>4, <1>5, <1>6, <1>7, <1>8, <1>9, <1>10, <1>11, <1>12, <1>13,
     <1>14, <1>15, <1>16, <1>17, <1>18, <1>19, <1>20, <1>21 DEF Next, Engine

\* They hold at the start.
LEMMA ForgetStart == Init => Pushed /\ (TornLines = FALSE => HandledAll) /\ InVault /\ Counts
<1> SUFFICES ASSUME Init
             PROVE  Pushed /\ (TornLines = FALSE => HandledAll) /\ InVault /\ Counts
  OBVIOUS
<1>1. /\ \A i \in Items : ledger[i] = NoLine
      /\ pc = "idle" /\ journal = NewJournal /\ mj = NewJournal
      /\ plan = {} /\ bad = {} /\ ~planned /\ ~torn
  BY DEF Init
<1>2. Lined = {}
  BY <1>1 DEF Lined
<1>3. Cardinality(Lined) = 0
  BY <1>2, FS_EmptySet
<1>4. Pushed
  BY <1>1 DEF Pushed, AfterPush, AtRest, InProof, Sending, NoLine
<1>5. HandledAll /\ InVault
  BY <1>1, <1>2 DEF HandledAll, AfterPush, AtRest, InProof, Sending, InVault, Known
<1>6. Counts
  BY <1>1, <1>3 DEF Counts, NewJournal
<1> QED
  BY <1>4, <1>5, <1>6

\* What is recorded was sent, in every state.
LEMMA PushedHolds == Spec => [](TypeOK /\ Pushed)
  BY ForgetStart, PushedStep, TypeCorrect, PTL DEF Spec

\* The screen's last answer before the switch, if no line can be lost: every element
\* of the plan is on the account or was found unreadable, also with elements created,
\* edited and deleted while the loop ran.
THEOREM ForgottenTheorem ==
    ASSUME TornLines = FALSE PROVE Spec => []NothingForgotten
<1>1. TypeOK /\ Pushed /\ HandledAll => NothingForgotten
  <2> SUFFICES ASSUME TypeOK, Pushed, HandledAll, CanSwitch(journal), pc = "idle", planned,
                      NEW i \in plan
               PROVE  ledger[i].s = "damaged" \/ manifest[i] # NoDigest
    BY DEF NothingForgotten
  <2>1. AfterPush
    BY DEF AfterPush, AtRest, CanSwitch
  <2>2. i \in Lined
    BY <2>1 DEF HandledAll
  <2> QED
    BY <2>1, <2>2, LineTypes DEF Pushed, Lined, Lines
<1>2. Spec => []HandledAll
  BY ForgetStart, HandledStep, PushedHolds, PTL DEF Spec
<1> QED
  BY <1>1, <1>2, PushedHolds, PTL

\* And if nothing is deleted the count of canSwitch sees a line that a crash tore.
THEOREM CountTheorem ==
    ASSUME Deletable = {} PROVE Spec => []NothingForgotten
<1>1. TypeOK /\ Pushed /\ InVault /\ Counts => NothingForgotten
  <2> SUFFICES ASSUME TypeOK, Pushed, InVault, Counts, CanSwitch(journal), pc = "idle",
                      planned, NEW i \in plan
               PROVE  ledger[i].s = "damaged" \/ manifest[i] # NoDigest
    BY DEF NothingForgotten
  <2>1. AfterPush
    BY DEF AfterPush, AtRest, CanSwitch
  <2>2. Lined \in SUBSET Known /\ Known \in SUBSET Items
    BY LinedSets DEF Known
  <2>3. Cardinality(Known) <= Cardinality(Lined)
    <3>1. journal \in Journals
      BY LineTypes
    <3>2. journal.done + journal.damaged >= journal.total
      BY DEF CanSwitch
    <3>3. /\ journal.done \in Nat /\ journal.damaged \in Nat /\ journal.total \in Nat
      BY <3>1 DEF Journals
    <3> QED
      BY <3>2, <3>3, LinedSets DEF Counts
  <2>4. Lined = Known
    BY <2>2, <2>3, FewerElements
  <2> QED
    BY <2>1, <2>4, LineTypes DEF Pushed, Known, Lined, Lines
<1>2. Spec => [](InVault /\ Counts)
  BY ForgetStart, VaultStep, CountsStep, PushedHolds, PTL DEF Spec
<1> QED
  BY <1>1, <1>2, PushedHolds, PTL
=============================================================================
