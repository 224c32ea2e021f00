---------------------------- MODULE KeySwitchProofs ----------------------------
(***************************************************************************)
(* Theorems of KeySwitch for every set of directories and keys, every      *)
(* number of crashes and every choice of gestures and accounts.            *)
(*                                                                         *)
(* TypeCorrect comes first: one step per action.  RetentionTheorem and     *)
(* RecoverableTheorem both follow from SwitchInvariant, which says through *)
(* which steps the account's key may have come to where it is.             *)
(***************************************************************************)
EXTENDS KeySwitch, TLAPS

\* What the code writes over a well-formed journal is a well-formed journal.
LEMMA JournalEdits ==
    ASSUME NEW j \in Journals, NEW l \in Loc, NEW b \in BOOLEAN, NEW s \in PublishState
    PROVE  /\ [j EXCEPT !.state = s] \in Journals
           /\ [j EXCEPT !.state = s, !.proof = b] \in Journals
           /\ [j EXCEPT !.state = s, !.promoted = {}] \in Journals
           /\ [j EXCEPT !.state = s, !.staged = FALSE, !.promoted = {}] \in Journals
           /\ [j EXCEPT !.staged = TRUE] \in Journals
           /\ [j EXCEPT !.promoted = @ \cup {l}] \in Journals
           /\ j.state \in PublishState /\ j.proof \in BOOLEAN
           /\ j.staged \in BOOLEAN /\ j.promoted \subseteq Loc
  BY DEF Journals

\* The states the code writes are states of a journal.
LEMMA States ==
    /\ "NONE" \in PublishState /\ "PREPARING" \in PublishState /\ "READY" \in PublishState
    /\ "PUBLISHING" \in PublishState /\ "VERIFYING" \in PublishState
    /\ "SWITCHING" \in PublishState /\ "DONE" \in PublishState
    /\ "FAILED" \in PublishState /\ "ABANDONED" \in PublishState
    /\ NoJournal \in Journals /\ Proved \in Journals
  BY DEF PublishState, Journals, NoJournal, Proved

\* loadFEKForPairing answers a key or nothing.
LEMMA ActiveFekType ==
    ASSUME TypeOK, NEW base \in Loc PROVE LoadActiveFek(base) \in Keys \cup {NoKey}
  BY KeysAssumption DEF TypeOK, FilesTypeOK, UsersTypeOK, LoadActiveFek

\* isOrdinarySyncSuspended answers yes or no.
LEMMA LiveType == \A state \in PublishState : Live(state) \in BOOLEAN
  BY DEF Live

\* The stages of an unlock are unlocks.
LEMMA UnlockTypes ==
    /\ NoUnlock \in Unlocks
    /\ \A k \in Keys \cup {NoKey}, b \in BOOLEAN :
          [at |-> "read", key |-> k, password |-> b] \in Unlocks
    /\ \A u \in Unlocks : /\ [u EXCEPT !.at = "store"] \in Unlocks
                          /\ u.key \in Keys \cup {NoKey}
  BY DEF Unlocks, NoUnlock

\* Every variable keeps its type, whatever the engine, the user and the disk do.
THEOREM TypeCorrect == Spec => []TypeOK
<1>1. Init => TypeOK
  <2> SUFFICES ASSUME Init PROVE TypeOK
    OBVIOUS
  <2> USE KeysAssumption
  <2>0. wrapped \in [Loc -> Keys \cup {NoKey}] /\ sealed = wrapped /\ content \subseteq Keys
    <3>1. PICK held \in [Loc -> HeldAtStart \cup {NoKey}] :
             wrapped = held /\ sealed = held /\ content = {held[l] : l \in dirs} \ {NoKey}
      BY DEF Init
    <3>2. \A l \in Loc : held[l] \in Keys \cup {NoKey}
      OBVIOUS
    <3>3. dirs \subseteq Loc
      BY DEF Init
    <3>4. content \subseteq Keys
      BY <3>1, <3>2, <3>3
    <3> QED
      BY <3>1, <3>2, <3>4
  <2>1. FilesTypeOK
    <3>1. dirs \subseteq Loc /\ Root \in dirs /\ Active \in dirs /\ incS \in BOOLEAN
      BY DEF Init
    <3>2. nextW = {} /\ nextS = {} /\ incW = TRUE /\ retired = {}
      BY DEF Init
    <3> QED
      BY <2>0, <3>1, <3>2 DEF FilesTypeOK
  <2>2. ControlTypeOK
    BY States DEF Init, ControlTypeOK, Steps, OtherSteps, Tasks
  <2>3. EngineTypeOK
    BY DEF Init, EngineTypeOK
  <2>4. UsersTypeOK
    <3>1. /\ session = Old /\ renderer = Old /\ adopted = FALSE /\ unlock = NoUnlock
          /\ keychain = TRUE /\ moved = FALSE /\ faults = 0
      BY DEF Init
    <3>2. faults \in 0..MaxFaults
      BY <3>1
    <3>3. NoUnlock \in Unlocks
      BY UnlockTypes
    <3> QED
      BY <2>0, <3>1, <3>2, <3>3, Zenon DEF UsersTypeOK
  <2> QED
    BY <2>1, <2>2, <2>3, <2>4 DEF TypeOK
<1>2. TypeOK /\ [Next]_vars => TypeOK'
  <2> SUFFICES ASSUME TypeOK, [Next]_vars PROVE TypeOK'
    OBVIOUS
  <2>0. /\ mj \in Journals /\ journal \in Journals /\ cur \in Loc
        /\ mj.state \in PublishState /\ journal.state \in PublishState
    BY DEF TypeOK, ControlTypeOK, EngineTypeOK, Journals
  <2> USE KeysAssumption DEF TypeOK, FilesTypeOK, ControlTypeOK, EngineTypeOK, UsersTypeOK, Tasks,
        files, task, engine, loop, users, env, Fault
  <2>1. CASE CommitKeySwitch
    <3>1. \A base \in Loc : LoadActiveFek(base) \in Keys \cup {NoKey}
      BY ActiveFekType
    <3>2. ControlTypeOK'
      BY <2>1, <3>1 DEF CommitKeySwitch, Steps, SwitchSteps, OtherSteps
    <3> QED
      BY <2>1, <3>1, <3>2 DEF CommitKeySwitch
  <2>2. CASE RetainOldKey
    <3>1. ControlTypeOK'
      BY <2>2 DEF RetainOldKey, Retained, ToPromote, Steps, SwitchSteps, OtherSteps
    <3> QED
      BY <2>2, <3>1 DEF RetainOldKey, Retained, ToPromote
  <2>3. CASE PlanSwitch
    <3>1. [mj EXCEPT !.state = "SWITCHING", !.staged = FALSE, !.promoted = {}] \in Journals
      BY <2>0, JournalEdits, States
    <3>2. ControlTypeOK'
      BY <2>3, <3>1 DEF PlanSwitch, Persist, Steps, SwitchSteps, OtherSteps
    <3> QED
      BY <2>3, <3>1, <3>2 DEF PlanSwitch, Persist
  <2>4. CASE StageNextKeys
    <3>1. ControlTypeOK'
      BY <2>4 DEF StageNextKeys, Steps, SwitchSteps, OtherSteps
    <3> QED
      BY <2>4, <3>1 DEF StageNextKeys
  <2>5. CASE Pivot
    <3>1. [mj EXCEPT !.staged = TRUE] \in Journals
      BY <2>0, JournalEdits, States
    <3>2. ControlTypeOK'
      BY <2>5, <3>1 DEF Pivot, Persist, Steps, SwitchSteps, OtherSteps
    <3> QED
      BY <2>5, <3>1, <3>2 DEF Pivot, Persist
  <2>6. CASE PromoteWrapped
    <3>1. ControlTypeOK'
      BY <2>6 DEF PromoteWrapped, Steps, SwitchSteps, OtherSteps
    <3> QED
      BY <2>6, <3>1 DEF PromoteWrapped
  <2>7. CASE PromoteMirror
    <3>1. ControlTypeOK'
      BY <2>7 DEF PromoteMirror, PromotedMirror, Steps, SwitchSteps, OtherSteps
    <3> QED
      BY <2>7, <3>1 DEF PromoteMirror, PromotedMirror
  <2>8. CASE RecordPromoted
    <3>1. [mj EXCEPT !.promoted = @ \cup {cur}] \in Journals
      BY <2>0, JournalEdits, States
    <3>2. ControlTypeOK'
      BY <2>8, <3>1 DEF RecordPromoted, Persist, Steps, SwitchSteps, OtherSteps
    <3> QED
      BY <2>8, <3>1, <3>2 DEF RecordPromoted, Persist
  <2>9. CASE RelocateProfiles
    <3>1. ControlTypeOK'
      BY <2>9 DEF RelocateProfiles, Steps, SwitchSteps, OtherSteps
    <3> QED
      BY <2>9, <3>1 DEF RelocateProfiles
  <2>10. CASE AdoptInMemory
    <3>1. ControlTypeOK'
      BY <2>10 DEF AdoptInMemory, KeyAdopted, Steps, SwitchSteps, OtherSteps
    <3>2. FilesTypeOK'
      BY <2>10 DEF AdoptInMemory
    <3>3. EngineTypeOK'
      BY <2>10 DEF AdoptInMemory
    <3>4. UsersTypeOK'
      BY <2>10 DEF AdoptInMemory, KeyAdopted
    <3> QED
      BY <3>1, <3>2, <3>3, <3>4
  <2>11. CASE FinishErase
    <3>1. ControlTypeOK'
      BY <2>11 DEF FinishErase, ClearIncoming, DiscardNextKeys, Steps, SwitchSteps, OtherSteps
    <3>2. FilesTypeOK'
      BY <2>11 DEF FinishErase, ClearIncoming, DiscardNextKeys
    <3>3. EngineTypeOK'
      BY <2>11 DEF FinishErase, ClearIncoming, DiscardNextKeys
    <3>4. UsersTypeOK'
      BY <2>11 DEF FinishErase, ClearIncoming, DiscardNextKeys
    <3> QED
      BY <3>1, <3>2, <3>3, <3>4 DEF TypeOK
  <2>12. CASE FinishDone
    <3>1. [mj EXCEPT !.state = "DONE"] \in Journals
      BY <2>0, JournalEdits, States
    <3>2. ControlTypeOK'
      BY <2>12, <3>1 DEF FinishDone, Persist, Steps, SwitchSteps, OtherSteps
    <3> QED
      BY <2>12, <3>1, <3>2 DEF FinishDone, Persist
  <2>13. CASE Settle
    <3>1. ControlTypeOK'
      BY <2>13 DEF Settle, Steps, SwitchSteps, OtherSteps
    <3> QED
      BY <2>0, <2>13, <3>1, LiveType DEF Settle
  <2>14. CASE ResumeClosed
    <3>0. journal' \in Journals
      BY <2>0, <2>14, States DEF ResumeClosed
    <3>1. ControlTypeOK'
      BY <2>14, <3>0 DEF ResumeClosed, Steps, SwitchSteps, OtherSteps
    <3> QED
      BY <2>14, <3>1 DEF ResumeClosed
  <2>15. CASE ResumeForeign
    <3>1. ControlTypeOK'
      BY <2>15 DEF ResumeForeign, Steps, SwitchSteps, OtherSteps
    <3> QED
      BY <2>15, <3>1 DEF ResumeForeign
  <2>16. CASE ForeignErase
    <3>1. ControlTypeOK'
      BY <2>16 DEF ForeignErase, ClearIncoming, DiscardNextKeys, Steps, SwitchSteps, OtherSteps
    <3>2. FilesTypeOK'
      BY <2>16 DEF ForeignErase, ClearIncoming, DiscardNextKeys
    <3>3. EngineTypeOK'
      BY <2>16 DEF ForeignErase, ClearIncoming, DiscardNextKeys
    <3>4. UsersTypeOK'
      BY <2>16 DEF ForeignErase, ClearIncoming, DiscardNextKeys
    <3> QED
      BY <3>1, <3>2, <3>3, <3>4 DEF TypeOK
  <2>17. CASE WriteAbandoned
    <3>1. [journal EXCEPT !.state = "ABANDONED"] \in Journals
      BY <2>0, JournalEdits, States
    <3>2. ControlTypeOK'
      BY <2>17, <3>1 DEF WriteAbandoned, Steps, SwitchSteps, OtherSteps
    <3> QED
      BY <2>17, <3>1, <3>2 DEF WriteAbandoned
  <2>18. CASE ResumeWithoutKey
    <3>1. ControlTypeOK'
      BY <2>18 DEF ResumeWithoutKey, Steps, SwitchSteps, OtherSteps
    <3> QED
      BY <2>0, <2>18, <3>1, LiveType DEF ResumeWithoutKey
  <2>19. CASE LostDiscard
    <3>1. ControlTypeOK'
      BY <2>19 DEF LostDiscard, DiscardNextKeys, Steps, SwitchSteps, OtherSteps
    <3> QED
      BY <2>19, <3>1 DEF LostDiscard, DiscardNextKeys
  <2>20. CASE ResumeSwitch
    <3>1. \A base \in Loc : LoadActiveFek(base) \in Keys \cup {NoKey}
      BY ActiveFekType
    <3>2. ControlTypeOK'
      BY <2>20, <3>1 DEF ResumeSwitch, OpenEngine, IncomingRaw, Live, Steps, SwitchSteps, OtherSteps
    <3> QED
      BY <2>20, <3>1, <3>2 DEF ResumeSwitch, OpenEngine, IncomingRaw, Live
  <2>21. CASE Rollback
    <3>1. [mj EXCEPT !.state = "PUBLISHING", !.promoted = {}] \in Journals
      BY <2>0, JournalEdits, States
    <3>2. ControlTypeOK'
      BY <2>21, <3>1 DEF Rollback, DiscardNextKeys, Persist, Steps, SwitchSteps, OtherSteps
    <3> QED
      BY <2>21, <3>1, <3>2 DEF Rollback, DiscardNextKeys, Persist
  <2>22. CASE FailSwitch
    <3>1. [mj EXCEPT !.state = "FAILED"] \in Journals
      BY <2>0, JournalEdits, States
    <3>2. ControlTypeOK'
      BY <2>22, <3>1 DEF FailSwitch, DiscardNextKeys, Persist, Steps, SwitchSteps, OtherSteps
    <3> QED
      BY <2>22, <3>1, <3>2 DEF FailSwitch, DiscardNextKeys, Persist
  <2>23. CASE ResumePublish
    <3>1. \A base \in Loc : LoadActiveFek(base) \in Keys \cup {NoKey}
      BY ActiveFekType
    <3>2. [journal EXCEPT !.state = "PREPARING"] \in Journals
      BY <2>0, JournalEdits, States
    <3>3. /\ mj' \in Journals /\ journal' \in Journals
          /\ bg' \in Tasks /\ remote' \in BOOLEAN /\ cleaning' \in BOOLEAN
      <4>1. CASE journal.state \in {"PREPARING", "READY"}
        BY <2>23, <3>2, <4>1 DEF ResumePublish
      <4>2. CASE journal.state \in {"PUBLISHING", "VERIFYING"}
        BY <2>23, <4>2 DEF ResumePublish
      <4>3. CASE journal.state = "FAILED"
        BY <2>23, <4>3 DEF ResumePublish
      <4>4. CASE journal.state = "ABANDONED"
        BY <2>23, <4>4 DEF ResumePublish
      <4> QED
        BY <2>0, <2>23, <4>1, <4>2, <4>3, <4>4 DEF ResumePublish, PublishState
    <3>4. ControlTypeOK'
      BY <2>23, <3>3 DEF ResumePublish, Steps, SwitchSteps, OtherSteps
    <3> QED
      BY <2>0, <2>23, <3>1, <3>4, LiveType DEF ResumePublish
  <2>24. CASE BuildInventory
    <3>1. [mj EXCEPT !.state = "READY", !.proof = mj.proof] \in Journals
      BY <2>0, JournalEdits, States
    <3>2. ControlTypeOK'
      BY <2>24, <3>1 DEF BuildInventory, Publish, Steps, SwitchSteps, OtherSteps
    <3> QED
      BY <2>24, <3>1, <3>2 DEF BuildInventory, Publish
  <2>25. CASE StartPublishing
    <3>1. [mj EXCEPT !.state = "PUBLISHING", !.proof = mj.proof] \in Journals
      BY <2>0, JournalEdits, States
    <3>2. ControlTypeOK'
      BY <2>25, <3>1 DEF StartPublishing, Publish, Steps, SwitchSteps, OtherSteps
    <3> QED
      BY <2>25, <3>1, <3>2 DEF StartPublishing, Publish
  <2>26. CASE FlushCounters
    <3>1. [mj EXCEPT !.state = mj.state, !.proof = mj.proof] \in Journals
      BY <2>0, JournalEdits, States
    <3>2. ControlTypeOK'
      BY <2>26, <3>1 DEF FlushCounters, Publish, Steps, SwitchSteps, OtherSteps
    <3> QED
      BY <2>26, <3>1, <3>2 DEF FlushCounters, Publish
  <2>27. CASE FinishLoop
    <3>1. /\ [mj EXCEPT !.state = "READY", !.proof = mj.proof] \in Journals
          /\ [mj EXCEPT !.state = "FAILED", !.proof = mj.proof] \in Journals
          /\ [mj EXCEPT !.state = "VERIFYING", !.proof = FALSE] \in Journals
      BY <2>0, JournalEdits, States
    <3>2. ControlTypeOK'
      BY <2>27, <3>1 DEF FinishLoop, Publish, Steps, SwitchSteps, OtherSteps
    <3> QED
      BY <2>27, <3>1, <3>2 DEF FinishLoop, Publish
  <2>28. CASE FinishVerification
    <3>1. /\ [mj EXCEPT !.state = mj.state, !.proof = TRUE] \in Journals
          /\ [mj EXCEPT !.state = "FAILED", !.proof = FALSE] \in Journals
      BY <2>0, JournalEdits, States
    <3>2. ControlTypeOK'
      BY <2>28, <3>1 DEF FinishVerification, Publish, Steps, SwitchSteps, OtherSteps
    <3> QED
      BY <2>28, <3>1, <3>2 DEF FinishVerification, Publish
  <2>29. CASE AbandonMigration
    <3>1. [mj EXCEPT !.state = "ABANDONED"] \in Journals
      BY <2>0, JournalEdits, States
    <3>2. ControlTypeOK'
      BY <2>29, <3>1 DEF AbandonMigration, Persist, Steps, SwitchSteps, OtherSteps
    <3> QED
      BY <2>29, <3>1, <3>2 DEF AbandonMigration, Persist
  <2>30. CASE AbandonErase
    <3>1. ControlTypeOK'
      BY <2>30 DEF AbandonErase, DiscardNextKeys, Steps, SwitchSteps, OtherSteps
    <3>2. FilesTypeOK'
      BY <2>30 DEF AbandonErase, DiscardNextKeys
    <3>3. EngineTypeOK'
      BY <2>30 DEF AbandonErase, DiscardNextKeys
    <3>4. UsersTypeOK'
      BY <2>30 DEF AbandonErase, DiscardNextKeys
    <3> QED
      BY <3>1, <3>2, <3>3, <3>4
  <2>31. CASE RemoteCleanup
    <3>1. ControlTypeOK'
      BY <2>31 DEF RemoteCleanup, Steps, SwitchSteps, OtherSteps
    <3> QED
      BY <2>31, <3>1 DEF RemoteCleanup
  <2>32. CASE UnlockRead
    <3>1. ControlTypeOK'
      BY <2>32 DEF UnlockRead, Steps, SwitchSteps, OtherSteps
    <3> QED
      <4>1. unlock' \in Unlocks
        BY <2>32, UnlockTypes DEF UnlockRead
      <4> QED
        BY <2>32, <3>1, <4>1 DEF UnlockRead
  <2>33. CASE UnlockHold
    <3>1. ControlTypeOK'
      BY <2>33 DEF UnlockHold, Steps, SwitchSteps, OtherSteps
    <3> QED
      BY <2>33, <3>1, UnlockTypes DEF UnlockHold
  <2>34. CASE UnlockStore
    <3>1. ControlTypeOK'
      BY <2>34 DEF UnlockStore, Steps, SwitchSteps, OtherSteps
    <3> QED
      <4>1. unlock.key \in Keys \cup {NoKey} /\ NoUnlock \in Unlocks
        BY UnlockTypes
      <4> QED
        BY <2>34, <3>1, <4>1 DEF UnlockStore
  <2>35. CASE Lock
    <3>1. ControlTypeOK'
      BY <2>35 DEF Lock, Steps, SwitchSteps, OtherSteps
    <3> QED
      BY <2>35, <3>1 DEF Lock
  <2>36. CASE AdoptInRenderer
    <3>1. ControlTypeOK'
      BY <2>36 DEF AdoptInRenderer, Steps, SwitchSteps, OtherSteps
    <3> QED
      BY <2>36, <3>1 DEF AdoptInRenderer
  <2>37. CASE SaveFile
    <3>1. ControlTypeOK'
      BY <2>37 DEF SaveFile, HeldKeys, Steps, SwitchSteps, OtherSteps
    <3> QED
      BY <2>37, <3>1 DEF SaveFile, HeldKeys
  <2>38. ASSUME NEW p \in Newborn, CreateProfile(p) PROVE TypeOK'
    <3>1. ControlTypeOK'
      BY <2>38 DEF CreateProfile, EnsureFEKAvailable, Donors, Completed, Steps, SwitchSteps, OtherSteps
    <3> QED
      BY <2>38, <3>1 DEF CreateProfile, EnsureFEKAvailable, Donors, Completed
  <2>39. CASE OpenProfile
    <3>1. ControlTypeOK'
      BY <2>39 DEF OpenProfile, EnsureFEKAvailable, Donors, Completed, Steps, SwitchSteps, OtherSteps
    <3> QED
      BY <2>39, <3>1 DEF OpenProfile, EnsureFEKAvailable, Donors, Completed
  <2>40. CASE Quit
    <3>1. NoJournal \in Journals
      BY States
    <3>2. ControlTypeOK'
      BY <2>40, <3>1 DEF Quit, Stop, DeleteFEKSafe, Steps, SwitchSteps, OtherSteps
    <3> QED
      BY <2>40, <3>1, <3>2, UnlockTypes DEF Quit, Stop, DeleteFEKSafe
  <2>41. CASE Crash
    <3>1. NoJournal \in Journals
      BY States
    <3>2. ControlTypeOK'
      BY <2>41, <3>1 DEF Crash, Stop, DeleteFEKSafe, Steps, SwitchSteps, OtherSteps
    <3> QED
      <4>1. UsersTypeOK'
        <5>1. faults' \in 0..MaxFaults
          BY <2>41 DEF Crash
        <5>2. unlock' \in Unlocks
          BY <2>41, UnlockTypes DEF Crash, Stop, DeleteFEKSafe
        <5> QED
          BY <2>41, <5>1, <5>2 DEF Crash, Stop, DeleteFEKSafe
      <4>2. FilesTypeOK' /\ EngineTypeOK'
        BY <2>41 DEF Crash, Stop, DeleteFEKSafe
      <4> QED
        BY <3>2, <4>1, <4>2 DEF TypeOK
  <2>42. CASE Start
    <3>1. ControlTypeOK'
      BY <2>42 DEF Start, Steps, SwitchSteps, OtherSteps
    <3> QED
      BY <2>42, <3>1 DEF Start
  <2>43. CASE KeychainFlips
    <3>1. ControlTypeOK'
      BY <2>43 DEF KeychainFlips, Steps, SwitchSteps, OtherSteps
    <3> QED
      BY <2>43, <3>1 DEF KeychainFlips
  <2>44. CASE UNCHANGED vars
    BY <2>44 DEF vars
  <2> QED
    BY <2>1, <2>2, <2>3, <2>4, <2>5, <2>6, <2>7, <2>8, <2>9, <2>10, <2>11,
       <2>12, <2>13, <2>14, <2>15, <2>16, <2>17, <2>18, <2>19, <2>20, <2>21, <2>22,
       <2>23, <2>24, <2>25, <2>26, <2>27, <2>28, <2>29, <2>30, <2>31, <2>32, <2>33,
       <2>34, <2>35, <2>36, <2>37, <2>38, <2>39, <2>40, <2>41, <2>42, <2>43, <2>44
    DEF Next, SwitchStep, ResumeStep
<1> QED
  BY <1>1, <1>2, PTL DEF Spec

-----------------------------------------------------------------------------
(***************************************************************************)
(* No key is lost, on a device where every directory holds the old key.    *)
(***************************************************************************)
SwitchKeys == {Old, New, NoKey}

\* Only the two keys of the switch are in use.
TwoKeys ==
    /\ \A l \in Loc : wrapped[l] \in SwitchKeys /\ sealed[l] \in SwitchKeys
    /\ activeFek \in SwitchKeys /\ oldRaw \in SwitchKeys
    /\ session \in SwitchKeys /\ renderer \in SwitchKeys /\ unlock.key \in SwitchKeys
    /\ content \subseteq {Old, New}
    /\ wrapped[Active] # NoKey

\* The steps after the first retention, and those after the first promotion.
AfterRetention == {"plan", "stage", "pivot", "retainAgain", "promote", "promoteMirror",
                   "record", "relocate", "adopt", "clear", "clearMirror", "discard", "done"}
AfterPromotion == {"promoteMirror", "record", "relocate", "adopt"}

\* The account's key is somewhere else than in a wrapped file.
NewInUse ==
    \/ \E l \in Loc : sealed[l] = New
    \/ New \in {activeFek, oldRaw, session, renderer, unlock.key} \cup content

Promoted == \E d \in dirs : wrapped[d] = New

\* Past the first retention, or once a wrapped key changed, the old key is kept.
RetainedFirst ==
    pc \in AfterRetention \/ mj.staged \/ journal.staged \/ (\E l \in Loc : wrapped[l] = New)
      => Old \in retired

\* The account's key reaches mirrors, memory and content only from a wrapped file
\* that is already promoted.
PromotedFirst == pc \in AfterPromotion \/ NewInUse => Promoted

\* The switch works on directories that exist, and only a commit retains first.
WithinDirs ==
    /\ locs \subseteq dirs /\ todo \subseteq dirs
    /\ pc = "retain" => ~resuming

SwitchInvariant == TwoKeys /\ RetainedFirst /\ PromotedFirst /\ WithinDirs

\* Every action keeps the invariant.
LEMMA InvariantStep ==
    ASSUME TypeOK, SwitchInvariant, [Next]_vars PROVE SwitchInvariant'
<1> USE KeysAssumption DEF SwitchInvariant, WithinDirs, SwitchKeys, TypeOK, FilesTypeOK,
        files, task, engine, loop, users, env, Fault
<1>0. mj \in Journals /\ journal \in Journals /\ cur \in Loc
  BY DEF ControlTypeOK, EngineTypeOK
<1>1. CASE CommitKeySwitch
  <2>1. TwoKeys'
    BY <1>1 DEF CommitKeySwitch, LoadActiveFek, TwoKeys
  <2>2. RetainedFirst'
    BY <1>0, <1>1 DEF CommitKeySwitch, LoadActiveFek, TwoKeys, RetainedFirst, PromotedFirst, Promoted, NewInUse, AfterRetention, AfterPromotion, Journals
  <2>3. PromotedFirst'
    BY <1>1 DEF CommitKeySwitch, LoadActiveFek, TwoKeys, RetainedFirst, PromotedFirst, Promoted, NewInUse, AfterRetention, AfterPromotion
  <2>4. WithinDirs'
    BY <1>1 DEF CommitKeySwitch, LoadActiveFek
  <2> QED
    BY <2>1, <2>2, <2>3, <2>4
<1>2. CASE RetainOldKey
  <2>1. TwoKeys'
    BY <1>2 DEF RetainOldKey, Retained, ToPromote, MayGoWithout, TwoKeys
  <2>2. RetainedFirst'
    <3>1. oldRaw = New => Old \in retired
      BY DEF RetainedFirst, PromotedFirst, Promoted, NewInUse
    <3>2. Old \in retired => Old \in retired'
      BY <1>2 DEF RetainOldKey, Retained
    <3>3. CASE Old \in retired'
      BY <3>3 DEF RetainedFirst
    <3>4. CASE Old \notin retired'
      <4>1. oldRaw # Old \/ pc' = "idle"
        BY <1>2, <3>4 DEF RetainOldKey, Retained, MayGoWithout
      <4>2. pc' = "idle"
        BY <1>2, <3>1, <3>2, <3>4, <4>1
        DEF RetainOldKey, MayGoWithout, RetainedFirst, AfterRetention, TwoKeys
      <4> QED
        BY <1>2, <3>2, <3>4, <4>2 DEF RetainOldKey, RetainedFirst, AfterRetention
    <3> QED
      BY <3>3, <3>4
  <2>3. PromotedFirst'
    BY <1>2 DEF RetainOldKey, Retained, ToPromote, MayGoWithout, TwoKeys, RetainedFirst, PromotedFirst, Promoted, NewInUse, AfterRetention, AfterPromotion
  <2>4. WithinDirs'
    BY <1>2 DEF RetainOldKey, Retained, ToPromote, MayGoWithout
  <2> QED
    BY <2>1, <2>2, <2>3, <2>4
<1>3. CASE PlanSwitch
  <2>1. TwoKeys'
    BY <1>3 DEF PlanSwitch, Persist, TwoKeys
  <2>2. RetainedFirst'
    BY <1>0, <1>3 DEF PlanSwitch, Persist, TwoKeys, RetainedFirst, PromotedFirst, Promoted, NewInUse, AfterRetention, AfterPromotion, Journals
  <2>3. PromotedFirst'
    BY <1>3 DEF PlanSwitch, Persist, TwoKeys, RetainedFirst, PromotedFirst, Promoted, NewInUse, AfterRetention, AfterPromotion
  <2>4. WithinDirs'
    BY <1>3 DEF PlanSwitch, Persist
  <2> QED
    BY <2>1, <2>2, <2>3, <2>4
<1>4. CASE StageNextKeys
  <2>1. TwoKeys'
    BY <1>4 DEF StageNextKeys, TwoKeys
  <2>2. RetainedFirst'
    BY <1>0, <1>4 DEF StageNextKeys, TwoKeys, RetainedFirst, PromotedFirst, Promoted, NewInUse, AfterRetention, AfterPromotion, Journals
  <2>3. PromotedFirst'
    BY <1>4 DEF StageNextKeys, TwoKeys, RetainedFirst, PromotedFirst, Promoted, NewInUse, AfterRetention, AfterPromotion
  <2>4. WithinDirs'
    BY <1>4 DEF StageNextKeys
  <2> QED
    BY <2>1, <2>2, <2>3, <2>4
<1>5. CASE Pivot
  <2>1. TwoKeys'
    BY <1>5 DEF Pivot, Persist, TwoKeys
  <2>2. RetainedFirst'
    BY <1>0, <1>5 DEF Pivot, Persist, TwoKeys, RetainedFirst, PromotedFirst, Promoted, NewInUse, AfterRetention, AfterPromotion, Journals
  <2>3. PromotedFirst'
    BY <1>5 DEF Pivot, Persist, TwoKeys, RetainedFirst, PromotedFirst, Promoted, NewInUse, AfterRetention, AfterPromotion
  <2>4. WithinDirs'
    BY <1>5 DEF Pivot, Persist
  <2> QED
    BY <2>1, <2>2, <2>3, <2>4
<1>6. CASE PromoteWrapped
  <2>1. TwoKeys'
    BY <1>6 DEF PromoteWrapped, TwoKeys
  <2>2. RetainedFirst'
    BY <1>0, <1>6 DEF PromoteWrapped, TwoKeys, RetainedFirst, PromotedFirst, Promoted, NewInUse, AfterRetention, AfterPromotion, Journals
  <2>3. PromotedFirst'
    BY <1>6 DEF PromoteWrapped, TwoKeys, RetainedFirst, PromotedFirst, Promoted, NewInUse, AfterRetention, AfterPromotion
  <2>4. WithinDirs'
    BY <1>6 DEF PromoteWrapped
  <2> QED
    BY <2>1, <2>2, <2>3, <2>4
<1>7. CASE PromoteMirror
  <2>1. TwoKeys'
    BY <1>7 DEF PromoteMirror, PromotedMirror, TwoKeys
  <2>2. RetainedFirst'
    BY <1>0, <1>7 DEF PromoteMirror, PromotedMirror, TwoKeys, RetainedFirst, PromotedFirst, Promoted, NewInUse, AfterRetention, AfterPromotion, Journals
  <2>3. PromotedFirst'
    BY <1>7 DEF PromoteMirror, PromotedMirror, TwoKeys, RetainedFirst, PromotedFirst, Promoted, NewInUse, AfterRetention, AfterPromotion
  <2>4. WithinDirs'
    BY <1>7 DEF PromoteMirror, PromotedMirror
  <2> QED
    BY <2>1, <2>2, <2>3, <2>4
<1>8. CASE RecordPromoted
  <2>1. TwoKeys'
    BY <1>8 DEF RecordPromoted, Persist, TwoKeys
  <2>2. RetainedFirst'
    BY <1>0, <1>8 DEF RecordPromoted, Persist, TwoKeys, RetainedFirst, PromotedFirst, Promoted, NewInUse, AfterRetention, AfterPromotion, Journals
  <2>3. PromotedFirst'
    BY <1>8 DEF RecordPromoted, Persist, TwoKeys, RetainedFirst, PromotedFirst, Promoted, NewInUse, AfterRetention, AfterPromotion
  <2>4. WithinDirs'
    BY <1>8 DEF RecordPromoted, Persist
  <2> QED
    BY <2>1, <2>2, <2>3, <2>4
<1>9. CASE RelocateProfiles
  <2>1. TwoKeys'
    BY <1>9 DEF RelocateProfiles, TwoKeys
  <2>2. RetainedFirst'
    BY <1>0, <1>9 DEF RelocateProfiles, TwoKeys, RetainedFirst, PromotedFirst, Promoted, NewInUse, AfterRetention, AfterPromotion, Journals
  <2>3. PromotedFirst'
    BY <1>9 DEF RelocateProfiles, TwoKeys, RetainedFirst, PromotedFirst, Promoted, NewInUse, AfterRetention, AfterPromotion
  <2>4. WithinDirs'
    BY <1>9 DEF RelocateProfiles
  <2> QED
    BY <2>1, <2>2, <2>3, <2>4
<1>10. CASE AdoptInMemory
  <2>1. TwoKeys'
    BY <1>10 DEF AdoptInMemory, KeyAdopted, TwoKeys
  <2>2. RetainedFirst'
    BY <1>0, <1>10 DEF AdoptInMemory, KeyAdopted, TwoKeys, RetainedFirst, PromotedFirst, Promoted, NewInUse, AfterRetention, AfterPromotion, Journals
  <2>3. PromotedFirst'
    BY <1>10 DEF AdoptInMemory, KeyAdopted, TwoKeys, RetainedFirst, PromotedFirst, Promoted, NewInUse, AfterRetention, AfterPromotion
  <2>4. WithinDirs'
    BY <1>10 DEF AdoptInMemory, KeyAdopted
  <2> QED
    BY <2>1, <2>2, <2>3, <2>4
<1>11. CASE FinishErase
  <2>1. TwoKeys'
    BY <1>11 DEF FinishErase, ClearIncoming, DiscardNextKeys, TwoKeys
  <2>2. RetainedFirst'
    BY <1>0, <1>11 DEF FinishErase, ClearIncoming, DiscardNextKeys, TwoKeys, RetainedFirst, PromotedFirst, Promoted, NewInUse, AfterRetention, AfterPromotion, Journals
  <2>3. PromotedFirst'
    BY <1>11 DEF FinishErase, ClearIncoming, DiscardNextKeys, TwoKeys, RetainedFirst, PromotedFirst, Promoted, NewInUse, AfterRetention, AfterPromotion
  <2>4. WithinDirs'
    BY <1>11 DEF FinishErase, ClearIncoming, DiscardNextKeys
  <2> QED
    BY <2>1, <2>2, <2>3, <2>4
<1>12. CASE FinishDone
  <2>1. TwoKeys'
    BY <1>12 DEF FinishDone, Persist, TwoKeys
  <2>2. RetainedFirst'
    BY <1>0, <1>12 DEF FinishDone, Persist, TwoKeys, RetainedFirst, PromotedFirst, Promoted, NewInUse, AfterRetention, AfterPromotion, Journals
  <2>3. PromotedFirst'
    BY <1>12 DEF FinishDone, Persist, TwoKeys, RetainedFirst, PromotedFirst, Promoted, NewInUse, AfterRetention, AfterPromotion
  <2>4. WithinDirs'
    BY <1>12 DEF FinishDone, Persist
  <2> QED
    BY <2>1, <2>2, <2>3, <2>4
<1>13. CASE Settle
  <2>1. TwoKeys'
    BY <1>13 DEF Settle, TwoKeys
  <2>2. RetainedFirst'
    BY <1>0, <1>13 DEF Settle, TwoKeys, RetainedFirst, PromotedFirst, Promoted, NewInUse, AfterRetention, AfterPromotion, Journals
  <2>3. PromotedFirst'
    BY <1>13 DEF Settle, TwoKeys, RetainedFirst, PromotedFirst, Promoted, NewInUse, AfterRetention, AfterPromotion
  <2>4. WithinDirs'
    BY <1>13 DEF Settle
  <2> QED
    BY <2>1, <2>2, <2>3, <2>4
<1>14. CASE ResumeClosed
  <2>1. TwoKeys'
    BY <1>14 DEF ResumeClosed, NoJournal, TwoKeys
  <2>2. RetainedFirst'
    BY <1>0, <1>14 DEF ResumeClosed, NoJournal, TwoKeys, RetainedFirst, PromotedFirst, Promoted, NewInUse, AfterRetention, AfterPromotion, Journals
  <2>3. PromotedFirst'
    BY <1>14 DEF ResumeClosed, NoJournal, TwoKeys, RetainedFirst, PromotedFirst, Promoted, NewInUse, AfterRetention, AfterPromotion
  <2>4. WithinDirs'
    BY <1>14 DEF ResumeClosed, NoJournal
  <2> QED
    BY <2>1, <2>2, <2>3, <2>4
<1>15. CASE ResumeForeign
  <2>1. TwoKeys'
    BY <1>15 DEF ResumeForeign, TwoKeys
  <2>2. RetainedFirst'
    BY <1>0, <1>15 DEF ResumeForeign, TwoKeys, RetainedFirst, PromotedFirst, Promoted, NewInUse, AfterRetention, AfterPromotion, Journals
  <2>3. PromotedFirst'
    BY <1>15 DEF ResumeForeign, TwoKeys, RetainedFirst, PromotedFirst, Promoted, NewInUse, AfterRetention, AfterPromotion
  <2>4. WithinDirs'
    BY <1>15 DEF ResumeForeign
  <2> QED
    BY <2>1, <2>2, <2>3, <2>4
<1>16. CASE ForeignErase
  <2>1. TwoKeys'
    BY <1>16 DEF ForeignErase, ClearIncoming, DiscardNextKeys, TwoKeys
  <2>2. RetainedFirst'
    BY <1>0, <1>16 DEF ForeignErase, ClearIncoming, DiscardNextKeys, TwoKeys, RetainedFirst, PromotedFirst, Promoted, NewInUse, AfterRetention, AfterPromotion, Journals
  <2>3. PromotedFirst'
    BY <1>16 DEF ForeignErase, ClearIncoming, DiscardNextKeys, TwoKeys, RetainedFirst, PromotedFirst, Promoted, NewInUse, AfterRetention, AfterPromotion
  <2>4. WithinDirs'
    BY <1>16 DEF ForeignErase, ClearIncoming, DiscardNextKeys
  <2> QED
    BY <2>1, <2>2, <2>3, <2>4
<1>17. CASE WriteAbandoned
  <2>1. TwoKeys'
    BY <1>17 DEF WriteAbandoned, TwoKeys
  <2>2. RetainedFirst'
    BY <1>0, <1>17 DEF WriteAbandoned, TwoKeys, RetainedFirst, PromotedFirst, Promoted, NewInUse, AfterRetention, AfterPromotion, Journals
  <2>3. PromotedFirst'
    BY <1>17 DEF WriteAbandoned, TwoKeys, RetainedFirst, PromotedFirst, Promoted, NewInUse, AfterRetention, AfterPromotion
  <2>4. WithinDirs'
    BY <1>17 DEF WriteAbandoned
  <2> QED
    BY <2>1, <2>2, <2>3, <2>4
<1>18. CASE ResumeWithoutKey
  <2>1. TwoKeys'
    BY <1>18 DEF ResumeWithoutKey, TwoKeys
  <2>2. RetainedFirst'
    BY <1>0, <1>18 DEF ResumeWithoutKey, TwoKeys, RetainedFirst, PromotedFirst, Promoted, NewInUse, AfterRetention, AfterPromotion, Journals
  <2>3. PromotedFirst'
    BY <1>18 DEF ResumeWithoutKey, TwoKeys, RetainedFirst, PromotedFirst, Promoted, NewInUse, AfterRetention, AfterPromotion
  <2>4. WithinDirs'
    BY <1>18 DEF ResumeWithoutKey
  <2> QED
    BY <2>1, <2>2, <2>3, <2>4
<1>19. CASE LostDiscard
  <2>1. TwoKeys'
    BY <1>19 DEF LostDiscard, DiscardNextKeys, TwoKeys
  <2>2. RetainedFirst'
    BY <1>0, <1>19 DEF LostDiscard, DiscardNextKeys, TwoKeys, RetainedFirst, PromotedFirst, Promoted, NewInUse, AfterRetention, AfterPromotion, Journals
  <2>3. PromotedFirst'
    BY <1>19 DEF LostDiscard, DiscardNextKeys, TwoKeys, RetainedFirst, PromotedFirst, Promoted, NewInUse, AfterRetention, AfterPromotion
  <2>4. WithinDirs'
    BY <1>19 DEF LostDiscard, DiscardNextKeys
  <2> QED
    BY <2>1, <2>2, <2>3, <2>4
<1>20. CASE ResumeSwitch
  <2>1. TwoKeys'
    BY <1>20 DEF ResumeSwitch, OpenEngine, IncomingRaw, LoadActiveFek, SwitchDecision, TwoKeys
  <2>2. RetainedFirst'
    BY <1>0, <1>20 DEF ResumeSwitch, OpenEngine, IncomingRaw, LoadActiveFek, SwitchDecision, TwoKeys, RetainedFirst, PromotedFirst, Promoted, NewInUse, AfterRetention, AfterPromotion, Journals
  <2>3. PromotedFirst'
    BY <1>20 DEF ResumeSwitch, OpenEngine, IncomingRaw, LoadActiveFek, SwitchDecision, TwoKeys, RetainedFirst, PromotedFirst, Promoted, NewInUse, AfterRetention, AfterPromotion
  <2>4. WithinDirs'
    BY <1>20 DEF ResumeSwitch, OpenEngine, IncomingRaw, LoadActiveFek, SwitchDecision
  <2> QED
    BY <2>1, <2>2, <2>3, <2>4
<1>21. CASE Rollback
  <2>1. TwoKeys'
    BY <1>21 DEF Rollback, DiscardNextKeys, Persist, TwoKeys
  <2>2. RetainedFirst'
    BY <1>0, <1>21 DEF Rollback, DiscardNextKeys, Persist, TwoKeys, RetainedFirst, PromotedFirst, Promoted, NewInUse, AfterRetention, AfterPromotion, Journals
  <2>3. PromotedFirst'
    BY <1>21 DEF Rollback, DiscardNextKeys, Persist, TwoKeys, RetainedFirst, PromotedFirst, Promoted, NewInUse, AfterRetention, AfterPromotion
  <2>4. WithinDirs'
    BY <1>21 DEF Rollback, DiscardNextKeys, Persist
  <2> QED
    BY <2>1, <2>2, <2>3, <2>4
<1>22. CASE FailSwitch
  <2>1. TwoKeys'
    BY <1>22 DEF FailSwitch, DiscardNextKeys, Persist, TwoKeys
  <2>2. RetainedFirst'
    BY <1>0, <1>22 DEF FailSwitch, DiscardNextKeys, Persist, TwoKeys, RetainedFirst, PromotedFirst, Promoted, NewInUse, AfterRetention, AfterPromotion, Journals
  <2>3. PromotedFirst'
    BY <1>22 DEF FailSwitch, DiscardNextKeys, Persist, TwoKeys, RetainedFirst, PromotedFirst, Promoted, NewInUse, AfterRetention, AfterPromotion
  <2>4. WithinDirs'
    BY <1>22 DEF FailSwitch, DiscardNextKeys, Persist
  <2> QED
    BY <2>1, <2>2, <2>3, <2>4
<1>23. CASE ResumePublish
  <2>1. TwoKeys'
    BY <1>23 DEF ResumePublish, LoadActiveFek, TwoKeys
  <2>2. RetainedFirst'
    <3>1. mj'.staged = journal.staged /\ journal'.staged = journal.staged
      <4>1. [journal EXCEPT !.state = "PREPARING"].staged = journal.staged
        BY <1>0 DEF Journals
      <4>2. journal.state \in PublishState
        BY <1>0 DEF Journals
      <4> QED
        BY <1>23, <4>1, <4>2 DEF ResumePublish, PublishState
    <3> QED
      BY <1>23, <3>1 DEF ResumePublish, RetainedFirst, AfterRetention
  <2>3. PromotedFirst'
    BY <1>23 DEF ResumePublish, LoadActiveFek, TwoKeys, RetainedFirst, PromotedFirst, Promoted, NewInUse, AfterRetention, AfterPromotion
  <2>4. WithinDirs'
    BY <1>23 DEF ResumePublish, LoadActiveFek
  <2> QED
    BY <2>1, <2>2, <2>3, <2>4
<1>24. CASE BuildInventory
  <2>1. TwoKeys'
    BY <1>24 DEF BuildInventory, Publish, TwoKeys
  <2>2. RetainedFirst'
    BY <1>0, <1>24 DEF BuildInventory, Publish, TwoKeys, RetainedFirst, PromotedFirst, Promoted, NewInUse, AfterRetention, AfterPromotion, Journals
  <2>3. PromotedFirst'
    BY <1>24 DEF BuildInventory, Publish, TwoKeys, RetainedFirst, PromotedFirst, Promoted, NewInUse, AfterRetention, AfterPromotion
  <2>4. WithinDirs'
    BY <1>24 DEF BuildInventory, Publish
  <2> QED
    BY <2>1, <2>2, <2>3, <2>4
<1>25. CASE StartPublishing
  <2>1. TwoKeys'
    BY <1>25 DEF StartPublishing, Publish, TwoKeys
  <2>2. RetainedFirst'
    BY <1>0, <1>25 DEF StartPublishing, Publish, TwoKeys, RetainedFirst, PromotedFirst, Promoted, NewInUse, AfterRetention, AfterPromotion, Journals
  <2>3. PromotedFirst'
    BY <1>25 DEF StartPublishing, Publish, TwoKeys, RetainedFirst, PromotedFirst, Promoted, NewInUse, AfterRetention, AfterPromotion
  <2>4. WithinDirs'
    BY <1>25 DEF StartPublishing, Publish
  <2> QED
    BY <2>1, <2>2, <2>3, <2>4
<1>26. CASE FlushCounters
  <2>1. TwoKeys'
    BY <1>26 DEF FlushCounters, Publish, TwoKeys
  <2>2. RetainedFirst'
    BY <1>0, <1>26 DEF FlushCounters, Publish, TwoKeys, RetainedFirst, PromotedFirst, Promoted, NewInUse, AfterRetention, AfterPromotion, Journals
  <2>3. PromotedFirst'
    BY <1>26 DEF FlushCounters, Publish, TwoKeys, RetainedFirst, PromotedFirst, Promoted, NewInUse, AfterRetention, AfterPromotion
  <2>4. WithinDirs'
    BY <1>26 DEF FlushCounters, Publish
  <2> QED
    BY <2>1, <2>2, <2>3, <2>4
<1>27. CASE FinishLoop
  <2>1. TwoKeys'
    BY <1>27 DEF FinishLoop, Publish, TwoKeys
  <2>2. RetainedFirst'
    BY <1>0, <1>27 DEF FinishLoop, Publish, TwoKeys, RetainedFirst, PromotedFirst, Promoted, NewInUse, AfterRetention, AfterPromotion, Journals
  <2>3. PromotedFirst'
    BY <1>27 DEF FinishLoop, Publish, TwoKeys, RetainedFirst, PromotedFirst, Promoted, NewInUse, AfterRetention, AfterPromotion
  <2>4. WithinDirs'
    <3>1. UNCHANGED <<pc, dirs, locs, todo, resuming>>
      BY <1>27 DEF FinishLoop, Publish
    <3> QED
      BY <3>1
  <2> QED
    BY <2>1, <2>2, <2>3, <2>4
<1>28. CASE FinishVerification
  <2>1. TwoKeys'
    BY <1>28 DEF FinishVerification, Publish, TwoKeys
  <2>2. RetainedFirst'
    BY <1>0, <1>28 DEF FinishVerification, Publish, TwoKeys, RetainedFirst, PromotedFirst, Promoted, NewInUse, AfterRetention, AfterPromotion, Journals
  <2>3. PromotedFirst'
    BY <1>28 DEF FinishVerification, Publish, TwoKeys, RetainedFirst, PromotedFirst, Promoted, NewInUse, AfterRetention, AfterPromotion
  <2>4. WithinDirs'
    BY <1>28 DEF FinishVerification, Publish
  <2> QED
    BY <2>1, <2>2, <2>3, <2>4
<1>29. CASE AbandonMigration
  <2>1. TwoKeys'
    BY <1>29 DEF AbandonMigration, Persist, TwoKeys
  <2>2. RetainedFirst'
    BY <1>0, <1>29 DEF AbandonMigration, Persist, TwoKeys, RetainedFirst, PromotedFirst, Promoted, NewInUse, AfterRetention, AfterPromotion, Journals
  <2>3. PromotedFirst'
    BY <1>29 DEF AbandonMigration, Persist, TwoKeys, RetainedFirst, PromotedFirst, Promoted, NewInUse, AfterRetention, AfterPromotion
  <2>4. WithinDirs'
    BY <1>29 DEF AbandonMigration, Persist
  <2> QED
    BY <2>1, <2>2, <2>3, <2>4
<1>30. CASE AbandonErase
  <2>1. TwoKeys'
    BY <1>30 DEF AbandonErase, DiscardNextKeys, TwoKeys
  <2>2. RetainedFirst'
    BY <1>0, <1>30 DEF AbandonErase, DiscardNextKeys, TwoKeys, RetainedFirst, PromotedFirst, Promoted, NewInUse, AfterRetention, AfterPromotion, Journals
  <2>3. PromotedFirst'
    BY <1>30 DEF AbandonErase, DiscardNextKeys, TwoKeys, RetainedFirst, PromotedFirst, Promoted, NewInUse, AfterRetention, AfterPromotion
  <2>4. WithinDirs'
    BY <1>30 DEF AbandonErase, DiscardNextKeys
  <2> QED
    BY <2>1, <2>2, <2>3, <2>4
<1>31. CASE RemoteCleanup
  <2>1. TwoKeys'
    BY <1>31 DEF RemoteCleanup, TwoKeys
  <2>2. RetainedFirst'
    BY <1>0, <1>31 DEF RemoteCleanup, TwoKeys, RetainedFirst, PromotedFirst, Promoted, NewInUse, AfterRetention, AfterPromotion, Journals
  <2>3. PromotedFirst'
    BY <1>31 DEF RemoteCleanup, TwoKeys, RetainedFirst, PromotedFirst, Promoted, NewInUse, AfterRetention, AfterPromotion
  <2>4. WithinDirs'
    BY <1>31 DEF RemoteCleanup
  <2> QED
    BY <2>1, <2>2, <2>3, <2>4
<1>32. CASE UnlockRead
  <2>1. TwoKeys'
    BY <1>32 DEF UnlockRead, TwoKeys
  <2>2. RetainedFirst'
    BY <1>0, <1>32 DEF UnlockRead, TwoKeys, RetainedFirst, PromotedFirst, Promoted, NewInUse, AfterRetention, AfterPromotion, Journals
  <2>3. PromotedFirst'
    BY <1>32 DEF UnlockRead, TwoKeys, RetainedFirst, PromotedFirst, Promoted, NewInUse, AfterRetention, AfterPromotion
  <2>4. WithinDirs'
    BY <1>32 DEF UnlockRead
  <2> QED
    BY <2>1, <2>2, <2>3, <2>4
<1>33. CASE UnlockHold
  <2>1. TwoKeys'
    BY <1>33 DEF UnlockHold, NoUnlock, TwoKeys
  <2>2. RetainedFirst'
    BY <1>0, <1>33 DEF UnlockHold, NoUnlock, TwoKeys, RetainedFirst, PromotedFirst, Promoted, NewInUse, AfterRetention, AfterPromotion, Journals
  <2>3. PromotedFirst'
    BY <1>33 DEF UnlockHold, NoUnlock, TwoKeys, RetainedFirst, PromotedFirst, Promoted, NewInUse, AfterRetention, AfterPromotion
  <2>4. WithinDirs'
    BY <1>33 DEF UnlockHold, NoUnlock
  <2> QED
    BY <2>1, <2>2, <2>3, <2>4
<1>34. CASE UnlockStore
  <2>1. TwoKeys'
    BY <1>34 DEF UnlockStore, NoUnlock, TwoKeys
  <2>2. RetainedFirst'
    BY <1>0, <1>34 DEF UnlockStore, NoUnlock, TwoKeys, RetainedFirst, PromotedFirst, Promoted, NewInUse, AfterRetention, AfterPromotion, Journals
  <2>3. PromotedFirst'
    BY <1>34 DEF UnlockStore, NoUnlock, TwoKeys, RetainedFirst, PromotedFirst, Promoted, NewInUse, AfterRetention, AfterPromotion
  <2>4. WithinDirs'
    BY <1>34 DEF UnlockStore, NoUnlock
  <2> QED
    BY <2>1, <2>2, <2>3, <2>4
<1>35. CASE Lock
  <2>1. TwoKeys'
    BY <1>35 DEF Lock, TwoKeys
  <2>2. RetainedFirst'
    BY <1>0, <1>35 DEF Lock, TwoKeys, RetainedFirst, PromotedFirst, Promoted, NewInUse, AfterRetention, AfterPromotion, Journals
  <2>3. PromotedFirst'
    BY <1>35 DEF Lock, TwoKeys, RetainedFirst, PromotedFirst, Promoted, NewInUse, AfterRetention, AfterPromotion
  <2>4. WithinDirs'
    BY <1>35 DEF Lock
  <2> QED
    BY <2>1, <2>2, <2>3, <2>4
<1>36. CASE AdoptInRenderer
  <2>1. TwoKeys'
    BY <1>36 DEF AdoptInRenderer, TwoKeys
  <2>2. RetainedFirst'
    BY <1>0, <1>36 DEF AdoptInRenderer, TwoKeys, RetainedFirst, PromotedFirst, Promoted, NewInUse, AfterRetention, AfterPromotion, Journals
  <2>3. PromotedFirst'
    BY <1>36 DEF AdoptInRenderer, TwoKeys, RetainedFirst, PromotedFirst, Promoted, NewInUse, AfterRetention, AfterPromotion
  <2>4. WithinDirs'
    BY <1>36 DEF AdoptInRenderer
  <2> QED
    BY <2>1, <2>2, <2>3, <2>4
<1>37. CASE SaveFile
  <2>1. TwoKeys'
    BY <1>37 DEF SaveFile, HeldKeys, TwoKeys
  <2>2. RetainedFirst'
    BY <1>0, <1>37 DEF SaveFile, HeldKeys, TwoKeys, RetainedFirst, PromotedFirst, Promoted, NewInUse, AfterRetention, AfterPromotion, Journals
  <2>3. PromotedFirst'
    BY <1>37 DEF SaveFile, HeldKeys, TwoKeys, RetainedFirst, PromotedFirst, Promoted, NewInUse, AfterRetention, AfterPromotion
  <2>4. WithinDirs'
    BY <1>37 DEF SaveFile, HeldKeys
  <2> QED
    BY <2>1, <2>2, <2>3, <2>4
<1>38. ASSUME NEW p \in Newborn, CreateProfile(p) PROVE SwitchInvariant'
  <2>1. TwoKeys'
    BY <1>38 DEF CreateProfile, EnsureFEKAvailable, Donors, Completed, TwoKeys
  <2>2. RetainedFirst'
    BY <1>0, <1>38 DEF CreateProfile, EnsureFEKAvailable, Donors, Completed, TwoKeys, RetainedFirst, PromotedFirst, Promoted, NewInUse, AfterRetention, AfterPromotion, Journals
  <2>3. PromotedFirst'
    BY <1>38 DEF CreateProfile, EnsureFEKAvailable, Donors, Completed, TwoKeys, RetainedFirst, PromotedFirst, Promoted, NewInUse, AfterRetention, AfterPromotion
  <2>4. WithinDirs'
    BY <1>38 DEF CreateProfile, EnsureFEKAvailable, Donors, Completed
  <2> QED
    BY <2>1, <2>2, <2>3, <2>4
<1>39. CASE OpenProfile
  <2>1. TwoKeys'
    BY <1>39 DEF OpenProfile, EnsureFEKAvailable, Donors, Completed, TwoKeys
  <2>2. RetainedFirst'
    BY <1>0, <1>39 DEF OpenProfile, EnsureFEKAvailable, Donors, Completed, TwoKeys, RetainedFirst, PromotedFirst, Promoted, NewInUse, AfterRetention, AfterPromotion, Journals
  <2>3. PromotedFirst'
    BY <1>39 DEF OpenProfile, EnsureFEKAvailable, Donors, Completed, TwoKeys, RetainedFirst, PromotedFirst, Promoted, NewInUse, AfterRetention, AfterPromotion
  <2>4. WithinDirs'
    BY <1>39 DEF OpenProfile, EnsureFEKAvailable, Donors, Completed
  <2> QED
    BY <2>1, <2>2, <2>3, <2>4
<1>40. CASE Quit
  <2>1. TwoKeys'
    BY <1>40 DEF Quit, Stop, DeleteFEKSafe, NoJournal, NoUnlock, TwoKeys
  <2>2. RetainedFirst'
    BY <1>0, <1>40 DEF Quit, Stop, DeleteFEKSafe, NoJournal, NoUnlock, TwoKeys, RetainedFirst, PromotedFirst, Promoted, NewInUse, AfterRetention, AfterPromotion, Journals
  <2>3. PromotedFirst'
    BY <1>40 DEF Quit, Stop, DeleteFEKSafe, NoJournal, NoUnlock, TwoKeys, RetainedFirst, PromotedFirst, Promoted, NewInUse, AfterRetention, AfterPromotion
  <2>4. WithinDirs'
    BY <1>40 DEF Quit, Stop, DeleteFEKSafe, NoJournal, NoUnlock
  <2> QED
    BY <2>1, <2>2, <2>3, <2>4
<1>41. CASE Crash
  <2>1. TwoKeys'
    BY <1>41 DEF Crash, Stop, DeleteFEKSafe, NoJournal, NoUnlock, TwoKeys
  <2>2. RetainedFirst'
    BY <1>0, <1>41 DEF Crash, Stop, DeleteFEKSafe, NoJournal, NoUnlock, TwoKeys, RetainedFirst, PromotedFirst, Promoted, NewInUse, AfterRetention, AfterPromotion, Journals
  <2>3. PromotedFirst'
    BY <1>41 DEF Crash, Stop, DeleteFEKSafe, NoJournal, NoUnlock, TwoKeys, RetainedFirst, PromotedFirst, Promoted, NewInUse, AfterRetention, AfterPromotion
  <2>4. WithinDirs'
    BY <1>41 DEF Crash, Stop, DeleteFEKSafe, NoJournal, NoUnlock
  <2> QED
    BY <2>1, <2>2, <2>3, <2>4
<1>42. CASE Start
  <2>1. TwoKeys'
    BY <1>42 DEF Start, TwoKeys
  <2>2. RetainedFirst'
    BY <1>0, <1>42 DEF Start, TwoKeys, RetainedFirst, PromotedFirst, Promoted, NewInUse, AfterRetention, AfterPromotion, Journals
  <2>3. PromotedFirst'
    BY <1>42 DEF Start, TwoKeys, RetainedFirst, PromotedFirst, Promoted, NewInUse, AfterRetention, AfterPromotion
  <2>4. WithinDirs'
    BY <1>42 DEF Start
  <2> QED
    BY <2>1, <2>2, <2>3, <2>4
<1>43. CASE KeychainFlips
  <2>1. TwoKeys'
    BY <1>43 DEF KeychainFlips, TwoKeys
  <2>2. RetainedFirst'
    BY <1>0, <1>43 DEF KeychainFlips, TwoKeys, RetainedFirst, PromotedFirst, Promoted, NewInUse, AfterRetention, AfterPromotion, Journals
  <2>3. PromotedFirst'
    BY <1>43 DEF KeychainFlips, TwoKeys, RetainedFirst, PromotedFirst, Promoted, NewInUse, AfterRetention, AfterPromotion
  <2>4. WithinDirs'
    BY <1>43 DEF KeychainFlips
  <2> QED
    BY <2>1, <2>2, <2>3, <2>4
<1>44. CASE UNCHANGED vars
  BY <1>44 DEF vars, TwoKeys, RetainedFirst, PromotedFirst, Promoted, NewInUse
<1> QED
  BY <1>1, <1>2, <1>3, <1>4, <1>5, <1>6, <1>7, <1>8, <1>9, <1>10, <1>11,
     <1>12, <1>13, <1>14, <1>15, <1>16, <1>17, <1>18, <1>19, <1>20, <1>21, <1>22,
     <1>23, <1>24, <1>25, <1>26, <1>27, <1>28, <1>29, <1>30, <1>31, <1>32, <1>33,
     <1>34, <1>35, <1>36, <1>37, <1>38, <1>39, <1>40, <1>41, <1>42, <1>43, <1>44
  DEF Next, SwitchStep, ResumeStep

\* Hence it holds on a device whose directories all hold the old key.
LEMMA InvariantHolds ==
    ASSUME HeldAtStart = {Old} PROVE Spec => []SwitchInvariant
<1>1. Init => SwitchInvariant
  <2> SUFFICES ASSUME Init PROVE SwitchInvariant
    OBVIOUS
  <2>1. PICK held \in [Loc -> {Old, NoKey}] :
           /\ held[Active] = Old /\ wrapped = held /\ sealed = held
           /\ content = {held[l] : l \in dirs} \ {NoKey} /\ dirs \subseteq Loc
    BY DEF Init
  <2>2. \A l \in Loc : held[l] \in {Old, NoKey}
    OBVIOUS
  <2>3. content \subseteq {Old}
    BY <2>1, <2>2
  <2>4. TwoKeys
    BY KeysAssumption, <2>1, <2>2, <2>3 DEF Init, TwoKeys, SwitchKeys, NoUnlock
  <2>5. \A l \in Loc : wrapped[l] # New /\ sealed[l] # New
    BY KeysAssumption, <2>1, <2>2
  <2>6. RetainedFirst
    BY <2>5 DEF Init, RetainedFirst, AfterRetention, Proved, NoJournal
  <2>7. PromotedFirst
    BY KeysAssumption, <2>3, <2>5
    DEF Init, PromotedFirst, AfterPromotion, NewInUse, NoUnlock
  <2> QED
    BY <2>4, <2>6, <2>7 DEF Init, SwitchInvariant, WithinDirs
<1> QED
  BY <1>1, TypeCorrect, InvariantStep, PTL DEF Spec

\* The old key is in the ring before any directory carries the account's key.
THEOREM RetentionTheorem ==
    ASSUME HeldAtStart = {Old} PROVE Spec => []OldKeyRetained
<1>1. TypeOK /\ SwitchInvariant => OldKeyRetained
  BY DEF TypeOK, FilesTypeOK, SwitchInvariant, RetainedFirst, PromotedFirst, NewInUse, Promoted, OldKeyRetained
<1> QED
  BY <1>1, TypeCorrect, InvariantHolds, PTL

\* No local byte is ever left without the key it is sealed under.
THEOREM RecoverableTheorem ==
    ASSUME HeldAtStart = {Old} PROVE Spec => []KeysRecoverable
<1>1. TypeOK /\ SwitchInvariant => KeysRecoverable
  <2> SUFFICES ASSUME TypeOK, SwitchInvariant, NEW k \in content
               PROVE  k \in retired \/ \E d \in dirs : wrapped[d] = k
    BY DEF KeysRecoverable
  <2>1. CASE k = New
    BY <2>1 DEF SwitchInvariant, PromotedFirst, NewInUse, Promoted
  <2>2. CASE k = Old
    <3>1. Active \in dirs /\ Active \in Loc /\ wrapped[Active] \in {Old, New}
      BY DEF SwitchInvariant, TwoKeys, SwitchKeys, TypeOK, FilesTypeOK
    <3> QED
      BY <2>2, <3>1 DEF SwitchInvariant, RetainedFirst
  <2> QED
    BY <2>1, <2>2 DEF SwitchInvariant, TwoKeys
<1> QED
  BY <1>1, TypeCorrect, InvariantHolds, PTL
=============================================================================
