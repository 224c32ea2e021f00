-------------------------- MODULE KeySwitchRefinement --------------------------
(***************************************************************************)
(* The switch as the screen offers it, for every device: it implements     *)
(* AtomicSwitch, and what DONE and the states before the pivot promise     *)
(* holds at every moment.  KeySwitchProofs has what needs no such          *)
(* assumption.                                                             *)
(*                                                                         *)
(* Two invariants carry the proofs.  ControlInvariant ties the step the    *)
(* engine is at to the two copies of the journal; it needs only that no    *)
(* commit is made while the resumed task runs.  ScreenInvariant ties the   *)
(* files to the journal.                                                   *)
(***************************************************************************)
EXTENDS KeySwitchProofs

-----------------------------------------------------------------------------
(***************************************************************************)
(* The engine and the journal.                                             *)
(***************************************************************************)
PastPivotSteps == {"retainAgain", "promote", "promoteMirror", "record", "relocate",
                   "adopt", "clear", "clearMirror", "discard", "done"}
ForeignSteps == {"foreignClear", "foreignClearMirror", "foreignDiscard", "foreignWrite"}
LostSteps    == {"lostDiscard", "lostWrite"}
AbandonSteps == {"abandonDiscard", "abandonClear", "abandonClearMirror"}
BackSteps    == {"rollbackDiscard", "rollback"}
FailSteps    == {"failDiscard", "fail"}

\* The journal on disk is the one in memory.
Written == journal = mj

\* The publishing task runs while the engine is otherwise idle and the cycle suspended.
TaskIsAlone == bg # "none" => pc = "idle" /\ suspended

\* From the plan to the pivot the journal on disk is armed, after it committed.
SwitchIsWritten ==
    /\ pc \in {"retain", "plan"} => mj.state \in {"VERIFYING", "SWITCHING"}
    /\ pc \in {"stage", "pivot"} => Written /\ mj.state = "SWITCHING" /\ ~mj.staged
    /\ pc \in PastPivotSteps => Written /\ mj.state = "SWITCHING" /\ mj.staged

\* What a resume and the way out of it know of the journal.
ResumeIsWritten ==
    /\ pc \in {"off", "boot"} \cup ForeignSteps \cup LostSteps => mj = NoJournal
    /\ pc \in BackSteps \cup FailSteps => Written /\ resuming /\ mj.state = "SWITCHING"
    /\ pc \in AbandonSteps => Written /\ mj.state = "ABANDONED"
    /\ pc = "settle" => Written /\ (resuming \/ mj.state = "DONE")

\* The cycle is suspended as long as memory or the disk has a live migration.
CycleSuspended ==
    mj.state # "NONE" /\ (Live(mj.state) \/ Live(journal.state)) => suspended

ControlInvariant == TaskIsAlone /\ SwitchIsWritten /\ ResumeIsWritten /\ CycleSuspended

-----------------------------------------------------------------------------
(***************************************************************************)
(* The files and the journal, with the gestures of the screen.             *)
(***************************************************************************)
OnScreen ==
    /\ Gestures = {} /\ "other" \notin Accounts
    /\ HeldAtStart = {Old} /\ Newborn = {}

\* No publishing task, no clean-up and no button writes over a switch.
Closed == {"NONE", "SWITCHING", "DONE"}
SwitchIsAlone ==
    /\ pc \notin ForeignSteps \cup FailSteps
    /\ pc \in LostSteps => journal.state \notin Closed
    /\ pc \in {"retain", "plan"} => journal.state = "VERIFYING"
    /\ pc \in BackSteps => ~mj.staged
    /\ mj.state = "SWITCHING" => journal.state \in {"VERIFYING", "SWITCHING"}
    /\ mj.state = "DONE" => journal.state \in {"SWITCHING", "DONE"}
    /\ bg # "none" => mj.state \notin Closed /\ journal.state \notin Closed
    /\ cleaning => Written /\ mj.state = "ABANDONED" /\ bg = "none"

\* What the phase of the switch says of the files.
Switched ==
    /\ \A d \in dirs : wrapped[d] = New /\ sealed[d] \in {New, NoKey}
    /\ ~incW /\ ~incS /\ nextW = {} /\ nextS = {}
FilesFollowPhase ==
    /\ Phase \in {"old", "armed"} => \A d \in Loc : New \notin {wrapped[d], sealed[d]}
    /\ Phase = "committed" => incW \/ wrapped[Root] = New
    /\ Phase = "done" => Switched

\* A directory the loop is through with has the account's key, and its mirror.
Through(d) == wrapped[d] = New /\ sealed[d] = PromotedMirror(NoKey)
LoopPromotes ==
    /\ pc \in {"retain", "plan", "stage", "pivot"} => incW
    /\ pc \in SwitchSteps \ {"settle"} => locs = dirs
    /\ pc \in {"promote", "record"} =>
          /\ \A d \in dirs \ todo : Through(d)
          /\ Root \in todo => todo = dirs
    /\ pc = "promoteMirror" =>
          /\ \A d \in dirs \ todo : wrapped[d] = New /\ (Through(d) \/ d = cur)
          /\ Root \notin todo /\ (cur = Root => todo = dirs \ {Root})
    /\ pc \in {"relocate", "adopt", "clear", "clearMirror", "discard", "done"} =>
          \A d \in dirs : Through(d)

\* Nothing of the incoming key is left behind.
LoopErases ==
    /\ nextW \subseteq dirs /\ nextS \subseteq dirs
    /\ pc \in {"clearMirror", "discard", "done"} => ~incW
    /\ pc \in {"discard", "done"} => ~incS
    /\ pc = "discard" => nextW \subseteq todo /\ nextS \subseteq todo
    /\ pc = "done" => nextW = {} /\ nextS = {}

\* No unlock crosses the switch.
UnlocksApart ==
    /\ pc \notin {"idle"} \cup AbandonSteps => unlock = NoUnlock
    /\ Phase = "done" /\ unlock # NoUnlock => unlock.key = New
    /\ Phase = "done" /\ unlock.at = "store" => renderer \in {New, NoKey}

\* The renderer is told, or has nothing to forget, or no mirror to read.
RendererIsTold ==
    /\ keychain \/ moved
    /\ pc \in {"plan", "stage", "pivot"} => ~resuming
    /\ pc \in {"off", "boot"} => renderer = NoKey /\ ~adopted
    /\ pc \in {"retainAgain", "promote", "promoteMirror", "record", "relocate", "adopt"}
          /\ resuming => renderer = NoKey /\ ~adopted
    /\ pc \in SwitchSteps \ {"settle"} => incRaw \/ resuming
    /\ pc \in {"clear", "clearMirror", "discard", "done"} \/ Phase = "done" =>
          /\ sealed[Active] = NoKey => sealed[Root] = NoKey
          /\ moved \/ adopted \/ renderer \in {New, NoKey} \/ sealed[Active] = NoKey

ScreenInvariant ==
    /\ SwitchIsAlone /\ FilesFollowPhase /\ LoopPromotes /\ LoopErases
    /\ UnlocksApart /\ RendererIsTold

\* What the control invariant reads.
control == <<pc, bg, journal, mj, resuming, suspended>>

\* The control invariant speaks of the variables of control only.
LEMMA ControlFrame ==
    ASSUME ControlInvariant, UNCHANGED control PROVE ControlInvariant'
  BY DEF ControlInvariant, TaskIsAlone, SwitchIsWritten, ResumeIsWritten, CycleSuspended,
     Written, control

\* The publishing task writes the journal back while the cycle is suspended.
LEMMA PublishKeepsControl ==
    ASSUME ControlInvariant, pc = "idle", suspended,
           NEW state, NEW proof, NEW next, Publish(state, proof, next)
    PROVE  ControlInvariant'
  BY DEF ControlInvariant, TaskIsAlone, SwitchIsWritten, ResumeIsWritten, CycleSuspended,
     PastPivotSteps, ForeignSteps, LostSteps, AbandonSteps, BackSteps, FailSteps, Publish,
     engine, env

\* Every action keeps the control invariant.
LEMMA ControlStep ==
    ASSUME TypeOK, ControlInvariant, [Next]_vars, "early" \notin Gestures
    PROVE  ControlInvariant'
<1> USE DEF ControlInvariant, TaskIsAlone, SwitchIsWritten, ResumeIsWritten, CycleSuspended,
        Written, PastPivotSteps, ForeignSteps, LostSteps, AbandonSteps, BackSteps, FailSteps,
        files, task, engine, loop, users, env, Fault, Live
<1>0. mj \in Journals /\ journal \in Journals
  BY DEF TypeOK, ControlTypeOK
<1>1. CASE CommitKeySwitch
  BY <1>0, <1>1 DEF CommitKeySwitch, CanSwitch, Offered, Journals
<1>2. CASE RetainOldKey
  BY <1>0, <1>2 DEF RetainOldKey, MayGoWithout, Journals
<1>3. CASE PlanSwitch
  BY <1>0, <1>3 DEF PlanSwitch, Persist, Journals
<1>4. CASE StageNextKeys
  BY <1>0, <1>4 DEF StageNextKeys, Journals
<1>5. CASE Pivot
  BY <1>0, <1>5 DEF Pivot, Persist, Journals
<1>6. CASE PromoteWrapped
  BY <1>0, <1>6 DEF PromoteWrapped, Journals
<1>7. CASE PromoteMirror
  BY <1>0, <1>7 DEF PromoteMirror, Journals
<1>8. CASE RecordPromoted
  BY <1>0, <1>8 DEF RecordPromoted, Persist, Journals
<1>9. CASE RelocateProfiles
  BY <1>0, <1>9 DEF RelocateProfiles, Journals
<1>10. CASE AdoptInMemory
  BY <1>0, <1>10 DEF AdoptInMemory, Journals
<1>11. CASE FinishErase
  BY <1>0, <1>11 DEF FinishErase, ClearIncoming, DiscardNextKeys, Journals
<1>12. CASE FinishDone
  BY <1>0, <1>12 DEF FinishDone, Persist, Journals
<1>13. CASE Settle
  BY <1>0, <1>13 DEF Settle, Journals
<1>14. CASE ResumeClosed
  BY <1>0, <1>14 DEF ResumeClosed, NoJournal, Journals
<1>15. CASE ResumeForeign
  BY <1>0, <1>15 DEF ResumeForeign, Journals
<1>16. CASE ForeignErase
  BY <1>0, <1>16 DEF ForeignErase, ClearIncoming, DiscardNextKeys, Journals
<1>17. CASE WriteAbandoned
  BY <1>0, <1>17 DEF WriteAbandoned, Journals
<1>18. CASE ResumeWithoutKey
  BY <1>0, <1>18 DEF ResumeWithoutKey, NoJournal, Journals
<1>19. CASE LostDiscard
  BY <1>0, <1>19 DEF LostDiscard, DiscardNextKeys, Journals
<1>20. CASE ResumeSwitch
  BY <1>0, <1>20 DEF ResumeSwitch, OpenEngine, SwitchDecision, Journals
<1>21. CASE Rollback
  BY <1>0, <1>21 DEF Rollback, DiscardNextKeys, Persist, Journals
<1>22. CASE FailSwitch
  BY <1>0, <1>22 DEF FailSwitch, DiscardNextKeys, Persist, Journals
<1>23. CASE ResumePublish
  BY <1>0, <1>23 DEF ResumePublish, Journals
<1>24. CASE BuildInventory
  <2>1. pc = "idle" /\ suspended
    BY <1>24 DEF BuildInventory, Shown
  <2> QED
    BY <1>24, <2>1, PublishKeepsControl DEF BuildInventory
<1>25. CASE StartPublishing
  <2>1. pc = "idle" /\ suspended
    BY <1>25 DEF StartPublishing, Shown
  <2>2. CASE bg' = "loop" /\ UNCHANGED <<journal, mj, pc, resuming, suspended>>
    BY <2>1, <2>2
  <2> QED
    BY <1>25, <2>1, <2>2, PublishKeepsControl DEF StartPublishing
<1>26. CASE FlushCounters
  <2>1. pc = "idle" /\ suspended
    BY <1>26 DEF FlushCounters, Shown
  <2> QED
    BY <1>26, <2>1, PublishKeepsControl DEF FlushCounters
<1>27. CASE FinishLoop
  <2>1. pc = "idle" /\ suspended
    BY <1>27 DEF FinishLoop, Shown
  <2> QED
    BY <1>27, <2>1, PublishKeepsControl DEF FinishLoop
<1>28. CASE FinishVerification
  <2>1. pc = "idle" /\ suspended
    BY <1>28 DEF FinishVerification, Shown
  <2> QED
    BY <1>28, <2>1, PublishKeepsControl DEF FinishVerification
<1>29. CASE AbandonMigration
  BY <1>0, <1>29 DEF AbandonMigration, Persist, Abandonable, Journals
<1>30. CASE AbandonErase
  BY <1>0, <1>30 DEF AbandonErase, DiscardNextKeys, Journals
<1>31. CASE RemoteCleanup
  BY <1>0, <1>31 DEF RemoteCleanup, Journals
<1>32. CASE Quit
  BY <1>0, <1>32 DEF Quit, Stop, NoJournal, Journals
<1>33. CASE Crash
  BY <1>0, <1>33 DEF Crash, Stop, NoJournal, Journals
<1>34. CASE Start
  BY <1>0, <1>34 DEF Start, Journals
<1>35. CASE UnlockRead \/ UnlockHold \/ UnlockStore \/ Lock \/ AdoptInRenderer \/ SaveFile \/ OpenProfile \/ KeychainFlips
  BY <1>35, ControlFrame DEF control, UnlockRead, UnlockHold, UnlockStore, Lock,
     AdoptInRenderer, SaveFile, OpenProfile, KeychainFlips
<1>36. CASE \E p \in Newborn : CreateProfile(p)
  BY <1>36, ControlFrame DEF control, CreateProfile
<1>37. CASE UNCHANGED vars
  BY <1>37, ControlFrame DEF control, vars
<1> QED
  BY <1>1, <1>2, <1>3, <1>4, <1>5, <1>6, <1>7, <1>8, <1>9, <1>10, <1>11, <1>12, <1>13,
     <1>14, <1>15, <1>16, <1>17, <1>18, <1>19, <1>20, <1>21, <1>22, <1>23, <1>24, <1>25,
     <1>26, <1>27, <1>28, <1>29, <1>30, <1>31, <1>32, <1>33, <1>34, <1>35, <1>36, <1>37
     DEF Next, SwitchStep, ResumeStep

\* The publishing task writes the journal back while no switch is under way.
LEMMA PublishKeepsAlone ==
    ASSUME SwitchIsAlone, pc = "idle", ~cleaning, NEW state, NEW proof, NEW next,
           state \notin Closed, Publish(state, proof, next), mj \in Journals
    PROVE  SwitchIsAlone'
<1>1. Written' /\ mj'.state = state /\ UNCHANGED <<pc, cleaning>>
  BY DEF Publish, Journals, Written, engine
<1> QED
  BY <1>1 DEF SwitchIsAlone, Closed, Written, ForeignSteps, FailSteps, LostSteps, BackSteps

\* Nothing writes over a switch.
LEMMA AloneStep ==
    ASSUME OnScreen, TypeOK, SwitchInvariant, ControlInvariant, ScreenInvariant, Next
    PROVE  SwitchIsAlone'
<1> USE KeysAssumption DEF OnScreen, ScreenInvariant, SwitchIsAlone, Closed,
        ControlInvariant, TaskIsAlone, SwitchIsWritten, ResumeIsWritten, Written,
        PastPivotSteps, ForeignSteps, LostSteps, AbandonSteps, BackSteps, FailSteps, files,
        task, engine, loop, users, env, Fault
<1>0. mj \in Journals /\ journal \in Journals
  BY DEF TypeOK, ControlTypeOK
<1>1. CASE CommitKeySwitch
  BY <1>0, <1>1 DEF CommitKeySwitch, CanSwitch, Offered, Shown, Journals
<1>2. CASE RetainOldKey
  BY <1>0, <1>2 DEF RetainOldKey, ToPromote, Journals
<1>3. CASE PlanSwitch
  BY <1>0, <1>3 DEF PlanSwitch, Persist, Journals
<1>4. CASE StageNextKeys
  BY <1>0, <1>4 DEF StageNextKeys, Journals
<1>5. CASE Pivot
  BY <1>0, <1>5 DEF Pivot, Persist, Journals
<1>6. CASE PromoteWrapped
  BY <1>0, <1>6 DEF PromoteWrapped, Journals
<1>7. CASE PromoteMirror
  BY <1>0, <1>7 DEF PromoteMirror, PromotedMirror, Journals
<1>8. CASE RecordPromoted
  BY <1>0, <1>8 DEF RecordPromoted, Persist, Journals
<1>9. CASE RelocateProfiles
  BY <1>0, <1>9 DEF RelocateProfiles, Journals
<1>10. CASE AdoptInMemory
  BY <1>0, <1>10 DEF AdoptInMemory, KeyAdopted, Journals
<1>11. CASE FinishErase
  BY <1>0, <1>11 DEF FinishErase, ClearIncoming, DiscardNextKeys, Journals
<1>12. CASE FinishDone
  BY <1>0, <1>12 DEF FinishDone, Persist, Journals
<1>13. CASE Settle
  BY <1>0, <1>13 DEF Settle, Journals
<1>14. CASE ResumeClosed
  BY <1>0, <1>14 DEF ResumeClosed, NoJournal, Journals
<1>15. CASE ResumeForeign
  BY <1>0, <1>15 DEF ResumeForeign, Foreign, Journals
<1>16. CASE ForeignErase
  BY <1>0, <1>16 DEF ForeignErase, ClearIncoming, DiscardNextKeys, Journals
<1>17. CASE WriteAbandoned
  BY <1>0, <1>17 DEF WriteAbandoned, NoJournal, Journals
<1>18. CASE ResumeWithoutKey
  BY <1>0, <1>18 DEF ResumeWithoutKey, Foreign, Journals
<1>19. CASE LostDiscard
  BY <1>0, <1>19 DEF LostDiscard, DiscardNextKeys, Journals
<1>20. CASE ResumeSwitch
  BY <1>0, <1>20 DEF ResumeSwitch, OpenEngine, SwitchDecision, SwitchDecision,
     FilesFollowPhase, Phase, Journals
<1>21. CASE Rollback
  BY <1>0, <1>21 DEF Rollback, DiscardNextKeys, Persist, Journals
<1>22. CASE FailSwitch
  BY <1>0, <1>22 DEF FailSwitch, DiscardNextKeys, Persist, Journals
<1>23. CASE ResumePublish
  <2>1. bg = "none" /\ ~cleaning /\ pc' = "idle"
    BY <1>23 DEF ResumePublish, NoJournal
  <2>2. CASE journal.state \in {"PREPARING", "READY"}
    BY <1>0, <1>23, <2>1, <2>2 DEF ResumePublish, Journals
  <2>3. CASE journal.state \in {"PUBLISHING", "VERIFYING"}
    BY <1>23, <2>1, <2>3 DEF ResumePublish
  <2>4. CASE journal.state = "FAILED"
    BY <1>23, <2>1, <2>4 DEF ResumePublish
  <2>5. CASE journal.state = "ABANDONED"
    BY <1>23, <2>1, <2>5 DEF ResumePublish
  <2> QED
    BY <1>0, <1>23, <2>2, <2>3, <2>4, <2>5 DEF ResumePublish, Journals, PublishState
<1>24. CASE BuildInventory
  <2>1. pc = "idle" /\ ~cleaning /\ mj.state \notin Closed
    BY <1>24 DEF BuildInventory, Shown
  <2> QED
    BY <1>0, <1>24, <2>1, PublishKeepsAlone DEF BuildInventory
<1>25. CASE StartPublishing
  <2>1. pc = "idle" /\ ~cleaning /\ mj.state \notin Closed /\ journal.state \notin Closed
    BY <1>25 DEF StartPublishing, Shown
  <2>2. CASE bg' = "loop" /\ UNCHANGED <<journal, mj, pc, cleaning>>
    BY <2>1, <2>2
  <2> QED
    BY <1>0, <1>25, <2>1, <2>2, PublishKeepsAlone DEF StartPublishing
<1>26. CASE FlushCounters
  BY <1>0, <1>26 DEF FlushCounters, Publish, Journals
<1>27. CASE FinishLoop
  <2>1. pc = "idle" /\ ~cleaning /\ mj.state \notin Closed
    BY <1>27 DEF FinishLoop, Shown
  <2> QED
    BY <1>0, <1>27, <2>1, PublishKeepsAlone DEF FinishLoop
<1>28. CASE FinishVerification
  <2>1. pc = "idle" /\ ~cleaning /\ mj.state \notin Closed
    BY <1>28 DEF FinishVerification, Shown
  <2> QED
    BY <1>0, <1>28, <2>1, PublishKeepsAlone DEF FinishVerification
<1>29. CASE AbandonMigration
  BY <1>0, <1>29 DEF AbandonMigration, Persist, Abandonable, Shown, Journals
<1>30. CASE AbandonErase
  BY <1>0, <1>30 DEF AbandonErase, DiscardNextKeys, Journals
<1>31. CASE RemoteCleanup
  BY <1>0, <1>31 DEF RemoteCleanup, Journals
<1>32. CASE Quit
  BY <1>0, <1>32 DEF Quit, Stop, NoJournal, NoUnlock, Journals
<1>33. CASE Crash
  BY <1>0, <1>33 DEF Crash, Stop, NoJournal, NoUnlock, Journals
<1>34. CASE Start
  BY <1>0, <1>34 DEF Start, Journals
<1>35. CASE UnlockRead \/ UnlockHold \/ UnlockStore \/ Lock \/ AdoptInRenderer
            \/ SaveFile \/ (\E p \in Newborn : CreateProfile(p)) \/ OpenProfile
            \/ KeychainFlips
  BY <1>35 DEF UnlockRead, UnlockHold, UnlockStore, Lock, AdoptInRenderer, SaveFile,
     CreateProfile, OpenProfile, KeychainFlips, EnsureFEKAvailable, Journals
<1> QED
  BY <1>1, <1>2, <1>3, <1>4, <1>5, <1>6, <1>7, <1>8, <1>9, <1>10, <1>11, <1>12, <1>13,
     <1>14, <1>15, <1>16, <1>17, <1>18, <1>19, <1>20, <1>21, <1>22, <1>23, <1>24, <1>25,
     <1>26, <1>27, <1>28, <1>29, <1>30, <1>31, <1>32, <1>33, <1>34, <1>35
     DEF Next, SwitchStep, ResumeStep

\* The files follow the phase of the switch.
LEMMA FilesStep ==
    ASSUME OnScreen, TypeOK, SwitchInvariant, ControlInvariant, ScreenInvariant, Next
    PROVE  FilesFollowPhase'
<1> USE KeysAssumption DEF OnScreen, ScreenInvariant, FilesFollowPhase, Switched, Phase,
        SwitchIsAlone, Closed, ControlInvariant, TaskIsAlone, SwitchIsWritten,
        ResumeIsWritten, Written, PastPivotSteps, ForeignSteps, LostSteps, AbandonSteps,
        BackSteps, FailSteps, files, task, engine, loop, users, env, Fault, TypeOK,
        FilesTypeOK
<1>0. mj \in Journals /\ journal \in Journals
  BY DEF TypeOK, ControlTypeOK
<1>1. CASE PlanSwitch
  BY <1>0, <1>1 DEF PlanSwitch, Persist, Journals
<1>2. CASE StageNextKeys
  BY <1>0, <1>2 DEF StageNextKeys, Journals
<1>3. CASE Pivot
  BY <1>0, <1>3 DEF Pivot, Persist, LoopPromotes, Journals
<1>4. CASE PromoteWrapped
  BY <1>0, <1>4 DEF PromoteWrapped, Journals
<1>5. CASE PromoteMirror
  BY <1>0, <1>5 DEF PromoteMirror, PromotedMirror, Journals
<1>6. CASE RecordPromoted
  BY <1>0, <1>6 DEF RecordPromoted, Persist, Journals
<1>7. CASE FinishErase
  BY <1>0, <1>7 DEF FinishErase, ClearIncoming, DiscardNextKeys, LoopPromotes, Through,
     Journals
<1>8. CASE FinishDone
  BY <1>0, <1>8 DEF FinishDone, Persist, LoopPromotes, LoopErases, Through, PromotedMirror,
     Journals
<1>9. CASE ResumeClosed
  BY <1>0, <1>9 DEF ResumeClosed, NoJournal, Journals
<1>10. CASE ForeignErase
  BY <1>0, <1>10 DEF ForeignErase, ClearIncoming, DiscardNextKeys, Journals
<1>11. CASE WriteAbandoned
  BY <1>0, <1>11 DEF WriteAbandoned, Journals
<1>12. CASE LostDiscard
  BY <1>0, <1>12 DEF LostDiscard, DiscardNextKeys, Journals
<1>13. CASE Rollback
  BY <1>0, <1>13 DEF Rollback, DiscardNextKeys, Persist, Journals
<1>14. CASE FailSwitch
  BY <1>0, <1>14 DEF FailSwitch, DiscardNextKeys, Persist, Journals
<1>15. CASE ResumePublish
  <2>1. journal.state \notin Closed /\ journal'.state \notin Closed /\ UNCHANGED files
    <3>1. CASE journal.state \in {"PREPARING", "READY"}
      BY <1>0, <1>15, <3>1 DEF ResumePublish, Journals
    <3>2. CASE journal.state \notin {"PREPARING", "READY"}
      BY <1>0, <1>15, <3>2 DEF ResumePublish, Journals, PublishState
    <3> QED
      BY <3>1, <3>2
  <2> QED
    BY <2>1
<1>16. CASE BuildInventory
  BY <1>0, <1>16 DEF BuildInventory, Publish, Shown, Journals
<1>17. CASE StartPublishing
  BY <1>0, <1>17 DEF StartPublishing, Publish, Shown, Journals
<1>18. CASE FlushCounters
  BY <1>0, <1>18 DEF FlushCounters, Publish, Journals
<1>19. CASE FinishLoop
  BY <1>0, <1>19 DEF FinishLoop, Publish, Journals
<1>20. CASE FinishVerification
  BY <1>0, <1>20 DEF FinishVerification, Publish, Journals
<1>21. CASE AbandonMigration
  BY <1>0, <1>21 DEF AbandonMigration, Persist, Abandonable, Shown, Journals
<1>22. CASE AbandonErase
  BY <1>0, <1>22 DEF AbandonErase, DiscardNextKeys, Journals
<1>23. CASE RemoteCleanup
  BY <1>0, <1>23 DEF RemoteCleanup, Journals
<1>24. CASE UnlockStore
  <2>1. /\ UNCHANGED <<journal, dirs, wrapped, incW, incS, nextW, nextS>>
        /\ sealed' = sealed \/ sealed' = [sealed EXCEPT ![Active] = unlock.key]
        /\ unlock # NoUnlock
    BY <1>24 DEF UnlockStore, NoUnlock
  <2>2. ASSUME Phase \in {"old", "armed"} PROVE unlock.key # New
    BY <2>2 DEF SwitchInvariant, PromotedFirst, Promoted, NewInUse
  <2>3. Phase = "done" => unlock.key = New
    BY <2>1 DEF UnlocksApart
  <2>4. \A d \in Loc : sealed'[d] = sealed[d] \/ sealed'[d] = unlock.key
    BY <2>1
  <2>5. Phase' = Phase
    BY <2>1
  <2> HIDE DEF Phase
  <2> QED
    BY <2>1, <2>2, <2>3, <2>4, <2>5
<1>25. CASE \E p \in Newborn : CreateProfile(p)
  BY <1>0, <1>25 DEF CreateProfile, EnsureFEKAvailable, Donors, Completed, Journals
<1>26. CASE OpenProfile
  BY <1>0, <1>26 DEF OpenProfile, EnsureFEKAvailable, Donors, Completed, Journals
<1>27. CASE Quit
  BY <1>0, <1>27 DEF Quit, Stop, NoJournal, NoUnlock, DeleteFEKSafe, Journals
<1>28. CASE Crash
  BY <1>0, <1>28 DEF Crash, Stop, NoJournal, NoUnlock, DeleteFEKSafe, Journals
<1>29. CASE CommitKeySwitch \/ RetainOldKey \/ RelocateProfiles \/ AdoptInMemory
            \/ Settle \/ ResumeForeign \/ ResumeWithoutKey \/ ResumeSwitch
            \/ UnlockRead \/ UnlockHold \/ Lock \/ AdoptInRenderer \/ SaveFile
            \/ Start \/ KeychainFlips
  BY <1>29 DEF CommitKeySwitch, RetainOldKey, RelocateProfiles, AdoptInMemory, Settle,
     ResumeForeign, ResumeWithoutKey, ResumeSwitch, UnlockRead, UnlockHold, Lock,
     AdoptInRenderer, SaveFile, Start, KeychainFlips, OpenEngine, Journals
<1> QED
  BY <1>1, <1>2, <1>3, <1>4, <1>5, <1>6, <1>7, <1>8, <1>9, <1>10, <1>11, <1>12, <1>13,
     <1>14, <1>15, <1>16, <1>17, <1>18, <1>19, <1>20, <1>21, <1>22, <1>23, <1>24, <1>25,
     <1>26, <1>27, <1>28, <1>29 DEF Next, SwitchStep, ResumeStep

\* What the loop of the switch is through with stays promoted.
LEMMA LoopStep ==
    ASSUME OnScreen, TypeOK, SwitchInvariant, ControlInvariant, ScreenInvariant, Next
    PROVE  LoopPromotes'
<1> USE KeysAssumption DEF OnScreen, ScreenInvariant, LoopPromotes, Through,
        PromotedMirror, SwitchSteps, SwitchIsAlone, UnlocksApart, ControlInvariant,
        TaskIsAlone, SwitchIsWritten, ResumeIsWritten, Written, PastPivotSteps,
        ForeignSteps, LostSteps, AbandonSteps, BackSteps, FailSteps, files, task, engine,
        loop, users, env, Fault, TypeOK, FilesTypeOK
<1>0. mj \in Journals /\ journal \in Journals
  BY DEF TypeOK, ControlTypeOK
<1>1. CASE CommitKeySwitch
  BY <1>0, <1>1 DEF CommitKeySwitch, Journals
<1>2. CASE RetainOldKey
  BY <1>0, <1>2 DEF RetainOldKey, ToPromote, MayGoWithout, Journals
<1>3. CASE PlanSwitch
  BY <1>0, <1>3 DEF PlanSwitch, Persist, Journals
<1>4. CASE StageNextKeys
  BY <1>0, <1>4 DEF StageNextKeys, Journals
<1>5. CASE Pivot
  BY <1>0, <1>5 DEF Pivot, Persist, Journals
<1>6. CASE PromoteWrapped
  BY <1>0, <1>6 DEF PromoteWrapped, Journals
<1>7. CASE PromoteMirror
  BY <1>0, <1>7 DEF PromoteMirror, PromotedMirror, Journals
<1>8. CASE RecordPromoted
  BY <1>0, <1>8 DEF RecordPromoted, Persist, Journals
<1>9. CASE RelocateProfiles
  BY <1>0, <1>9 DEF RelocateProfiles, Journals
<1>10. CASE AdoptInMemory
  BY <1>0, <1>10 DEF AdoptInMemory, KeyAdopted, Journals
<1>11. CASE FinishErase
  BY <1>0, <1>11 DEF FinishErase, ClearIncoming, DiscardNextKeys, Journals
<1>12. CASE FinishDone
  BY <1>0, <1>12 DEF FinishDone, Persist, Journals
<1>13. CASE Settle
  BY <1>0, <1>13 DEF Settle, Journals
<1>14. CASE ResumeClosed
  BY <1>0, <1>14 DEF ResumeClosed, NoJournal, Journals
<1>15. CASE ResumeForeign
  BY <1>0, <1>15 DEF ResumeForeign, Journals
<1>16. CASE ForeignErase
  BY <1>0, <1>16 DEF ForeignErase, ClearIncoming, DiscardNextKeys, Journals
<1>17. CASE WriteAbandoned
  BY <1>0, <1>17 DEF WriteAbandoned, Journals
<1>18. CASE ResumeWithoutKey
  BY <1>0, <1>18 DEF ResumeWithoutKey, Journals
<1>19. CASE LostDiscard
  BY <1>0, <1>19 DEF LostDiscard, DiscardNextKeys, Journals
<1>20. CASE ResumeSwitch
  BY <1>0, <1>20 DEF ResumeSwitch, OpenEngine, SwitchDecision, Journals
<1>21. CASE Rollback
  BY <1>0, <1>21 DEF Rollback, DiscardNextKeys, Persist, Journals
<1>22. CASE FailSwitch
  BY <1>0, <1>22 DEF FailSwitch, DiscardNextKeys, Persist, Journals
<1>23. CASE ResumePublish
  BY <1>0, <1>23 DEF ResumePublish, Journals
<1>24. CASE AbandonMigration
  BY <1>0, <1>24 DEF AbandonMigration, Persist, Abandonable, Shown, Journals
<1>25. CASE AbandonErase
  BY <1>0, <1>25 DEF AbandonErase, DiscardNextKeys, Journals
<1>26. CASE UnlockStore
  BY <1>0, <1>26 DEF UnlockStore, NoUnlock, Journals
<1>27. CASE \E p \in Newborn : CreateProfile(p)
  BY <1>0, <1>27 DEF CreateProfile, EnsureFEKAvailable, Donors, Completed, Journals
<1>28. CASE OpenProfile
  BY <1>0, <1>28 DEF OpenProfile, EnsureFEKAvailable, Donors, Completed, Journals
<1>29. CASE Quit
  BY <1>0, <1>29 DEF Quit, Stop, NoJournal, NoUnlock, DeleteFEKSafe, Journals
<1>30. CASE Crash
  BY <1>0, <1>30 DEF Crash, Stop, NoJournal, NoUnlock, DeleteFEKSafe, Journals
<1>31. CASE Start
  BY <1>0, <1>31 DEF Start, Journals
<1>32. CASE BuildInventory \/ StartPublishing \/ FlushCounters \/ FinishLoop
            \/ FinishVerification \/ RemoteCleanup \/ UnlockRead \/ UnlockHold
            \/ Lock \/ AdoptInRenderer \/ SaveFile \/ KeychainFlips
  <2>1. UNCHANGED <<pc, incW, locs, dirs, todo, wrapped, sealed, mirror, cur>>
    BY <1>32 DEF BuildInventory, StartPublishing, FlushCounters, FinishLoop,
       FinishVerification, RemoteCleanup, UnlockRead, UnlockHold, Lock, AdoptInRenderer,
       SaveFile, KeychainFlips, Publish
  <2> QED
    BY <2>1
<1> QED
  BY <1>1, <1>2, <1>3, <1>4, <1>5, <1>6, <1>7, <1>8, <1>9, <1>10, <1>11, <1>12, <1>13,
     <1>14, <1>15, <1>16, <1>17, <1>18, <1>19, <1>20, <1>21, <1>22, <1>23, <1>24, <1>25,
     <1>26, <1>27, <1>28, <1>29, <1>30, <1>31, <1>32 DEF Next, SwitchStep, ResumeStep

\* The incoming key is erased in order, and wholly.
LEMMA ErasesStep ==
    ASSUME OnScreen, TypeOK, SwitchInvariant, ControlInvariant, ScreenInvariant, Next
    PROVE  LoopErases'
<1> USE KeysAssumption DEF OnScreen, ScreenInvariant, LoopErases, SwitchSteps,
        SwitchIsAlone, ControlInvariant, TaskIsAlone, SwitchIsWritten, ResumeIsWritten,
        Written, PastPivotSteps, ForeignSteps, LostSteps, AbandonSteps, BackSteps,
        FailSteps, files, task, engine, loop, users, env, Fault, TypeOK, FilesTypeOK,
        SwitchInvariant, WithinDirs
<1>0. mj \in Journals /\ journal \in Journals
  BY DEF TypeOK, ControlTypeOK
<1>1. CASE CommitKeySwitch
  BY <1>0, <1>1 DEF CommitKeySwitch, Journals
<1>2. CASE RetainOldKey
  BY <1>0, <1>2 DEF RetainOldKey, ToPromote, MayGoWithout, Journals
<1>3. CASE PlanSwitch
  BY <1>0, <1>3 DEF PlanSwitch, Persist, Journals
<1>4. CASE StageNextKeys
  BY <1>0, <1>4 DEF StageNextKeys, Journals
<1>5. CASE Pivot
  BY <1>0, <1>5 DEF Pivot, Persist, Journals
<1>6. CASE PromoteWrapped
  BY <1>0, <1>6 DEF PromoteWrapped, Journals
<1>7. CASE PromoteMirror
  BY <1>0, <1>7 DEF PromoteMirror, PromotedMirror, LoopPromotes, Journals
<1>8. CASE RecordPromoted
  BY <1>0, <1>8 DEF RecordPromoted, Persist, Journals
<1>9. CASE RelocateProfiles
  BY <1>0, <1>9 DEF RelocateProfiles, Journals
<1>10. CASE AdoptInMemory
  BY <1>0, <1>10 DEF AdoptInMemory, KeyAdopted, Journals
<1>11. CASE FinishErase
  BY <1>0, <1>11 DEF FinishErase, ClearIncoming, DiscardNextKeys, LoopPromotes, Journals
<1>12. CASE FinishDone
  BY <1>0, <1>12 DEF FinishDone, Persist, Journals
<1>13. CASE Settle
  BY <1>0, <1>13 DEF Settle, Journals
<1>14. CASE ResumeClosed
  BY <1>0, <1>14 DEF ResumeClosed, NoJournal, Journals
<1>15. CASE ResumeForeign
  BY <1>0, <1>15 DEF ResumeForeign, Journals
<1>16. CASE ForeignErase
  BY <1>0, <1>16 DEF ForeignErase, ClearIncoming, DiscardNextKeys, Journals
<1>17. CASE WriteAbandoned
  BY <1>0, <1>17 DEF WriteAbandoned, Journals
<1>18. CASE ResumeWithoutKey
  BY <1>0, <1>18 DEF ResumeWithoutKey, Journals
<1>19. CASE LostDiscard
  BY <1>0, <1>19 DEF LostDiscard, DiscardNextKeys, Journals
<1>20. CASE ResumeSwitch
  BY <1>0, <1>20 DEF ResumeSwitch, OpenEngine, SwitchDecision, Journals
<1>21. CASE Rollback
  BY <1>0, <1>21 DEF Rollback, DiscardNextKeys, Persist, Journals
<1>22. CASE FailSwitch
  BY <1>0, <1>22 DEF FailSwitch, DiscardNextKeys, Persist, Journals
<1>23. CASE ResumePublish
  BY <1>0, <1>23 DEF ResumePublish, Journals
<1>24. CASE AbandonMigration
  BY <1>0, <1>24 DEF AbandonMigration, Persist, Abandonable, Shown, Journals
<1>25. CASE AbandonErase
  BY <1>0, <1>25 DEF AbandonErase, DiscardNextKeys, Journals
<1>26. CASE \E p \in Newborn : CreateProfile(p)
  BY <1>0, <1>26 DEF CreateProfile, EnsureFEKAvailable, Donors, Completed, Journals
<1>27. CASE Quit
  BY <1>0, <1>27 DEF Quit, Stop, NoJournal, NoUnlock, DeleteFEKSafe, Journals
<1>28. CASE Crash
  BY <1>0, <1>28 DEF Crash, Stop, NoJournal, NoUnlock, DeleteFEKSafe, Journals
<1>29. CASE Start
  BY <1>0, <1>29 DEF Start, Journals
<1>30. CASE BuildInventory \/ StartPublishing \/ FlushCounters \/ FinishLoop
            \/ FinishVerification \/ RemoteCleanup \/ UnlockRead \/ UnlockHold
            \/ UnlockStore \/ Lock \/ AdoptInRenderer \/ SaveFile \/ OpenProfile
            \/ KeychainFlips
  <2>1. UNCHANGED <<nextW, nextS, dirs, pc, incW, incS, todo>>
    BY <1>30 DEF BuildInventory, StartPublishing, FlushCounters, FinishLoop,
       FinishVerification, RemoteCleanup, UnlockRead, UnlockHold, UnlockStore, Lock,
       AdoptInRenderer, SaveFile, OpenProfile, KeychainFlips, Publish, EnsureFEKAvailable
  <2> QED
    BY <2>1
<1> QED
  BY <1>1, <1>2, <1>3, <1>4, <1>5, <1>6, <1>7, <1>8, <1>9, <1>10, <1>11, <1>12, <1>13,
     <1>14, <1>15, <1>16, <1>17, <1>18, <1>19, <1>20, <1>21, <1>22, <1>23, <1>24, <1>25,
     <1>26, <1>27, <1>28, <1>29, <1>30 DEF Next, SwitchStep, ResumeStep

\* No unlock crosses the switch.
LEMMA ApartStep ==
    ASSUME OnScreen, TypeOK, SwitchInvariant, ControlInvariant, ScreenInvariant, Next
    PROVE  UnlocksApart'
<1> USE KeysAssumption DEF OnScreen, ScreenInvariant, NoUnlock, UnlocksApart, Phase,
        Switched, FilesFollowPhase, SwitchIsAlone, Closed, ControlInvariant, TaskIsAlone,
        SwitchIsWritten, ResumeIsWritten, Written, PastPivotSteps, ForeignSteps, LostSteps,
        AbandonSteps, BackSteps, FailSteps, files, task, engine, loop, users, env, Fault,
        TypeOK, FilesTypeOK, UsersTypeOK
<1>0. mj \in Journals /\ journal \in Journals
  BY DEF TypeOK, ControlTypeOK
<1>1. CASE CommitKeySwitch
  BY <1>0, <1>1 DEF CommitKeySwitch, Journals
<1>2. CASE RetainOldKey
  BY <1>0, <1>2 DEF RetainOldKey, ToPromote, MayGoWithout, Journals
<1>3. CASE PlanSwitch
  BY <1>0, <1>3 DEF PlanSwitch, Persist, Journals
<1>4. CASE StageNextKeys
  BY <1>0, <1>4 DEF StageNextKeys, Journals
<1>5. CASE Pivot
  BY <1>0, <1>5 DEF Pivot, Persist, Journals
<1>6. CASE PromoteWrapped
  BY <1>0, <1>6 DEF PromoteWrapped, Journals
<1>7. CASE PromoteMirror
  BY <1>0, <1>7 DEF PromoteMirror, PromotedMirror, Journals
<1>8. CASE RecordPromoted
  BY <1>0, <1>8 DEF RecordPromoted, Persist, Journals
<1>9. CASE RelocateProfiles
  BY <1>0, <1>9 DEF RelocateProfiles, Journals
<1>10. CASE AdoptInMemory
  BY <1>0, <1>10 DEF AdoptInMemory, KeyAdopted, Journals
<1>11. CASE FinishErase
  BY <1>0, <1>11 DEF FinishErase, ClearIncoming, DiscardNextKeys, Journals
<1>12. CASE FinishDone
  BY <1>0, <1>12 DEF FinishDone, Persist, Journals
<1>13. CASE Settle
  BY <1>0, <1>13 DEF Settle, Journals
<1>14. CASE ResumeClosed
  BY <1>0, <1>14 DEF ResumeClosed, NoJournal, Journals
<1>15. CASE ResumeForeign
  BY <1>0, <1>15 DEF ResumeForeign, Journals
<1>16. CASE ForeignErase
  BY <1>0, <1>16 DEF ForeignErase, ClearIncoming, DiscardNextKeys, Journals
<1>17. CASE WriteAbandoned
  BY <1>0, <1>17 DEF WriteAbandoned, NoJournal, Journals
<1>18. CASE ResumeWithoutKey
  BY <1>0, <1>18 DEF ResumeWithoutKey, Journals
<1>19. CASE LostDiscard
  BY <1>0, <1>19 DEF LostDiscard, DiscardNextKeys, Journals
<1>20. CASE ResumeSwitch
  BY <1>0, <1>20 DEF ResumeSwitch, OpenEngine, SwitchDecision, Journals
<1>21. CASE Rollback
  BY <1>0, <1>21 DEF Rollback, DiscardNextKeys, Persist, Journals
<1>22. CASE FailSwitch
  BY <1>0, <1>22 DEF FailSwitch, DiscardNextKeys, Persist, Journals
<1>23. CASE ResumePublish
  <2>1. /\ journal.state \notin Closed /\ journal'.state \notin Closed
        /\ UNCHANGED <<files, users, env>> /\ pc' = "idle"
    <3>1. CASE journal.state \in {"PREPARING", "READY"}
      BY <1>0, <1>23, <3>1 DEF ResumePublish, Journals
    <3>2. CASE journal.state \notin {"PREPARING", "READY"}
      BY <1>0, <1>23, <3>2 DEF ResumePublish, Journals, PublishState
    <3> QED
      BY <3>1, <3>2
  <2> QED
    BY <2>1
<1>24. CASE BuildInventory
  BY <1>0, <1>24 DEF BuildInventory, Publish, Shown, Journals
<1>25. CASE StartPublishing
  BY <1>0, <1>25 DEF StartPublishing, Publish, Shown, Journals
<1>26. CASE FlushCounters
  BY <1>0, <1>26 DEF FlushCounters, Publish, Journals
<1>27. CASE FinishLoop
  BY <1>0, <1>27 DEF FinishLoop, Publish, Journals
<1>28. CASE FinishVerification
  BY <1>0, <1>28 DEF FinishVerification, Publish, Journals
<1>29. CASE AbandonMigration
  BY <1>0, <1>29 DEF AbandonMigration, Persist, Abandonable, Shown, Journals
<1>30. CASE AbandonErase
  BY <1>0, <1>30 DEF AbandonErase, DiscardNextKeys, Journals
<1>31. CASE RemoteCleanup
  BY <1>0, <1>31 DEF RemoteCleanup, Journals
<1>32. CASE UnlockRead
  BY <1>0, <1>32 DEF UnlockRead, NoUnlock, Journals
<1>33. CASE UnlockHold
  BY <1>0, <1>33 DEF UnlockHold, NoUnlock, NoUnlock, Journals
<1>34. CASE UnlockStore
  BY <1>0, <1>34 DEF UnlockStore, NoUnlock, NoUnlock, Journals
<1>35. CASE Lock
  BY <1>0, <1>35 DEF Lock, Journals
<1>36. CASE AdoptInRenderer
  BY <1>0, <1>36 DEF AdoptInRenderer, Journals
<1>37. CASE Quit
  BY <1>0, <1>37 DEF Quit, Stop, NoJournal, NoUnlock, NoUnlock, Journals
<1>38. CASE Crash
  BY <1>0, <1>38 DEF Crash, Stop, NoJournal, NoUnlock, NoUnlock, Journals
<1>39. CASE Start
  BY <1>0, <1>39 DEF Start, Journals
<1>40. CASE SaveFile \/ (\E p \in Newborn : CreateProfile(p)) \/ OpenProfile
            \/ KeychainFlips
  <2>1. UNCHANGED <<pc, journal, unlock, renderer>>
    BY <1>40 DEF SaveFile, CreateProfile, OpenProfile, KeychainFlips, EnsureFEKAvailable
  <2> QED
    BY <2>1
<1> QED
  BY <1>1, <1>2, <1>3, <1>4, <1>5, <1>6, <1>7, <1>8, <1>9, <1>10, <1>11, <1>12, <1>13,
     <1>14, <1>15, <1>16, <1>17, <1>18, <1>19, <1>20, <1>21, <1>22, <1>23, <1>24, <1>25,
     <1>26, <1>27, <1>28, <1>29, <1>30, <1>31, <1>32, <1>33, <1>34, <1>35, <1>36, <1>37,
     <1>38, <1>39, <1>40 DEF Next, SwitchStep, ResumeStep

\* The renderer is told of the new key.
LEMMA ToldStep ==
    ASSUME OnScreen, TypeOK, SwitchInvariant, ControlInvariant, ScreenInvariant, Next
    PROVE  RendererIsTold'
<1> USE KeysAssumption DEF OnScreen, ScreenInvariant, RendererIsTold, Phase, Switched,
        FilesFollowPhase, SwitchSteps, SwitchIsAlone, Closed, ControlInvariant,
        TaskIsAlone, SwitchIsWritten, ResumeIsWritten, Written, PastPivotSteps,
        ForeignSteps, LostSteps, AbandonSteps, BackSteps, FailSteps, files, task, engine,
        loop, users, env, Fault, TypeOK, FilesTypeOK
<1>0. mj \in Journals /\ journal \in Journals
  BY DEF TypeOK, ControlTypeOK
<1>1. CASE CommitKeySwitch
  BY <1>0, <1>1 DEF CommitKeySwitch, Journals
<1>2. CASE RetainOldKey
  BY <1>0, <1>2 DEF RetainOldKey, ToPromote, MayGoWithout, SwitchInvariant, WithinDirs,
     Journals
<1>3. CASE PlanSwitch
  BY <1>0, <1>3 DEF PlanSwitch, Persist, Journals
<1>4. CASE StageNextKeys
  BY <1>0, <1>4 DEF StageNextKeys, Journals
<1>5. CASE Pivot
  BY <1>0, <1>5 DEF Pivot, Persist, Journals
<1>6. CASE PromoteWrapped
  BY <1>0, <1>6 DEF PromoteWrapped, Journals
<1>7. CASE PromoteMirror
  BY <1>0, <1>7 DEF PromoteMirror, PromotedMirror, Journals
<1>8. CASE RecordPromoted
  BY <1>0, <1>8 DEF RecordPromoted, Persist, Journals
<1>9. CASE RelocateProfiles
  BY <1>0, <1>9 DEF RelocateProfiles, Journals
<1>10. CASE AdoptInMemory
  BY <1>0, <1>10 DEF AdoptInMemory, KeyAdopted, LoopPromotes, Through, PromotedMirror,
     Journals
<1>11. CASE FinishErase
  BY <1>0, <1>11 DEF FinishErase, ClearIncoming, DiscardNextKeys, LoopPromotes, Journals
<1>12. CASE FinishDone
  BY <1>0, <1>12 DEF FinishDone, Persist, Journals
<1>13. CASE Settle
  BY <1>0, <1>13 DEF Settle, Journals
<1>14. CASE ResumeClosed
  BY <1>0, <1>14 DEF ResumeClosed, NoJournal, Journals
<1>15. CASE ResumeForeign
  BY <1>0, <1>15 DEF ResumeForeign, Journals
<1>16. CASE ForeignErase
  BY <1>0, <1>16 DEF ForeignErase, ClearIncoming, DiscardNextKeys, Journals
<1>17. CASE WriteAbandoned
  BY <1>0, <1>17 DEF WriteAbandoned, Journals
<1>18. CASE ResumeWithoutKey
  BY <1>0, <1>18 DEF ResumeWithoutKey, Journals
<1>19. CASE LostDiscard
  BY <1>0, <1>19 DEF LostDiscard, DiscardNextKeys, Journals
<1>20. CASE ResumeSwitch
  BY <1>0, <1>20 DEF ResumeSwitch, OpenEngine, SwitchDecision, Journals
<1>21. CASE Rollback
  BY <1>0, <1>21 DEF Rollback, DiscardNextKeys, Persist, Journals
<1>22. CASE FailSwitch
  BY <1>0, <1>22 DEF FailSwitch, DiscardNextKeys, Persist, Journals
<1>23. CASE ResumePublish
  <2>1. /\ journal.state \notin Closed /\ journal'.state \notin Closed
        /\ UNCHANGED <<files, users, env>> /\ pc' = "idle"
    <3>1. CASE journal.state \in {"PREPARING", "READY"}
      BY <1>0, <1>23, <3>1 DEF ResumePublish, Journals
    <3>2. CASE journal.state \notin {"PREPARING", "READY"}
      BY <1>0, <1>23, <3>2 DEF ResumePublish, Journals, PublishState
    <3> QED
      BY <3>1, <3>2
  <2> QED
    BY <2>1
<1>24. CASE BuildInventory
  <2>1. pc = "idle" /\ journal'.state \notin Closed /\ pc' = pc /\ UNCHANGED <<files, users, env>>
    BY <1>0, <1>24 DEF BuildInventory, Publish, Shown, Journals
  <2> QED
    BY <2>1
<1>25. CASE StartPublishing
  <2>1. pc = "idle" /\ journal'.state \notin Closed /\ pc' = pc /\ UNCHANGED <<files, users, env>>
    BY <1>0, <1>25 DEF StartPublishing, Publish, Shown, Journals
  <2> QED
    BY <2>1
<1>26. CASE FlushCounters
  <2>1. pc = "idle" /\ journal'.state \notin Closed /\ pc' = pc /\ UNCHANGED <<files, users, env>>
    BY <1>0, <1>26 DEF FlushCounters, Publish, Shown, Journals
  <2> QED
    BY <2>1
<1>27. CASE FinishLoop
  <2>1. pc = "idle" /\ journal'.state \notin Closed /\ pc' = pc /\ UNCHANGED <<files, users, env>>
    BY <1>0, <1>27 DEF FinishLoop, Publish, Shown, Journals
  <2> QED
    BY <2>1
<1>28. CASE FinishVerification
  <2>1. pc = "idle" /\ journal'.state \notin Closed /\ pc' = pc /\ UNCHANGED <<files, users, env>>
    BY <1>0, <1>28 DEF FinishVerification, Publish, Shown, Journals
  <2> QED
    BY <2>1
<1>29. CASE AbandonMigration
  BY <1>0, <1>29 DEF AbandonMigration, Persist, Abandonable, Shown, Journals
<1>30. CASE AbandonErase
  BY <1>0, <1>30 DEF AbandonErase, DiscardNextKeys, Journals
<1>31. CASE RemoteCleanup
  BY <1>0, <1>31 DEF RemoteCleanup, Journals
<1>32. CASE UnlockHold
  BY <1>0, <1>32 DEF UnlockHold, NoUnlock, UnlocksApart, Journals
<1>33. CASE UnlockStore
  BY <1>0, <1>33 DEF UnlockStore, NoUnlock, UnlocksApart, NoUnlock, Journals
<1>34. CASE Lock
  BY <1>0, <1>34 DEF Lock, Journals
<1>35. CASE AdoptInRenderer
  BY <1>0, <1>35 DEF AdoptInRenderer, LoopPromotes, Through, PromotedMirror, Journals
<1>36. CASE \E p \in Newborn : CreateProfile(p)
  BY <1>0, <1>36 DEF CreateProfile, EnsureFEKAvailable, Donors, Completed, Journals
<1>37. CASE OpenProfile
  <2>1. UNCHANGED <<pc, journal, keychain, moved, renderer, adopted, resuming, incRaw>>
    BY <1>37 DEF OpenProfile
  <2>2. pc \in {"clear", "clearMirror", "discard", "done"} \/ Phase = "done"
          => wrapped[Root] = New
    BY DEF LoopPromotes, Through
  <2>3. PICK p \in dirs \ {Root} : EnsureFEKAvailable(p)
    BY <1>37 DEF OpenProfile
  <2>4. \A d \in Loc \ {p} : sealed'[d] = sealed[d]
    BY <2>3 DEF EnsureFEKAvailable
  <2>5. wrapped[Root] = New => sealed'[p] \in {sealed[p], sealed[Root]}
          /\ (sealed[p] # NoKey => sealed'[p] = sealed[p])
    BY <2>3 DEF EnsureFEKAvailable, Donors, Completed
  <2> HIDE DEF Phase
  <2>6. Phase' = Phase
    BY <2>1 DEF Phase
  <2> QED
    BY <2>1, <2>2, <2>3, <2>4, <2>5, <2>6
<1>38. CASE Quit
  BY <1>0, <1>38 DEF Quit, Stop, NoJournal, NoUnlock, DeleteFEKSafe, Journals
<1>39. CASE Crash
  BY <1>0, <1>39 DEF Crash, Stop, NoJournal, NoUnlock, DeleteFEKSafe, Journals
<1>40. CASE Start
  BY <1>0, <1>40 DEF Start, Journals
<1>41. CASE KeychainFlips
  BY <1>0, <1>41 DEF KeychainFlips, Journals
<1>42. CASE UnlockRead \/ SaveFile
  <2>1. UNCHANGED <<keychain, moved, pc, renderer, adopted, resuming, incRaw, journal, sealed>>
    BY <1>42 DEF UnlockRead, SaveFile
  <2> QED
    BY <2>1
<1> QED
  BY <1>1, <1>2, <1>3, <1>4, <1>5, <1>6, <1>7, <1>8, <1>9, <1>10, <1>11, <1>12, <1>13,
     <1>14, <1>15, <1>16, <1>17, <1>18, <1>19, <1>20, <1>21, <1>22, <1>23, <1>24, <1>25,
     <1>26, <1>27, <1>28, <1>29, <1>30, <1>31, <1>32, <1>33, <1>34, <1>35, <1>36, <1>37,
     <1>38, <1>39, <1>40, <1>41, <1>42 DEF Next, SwitchStep, ResumeStep

-----------------------------------------------------------------------------
(***************************************************************************)
(* The two invariants hold of every behaviour.                             *)
(***************************************************************************)
\* Every step keeps the invariant of the screen.
LEMMA ScreenStep ==
    ASSUME OnScreen, TypeOK, SwitchInvariant, ControlInvariant, ScreenInvariant, [Next]_vars
    PROVE  ScreenInvariant'
<1>1. CASE Next
  BY <1>1, AloneStep, FilesStep, LoopStep, ErasesStep, ApartStep, ToldStep
     DEF ScreenInvariant
<1>2. CASE UNCHANGED vars
  BY <1>2 DEF vars, ScreenInvariant, SwitchIsAlone, FilesFollowPhase, Switched, Phase,
     LoopPromotes, Through, PromotedMirror, LoopErases, UnlocksApart, RendererIsTold, Written
<1> QED
  BY <1>1, <1>2

\* A behaviour starts with the published copy proved and nothing under way.
LEMMA ControlStart == Init => ControlInvariant
  BY DEF Init, ControlInvariant, TaskIsAlone, SwitchIsWritten, ResumeIsWritten,
     CycleSuspended, Written, PastPivotSteps, ForeignSteps, LostSteps, AbandonSteps, BackSteps,
     FailSteps

\* It starts with the old key, or none, in every directory.
LEMMA ScreenStart == ASSUME OnScreen, Init PROVE ScreenInvariant
<1>1. \A d \in Loc : wrapped[d] \in {Old, NoKey} /\ sealed[d] = wrapped[d]
  BY DEF Init, OnScreen
<1>2. journal = mj /\ journal.state = "VERIFYING" /\ ~journal.staged
  BY DEF Init, Proved, NoJournal
<1>3. FilesFollowPhase
  BY KeysAssumption, <1>1, <1>2 DEF FilesFollowPhase, Phase
<1>4. SwitchIsAlone
  BY <1>2 DEF Init, SwitchIsAlone, Closed, ForeignSteps, FailSteps, LostSteps, BackSteps
<1>5. LoopPromotes /\ LoopErases
  BY DEF Init, LoopPromotes, LoopErases, SwitchSteps
<1>6. UnlocksApart
  BY <1>2 DEF Init, UnlocksApart, Phase, AbandonSteps
<1>7. RendererIsTold
  BY <1>2 DEF Init, RendererIsTold, SwitchSteps, Phase
<1> QED
  BY <1>3, <1>4, <1>5, <1>6, <1>7 DEF ScreenInvariant

\* The control invariant holds in every state.
LEMMA ControlHolds ==
    ASSUME "early" \notin Gestures PROVE Spec => []ControlInvariant
  BY ControlStart, ControlStep, TypeCorrect, PTL DEF Spec

\* The screen invariant holds in every state, with those it rests on.
LEMMA ScreenHolds ==
    ASSUME OnScreen
    PROVE  Spec => [](TypeOK /\ SwitchInvariant /\ ControlInvariant /\ ScreenInvariant)
<1>1. HeldAtStart = {Old} /\ "early" \notin Gestures
  BY DEF OnScreen
<1> QED
  BY <1>1, ScreenStart, ScreenStep, TypeCorrect, InvariantHolds, ControlHolds, PTL DEF Spec

-----------------------------------------------------------------------------
(***************************************************************************)
(* What follows.                                                           *)
(***************************************************************************)
\* While the engine holds a live migration the ordinary cycle is suspended: no
\* restart, rollback or failed write of the journal lets it run in between.
THEOREM SuspensionTheorem ==
    ASSUME "early" \notin Gestures PROVE Spec => []EngineSuspendsCycle
<1>1. ControlInvariant => EngineSuspendsCycle
  BY DEF ControlInvariant, CycleSuspended, EngineSuspendsCycle, Live
<1> QED
  BY <1>1, ControlHolds, PTL

\* A key file is written over past the pivot only.
LEMMA OverwriteStep ==
    ASSUME TypeOK, ControlInvariant, Next
    PROVE  (\E d \in Loc : wrapped[d] \notin {NoKey, wrapped'[d]})
             => journal.state = "SWITCHING" /\ journal.staged
<1> USE KeysAssumption DEF ControlInvariant, TaskIsAlone, SwitchIsWritten, ResumeIsWritten,
        Written, PastPivotSteps, ForeignSteps, LostSteps, AbandonSteps, BackSteps,
        FailSteps, files, task, engine, loop, users, env, Fault, TypeOK, FilesTypeOK
<1>0. mj \in Journals /\ journal \in Journals
  BY DEF TypeOK, ControlTypeOK
<1>1. CASE PromoteWrapped
  BY <1>0, <1>1 DEF PromoteWrapped, Journals
<1>2. CASE \E p \in Newborn : CreateProfile(p)
  BY <1>0, <1>2 DEF CreateProfile, EnsureFEKAvailable, Donors, Completed, Journals
<1>3. CASE OpenProfile
  BY <1>0, <1>3 DEF OpenProfile, EnsureFEKAvailable, Donors, Completed, Journals
<1>4. CASE CommitKeySwitch \/ RetainOldKey \/ PlanSwitch \/ StageNextKeys \/ Pivot
            \/ PromoteMirror \/ RecordPromoted \/ RelocateProfiles \/ AdoptInMemory
            \/ FinishErase \/ FinishDone \/ Settle \/ ResumeClosed \/ ResumeForeign
            \/ ForeignErase \/ WriteAbandoned \/ ResumeWithoutKey \/ LostDiscard
            \/ ResumeSwitch \/ Rollback \/ FailSwitch \/ ResumePublish
            \/ BuildInventory \/ StartPublishing \/ FlushCounters \/ FinishLoop
            \/ FinishVerification \/ AbandonMigration \/ AbandonErase
            \/ RemoteCleanup \/ UnlockRead \/ UnlockHold \/ UnlockStore \/ Lock
            \/ AdoptInRenderer \/ SaveFile \/ Quit \/ Crash \/ Start \/ KeychainFlips
  <2>1. UNCHANGED wrapped
    BY <1>4 DEF CommitKeySwitch, RetainOldKey, PlanSwitch, StageNextKeys, Pivot,
       PromoteMirror, RecordPromoted, RelocateProfiles, AdoptInMemory, FinishErase,
       FinishDone, Settle, ResumeClosed, ResumeForeign, ForeignErase, WriteAbandoned,
       ResumeWithoutKey, LostDiscard, ResumeSwitch, Rollback, FailSwitch, ResumePublish,
       BuildInventory, StartPublishing, FlushCounters, FinishLoop, FinishVerification,
       AbandonMigration, AbandonErase, RemoteCleanup, UnlockRead, UnlockHold, UnlockStore,
       Lock, AdoptInRenderer, SaveFile, Quit, Crash, Start, KeychainFlips, Persist,
       ClearIncoming, DiscardNextKeys, OpenEngine, Publish, Stop
  <2> QED
    BY <2>1
<1> QED
  BY <1>1, <1>2, <1>3, <1>4 DEF Next, SwitchStep, ResumeStep

\* An existing key file is overwritten only while the journal on disk says the
\* switch is past its pivot, also by a start that finds another story on disk.
THEOREM OverwriteTheorem ==
    ASSUME "early" \notin Gestures PROVE Spec => OverwriteOnlyPastPivot
<1>1. TypeOK /\ ControlInvariant /\ [Next]_vars
        => [(\E d \in Loc : wrapped[d] \notin {NoKey, wrapped'[d]})
              => journal.state = "SWITCHING" /\ journal.staged]_vars
  BY OverwriteStep
<1> QED
  BY <1>1, ControlHolds, TypeCorrect, PTL DEF Spec, OverwriteOnlyPastPivot

\* Outside SWITCHING and DONE no directory carries the account's key: what a
\* rollback, a failure or an abandon leaves is the device as it was.
THEOREM NothingPromotedTheorem ==
    ASSUME OnScreen PROVE Spec => []NothingPromotedOutsideSwitch
<1>1. ScreenInvariant => NothingPromotedOutsideSwitch
  BY DEF ScreenInvariant, FilesFollowPhase, Phase, NothingPromotedOutsideSwitch
<1> QED
  BY <1>1, ScreenHolds, PTL

\* DONE is only written when every directory carries the account's key, no mirror
\* another one, and nothing of the incoming key is left, however many crashes and
\* failed writes came before.
THEOREM DoneTheorem ==
    ASSUME OnScreen PROVE Spec => []DoneMeansSwitched
<1>1. ScreenInvariant => DoneMeansSwitched
  BY DEF ScreenInvariant, FilesFollowPhase, Switched, Phase, DoneMeansSwitched
<1> QED
  BY <1>1, ScreenHolds, PTL

\* Past the pivot a restart always finds the account's key: as the incoming
\* material, or in the root it was promoted to first.
THEOREM MaterialTheorem ==
    ASSUME OnScreen PROVE Spec => []MaterialKept
<1>1. ScreenInvariant => MaterialKept
  BY DEF ScreenInvariant, FilesFollowPhase, Phase, MaterialKept
<1> QED
  BY <1>1, ScreenHolds, PTL

\* After DONE the renderer seals nothing more under the old key, once it has
\* handled the event, if the keychain stayed open and there is a mirror to read.
THEOREM RendererTheorem ==
    ASSUME OnScreen PROVE Spec => []RendererFollows
<1>1. ScreenInvariant => RendererFollows
  BY DEF ScreenInvariant, RendererIsTold, Phase, RendererFollows
<1> QED
  BY <1>1, ScreenHolds, PTL

\* A finished switch is not written over.
LEMMA FinalStep ==
    ASSUME OnScreen, TypeOK, SwitchInvariant, ControlInvariant, ScreenInvariant, Next
    PROVE  journal.state = "DONE" => journal'.state \in {"DONE", "NONE"}
<1> USE KeysAssumption DEF OnScreen, ScreenInvariant, SwitchIsAlone, Closed,
        ControlInvariant, TaskIsAlone, SwitchIsWritten, ResumeIsWritten, Written,
        PastPivotSteps, ForeignSteps, LostSteps, AbandonSteps, BackSteps, FailSteps, files,
        task, engine, loop, users, env, Fault
<1>0. mj \in Journals /\ journal \in Journals
  BY DEF TypeOK, ControlTypeOK
<1>1. CASE PlanSwitch
  BY <1>0, <1>1 DEF PlanSwitch, Persist, Journals
<1>2. CASE Pivot
  BY <1>0, <1>2 DEF Pivot, Persist, Journals
<1>3. CASE RecordPromoted
  BY <1>0, <1>3 DEF RecordPromoted, Persist, Journals
<1>4. CASE FinishDone
  BY <1>0, <1>4 DEF FinishDone, Persist, LoopPromotes, Through, Journals
<1>5. CASE ResumeClosed
  BY <1>0, <1>5 DEF ResumeClosed, NoJournal, Journals
<1>6. CASE WriteAbandoned
  BY <1>0, <1>6 DEF WriteAbandoned, Journals
<1>7. CASE Rollback
  BY <1>0, <1>7 DEF Rollback, DiscardNextKeys, Persist, Journals
<1>8. CASE FailSwitch
  BY <1>0, <1>8 DEF FailSwitch, DiscardNextKeys, Persist, Journals
<1>9. CASE ResumePublish
  <2>1. journal.state \notin Closed
    BY <1>9 DEF ResumePublish
  <2> QED
    BY <2>1
<1>10. CASE BuildInventory
  BY <1>0, <1>10 DEF BuildInventory, Publish, Shown, Journals
<1>11. CASE StartPublishing
  BY <1>0, <1>11 DEF StartPublishing, Publish, Shown, Journals
<1>12. CASE FlushCounters
  BY <1>0, <1>12 DEF FlushCounters, Publish, Journals
<1>13. CASE FinishLoop
  BY <1>0, <1>13 DEF FinishLoop, Publish, Journals
<1>14. CASE FinishVerification
  BY <1>0, <1>14 DEF FinishVerification, Publish, Journals
<1>15. CASE AbandonMigration
  BY <1>0, <1>15 DEF AbandonMigration, Persist, Abandonable, Shown, Journals
<1>16. CASE RemoteCleanup
  BY <1>0, <1>16 DEF RemoteCleanup, Journals
<1>17. CASE CommitKeySwitch \/ RetainOldKey \/ StageNextKeys \/ PromoteWrapped
            \/ PromoteMirror \/ RelocateProfiles \/ AdoptInMemory \/ FinishErase
            \/ Settle \/ ResumeForeign \/ ForeignErase \/ ResumeWithoutKey
            \/ LostDiscard \/ ResumeSwitch \/ AbandonErase \/ UnlockRead
            \/ UnlockHold \/ UnlockStore \/ Lock \/ AdoptInRenderer \/ SaveFile
            \/ (\E p \in Newborn : CreateProfile(p)) \/ OpenProfile \/ Quit \/ Crash
            \/ Start \/ KeychainFlips
  <2>1. UNCHANGED journal
    BY <1>17 DEF CommitKeySwitch, RetainOldKey, StageNextKeys, PromoteWrapped,
       PromoteMirror, RelocateProfiles, AdoptInMemory, FinishErase, Settle, ResumeForeign,
       ForeignErase, ResumeWithoutKey, LostDiscard, ResumeSwitch, AbandonErase, UnlockRead,
       UnlockHold, UnlockStore, Lock, AdoptInRenderer, SaveFile, CreateProfile,
       OpenProfile, Quit, Crash, Start, KeychainFlips, ClearIncoming, DiscardNextKeys,
       OpenEngine, EnsureFEKAvailable, Stop
  <2> QED
    BY <2>1
<1> QED
  BY <1>1, <1>2, <1>3, <1>4, <1>5, <1>6, <1>7, <1>8, <1>9, <1>10, <1>11, <1>12, <1>13,
     <1>14, <1>15, <1>16, <1>17 DEF Next, SwitchStep, ResumeStep

\* DONE is terminal until its receipt is purged: no writer holds an older journal.
THEOREM FinalTheorem ==
    ASSUME OnScreen PROVE Spec => DoneIsFinal
<1>1. TypeOK /\ SwitchInvariant /\ ControlInvariant /\ ScreenInvariant /\ [Next]_vars
        => [journal.state = "DONE" => journal'.state \in {"DONE", "NONE"}]_vars
  BY FinalStep DEF vars
<1> QED
  BY <1>1, ScreenHolds, PTL DEF Spec, DoneIsFinal

\* The abstract switch sees the phase, the wrapped keys and whether Old is kept.
LEMMA AtomicStutter ==
    ASSUME Phase' = Phase, UNCHANGED <<dirs, wrapped, retired>>
    PROVE  UNCHANGED Atomic!vars
  BY DEF Atomic!vars

\* A wrapped key that becomes the account's is a promotion, or already was one.
LEMMA AtomicPromote ==
    ASSUME TypeOK, Phase = "committed", Phase' = Phase, UNCHANGED <<dirs, retired>>,
           NEW l \in dirs, wrapped' = [wrapped EXCEPT ![l] = New]
    PROVE  [Atomic!Next]_Atomic!vars
<1>1. {d \in dirs : wrapped'[d] = New} = {d \in dirs : wrapped[d] = New} \cup {l}
  BY DEF TypeOK, FilesTypeOK
<1>2. CASE wrapped[l] = New
  BY <1>1, <1>2 DEF Atomic!vars
<1>3. CASE wrapped[l] # New
  BY <1>1, <1>3 DEF Atomic!Next, Atomic!Promote
<1> QED
  BY <1>2, <1>3

\* Every step is one of the atomic switch, or none it sees.
LEMMA AtomicStep ==
    ASSUME OnScreen, TypeOK, SwitchInvariant, ControlInvariant, ScreenInvariant, [Next]_vars
    PROVE  [Atomic!Next]_Atomic!vars
<1> USE KeysAssumption DEF OnScreen, ScreenInvariant, SwitchIsAlone, Closed,
        ControlInvariant, TaskIsAlone, SwitchIsWritten, ResumeIsWritten, Written,
        PastPivotSteps, ForeignSteps, LostSteps, AbandonSteps, BackSteps, FailSteps, files,
        task, engine, loop, users, env, Fault
<1>0. mj \in Journals /\ journal \in Journals
  BY DEF TypeOK, ControlTypeOK
<1>1. CASE RetainOldKey
  <2>1. UNCHANGED <<journal, dirs, wrapped>> /\ (retired' = retired \/ retired' = retired \cup {oldRaw})
    BY <1>1 DEF RetainOldKey, Retained
  <2>2. Phase' = Phase
    BY <2>1 DEF Phase
  <2>3. CASE (Old \in retired') = (Old \in retired)
    BY <2>1, <2>2, <2>3 DEF Atomic!vars
  <2>4. CASE Old \in retired' /\ Old \notin retired
    BY <2>1, <2>2, <2>4 DEF Atomic!Next, Atomic!Keep
  <2> QED
    BY <2>1, <2>3, <2>4
<1>2. CASE PlanSwitch
  <2>1. CASE journal' = [mj EXCEPT !.state = "SWITCHING", !.staged = FALSE, !.promoted = {}]
    <3>1. Phase = "old" /\ Phase' = "armed" /\ UNCHANGED <<dirs, wrapped, retired>>
      BY <1>0, <1>2, <2>1 DEF PlanSwitch, Phase, Journals
    <3>2. Old \in retired
      BY <1>2 DEF PlanSwitch, SwitchInvariant, RetainedFirst, AfterRetention
    <3> QED
      BY <3>1, <3>2 DEF Atomic!Next, Atomic!Arm
  <2>2. CASE journal' = journal
    <3>1. Phase' = Phase /\ UNCHANGED <<dirs, wrapped, retired>>
      BY <1>2, <2>2 DEF PlanSwitch, Phase
    <3> QED
      BY <3>1, AtomicStutter
  <2> QED
    BY <1>2, <2>1, <2>2 DEF PlanSwitch, Persist
<1>3. CASE Pivot
  <2>1. CASE journal' = [mj EXCEPT !.staged = TRUE]
    <3>1. Phase = "armed" /\ Phase' = "committed" /\ UNCHANGED <<dirs, wrapped, retired>>
      BY <1>0, <1>3, <2>1 DEF Pivot, Phase, Journals
    <3> QED
      BY <3>1 DEF Atomic!Next, Atomic!Commit
  <2>2. CASE journal' = journal
    <3>1. Phase' = Phase /\ UNCHANGED <<dirs, wrapped, retired>>
      BY <1>3, <2>2 DEF Pivot, Phase
    <3> QED
      BY <3>1, AtomicStutter
  <2> QED
    BY <1>3, <2>1, <2>2 DEF Pivot, Persist
<1>4. CASE PromoteWrapped
  <2>1. Phase = "committed" /\ Phase' = Phase /\ UNCHANGED <<dirs, retired>>
    BY <1>4 DEF PromoteWrapped, Phase
  <2>2. wrapped' = wrapped \/ \E l \in dirs : wrapped' = [wrapped EXCEPT ![l] = New]
    BY <1>4 DEF PromoteWrapped, SwitchInvariant, WithinDirs, TypeOK, FilesTypeOK
  <2> QED
    BY <2>1, <2>2, AtomicPromote, AtomicStutter
<1>5. CASE RecordPromoted
  <2>1. Phase' = Phase /\ UNCHANGED <<dirs, wrapped, retired>>
    BY <1>0, <1>5 DEF RecordPromoted, Persist, Phase, Journals
  <2> QED
    BY <2>1, AtomicStutter
<1>6. CASE FinishDone
  <2>1. CASE journal' = [mj EXCEPT !.state = "DONE"]
    <3>1. Phase = "committed" /\ Phase' = "done" /\ UNCHANGED <<dirs, wrapped, retired>>
      BY <1>0, <1>6, <2>1 DEF FinishDone, Phase, Journals
    <3>2. \A d \in dirs : wrapped[d] = New
      BY <1>6 DEF FinishDone, LoopPromotes, Through
    <3> QED
      BY <3>1, <3>2 DEF Atomic!Next, Atomic!Finish
  <2>2. CASE journal' = journal
    <3>1. Phase' = Phase /\ UNCHANGED <<dirs, wrapped, retired>>
      BY <1>6, <2>2 DEF FinishDone, Phase
    <3> QED
      BY <3>1, AtomicStutter
  <2> QED
    BY <1>6, <2>1, <2>2 DEF FinishDone, Persist
<1>7. CASE ResumeClosed
  <2>1. Phase' = Phase /\ UNCHANGED <<dirs, wrapped, retired>>
    BY <1>0, <1>7 DEF ResumeClosed, NoJournal, Phase, Journals
  <2> QED
    BY <2>1, AtomicStutter
<1>8. CASE WriteAbandoned
  <2>1. /\ journal.state \notin Closed /\ journal'.state \notin Closed
        /\ UNCHANGED <<dirs, wrapped, retired>>
    BY <1>0, <1>8 DEF WriteAbandoned, Journals
  <2> QED
    BY <2>1, AtomicStutter DEF Phase
<1>9. CASE Rollback
  <2>1. CASE journal' = journal
    <3>1. Phase' = Phase /\ UNCHANGED <<dirs, wrapped, retired>>
      BY <1>9, <2>1 DEF Rollback, DiscardNextKeys, Phase
    <3> QED
      BY <3>1, AtomicStutter
  <2>2. CASE journal' = [mj EXCEPT !.state = "PUBLISHING", !.promoted = {}] /\ pc = "rollback"
    <3>1. Phase = "armed" /\ Phase' = "old" /\ UNCHANGED <<dirs, wrapped, retired>>
      BY <1>0, <1>9, <2>2 DEF Rollback, DiscardNextKeys, Phase, Journals
    <3> QED
      BY <3>1 DEF Atomic!Next, Atomic!CallOff
  <2> QED
    BY <1>9, <2>1, <2>2 DEF Rollback, DiscardNextKeys, Persist
<1>10. CASE FailSwitch
  <2> QED
    BY <1>10 DEF FailSwitch, DiscardNextKeys
<1>11. CASE ResumePublish
  <2>1. /\ journal.state \notin Closed /\ journal'.state \notin Closed
        /\ UNCHANGED <<dirs, wrapped, retired>>
    <3>1. CASE journal.state \in {"PREPARING", "READY"}
      BY <1>0, <1>11, <3>1 DEF ResumePublish, Journals
    <3>2. CASE journal.state \notin {"PREPARING", "READY"}
      BY <1>0, <1>11, <3>2 DEF ResumePublish, Journals, PublishState
    <3> QED
      BY <3>1, <3>2
  <2> QED
    BY <2>1, AtomicStutter DEF Phase
<1>12. CASE BuildInventory
  <2>1. /\ journal.state \notin Closed /\ journal'.state \notin Closed
        /\ UNCHANGED <<dirs, wrapped, retired>>
    BY <1>0, <1>12 DEF BuildInventory, Publish, Shown, Journals
  <2> QED
    BY <2>1, AtomicStutter DEF Phase
<1>13. CASE StartPublishing
  <2>1. /\ journal.state \notin Closed /\ journal'.state \notin Closed
        /\ UNCHANGED <<dirs, wrapped, retired>>
    BY <1>0, <1>13 DEF StartPublishing, Publish, Shown, Journals
  <2> QED
    BY <2>1, AtomicStutter DEF Phase
<1>14. CASE FlushCounters
  <2>1. /\ journal.state \notin Closed /\ journal'.state \notin Closed
        /\ UNCHANGED <<dirs, wrapped, retired>>
    BY <1>0, <1>14 DEF FlushCounters, Publish, Shown, Journals
  <2> QED
    BY <2>1, AtomicStutter DEF Phase
<1>15. CASE FinishLoop
  <2>1. /\ journal.state \notin Closed /\ journal'.state \notin Closed
        /\ UNCHANGED <<dirs, wrapped, retired>>
    BY <1>0, <1>15 DEF FinishLoop, Publish, Shown, Journals
  <2> QED
    BY <2>1, AtomicStutter DEF Phase
<1>16. CASE FinishVerification
  <2>1. /\ journal.state \notin Closed /\ journal'.state \notin Closed
        /\ UNCHANGED <<dirs, wrapped, retired>>
    BY <1>0, <1>16 DEF FinishVerification, Publish, Shown, Journals
  <2> QED
    BY <2>1, AtomicStutter DEF Phase
<1>17. CASE AbandonMigration
  <2>1. /\ journal.state \notin Closed /\ journal'.state \notin Closed
        /\ UNCHANGED <<dirs, wrapped, retired>>
    BY <1>0, <1>17 DEF AbandonMigration, Persist, Abandonable, Shown, Journals
  <2> QED
    BY <2>1, AtomicStutter DEF Phase
<1>18. CASE RemoteCleanup
  <2>1. Phase' = Phase /\ UNCHANGED <<dirs, wrapped, retired>>
    BY <1>0, <1>18 DEF RemoteCleanup, Phase, Journals
  <2> QED
    BY <2>1, AtomicStutter
<1>19. CASE \E p \in Newborn : CreateProfile(p)
  BY <1>0, <1>19 DEF CreateProfile, EnsureFEKAvailable, Donors, Completed, Journals
<1>20. CASE OpenProfile
  <2>1. Phase' = Phase /\ UNCHANGED <<dirs, retired>>
    BY <1>20 DEF OpenProfile, Phase
  <2>2. PICK p \in dirs : EnsureFEKAvailable(p)
    BY <1>20 DEF OpenProfile
  <2>3. \/ wrapped' = wrapped
        \/ \E d \in dirs : wrapped[p] = NoKey /\ wrapped' = [wrapped EXCEPT ![p] = wrapped[d]]
    BY <2>2 DEF EnsureFEKAvailable, Donors, Completed, TypeOK, FilesTypeOK
  <2>4. CASE \E d \in dirs : wrapped[p] = NoKey /\ wrapped' = [wrapped EXCEPT ![p] = wrapped[d]]
    <3>1. PICK d \in dirs : wrapped[p] = NoKey /\ wrapped' = [wrapped EXCEPT ![p] = wrapped[d]]
      BY <2>4
    <3>2. CASE wrapped[d] = New
      <4>1. Phase = "committed"
        BY KeysAssumption, <3>1, <3>2 DEF FilesFollowPhase, Switched, Phase, TypeOK,
           FilesTypeOK
      <4> QED
        BY <2>1, <3>1, <3>2, <4>1, AtomicPromote
    <3>3. CASE wrapped[d] # New
      <4>1. {e \in dirs : wrapped'[e] = New} = {e \in dirs : wrapped[e] = New}
        BY KeysAssumption, <3>1, <3>3 DEF TypeOK, FilesTypeOK
      <4> QED
        BY <2>1, <4>1 DEF Atomic!vars
    <3> QED
      BY <3>2, <3>3
  <2> QED
    BY <2>1, <2>3, <2>4, AtomicStutter
<1>21. CASE CommitKeySwitch \/ StageNextKeys \/ PromoteMirror \/ RelocateProfiles
            \/ AdoptInMemory \/ FinishErase \/ Settle \/ ResumeForeign
            \/ ForeignErase \/ ResumeWithoutKey \/ LostDiscard \/ ResumeSwitch
            \/ AbandonErase \/ UnlockRead \/ UnlockHold \/ UnlockStore \/ Lock
            \/ AdoptInRenderer \/ SaveFile \/ Quit \/ Crash \/ Start \/ KeychainFlips
  <2>1. UNCHANGED <<journal, wrapped, retired, dirs>>
    BY <1>21 DEF CommitKeySwitch, StageNextKeys, PromoteMirror, RelocateProfiles,
       AdoptInMemory, FinishErase, Settle, ResumeForeign, ForeignErase, ResumeWithoutKey,
       LostDiscard, ResumeSwitch, AbandonErase, UnlockRead, UnlockHold, UnlockStore, Lock,
       AdoptInRenderer, SaveFile, Quit, Crash, Start, KeychainFlips, ClearIncoming,
       DiscardNextKeys, OpenEngine, Stop
  <2> QED
    BY <2>1, AtomicStutter DEF Phase
<1>22. CASE UNCHANGED vars
  BY <1>22, AtomicStutter DEF vars, Phase
<1> QED
  BY <1>1, <1>2, <1>3, <1>4, <1>5, <1>6, <1>7, <1>8, <1>9, <1>10, <1>11, <1>12, <1>13,
     <1>14, <1>15, <1>16, <1>17, <1>18, <1>19, <1>20, <1>21, <1>22
     DEF Next, SwitchStep, ResumeStep

\* The old switch, before anything is kept.
LEMMA AtomicStart == ASSUME OnScreen, Init PROVE Atomic!Init
<1>1. Phase = "old" /\ Old \notin retired /\ dirs \in SUBSET Loc
  BY DEF Init, Proved, NoJournal, Phase
<1>2. {d \in dirs : wrapped[d] = New} = {}
  BY KeysAssumption, <1>1 DEF Init, OnScreen
<1> QED
  BY <1>1, <1>2 DEF Atomic!Init

\* The code's switch is AtomicSwitch's: its pivot is the commit point, across
\* crashes at any disk operation, failed writes and restarts.
THEOREM RefinementTheorem ==
    ASSUME OnScreen PROVE Spec => Atomic!Spec
<1>1. OnScreen /\ Init => Atomic!Init
  BY AtomicStart
<1> QED
  BY <1>1, AtomicStep, ScreenHolds, PTL DEF Spec, Atomic!Spec

\* No directory has the account's key unless the switch was committed and the old
\* key kept, and a finished switch has it everywhere.
THEOREM AllOrNothingTheorem ==
    ASSUME OnScreen PROVE Spec => []Atomic!AllOrNothing
<1> DEFINE KeptFirst == Phase # "old" => Old \in retired
<1>1. Atomic!Init => Atomic!AllOrNothing /\ KeptFirst
  BY DEF Atomic!Init, Atomic!AllOrNothing
<1>2. ASSUME Atomic!AllOrNothing, KeptFirst, [Atomic!Next]_Atomic!vars
      PROVE  Atomic!AllOrNothing' /\ KeptFirst'
  BY <1>2 DEF Atomic!AllOrNothing, Atomic!Next, Atomic!vars, Atomic!Keep, Atomic!Arm,
     Atomic!CallOff, Atomic!Commit, Atomic!Promote, Atomic!Finish
<1> HIDE DEF KeptFirst
<1> QED
  BY <1>1, <1>2, RefinementTheorem, PTL DEF Atomic!Spec
=============================================================================
