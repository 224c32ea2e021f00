------------------------------ MODULE KeySwitch ------------------------------
(***************************************************************************)
(* The key switch of the "publish this vault on the account" migration     *)
(* (electron/publish): keySwitch.ts, the switch side of publishEngine.ts,  *)
(* journalMachine.ts, retiredKey.ts and incomingFek.ts.                    *)
(*                                                                         *)
(* The vault key is replicated: FilarData/ (Root) and every profile        *)
(* directory hold a wrapped_fek.json (here wrapped) and a .fek_safe mirror *)
(* (here sealed) that the loaders prefer.  The migration replaces the key  *)
(* by the account's in every directory; local bytes are never re-encrypted *)
(* so the key they were sealed under has to survive.  The process may die  *)
(* between any two disk operations, a write may fail, the OS keychain      *)
(* comes and goes.  The journal on disk says how the next start resumes.   *)
(*                                                                         *)
(* The behaviours start where the published copy has been proved (journal  *)
(* VERIFYING) and end when the migration is DONE or ABANDONED.  Publishing *)
(* again after a rollback, a failure or a restart is a background task     *)
(* (bg) of four steps here; PublishLoop has what happens inside them.      *)
(***************************************************************************)
EXTENDS Naturals, FiniteSets

CONSTANTS
    Loc,            \* FilarData/ and the profile directories there may be
    Root,           \* FilarData/ itself
    Active,         \* StorageService.getBaseDir(): the open profile
    Keys,           \* vault keys
    NoKey,          \* "no such file", "no key in memory"
    New,            \* the account's key
    Old,            \* the key of the open profile
    HeldAtStart,    \* keys the directories may hold when the switch starts
    MirrorAtStart,  \* was .incoming_fek_safe written? (a subset of BOOLEAN)
    Accounts,       \* what getMe may answer at start: "own", "other", "offline"
    Gestures,       \* what the user may do beyond a commit of a proved VERIFYING
                    \* at rest: "again" (commit a journal that says SWITCHING),
                    \* "early" (commit while the task resumed at start-up runs),
                    \* "unlock" (open the vault while the switch runs)
    Newborn,        \* profile directories that may be created meanwhile
    KeychainMoves,  \* may the OS keychain come and go?
    EnhancedLock,   \* values the "enhanced lock" setting may have when we quit
    MaxFaults       \* bound: crashes, failed writes, keychain moves

ASSUME KeysAssumption ==
    /\ Root \in Loc /\ Active \in Loc
    /\ Old \in Keys /\ New \in Keys /\ Old # New /\ NoKey \notin Keys
    /\ HeldAtStart \subseteq Keys \ {New}
    /\ MirrorAtStart \subseteq BOOLEAN
    /\ Newborn \subseteq Loc
    /\ KeychainMoves \in BOOLEAN
    /\ EnhancedLock \subseteq BOOLEAN
    /\ MaxFaults \in Nat

VARIABLES
    \* --- disk ---
    dirs,       \* directories that exist
    wrapped,    \* wrapped_fek.json of each directory
    sealed,     \* .fek_safe of each directory
    nextW,      \* directories with a wrapped_fek.json.next
    nextS,      \* directories with a .fek_safe.next
    incW,       \* incoming_fek.json exists
    incS,       \* .incoming_fek_safe exists
    retired,    \* keys in .retired_fek_safe, kept for reading
    journal,    \* publish-journal.json
    content,    \* keys that some local byte is sealed under
    remote,     \* the account holds published objects of this migration
    \* --- memory of the main process ---
    pc,         \* the await the switch is at; "off" when the process is dead
    mj,         \* state.journal, the copy in memory
    bg,         \* the publishing task: "none", "inventory", "start", "loop", "verify"
    cleaning,   \* runRemoteCleanup is running
    activeFek,  \* state.activeFek
    incRaw,     \* state.incomingFek holds the account's key
    locs,       \* keyLocations() as read when the operation began
    todo,       \* locations the loop at pc has not handled yet
    cur,        \* location being promoted
    mirror,     \* material.sealed # null
    oldRaw,     \* the key retainOldKey will keep
    resuming,   \* the switch is run by resumeOnStartup, not by a commit
    session,    \* sessionKeyStore
    suspended,  \* syncService.publishSuspended
    \* --- renderer ---
    renderer,   \* its own copy of the vault key
    adopted,    \* a publish:key-adopted event it has not handled yet
    unlock,     \* the unlock in progress
    \* --- environment ---
    keychain,   \* safeStorage.isEncryptionAvailable()
    faults,
    moved       \* history: the keychain has come or gone

files   == <<dirs, wrapped, sealed, nextW, nextS, incW, incS, retired>>
task    == <<bg, remote, cleaning>>
engine  == <<activeFek, incRaw, locs, mirror, oldRaw, resuming>>
loop    == <<todo, cur>>
users   == <<session, renderer, adopted, unlock, content>>
env     == <<keychain, faults, moved>>

vars == <<dirs, wrapped, sealed, nextW, nextS, incW, incS, retired, journal,
          content, remote, pc, mj, bg, cleaning, activeFek, incRaw, locs, todo,
          cur, mirror, oldRaw, resuming, session, suspended, renderer, adopted,
          unlock, keychain, faults, moved>>

PublishState == {"NONE", "PREPARING", "READY", "PUBLISHING", "VERIFYING",
                 "SWITCHING", "DONE", "FAILED", "ABANDONED"}

\* proof stands for the counters, blockers and verify fields canSwitch reads.
Journals == [state : PublishState, proof : BOOLEAN,
             staged : BOOLEAN, promoted : SUBSET Loc]

\* An unlock reads a key file, holds the key, and after a password stores it.
Unlocks  == [at : {"none", "read", "store"}, key : Keys \cup {NoKey}, password : BOOLEAN]
NoUnlock == [at |-> "none", key |-> NoKey, password |-> FALSE]

NoJournal == [state |-> "NONE", proof |-> FALSE, staged |-> FALSE, promoted |-> {}]
Proved    == [NoJournal EXCEPT !.state = "VERIFYING", !.proof = TRUE]

SwitchSteps == {"retain", "plan", "stage", "pivot", "retainAgain", "promote",
                "promoteMirror", "record", "relocate", "adopt", "clear",
                "clearMirror", "discard", "done", "settle"}
OtherSteps  == {"off", "boot", "idle", "rollbackDiscard", "rollback",
                "failDiscard", "fail",
                "foreignClear", "foreignClearMirror", "foreignDiscard", "foreignWrite",
                "lostDiscard", "lostWrite",
                "abandonDiscard", "abandonClear", "abandonClearMirror"}

Steps       == SwitchSteps \cup OtherSteps
Tasks       == {"none", "inventory", "start", "loop", "verify"}

FilesTypeOK ==
    /\ dirs \subseteq Loc /\ Root \in dirs /\ Active \in dirs
    /\ wrapped \in [Loc -> Keys \cup {NoKey}] /\ sealed \in [Loc -> Keys \cup {NoKey}]
    /\ nextW \subseteq Loc /\ nextS \subseteq Loc
    /\ incW \in BOOLEAN /\ incS \in BOOLEAN
    /\ retired \subseteq Keys

ControlTypeOK ==
    /\ journal \in Journals /\ mj \in Journals
    /\ pc \in Steps /\ bg \in Tasks
    /\ remote \in BOOLEAN /\ cleaning \in BOOLEAN

EngineTypeOK ==
    /\ activeFek \in Keys \cup {NoKey} /\ oldRaw \in Keys \cup {NoKey}
    /\ locs \subseteq Loc /\ todo \subseteq Loc /\ cur \in Loc
    /\ incRaw \in BOOLEAN /\ mirror \in BOOLEAN /\ resuming \in BOOLEAN
    /\ suspended \in BOOLEAN

UsersTypeOK ==
    /\ session \in Keys \cup {NoKey} /\ renderer \in Keys \cup {NoKey}
    /\ content \subseteq Keys
    /\ adopted \in BOOLEAN /\ unlock \in Unlocks
    /\ keychain \in BOOLEAN /\ faults \in 0..MaxFaults /\ moved \in BOOLEAN

TypeOK == FilesTypeOK /\ ControlTypeOK /\ EngineTypeOK /\ UsersTypeOK

-----------------------------------------------------------------------------
\* journalMachine.isOrdinarySyncSuspended; no journal suspends nothing.
Live(state) == state \notin {"NONE", "DONE", "ABANDONED"}

\* The screen shows the state last written: persist notifies it after the write.
Shown == journal.state

\* journalMachine.canSwitch, and the commits the screen offers.
CanSwitch == mj.state \in {"VERIFYING", "SWITCHING"} /\ mj.proof
Offered ==
    /\ Shown = "VERIFYING" \/ "again" \in Gestures
    /\ bg = "none" \/ "early" \in Gestures

(***************************************************************************)
(* loadFEKForPairing: the mirror in the base directory, else the root's,   *)
(* and nothing without the keychain.  At start-up no profile may be open   *)
(* yet: the base directory is then the root.                               *)
(***************************************************************************)
LoadActiveFek(base) ==
    IF ~keychain THEN NoKey
    ELSE IF sealed[base] # NoKey THEN sealed[base] ELSE sealed[Root]

\* loadIncomingFekRaw needs the keychain and the mirror of the incoming key.
IncomingRaw == keychain /\ incS

(***************************************************************************)
(* ensureFEKAvailable(dir): when a key file is missing, copy what is       *)
(* missing from the first directory that holds either file, the root       *)
(* first (single-account devices).  A stale file is never replaced.        *)
(***************************************************************************)
Donors(dir) ==
    LET holders == {d \in dirs \ {dir} : wrapped[d] # NoKey \/ sealed[d] # NoKey}
    IN  IF Root \in holders THEN {Root} ELSE holders

Completed(own, donor) == IF own = NoKey THEN donor ELSE own

EnsureFEKAvailable(dir) ==
    IF Donors(dir) = {} THEN UNCHANGED <<wrapped, sealed>>
    ELSE \E d \in Donors(dir) :
           /\ wrapped' = [wrapped EXCEPT ![dir] = Completed(@, wrapped[d])]
           /\ sealed'  = [sealed  EXCEPT ![dir] = Completed(@, sealed[d])]

-----------------------------------------------------------------------------
(***************************************************************************)
(* Where the behaviours start: beginMigration stored the incoming key and  *)
(* suspended the ordinary cycle, the loop published, the proof passed.     *)
(***************************************************************************)
Init ==
    /\ dirs \in {D \in SUBSET Loc : {Root, Active} \subseteq D}
    /\ \E held \in [Loc -> HeldAtStart \cup {NoKey}] :
         /\ held[Active] = Old
         /\ \A l \in Loc \ dirs : held[l] = NoKey
         /\ wrapped = held /\ sealed = held
         /\ content = {held[l] : l \in dirs} \ {NoKey}
    /\ nextW = {} /\ nextS = {}
    /\ incW = TRUE /\ incS \in MirrorAtStart
    /\ retired = {}
    /\ journal = Proved /\ mj = Proved
    /\ pc = "idle" /\ bg = "none" /\ cleaning = FALSE /\ remote = TRUE
    /\ activeFek = Old /\ incRaw = TRUE
    /\ locs = {} /\ todo = {} /\ cur = Root
    /\ mirror = FALSE /\ oldRaw = NoKey /\ resuming = FALSE
    /\ session = Old /\ renderer = Old /\ adopted = FALSE /\ unlock = NoUnlock
    /\ suspended = TRUE
    /\ keychain = TRUE /\ faults = 0 /\ moved = FALSE

-----------------------------------------------------------------------------
(***************************************************************************)
(* A disk operation may throw: the engine is idle again, the exception is  *)
(* reported, and what memory already said stays as it is.  persist changes *)
(* the copy in memory before it tries to write it.                         *)
(***************************************************************************)
Fault == faults < MaxFaults /\ faults' = faults + 1
         /\ UNCHANGED <<keychain, moved>>

Persist(j, next) ==
    /\ mj' = j
    /\ \/ journal' = j /\ pc' = next /\ UNCHANGED env
       \/ journal' = journal /\ pc' = "idle" /\ Fault

\* commitKeySwitch, up to the call of performSwitch.
CommitKeySwitch ==
    /\ pc = "idle" /\ CanSwitch /\ Offered
    /\ renderer # NoKey /\ unlock = NoUnlock
    /\ incRaw /\ incW
    /\ locs' = dirs
    /\ mirror' = incS
    /\ oldRaw' = IF activeFek # NoKey THEN activeFek ELSE LoadActiveFek(Active)
    /\ resuming' = FALSE
    /\ pc' = "retain"
    /\ UNCHANGED <<files, journal, mj, task, activeFek, incRaw, loop, users,
                   suspended, env>>

\* The ring of retired keys grows; a resume with no key to keep goes on.
\* Mutant: the ring is written anew with the key just retired.
MutRetained(ring, key) == {key}
Retained(ring, key) == ring \cup {key}
\* Mutant: a commit goes on when it has no key to keep.
MutMayGoWithout == oldRaw = NoKey \/ ~keychain
MayGoWithout == oldRaw = NoKey /\ resuming

\* keyLocations() of the moment the operation began.
\* Mutant: the locations are the root and the open profile.
MutToPromote == {Root, Active}
ToPromote == locs

(***************************************************************************)
(* S0, and S0 again at the head of finishSwitch.  retainRetiredKey throws  *)
(* without the keychain, a commit throws when it has no key to keep.       *)
(***************************************************************************)
RetainOldKey ==
    /\ pc \in {"retain", "retainAgain"}
    /\ LET next == IF pc = "retain" THEN "plan" ELSE "promote"
       IN  \/ /\ oldRaw # NoKey /\ keychain
              /\ retired' = Retained(retired, oldRaw) /\ pc' = next
           \/ MayGoWithout /\ pc' = next /\ UNCHANGED retired
           \/ /\ (oldRaw = NoKey \/ ~keychain) /\ ~MayGoWithout
              /\ pc' = "idle" /\ UNCHANGED retired
    /\ todo' = ToPromote
    /\ UNCHANGED <<dirs, wrapped, sealed, nextW, nextS, incW, incS, journal, mj,
                   task, engine, cur, users, suspended, env>>

\* S1: the journal says SWITCHING, nothing staged, nothing promoted.
PlanSwitch ==
    /\ pc = "plan"
    /\ Persist([mj EXCEPT !.state = "SWITCHING", !.staged = FALSE, !.promoted = {}],
               "stage")
    /\ UNCHANGED <<files, task, engine, loop, users, suspended>>

\* S2: the incoming material under the .next names, one directory at a time.
StageNextKeys ==
    /\ pc = "stage" /\ todo # {}
    /\ \E l \in todo :
         \/ /\ nextW' = nextW \cup {l}
            /\ nextS' = IF mirror THEN nextS \cup {l} ELSE nextS
            /\ todo' = todo \ {l}
            /\ pc' = IF todo = {l} THEN "pivot" ELSE "stage"
            /\ UNCHANGED env
         \/ /\ pc' = "idle" /\ Fault
            /\ nextW' \in {nextW, nextW \cup {l}}
            /\ UNCHANGED <<nextS, todo>>
    /\ UNCHANGED <<dirs, wrapped, sealed, incW, incS, retired, journal, mj, task,
                   engine, cur, users, suspended>>

\* S3: the pivot.
\* Mutant: the incoming key is erased at the pivot.
MutPivotErasing ==
    /\ pc = "pivot"
    /\ Persist([mj EXCEPT !.staged = TRUE], "retainAgain")
    /\ incW' = FALSE
    /\ UNCHANGED <<dirs, wrapped, sealed, nextW, nextS, incS, retired, task, engine,
                   loop, users, suspended>>
\* Mutant: the pivot is not written to disk.
MutPivotUnwritten ==
    /\ pc = "pivot" /\ pc' = "retainAgain"
    /\ mj' = [mj EXCEPT !.staged = TRUE]
    /\ UNCHANGED <<files, journal, task, engine, loop, users, suspended, env>>
Pivot ==
    /\ pc = "pivot"
    /\ Persist([mj EXCEPT !.staged = TRUE], "retainAgain")
    /\ UNCHANGED <<files, task, engine, loop, users, suspended>>

(***************************************************************************)
(* S4, promoteLocation, the root first.  The .next file is renamed over    *)
(* the active one, or the active one is rewritten from the material: both  *)
(* leave the account's key.  The mirror follows, and is deleted when the   *)
(* material has none.                                                      *)
(***************************************************************************)
PromoteWrapped ==
    /\ pc = "promote" /\ todo # {}
    /\ \E l \in IF Root \in todo THEN {Root} ELSE todo :
         \/ /\ wrapped' = [wrapped EXCEPT ![l] = New]
            /\ nextW' = nextW \ {l}
            /\ cur' = l
            /\ todo' = todo \ {l}
            /\ pc' = "promoteMirror"
            /\ UNCHANGED env
         \/ pc' = "idle" /\ Fault /\ UNCHANGED <<wrapped, nextW, loop>>
    /\ UNCHANGED <<dirs, sealed, nextS, incW, incS, retired, journal, mj, task,
                   engine, users, suspended>>

\* Mutant: the old mirror stays when there is no new one.
MutPromotedMirror(own) == IF mirror THEN New ELSE own
PromotedMirror(own) == IF mirror THEN New ELSE NoKey

PromoteMirror ==
    /\ pc = "promoteMirror"
    /\ \/ /\ sealed' = [sealed EXCEPT ![cur] = PromotedMirror(@)]
          /\ nextS' = IF mirror THEN nextS \ {cur} ELSE nextS
          /\ pc' = "record"
          /\ UNCHANGED env
       \/ mirror /\ pc' = "idle" /\ Fault /\ UNCHANGED <<sealed, nextS>>
    /\ UNCHANGED <<dirs, wrapped, nextW, incW, incS, retired, journal, mj, task,
                   engine, loop, users, suspended>>

\* journal.switch.promoted, written once per location.
RecordPromoted ==
    /\ pc = "record"
    /\ LET next == IF todo = {} THEN "relocate" ELSE "promote"
       IN  IF cur \in mj.promoted
           THEN pc' = next /\ UNCHANGED <<journal, mj, env>>
           ELSE Persist([mj EXCEPT !.promoted = @ \cup {cur}], next)
    /\ UNCHANGED <<files, task, engine, loop, users, suspended>>

\* relocateProfiles: whole directories are renamed, with the keys in them.
RelocateProfiles ==
    /\ pc = "relocate"
    /\ \/ pc' = "adopt" /\ UNCHANGED env
       \/ pc' = "idle" /\ Fault
    /\ UNCHANGED <<files, journal, mj, task, engine, loop, users, suspended>>

(***************************************************************************)
(* S4b: the session key becomes the account's and the renderer is told; a  *)
(* resume that could not read the incoming key clears the session and      *)
(* tells nobody.  The event is lost when the window is not loaded yet.     *)
(***************************************************************************)
\* Mutant: the renderer is never told.
MutKeyAdopted == {adopted}
KeyAdopted ==
    IF ~incRaw THEN {adopted} ELSE IF renderer # NoKey THEN {TRUE} ELSE {adopted, TRUE}

AdoptInMemory ==
    /\ pc = "adopt"
    /\ session' = IF incRaw THEN New ELSE NoKey
    /\ adopted' \in KeyAdopted
    /\ pc' = "clear"
    /\ UNCHANGED <<files, journal, mj, task, engine, loop, suspended, renderer,
                   unlock, content, env>>

(***************************************************************************)
(* clearIncomingFek: two unlinks, wrapped first.  discardNextKeys: the     *)
(* .next files of every location; unlink errors are swallowed.             *)
(***************************************************************************)
ClearIncoming(at, between, after) ==
    /\ \/ pc = at /\ incW' = FALSE /\ pc' = between /\ UNCHANGED incS
       \/ pc = between /\ incS' = FALSE /\ pc' = after /\ UNCHANGED incW
    /\ UNCHANGED <<dirs, wrapped, sealed, nextW, nextS, retired, journal, mj, task,
                   activeFek, locs, mirror, oldRaw, resuming, cur, users, suspended,
                   env>>

DiscardNextKeys(at, after) ==
    /\ pc = at
    /\ IF todo = {} THEN pc' = after /\ UNCHANGED <<nextW, nextS, todo>>
       ELSE \E l \in todo :
              /\ nextW' = nextW \ {l} /\ nextS' = nextS \ {l}
              /\ todo' = todo \ {l}
              /\ UNCHANGED pc
    /\ UNCHANGED <<dirs, wrapped, sealed, incW, incS, retired, journal, mj, task,
                   engine, cur, users, suspended, env>>

\* S5: only now is the incoming material erased.
FinishErase ==
    \/ /\ ClearIncoming("clear", "clearMirror", "discard")
       /\ todo' = locs /\ UNCHANGED incRaw
    \/ DiscardNextKeys("discard", "done")

\* S6.
FinishDone ==
    /\ pc = "done"
    /\ Persist([mj EXCEPT !.state = "DONE"], "settle")
    /\ UNCHANGED <<files, task, engine, loop, users, suspended>>

\* What commitKeySwitch and resumeOnStartup do once the switch has returned.
Settle ==
    /\ pc = "settle"
    /\ suspended' = (resuming /\ Live(mj.state))
    /\ incRaw' = (resuming /\ incRaw)
    /\ pc' = "idle"
    /\ UNCHANGED <<files, journal, mj, task, activeFek, locs, mirror, oldRaw,
                   resuming, loop, users, env>>
-----------------------------------------------------------------------------
(***************************************************************************)
(* resumeOnStartup.  It runs while the window opens, before any unlock is  *)
(* required; getMe answers over the network in between.                    *)
(***************************************************************************)
Foreign(me) == journal.state # "DONE" /\ me = "other"

\* The engine state of a resumed migration.
\* Mutant: a resume does not suspend the ordinary cycle.
MutOpenEngine(base) ==
    /\ mj' = journal
    /\ activeFek' = LoadActiveFek(base)
    /\ incRaw' = IncomingRaw
    /\ UNCHANGED suspended
OpenEngine(base) ==
    /\ mj' = journal
    /\ activeFek' = LoadActiveFek(base)
    /\ incRaw' = IncomingRaw
    /\ suspended' = Live(journal.state)

\* No journal, or one that is DONE: leftovers go, or the receipt does.
ResumeClosed ==
    /\ pc = "boot"
    /\ \/ /\ journal.state = "NONE"
          /\ nextW' = {} /\ nextS' = {} /\ UNCHANGED journal
       \/ /\ journal.state = "DONE"
          /\ journal' \in {journal, NoJournal} /\ UNCHANGED <<nextW, nextS>>
    /\ pc' = "idle"
    /\ UNCHANGED <<dirs, wrapped, sealed, incW, incS, retired, mj, task, engine, loop,
                   users, suspended, env>>

\* The migration of another account: erase, discard, then write ABANDONED.
ResumeForeign ==
    /\ pc = "boot" /\ journal.state # "NONE"
    /\ \E me \in Accounts : Foreign(me)
    /\ pc' = "foreignClear"
    /\ UNCHANGED <<files, journal, mj, task, engine, loop, users, suspended, env>>

ForeignErase ==
    \/ /\ ClearIncoming("foreignClear", "foreignClearMirror", "foreignDiscard")
       /\ todo' = dirs /\ UNCHANGED incRaw
    \/ DiscardNextKeys("foreignDiscard", "foreignWrite")

\* Foreign and lost migrations are closed without an engine state.
WriteAbandoned ==
    /\ pc \in {"foreignWrite", "lostWrite"}
    /\ \/ journal' = [journal EXCEPT !.state = "ABANDONED"] /\ UNCHANGED env
       \/ UNCHANGED journal /\ Fault
    /\ pc' = "idle"
    /\ UNCHANGED <<files, mj, task, engine, loop, users, suspended>>

\* The incoming key cannot be read: unavailable for now, or really gone.
ResumeWithoutKey ==
    /\ pc = "boot"
    /\ journal.state \notin {"NONE", "DONE", "SWITCHING"}
    /\ \E me \in Accounts : ~Foreign(me)
    /\ ~IncomingRaw
    /\ IF ~keychain \/ incW
       THEN suspended' = Live(journal.state) /\ pc' = "idle" /\ UNCHANGED todo
       ELSE pc' = "lostDiscard" /\ todo' = dirs /\ UNCHANGED suspended
    /\ UNCHANGED <<files, journal, mj, task, engine, cur, users, env>>

LostDiscard == DiscardNextKeys("lostDiscard", "lostWrite")

\* decideSwitchResume: the pivot decides, and the root when the key is gone.
\* Mutant: the promoted list decides, not the pivot.
MutSwitchDecision == IF journal.promoted = {} THEN "rollback" ELSE "forward"
SwitchDecision ==
    IF ~journal.staged THEN "rollback"
    ELSE IF incW THEN "forward"
    ELSE IF wrapped[Root] = New THEN "promote-from-root" ELSE "fail"

ResumeSwitch ==
    /\ pc = "boot" /\ journal.state = "SWITCHING"
    /\ \E me \in Accounts : ~Foreign(me)
    /\ \E base \in {Root, Active} :
         OpenEngine(base) /\ oldRaw' = LoadActiveFek(base)
    /\ locs' = dirs /\ todo' = dirs
    /\ mirror' = (incW /\ incS)
    /\ resuming' = TRUE
    /\ pc' = CASE SwitchDecision = "rollback" -> "rollbackDiscard"
               [] SwitchDecision = "fail" -> "failDiscard"
               [] OTHER -> "retainAgain"
    /\ UNCHANGED <<files, journal, task, cur, users, env>>

Rollback ==
    \/ DiscardNextKeys("rollbackDiscard", "rollback")
    \/ /\ pc = "rollback"
       /\ Persist([mj EXCEPT !.state = "PUBLISHING", !.promoted = {}], "settle")
       /\ UNCHANGED <<files, task, engine, loop, users, suspended>>

FailSwitch ==
    \/ DiscardNextKeys("failDiscard", "fail")
    \/ /\ pc = "fail"
       /\ Persist([mj EXCEPT !.state = "FAILED"], "settle")
       /\ UNCHANGED <<files, task, engine, loop, users, suspended>>

\* decideResume for the other states.
ResumePublish ==
    /\ pc = "boot"
    /\ journal.state \notin {"NONE", "DONE", "SWITCHING"}
    /\ \E me \in Accounts : ~Foreign(me)
    /\ IncomingRaw
    /\ \E base \in {Root, Active} :
         /\ activeFek' = LoadActiveFek(base)
         /\ incRaw' = TRUE
         /\ suspended' = Live(journal.state)
    /\ CASE journal.state \in {"PREPARING", "READY"} ->
              /\ mj' = [journal EXCEPT !.state = "PREPARING"] /\ journal' = mj'
              /\ UNCHANGED task
         [] journal.state \in {"PUBLISHING", "VERIFYING"} ->
              /\ mj' = journal /\ UNCHANGED journal
              /\ bg' = "inventory" /\ UNCHANGED <<remote, cleaning>>
         [] journal.state = "FAILED" ->
              mj' = journal /\ UNCHANGED <<journal, task>>
         [] journal.state = "ABANDONED" ->
              /\ mj' = journal /\ UNCHANGED journal
              /\ cleaning' = TRUE /\ UNCHANGED <<bg, remote>>
    /\ pc' = "idle"
    /\ UNCHANGED <<files, locs, mirror, oldRaw, resuming, loop, users, env>>

-----------------------------------------------------------------------------
(***************************************************************************)
(* The publishing task shares the journal object with everything else: it  *)
(* sets the state and writes the whole object back.                        *)
(***************************************************************************)
Publish(state, proof, next) ==
    /\ mj' = [mj EXCEPT !.state = state, !.proof = proof]
    /\ journal' = mj'
    /\ bg' = next
    /\ UNCHANGED <<files, pc, cleaning, engine, loop, users, suspended, env>>

\* buildInventory, by the resumed task or on the screen of the user.
BuildInventory ==
    /\ pc # "off"
    /\ \/ bg = "inventory" /\ Publish("READY", mj.proof, "start")
       \/ /\ bg = "none" /\ pc = "idle" /\ mj.state # "NONE"
          /\ Shown \in {"PREPARING", "READY"}
          /\ Publish("READY", mj.proof, "none")
    /\ UNCHANGED remote

\* startPublishing, from the task or by the buttons of READY and FAILED; only
\* those two states are left for PUBLISHING, and only then is the journal written.
StartPublishing ==
    /\ pc # "off"
    /\ \/ bg = "start"
       \/ bg = "none" /\ pc = "idle" /\ mj.state # "NONE" /\ Shown \in {"READY", "FAILED"}
    /\ \/ mj.state \in {"READY", "FAILED"} /\ Publish("PUBLISHING", mj.proof, "loop")
       \/ /\ mj.state \notin {"READY", "FAILED"} /\ bg' = "loop"
          /\ UNCHANGED <<files, journal, mj, pc, cleaning, engine, loop, users,
                         suspended, env>>
    /\ UNCHANGED remote

\* runLoop writes the journal with its counters now and then.
FlushCounters ==
    /\ bg = "loop" /\ pc # "off"
    /\ Publish(mj.state, mj.proof, "loop") /\ remote' \in {remote, TRUE}

\* runLoop ends: paused, failed, or everything handled and manifests pushed.
FinishLoop ==
    /\ bg = "loop" /\ pc # "off"
    /\ \/ Publish("READY", mj.proof, "none") /\ remote' \in {remote, TRUE}
       \/ Publish("FAILED", mj.proof, "none") /\ remote' \in {remote, TRUE}
       \/ Publish("VERIFYING", FALSE, "verify") /\ remote' = TRUE

\* runVerification ends.
FinishVerification ==
    /\ bg = "verify" /\ pc # "off"
    /\ \/ Publish(mj.state, TRUE, "none")
       \/ Publish("FAILED", FALSE, "none")
    /\ UNCHANGED remote

(***************************************************************************)
(* abandonMigration, offered in READY and FAILED: write ABANDONED first,   *)
(* then discard and erase, then clean the account in the background.       *)
(***************************************************************************)
\* Mutant: a migration can be abandoned in any state.
MutAbandonable == mj.state # "NONE"
Abandonable == mj.state # "NONE" /\ Shown \in {"READY", "FAILED"}

AbandonMigration ==
    /\ pc = "idle" /\ bg = "none" /\ Abandonable
    /\ Persist([mj EXCEPT !.state = "ABANDONED"], "abandonDiscard")
    /\ todo' = dirs
    /\ UNCHANGED <<files, task, engine, cur, users, suspended>>

AbandonErase ==
    \/ DiscardNextKeys("abandonDiscard", "abandonClear")
    \/ /\ pc = "abandonClear" /\ incW' = FALSE /\ pc' = "abandonClearMirror"
       /\ UNCHANGED <<dirs, wrapped, sealed, nextW, nextS, incS, retired, journal, mj,
                      task, engine, loop, users, suspended, env>>
    \/ /\ pc = "abandonClearMirror" /\ incS' = FALSE /\ pc' = "idle"
       /\ incRaw' = FALSE /\ suspended' = FALSE /\ cleaning' = TRUE
       /\ UNCHANGED <<dirs, wrapped, sealed, nextW, nextS, incW, retired, journal, mj,
                      bg, remote, activeFek, locs, mirror, oldRaw, resuming, loop,
                      users, env>>

\* runRemoteCleanup: the objects are deleted, then the journal is written.
RemoteCleanup ==
    /\ cleaning /\ pc # "off"
    /\ cleaning' = FALSE /\ remote' = FALSE
    /\ journal' = mj
    /\ UNCHANGED <<files, mj, pc, bg, engine, loop, users, suspended, env>>

-----------------------------------------------------------------------------
(***************************************************************************)
(* The user, the renderer and the machine.                                 *)
(***************************************************************************)
\* The vault is opened, from the mirror or by the password: the file is read,
\* the key is derived and held, and after a password it is stored in the mirror.
UnlockRead ==
    /\ pc # "off" /\ renderer = NoKey /\ unlock = NoUnlock
    /\ pc = "idle" \/ "unlock" \in Gestures
    /\ \/ keychain /\ unlock' = [at |-> "read", key |-> sealed[Active], password |-> FALSE]
       \/ unlock' = [at |-> "read", key |-> wrapped[Active], password |-> TRUE]
    /\ unlock'.key # NoKey
    /\ UNCHANGED <<files, journal, mj, pc, task, engine, loop, suspended, session,
                   renderer, adopted, content, env>>

UnlockHold ==
    /\ unlock.at = "read"
    /\ renderer' = unlock.key /\ session' = unlock.key
    /\ unlock' = IF unlock.password THEN [unlock EXCEPT !.at = "store"] ELSE NoUnlock
    /\ UNCHANGED <<files, journal, mj, pc, task, engine, loop, suspended, adopted,
                   content, env>>

UnlockStore ==
    /\ unlock.at = "store"
    /\ sealed' = IF keychain THEN [sealed EXCEPT ![Active] = unlock.key] ELSE sealed
    /\ unlock' = NoUnlock
    /\ UNCHANGED <<dirs, wrapped, nextW, nextS, incW, incS, retired, journal, mj, pc,
                   task, engine, loop, suspended, session, renderer, adopted, content,
                   env>>

Lock ==
    /\ renderer # NoKey
    /\ renderer' = NoKey /\ session' = NoKey
    /\ UNCHANGED <<files, journal, mj, pc, task, engine, loop, suspended, adopted,
                   unlock, content, env>>

\* adoptSwitchedKeyInRenderer: reload from the mirror, keep the copy otherwise.
AdoptInRenderer ==
    /\ adopted
    /\ adopted' = FALSE
    /\ IF keychain /\ sealed[Active] # NoKey
       THEN renderer' = sealed[Active] /\ session' = sealed[Active]
       ELSE UNCHANGED <<renderer, session>>
    /\ UNCHANGED <<files, journal, mj, pc, task, engine, loop, suspended, unlock,
                   content, env>>

\* A file is saved, by the renderer or streamed by the main process.
\* Mutant: a file may be sealed without a key.
MutHeldKeys == {renderer, session}
HeldKeys == {renderer, session} \ {NoKey}

SaveFile ==
    /\ \E k \in HeldKeys : content' = content \cup {k}
    /\ UNCHANGED <<files, journal, mj, pc, task, engine, loop, session, suspended,
                   renderer, adopted, unlock, env>>

\* A profile is created: its directory gets the key of another one.
CreateProfile(p) ==
    /\ pc # "off" /\ p \notin dirs
    /\ dirs' = dirs \cup {p}
    /\ EnsureFEKAvailable(p)
    /\ UNCHANGED <<nextW, nextS, incW, incS, retired, journal, mj, pc, task, engine,
                   loop, users, suspended, env>>

\* deleteFEKSafe: under the enhanced lock quitting wipes the mirrors of the open
\* profile and of the root.
DeleteFEKSafe(lock) ==
    sealed' = [d \in Loc |-> IF lock /\ d \in {Root, Active} THEN NoKey ELSE sealed[d]]

\* The process ends: what is in memory is gone.
Stop ==
    /\ pc' = "off"
    /\ mj' = NoJournal /\ bg' = "none" /\ cleaning' = FALSE
    /\ activeFek' = NoKey /\ incRaw' = FALSE
    /\ locs' = {} /\ todo' = {} /\ cur' = Root
    /\ mirror' = FALSE /\ oldRaw' = NoKey /\ resuming' = FALSE
    /\ session' = NoKey /\ renderer' = NoKey /\ adopted' = FALSE
    /\ unlock' = NoUnlock
    /\ suspended' = FALSE
    /\ UNCHANGED <<dirs, wrapped, nextW, nextS, incW, incS, retired, journal, content,
                   remote>>

\* The user quits; quitting in the middle of the switch counts as a crash.
Quit ==
    /\ pc = "idle" /\ \E lock \in EnhancedLock : DeleteFEKSafe(lock)
    /\ Stop /\ UNCHANGED env
Crash ==
    /\ pc \notin {"off", "idle"} /\ \E lock \in EnhancedLock \cup {FALSE} : DeleteFEKSafe(lock)
    /\ Stop /\ Fault

\* The application starts; the window opens before the resume is over.
Start ==
    /\ pc = "off" /\ pc' = "boot"
    /\ UNCHANGED <<files, journal, mj, task, engine, loop, users, suspended, env>>

\* A profile is opened: reinitialize completes its key files.
OpenProfile ==
    /\ pc # "off"
    /\ \E p \in dirs \ {Root} : EnsureFEKAvailable(p)
    /\ UNCHANGED <<dirs, pc, nextW, nextS, incW, incS, retired, journal, mj, task, engine,
                   loop, users, suspended, env>>

KeychainFlips ==
    /\ KeychainMoves /\ faults < MaxFaults /\ faults' = faults + 1
    /\ keychain' = ~keychain /\ moved' = TRUE
    /\ UNCHANGED <<files, journal, mj, pc, task, engine, loop, users, suspended>>

-----------------------------------------------------------------------------
SwitchStep ==
    \/ RetainOldKey \/ PlanSwitch \/ StageNextKeys \/ Pivot
    \/ PromoteWrapped \/ PromoteMirror \/ RecordPromoted
    \/ RelocateProfiles \/ AdoptInMemory \/ FinishErase \/ FinishDone \/ Settle

ResumeStep ==
    \/ ResumeClosed \/ ResumeForeign \/ ForeignErase \/ WriteAbandoned
    \/ ResumeWithoutKey \/ LostDiscard \/ ResumeSwitch \/ Rollback \/ FailSwitch
    \/ ResumePublish

Next ==
    \/ CommitKeySwitch \/ SwitchStep
    \/ ResumeStep
    \/ BuildInventory \/ StartPublishing \/ FlushCounters \/ FinishLoop \/ FinishVerification
    \/ AbandonMigration \/ AbandonErase \/ RemoteCleanup
    \/ UnlockRead \/ UnlockHold \/ UnlockStore \/ Lock \/ AdoptInRenderer \/ SaveFile
    \/ \E p \in Newborn : CreateProfile(p)
    \/ OpenProfile
    \/ Quit \/ Crash \/ Start \/ KeychainFlips

Spec == Init /\ [][Next]_vars

(***************************************************************************)
(* The process runs what it has started, and the application is started    *)
(* again some day.                                                         *)
(***************************************************************************)
Fairness ==
    /\ WF_vars(SwitchStep) /\ WF_vars(ResumeStep) /\ WF_vars(AbandonErase)
    /\ WF_vars(Start) /\ WF_vars(Quit) /\ WF_vars(AdoptInRenderer)
    /\ WF_vars(RemoteCleanup)

FairSpec == Spec /\ Fairness
-----------------------------------------------------------------------------
(***************************************************************************)
(* What the switch promises.                                               *)
(***************************************************************************)

\* No local byte is ever left without its key: every key something is sealed
\* under is in the retired ring or is still some directory's wrapped key
\* (retiredKey.ts, "the old key is kept").
KeysRecoverable ==
    \A k \in content : k \in retired \/ \E d \in dirs : wrapped[d] = k

\* Once any directory carries the account's key, in either file, the old key is
\* in the ring: S0 comes before every promotion, across crashes and resumes.
OldKeyRetained ==
    (\E d \in Loc : New \in {wrapped[d], sealed[d]}) => Old \in retired

\* Outside SWITCHING and DONE no directory carries the account's key: a rollback,
\* a failure or an abandon leaves the device as it was.
NothingPromotedOutsideSwitch ==
    journal.state \notin {"SWITCHING", "DONE", "NONE"} =>
        \A d \in Loc : New \notin {wrapped[d], sealed[d]}

\* DONE is only written when every directory carries the account's key, no mirror
\* carries another one, and nothing of the incoming key is left.
DoneMeansSwitched ==
    journal.state = "DONE" =>
        /\ \A d \in dirs : wrapped[d] = New /\ sealed[d] \in {New, NoKey}
        /\ ~incW /\ ~incS /\ nextW = {} /\ nextS = {}

\* After DONE, once the renderer has handled what it was sent, it no longer seals
\* new files under the old key, whether the button or a restart finished the switch
\* (publishBridge.adoptSwitchedKeyInRenderer; it can only reload from a mirror, and
\* from none while the keychain is closed).
RendererFollows ==
    ~moved /\ journal.state = "DONE" /\ pc = "idle" /\ ~adopted /\ sealed[Active] # NoKey
        => renderer \in {New, NoKey}

\* The incoming material outlives every location that still needs it.
MaterialKept ==
    journal.state = "SWITCHING" /\ journal.staged =>
        incW \/ wrapped[Root] = New

\* An existing key file is overwritten only while the journal on disk says the
\* switch is past its pivot: the journal decides, never the file system.
OverwriteOnlyPastPivot ==
    [][(\E d \in Loc : wrapped[d] \notin {NoKey, wrapped'[d]})
         => journal.state = "SWITCHING" /\ journal.staged]_vars

\* DONE is terminal until its receipt is purged.
DoneIsFinal ==
    [][journal.state = "DONE" => journal'.state \in {"DONE", "NONE"}]_vars

\* While the engine holds a live migration the ordinary cycle is suspended.
EngineSuspendsCycle == Live(mj.state) => suspended

(***************************************************************************)
(* The switch implements AtomicSwitch: the pivot is its commit point.      *)
(***************************************************************************)
Phase ==
    CASE journal.state = "SWITCHING" -> IF journal.staged THEN "committed" ELSE "armed"
      [] journal.state \in {"DONE", "NONE"} -> "done"
      [] OTHER -> "old"

Atomic == INSTANCE AtomicSwitch WITH
            Place    <- Loc,
            places   <- dirs,
            phase    <- Phase,
            promoted <- {d \in dirs : wrapped[d] = New},
            kept     <- Old \in retired

\* Across crashes, failed writes and restarts the switch is all or nothing: every
\* step of the code is a step of AtomicSwitch or changes nothing it sees, and a
\* switch past its pivot ends with the account's key everywhere.
SwitchIsAtomic == Atomic!FairSpec
=============================================================================
