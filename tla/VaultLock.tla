------------------------------- MODULE VaultLock -------------------------------
(***************************************************************************)
(* The lock of an open vault, between the main process, which holds the    *)
(* session key and the notes in clear, and the window, which holds the     *)
(* account's key, the screen and the text of the last two seconds.         *)
(*                                                                         *)
(*   electron/main.ts             lockVaultFromMain and the IPC handlers   *)
(*   electron/vaultLockState.ts   the gate and those who wait for a report *)
(*   electron/vaultLockGate.ts    the channels the gate closes             *)
(*   src/services/auth/           sessionTeardown.ts, hybridCrypto.ts      *)
(*                                                                         *)
(* The two processes talk over two FIFO pipes.  Left out: profiles, the    *)
(* decoy vault, the temporary copies, quitting, a save that is refused.    *)
(***************************************************************************)
EXTENDS Naturals, Sequences

CONSTANTS
    MaxTexts,     \* bound: versions of the text the user types
    MaxLocks,     \* bound: locks, whoever asks
    MaxUnlocks    \* bound: unlocks

ASSUME BoundsAssumption == {MaxTexts, MaxLocks, MaxUnlocks} \subseteq Nat

VARIABLES
    gate,      \* reported: what the main process believes of the lock
    key,       \* sessionKey is loaded
    clear,     \* the main process keeps the notes in clear for the next delta
    waits,     \* the calls of lockVaultFromMain that await a report
    work,      \* the saves in withNotesLock, first come first served
    disk,      \* the newest text on the disk
    reads,     \* notes:load under way, outside that lock
    up,        \* messages from the window to the main process
    down,      \* messages and answers from the main process to the window
    screen,    \* isLocked in the store
    shown,     \* isLocked as the effect of App.tsx last reported it
    fek,       \* the window holds the account's key
    typed,     \* the newest text in the store
    dirty,     \* the timer of the auto-save is armed
    tears,     \* the teardowns that await the save of this text
    opening,   \* an unlock has installed the key and stores it
    loading,   \* reloads the window waits for
    count      \* locks and unlocks so far

main   == <<gate, key, clear, waits, work, disk, reads>>
window == <<screen, shown, fek, typed, dirty, tears, opening, loading>>
vars   == <<main, up, down, window, count>>

Texts == 0 .. MaxTexts

\* Messages; a report of a lock remembers the text its teardown found.
Up   == [kind : {"set", "erase", "locked", "unlocked", "save", "load"}, text : Texts]
Down == [kind : {"lock", "saved", "loaded"}, text : Texts]

Msg(kind, text) == [kind |-> kind, text |-> text]
Report(state) == Msg(IF state = "locked" THEN "locked" ELSE "unlocked", 0)

\* A vault that asks for its password.
Init ==
    /\ gate = "unknown" /\ key = FALSE /\ clear = FALSE /\ waits = 0
    /\ work = <<>> /\ disk = 0 /\ reads = 0
    /\ up = <<>> /\ down = <<>>
    /\ screen = "locked" /\ shown = "open" /\ fek = FALSE
    /\ typed = 0 /\ dirty = FALSE /\ tears = {} /\ opening = FALSE /\ loading = 0
    /\ count = [locks |-> 0, unlocks |-> 0]

----------------------------------------------------------------------------
(* The main process.                                                        *)

\* clearSessionKey and forgetNotesVault.
Forget == key' = FALSE /\ clear' = FALSE

DisplaysLocked == gate = "shut" \/ (gate = "unknown" /\ ~key)

\* lockVaultFromMain: the gate first, then the waiter, then the request.  The
\* tray and the shortcut wait for the window; the others erase at once.  All but
\* the mini window look at the lock before they call it.
LockFromMain(waiting) ==
    /\ count.locks < MaxLocks
    /\ ~waiting \/ ~DisplaysLocked
    /\ gate' = "shut"
    /\ down' = Append(down, Msg("lock", 0))
    /\ IF waiting THEN waits' = waits + 1 /\ UNCHANGED <<key, clear>>
                  ELSE Forget /\ UNCHANGED waits
    /\ count' = [count EXCEPT !.locks = @ + 1]
    /\ UNCHANGED <<work, disk, reads, up, window>>

\* Mutant: A lock nobody acknowledged is dropped.
MutTimeout ==
    /\ waits > 0
    /\ waits' = waits - 1
    /\ UNCHANGED <<key, clear, gate, work, disk, reads, up, down, window, count>>

\* Three seconds without a report: the secrets leave all the same.
Timeout ==
    /\ waits > 0
    /\ waits' = waits - 1
    /\ Forget
    /\ UNCHANGED <<gate, work, disk, reads, up, down, window, count>>

\* sync:setSessionKey.
SetKey(m) ==
    /\ m.kind = "set"
    /\ key' = TRUE
    /\ gate' = "open"
    /\ UNCHANGED <<clear, waits, work, disk, reads, down>>

\* sync:clearSessionKey.
ClearKey(m) ==
    /\ m.kind = "erase"
    /\ Forget
    /\ gate' = "shut"
    /\ UNCHANGED <<waits, work, disk, reads, down>>

\* Mutant: A report takes a waiter off, whether or not there is one.
MutHearLocked(m) ==
    /\ m.kind = "locked"
    /\ gate' = "shut"
    /\ waits' = waits - 1
    /\ Forget
    /\ UNCHANGED <<work, disk, reads, down>>

\* vault:renderer-lock-state: a lock ends every wait, and with it the secrets.
HearLocked(m) ==
    /\ m.kind = "locked"
    /\ gate' = "shut"
    /\ waits' = 0
    /\ IF waits > 0 THEN Forget ELSE UNCHANGED <<key, clear>>
    /\ UNCHANGED <<work, disk, reads, down>>

HearUnlocked(m) ==
    /\ m.kind = "unlocked"
    /\ gate' = "open"
    /\ UNCHANGED <<key, clear, waits, work, disk, reads, down>>

\* Mutant: The gate closes the saves too.
MutTakeSave(m) ==
    /\ m.kind = "save"
    /\ IF gate = "shut" THEN down' = Append(down, Msg("saved", m.text)) /\ UNCHANGED work
                        ELSE work' = Append(work, m.text) /\ UNCHANGED down
    /\ UNCHANGED <<gate, key, clear, waits, disk, reads>>

\* notes:save and notes:saveDelta: left out of the gate on purpose.
TakeSave(m) ==
    /\ m.kind = "save"
    /\ work' = Append(work, m.text)
    /\ UNCHANGED <<gate, key, clear, waits, disk, reads, down>>

\* notes:load: behind the gate.
TakeLoad(m) ==
    /\ m.kind = "load"
    /\ IF gate = "shut"
       THEN down' = Append(down, Msg("loaded", 0)) /\ UNCHANGED reads
       ELSE reads' = reads + 1 /\ UNCHANGED down
    /\ UNCHANGED <<gate, key, clear, waits, work, disk>>

Receive ==
    /\ up # <<>>
    /\ up' = Tail(up)
    /\ \/ SetKey(Head(up)) \/ ClearKey(Head(up))
       \/ HearLocked(Head(up)) \/ HearUnlocked(Head(up))
       \/ TakeSave(Head(up)) \/ TakeLoad(Head(up))
    /\ UNCHANGED <<window, count>>

\* The file is written, and the vault in clear is kept for the next delta.
SaveEnds ==
    /\ work # <<>>
    /\ disk' = Head(work)
    /\ work' = Tail(work)
    /\ clear' = TRUE
    /\ down' = Append(down, Msg("saved", Head(work)))
    /\ UNCHANGED <<gate, key, waits, reads, up, window, count>>

\* The file is read, and kept in clear as well.
ReadEnds ==
    /\ reads > 0
    /\ reads' = reads - 1
    /\ clear' = TRUE
    /\ down' = Append(down, Msg("loaded", 0))
    /\ UNCHANGED <<gate, key, waits, work, disk, up, window, count>>

----------------------------------------------------------------------------
(* The window.                                                              *)

\* The text changes.  (The screen shows the notes once they are loaded.)
Type ==
    /\ screen = "open" /\ loading = 0
    /\ typed < MaxTexts
    /\ typed' = typed + 1
    /\ dirty' = TRUE
    /\ UNCHANGED <<main, up, down, screen, shown, fek, tears, opening, loading, count>>

\* The two seconds are over, whatever the screen shows.
TimerFires ==
    /\ dirty
    /\ dirty' = FALSE
    /\ up' = Append(up, Msg("save", typed))
    /\ UNCHANGED <<main, down, screen, shown, fek, typed, tears, opening, loading, count>>

\* Mutant: The key is dropped, and the main process is not told.
MutTorn(text, pipe) ==
    /\ fek' = FALSE
    /\ screen' = "locked"
    /\ up' = Append(pipe, Msg("locked", text))

\* The end of forgetSessionSecrets: the key, then the screen, which reports.
Torn(text, pipe) ==
    /\ fek' = FALSE
    /\ screen' = "locked"
    /\ up' = pipe \o <<Msg("erase", 0), Msg("locked", text)>>

\* Mutant: The key leaves before the text that is held back.
MutTear == Torn(typed, up) /\ UNCHANGED <<dirty, tears>>

\* forgetSessionSecrets: the text that is held back first.  With no timer armed
\* the flush has nothing to wait for, whatever is still being written.
Tear ==
    IF dirty
    THEN /\ up' = Append(up, Msg("save", typed))
         /\ dirty' = FALSE
         /\ tears' = tears \union {typed}
         /\ UNCHANGED <<fek, screen>>
    ELSE Torn(typed, up) /\ UNCHANGED <<dirty, tears>>

\* The window locks itself: inactivity, a policy, a logout.
LockFromWindow ==
    /\ screen = "open"
    /\ count.locks < MaxLocks
    /\ Tear
    /\ count' = [count EXCEPT !.locks = @ + 1]
    /\ UNCHANGED <<main, down, shown, typed, opening, loading>>

\* vault:lock-request, whatever the screen shows.
HearRequest(m) ==
    /\ m.kind = "lock"
    /\ Tear
    /\ UNCHANGED loading

\* The answer to a save lets the teardown that awaited it go on.
HearSaved(m) ==
    /\ m.kind = "saved"
    /\ IF m.text \in tears
       THEN Torn(m.text, up) /\ tears' = tears \ {m.text}
       ELSE UNCHANGED <<fek, screen, up, tears>>
    /\ UNCHANGED <<dirty, loading>>

\* The notes replace those of the store, whose marks and timer are reset.
HearLoaded(m) ==
    /\ m.kind = "loaded"
    /\ loading' = loading - 1
    /\ dirty' = FALSE
    /\ UNCHANGED <<fek, screen, up, tears>>

Deliver ==
    /\ down # <<>>
    /\ down' = Tail(down)
    /\ HearRequest(Head(down)) \/ HearSaved(Head(down)) \/ HearLoaded(Head(down))
    /\ UNCHANGED <<main, shown, typed, opening, count>>

\* The effect of App.tsx reports the screen once more.
EffectReports ==
    /\ shown # screen
    /\ shown' = screen
    /\ up' = Append(up, Report(screen))
    /\ UNCHANGED <<main, down, screen, fek, typed, dirty, tears, opening, loading, count>>

\* The password is right: the key is installed and pushed to the main process.
\* (The screen was drawn, and the timer has gone off, before it was typed.)
Unlock ==
    /\ screen = "locked" /\ shown = screen
    /\ ~opening /\ ~dirty
    /\ count.unlocks < MaxUnlocks
    /\ fek' = TRUE
    /\ opening' = TRUE
    /\ up' = Append(up, Msg("set", 0))
    /\ count' = [count EXCEPT !.unlocks = @ + 1]
    /\ UNCHANGED <<main, down, screen, shown, typed, dirty, tears, loading>>

\* The key is stored: the screen opens, reports, and asks for the notes.
UnlockEnds ==
    /\ opening
    /\ opening' = FALSE
    /\ screen' = "open"
    /\ loading' = loading + 1
    /\ up' = up \o <<Msg("unlocked", 0), Msg("load", 0)>>
    /\ UNCHANGED <<main, down, shown, fek, typed, dirty, tears, count>>

MainStep   == LockFromMain(TRUE) \/ LockFromMain(FALSE) \/ Timeout \/ Receive \/ SaveEnds \/ ReadEnds
WindowStep == Type \/ TimerFires \/ LockFromWindow \/ Deliver \/ EffectReports \/ Unlock \/ UnlockEnds
Next       == MainStep \/ WindowStep

\* The main process runs; of the window only the timer is counted on.
Fairness == WF_vars(Timeout) /\ WF_vars(Receive) /\ WF_vars(SaveEnds) /\ WF_vars(TimerFires)

Spec     == Init /\ [][Next]_vars
FairSpec == Spec /\ Fairness

----------------------------------------------------------------------------
(* Properties.                                                              *)

\* Every variable stays in its type.
TypeOK ==
    /\ gate \in {"unknown", "open", "shut"}
    /\ {key, clear, fek, dirty, opening} \subseteq BOOLEAN
    /\ {waits, reads, loading} \subseteq Nat
    /\ work \in Seq(Texts) /\ disk \in Texts
    /\ up \in Seq(Up) /\ down \in Seq(Down)
    /\ {screen, shown} \subseteq {"open", "locked"}
    /\ typed \in Texts /\ tears \subseteq Texts
    /\ count \in [locks : 0 .. MaxLocks, unlocks : 0 .. MaxUnlocks]

\* "Un verrouillage qui n'efface pas serait pire": behind a shut gate the session
\* key is loaded only while a lock is still waiting for the window, whatever
\* locks and unlocks cross one another on the pipes.
NoKeyBehindAShutGate == key /\ gate = "shut" => waits > 0

\* The text is on the disk, or in the main process on its way there.
Handed(text) == disk >= text \/ \E i \in 1 .. Len(work) : work[i] >= text

\* A report of a lock comes after the text its teardown found in the window was
\* handed over: the key the main process then erases leaves nothing behind.
ReportIsProof ==
    up # <<>> /\ Head(up).kind = "locked" => Handed(Head(up).text)

\* The same as the comment of lockVaultFromMain has it: the text is on the disk.
\* Does not hold: the report overtakes the save of the text.
ReportMeansWritten ==
    up # <<>> /\ Head(up).kind = "locked" => disk >= Head(up).text

\* Nothing is under way between the two processes.
Quiet == up = <<>> /\ down = <<>> /\ work = <<>> /\ reads = 0
         /\ waits = 0 /\ tears = {} /\ ~opening /\ ~dirty /\ shown = screen

\* "Un coffre verrouillé ne doit rien laisser derrière lui": once all is quiet
\* behind a shut gate, the main process holds no note in clear.
\* Does not hold: a read or a save under way puts them back after the erasure.
LockedLeavesNothing == Quiet /\ gate = "shut" => ~clear

\* A session that shows itself open holds its key in both processes.
\* Does not hold: a lock between the two steps of an unlock erases both keys, and the
\* unlock then opens the screen all the same.
OpenHasItsKey == Quiet /\ screen = "open" => fek /\ key

\* Whatever becomes of the window, a lock that waits for it ends with the key
\* erased.
LockErases == waits > 0 ~> ~key

\* What was typed reaches the disk, although the vault locks meanwhile.
TypedIsWritten == \A text \in 1 .. MaxTexts : typed >= text ~> disk >= text

=============================================================================
