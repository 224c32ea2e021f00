----------------------------- MODULE NotesVault -----------------------------
(***************************************************************************)
(* The vault of notes in its second format: one object per note and an     *)
(* index that arbitrates without reading a note.  A device writes it from  *)
(* the auto-save of its main process and from the notes cycle; the cloud   *)
(* holds one index and the objects of every device.                        *)
(*                                                                         *)
(*   electron/main.ts                  notes:load, notes:save(Delta)       *)
(*   electron/sync/notesVaultStore.ts  the order of the writes on disk     *)
(*   electron/sync/notesStoreV2.ts     splitVault, mergeIndexes            *)
(*   electron/sync/notesSyncV2.ts      the transfers and the publication   *)
(*   electron/sync/notesCycleV2.ts     the cycle of one device             *)
(*                                                                         *)
(* Left out: the order of the notes, notebooks and templates, images, the  *)
(* bridge to devices of the first format, the expiry of purge stones.      *)
(***************************************************************************)
EXTENDS Naturals, FiniteSets

CONSTANTS
    Devices,      \* the devices of one account
    Notes,        \* identifiers of notes
    First,        \* the notes every device holds from the start
    Layouts,      \* "shared": they are published under one key; "migrated": each
                  \* device brought them over from the first format, under its own
                  \* key, and one of them has published
    Busy,         \* BOOLEAN: may the user save while the cycle of the device runs?
    MaxEdits,     \* bound: versions written in a behaviour
    MaxClock,     \* bound: the clocks the edits are stamped with, device by device
    MaxFaults     \* bound: crashes, failed transfers and unreadable notes

ASSUME SettingsAssumption ==
    /\ Busy \in BOOLEAN
    /\ First \subseteq Notes
    /\ Layouts \subseteq {"shared", "migrated"}
    /\ {MaxEdits, MaxClock, MaxFaults} \subseteq Nat
    /\ MaxClock > 0
    /\ "migrated" \in Layouts => MaxEdits > 0

ASSUME PopulationAssumption ==
    /\ IsFiniteSet(Devices) /\ Devices # {}
    /\ IsFiniteSet(Notes)

VARIABLES
    disk,     \* per device: index.enc
    objs,     \* per device: the note objects beside it
    mem,      \* per device: notesV2State, the clear vault and its index
    save,     \* per device: the save that holds withNotesLock
    cyc,      \* per device: the notes cycle, which takes no lock
    cloud,    \* the published index
    cobjs,    \* the objects in the cloud
    told,     \* per device: notes-updated was sent to the renderer
    written,  \* per note: every version a device began to save
    acked,    \* per note: the newest version whose save was acknowledged
    stone,    \* per note: the newest purge acknowledged
    missed,   \* the notes of which a device once held less than its index says
    count     \* edits, minted object ids and faults so far

history == <<written, acked, stone, missed>>
vars    == <<disk, objs, mem, save, cyc, cloud, cobjs, told, history, count>>

----------------------------------------------------------------------------
(* Data.  A note is what the arbitration reads of it: its clock, whether it *)
(* is in the trash, and a digest that names its text.                       *)

Minted     == Cardinality(Devices \X Notes)  \* keys the notes of the start may take
MaxObjects == Minted + MaxEdits
Objects    == 1 .. MaxObjects
Digests    == 0 .. MaxEdits + 1

NoNote  == [clock |-> 0, dead |-> FALSE, digest |-> 0]
NoEntry == [obj |-> 0, clock |-> 0, dead |-> FALSE, digest |-> 0, synced |-> 0, shape |-> 0]

Version == [clock : 0 .. MaxClock, dead : BOOLEAN, digest : Digests]
Entry   == [obj : 0 .. MaxObjects, clock : 0 .. MaxClock, dead : BOOLEAN,
            digest : Digests, synced : Digests, shape : Digests]
Index   == [notes : [Notes -> Entry], purged : [Notes -> 0 .. MaxClock]]
Vault   == [Notes -> Version]

EmptyIndex == [notes |-> [n \in Notes |-> NoEntry], purged |-> [n \in Notes |-> 0]]
EmptyVault == [n \in Notes |-> NoNote]

Later(a, b) == IF a > b THEN a ELSE b

\* Mutant: At equal clocks the trash wins on both sides.
MutResolveEntry(local, remote) ==
    LET remoteWins ==
            CASE ~local.dead /\ remote.dead -> remote.clock >= local.clock
              [] local.dead /\ ~remote.dead -> remote.clock >= local.clock
              [] OTHER -> \/ remote.clock > local.clock
                          \/ /\ remote.clock = local.clock
                             /\ remote.digest > local.digest
    IN  IF remoteWins THEN "remote" ELSE "local"

\* The winner of a collision: "remote" or "local", seen from one side.
ResolveEntry(local, remote) ==
    LET remoteWins ==
            CASE ~local.dead /\ remote.dead -> remote.clock > local.clock
              [] local.dead /\ ~remote.dead -> remote.clock >= local.clock
              [] OTHER -> \/ remote.clock > local.clock
                          \/ /\ remote.clock = local.clock
                             /\ remote.digest > local.digest
    IN  IF remoteWins THEN "remote" ELSE "local"

\* The digest of an entry: a note whose clock has not moved keeps the published
\* one, unless its local shape is known to have changed.
DigestOf(note, prev) ==
    IF /\ prev # NoEntry /\ prev.clock = note.clock /\ prev.dead = note.dead
       /\ prev.shape = note.digest \/ (prev.shape = 0 /\ prev.synced = prev.digest)
    THEN prev.digest ELSE note.digest

\* Mutant: The ancestor is not carried over to the new index.
MutSplitVault(notes, prev, purged) ==
    [notes |-> [n \in Notes |->
        IF notes[n] = NoNote THEN NoEntry
        ELSE [obj    |-> IF prev.notes[n] = NoEntry THEN count.minted + 1
                         ELSE prev.notes[n].obj,
              clock  |-> notes[n].clock,
              dead   |-> notes[n].dead,
              digest |-> DigestOf(notes[n], prev.notes[n]),
              shape  |-> notes[n].digest]],
     purged |-> purged]

\* The version an entry names.
VersionOf(entry) == [clock |-> entry.clock, dead |-> entry.dead, digest |-> entry.digest]

\* What the store writes for a whole vault: known notes keep their object.
SplitVault(notes, prev, purged) ==
    [notes |-> [n \in Notes |->
        IF notes[n] = NoNote THEN NoEntry
        ELSE [obj    |-> IF prev.notes[n] = NoEntry THEN count.minted + 1
                         ELSE prev.notes[n].obj,
              clock  |-> notes[n].clock,
              dead   |-> notes[n].dead,
              digest |-> DigestOf(notes[n], prev.notes[n]),
              synced |-> prev.notes[n].synced,
              shape  |-> notes[n].digest]],
     purged |-> purged]

\* Mutant: An object is rewritten only when its key is new.
MutRewritten(index, prev) ==
    {n \in Notes : /\ index.notes[n] # NoEntry
                   /\ index.notes[n].obj # prev.notes[n].obj}

\* The objects saveVaultV2 writes, and those it removes once the index is there.
Rewritten(index, prev) ==
    {n \in Notes : /\ index.notes[n] # NoEntry
                   /\ \/ index.notes[n].obj # prev.notes[n].obj
                      \/ index.notes[n].digest # prev.notes[n].digest}
Claimed(index) == {index.notes[n].obj : n \in Notes}

----------------------------------------------------------------------------
(* mergeIndexes: the decision, on the indexes alone.                        *)

Purged(l, r) == [n \in Notes |-> Later(l.purged[n], r.purged[n])]

PurgedOut(l, r) ==
    {n \in Notes : /\ Purged(l, r)[n] > 0
                   /\ ~ Later(l.notes[n].clock, r.notes[n].clock) > Purged(l, r)[n]}

Collides(l, r, n) ==
    l.notes[n] # NoEntry /\ r.notes[n] # NoEntry /\ n \notin PurgedOut(l, r)

\* Mutant: A note the cloud no longer names counts as deleted there.
MutMergedEntry(l, r, n) ==
    LET a == l.notes[n]
        b == r.notes[n]
        kept == IF ResolveEntry(a, b) = "remote" THEN b ELSE a
    IN  IF n \in PurgedOut(l, r) THEN NoEntry
        ELSE IF b = NoEntry THEN (IF a.synced = 0 THEN a ELSE NoEntry)
        ELSE IF a = NoEntry THEN b
        ELSE IF a.digest = b.digest
             THEN [kept EXCEPT !.obj = b.obj, !.synced = kept.digest]
             ELSE [kept EXCEPT !.obj = b.obj]

MergedEntry(l, r, n) ==
    LET a == l.notes[n]
        b == r.notes[n]
        kept == IF ResolveEntry(a, b) = "remote" THEN b ELSE a
    IN  IF n \in PurgedOut(l, r) THEN NoEntry
        ELSE IF b = NoEntry THEN a
        ELSE IF a = NoEntry THEN b
        ELSE IF a.digest = b.digest
             THEN [kept EXCEPT !.obj = b.obj, !.synced = kept.digest]
             ELSE [kept EXCEPT !.obj = b.obj]

Merged(l, r) ==
    [notes |-> [n \in Notes |-> MergedEntry(l, r, n)], purged |-> Purged(l, r)]

ToFetch(l, r) ==
    {n \in Notes \ PurgedOut(l, r) :
        /\ r.notes[n] # NoEntry
        /\ l.notes[n] # NoEntry =>
             /\ l.notes[n].digest # r.notes[n].digest
             /\ ResolveEntry(l.notes[n], r.notes[n]) = "remote"}

ToPush(l, r) ==
    {n \in Notes \ PurgedOut(l, r) :
        /\ l.notes[n] # NoEntry
        /\ r.notes[n] # NoEntry =>
             /\ l.notes[n].digest # r.notes[n].digest
             /\ ResolveEntry(l.notes[n], r.notes[n]) = "local"}

Rekeyed(l, r) == {n \in Notes : Collides(l, r, n) /\ l.notes[n].obj # r.notes[n].obj}

\* What the cloud sees of an index: the ancestor is a memory of the device.
IndexForCloud(index) ==
    [index EXCEPT !.notes = [n \in Notes |->
        [index.notes[n] EXCEPT !.synced = 0, !.shape = 0]]]

SameIndex(a, b) ==
    /\ IndexForCloud(a) = IndexForCloud(b)
    /\ \A n \in Notes : a.notes[n].synced = b.notes[n].synced

----------------------------------------------------------------------------
Idle == [at |-> "idle", local |-> EmptyIndex, remote |-> EmptyIndex,
         fetched |-> EmptyVault, done |-> {}, lost |-> {}, index |-> EmptyIndex,
         changed |-> FALSE]
Free == [at |-> "free", notes |-> EmptyVault, index |-> EmptyIndex]
Shut == [open |-> FALSE, notes |-> EmptyVault, index |-> EmptyIndex]

\* The version of the notes that are there from the start.
Old == [clock |-> 1, dead |-> FALSE, digest |-> 1]

Desk == CHOOSE d \in Devices : TRUE

\* A shared note has one key; each device minted its own for a migrated one.
KeyOf(layout, d, n) ==
    LET key == CHOOSE f \in [Devices \X Notes -> 1 .. Minted] :
                   \A x, y \in Devices \X Notes : f[x] = f[y] => x = y
    IN  key[<<IF layout = "shared" THEN Desk ELSE d, n>>]

EntryOf(layout, d, n, synced) ==
    [obj |-> KeyOf(layout, d, n), clock |-> Old.clock, dead |-> Old.dead,
     digest |-> Old.digest, synced |-> synced, shape |-> 0]

\* One device has published its vault; a migration counts as an edit: it leaves one
\* less of the bound.
Starts(layout) ==
    LET shared   == layout = "shared"
        store(d) == [o \in Objects |->
                       IF \E n \in First : KeyOf(layout, d, n) = o THEN Old ELSE NoNote]
        synced(d) == IF shared \/ d = Desk THEN Old.digest ELSE 0
    IN  /\ disk = [d \in Devices |-> [EmptyIndex EXCEPT !.notes = [n \in Notes |->
                     IF n \in First THEN EntryOf(layout, d, n, synced(d)) ELSE NoEntry]]]
        /\ objs = [d \in Devices |-> store(d)]
        /\ cloud = [EmptyIndex EXCEPT !.notes = [n \in Notes |->
                      IF n \in First THEN EntryOf(layout, Desk, n, 0) ELSE NoEntry]]
        /\ cobjs = store(Desk)
        /\ count = [edits |-> IF shared THEN 0 ELSE 1, minted |-> Minted, faults |-> 0]

Init ==
    /\ \E layout \in Layouts : Starts(layout)
    /\ mem = [d \in Devices |-> Shut]
    /\ save = [d \in Devices |-> Free]
    /\ cyc = [d \in Devices |-> Idle]
    /\ told = [d \in Devices |-> FALSE]
    /\ written = [n \in Notes |-> IF n \in First THEN {Old} ELSE {}]
    /\ acked = [n \in Notes |-> IF n \in First THEN Old ELSE NoNote]
    /\ stone = [n \in Notes |-> 0]
    /\ missed = {}

Fault == /\ count.faults < MaxFaults
         /\ count' = [count EXCEPT !.faults = @ + 1]

----------------------------------------------------------------------------
(* The main process: load and save.                                         *)

\* The vault the disk spells out, without the notes that cannot be read.
LoadVault(d, unread) ==
    [open  |-> TRUE,
     notes |-> [n \in Notes |->
                  IF disk[d].notes[n] = NoEntry \/ n \in unread THEN NoNote
                  ELSE objs[d][disk[d].notes[n].obj]],
     index |-> disk[d]]

\* Notes of which a load finds no object, or one older than the index says.
Behind(d) ==
    {n \in Notes :
        LET entry  == disk[d].notes[n]
            object == objs[d][entry.obj]
        IN  /\ entry # NoEntry
            /\ ~ object.clock > entry.clock
            /\ object # VersionOf(entry)}

\* notes:load, at the start of the app and on notes-updated; the renderer has
\* written what it held back before it asks.
Loads(d, unread) ==
    /\ ~mem[d].open \/ told[d]
    /\ save[d].at = "free"
    /\ mem' = [mem EXCEPT ![d] = LoadVault(d, unread)]
    /\ told' = [told EXCEPT ![d] = FALSE]
    /\ missed' = missed \union unread \union Behind(d)
    /\ UNCHANGED <<disk, objs, save, cyc, cloud, cobjs, written, acked, stone>>

Load(d) == Loads(d, {}) /\ UNCHANGED count

\* A read that fails gives null and the note is left out of the clear vault.
LoadUnreadable(d, n) == disk[d].notes[n] # NoEntry /\ Loads(d, {n}) /\ Fault

\* The auto-save takes the lock and hands the whole new vault to saveVaultV2.
BeginSave(d, notes, purged) ==
    LET index == SplitVault(notes, mem[d].index, purged)
    IN  /\ mem[d].open
        /\ save[d].at = "free"
        /\ Busy \/ cyc[d].at = "idle"
        /\ count.minted < MaxObjects
        /\ save' = [save EXCEPT ![d] = [at |-> "objects", notes |-> notes, index |-> index]]
        /\ UNCHANGED <<disk, objs, mem, cyc, cloud, cobjs, told, acked, stone, missed>>

MintsOne(d, n) == IF mem[d].index.notes[n] = NoEntry THEN 1 ELSE 0

\* A note is created, or edited: it may go to the trash or come out of it.  Its
\* identifier is random, so no two devices create the same note; clocks are only
\* compared note by note, so its first one is 1.
Edit(d, n) ==
    \E clock \in 1 .. MaxClock, dead \in BOOLEAN :
        LET version == [clock |-> clock, dead |-> dead, digest |-> count.edits + 2]
        IN  /\ count.edits < MaxEdits
            /\ mem[d].notes[n] # NoNote \/ (written[n] = {} /\ ~dead /\ clock = 1)
            /\ clock > mem[d].notes[n].clock
            /\ BeginSave(d, [mem[d].notes EXCEPT ![n] = version], mem[d].index.purged)
            /\ written' = [written EXCEPT ![n] = @ \union {version}]
            /\ count' = [count EXCEPT !.edits = @ + 1, !.minted = @ + MintsOne(d, n)]

\* A note is deleted for good: it leaves the vault and a stone is kept.
Purge(d, n) ==
    /\ mem[d].notes[n] # NoNote
    /\ count.edits < MaxEdits
    /\ \E clock \in mem[d].notes[n].clock .. MaxClock :
           BeginSave(d, [mem[d].notes EXCEPT ![n] = NoNote],
                     [mem[d].index.purged EXCEPT ![n] = clock])
    /\ count' = [count EXCEPT !.edits = @ + 1]
    /\ UNCHANGED written

\* The objects first ...
SaveObjects(d) ==
    LET changed == Rewritten(save[d].index, mem[d].index)
    IN  /\ save[d].at = "objects"
        /\ objs' = [objs EXCEPT ![d] = [o \in Objects |->
                      IF \E n \in changed : save[d].index.notes[n].obj = o
                      THEN save[d].notes[CHOOSE n \in changed : save[d].index.notes[n].obj = o]
                      ELSE @[o]]]
        /\ save' = [save EXCEPT ![d].at = "index"]
        /\ UNCHANGED <<disk, mem, cyc, cloud, cobjs, told, history, count>>

\* ... then the index, then the objects the new index no longer claims.  The
\* memory of the main process follows and the renderer is told { ok: true }.
SaveIndex(d) ==
    LET orphans == Claimed(mem[d].index) \ Claimed(save[d].index)
        newest(n) == LET v == save[d].notes[n]
                     IN  IF v # NoNote /\ ResolveEntry(acked[n], v) = "remote"
                         THEN v ELSE acked[n]
    IN  /\ save[d].at = "index"
        /\ disk' = [disk EXCEPT ![d] = save[d].index]
        /\ objs' = [objs EXCEPT ![d] = [o \in Objects |-> IF o \in orphans THEN NoNote ELSE @[o]]]
        /\ mem' = [mem EXCEPT ![d] = [open |-> TRUE, notes |-> save[d].notes,
                                      index |-> save[d].index]]
        /\ save' = [save EXCEPT ![d] = Free]
        /\ acked' = [n \in Notes |-> newest(n)]
        /\ stone' = [n \in Notes |-> Later(stone[n], save[d].index.purged[n])]
        /\ UNCHANGED <<cyc, cloud, cobjs, told, written, missed, count>>

----------------------------------------------------------------------------
(* The notes cycle.  It reads the index once and works on that copy.        *)

Plan(d, Op(_, _)) == Op(cyc[d].local, cyc[d].remote)

\* runNotesCycleV2 starts: the local index, read from the disk, then the remote
\* one; an absent one counts as empty.  (One step: what the others publish
\* between the two reads may as well come before both.)
CycleStart(d) ==
    /\ cyc[d].at = "idle"
    /\ Busy \/ save[d].at = "free"
    /\ cyc' = [cyc EXCEPT ![d] = [Idle EXCEPT !.at = "transfer", !.local = disk[d],
                                             !.remote = cloud]]
    /\ UNCHANGED <<disk, objs, mem, save, cloud, cobjs, told, history, count>>

Handled(d)    == cyc[d].done \union cyc[d].lost
Descended(d)  == cyc[d].at = "transfer" /\ Plan(d, ToFetch) \subseteq Handled(d)
Transferred(d) == Descended(d) /\ Plan(d, ToPush) \subseteq Handled(d)

\* A note goes down, under the key of the cloud.
GetNote(d, n) ==
    LET note == cobjs[Plan(d, Merged).notes[n].obj]
    IN  /\ cyc[d].at = "transfer"
        /\ n \in Plan(d, ToFetch) \ Handled(d)
        /\ cyc' = IF note = NoNote
                  THEN [cyc EXCEPT ![d].lost = @ \union {n}]
                  ELSE [cyc EXCEPT ![d] = [@ EXCEPT !.fetched[n] = note,
                                                    !.done = cyc[d].done \union {n}]]
        /\ UNCHANGED <<disk, objs, mem, save, cloud, cobjs, told, history, count>>

\* Then a note goes up: read from the disk now, under the key it had at the
\* start, and stored under the key of the merged index.
PutNote(d, n) ==
    LET note == objs[d][cyc[d].local.notes[n].obj]
    IN  /\ Descended(d)
        /\ n \in Plan(d, ToPush) \ Handled(d)
        /\ IF note = NoNote
           THEN /\ cyc' = [cyc EXCEPT ![d].lost = @ \union {n}]
                /\ UNCHANGED cobjs
           ELSE /\ cyc' = [cyc EXCEPT ![d].done = @ \union {n}]
                /\ cobjs' = [cobjs EXCEPT ![Plan(d, Merged).notes[n].obj] = note]
        /\ UNCHANGED <<disk, objs, mem, save, cloud, told, history, count>>

\* The network refuses one transfer; the cycle goes on without it.
TransferFails(d, n) ==
    /\ \/ cyc[d].at = "transfer" /\ n \in Plan(d, ToFetch)
       \/ Descended(d) /\ n \in Plan(d, ToPush)
    /\ n \notin Handled(d)
    /\ Fault
    /\ cyc' = [cyc EXCEPT ![d].lost = @ \union {n}]
    /\ UNCHANGED <<disk, objs, mem, save, cloud, cobjs, told, history>>

\* The index for this disk: a note that did not come down keeps our entry, and
\* a transfer that went through is an agreement with the cloud.
LocalIndex(d) ==
    LET merged == Plan(d, Merged)
        absent == cyc[d].lost \intersect Plan(d, ToFetch)
    IN  [merged EXCEPT !.notes = [n \in Notes |->
            IF n \in absent THEN cyc[d].local.notes[n]
            ELSE IF n \in cyc[d].done
                 THEN [merged.notes[n] EXCEPT !.synced = merged.notes[n].digest]
                 ELSE merged.notes[n]]]

\* Mutant: The index is published although a note it cites did not go up.
MutAllPushed(d) == Transferred(d)

\* The index is published when every note it cites went up.  No compare-and-set.
AllPushed(d) == cyc[d].lost \intersect Plan(d, ToPush) = {}

PutIndex(d) ==
    /\ Transferred(d)
    /\ cyc' = [cyc EXCEPT ![d] = [@ EXCEPT
                 !.at = "notes", !.index = LocalIndex(d),
                 !.changed = ~SameIndex(Plan(d, Merged), cyc[d].local) \/ cyc[d].done # {}]]
    /\ cloud' = IF /\ AllPushed(d)
                   /\ IndexForCloud(Plan(d, Merged)) # IndexForCloud(cyc[d].remote)
                THEN IndexForCloud(Plan(d, Merged)) ELSE cloud
    /\ UNCHANGED <<disk, objs, mem, save, cobjs, told, history, count>>

\* A request that throws gives the whole cycle up, before any local write.
CycleFails(d) ==
    /\ Transferred(d)
    /\ Fault
    /\ cyc' = [cyc EXCEPT ![d] = Idle]
    /\ UNCHANGED <<disk, objs, mem, save, cloud, cobjs, told, history>>

\* The notes that came down are written, then those whose key changed are moved.
WriteNotes(d) ==
    LET down == {n \in Plan(d, ToFetch) : n \in cyc[d].done}
    IN  /\ cyc[d].at = "notes"
        /\ objs' = [objs EXCEPT ![d] = [o \in Objects |->
                      IF \E n \in down : cyc[d].index.notes[n].obj = o
                      THEN cyc[d].fetched[CHOOSE n \in down : cyc[d].index.notes[n].obj = o]
                      ELSE @[o]]]
        /\ cyc' = [cyc EXCEPT ![d] = [@ EXCEPT !.at = "rekey", !.done = down]]
        /\ UNCHANGED <<disk, mem, save, cloud, cobjs, told, history, count>>

ToRekey(d) == Plan(d, Rekeyed) \ cyc[d].done

Rekey(d, n) ==
    LET from == cyc[d].local.notes[n].obj
        to   == cyc[d].remote.notes[n].obj
    IN  /\ cyc[d].at = "rekey"
        /\ n \in ToRekey(d)
        /\ IF objs[d][to] # NoNote
           THEN UNCHANGED objs /\ cyc' = [cyc EXCEPT ![d].done = @ \union {n}]
           ELSE IF objs[d][from] = NoNote
           THEN /\ UNCHANGED objs
                /\ cyc' = [cyc EXCEPT ![d] = [@ EXCEPT !.done = cyc[d].done \union {n},
                                                       !.index.notes[n] = NoEntry]]
           ELSE /\ objs' = [objs EXCEPT ![d] = [o \in Objects |->
                             IF o = from THEN NoNote
                             ELSE IF o = to THEN @[from] ELSE @[o]]]
                /\ cyc' = [cyc EXCEPT ![d].done = @ \union {n}]
        /\ missed' = IF mem[d].open \/ NoNote \notin {objs[d][from], objs[d][to]}
                     THEN missed \union {n} ELSE missed
        /\ UNCHANGED <<disk, mem, save, cloud, cobjs, told, written, acked, stone, count>>

\* The index last, as the cycle left it, whatever was saved since it began.
WriteIndex(d) ==
    /\ cyc[d].at = "rekey"
    /\ ToRekey(d) = {}
    /\ disk' = IF cyc[d].changed
               THEN [disk EXCEPT ![d] = cyc[d].index] ELSE disk
    /\ cyc' = [cyc EXCEPT ![d].at = "sweep"]
    /\ UNCHANGED <<objs, mem, save, cloud, cobjs, told, history, count>>

\* Objects that index does not claim are removed, unless a transfer failed.  A
\* note that came down is announced, and the renderer loads the vault again.
Sweep(d) ==
    /\ cyc[d].at = "sweep"
    /\ objs' = IF cyc[d].lost = {}
               THEN [objs EXCEPT ![d] = [o \in Objects |->
                       IF o \in Claimed(cyc[d].index) THEN @[o] ELSE NoNote]]
               ELSE objs
    /\ cyc' = [cyc EXCEPT ![d] = Idle]
    /\ told' = [told EXCEPT ![d] = @ \/ cyc[d].fetched # EmptyVault]
    /\ UNCHANGED <<disk, mem, save, cloud, cobjs, history, count>>

----------------------------------------------------------------------------
\* Notes the index names and no object gives: a move was cut short.
Halfway(d) ==
    {n \in Notes : disk[d].notes[n] # NoEntry /\ objs[d][disk[d].notes[n].obj] = NoNote}

\* The process dies: memory, the save and the cycle are gone.
Crash(d) ==
    /\ mem[d].open \/ cyc[d].at # "idle"
    /\ Fault
    /\ mem' = [mem EXCEPT ![d] = Shut]
    /\ save' = [save EXCEPT ![d] = Free]
    /\ cyc' = [cyc EXCEPT ![d] = Idle]
    /\ told' = [told EXCEPT ![d] = FALSE]
    /\ missed' = missed \union Halfway(d)
    /\ UNCHANGED <<disk, objs, cloud, cobjs, written, acked, stone>>

CycleStep(d) ==
    \/ CycleStart(d) \/ PutIndex(d)
    \/ CycleFails(d) \/ WriteNotes(d) \/ WriteIndex(d) \/ Sweep(d)
    \/ \E n \in Notes : GetNote(d, n) \/ PutNote(d, n) \/ TransferFails(d, n) \/ Rekey(d, n)

MainStep(d) ==
    \/ Load(d) \/ SaveObjects(d) \/ SaveIndex(d)
    \/ \E n \in Notes : LoadUnreadable(d, n) \/ Edit(d, n) \/ Purge(d, n)

Next == \E d \in Devices : MainStep(d) \/ CycleStep(d) \/ Crash(d)

----------------------------------------------------------------------------
(* Properties.                                                              *)

\* Every variable stays in its type.
TypeOK ==
    /\ disk \in [Devices -> Index]
    /\ objs \in [Devices -> [Objects -> Version]]
    /\ mem \in [Devices -> [open : BOOLEAN, notes : Vault, index : Index]]
    /\ save \in [Devices -> [at : {"free", "objects", "index"}, notes : Vault, index : Index]]
    /\ cyc \in [Devices ->
                  [at : {"idle", "transfer", "notes", "rekey", "sweep"},
                   local : Index, remote : Index, fetched : Vault, done : SUBSET Notes,
                   lost : SUBSET Notes, index : Index, changed : BOOLEAN]]
    /\ cloud \in Index
    /\ cobjs \in [Objects -> Version]
    /\ told \in [Devices -> BOOLEAN]
    /\ written \in [Notes -> SUBSET Version]
    /\ acked \in Vault
    /\ stone \in [Notes -> 0 .. MaxClock]
    /\ missed \subseteq Notes
    /\ count \in [edits : 0 .. MaxEdits, minted : 0 .. MaxObjects, faults : 0 .. MaxFaults]

\* Whatever two devices publish over each other and whatever transfer fails, the
\* published index never cites an object the cloud does not hold ("mieux vaut un
\* nuage en retard qu'un nuage qui ment").
PublishedIsFetchable ==
    \A n \in Notes : cloud.notes[n] # NoEntry => cobjs[cloud.notes[n].obj] # NoNote

\* A version of n that wins over v, or v, lies in an object, here or in the cloud.
Held(n, v) ==
    \E w \in written[n] :
        /\ ResolveEntry(w, v) = "local"
        /\ \/ \E o \in Objects : cobjs[o] = w
           \/ \E d \in Devices, o \in Objects : objs[d][o] = w

Safe(n) == acked[n].clock > stone[n] => Held(n, acked[n])

\* The winner among the acknowledged versions of a note is always in an object
\* somewhere, unless the note was purged after it.  Leaves out the notes of which a
\* device is known to hold less than its index says: one it could not read at a load,
\* or read in an older version; one whose key the cycle moved under an open vault, or
\* onto another object, or when the process died.
NewestIsHeld == \A n \in Notes \ missed : Safe(n)

\* "CE MODULE NE PERD JAMAIS DE NOTE": the same, of every note.
NothingIsLost == \A n \in Notes : Safe(n)

\* Two devices that compare their entries for a note name the same winner: none
\* sends its copy to the other in turn for ever.
SidesAgree ==
    \A d, e \in Devices, n \in Notes :
        LET a == disk[d].notes[n]
            b == disk[e].notes[n]
        IN  a.digest # b.digest => (ResolveEntry(a, b) = "remote" <=> ResolveEntry(b, a) = "local")

\* A note leaves the index of a device only behind a purge stone, or while another
\* device names it or holds a stone for it (a save from a memory older than the last
\* cycle).  The cloud is not enough: a device that read it earlier may publish over it.
NothingLeavesUnnamed ==
    [][\A d \in Devices, n \in Notes \ missed :
          LET accounts(index) == \/ index.notes[n] # NoEntry
                                 \/ index.purged[n] >= disk[d].notes[n].clock
          IN  disk[d].notes[n] # NoEntry /\ disk'[d].notes[n] = NoEntry
                => \/ disk'[d].purged[n] >= disk[d].notes[n].clock
                   \/ \E e \in Devices \ {d} : accounts(disk[e])]_vars

Spec == Init /\ [][Next]_vars

=============================================================================
