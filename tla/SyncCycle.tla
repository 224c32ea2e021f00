------------------------------ MODULE SyncCycle ------------------------------
(***************************************************************************)
(* The ordinary synchronisation cycle of the devices of one account        *)
(* (electron/sync): triggerSync of syncService.ts with the merge of        *)
(* syncManifest.ts, the retry queue and the vault watcher.                 *)
(*                                                                         *)
(* A device scans its vault into its manifest, reads the manifest of the   *)
(* account, merges the two, sends or fetches bytes, and publishes its      *)
(* manifest under a compare-and-set on the version.  Bytes are stored      *)
(* before the manifest that announces them, under a key all the devices    *)
(* share; the cycle works on a manifest in memory while the gestures of    *)
(* the user write the one on disk.                                         *)
(*                                                                         *)
(* One element of one profile is followed; kind says which rules it is     *)
(* under.  Times are stamps of one clock, and only their order matters.    *)
(***************************************************************************)
EXTENDS Integers, FiniteSets, Sequences

CONSTANTS
    Devices,    \* the devices of the account
    KindsRun,   \* the kinds of element the followed one may be of
    MidCycle,   \* the kinds the user may write while a cycle runs
    Keeps,      \* the answers the user may give to a conflict: local, remote
    MaxEdits,   \* bound: writes and deletions by the users
    MaxFaults,  \* bound: failed transfers, failed copies, crashes
    MaxClock    \* bound: no gesture and no new cycle from this time on

\* file: an ordinary element of a folder; folder: the metadata.json of a folder;
\* notes: notes.enc, which is merged note by note.
Kinds == {"file", "folder", "notes"}

ASSUME SyncAssumption ==
    /\ IsFiniteSet(Devices)
    /\ KindsRun \subseteq Kinds /\ MidCycle \subseteq Kinds
    /\ Keeps \subseteq {"local", "remote"}
    /\ MaxEdits \in Nat /\ MaxFaults \in Nat /\ MaxClock \in Nat

VARIABLES
    kind,       \* of the element followed
    now,        \* the clock
    \* --- account ---
    cloud,      \* the entry the published manifest has for the element
    store,      \* the bytes stored under its key
    \* --- disk of each device ---
    disk,       \* the bytes of the element
    mtime,      \* when they were written
    manifest,   \* the entry of sync-manifest.json
    current,    \* the version of sync-manifest.json is the one of the account
    queue,      \* sync-queue.json: transfers to try again
    copies,     \* the conflict copies made, in order
    \* --- memory of each device ---
    cyc,        \* the running cycle
    dirty,      \* the watcher saw the file change since it was last hashed
    mine,       \* ownNotesChecksums
    \* --- history ---
    wrote,      \* the edits the users made and did not discard
    sent,       \* the edits that were in bytes sent, or that Resolve declares so
    edits, faults

vars == <<kind, now, cloud, store, disk, mtime, manifest, current, queue, copies,
          cyc, dirty, mine, wrote, sent, edits, faults>>

account == <<cloud, store, current>>
files   == <<disk, mtime, copies>>
memory  == <<cyc, dirty, mine>>
history == <<wrote, edits>>

\* Bytes: the edits they contain and, for a merge sealed anew, its nonce.
Blobs  == [edits : SUBSET (1..MaxEdits), seal : Nat]
NoBlob == [edits |-> {}, seal |-> 0]
\* A conflict copy: of what, when that was written, and the checksum and the syncedAt
\* of the entry it was made under (which no file records: history).
Copies == [bytes : Blobs, at : Nat, sum : Blobs, syn : Nat]

Statuses == {"none", "synced", "pending_upload", "pending_download", "conflict",
             "deleted", "cloud-only"}
\* An entry of a manifest: checksum, updatedAt, syncedAt (0 for null), status.
Entries == [sum : Blobs, upd : Nat, syn : Nat, st : Statuses]
NoEntry == [sum |-> NoBlob, upd |-> 0, syn |-> 0, st |-> "none"]

\* A cycle: where it is, localManifest, remoteManifest, whether the version it read
\* is still the account's, what the merge decided, and whether that was anything.
Cycles == [pc : {"idle", "fetch", "work", "purge", "queue", "save", "sweep"},
           mem : Entries, view : Entries, fresh : BOOLEAN,
           todo : {"none", "upload", "download", "conflict"}, moved : BOOLEAN]
NoCycle == [pc |-> "idle", mem |-> NoEntry, view |-> NoEntry, fresh |-> FALSE,
            todo |-> "none", moved |-> FALSE]

TypeOK ==
    /\ kind \in Kinds /\ now \in Nat
    /\ cloud \in Entries /\ store \in Blobs
    /\ disk \in [Devices -> Blobs] /\ mtime \in [Devices -> Nat]
    /\ manifest \in [Devices -> Entries] /\ current \in [Devices -> BOOLEAN]
    /\ queue \in [Devices -> SUBSET {"upload", "download"}]
    /\ copies \in [Devices -> Seq(Copies)] /\ mine \in [Devices -> SUBSET Blobs]
    /\ cyc \in [Devices -> Cycles] /\ dirty \in [Devices -> BOOLEAN]
    /\ wrote \subseteq 1..MaxEdits /\ sent \subseteq 1..MaxEdits
    /\ edits \in 0..MaxEdits /\ faults \in 0..MaxFaults

\* Devices that are in step on the rest of the vault; the element is new to all.
Init ==
    /\ kind \in KindsRun /\ now = 0
    /\ cloud = NoEntry /\ store = NoBlob
    /\ disk = [d \in Devices |-> NoBlob] /\ mtime = [d \in Devices |-> 0]
    /\ manifest = [d \in Devices |-> NoEntry]
    /\ current = [d \in Devices |-> TRUE]
    /\ queue = [d \in Devices |-> {}] /\ copies = [d \in Devices |-> <<>>]
    /\ cyc = [d \in Devices |-> NoCycle]
    /\ dirty = [d \in Devices |-> FALSE] /\ mine = [d \in Devices |-> {}]
    /\ wrote = {} /\ sent = {} /\ edits = 0 /\ faults = 0

-----------------------------------------------------------------------------
\* Mutant: the clock is set back.
MutStamp == now - 1
Stamp == now + 1
Tick  == now' = Stamp
Fault == faults < MaxFaults /\ faults' = faults + 1

Missing(d) == disk[d] = NoBlob
Put(f, d, x) == [f EXCEPT ![d] = x]
\* The cycle of d goes on at pc with the entry mem in its manifest.
Goes(d, pc, mem) == cyc' = [cyc EXCEPT ![d] = [@ EXCEPT !.pc = pc, !.mem = mem]]

-----------------------------------------------------------------------------
(***************************************************************************)
(* The gestures of the user.                                               *)
(***************************************************************************)
MayTouch == edits < MaxEdits /\ now < MaxClock

\* notifyFileChanged, notifyMetadataChanged: the entry on disk is marked, with no
\* checksum; a running cycle will write over it.
MarkPendingUpload(d) ==
    manifest' = Put(manifest, d, [manifest[d] EXCEPT
        !.sum = NoBlob, !.upd = Stamp, !.st = "pending_upload"])

\* The user writes the element, on top of what the device shows.
Edit(d) ==
    /\ MayTouch /\ Tick
    /\ cyc[d].pc = "idle" \/ kind \in MidCycle
    /\ edits' = edits + 1
    /\ wrote' = wrote \cup {edits'}
    /\ disk' = Put(disk, d, [edits |-> disk[d].edits \cup {edits'}, seal |-> 0])
    /\ mtime' = Put(mtime, d, Stamp) /\ dirty' = Put(dirty, d, TRUE)
    /\ MarkPendingUpload(d)
    /\ UNCHANGED <<kind, account, queue, copies, cyc, mine, sent, faults>>

MarkDeleted(d) ==
    manifest' = IF manifest[d] = NoEntry THEN manifest
                ELSE Put(manifest, d, [manifest[d] EXCEPT !.st = "deleted", !.upd = Stamp])

\* notifyFileDeleted, notifyFolderDeleted.  notes.enc is never deleted.
Delete(d) ==
    /\ MayTouch /\ kind # "notes" /\ ~Missing(d) /\ Tick
    /\ edits' = edits + 1
    /\ wrote' = wrote \ disk[d].edits
    /\ disk' = Put(disk, d, NoBlob) /\ dirty' = Put(dirty, d, TRUE)
    /\ MarkDeleted(d)
    /\ UNCHANGED <<kind, account, mtime, queue, copies, cyc, mine, sent, faults>>

\* resolveConflict: the entry is synced from now on, whatever its checksum, and the
\* local bytes that are kept count as sent; the remote ones are installed.
Resolve(d) ==
    /\ manifest[d].st = "conflict" /\ now < MaxClock /\ Tick
    /\ manifest' = Put(manifest, d, [manifest[d] EXCEPT !.st = "synced", !.syn = Stamp])
    /\ \/ /\ "local" \in Keeps
          /\ sent' = sent \cup disk[d].edits
          /\ UNCHANGED <<disk, mtime, dirty, wrote>>
       \/ /\ "remote" \in Keeps /\ UNCHANGED sent /\ (cloud = NoEntry \/ store # NoBlob)
          /\ wrote' = wrote \ (disk[d].edits \ store.edits)
          /\ IF cloud = NoEntry THEN UNCHANGED <<disk, mtime, dirty>>
             ELSE /\ disk' = Put(disk, d, store) /\ mtime' = Put(mtime, d, Stamp)
                  /\ dirty' = Put(dirty, d, TRUE)
    /\ UNCHANGED <<kind, account, queue, copies, cyc, mine, edits, faults>>

-----------------------------------------------------------------------------
(***************************************************************************)
(* The beginning of a cycle: the scan and the merge.                       *)
(***************************************************************************)
\* conflictsSansCopie: a conflict nobody can settle is given back to the merge.
WithoutPhantom(d, e) ==
    IF e.st = "conflict" /\ copies[d] = <<>> THEN [e EXCEPT !.st = "synced"] ELSE e

\* Mutant: the scan forgets that a conflict is open.
MutKeepsOpenConflict(e, bytes) == FALSE
KeepsOpenConflict(e, bytes) == e.st = "conflict" /\ e.sum = bytes

\* An ordinary element is hashed unless it is known and the watcher saw nothing; the
\* others are compared with their checksum.
Unchanged(d, e) ==
    \/ Missing(d)
    \/ kind = "file" /\ e.st = "synced" /\ e.sum # NoBlob /\ ~dirty[d]
    \/ kind = "file" /\ KeepsOpenConflict(e, disk[d])
    \/ kind # "file" /\ e.sum = disk[d]

\* scanLocalFiles.
Scanned(d) ==
    LET e == WithoutPhantom(d, manifest[d]) IN
    IF Unchanged(d, e) THEN e
    ELSE [sum |-> disk[d], upd |-> mtime[d], st |-> "pending_upload",
          syn |-> IF kind = "file" THEN 0 ELSE e.syn]

\* triggerSync, steps 1 and 1b.
Begin(d) ==
    /\ cyc[d].pc = "idle" /\ now < MaxClock
    /\ manifest' = Put(manifest, d, Scanned(d))
    /\ dirty' = Put(dirty, d, dirty[d] /\ Missing(d))
    /\ Goes(d, "fetch", Scanned(d))
    /\ UNCHANGED <<kind, now, account, files, queue, mine, history, sent, faults>>

LocalMoved(l, r) == IF l.syn # 0 /\ r.syn # 0 THEN l.upd > r.syn
                    ELSE r.syn = 0 /\ (l.syn # 0 \/ l.upd >= r.upd)
RemoteMoved(l, r) == IF l.syn # 0 /\ r.syn # 0 THEN r.upd > l.syn ELSE ~LocalMoved(l, r)

\* hasUnpushedLocalEdits: the local bytes may be the only ones of their kind.
\* Mutant: only an element that was never sent counts.
MutUnpushed(l) == FALSE
Unpushed(l) == l.syn = 0 \/ l.upd > l.syn

\* The entry of the account is the one this device published, or has its bytes.
RemoteIsOurs(d, l, r) == (l.syn # 0 /\ l.syn = r.syn) \/ r.sum \in mine[d]

\* mergeWithRemote.  Where neither side moved nothing is done.
Settled(l, r) ==
    \/ l.st = "deleted" \/ r.st = "deleted"
    \/ l.st = "conflict" /\ kind # "notes"
    \/ l.sum = r.sum /\ (l = NoEntry <=> r = NoEntry)

MergeWithRemote(d, l, r) ==
    IF Settled(l, r) THEN "none"
    ELSE IF r = NoEntry THEN "upload"
    ELSE IF l = NoEntry THEN "download"
    ELSE IF kind = "notes" THEN IF RemoteIsOurs(d, l, r) THEN "upload" ELSE "download"
    ELSE IF RemoteMoved(l, r)
         THEN IF LocalMoved(l, r) \/ Unpushed(l) THEN "conflict" ELSE "download"
    ELSE IF LocalMoved(l, r) THEN "upload" ELSE "none"

\* getManifest: after a 304 the local manifest stands for the account's.
RemoteView(d) ==
    IF ~current[d] THEN cloud
    ELSE IF cyc[d].mem.st \in {"synced", "deleted"} THEN cyc[d].mem ELSE NoEntry

AfterWork(mem) == IF mem.st = "deleted" THEN "purge" ELSE "queue"

\* Steps 2 and 3.
Fetch(d) ==
    /\ cyc[d].pc = "fetch"
    /\ LET todo == MergeWithRemote(d, cyc[d].mem, RemoteView(d)) IN
       cyc' = [cyc EXCEPT ![d] = [@ EXCEPT
           !.view = RemoteView(d), !.fresh = TRUE, !.todo = todo, !.moved = (todo # "none"),
           !.pc = IF todo = "none" THEN AfterWork(cyc[d].mem) ELSE "work"]]
    /\ UNCHANGED <<kind, now, account, files, manifest, queue, dirty, mine, history,
                   sent, faults>>

-----------------------------------------------------------------------------
(***************************************************************************)
(* Steps 4 to 6: the transfers.                                            *)
(***************************************************************************)
\* The bytes of the device replace those of the account, and no version guards them.
Send(d) ==
    /\ store' = disk[d]
    /\ sent' = sent \cup disk[d].edits
    /\ mine' = IF kind = "notes" THEN Put(mine, d, mine[d] \cup {disk[d]}) ELSE mine

Enqueue(d, item) == queue' = Put(queue, d, queue[d] \cup {item})

\* uploadFile.
Upload(d) ==
    /\ cyc[d].pc = "work" /\ cyc[d].todo = "upload" /\ ~Missing(d)
    /\ Tick /\ Send(d)
    /\ Goes(d, "queue", [cyc[d].mem EXCEPT !.sum = disk[d], !.syn = Stamp, !.st = "synced"])
    /\ dirty' = Put(dirty, d, FALSE)
    /\ UNCHANGED <<kind, cloud, current, files, manifest, queue, history, faults>>

\* uploadFile without a file: what was synced was deleted, the rest is forgotten.
UploadMissing(d) ==
    /\ cyc[d].pc = "work" /\ cyc[d].todo = "upload" /\ Missing(d)
    /\ Tick
    /\ IF cyc[d].mem.syn = 0 THEN Goes(d, "queue", NoEntry) /\ UNCHANGED manifest
       ELSE /\ Goes(d, "purge", [cyc[d].mem EXCEPT !.st = "deleted"])
            /\ MarkDeleted(d)
    /\ UNCHANGED <<kind, account, files, queue, dirty, mine, history, sent, faults>>

\* A refused or lost upload is queued; a full quota leaves no trace.
UploadFails(d) ==
    /\ cyc[d].pc = "work" /\ cyc[d].todo = "upload" /\ ~Missing(d)
    /\ Fault
    /\ Enqueue(d, "upload") \/ UNCHANGED queue
    /\ Goes(d, "queue", cyc[d].mem)
    /\ UNCHANGED <<kind, now, account, files, manifest, dirty, mine, history, sent>>

\* What a download writes.  Notes are merged (downloadAndMergeNotes, under the lock
\* of notes.enc): the remote bytes are adopted when they hold everything, the local
\* ones kept when they do, and a real union is sealed anew.
\* Mutant: notes are a file like another.
MutMerged(d) == store
Merged(d) ==
    LET union == disk[d].edits \cup store.edits IN
    IF kind # "notes" \/ union = store.edits THEN store
    ELSE IF union = disk[d].edits THEN disk[d]
    ELSE [edits |-> union, seal |-> Stamp]

Install(d) ==
    /\ Tick
    /\ disk' = Put(disk, d, Merged(d))
    /\ mtime' = IF kind = "notes" /\ Merged(d) = disk[d] THEN mtime ELSE Put(mtime, d, Stamp)
    /\ dirty' = IF kind = "notes" /\ Merged(d) = disk[d] THEN dirty ELSE Put(dirty, d, TRUE)

\* The work of a cycle that overwrites the local bytes: a download, or a conflict
\* without a local file.
Downloads(d) ==
    /\ cyc[d].pc = "work"
    /\ cyc[d].todo = "download" \/ (cyc[d].todo = "conflict" /\ Missing(d))

\* downloadFile: the stored bytes are taken even where the manifest announces others.
Download(d) ==
    /\ Downloads(d) /\ kind # "notes" /\ store # NoBlob
    /\ Install(d)
    /\ Goes(d, "queue", [sum |-> store, upd |-> cyc[d].view.upd, syn |-> Stamp,
                         st |-> "synced"])
    /\ UNCHANGED <<kind, account, manifest, queue, copies, mine, history, sent, faults>>

\* downloadAndMergeNotes: a union that says more than the account is sent in the
\* same cycle.
MergeNotes(d) ==
    /\ Downloads(d) /\ kind = "notes" /\ store # NoBlob
    /\ Install(d)
    /\ LET more == Merged(d) # store IN
       cyc' = [cyc EXCEPT ![d] = [@ EXCEPT
           !.pc = IF more THEN "work" ELSE "queue",
           !.todo = IF more THEN "upload" ELSE "download",
           !.mem = [sum |-> Merged(d), upd |-> mtime'[d], syn |-> Stamp,
                    st |-> IF more THEN "pending_upload" ELSE "synced"]]]
    /\ UNCHANGED <<kind, account, manifest, queue, copies, mine, history, sent, faults>>

\* The transfer fails, or the object is not there.
DownloadFails(d) ==
    /\ Downloads(d)
    /\ IF store = NoBlob THEN UNCHANGED faults ELSE Fault
    /\ Enqueue(d, "download")
    /\ LET failed == IF cyc[d].todo = "conflict" THEN "conflict" ELSE cyc[d].mem.st IN
       /\ Goes(d, "queue", [cyc[d].mem EXCEPT !.st = failed])
       /\ manifest' = IF cyc[d].todo = "conflict" /\ manifest[d] # NoEntry
                      THEN Put(manifest, d, [manifest[d] EXCEPT !.st = "conflict"])
                      ELSE manifest
    /\ UNCHANGED <<kind, now, account, files, dirty, mine, history, sent>>

CopyAside(d) == [bytes |-> disk[d], at |-> mtime[d],
                 sum |-> cyc[d].mem.sum, syn |-> cyc[d].mem.syn]

\* handleConflict: the local bytes are copied aside and the entry waits for the user,
\* on disk and in memory.  A copy that fails leaves the same mark.
ConflictCopy(d) ==
    /\ cyc[d].pc = "work" /\ cyc[d].todo = "conflict" /\ ~Missing(d)
    /\ \/ copies' = Put(copies, d, Append(copies[d], CopyAside(d))) /\ UNCHANGED faults
       \/ Fault /\ UNCHANGED copies
    /\ manifest' = IF manifest[d] = NoEntry THEN manifest
                   ELSE Put(manifest, d, [manifest[d] EXCEPT !.st = "conflict"])
    /\ Goes(d, "queue", [cyc[d].mem EXCEPT !.st = "conflict"])
    /\ UNCHANGED <<kind, now, account, disk, mtime, queue, dirty, mine, history, sent>>

-----------------------------------------------------------------------------
(***************************************************************************)
(* Steps 7 and 8: the deletions and the retries.                           *)
(***************************************************************************)
\* The object is deleted and then the entry; a failure keeps both.
Purge(d) ==
    /\ cyc[d].pc = "purge"
    /\ \/ /\ store' = NoBlob /\ UNCHANGED faults
          /\ cyc' = [cyc EXCEPT ![d] = [@ EXCEPT !.pc = "queue", !.mem = NoEntry, !.moved = TRUE]]
       \/ /\ Fault /\ UNCHANGED store
          /\ cyc' = [cyc EXCEPT ![d] = [@ EXCEPT !.pc = "queue", !.moved = TRUE]]
    /\ UNCHANGED <<kind, now, cloud, current, files, manifest, queue, dirty, mine,
                   history, sent>>

Dequeue(d, item) == queue' = Put(queue, d, queue[d] \ {item})

\* processQueue works on a manifest it reads again and throws away: bytes move and
\* nothing records it, except that a file that is gone is marked on disk.
RetryUpload(d) ==
    /\ cyc[d].pc = "queue" /\ "upload" \in queue[d]
    /\ Dequeue(d, "upload")
    /\ IF manifest[d] # NoEntry /\ ~Missing(d)
       THEN /\ Send(d) /\ dirty' = Put(dirty, d, FALSE)
            /\ UNCHANGED <<now, manifest>>
       ELSE /\ IF manifest[d].syn # 0 THEN Tick /\ MarkDeleted(d)
               ELSE UNCHANGED <<now, manifest>>
            /\ UNCHANGED <<store, sent, mine, dirty>>
    /\ UNCHANGED <<kind, cloud, current, files, cyc, history, faults>>

\* The manifest of the account is read again too.  The union of the notes is sent,
\* or queued when that fails.
RetryDownload(d) ==
    /\ cyc[d].pc = "queue" /\ "download" \in queue[d]
    /\ cloud # NoEntry => store # NoBlob
    /\ IF cloud = NoEntry THEN UNCHANGED <<now, disk, mtime, dirty>> ELSE Install(d)
    /\ IF cloud = NoEntry \/ Merged(d) = store
       THEN Dequeue(d, "download") /\ UNCHANGED <<store, sent, mine, faults>>
       ELSE \/ /\ Dequeue(d, "download") /\ UNCHANGED faults
               /\ store' = Merged(d) /\ sent' = sent \cup Merged(d).edits
               /\ mine' = Put(mine, d, mine[d] \cup {Merged(d)})
            \/ /\ queue' = Put(queue, d, {"upload"}) /\ Fault
               /\ UNCHANGED <<store, sent, mine>>
    /\ UNCHANGED <<kind, cloud, current, manifest, copies, cyc, history>>

-----------------------------------------------------------------------------
(***************************************************************************)
(* Steps 8 to 10: what is published.                                       *)
(***************************************************************************)
\* Only what is synced or deleted is published; the entry the account has is kept for
\* notes that could not be sent and for a conflict that is open.
Published(d) ==
    LET c == cyc[d] IN
    IF c.mem.st \in {"synced", "deleted"} THEN c.mem
    ELSE IF kind = "notes" \/ c.mem.st = "conflict" THEN c.view
    ELSE NoEntry

\* shouldRepublishManifest.
ShouldRepublish(d) == cyc[d].moved \/ Published(d) # cyc[d].view

\* The account takes the manifest of d: every other device is now behind, and so is
\* the manifest on the disk of d until it is saved.
Accept(d) ==
    /\ cloud' = Published(d)
    /\ current' = [e \in Devices |-> FALSE]

\* putManifest under the version read by Fetch; a refused one is not an error.
Publish(d) ==
    /\ cyc[d].pc = "queue"
    /\ IF ShouldRepublish(d) /\ cyc[d].fresh
       THEN /\ Accept(d)
            /\ cyc' = [e \in Devices |-> IF e = d THEN [cyc[e] EXCEPT !.pc = "save"]
                                         ELSE [cyc[e] EXCEPT !.fresh = FALSE]]
       ELSE cyc' = [cyc EXCEPT ![d].pc = "save"] /\ UNCHANGED <<cloud, current>>
    /\ UNCHANGED <<kind, now, store, files, manifest, queue, dirty, mine, history, sent,
                   faults>>

\* Step 10.
Save(d) ==
    /\ cyc[d].pc = "save"
    /\ manifest' = Put(manifest, d, cyc[d].mem)
    /\ current' = Put(current, d, cyc[d].fresh)
    /\ Goes(d, "sweep", cyc[d].mem)
    /\ UNCHANGED <<kind, now, cloud, store, files, queue, dirty, mine, history, sent, faults>>

\* detectCloudOnlyFiles, and the end of the cycle.
Sweep(d) ==
    /\ cyc[d].pc = "sweep"
    /\ manifest' = IF manifest[d].st = "synced" /\ Missing(d)
                   THEN Put(manifest, d, [manifest[d] EXCEPT !.st = "cloud-only"])
                   ELSE manifest
    /\ cyc' = Put(cyc, d, NoCycle)
    /\ UNCHANGED <<kind, now, account, files, queue, dirty, mine, history, sent, faults>>

\* The manifest cannot be read or written: the cycle ends and its manifest is lost,
\* and the account may have taken the one whose answer did not come.
CycleFails(d) ==
    /\ cyc[d].pc \in {"fetch", "queue"}
    /\ Fault
    /\ \/ UNCHANGED <<cloud, current>> /\ cyc' = Put(cyc, d, NoCycle)
       \/ /\ cyc[d].pc = "queue" /\ ShouldRepublish(d) /\ cyc[d].fresh
          /\ Accept(d)
          /\ cyc' = [e \in Devices |-> IF e = d THEN NoCycle
                                       ELSE [cyc[e] EXCEPT !.fresh = FALSE]]
    /\ UNCHANGED <<kind, now, store, files, manifest, queue, dirty, mine, history, sent>>

\* The process dies and is started again.
Crash(d) ==
    /\ Fault
    /\ cyc' = Put(cyc, d, NoCycle)
    /\ dirty' = Put(dirty, d, FALSE) /\ mine' = Put(mine, d, {})
    /\ UNCHANGED <<kind, now, account, files, manifest, queue, history, sent>>

-----------------------------------------------------------------------------
User(d) == Edit(d) \/ Delete(d) \/ Resolve(d)

Cycle(d) ==
    \/ Begin(d) \/ Fetch(d)
    \/ Upload(d) \/ UploadMissing(d) \/ UploadFails(d)
    \/ Download(d) \/ MergeNotes(d) \/ DownloadFails(d) \/ ConflictCopy(d)
    \/ Purge(d) \/ RetryUpload(d) \/ RetryDownload(d)
    \/ Publish(d) \/ Save(d) \/ Sweep(d) \/ CycleFails(d)

Next == \E d \in Devices : User(d) \/ Cycle(d) \/ Crash(d)

Spec == Init /\ [][Next]_vars

\* The daemon starts a cycle every five minutes, and a cycle goes on.
FairSpec == Spec /\ \A d \in Devices : WF_vars(Cycle(d))
-----------------------------------------------------------------------------
(***************************************************************************)
(* What synchronisation promises.                                          *)
(***************************************************************************)

\* The guard of mergeWithRemote: an edit no device has sent yet, and about which the
\* user answered nothing, is still on a disk or in a conflict copy.
InCopies(d) == UNION {copies[d][i].bytes.edits : i \in DOMAIN copies[d]}
UnsentWorkSurvives ==
    wrote \subseteq sent \cup UNION {disk[d].edits \cup InCopies(d) : d \in Devices}

\* The same guard, for the steps of the cycle itself: what a transfer decided by the
\* merge overwrites was sent before, or is copied aside.
CycleSparesUnsent ==
    [][\A d \in Devices : cyc[d].pc = "work" =>
          (disk[d].edits \cap wrote') \ sent \subseteq disk'[d].edits \cup InCopies(d)']_vars

\* The scan keeps an open conflict (keepsOpenConflict): the bytes of one write are
\* not copied aside at every cycle until the disk is full.  They are copied again
\* only under another entry: one the user answered (another syncedAt), or one hashed
\* again because its checksum was not that of the bytes.
OneCopyPerConflict ==
    \A d \in Devices : \A i, j \in DOMAIN copies[d] :
        copies[d][i] = copies[d][j] => i = j

\* No step of the synchronisation takes a note away from a device, whatever the user
\* writes meanwhile (downloadAndMergeNotes).
NotesOnlyGrow ==
    [][kind = "notes" => \A d \in Devices : disk[d].edits \subseteq disk'[d].edits]_vars

\* The guard that stops the loop (shouldRepublishManifest): when the users stop
\* writing, the devices end up having nothing to publish.  Does not hold of a folder:
\* two devices that hold the same bytes publish them in turn for ever.
PublicationsEnd == <>[][cloud' = cloud]_vars
=============================================================================
