--------------------------- MODULE SyncCycleProofs ---------------------------
(***************************************************************************)
(* Theorems about SyncCycle, for any devices, kinds of element, answers to *)
(* a conflict and bounds: the type invariant, the notes that only grow,    *)
(* the cycle that spares what only its device has, and the conflict that   *)
(* is copied aside once.                                                   *)
(*                                                                         *)
(* The argument of the third: the merge decides a download only where the  *)
(* entry of the device says that nothing was written since it was synced.  *)
(* Covered says that such an entry tells the truth: whatever the device    *)
(* shows then was sent, copied aside or discarded.  It rests on the stamps *)
(* (Stamped: nothing was synced later than now, so a write is always later *)
(* than the last synchronisation) and on the account having nothing that   *)
(* was not sent (Numbered).  A write that a running cycle does not see     *)
(* breaks it, since the cycle saves the entry it scanned over the mark of  *)
(* the gesture: it is proved for the devices whose user writes no other    *)
(* element than the notes while a cycle runs.                              *)
(*                                                                         *)
(* The argument of the last: the entry a copy was made under goes on only  *)
(* one way (WentOn): it waits for the user, then is answered or sent, each *)
(* time under a later stamp, and a wrong checksum is put right once.  The  *)
(* next conflict on the same bytes is therefore under another entry.  It   *)
(* rests on the cycle deciding on the entry its scan left (Scans), so on   *)
(* the same hypothesis.                                                    *)
(***************************************************************************)
EXTENDS SyncCycle, TLAPS

\* Notes are merged: no answer to a conflict ever installs the bytes of the account.
NotesNeverConflict ==
    kind = "notes" =>
        \A d \in Devices : /\ manifest[d].st # "conflict" /\ cyc[d].mem.st # "conflict"
                           /\ cyc[d].todo # "conflict"

\* The edits numbered so far; the account has only what was sent.
Numbered ==
    /\ sent \subseteq 1..edits
    /\ store.edits \subseteq sent
    /\ \A d \in Devices : disk[d].edits \subseteq 1..edits

\* A cycle that is not running holds nothing, and no entry was synced later than now.
Stamped ==
    \A d \in Devices : /\ cyc[d].pc = "idle" => cyc[d].mem = NoEntry
                       /\ manifest[d].syn <= now /\ cyc[d].mem.syn <= now

\* What device d shows was sent, or is copied aside, or was discarded.
Kept(d) == disk[d].edits \cap wrote \subseteq sent \cup InCopies(d)

\* An entry that says nothing was written since it was synced says so truly.
Covers(e, d) ==
    e.syn # 0 /\ (e.upd <= e.syn \/ mtime[d] <= e.syn) => Kept(d)

Covered ==
    kind # "notes" =>
        \A d \in Devices :
            /\ Covers(manifest[d], d) /\ Covers(cyc[d].mem, d)
            /\ cyc[d].pc = "fetch" /\ cyc[d].mem = NoEntry => Kept(d)
            /\ cyc[d].pc = "work" /\ cyc[d].todo = "download" => Kept(d)

-----------------------------------------------------------------------------
(***************************************************************************)
(* What the steps write is of its type.                                    *)
(***************************************************************************)
Pcs   == {"idle", "fetch", "work", "purge", "queue", "save", "sweep"}
Todos == {"none", "upload", "download", "conflict"}

\* What the code writes into an entry leaves it one.
LEMMA EntryEdits ==
    ASSUME NEW e \in Entries, NEW x \in Blobs, NEW n \in Nat, NEW m \in Nat, NEW s \in Statuses
    PROVE  /\ [e EXCEPT !.st = s] \in Entries
           /\ [e EXCEPT !.st = s, !.upd = n] \in Entries
           /\ [e EXCEPT !.st = s, !.syn = n] \in Entries
           /\ [e EXCEPT !.sum = x, !.upd = n, !.st = s] \in Entries
           /\ [e EXCEPT !.sum = x, !.syn = n, !.st = s] \in Entries
           /\ [sum |-> x, upd |-> n, syn |-> m, st |-> s] \in Entries
  BY DEF Entries

\* There is nothing where nothing was written.
LEMMA NothingTypes ==
    NoBlob \in Blobs /\ NoEntry \in Entries /\ NoCycle \in Cycles
<1>1. NoBlob \in Blobs
  BY DEF NoBlob, Blobs
<1>2. NoEntry \in Entries
  BY <1>1 DEF NoEntry, Entries, Statuses
<1> QED
  BY <1>1, <1>2 DEF NoCycle, Cycles

\* What the state holds of one device.
LEMMA Parts ==
    ASSUME TypeOK, NEW d \in Devices
    PROVE  /\ manifest[d] \in Entries /\ cyc[d] \in Cycles
           /\ cyc[d].mem \in Entries /\ cyc[d].view \in Entries
           /\ cyc[d].pc \in Pcs /\ cyc[d].todo \in Todos
           /\ disk[d] \in Blobs /\ disk[d].edits \subseteq 1..MaxEdits
           /\ store.edits \subseteq 1..MaxEdits
           /\ mtime[d] \in Nat /\ Stamp \in Nat /\ now \in Nat
  BY DEF TypeOK, Cycles, Blobs, Stamp, Pcs, Todos

\* What is copied aside.
LEMMA CopyType ==
    ASSUME TypeOK, NEW d \in Devices PROVE CopyAside(d) \in Copies
  BY Parts DEF CopyAside, Copies, Entries

\* The bytes a download writes.
LEMMA MergedType ==
    ASSUME TypeOK, NEW d \in Devices PROVE Merged(d) \in Blobs
<1>1. /\ disk[d] \in Blobs /\ store \in Blobs /\ Stamp \in Nat
      /\ disk[d].edits \cup store.edits \in SUBSET (1..MaxEdits)
  BY Parts DEF TypeOK
<1>2. [edits |-> disk[d].edits \cup store.edits, seal |-> Stamp] \in Blobs
  BY <1>1 DEF Blobs
<1> QED
  BY <1>1, <1>2 DEF Merged

\* The scan, the view of the account and what is published are entries.
LEMMA EntryTypes ==
    ASSUME TypeOK, NEW d \in Devices
    PROVE  Scanned(d) \in Entries /\ RemoteView(d) \in Entries /\ Published(d) \in Entries
<1>1. manifest[d] \in Entries /\ cyc[d].mem \in Entries /\ cyc[d].view \in Entries
      /\ cloud \in Entries /\ NoEntry \in Entries /\ disk[d] \in Blobs /\ mtime[d] \in Nat
  BY Parts, NothingTypes DEF TypeOK
<1>2. WithoutPhantom(d, manifest[d]) \in Entries
  BY <1>1, EntryEdits DEF WithoutPhantom, Statuses
<1>3. ASSUME NEW n \in Nat
      PROVE  [sum |-> disk[d], upd |-> mtime[d], st |-> "pending_upload", syn |-> n] \in Entries
  BY <1>1 DEF Entries, Statuses
<1>4. WithoutPhantom(d, manifest[d]).syn \in Nat
  BY <1>2 DEF Entries
<1>5. Scanned(d) \in Entries
  BY <1>2, <1>3, <1>4 DEF Scanned
<1> QED
  BY <1>1, <1>5 DEF RemoteView, Published

\* The merge decides one of four things.
LEMMA TodoType ==
    ASSUME NEW d, NEW l, NEW r PROVE MergeWithRemote(d, l, r) \in Todos
  BY DEF MergeWithRemote, Todos

\* The cycle of d goes on.
LEMMA GoesType ==
    ASSUME TypeOK, NEW d \in Devices, NEW pc \in Pcs, NEW e \in Entries
    PROVE  /\ Goes(d, pc, e) => cyc' \in [Devices -> Cycles]
           /\ Put(cyc, d, NoCycle) \in [Devices -> Cycles]
<1>1. cyc \in [Devices -> Cycles] /\ cyc[d] \in Cycles /\ NoCycle \in Cycles
  BY NothingTypes DEF TypeOK
<1>2. [[cyc[d] EXCEPT !.pc = pc] EXCEPT !.mem = e] \in Cycles
  BY <1>1 DEF Cycles, Pcs
<1>3. Goes(d, pc, e) => cyc' = [cyc EXCEPT ![d] = [[cyc[d] EXCEPT !.pc = pc] EXCEPT !.mem = e]]
  BY <1>1 DEF Goes
<1> QED
  BY <1>1, <1>2, <1>3 DEF Put

\* The cycle of d goes on, and what it decided stays.
LEMMA GoesTo ==
    ASSUME TypeOK, NEW d \in Devices, NEW pc, NEW e, Goes(d, pc, e)
    PROVE  cyc'[d].pc = pc /\ cyc'[d].mem = e /\ cyc'[d].todo = cyc[d].todo
<1>1. cyc'[d] = [cyc[d] EXCEPT !.pc = pc, !.mem = e] /\ cyc[d] \in Cycles
  BY DEF TypeOK, Goes
<1> QED
  BY <1>1 DEF Cycles

\* The deletion of what was deleted.
LEMMA PurgeTo ==
    ASSUME TypeOK, NEW d \in Devices, Purge(d)
    PROVE  /\ cyc'[d].pc = "queue" /\ cyc'[d].todo = cyc[d].todo
           /\ cyc'[d].mem \in {NoEntry, cyc[d].mem}
<1>1. /\ cyc[d] \in Cycles
      /\ cyc'[d] \in {[cyc[d] EXCEPT !.pc = "queue", !.mem = NoEntry, !.moved = TRUE],
                      [cyc[d] EXCEPT !.pc = "queue", !.moved = TRUE]}
  BY DEF TypeOK, Purge
<1> QED
  BY <1>1 DEF Cycles

\* What is written of one device.
LEMMA PutType ==
    ASSUME NEW S, NEW f \in [Devices -> S], NEW d \in Devices, NEW x \in S
    PROVE  Put(f, d, x) \in [Devices -> S]
  BY DEF Put

\* Sending stores the bytes of the device.
LEMMA SendType ==
    ASSUME TypeOK, NEW d \in Devices, Send(d)
    PROVE  store' \in Blobs /\ sent' \subseteq 1..MaxEdits /\ mine' \in [Devices -> SUBSET Blobs]
  BY Parts DEF TypeOK, Send, Put

\* A download writes the disk.
LEMMA InstallType ==
    ASSUME TypeOK, NEW d \in Devices, Install(d)
    PROVE  /\ disk' \in [Devices -> Blobs] /\ mtime' \in [Devices -> Nat]
           /\ dirty' \in [Devices -> BOOLEAN] /\ now' \in Nat
  BY Parts, MergedType DEF TypeOK, Install, Put, Tick

\* The marks on the entry of the disk.
LEMMA MarksType ==
    ASSUME TypeOK, NEW d \in Devices
    PROVE  /\ MarkPendingUpload(d) => manifest' \in [Devices -> Entries]
           /\ MarkDeleted(d) => manifest' \in [Devices -> Entries]
           /\ \A s \in Statuses : Put(manifest, d, [manifest[d] EXCEPT !.st = s])
                                    \in [Devices -> Entries]
<1>1. /\ manifest[d] \in Entries /\ Stamp \in Nat /\ NoBlob \in Blobs
      /\ manifest \in [Devices -> Entries]
  BY Parts, NothingTypes DEF TypeOK
<1>2. [manifest[d] EXCEPT !.sum = NoBlob, !.upd = Stamp, !.st = "pending_upload"] \in Entries
  BY <1>1, EntryEdits DEF Statuses
<1>3. [manifest[d] EXCEPT !.st = "deleted", !.upd = Stamp] \in Entries
  BY <1>1, EntryEdits DEF Statuses
<1>4. ASSUME NEW s \in Statuses PROVE [manifest[d] EXCEPT !.st = s] \in Entries
  BY <1>1, EntryEdits
<1>5. MarkPendingUpload(d) => manifest' \in [Devices -> Entries]
  BY <1>1, <1>2 DEF MarkPendingUpload, Put
<1>6. MarkDeleted(d) => manifest' \in [Devices -> Entries]
  BY <1>1, <1>3 DEF MarkDeleted, Put
<1> QED
  BY <1>1, <1>4, <1>5, <1>6 DEF Put

\* Every step keeps the types.
LEMMA TypeStep ==
    ASSUME TypeOK, [Next]_vars PROVE TypeOK'
<1> USE SyncAssumption
<1>1. CASE UNCHANGED vars
  BY <1>1 DEF vars, TypeOK
<1> SUFFICES ASSUME NEW d \in Devices, User(d) \/ Cycle(d) \/ Crash(d) PROVE TypeOK'
  BY <1>1 DEF Next
<1> USE DEF TypeOK
<1>0. /\ manifest[d] \in Entries /\ cyc[d] \in Cycles /\ NoBlob \in Blobs
      /\ cyc[d].mem \in Entries /\ cyc[d].view \in Entries /\ NoEntry \in Entries
      /\ disk[d] \in Blobs /\ disk[d].edits \subseteq 1..MaxEdits
      /\ store.edits \subseteq 1..MaxEdits /\ mtime[d] \in Nat /\ Stamp \in Nat
  BY Parts, NothingTypes
<1>2. CASE Edit(d)
  <2>1. edits' \in 1..MaxEdits
    BY <1>2 DEF Edit, MayTouch
  <2>2. [edits |-> disk[d].edits \cup {edits'}, seal |-> 0] \in Blobs
    BY <1>0, <2>1 DEF Blobs
  <2>3. manifest' \in [Devices -> Entries]
    BY <1>2, MarksType DEF Edit
  <2>4. /\ disk' \in [Devices -> Blobs] /\ mtime' \in [Devices -> Nat]
        /\ dirty' \in [Devices -> BOOLEAN]
    BY <1>0, <1>2, <2>2 DEF Edit, Put
  <2>5. now' \in Nat /\ wrote' \subseteq 1..MaxEdits /\ edits' \in 0..MaxEdits
    BY <1>0, <1>2, <2>1 DEF Edit, Tick
  <2> QED
    BY <1>2, <2>3, <2>4, <2>5 DEF Edit, account
<1>3. CASE Delete(d)
  <2>1. manifest' \in [Devices -> Entries] /\ edits' \in 0..MaxEdits
    BY <1>3, MarksType DEF Delete, MayTouch
  <2> QED
    BY <1>0, <1>3, <2>1 DEF Delete, Put, Tick, account
<1>4. CASE Resolve(d)
  <2>1. manifest' \in [Devices -> Entries]
    BY <1>0, <1>4, EntryEdits DEF Resolve, Put, Statuses
  <2>2. /\ disk' \in [Devices -> Blobs] /\ mtime' \in [Devices -> Nat]
        /\ dirty' \in [Devices -> BOOLEAN]
    <3>1. CASE UNCHANGED <<disk, mtime, dirty>>
      BY <3>1
    <3>2. CASE ~UNCHANGED <<disk, mtime, dirty>>
      <4>1. /\ disk' = Put(disk, d, store) /\ mtime' = Put(mtime, d, Stamp)
            /\ dirty' = Put(dirty, d, TRUE)
        BY <1>4, <3>2 DEF Resolve
      <4> QED
        BY <1>0, <4>1 DEF Put
    <3> QED
      BY <3>1, <3>2
  <2>3. now' \in Nat /\ wrote' \subseteq 1..MaxEdits /\ sent' \subseteq 1..MaxEdits
    BY <1>0, <1>4 DEF Resolve, Tick
  <2> QED
    BY <1>4, <2>1, <2>2, <2>3 DEF Resolve, account
<1>5. CASE Begin(d)
  <2>1. Scanned(d) \in Entries
    BY EntryTypes
  <2>2. cyc' \in [Devices -> Cycles]
    BY <1>5, <2>1, GoesType DEF Begin, Pcs
  <2> QED
    BY <1>0, <1>5, <2>1, <2>2 DEF Begin, Put, account, files, history
<1>6. CASE Fetch(d)
  <2>1. RemoteView(d) \in Entries /\ MergeWithRemote(d, cyc[d].mem, RemoteView(d)) \in Todos
        /\ AfterWork(cyc[d].mem) \in Pcs
    BY EntryTypes, TodoType DEF AfterWork, Pcs
  <2>2. cyc' \in [Devices -> Cycles]
    BY <1>0, <1>6, <2>1 DEF Fetch, Cycles, Pcs, Todos
  <2> QED
    BY <1>6, <2>2 DEF Fetch, account, files, history
<1>7. CASE Upload(d)
  <2>1. [cyc[d].mem EXCEPT !.sum = disk[d], !.syn = Stamp, !.st = "synced"] \in Entries
    BY <1>0, EntryEdits DEF Statuses
  <2>2. cyc' \in [Devices -> Cycles]
    BY <1>7, <2>1, GoesType DEF Upload, Pcs
  <2>3. store' \in Blobs /\ sent' \subseteq 1..MaxEdits /\ mine' \in [Devices -> SUBSET Blobs]
    BY <1>7, SendType DEF Upload
  <2> QED
    BY <1>0, <1>7, <2>2, <2>3 DEF Upload, Put, Tick, files, history
<1>8. CASE UploadMissing(d)
  <2>1. [cyc[d].mem EXCEPT !.st = "deleted"] \in Entries
    BY <1>0, EntryEdits DEF Statuses
  <2>2. cyc' \in [Devices -> Cycles]
    BY <1>0, <1>8, <2>1, GoesType DEF UploadMissing, Pcs
  <2>3. manifest' \in [Devices -> Entries]
    BY <1>8, MarksType DEF UploadMissing
  <2> QED
    BY <1>0, <1>8, <2>2, <2>3 DEF UploadMissing, Tick, account, files, history
<1>9. CASE UploadFails(d)
  <2>1. cyc' \in [Devices -> Cycles]
    BY <1>0, <1>9, GoesType DEF UploadFails, Pcs
  <2>2. faults' \in 0..MaxFaults
    BY <1>9 DEF UploadFails, Fault
  <2>3. queue' \in [Devices -> SUBSET {"upload", "download"}]
    <3>1. queue' \in {queue, Put(queue, d, queue[d] \cup {"upload"})}
      BY <1>9 DEF UploadFails, Enqueue
    <3> QED
      BY <3>1 DEF Put
  <2> QED
    BY <1>9, <2>1, <2>2, <2>3 DEF UploadFails, account, files, history
<1>10. CASE Download(d)
  <2>1. [sum |-> store, upd |-> cyc[d].view.upd, syn |-> Stamp, st |-> "synced"] \in Entries
    BY <1>0 DEF Entries, Statuses
  <2>2. cyc' \in [Devices -> Cycles]
    BY <1>10, <2>1, GoesType DEF Download, Pcs
  <2>3. /\ disk' \in [Devices -> Blobs] /\ mtime' \in [Devices -> Nat]
        /\ dirty' \in [Devices -> BOOLEAN] /\ now' \in Nat
    BY <1>10, InstallType DEF Download
  <2> QED
    BY <1>10, <2>2, <2>3 DEF Download, account, history
<1>11. CASE MergeNotes(d)
  <2>1. /\ disk' \in [Devices -> Blobs] /\ mtime' \in [Devices -> Nat]
        /\ dirty' \in [Devices -> BOOLEAN] /\ now' \in Nat
    BY <1>11, InstallType DEF MergeNotes
  <2>2. \A s \in Statuses : [sum |-> Merged(d), upd |-> mtime'[d], syn |-> Stamp, st |-> s]
                               \in Entries
    BY <1>0, <2>1, MergedType DEF Entries
  <2>3. cyc' \in [Devices -> Cycles]
    BY <1>0, <1>11, <2>2 DEF MergeNotes, Cycles, Statuses
  <2> QED
    BY <1>11, <2>1, <2>3 DEF MergeNotes, account, history
<1>12. CASE DownloadFails(d)
  <2>1. \A s \in Statuses : [cyc[d].mem EXCEPT !.st = s] \in Entries
    BY <1>0, EntryEdits
  <2>2. cyc[d].mem.st \in Statuses
    BY <1>0 DEF Entries
  <2>3. cyc' \in [Devices -> Cycles]
    BY <1>12, <2>1, <2>2, GoesType DEF DownloadFails, Pcs, Statuses
  <2>4. manifest' \in [Devices -> Entries]
    BY <1>12, MarksType DEF DownloadFails, Statuses
  <2>5. faults' \in 0..MaxFaults /\ queue' \in [Devices -> SUBSET {"upload", "download"}]
    BY <1>12 DEF DownloadFails, Fault, Enqueue, Put
  <2> QED
    BY <1>12, <2>3, <2>4, <2>5 DEF DownloadFails, account, files, history
<1>13. CASE ConflictCopy(d)
  <2>1. [cyc[d].mem EXCEPT !.st = "conflict"] \in Entries
    BY <1>0, EntryEdits DEF Statuses
  <2>2. cyc' \in [Devices -> Cycles]
    BY <1>13, <2>1, GoesType DEF ConflictCopy, Pcs
  <2>3. manifest' \in [Devices -> Entries]
    BY <1>13, MarksType DEF ConflictCopy, Statuses
  <2>5. Append(copies[d], CopyAside(d)) \in Seq(Copies)
    BY CopyType DEF TypeOK
  <2>6. copies' \in [Devices -> Seq(Copies)]
    BY <1>13, <2>5 DEF ConflictCopy, Put
  <2>7. faults' \in 0..MaxFaults
    BY <1>13 DEF ConflictCopy, Fault
  <2> QED
    BY <1>13, <2>2, <2>3, <2>6, <2>7 DEF ConflictCopy, account, history
<1>14. CASE Purge(d)
  <2>1. cyc' \in [Devices -> Cycles]
    <3>1. /\ [[[cyc[d] EXCEPT !.pc = "queue"] EXCEPT !.mem = NoEntry] EXCEPT !.moved = TRUE]
               \in Cycles
          /\ [[cyc[d] EXCEPT !.pc = "queue"] EXCEPT !.moved = TRUE] \in Cycles
      BY <1>0 DEF Cycles
    <3> QED
      BY <1>0, <1>14, <3>1 DEF Purge
  <2>2. store' \in Blobs /\ faults' \in 0..MaxFaults
    BY <1>0, <1>14 DEF Purge, Fault
  <2> QED
    BY <1>14, <2>1, <2>2 DEF Purge, files, history
<1>15. CASE RetryUpload(d)
  <2>1. manifest' \in [Devices -> Entries] /\ now' \in Nat
    BY <1>0, <1>15, MarksType DEF RetryUpload, Tick
  <2>2. store' \in Blobs /\ sent' \subseteq 1..MaxEdits /\ mine' \in [Devices -> SUBSET Blobs]
        /\ dirty' \in [Devices -> BOOLEAN]
    BY <1>15, SendType DEF RetryUpload, Put
  <2> QED
    BY <1>15, <2>1, <2>2 DEF RetryUpload, Dequeue, Put, files, history
<1>16. CASE RetryDownload(d)
  <2>1. /\ disk' \in [Devices -> Blobs] /\ mtime' \in [Devices -> Nat]
        /\ dirty' \in [Devices -> BOOLEAN] /\ now' \in Nat
    BY <1>16, InstallType DEF RetryDownload
  <2>2. Merged(d) \in Blobs /\ Merged(d).edits \subseteq 1..MaxEdits
    BY MergedType DEF Blobs
  <2>3. store' \in Blobs /\ sent' \subseteq 1..MaxEdits /\ mine' \in [Devices -> SUBSET Blobs]
    <3>1. /\ sent' \in {sent, sent \cup Merged(d).edits}
          /\ mine' \in {mine, Put(mine, d, mine[d] \cup {Merged(d)})}
          /\ store' \in {store, Merged(d)}
      BY <1>16 DEF RetryDownload
    <3>2. Put(mine, d, mine[d] \cup {Merged(d)}) \in [Devices -> SUBSET Blobs]
      BY <2>2 DEF Put
    <3> QED
      BY <2>2, <3>1, <3>2
  <2>4. queue' \in [Devices -> SUBSET {"upload", "download"}] /\ faults' \in 0..MaxFaults
    <3>1. /\ queue' \in {Put(queue, d, queue[d] \ {"download"}), Put(queue, d, {"upload"})}
          /\ faults' = faults \/ Fault
      BY <1>16 DEF RetryDownload, Dequeue
    <3>2. faults' \in 0..MaxFaults
      BY <3>1 DEF Fault
    <3>3. /\ Put(queue, d, queue[d] \ {"download"}) \in [Devices -> SUBSET {"upload", "download"}]
          /\ Put(queue, d, {"upload"}) \in [Devices -> SUBSET {"upload", "download"}]
      BY DEF Put
    <3> QED
      BY <3>1, <3>2, <3>3
  <2> QED
    BY <1>16, <2>1, <2>3, <2>4 DEF RetryDownload, history
<1>17. CASE Publish(d)
  <2>1. cloud' \in Entries /\ current' \in [Devices -> BOOLEAN]
    BY <1>17, EntryTypes DEF Publish, Accept
  <2>2. ASSUME NEW c \in Cycles
        PROVE  [c EXCEPT !.pc = "save"] \in Cycles /\ [c EXCEPT !.fresh = FALSE] \in Cycles
    BY DEF Cycles
  <2>3. cyc' \in [Devices -> Cycles]
    <3>1. CASE ShouldRepublish(d) /\ cyc[d].fresh
      <4>1. cyc' = [e \in Devices |-> IF e = d THEN [cyc[e] EXCEPT !.pc = "save"]
                                      ELSE [cyc[e] EXCEPT !.fresh = FALSE]]
        BY <1>17, <3>1 DEF Publish
      <4>2. \A e \in Devices : cyc[e] \in Cycles
        OBVIOUS
      <4> QED
        BY <2>2, <4>1, <4>2
    <3>2. CASE ~(ShouldRepublish(d) /\ cyc[d].fresh)
      <4>1. cyc' = [cyc EXCEPT ![d] = [cyc[d] EXCEPT !.pc = "save"]]
        BY <1>17, <3>2 DEF Publish
      <4> QED
        BY <1>0, <2>2, <4>1
    <3> QED
      BY <3>1, <3>2
  <2> QED
    BY <1>17, <2>1, <2>3 DEF Publish, files, history
<1>18. CASE Save(d)
  <2>1. cyc' \in [Devices -> Cycles]
    BY <1>0, <1>18, GoesType DEF Save, Pcs
  <2>2. cyc[d].fresh \in BOOLEAN
    BY <1>0 DEF Cycles
  <2> QED
    BY <1>0, <1>18, <2>1, <2>2 DEF Save, Put, files, history
<1>19. CASE Sweep(d)
  <2>1. manifest' \in [Devices -> Entries]
    BY <1>19, MarksType DEF Sweep, Statuses
  <2>2. cyc' \in [Devices -> Cycles]
    BY <1>19, NothingTypes DEF Sweep, Put
  <2> QED
    BY <1>19, <2>1, <2>2 DEF Sweep, account, files, history
<1>20. CASE CycleFails(d)
  <2>1. cloud' \in Entries /\ current' \in [Devices -> BOOLEAN]
    BY <1>20, EntryTypes DEF CycleFails, Accept
  <2>2. \A e \in Devices : [cyc[e] EXCEPT !.fresh = FALSE] \in Cycles /\ NoCycle \in Cycles
    BY NothingTypes DEF Cycles
  <2>3. cyc' \in [Devices -> Cycles]
    BY <1>20, <2>2 DEF CycleFails, Put
  <2> QED
    BY <1>20, <2>1, <2>3 DEF CycleFails, Fault, files, history
<1>21. CASE Crash(d)
  <2>1. cyc' \in [Devices -> Cycles]
    BY <1>21, NothingTypes DEF Crash, Put
  <2> QED
    BY <1>21, <2>1 DEF Crash, Fault, Put, account, files, history
<1> QED
  BY <1>2, <1>3, <1>4, <1>5, <1>6, <1>7, <1>8, <1>9, <1>10, <1>11, <1>12, <1>13, <1>14,
     <1>15,
     <1>16, <1>17, <1>18, <1>19, <1>20, <1>21 DEF User, Cycle

\* Every variable is of its type, whatever the devices, kinds, answers and bounds.
THEOREM TypeCorrect == Spec => []TypeOK
<1>1. Init => TypeOK
  BY SyncAssumption, NothingTypes DEF Init, TypeOK
<1> QED
  BY <1>1, TypeStep, PTL DEF Spec

-----------------------------------------------------------------------------
(***************************************************************************)
(* A step is one device's, and what the others hold stays.                 *)
(***************************************************************************)
Step(d) == User(d) \/ Cycle(d) \/ Crash(d)

\* What the other devices hold: everything but whether their version is still good.
SameElsewhere(e) ==
    /\ disk'[e] = disk[e] /\ mtime'[e] = mtime[e] /\ copies'[e] = copies[e]
    /\ manifest'[e] = manifest[e] /\ dirty'[e] = dirty[e]
    /\ cyc'[e].pc = cyc[e].pc /\ cyc'[e].mem = cyc[e].mem /\ cyc'[e].todo = cyc[e].todo

\* A step of d leaves the other devices as they were.
LEMMA Elsewhere ==
    ASSUME TypeOK, NEW d \in Devices, Step(d), NEW e \in Devices, e # d
    PROVE  SameElsewhere(e)
<1> USE DEF SameElsewhere, TypeOK
<1>0. cyc[e] \in Cycles /\ [cyc[e] EXCEPT !.fresh = FALSE] \in Cycles
  <2>1. cyc[e] \in Cycles
    OBVIOUS
  <2> HIDE DEF TypeOK
  <2> QED
    BY <2>1 DEF Cycles
<1>1. CASE Edit(d)
  BY <1>0, <1>1 DEF Edit, Put, MarkPendingUpload, account, files, history
<1>2. CASE Delete(d)
  BY <1>0, <1>2 DEF Delete, Put, MarkDeleted, account, files, history
<1>3. CASE Resolve(d)
  BY <1>0, <1>3 DEF Resolve, Put, account, files, history
<1>4. CASE Begin(d)
  BY <1>0, <1>4 DEF Begin, Put, Goes, account, files, history
<1>5. CASE Fetch(d)
  BY <1>0, <1>5 DEF Fetch, account, files, history
<1>6. CASE Upload(d)
  BY <1>0, <1>6 DEF Upload, Goes, Put, Send, account, files, history
<1>7. CASE UploadMissing(d)
  BY <1>0, <1>7 DEF UploadMissing, Goes, MarkDeleted, Put, account, files, history
<1>8. CASE UploadFails(d)
  BY <1>0, <1>8 DEF UploadFails, Goes, account, files, history
<1>9. CASE Download(d)
  BY <1>0, <1>9 DEF Download, Install, Goes, Put, account, files, history
<1>10. CASE MergeNotes(d)
  BY <1>0, <1>10 DEF MergeNotes, Install, Put, account, files, history
<1>11. CASE DownloadFails(d)
  BY <1>0, <1>11 DEF DownloadFails, Goes, Put, account, files, history
<1>12. CASE ConflictCopy(d)
  BY <1>0, <1>12 DEF ConflictCopy, Goes, Put, account, files, history
<1>13. CASE Purge(d)
  BY <1>0, <1>13 DEF Purge, account, files, history
<1>14. CASE RetryUpload(d)
  BY <1>0, <1>14 DEF RetryUpload, MarkDeleted, Put, Send, account, files, history
<1>15. CASE RetryDownload(d)
  BY <1>0, <1>15 DEF RetryDownload, Install, Put, account, files, history
<1>16. CASE Publish(d)
  <2>1. cyc'[e] \in {cyc[e], [cyc[e] EXCEPT !.fresh = FALSE]}
    BY <1>16 DEF Publish
  <2>2. /\ cyc'[e].pc = cyc[e].pc /\ cyc'[e].mem = cyc[e].mem
        /\ cyc'[e].todo = cyc[e].todo
    BY <1>0, <2>1 DEF Cycles
  <2> QED
    BY <1>16, <2>2 DEF Publish, account, files, history
<1>17. CASE Save(d)
  BY <1>0, <1>17 DEF Save, Put, Goes, account, files, history
<1>18. CASE Sweep(d)
  BY <1>0, <1>18 DEF Sweep, Put, account, files, history
<1>19. CASE CycleFails(d)
  <2>1. cyc'[e] \in {cyc[e], [cyc[e] EXCEPT !.fresh = FALSE]}
    BY <1>19 DEF CycleFails, Put
  <2>2. /\ cyc'[e].pc = cyc[e].pc /\ cyc'[e].mem = cyc[e].mem
        /\ cyc'[e].todo = cyc[e].todo
    BY <1>0, <2>1 DEF Cycles
  <2> QED
    BY <1>19, <2>2 DEF CycleFails, account, files, history
<1>20. CASE Crash(d)
  BY <1>0, <1>20 DEF Crash, Put, account, files, history
<1> QED
  BY <1>1, <1>2, <1>3, <1>4, <1>5, <1>6, <1>7, <1>8, <1>9, <1>10, <1>11, <1>12, <1>13,
     <1>14, <1>15, <1>16, <1>17, <1>18, <1>19, <1>20 DEF Step, User, Cycle

-----------------------------------------------------------------------------
(***************************************************************************)
(* Notes.                                                                  *)
(***************************************************************************)
\* No step opens a conflict on notes: the merge sends them or merges them.
LEMMA NotesStep ==
    ASSUME TypeOK, NotesNeverConflict, [Next]_vars PROVE NotesNeverConflict'
<1>1. CASE UNCHANGED vars
  BY <1>1 DEF vars, NotesNeverConflict
<1>2. CASE Next
  <2> SUFFICES ASSUME kind' = "notes"
               PROVE  \A d \in Devices :
                         /\ manifest'[d].st # "conflict" /\ cyc'[d].mem.st # "conflict"
                         /\ cyc'[d].todo # "conflict"
    BY DEF NotesNeverConflict
  <2>1. PICK d \in Devices : Step(d)
    BY <1>2 DEF Next, Step
  <2>2. kind = "notes"
    BY <2>1 DEF Step, User, Cycle, Edit, Delete, Resolve, Begin, Fetch, Upload,
       UploadMissing,
       UploadFails, Download, MergeNotes, DownloadFails, ConflictCopy, Purge, RetryUpload,
       RetryDownload, Publish, Save, Sweep, CycleFails, Crash
  <2>3. ASSUME NEW e \in Devices
        PROVE  /\ manifest[e].st # "conflict" /\ cyc[e].mem.st # "conflict"
               /\ cyc[e].todo # "conflict"
    BY <2>2 DEF NotesNeverConflict
  <2>4. ASSUME NEW e \in Devices, e # d
        PROVE  /\ manifest'[e].st # "conflict" /\ cyc'[e].mem.st # "conflict"
               /\ cyc'[e].todo # "conflict"
    BY <2>1, <2>3, <2>4, Elsewhere DEF SameElsewhere
  <2>5. /\ manifest'[d].st # "conflict" /\ cyc'[d].mem.st # "conflict"
        /\ cyc'[d].todo # "conflict"
    <3> USE <2>2, <2>3
    <3>0. /\ manifest[d] \in Entries /\ cyc[d] \in Cycles /\ manifest \in [Devices -> Entries]
          /\ cyc \in [Devices -> Cycles] /\ cyc[d].mem \in Entries
      BY Parts DEF TypeOK
    <3>1. CASE Edit(d)
      BY <3>0, <3>1 DEF Edit, Put, MarkPendingUpload, account, files, history, Entries,
         Cycles, NoCycle, NoEntry
    <3>2. CASE Delete(d)
      BY <3>0, <3>2 DEF Delete, Put, MarkDeleted, account, files, history, Entries, Cycles,
         NoCycle, NoEntry
    <3>3. CASE Resolve(d)
      BY <3>0, <3>3 DEF Resolve, Put, account, files, history, Entries, Cycles, NoCycle,
         NoEntry
    <3>4. CASE Begin(d)
      <4>1. Scanned(d).st # "conflict" /\ Scanned(d) \in Entries
        BY <3>0, EntryTypes DEF Scanned, WithoutPhantom
      <4> QED
        BY <3>0, <3>4, <4>1 DEF Begin, Goes, Put, Cycles
    <3>5. CASE Fetch(d)
      <4>1. MergeWithRemote(d, cyc[d].mem, RemoteView(d)) # "conflict"
        BY DEF MergeWithRemote
      <4> QED
        BY <3>0, <3>5, <4>1 DEF Fetch, Cycles
    <3>6. CASE Upload(d)
      BY <3>0, <3>6 DEF Upload, Goes, Put, Send, account, files, history, Entries, Cycles,
         NoCycle, NoEntry
    <3>7. CASE UploadMissing(d)
      <4>1. manifest'[d] \in {manifest[d], [manifest[d] EXCEPT !.st = "deleted", !.upd = Stamp]}
        BY <3>0, <3>7 DEF UploadMissing, MarkDeleted, Put
      <4>2. cyc'[d].mem \in {NoEntry, [cyc[d].mem EXCEPT !.st = "deleted"]}
            /\ cyc'[d].todo = cyc[d].todo
        BY <3>7, GoesTo DEF UploadMissing
      <4>3. /\ [manifest[d] EXCEPT !.st = "deleted", !.upd = Stamp].st = "deleted"
            /\ [cyc[d].mem EXCEPT !.st = "deleted"].st = "deleted" /\ NoEntry.st = "none"
        BY <3>0 DEF Entries, NoEntry
      <4> QED
        BY <4>1, <4>2, <4>3
    <3>8. CASE UploadFails(d)
      BY <3>0, <3>8 DEF UploadFails, Goes, account, files, history, Entries, Cycles,
         NoCycle, NoEntry
    <3>9. CASE Download(d)
      BY <3>0, <3>9 DEF Download, Install, Goes, Put, account, files, history, Entries,
         Cycles, NoCycle, NoEntry
    <3>10. CASE MergeNotes(d)
      BY <3>0, <3>10 DEF MergeNotes, Install, Put, account, files, history, Entries,
         Cycles, NoCycle, NoEntry
    <3>11. CASE DownloadFails(d)
      BY <3>0, <3>11 DEF DownloadFails, Goes, Put, account, files, history, Entries,
         Cycles, NoCycle, NoEntry
    <3>12. CASE ConflictCopy(d)
      BY <3>0, <3>12 DEF ConflictCopy, Goes, Put, account, files, history, Entries, Cycles,
         NoCycle, NoEntry
    <3>13. CASE Purge(d)
      <4>1. manifest' = manifest
        BY <3>13 DEF Purge
      <4> QED
        BY <3>13, <4>1, PurgeTo DEF NoEntry
    <3>14. CASE RetryUpload(d)
      <4>1. manifest'[d] \in {manifest[d], [manifest[d] EXCEPT !.st = "deleted", !.upd = Stamp]}
        BY <3>0, <3>14 DEF RetryUpload, MarkDeleted, Put
      <4> QED
        BY <3>0, <3>14, <4>1 DEF RetryUpload, Entries
    <3>15. CASE RetryDownload(d)
      BY <3>0, <3>15 DEF RetryDownload, Install, Put, account, files, history, Entries,
         Cycles, NoCycle, NoEntry
    <3>16. CASE Publish(d)
      BY <3>0, <3>16 DEF Publish, account, files, history, Entries, Cycles, NoCycle, NoEntry
    <3>17. CASE Save(d)
      BY <3>0, <3>17 DEF Save, Put, Goes, account, files, history, Entries, Cycles,
         NoCycle, NoEntry
    <3>18. CASE Sweep(d)
      BY <3>0, <3>18 DEF Sweep, Put, account, files, history, Entries, Cycles, NoCycle,
         NoEntry
    <3>19. CASE CycleFails(d)
      BY <3>0, <3>19 DEF CycleFails, Put, account, files, history, Entries, Cycles,
         NoCycle, NoEntry
    <3>20. CASE Crash(d)
      BY <3>0, <3>20 DEF Crash, Put, account, files, history, Entries, Cycles, NoCycle,
         NoEntry
    <3> QED
      BY <2>1, <3>1, <3>2, <3>3, <3>4, <3>5, <3>6, <3>7, <3>8, <3>9, <3>10, <3>11, <3>12,
         <3>13, <3>14, <3>15, <3>16, <3>17, <3>18, <3>19, <3>20 DEF Step, User, Cycle
  <2> QED
    BY <2>4, <2>5
<1> QED
  BY <1>1, <1>2

\* In every state, of whatever bounds, nothing waits for the user on notes.
LEMMA NotesHolds == Spec => [](TypeOK /\ NotesNeverConflict)
<1>1. Init => NotesNeverConflict
  BY DEF Init, NotesNeverConflict, NoEntry, NoCycle
<1> QED
  BY <1>1, TypeCorrect, NotesStep, PTL DEF Spec

\* No step of the synchronisation takes a note away from a device, with any number of
\* devices, transfers that fail, crashes and writes while cycles run.
THEOREM NotesTheorem == Spec => NotesOnlyGrow
<1>1. ASSUME TypeOK, NotesNeverConflict, [Next]_vars, kind = "notes", NEW e \in Devices
      PROVE  disk[e].edits \subseteq disk'[e].edits
  <2>1. CASE UNCHANGED vars
    BY <2>1 DEF vars
  <2>2. CASE Next
    <3>1. PICK d \in Devices : Step(d)
      BY <2>2 DEF Next, Step
    <3>2. CASE e # d
      BY <1>1, <3>1, <3>2, Elsewhere DEF SameElsewhere
    <3>3. CASE e = d
      <4>0. disk \in [Devices -> Blobs] /\ manifest[d].st # "conflict"
        BY <1>1 DEF TypeOK, NotesNeverConflict
      <4>1. CASE Edit(d)
        BY <3>3, <4>0, <4>1 DEF Edit, Put
      <4>2. Install(d) => disk[d].edits \subseteq disk'[d].edits
        <5>1. disk[d].edits \subseteq Merged(d).edits
          BY <1>1, <4>0 DEF Merged
        <5> QED
          BY <4>0, <5>1 DEF Install, Put
      <4>3. CASE MergeNotes(d) \/ RetryDownload(d)
        BY <3>3, <4>2, <4>3 DEF MergeNotes, RetryDownload
      <4>4. CASE Delete(d) \/ Resolve(d) \/ Download(d)
        BY <1>1, <4>0, <4>4 DEF Delete, Resolve, Download
      <4>5. CASE ~(Edit(d) \/ MergeNotes(d) \/ RetryDownload(d)
                   \/ Delete(d) \/ Resolve(d) \/ Download(d))
        <5>1. UNCHANGED disk
          BY <3>1, <4>5 DEF Step, User, Cycle, Begin, Fetch, Upload, UploadMissing,
             UploadFails, DownloadFails, ConflictCopy, Purge, RetryUpload, Publish, Save,
             Sweep, CycleFails, Crash, files
        <5> QED
          BY <3>3, <5>1
      <4> QED
        BY <4>1, <4>3, <4>4, <4>5
    <3> QED
      BY <3>2, <3>3
  <2> QED
    BY <1>1, <2>1, <2>2
<1>2. TypeOK /\ NotesNeverConflict /\ [Next]_vars
        => [kind = "notes" => \A d \in Devices : disk[d].edits \subseteq disk'[d].edits]_vars
  BY <1>1
<1> QED
  BY <1>2, NotesHolds, PTL DEF Spec, NotesOnlyGrow

-----------------------------------------------------------------------------
(***************************************************************************)
(* What a step does to the bytes and to their history.                     *)
(***************************************************************************)
\* What is written by a merge was on the device or on the account.
LEMMA MergedEdits ==
    ASSUME NEW d PROVE /\ Merged(d).edits \subseteq disk[d].edits \cup store.edits
                       /\ kind # "notes" => Merged(d) = store
  BY DEF Merged

\* The steps that leave the bytes and their history alone.
LEMMA Idle ==
    ASSUME NEW d \in Devices, Step(d),
           ~(\/ Edit(d) \/ Delete(d) \/ Resolve(d) \/ Upload(d) \/ Download(d)
             \/ MergeNotes(d) \/ Purge(d) \/ RetryUpload(d) \/ RetryDownload(d))
    PROVE  UNCHANGED <<disk, store, sent, wrote, edits>>
  BY DEF Step, User, Cycle, Begin, Fetch, UploadMissing, UploadFails, DownloadFails,
     ConflictCopy, Publish, Save, Sweep, CycleFails, Crash, account, files, history

\* Bytes are made of edits of the users, and the account has what was sent.
LEMMA NumberedStep ==
    ASSUME TypeOK, Numbered, [Next]_vars PROVE Numbered'
<1>1. CASE UNCHANGED vars
  BY <1>1 DEF vars, Numbered
<1>2. ASSUME NEW d \in Devices, Step(d) PROVE Numbered'
  <2> USE DEF Numbered, TypeOK
  <2>0. /\ \A e \in Devices : disk[e].edits \subseteq 1..edits
        /\ Merged(d).edits \subseteq 1..edits
    BY MergedEdits
  <2>1. CASE Edit(d)
    <3>1. edits' = edits + 1 /\ 1..edits \subseteq 1..edits' /\ edits' \in 1..edits'
      BY <2>1 DEF Edit
    <3> QED
      BY <2>0, <2>1, <3>1 DEF Edit, Put, account
  <2>2. CASE Delete(d)
    <3>1. edits' = edits + 1 /\ 1..edits \subseteq 1..edits' /\ NoBlob.edits = {}
      BY <2>2 DEF Delete, NoBlob
    <3> QED
      BY <2>0, <2>2, <3>1 DEF Delete, Put, account
  <2>3. CASE Resolve(d)
    <3>1. disk' \in {disk, Put(disk, d, store)} /\ sent' \in {sent, sent \cup disk[d].edits}
          /\ UNCHANGED <<store, edits>>
      BY <2>3 DEF Resolve, account
    <3> QED
      BY <2>0, <3>1 DEF Put
  <2>4. CASE Upload(d)
    BY <2>0, <2>4 DEF Upload, Send, files, history
  <2>5. CASE Download(d) \/ MergeNotes(d)
    <3>1. disk' = Put(disk, d, Merged(d)) /\ UNCHANGED <<store, sent, edits>>
      BY <2>5 DEF Download, MergeNotes, Install, account, history
    <3> QED
      BY <2>0, <3>1 DEF Put
  <2>6. CASE Purge(d)
    BY <2>0, <2>6 DEF Purge, NoBlob, files, history
  <2>7. CASE RetryUpload(d)
    BY <2>0, <2>7 DEF RetryUpload, Send, files, history
  <2>8. CASE RetryDownload(d)
    <3>1. /\ disk' \in {disk, Put(disk, d, Merged(d))} /\ UNCHANGED edits
          /\ \/ UNCHANGED <<store, sent>>
             \/ store' = Merged(d) /\ sent' = sent \cup Merged(d).edits
      BY <2>8 DEF RetryDownload, Install, history
    <3> QED
      BY <2>0, <3>1 DEF Put
  <2> QED
    BY <1>2, <2>0, <2>1, <2>2, <2>3, <2>4, <2>5, <2>6, <2>7, <2>8, Idle
<1> QED
  BY <1>1, <1>2 DEF Next, Step

\* What was sent stays sent, and only a writing user adds to what must be.
LEMMA HistoryStep ==
    ASSUME NEW d \in Devices, Step(d)
    PROVE  /\ sent \subseteq sent'
           /\ wrote' \subseteq wrote \cup {edits + 1}
           /\ ~Edit(d) => wrote' \subseteq wrote
<1>1. CASE Edit(d)
  BY <1>1 DEF Edit
<1>2. CASE Delete(d) \/ Resolve(d)
  BY <1>2 DEF Delete, Resolve
<1>3. CASE Upload(d) \/ RetryUpload(d) \/ RetryDownload(d)
  BY <1>3 DEF Upload, RetryUpload, RetryDownload, Send, history
<1>4. CASE Download(d) \/ MergeNotes(d) \/ Purge(d)
  BY <1>4 DEF Download, MergeNotes, Purge, history
<1> QED
  BY <1>1, <1>2, <1>3, <1>4, Idle

\* A conflict copy is never taken back.
LEMMA CopiesStep ==
    ASSUME TypeOK, NEW d \in Devices, Step(d), NEW e \in Devices
    PROVE  InCopies(e) \subseteq InCopies(e)'
<1>1. CASE ~ConflictCopy(d)
  <2>1. UNCHANGED copies
    BY <1>1 DEF Step, User, Cycle, Edit, Delete, Resolve, Begin, Fetch, Upload,
       UploadMissing,
       UploadFails, Download, MergeNotes, DownloadFails, Purge, RetryUpload,
       RetryDownload, Publish, Save, Sweep, CycleFails, Crash, files
  <2> QED
    BY <2>1 DEF InCopies
<1>2. CASE ConflictCopy(d)
  <2>1. PICK c \in Copies : copies' \in {copies, Put(copies, d, Append(copies[d], c))}
    BY <1>2, CopyType DEF ConflictCopy
  <2>2. \A q \in Seq(Copies) :
           /\ DOMAIN q \subseteq DOMAIN Append(q, c)
           /\ \A i \in DOMAIN q : Append(q, c)[i] = q[i]
    OBVIOUS
  <2>3. /\ DOMAIN copies[e] \subseteq DOMAIN copies'[e]
        /\ \A i \in DOMAIN copies[e] : copies'[e][i] = copies[e][i]
    <3>1. copies[e] \in Seq(Copies) /\ copies'[e] \in {copies[e], Append(copies[e], c)}
      BY <2>1 DEF Put, TypeOK
    <3> QED
      BY <2>2, <3>1
  <2> QED
    BY <2>3 DEF InCopies
<1> QED
  BY <1>1, <1>2

\* What a device may come to show.
LEMMA DiskStep ==
    ASSUME TypeOK, kind # "notes", NEW d \in Devices, Step(d), NEW e \in Devices
    PROVE  \/ disk'[e] \in {disk[e], NoBlob, store}
           \/ e = d /\ Edit(d)
<1> USE DEF TypeOK
<1>1. CASE Edit(d)
  BY <1>1 DEF Edit, Put
<1>2. CASE Delete(d)
  BY <1>2 DEF Delete, Put
<1>3. CASE Resolve(d)
  <2>1. disk' \in {disk, Put(disk, d, store)}
    BY <1>3 DEF Resolve
  <2> QED
    BY <2>1 DEF Put
<1>4. CASE Download(d) \/ RetryDownload(d)
  <2>1. disk' \in {disk, Put(disk, d, store)}
    BY <1>4, MergedEdits DEF Download, RetryDownload, Install
  <2> QED
    BY <2>1 DEF Put
<1>5. CASE Upload(d) \/ Purge(d) \/ RetryUpload(d) \/ MergeNotes(d)
  BY <1>5 DEF Upload, Purge, RetryUpload, MergeNotes, files
<1> QED
  BY <1>1, <1>2, <1>3, <1>4, <1>5, Idle

\* What was sent, copied aside or discarded is so for ever, until the user writes again.
LEMMA KeptStep ==
    ASSUME TypeOK, Numbered, kind # "notes", NEW d \in Devices, Step(d), NEW e \in Devices,
           Kept(e), ~(e = d /\ Edit(d))
    PROVE  Kept(e)'
<1>1. disk'[e] \in {disk[e], NoBlob, store} /\ NoBlob.edits = {}
  BY DiskStep DEF NoBlob
<1>2. /\ sent \subseteq sent' /\ InCopies(e) \subseteq InCopies(e)' /\ store.edits \subseteq sent
      /\ wrote' \subseteq wrote \cup {edits + 1}
  BY HistoryStep, CopiesStep DEF Numbered
<1>3. edits + 1 \notin disk[e].edits
  BY DEF Numbered, TypeOK
<1> QED
  BY <1>1, <1>2, <1>3 DEF Kept

-----------------------------------------------------------------------------
(***************************************************************************)
(* The cycle spares what only the device has.                              *)
(***************************************************************************)
\* The clock goes on.
LEMMA ClockStep ==
    ASSUME TypeOK, NEW d \in Devices, Step(d) PROVE now' \in {now, now + 1}
  BY DEF Step, User, Cycle, Edit, Delete, Resolve, Begin, Fetch, Upload, UploadMissing,
     UploadFails, Download, MergeNotes, DownloadFails, ConflictCopy, Purge, RetryUpload,
     RetryDownload, Publish, Save, Sweep, CycleFails, Crash, Install, Tick, Stamp

\* No entry is stamped later than now, and a cycle that ended holds none.
LEMMA StampedStep ==
    ASSUME TypeOK, Stamped, [Next]_vars PROVE Stamped'
<1>1. CASE UNCHANGED vars
  BY <1>1 DEF vars, Stamped
<1>2. ASSUME NEW d \in Devices, Step(d), NEW e \in Devices
      PROVE  /\ cyc'[e].pc = "idle" => cyc'[e].mem = NoEntry
             /\ manifest'[e].syn <= now' /\ cyc'[e].mem.syn <= now'
  <2>0. /\ manifest[e] \in Entries /\ cyc[e] \in Cycles /\ manifest \in [Devices -> Entries]
        /\ cyc \in [Devices -> Cycles] /\ cyc[e].mem \in Entries /\ now \in Nat
        /\ cyc[e].pc = "idle" => cyc[e].mem = NoEntry
        /\ manifest[e].syn <= now /\ cyc[e].mem.syn <= now /\ now' \in {now, now + 1}
        /\ manifest[e].syn \in Nat /\ cyc[e].mem.syn \in Nat
        /\ NoEntry.syn = 0 /\ NoCycle.mem = NoEntry
    BY <1>2, Parts, ClockStep DEF TypeOK, Stamped, Entries, NoEntry, NoCycle
  <2>1. CASE e # d
    BY <1>2, <2>0, <2>1, Elsewhere DEF SameElsewhere
  <2>2. CASE e = d
    <3> USE <2>0, <2>2
    <3>1. CASE Edit(d)
      BY <3>1 DEF Edit, Put, MarkPendingUpload, account, files, history, Entries, Cycles,
         Tick, Stamp
    <3>2. CASE Delete(d)
      BY <3>2 DEF Delete, Put, MarkDeleted, account, files, history, Entries, Cycles, Tick,
         Stamp
    <3>3. CASE Resolve(d)
      BY <3>3 DEF Resolve, Put, account, files, history, Entries, Cycles, Tick, Stamp
    <3>4. CASE Begin(d)
      <4>1. Scanned(d).syn <= now
        BY DEF Scanned, WithoutPhantom, Entries
      <4> QED
        BY <1>2, <3>4, <4>1, GoesTo DEF Begin, Put
    <3>5. CASE Fetch(d)
      <4>1. cyc'[d].pc # "idle" /\ cyc'[d].mem = cyc[d].mem
        BY <3>5 DEF Fetch, AfterWork, Cycles
      <4> QED
        BY <3>5, <4>1 DEF Fetch
    <3>6. CASE Upload(d)
      BY <3>6 DEF Upload, Goes, Put, Send, account, files, history, Entries, Cycles, Tick,
         Stamp
    <3>7. CASE UploadMissing(d)
      <4>1. manifest'[d].syn = manifest[d].syn /\ now' = now + 1
        <5>1. now' = now + 1 /\ (UNCHANGED manifest \/ MarkDeleted(d))
          BY <3>7 DEF UploadMissing, Tick, Stamp
        <5>2. manifest'[d].syn = manifest[d].syn
          BY <5>1 DEF MarkDeleted, Put, Entries
        <5> QED
          BY <5>1, <5>2
      <4>2. /\ cyc'[d].mem.syn \in {0, cyc[d].mem.syn}
            /\ cyc'[d].pc \in {"queue", "purge"}
        BY <1>2, <3>7, GoesTo DEF UploadMissing, Entries
      <4> QED
        BY <4>1, <4>2
    <3>8. CASE UploadFails(d)
      BY <3>8 DEF UploadFails, Goes, account, files, history, Entries, Cycles, Tick, Stamp
    <3>9. CASE Download(d)
      BY <3>9 DEF Download, Install, Goes, Put, account, files, history, Entries, Cycles,
         Tick, Stamp
    <3>10. CASE MergeNotes(d)
      BY <3>10 DEF MergeNotes, Install, Put, account, files, history, Entries, Cycles,
         Tick, Stamp
    <3>11. CASE DownloadFails(d)
      BY <3>11 DEF DownloadFails, Goes, Put, account, files, history, Entries, Cycles,
         Tick, Stamp
    <3>12. CASE ConflictCopy(d)
      BY <3>12 DEF ConflictCopy, Goes, Put, account, files, history, Entries, Cycles, Tick,
         Stamp
    <3>13. CASE Purge(d)
      <4>1. manifest' = manifest
        BY <3>13 DEF Purge
      <4> QED
        BY <1>2, <3>13, <4>1, PurgeTo
    <3>14. CASE RetryUpload(d)
      <4>1. manifest'[d].syn = manifest[d].syn /\ UNCHANGED cyc
        <5>1. UNCHANGED manifest \/ MarkDeleted(d)
          BY <3>14 DEF RetryUpload
        <5>2. manifest'[d].syn = manifest[d].syn
          BY <5>1 DEF MarkDeleted, Put, Entries
        <5> QED
          BY <3>14, <5>2 DEF RetryUpload
      <4> QED
        BY <3>14, <4>1
    <3>15. CASE RetryDownload(d)
      BY <3>15 DEF RetryDownload, Install, Put, account, files, history, Entries, Cycles,
         Tick, Stamp
    <3>16. CASE Publish(d)
      BY <3>16 DEF Publish, account, files, history, Entries, Cycles, Tick, Stamp
    <3>17. CASE Save(d)
      BY <3>17 DEF Save, Put, Goes, account, files, history, Entries, Cycles, Tick, Stamp
    <3>18. CASE Sweep(d)
      BY <3>18 DEF Sweep, Put, account, files, history, Entries, Cycles, Tick, Stamp
    <3>19. CASE CycleFails(d)
      BY <3>19 DEF CycleFails, Put, account, files, history, Entries, Cycles, Tick, Stamp
    <3>20. CASE Crash(d)
      BY <3>20 DEF Crash, Put, account, files, history, Entries, Cycles, Tick, Stamp
    <3> QED
      BY <1>2, <3>1, <3>2, <3>3, <3>4, <3>5, <3>6, <3>7, <3>8, <3>9, <3>10, <3>11, <3>12,
         <3>13, <3>14, <3>15, <3>16, <3>17, <3>18, <3>19, <3>20 DEF Step, User, Cycle
  <2> QED
    BY <2>1, <2>2
<1> QED
  BY <1>1, <1>2 DEF Next, Step, Stamped

\* What the merge takes for untouched was sent: only then does it decide a download.
LEMMA DownloadIsSpared ==
    ASSUME kind # "notes", NEW d, NEW l, NEW r, MergeWithRemote(d, l, r) = "download"
    PROVE  l = NoEntry \/ (l.syn # 0 /\ ~(l.upd > l.syn))
  BY DEF MergeWithRemote, Unpushed

\* The device of a step: nothing it has only itself is taken for sent.
LEMMA CoveredThere ==
    ASSUME MidCycle \subseteq {"notes"}, TypeOK, Numbered, Stamped, Covered, kind # "notes",
           NEW d \in Devices, Step(d)
    PROVE  /\ Covers(manifest[d], d)' /\ Covers(cyc[d].mem, d)'
           /\ cyc'[d].pc = "fetch" /\ cyc'[d].mem = NoEntry => Kept(d)'
           /\ cyc'[d].pc = "work" /\ cyc'[d].todo = "download" => Kept(d)'
<1> DEFINE Goal == /\ Covers(manifest[d], d)' /\ Covers(cyc[d].mem, d)'
                   /\ cyc'[d].pc = "fetch" /\ cyc'[d].mem = NoEntry => Kept(d)'
                   /\ cyc'[d].pc = "work" /\ cyc'[d].todo = "download" => Kept(d)'
<1> SUFFICES Goal
  OBVIOUS
<1>1. Kept(d)' => Goal
  BY DEF Covers
<1> HIDE DEF Goal
<1>2. Kept(d) /\ ~Edit(d) => Kept(d)'
  BY KeptStep
<1>3. NoEntry.syn = 0 /\ NoCycle.mem = NoEntry /\ NoCycle.pc = "idle" /\ NoBlob.edits = {}
  BY DEF NoEntry, NoCycle, NoBlob
<1>4. Missing(d) => Kept(d)
  BY <1>3 DEF Missing, Kept
<1>5. /\ manifest[d] \in Entries /\ manifest \in [Devices -> Entries]
      /\ cyc[d] \in Cycles /\ cyc \in [Devices -> Cycles] /\ cyc[d].mem \in Entries
      /\ mtime \in [Devices -> Nat] /\ mtime[d] \in Nat /\ now \in Nat
      /\ disk \in [Devices -> Blobs] /\ store.edits \subseteq sent
      /\ manifest[d].syn <= now /\ cyc[d].mem.syn <= now
      /\ cyc[d].pc = "idle" => cyc[d].mem = NoEntry
  BY Parts DEF TypeOK, Numbered, Stamped
<1>6. Covers(manifest[d], d) /\ Covers(cyc[d].mem, d)
  BY DEF Covered
<1>7. \A e, f : (e.syn = 0 \/ (e.syn = f.syn /\ e.upd = f.upd)) /\ Covers(f, d) /\ mtime'[d] = mtime[d]
         /\ ~Kept(d) => Covers(e, d)
  BY DEF Covers
<1>8. CASE Edit(d)
  <2>1. cyc[d].pc = "idle" /\ cyc'[d] = cyc[d]
    BY <1>8 DEF Edit
  <2>2. /\ manifest'[d].syn = manifest[d].syn
        /\ manifest'[d].upd = now + 1 /\ mtime'[d] = now + 1
    BY <1>5, <1>8 DEF Edit, MarkPendingUpload, Put, Stamp, Entries
  <2>3. manifest[d].syn \in Nat
    BY <1>5 DEF Entries
  <2>4. Covers(manifest[d], d)'
    BY <1>5, <2>2, <2>3 DEF Covers
  <2>5. Covers(cyc[d].mem, d)'
    BY <1>3, <1>5, <2>1 DEF Covers
  <2> QED
    BY <1>3, <2>1, <2>4, <2>5 DEF Goal
<1>9. CASE ~Edit(d) /\ Kept(d)
  BY <1>1, <1>2, <1>9
<1>10. ASSUME ~Kept(d), mtime'[d] = mtime[d],
              manifest'[d].syn = 0 \/ (/\ manifest'[d].syn = manifest[d].syn
                                       /\ manifest'[d].upd \in {manifest[d].upd, mtime[d]}),
              cyc'[d].mem.syn = 0 \/ (/\ cyc'[d].mem.syn = cyc[d].mem.syn
                                      /\ cyc'[d].mem.upd = cyc[d].mem.upd),
              cyc'[d].pc \notin {"fetch", "work"}
       PROVE  Goal
  BY <1>6, <1>10 DEF Covers, Goal
<1>11. CASE Delete(d)
  <2>1. disk'[d] = NoBlob
    BY <1>5, <1>11 DEF Delete, Put
  <2> QED
    BY <1>1, <1>3, <2>1 DEF Kept
<1>12. CASE Resolve(d)
  <2>1. \/ disk'[d] = disk[d] /\ (\/ disk[d].edits \subseteq sent'
                                   \/ wrote' \cap disk[d].edits \subseteq store.edits)
        \/ disk'[d] = store
    BY <1>5, <1>12 DEF Resolve, Put
  <2>2. sent \subseteq sent'
    BY <1>12, HistoryStep
  <2> QED
    BY <1>1, <1>5, <2>1, <2>2 DEF Kept
<1>13. CASE Upload(d) \/ (RetryUpload(d) /\ Send(d))
  <2>1. disk'[d] = disk[d] /\ sent' = sent \cup disk[d].edits
    BY <1>13 DEF Upload, RetryUpload, Send, files
  <2> QED
    BY <1>1, <2>1 DEF Kept
<1>14. CASE (Download(d) \/ RetryDownload(d)) /\ Install(d)
  <2>1. disk'[d] = store
    BY <1>5, <1>14, MergedEdits DEF Install, Put
  <2>2. sent \subseteq sent'
    BY <1>14, HistoryStep
  <2>3. disk'[d].edits \subseteq sent'
    BY <1>5, <2>1, <2>2
  <2> QED
    BY <1>1, <2>3 DEF Kept
<1>15. CASE ~Kept(d) /\ Begin(d)
  <2>1. /\ mtime'[d] = mtime[d] /\ manifest'[d] = Scanned(d)
        /\ cyc'[d].mem = Scanned(d) /\ cyc'[d].pc = "fetch"
    BY <1>5, <1>15, GoesTo DEF Begin, Put, files
  <2>2. \/ Scanned(d).syn = 0
        \/ /\ Scanned(d).syn = manifest[d].syn
           /\ Scanned(d).upd \in {manifest[d].upd, mtime[d]}
    BY <1>5 DEF Scanned, WithoutPhantom, Entries
  <2>3. Scanned(d) # NoEntry
    <3>1. SUFFICES ASSUME Scanned(d) = NoEntry PROVE FALSE
      OBVIOUS
    <3>2. NoEntry.st = "none" /\ NoEntry.sum = NoBlob
      BY DEF NoEntry
    <3>3. Unchanged(d, WithoutPhantom(d, manifest[d])) /\ WithoutPhantom(d, manifest[d]) = NoEntry
      BY <3>1, <3>2 DEF Scanned
    <3>4. Missing(d)
      BY <3>2, <3>3 DEF Unchanged, KeepsOpenConflict, Missing
    <3> QED
      BY <1>4, <1>15, <3>4
  <2> QED
    BY <1>6, <1>15, <2>1, <2>2, <2>3 DEF Covers, Goal
<1>16. CASE ~Kept(d) /\ Fetch(d)
  <2>1. /\ mtime'[d] = mtime[d] /\ manifest'[d] = manifest[d]
        /\ cyc'[d].mem = cyc[d].mem /\ cyc'[d].pc # "fetch"
        /\ cyc'[d].todo = MergeWithRemote(d, cyc[d].mem, RemoteView(d))
    BY <1>5, <1>16 DEF Fetch, AfterWork, Cycles, files
  <2>2. cyc'[d].todo # "download"
    <3>1. cyc[d].mem # NoEntry
      BY <1>16 DEF Fetch, Covered
    <3>2. ~(cyc[d].mem.syn # 0 /\ cyc[d].mem.upd <= cyc[d].mem.syn)
      BY <1>6, <1>16 DEF Covers
    <3>3. cyc[d].mem.syn \in Nat /\ cyc[d].mem.upd \in Nat
      BY <1>5 DEF Entries
    <3> QED
      BY <2>1, <3>1, <3>2, <3>3, DownloadIsSpared
  <2> QED
    BY <1>6, <1>16, <2>1, <2>2 DEF Covers, Goal
<1>17. CASE ~Kept(d) /\ (UploadFails(d) \/ DownloadFails(d) \/ ConflictCopy(d))
  <2>1. /\ mtime'[d] = mtime[d] /\ cyc'[d].pc = "queue"
        /\ manifest'[d].syn = manifest[d].syn /\ manifest'[d].upd = manifest[d].upd
    BY <1>5, <1>17, GoesTo DEF UploadFails, DownloadFails, ConflictCopy, Put, files, Entries
  <2>2. cyc'[d].mem.syn = cyc[d].mem.syn /\ cyc'[d].mem.upd = cyc[d].mem.upd
    BY <1>5, <1>17, GoesTo DEF UploadFails, DownloadFails, ConflictCopy, Entries
  <2> QED
    BY <1>10, <1>17, <2>1, <2>2
<1>18. CASE ~Kept(d) /\ (UploadMissing(d) \/ MergeNotes(d))
  BY <1>4, <1>18 DEF UploadMissing, MergeNotes
<1>19. CASE ~Kept(d) /\ Purge(d)
  <2>1. mtime' = mtime /\ manifest' = manifest
    BY <1>19 DEF Purge, files
  <2> QED
    BY <1>3, <1>10, <1>19, <2>1, PurgeTo
<1>20. CASE ~Kept(d) /\ RetryUpload(d) /\ ~Send(d)
  <2>1. manifest[d] = NoEntry
    BY <1>4, <1>20 DEF RetryUpload
  <2>2. UNCHANGED <<mtime, manifest, cyc>> /\ cyc[d].pc = "queue"
    BY <1>3, <1>20, <2>1 DEF RetryUpload, files
  <2> QED
    BY <1>10, <1>20, <2>2
<1>21. CASE ~Kept(d) /\ RetryDownload(d) /\ ~Install(d)
  <2>1. UNCHANGED <<mtime, manifest, cyc>> /\ cyc[d].pc = "queue"
    BY <1>21 DEF RetryDownload
  <2> QED
    BY <1>10, <1>21, <2>1
<1>22. CASE ~Kept(d) /\ Publish(d)
  <2>1. UNCHANGED <<mtime, manifest>>
    BY <1>22 DEF Publish, files
  <2>2. cyc'[d] = [cyc[d] EXCEPT !.pc = "save"]
    BY <1>5, <1>22 DEF Publish
  <2>3. cyc'[d].pc = "save" /\ cyc'[d].mem = cyc[d].mem
    BY <1>5, <2>2 DEF Cycles
  <2> QED
    BY <1>10, <1>22, <2>1, <2>3
<1>23. CASE ~Kept(d) /\ Save(d)
  <2>1. /\ mtime'[d] = mtime[d] /\ manifest'[d] = cyc[d].mem
        /\ cyc'[d].mem = cyc[d].mem /\ cyc'[d].pc = "sweep"
    BY <1>5, <1>23, GoesTo DEF Save, Put, files
  <2> QED
    BY <1>6, <1>23, <2>1 DEF Covers, Goal
<1>24. CASE ~Kept(d) /\ (Sweep(d) \/ CycleFails(d) \/ Crash(d))
  <2>1. /\ mtime'[d] = mtime[d] /\ cyc'[d] = NoCycle
        /\ manifest'[d].syn = manifest[d].syn /\ manifest'[d].upd = manifest[d].upd
    BY <1>5, <1>24 DEF Sweep, CycleFails, Crash, Put, files, Entries
  <2> QED
    BY <1>3, <1>10, <1>24, <2>1
<1>25. (Download(d) => Install(d)) /\ (Kept(d) \/ ~Kept(d))
  BY DEF Download
<1>26. Edit(d) \/ Delete(d) \/ Resolve(d) \/ Cycle(d) \/ Crash(d)
  BY DEF Step, User
<1>27. ASSUME Cycle(d) PROVE Goal
  <2>1. CASE Begin(d) \/ Fetch(d) \/ Upload(d) \/ UploadMissing(d) \/ UploadFails(d)
    BY <1>9, <1>13, <1>15, <1>16, <1>17, <1>18, <2>1, <1>25, <1>8
  <2>2. CASE Download(d) \/ MergeNotes(d) \/ DownloadFails(d) \/ ConflictCopy(d) \/ Purge(d)
    BY <1>9, <1>14, <1>17, <1>18, <1>19, <2>2, <1>25, <1>8
  <2>3. CASE RetryUpload(d) \/ RetryDownload(d) \/ Publish(d) \/ Save(d) \/ Sweep(d)
                \/ CycleFails(d)
    BY <1>9, <1>13, <1>14, <1>20, <1>21, <1>22, <1>23, <1>24, <2>3, <1>25, <1>8
  <2> QED
    BY <1>27, <2>1, <2>2, <2>3 DEF Cycle
<1> QED
  BY <1>8, <1>9, <1>11, <1>12, <1>24, <1>25, <1>26, <1>27

\* Whichever device moves, nothing a device has only itself is taken for sent.
LEMMA CoveredStep ==
    ASSUME MidCycle \subseteq {"notes"}, TypeOK, Numbered, Stamped, Covered, [Next]_vars
    PROVE  Covered'
<1>1. CASE UNCHANGED vars
  BY <1>1 DEF vars, Covered, Covers, Kept, InCopies
<1>2. ASSUME NEW d \in Devices, Step(d), kind # "notes", NEW e \in Devices
      PROVE  /\ Covers(manifest[e], e)' /\ Covers(cyc[e].mem, e)'
             /\ cyc'[e].pc = "fetch" /\ cyc'[e].mem = NoEntry => Kept(e)'
             /\ cyc'[e].pc = "work" /\ cyc'[e].todo = "download" => Kept(e)'
  <2>1. CASE e = d
    BY <1>2, <2>1, CoveredThere
  <2>2. CASE e # d
    <3>1. Kept(e) => Kept(e)'
      BY <1>2, <2>2, KeptStep
    <3>2. /\ manifest'[e] = manifest[e] /\ mtime'[e] = mtime[e]
          /\ cyc'[e].mem = cyc[e].mem /\ cyc'[e].pc = cyc[e].pc /\ cyc'[e].todo = cyc[e].todo
      BY <1>2, <2>2, Elsewhere DEF SameElsewhere
    <3>3. Covers(manifest[e], e)' /\ Covers(cyc[e].mem, e)'
      BY <1>2, <3>1, <3>2 DEF Covered, Covers
    <3> QED
      BY <1>2, <3>1, <3>2, <3>3 DEF Covered
  <2> QED
    BY <2>1, <2>2
<1>3. ASSUME NEW d \in Devices, Step(d) PROVE kind' = kind
  BY <1>3 DEF Step, User, Cycle, Edit, Delete, Resolve, Begin, Fetch, Upload, UploadMissing,
     UploadFails, Download, MergeNotes, DownloadFails, ConflictCopy, Purge, RetryUpload,
     RetryDownload, Publish, Save, Sweep, CycleFails, Crash
<1> QED
  BY <1>1, <1>2, <1>3 DEF Next, Step, Covered

\* While a cycle works, what its device loses was sent before, or is copied aside.
LEMMA SparesStep ==
    ASSUME TypeOK, Numbered, Covered, NEW d \in Devices, Step(d),
           NEW e \in Devices, cyc[e].pc = "work"
    PROVE  (disk[e].edits \cap wrote') \ sent \subseteq disk'[e].edits \cup InCopies(e)'
<1>1. CASE disk'[e] = disk[e]
  BY <1>1
<1>2. CASE e = d
  <2>1. disk \in [Devices -> Blobs] /\ NoBlob.edits = {}
    BY DEF TypeOK, NoBlob
  <2>2. CASE Edit(d)
    <3>1. disk'[d].edits = disk[d].edits \cup {edits'}
      BY <2>1, <2>2 DEF Edit, Put
    <3> QED
      BY <1>2, <3>1
  <2>3. CASE Delete(d)
    <3>1. disk[d].edits \cap wrote' = {}
      BY <2>3 DEF Delete
    <3> QED
      BY <1>2, <3>1
  <2>4. CASE Resolve(d)
    <3>1. \/ disk' = disk
          \/ wrote' = wrote \ (disk[d].edits \ store.edits) /\ disk'[d] = store
      BY <2>1, <2>4 DEF Resolve, Put
    <3> QED
      BY <1>2, <3>1
  <2>5. CASE Download(d)
    <3>1. kind # "notes" /\ (cyc[d].todo = "download" \/ Missing(d))
      BY <2>5 DEF Download, Downloads
    <3>2. Kept(d)
      BY <1>2, <2>1, <3>1 DEF Covered, Kept, Missing
    <3>3. wrote' \subseteq wrote /\ InCopies(d) \subseteq InCopies(d)'
      BY <2>5, CopiesStep DEF Download, history
    <3> QED
      BY <1>2, <3>2, <3>3 DEF Kept
  <2>6. CASE MergeNotes(d)
    <3>1. disk'[d] = Merged(d) /\ kind = "notes"
      BY <2>1, <2>6 DEF MergeNotes, Install, Put
    <3>2. disk[d].edits \subseteq Merged(d).edits
      BY <3>1 DEF Merged
    <3> QED
      BY <1>2, <3>1, <3>2
  <2>7. CASE Upload(d) \/ Purge(d) \/ RetryUpload(d) \/ RetryDownload(d)
    <3>1. disk' = disk
      BY <1>2, <2>7 DEF Upload, Purge, RetryUpload, RetryDownload, files
    <3> QED
      BY <1>1, <3>1
  <2> QED
    BY <1>1, <2>2, <2>3, <2>4, <2>5, <2>6, <2>7, Idle
<1>3. CASE e # d
  BY <1>1, <1>3, Elsewhere DEF SameElsewhere
<1> QED
  BY <1>2, <1>3

\* What holds of every state, when the user writes only notes while a cycle runs.
SyncInvariant == TypeOK /\ Numbered /\ Stamped /\ Covered

LEMMA SyncHolds ==
    ASSUME MidCycle \subseteq {"notes"} PROVE Spec => []SyncInvariant
<1>1. Init => SyncInvariant
  <2>1. ASSUME Init PROVE TypeOK
    BY <2>1, SyncAssumption, NothingTypes DEF Init, TypeOK
  <2>2. ASSUME Init PROVE Numbered /\ Stamped /\ Covered
    <3>1. /\ NoBlob.edits = {} /\ NoCycle.mem = NoEntry /\ NoCycle.pc = "idle"
          /\ NoEntry.syn = 0
      BY DEF NoBlob, NoCycle, NoEntry
    <3>2. now = 0 /\ sent = {} /\ edits = 0 /\ store = NoBlob
      BY <2>2 DEF Init
    <3>3. \A d \in Devices : manifest[d] = NoEntry /\ cyc[d] = NoCycle /\ disk[d] = NoBlob
      BY <2>2 DEF Init
    <3>4. Numbered
      BY <3>1, <3>2, <3>3 DEF Numbered
    <3>5. Stamped
      BY <3>1, <3>2, <3>3 DEF Stamped
    <3>6. Covered
      BY <3>1, <3>3 DEF Covered, Covers
    <3> QED
      BY <3>4, <3>5, <3>6
  <2> QED
    BY <2>1, <2>2 DEF SyncInvariant
<1>2. SyncInvariant /\ [Next]_vars => SyncInvariant'
  BY TypeStep, NumberedStep, StampedStep, CoveredStep DEF SyncInvariant
<1> QED
  BY <1>1, <1>2, PTL DEF Spec

\* The guard of the merge spares what only the device has, with any number of devices,
\* failed transfers and crashes.  What the user writes to a file while a cycle runs is
\* not spared (the cycle works on the entry it scanned): the hypothesis leaves that out.
THEOREM SparesTheorem ==
    ASSUME MidCycle \subseteq {"notes"} PROVE Spec => CycleSparesUnsent
<1>1. ASSUME SyncInvariant, [Next]_vars, NEW e \in Devices, cyc[e].pc = "work"
      PROVE  (disk[e].edits \cap wrote') \ sent \subseteq disk'[e].edits \cup InCopies(e)'
  <2>1. CASE UNCHANGED vars
    BY <2>1 DEF vars
  <2>2. CASE Next
    BY <1>1, <2>2, SparesStep DEF SyncInvariant, Next, Step
  <2> QED
    BY <1>1, <2>1, <2>2
<1>2. SyncInvariant /\ [Next]_vars =>
        [\A d \in Devices : cyc[d].pc = "work" =>
          (disk[d].edits \cap wrote') \ sent \subseteq disk'[d].edits \cup InCopies(d)']_vars
  BY <1>1
<1> QED
  BY <1>2, SyncHolds, PTL DEF CycleSparesUnsent, Spec

-----------------------------------------------------------------------------
(***************************************************************************)
(* One copy per conflict.                                                  *)
(***************************************************************************)
\* What device d shows is what the conflict copy c was made of.
Shown(d, c) == c.bytes = disk[d] /\ c.at = mtime[d] /\ ~Missing(d)

\* The entry e of the bytes x went on from the one the copy c was made under: the
\* conflict waits for the user, or was answered later, or the checksum was put right.
WentOn(e, x, c) ==
    /\ e.st # "deleted"
    /\ IF c.sum # x
       THEN e.sum = x \/ e.syn > c.syn \/ (e.syn = c.syn /\ e.st = "conflict")
       ELSE /\ e.sum = x
            /\ \/ e.st = "synced" /\ e.syn > c.syn
               \/ e.st = "conflict" /\ e.syn >= c.syn

\* No copy is of the future, and those of what the device shows are behind its entry.
CopiesBehind(d) ==
    \A i \in DOMAIN copies[d] :
        /\ copies[d][i].at <= now /\ copies[d][i].syn <= now
        /\ Shown(d, copies[d][i]) =>
             /\ kind = "file" => ~dirty[d]
             /\ WentOn(manifest[d], disk[d], copies[d][i])
             /\ cyc[d].pc # "idle" => WentOn(cyc[d].mem, disk[d], copies[d][i])

\* A cycle decides on the entry its scan left, unless the user deleted the element.
Scans(d) ==
    /\ cyc[d].pc = "work" => cyc[d].mem.st \notin {"conflict", "deleted"}
    /\ cyc[d].pc = "work" /\ cyc[d].todo = "conflict" => cyc[d].mem # NoEntry
    /\ cyc[d].pc = "purge" => cyc[d].mem.st = "deleted"
    /\ cyc[d].pc \in {"fetch", "work"} /\ cyc[d].mem.st # "conflict" =>
         \/ manifest[d] = cyc[d].mem /\ (dirty[d] => Missing(d))
         \/ manifest[d].st = "deleted" /\ Missing(d)

\* The bytes of one write are copied aside once under one entry.
Once(q) == \A i, j \in DOMAIN q : q[i] = q[j] => i = j

CopiesOrdered ==
    \A d \in Devices : /\ mtime[d] <= now
                       /\ Once(copies[d])
                       /\ kind = "notes" => copies[d] = <<>>
                       /\ kind # "notes" => CopiesBehind(d) /\ Scans(d)

\* A file that was not written stays the one it was.
LEMMA MtimeStep ==
    ASSUME TypeOK, NEW d \in Devices, Step(d), NEW e \in Devices
    PROVE  \/ mtime'[e] = mtime[e]
           \/ mtime'[e] = Stamp /\ now' = Stamp
<1>1. CASE Edit(d)
  BY <1>1 DEF Edit, Put, Tick, TypeOK
<1>2. CASE Resolve(d)
  BY <1>2 DEF Resolve, Put, Tick, TypeOK
<1>3. CASE Download(d) \/ MergeNotes(d) \/ RetryDownload(d)
  <2>1. \/ mtime' = mtime
        \/ mtime' = Put(mtime, d, Stamp) /\ now' = Stamp
    BY <1>3 DEF Download, MergeNotes, RetryDownload, Install, Tick
  <2> QED
    BY <2>1 DEF Put, TypeOK
<1>4. CASE ~(Edit(d) \/ Resolve(d) \/ Download(d) \/ MergeNotes(d) \/ RetryDownload(d))
  <2>1. mtime' = mtime
    BY <1>4 DEF Step, User, Cycle, Delete, Begin, Fetch, Upload, UploadMissing,
       UploadFails, DownloadFails, ConflictCopy, Purge, RetryUpload, Publish, Save, Sweep,
       CycleFails, Crash, files
  <2> QED
    BY <2>1
<1> QED
  BY <1>1, <1>2, <1>3, <1>4

\* What an ordinary download does to its device.
LEMMA InstallTo ==
    ASSUME TypeOK, kind # "notes", NEW d \in Devices, Install(d)
    PROVE  mtime'[d] = Stamp /\ now' = Stamp
  BY DEF Install, Tick, Put, TypeOK

\* Only a conflict is copied aside.
LEMMA CopiesStay ==
    ASSUME NEW d \in Devices, Step(d), ~ConflictCopy(d)
    PROVE  UNCHANGED copies
  BY DEF Step, User, Cycle, Edit, Delete, Resolve, Begin, Fetch, Upload, UploadMissing,
     UploadFails, Download, MergeNotes, DownloadFails, Purge, RetryUpload, RetryDownload,
     Publish, Save, Sweep, CycleFails, Crash, files

\* The kind of the element never changes.
LEMMA KindStep ==
    ASSUME NEW d \in Devices, Step(d) PROVE kind' = kind
  BY DEF Step, User, Cycle, Edit, Delete, Resolve, Begin, Fetch, Upload, UploadMissing,
     UploadFails, Download, MergeNotes, DownloadFails, ConflictCopy, Purge, RetryUpload,
     RetryDownload, Publish, Save, Sweep, CycleFails, Crash

\* The merge leaves alone what waits for the user or was deleted.
LEMMA WorksOn ==
    ASSUME kind # "notes", NEW d, NEW l, NEW r, MergeWithRemote(d, l, r) # "none"
    PROVE  /\ l.st \notin {"conflict", "deleted"}
           /\ MergeWithRemote(d, l, r) = "conflict" => l # NoEntry
  BY DEF MergeWithRemote, Settled

-----------------------------------------------------------------------------
\* The stamps of a copy.
LEMMA CopyParts ==
    ASSUME TypeOK, NEW d \in Devices, NEW i \in DOMAIN copies[d]
    PROVE  /\ copies[d][i] \in Copies /\ copies[d][i].bytes \in Blobs
           /\ copies[d][i].at \in Nat /\ copies[d][i].syn \in Nat
<1>1. copies[d] \in Seq(Copies)
  BY DEF TypeOK
<1>2. copies[d][i] \in Copies
  BY <1>1
<1> QED
  BY <1>2 DEF Copies

\* Bytes just written, or none, were not copied aside.
LEMMA NewBytes ==
    ASSUME TypeOK, NEW d \in Devices, CopiesBehind(d), copies'[d] = copies[d],
           now' \in {now, now + 1}, (mtime'[d] = Stamp /\ now' = Stamp) \/ Missing(d)'
    PROVE  CopiesBehind(d)'
<1>1. ASSUME NEW i \in DOMAIN copies[d]
      PROVE  /\ copies[d][i].at \in Nat /\ copies[d][i].syn \in Nat
             /\ copies[d][i].at <= now /\ copies[d][i].syn <= now
  BY CopyParts DEF CopiesBehind
<1>2. now \in Nat /\ Stamp = now + 1
  BY DEF TypeOK, Stamp
<1> QED
  BY <1>1, <1>2 DEF CopiesBehind, Shown

\* Where the device shows what it did, it is the entries that must have gone on.
LEMMA SameBytes ==
    ASSUME TypeOK, NEW d \in Devices, CopiesBehind(d), copies'[d] = copies[d],
           now' \in {now, now + 1}, disk'[d] = disk[d], mtime'[d] = mtime[d], kind' = kind,
           dirty'[d] => dirty[d],
           \A i \in DOMAIN copies[d] : Shown(d, copies[d][i]) =>
               /\ WentOn(manifest'[d], disk[d], copies[d][i])
               /\ cyc'[d].pc # "idle" => WentOn(cyc'[d].mem, disk[d], copies[d][i])
    PROVE  CopiesBehind(d)'
<1>1. ASSUME NEW i \in DOMAIN copies[d]
      PROVE  /\ copies[d][i].at \in Nat /\ copies[d][i].syn \in Nat
             /\ copies[d][i].at <= now /\ copies[d][i].syn <= now
  BY CopyParts DEF CopiesBehind
<1>2. now \in Nat
  BY DEF TypeOK
<1>3. ASSUME NEW i \in DOMAIN copies[d]
      PROVE  copies[d][i].at <= now' /\ copies[d][i].syn <= now'
  BY <1>1, <1>2
<1>4. ASSUME NEW i \in DOMAIN copies[d] PROVE Shown(d, copies[d][i])' = Shown(d, copies[d][i])
  BY DEF Shown, Missing
<1>5. \A i \in DOMAIN copies[d] :
         Shown(d, copies[d][i]) /\ kind = "file" => ~dirty[d]
  BY DEF CopiesBehind
<1> QED
  BY <1>3, <1>4, <1>5 DEF CopiesBehind

\* What is synced now, with the checksum it had or the right one, went on.
LEMMA SyncedNow ==
    ASSUME NEW e, NEW f, NEW x, NEW c, WentOn(f, x, c), e.st = "synced",
           e.sum \in {f.sum, x}, e.syn > c.syn
    PROVE  WentOn(e, x, c)
  BY DEF WentOn

\* What is given to the user went on as it had.
LEMMA GivenToUser ==
    ASSUME NEW e, NEW f, NEW x, NEW c, WentOn(f, x, c), e.st = "conflict",
           e.sum = f.sum, e.syn = f.syn, e.syn \in Nat, c.syn \in Nat
    PROVE  WentOn(e, x, c)
  BY DEF WentOn

\* A scan that hashes the bytes anew puts their checksum right.
LEMMA ScannedWentOn ==
    ASSUME TypeOK, kind # "notes", NEW d \in Devices, CopiesBehind(d),
           NEW i \in DOMAIN copies[d], Shown(d, copies[d][i])
    PROVE  WentOn(Scanned(d), disk[d], copies[d][i])
<1> DEFINE c == copies[d][i]
           e == manifest[d]
<1>1. WentOn(e, disk[d], c) /\ ~Missing(d) /\ (kind = "file" => ~dirty[d])
  BY DEF CopiesBehind, Shown
<1>2. WithoutPhantom(d, e) = e
  <2>1. copies[d] # <<>>
    OBVIOUS
  <2> QED
    BY <2>1 DEF WithoutPhantom
<1>3. CASE Unchanged(d, e)
  BY <1>1, <1>2, <1>3 DEF Scanned
<1>4. CASE ~Unchanged(d, e)
  <2>1. /\ Scanned(d).sum = disk[d] /\ Scanned(d).st = "pending_upload"
    BY <1>2, <1>4 DEF Scanned
  <2>2. c.sum # disk[d]
    <3>1. SUFFICES ASSUME c.sum = disk[d] PROVE FALSE
      OBVIOUS
    <3>2. e.sum = disk[d] /\ e.st \in {"synced", "conflict"}
      BY <1>1, <3>1 DEF WentOn
    <3>3. kind = "file"
      BY <1>4, <3>2 DEF Unchanged
    <3> QED
      BY <1>1, <1>4, <3>2, <3>3 DEF Unchanged, KeepsOpenConflict, Missing
  <2> QED
    BY <2>1, <2>2 DEF WentOn
<1> QED
  BY <1>3, <1>4

-----------------------------------------------------------------------------
\* The device of a step: its cycle decides on what its scan left.
LEMMA ScansThere ==
    ASSUME MidCycle \subseteq {"notes"}, TypeOK, kind # "notes",
           NEW d \in Devices, Scans(d), Step(d)
    PROVE  Scans(d)'
<1>0. /\ manifest[d] \in Entries /\ manifest \in [Devices -> Entries]
      /\ cyc[d] \in Cycles /\ cyc \in [Devices -> Cycles] /\ cyc[d].mem \in Entries
      /\ disk \in [Devices -> Blobs] /\ dirty \in [Devices -> BOOLEAN]
  BY Parts DEF TypeOK
<1>1. ASSUME cyc'[d].pc \notin {"fetch", "work", "purge"} PROVE Scans(d)'
  BY <1>1 DEF Scans
<1>2. ASSUME cyc'[d].pc = cyc[d].pc, cyc[d].pc \notin {"fetch", "work", "purge"}
      PROVE  Scans(d)'
  BY <1>2 DEF Scans
<1>3. CASE Edit(d)
  BY <1>2, <1>3 DEF Edit
<1>4. CASE Delete(d)
  <2>1. cyc' = cyc /\ disk'[d] = NoBlob
    BY <1>0, <1>4 DEF Delete, Put
  <2>2. \/ manifest[d] = NoEntry /\ manifest'[d] = manifest[d]
        \/ manifest'[d].st = "deleted"
    BY <1>0, <1>4 DEF Delete, MarkDeleted, Put, Entries
  <2>3. ASSUME cyc[d].pc \in {"fetch", "work"}, cyc[d].mem.st # "conflict"
        PROVE  manifest'[d] = cyc[d].mem \/ manifest'[d].st = "deleted"
    <3>1. manifest[d] = cyc[d].mem \/ manifest[d].st = "deleted"
      BY <2>3 DEF Scans
    <3>2. NoEntry.st = "none"
      BY DEF NoEntry
    <3> QED
      BY <2>2, <3>1, <3>2
  <2> QED
    BY <2>1, <2>3 DEF Scans, Missing
<1>5. CASE Resolve(d)
  <2>1. cyc' = cyc /\ manifest[d].st = "conflict"
    BY <1>5 DEF Resolve
  <2>2. cyc[d].pc \in {"fetch", "work"} => cyc[d].mem.st = "conflict"
    BY <2>1 DEF Scans
  <2> QED
    BY <2>1, <2>2 DEF Scans
<1>6. CASE Begin(d)
  <2>1. cyc'[d].pc = "fetch" /\ cyc'[d].mem = Scanned(d)
    BY <1>6, GoesTo DEF Begin
  <2>2. manifest'[d] = Scanned(d) /\ disk' = disk /\ dirty'[d] = (dirty[d] /\ Missing(d))
    BY <1>0, <1>6 DEF Begin, Put, files
  <2> QED
    BY <2>1, <2>2 DEF Scans, Missing
<1>7. CASE Fetch(d)
  <2> DEFINE todo == MergeWithRemote(d, cyc[d].mem, RemoteView(d))
  <2>1. /\ cyc'[d].mem = cyc[d].mem /\ cyc[d].pc = "fetch" /\ cyc'[d].todo = todo
        /\ cyc'[d].pc = IF todo = "none" THEN AfterWork(cyc[d].mem) ELSE "work"
    BY <1>0, <1>7 DEF Fetch, Cycles
  <2>2. manifest' = manifest /\ disk' = disk /\ dirty' = dirty
    BY <1>7 DEF Fetch, files
  <2>3. todo # "none" => /\ cyc[d].mem.st \notin {"conflict", "deleted"}
                         /\ todo = "conflict" => cyc[d].mem # NoEntry
    BY WorksOn
  <2> HIDE DEF todo
  <2> QED
    BY <2>1, <2>2, <2>3 DEF Scans, Missing, AfterWork
<1>8. CASE UploadMissing(d)
  <2>1. \/ cyc'[d].pc = "queue"
        \/ cyc'[d].pc = "purge" /\ cyc'[d].mem = [cyc[d].mem EXCEPT !.st = "deleted"]
    BY <1>8, GoesTo DEF UploadMissing
  <2>2. [cyc[d].mem EXCEPT !.st = "deleted"].st = "deleted"
    BY <1>0 DEF Entries
  <2> QED
    BY <2>1, <2>2 DEF Scans
<1>9. CASE Upload(d) \/ UploadFails(d) \/ Download(d) \/ DownloadFails(d) \/ ConflictCopy(d)
           \/ Save(d)
  <2>1. cyc'[d].pc \in {"queue", "sweep"}
    BY <1>9, GoesTo DEF Upload, UploadFails, Download, DownloadFails, ConflictCopy, Save
  <2> QED
    BY <1>1, <2>1
<1>10. CASE MergeNotes(d)
  BY <1>10 DEF MergeNotes
<1>11. CASE Purge(d)
  BY <1>1, <1>11, PurgeTo
<1>12. CASE RetryUpload(d) \/ RetryDownload(d)
  BY <1>2, <1>12 DEF RetryUpload, RetryDownload
<1>13. CASE Publish(d)
  <2>1. cyc'[d] = [cyc[d] EXCEPT !.pc = "save"]
    BY <1>0, <1>13 DEF Publish
  <2> QED
    BY <1>0, <1>1, <2>1 DEF Cycles
<1>14. CASE Sweep(d) \/ CycleFails(d) \/ Crash(d)
  <2>1. cyc'[d] = NoCycle
    BY <1>0, <1>14 DEF Sweep, CycleFails, Crash, Put
  <2> QED
    BY <1>1, <2>1 DEF NoCycle
<1> QED
  BY <1>3, <1>4, <1>5, <1>6, <1>7, <1>8, <1>9, <1>10, <1>11, <1>12, <1>13, <1>14
     DEF Step, User, Cycle

-----------------------------------------------------------------------------
\* What a conflict copy adds: a copy no earlier one is equal to, behind the entry.
LEMMA CopyThere ==
    ASSUME TypeOK, Stamped, kind # "notes", NEW d \in Devices, CopiesBehind(d), Scans(d),
           mtime[d] <= now, ConflictCopy(d)
    PROVE  CopiesBehind(d)' /\ (Once(copies[d]) => Once(copies'[d]))
<1> DEFINE m == cyc[d].mem
           new == CopyAside(d)
<1>0. /\ manifest[d] \in Entries /\ manifest \in [Devices -> Entries]
      /\ cyc[d] \in Cycles /\ m \in Entries /\ mtime[d] \in Nat /\ now \in Nat
      /\ copies[d] \in Seq(Copies) /\ copies \in [Devices -> Seq(Copies)]
  BY Parts DEF TypeOK
<1>1. /\ ~Missing(d) /\ m.st \notin {"conflict", "deleted"} /\ cyc[d].pc = "work"
      /\ manifest[d] = m /\ ~dirty[d] /\ m # NoEntry
  BY DEF ConflictCopy, Scans
<1>2. /\ new.bytes = disk[d] /\ new.at = mtime[d] /\ new.sum = m.sum /\ new.syn = m.syn
      /\ new.at <= now /\ new.syn <= now /\ new \in Copies /\ m.syn \in Nat
  BY <1>0, CopyType DEF CopyAside, Stamped, Entries
<1>3. \A i \in DOMAIN copies[d] : copies[d][i] # new
  <2> SUFFICES ASSUME NEW i \in DOMAIN copies[d], copies[d][i] = new PROVE FALSE
    OBVIOUS
  <2>1. Shown(d, copies[d][i])
    BY <1>1, <1>2 DEF Shown
  <2>2. WentOn(m, disk[d], new)
    BY <1>1, <2>1 DEF CopiesBehind
  <2> QED
    BY <1>1, <1>2, <2>2 DEF WentOn
<1>4. /\ disk' = disk /\ mtime' = mtime /\ now' = now /\ kind' = kind /\ dirty' = dirty
      /\ copies'[d] \in {copies[d], Append(copies[d], new)}
  BY <1>0 DEF ConflictCopy, Put
<1>5. /\ manifest'[d].st = "conflict" /\ manifest'[d].sum = m.sum /\ manifest'[d].syn = m.syn
      /\ cyc'[d].mem.st = "conflict" /\ cyc'[d].mem.sum = m.sum /\ cyc'[d].mem.syn = m.syn
  <2>1. manifest'[d] = [m EXCEPT !.st = "conflict"]
    BY <1>0, <1>1 DEF ConflictCopy, Put
  <2>2. cyc'[d].mem = [m EXCEPT !.st = "conflict"]
    BY GoesTo DEF ConflictCopy
  <2> QED
    BY <1>0, <2>1, <2>2 DEF Entries
<1>6. ASSUME NEW i \in DOMAIN copies[d], Shown(d, copies[d][i])
      PROVE  /\ WentOn(manifest'[d], disk[d], copies[d][i])
             /\ WentOn(cyc'[d].mem, disk[d], copies[d][i])
  <2>1. WentOn(m, disk[d], copies[d][i])
    BY <1>1, <1>6 DEF CopiesBehind
  <2>2. copies[d][i].syn \in Nat
    BY CopyParts
  <2> HIDE DEF m, new
  <2> QED
    BY <1>2, <1>5, <2>1, <2>2, GivenToUser
<1>7. WentOn(manifest'[d], disk[d], new) /\ WentOn(cyc'[d].mem, disk[d], new)
  BY <1>2, <1>5 DEF WentOn
<1> HIDE DEF m, new
<1>8. ASSUME NEW i \in DOMAIN copies'[d]
      PROVE  \/ i \in DOMAIN copies[d] /\ copies'[d][i] = copies[d][i]
             \/ i = Len(copies[d]) + 1 /\ copies'[d][i] = new
  <2>1. CASE copies'[d] = copies[d]
    BY <2>1
  <2>2. CASE copies'[d] = Append(copies[d], new)
    BY <1>0, <1>2, <2>2
  <2> QED
    BY <1>4, <2>1, <2>2
<1>9. ASSUME NEW i \in DOMAIN copies[d]
      PROVE  copies[d][i].at <= now /\ copies[d][i].syn <= now
  BY DEF CopiesBehind
<1>10. CopiesBehind(d)'
  <2> SUFFICES ASSUME NEW i \in DOMAIN copies'[d]
               PROVE  /\ copies'[d][i].at <= now' /\ copies'[d][i].syn <= now'
                      /\ Shown(d, copies[d][i])' =>
                           /\ kind' = "file" => ~dirty'[d]
                           /\ WentOn(manifest'[d], disk'[d], copies'[d][i])
                           /\ cyc'[d].pc # "idle" => WentOn(cyc'[d].mem, disk'[d], copies'[d][i])
    BY DEF CopiesBehind
  <2>1. CASE copies'[d][i] = new
    BY <1>1, <1>2, <1>4, <1>7, <2>1
  <2>2. CASE i \in DOMAIN copies[d] /\ copies'[d][i] = copies[d][i]
    <3>1. Shown(d, copies[d][i])' => Shown(d, copies[d][i])
      BY <1>4, <2>2 DEF Shown, Missing
    <3> QED
      BY <1>1, <1>4, <1>6, <1>9, <2>2, <3>1
  <2> QED
    BY <1>8, <2>1, <2>2
<1>11. ASSUME Once(copies[d]) PROVE Once(copies'[d])
  BY <1>3, <1>8, <1>11 DEF Once
<1> QED
  BY <1>10, <1>11

-----------------------------------------------------------------------------
\* The device of a step that copies nothing: its entries went on from its copies.
LEMMA BehindThere ==
    ASSUME MidCycle \subseteq {"notes"}, TypeOK, Stamped, kind # "notes",
           NEW d \in Devices, CopiesBehind(d), Scans(d), Step(d), ~ConflictCopy(d)
    PROVE  CopiesBehind(d)'
<1> DEFINE m == cyc[d].mem
           Entry(i, e) == WentOn(e, disk[d], copies[d][i])
<1>0. /\ manifest[d] \in Entries /\ manifest \in [Devices -> Entries]
      /\ cyc[d] \in Cycles /\ cyc \in [Devices -> Cycles] /\ m \in Entries
      /\ disk \in [Devices -> Blobs] /\ dirty \in [Devices -> BOOLEAN]
      /\ mtime \in [Devices -> Nat] /\ now \in Nat /\ Stamp = now + 1
  BY Parts DEF TypeOK, Stamp
<1>1. /\ copies'[d] = copies[d] /\ now' \in {now, now + 1} /\ kind' = kind
  BY CopiesStay, ClockStep, KindStep
<1>2. ASSUME NEW i \in DOMAIN copies[d], Shown(d, copies[d][i])
      PROVE  /\ Entry(i, manifest[d]) /\ (cyc[d].pc # "idle" => Entry(i, m)) /\ ~Missing(d)
             /\ copies[d][i].syn < Stamp
  <2>1. copies[d][i].syn \in Nat /\ copies[d][i].syn <= now
    BY CopyParts DEF CopiesBehind
  <2> QED
    BY <1>0, <1>2, <2>1 DEF CopiesBehind, Shown
<1>3. ASSUME (mtime'[d] = Stamp /\ now' = Stamp) \/ Missing(d)'
      PROVE  CopiesBehind(d)'
  BY <1>1, <1>3, NewBytes
<1>4. ASSUME disk'[d] = disk[d], mtime'[d] = mtime[d], dirty'[d] => dirty[d],
             \A i \in DOMAIN copies[d] : Shown(d, copies[d][i]) =>
                 /\ Entry(i, manifest'[d])
                 /\ cyc'[d].pc # "idle" => Entry(i, cyc'[d].mem)
      PROVE  CopiesBehind(d)'
  BY <1>1, <1>4, SameBytes
<1>5. ASSUME disk'[d] = disk[d], mtime'[d] = mtime[d], dirty'[d] => dirty[d],
             manifest'[d] = manifest[d] \/ (cyc[d].pc # "idle" /\ manifest'[d] = m),
             cyc'[d].pc = "idle" \/ (cyc[d].pc # "idle" /\ cyc'[d].mem = m)
      PROVE  CopiesBehind(d)'
  BY <1>2, <1>4, <1>5
<1> HIDE DEF m, Entry
<1>6. CASE Edit(d)
  BY <1>0, <1>3, <1>6 DEF Edit, Put, Tick
<1>7. CASE Delete(d)
  <2>1. disk'[d] = NoBlob
    BY <1>0, <1>7 DEF Delete, Put
  <2> QED
    BY <1>3, <2>1 DEF Missing
<1>8. CASE Resolve(d)
  <2>1. \/ /\ disk' = disk /\ mtime' = mtime /\ dirty' = dirty
        \/ mtime'[d] = Stamp /\ now' = Stamp
    BY <1>0, <1>8 DEF Resolve, Put, Tick
  <2>2. /\ cyc' = cyc /\ manifest'[d].st = "synced" /\ manifest'[d].syn = Stamp
        /\ manifest'[d].sum = manifest[d].sum
    BY <1>0, <1>8 DEF Resolve, Put, Entries
  <2>3. ASSUME NEW i \in DOMAIN copies[d], Shown(d, copies[d][i])
        PROVE  Entry(i, manifest'[d])
    BY <1>0, <1>2, <2>2, <2>3, SyncedNow DEF Entry
  <2> QED
    BY <1>2, <1>3, <1>4, <2>1, <2>2, <2>3 DEF m
<1>9. CASE Begin(d)
  <2>1. /\ disk' = disk /\ mtime' = mtime /\ (dirty'[d] => dirty[d])
        /\ manifest'[d] = Scanned(d) /\ cyc'[d].mem = Scanned(d)
    BY <1>0, <1>9, GoesTo DEF Begin, Put, files
  <2> QED
    BY <1>4, <2>1, ScannedWentOn DEF Entry
<1>10. CASE Fetch(d)
  <2>1. cyc'[d].mem = m /\ cyc[d].pc # "idle"
    BY <1>0, <1>10 DEF Fetch, Cycles, m
  <2> QED
    BY <1>5, <1>10, <2>1 DEF Fetch, files
<1>11. CASE Upload(d)
  <2>1. /\ disk' = disk /\ mtime' = mtime /\ manifest' = manifest /\ ~dirty'[d]
        /\ cyc[d].pc # "idle"
        /\ cyc'[d].mem = [m EXCEPT !.sum = disk[d], !.syn = Stamp, !.st = "synced"]
    BY <1>0, <1>11, GoesTo DEF Upload, Put, files, m
  <2>2. cyc'[d].mem.sum = disk[d] /\ cyc'[d].mem.syn = Stamp /\ cyc'[d].mem.st = "synced"
    BY <1>0, <2>1 DEF Entries
  <2>3. ASSUME NEW i \in DOMAIN copies[d], Shown(d, copies[d][i])
        PROVE  Entry(i, cyc'[d].mem)
    BY <1>0, <1>2, <2>1, <2>2, <2>3, SyncedNow DEF Entry
  <2> QED
    BY <1>2, <1>4, <2>1, <2>3
<1>12. CASE UploadMissing(d)
  BY <1>3, <1>12 DEF UploadMissing, Missing, files
<1>13. CASE UploadFails(d)
  <2>1. cyc'[d].mem = m /\ cyc[d].pc # "idle"
    BY <1>13, GoesTo DEF UploadFails, m
  <2> QED
    BY <1>5, <1>13, <2>1 DEF UploadFails, files
<1>14. CASE Download(d) \/ (RetryDownload(d) /\ Install(d))
  BY <1>3, <1>14, InstallTo DEF Download
<1>15. CASE MergeNotes(d)
  BY <1>15 DEF MergeNotes
<1>16. CASE DownloadFails(d)
  <2>1. disk' = disk /\ mtime' = mtime /\ dirty' = dirty /\ cyc[d].pc # "idle"
    BY <1>16 DEF DownloadFails, Downloads, files
  <2>2. CASE Missing(d)
    BY <1>3, <2>1, <2>2 DEF Missing
  <2>3. CASE ~Missing(d)
    <3>1. cyc[d].todo = "download"
      BY <1>16, <2>3 DEF DownloadFails, Downloads
    <3>2. manifest' = manifest /\ cyc'[d].mem = [m EXCEPT !.st = m.st]
      BY <1>16, <3>1, GoesTo DEF DownloadFails, m
    <3>3. cyc'[d].mem = m
      BY <1>0, <3>2 DEF Entries
    <3> QED
      BY <1>5, <2>1, <3>2, <3>3
  <2> QED
    BY <2>2, <2>3
<1>17. CASE Purge(d)
  <2>1. disk' = disk /\ mtime' = mtime /\ dirty' = dirty /\ m.st = "deleted"
        /\ cyc[d].pc # "idle"
    BY <1>17 DEF Purge, Scans, files, m
  <2>2. ASSUME NEW i \in DOMAIN copies[d], Shown(d, copies[d][i]) PROVE FALSE
    BY <1>2, <2>1, <2>2 DEF Entry, WentOn
  <2> QED
    BY <1>4, <2>1, <2>2
<1>18. CASE RetryUpload(d)
  <2>1. disk' = disk /\ mtime' = mtime /\ cyc' = cyc /\ cyc[d].pc # "idle"
    BY <1>18 DEF RetryUpload, files
  <2>2. CASE Missing(d)
    BY <1>3, <2>1, <2>2 DEF Missing
  <2>3. CASE ~Missing(d)
    <3>1. manifest' = manifest /\ (dirty'[d] => dirty[d])
      BY <1>0, <1>18, <2>3 DEF RetryUpload, Put, NoEntry
    <3> QED
      BY <1>5, <2>1, <3>1 DEF m
  <2> QED
    BY <2>2, <2>3
<1>19. CASE RetryDownload(d) /\ ~Install(d)
  <2>1. UNCHANGED <<disk, mtime, dirty, manifest, cyc>> /\ cyc[d].pc # "idle"
    BY <1>19 DEF RetryDownload
  <2> QED
    BY <1>5, <2>1 DEF m
<1>20. CASE Publish(d)
  <2>1. cyc'[d] = [cyc[d] EXCEPT !.pc = "save"] /\ cyc[d].pc # "idle"
    BY <1>0, <1>20 DEF Publish
  <2>2. cyc'[d].mem = m
    BY <1>0, <2>1 DEF Cycles, m
  <2> QED
    BY <1>5, <1>20, <2>1, <2>2 DEF Publish, files
<1>21. CASE Save(d)
  <2>1. cyc'[d].mem = m /\ manifest'[d] = m /\ cyc[d].pc # "idle"
    BY <1>0, <1>21, GoesTo DEF Save, Put, m
  <2> QED
    BY <1>5, <1>21, <2>1 DEF Save, files
<1>22. CASE Sweep(d)
  <2>1. disk' = disk /\ mtime' = mtime /\ dirty' = dirty /\ cyc'[d] = NoCycle
    BY <1>0, <1>22 DEF Sweep, Put, files
  <2>2. CASE Missing(d)
    BY <1>3, <2>1, <2>2 DEF Missing
  <2>3. CASE ~Missing(d)
    BY <1>5, <1>22, <2>1, <2>3 DEF Sweep, NoCycle
  <2> QED
    BY <2>2, <2>3
<1>23. CASE CycleFails(d) \/ Crash(d)
  <2>1. /\ disk' = disk /\ mtime' = mtime /\ (dirty'[d] => dirty[d]) /\ cyc'[d] = NoCycle
        /\ manifest' = manifest
    BY <1>0, <1>23 DEF CycleFails, Crash, Put, files
  <2> QED
    BY <1>5, <2>1 DEF NoCycle
<1>24. User(d) => CopiesBehind(d)'
  BY <1>6, <1>7, <1>8 DEF User
<1> QED
  BY <1>9, <1>10, <1>11, <1>12, <1>13, <1>14, <1>15, <1>16, <1>17, <1>18, <1>19, <1>20,
     <1>21, <1>22, <1>23, <1>24 DEF Step, Cycle

-----------------------------------------------------------------------------
\* Whichever device moves, its copies stay behind its entries, and nothing is copied
\* aside twice under one entry.
LEMMA CopiesOrderedStep ==
    ASSUME MidCycle \subseteq {"notes"}, TypeOK, NotesNeverConflict, Stamped,
           CopiesOrdered, [Next]_vars
    PROVE  CopiesOrdered'
<1>1. CASE UNCHANGED vars
  BY <1>1 DEF vars, CopiesOrdered, CopiesBehind, Scans, Shown, Missing
<1>2. ASSUME NEW d \in Devices, Step(d), NEW e \in Devices
      PROVE  /\ mtime'[e] <= now' /\ Once(copies'[e])
             /\ kind' = "notes" => copies'[e] = <<>>
             /\ kind' # "notes" => (CopiesBehind(e) /\ Scans(e))'
  <2>0. /\ mtime[e] <= now /\ Once(copies[e]) /\ (kind = "notes" => copies[e] = <<>>)
        /\ kind # "notes" => CopiesBehind(e) /\ Scans(e)
        /\ now' \in {now, now + 1} /\ kind' = kind /\ now \in Nat /\ mtime[e] \in Nat
    BY <1>2, ClockStep, KindStep, Parts DEF CopiesOrdered
  <2>1. mtime'[e] <= now'
    <3>1. mtime'[e] = mtime[e] \/ mtime'[e] = now'
      BY <1>2, MtimeStep
    <3> QED
      BY <2>0, <3>1
  <2>2. CASE e # d
    <3>1. SameElsewhere(e)
      BY <1>2, <2>2, Elsewhere
    <3>2. Scans(e) => Scans(e)'
      BY <3>1 DEF SameElsewhere, Scans, Missing
    <3>3. CopiesBehind(e) => CopiesBehind(e)'
      BY <2>0, <3>1, SameBytes DEF SameElsewhere, CopiesBehind
    <3> QED
      BY <2>0, <2>1, <3>1, <3>2, <3>3 DEF SameElsewhere
  <2>3. CASE e = d /\ ConflictCopy(d)
    <3>1. kind # "notes"
      BY <1>2, <2>3 DEF ConflictCopy, NotesNeverConflict
    <3> QED
      BY <1>2, <2>0, <2>1, <2>3, <3>1, CopyThere, ScansThere
  <2>4. CASE e = d /\ ~ConflictCopy(d)
    <3>1. copies' = copies
      BY <1>2, <2>4, CopiesStay
    <3> QED
      BY <1>2, <2>0, <2>1, <2>4, <3>1, BehindThere, ScansThere
  <2> QED
    BY <2>2, <2>3, <2>4
<1> QED
  BY <1>1, <1>2 DEF Next, Step, CopiesOrdered

\* What the user wrote is copied aside once for one conflict, with any number of devices,
\* failed copies and transfers, crashes and answers.  Left out, as in SparesTheorem: what
\* the user writes to a file while a cycle runs.
THEOREM OneCopyTheorem ==
    ASSUME MidCycle \subseteq {"notes"} PROVE Spec => []OneCopyPerConflict
<1>1. Init => CopiesOrdered
  <2> SUFFICES ASSUME Init PROVE CopiesOrdered
    OBVIOUS
  <2>1. /\ now = 0 /\ \A d \in Devices : /\ mtime[d] = 0 /\ copies[d] = <<>>
                                         /\ cyc[d] = NoCycle
    BY DEF Init
  <2>2. NoCycle.pc = "idle"
    BY DEF NoCycle
  <2> QED
    BY <2>1, <2>2 DEF CopiesOrdered, CopiesBehind, Scans, Once
<1>2. CopiesOrdered => OneCopyPerConflict
  BY DEF CopiesOrdered, Once, OneCopyPerConflict
<1> QED
  BY <1>1, <1>2, NotesHolds, SyncHolds, CopiesOrderedStep, PTL DEF Spec, SyncInvariant
=============================================================================
