---------------------------- MODULE NotesVaultProofs ----------------------------
(***************************************************************************)
(* The vault of notes, for any devices, notes, clocks and faults: the      *)
(* arbitration is one total order that both sides read alike, a merge has  *)
(* nothing left to transfer, the published index is fetchable, the newest  *)
(* version acknowledged of a note lies in an object somewhere, and a note  *)
(* leaves no index unaccounted for.                                        *)
(*                                                                         *)
(* No object ever leaves the cloud, so fetchability needs only what the    *)
(* publication relies on: the index a cycle read was fetchable then, and   *)
(* every note a cycle counts as sent lies under the key it will publish.   *)
(* That the newest version is held needs more (Kept): keys and digests name*)
(* one thing each, whatever an index says of a note was acknowledged or    *)
(* beaten since, a save goes forward from a memory no older than its index,*)
(* and some device names the newest version, holds it, and neither its     *)
(* memory nor its cycle will let it go.                                    *)
(***************************************************************************)
EXTENDS NotesVault, FiniteSetTheorems, FunctionTheorems, TLAPS

\* An entry that names a note has an object.
Named      == {e \in Entry : e = NoEntry \/ e.obj \in Objects}
SoundIndex == [notes : [Notes -> Named], purged : [Notes -> 0 .. MaxClock]]

Memory == [open : BOOLEAN, notes : Vault, index : SoundIndex]
Saving == [at : {"free", "objects", "index"}, notes : Vault, index : SoundIndex]
Cycle  == [at : {"idle", "transfer", "notes", "rekey", "sweep"},
           local : SoundIndex, remote : SoundIndex, fetched : Vault, done : SUBSET Notes,
           lost : SUBSET Notes, index : SoundIndex, changed : BOOLEAN]

Types ==
    /\ disk \in [Devices -> SoundIndex]
    /\ objs \in [Devices -> [Objects -> Version]]
    /\ mem \in [Devices -> Memory]
    /\ save \in [Devices -> Saving]
    /\ cyc \in [Devices -> Cycle]
    /\ cloud \in SoundIndex
    /\ cobjs \in [Objects -> Version]
    /\ told \in [Devices -> BOOLEAN]
    /\ written \in [Notes -> SUBSET Version]
    /\ acked \in Vault
    /\ stone \in [Notes -> 0 .. MaxClock]
    /\ missed \in SUBSET Notes
    /\ count \in [edits : 0 .. MaxEdits, minted : 0 .. MaxObjects, faults : 0 .. MaxFaults]

\* What a cycle read as the cloud's index can be fetched.
ReadIsFetchable ==
    \A d \in Devices, n \in Notes :
        cyc[d].remote.notes[n] # NoEntry => cobjs[cyc[d].remote.notes[n].obj] # NoNote

\* What a cycle counts as sent is there, under the key of the merged index.
SentIsThere ==
    \A d \in Devices : cyc[d].at = "transfer" =>
        \A n \in cyc[d].done \intersect Plan(d, ToPush) :
            cobjs[Plan(d, Merged).notes[n].obj] # NoNote

IInv == Types /\ PublishedIsFetchable /\ ReadIsFetchable /\ SentIsThere

----------------------------------------------------------------------------
(* The arbitration, for clocks and digests of any size.                     *)

Stamp == [clock : Nat, dead : BOOLEAN, digest : Nat]

\* For any two different entries exactly one of the two devices that compare
\* them calls its own the winner (resolveEntry, read from both sides).
THEOREM ResolveAgrees ==
    ASSUME NEW a, NEW b, a.clock \in Nat, b.clock \in Nat, a.dead \in BOOLEAN,
           b.dead \in BOOLEAN, a.digest \in Nat, b.digest \in Nat, a.digest # b.digest
    PROVE  ResolveEntry(a, b) = "remote" <=> ResolveEntry(b, a) = "local"
  <1>1. CASE a.dead = b.dead
    BY <1>1 DEF ResolveEntry
  <1>2. CASE a.dead # b.dead
    BY <1>2 DEF ResolveEntry
  <1> QED
    BY <1>1, <1>2

\* The arbitration is transitive: with three devices there is no circle of
\* winners, each overwriting the next one's copy.
THEOREM ResolveIsAnOrder ==
    ASSUME NEW a \in Stamp, NEW b \in Stamp, NEW c \in Stamp,
           ResolveEntry(a, b) = "remote", ResolveEntry(b, c) = "remote"
    PROVE  ResolveEntry(a, c) = "remote"
  BY DEF ResolveEntry, Stamp

----------------------------------------------------------------------------
(* Types.                                                                   *)

LEMMA Sizes ==
    /\ Minted \in Nat /\ MaxObjects \in Nat /\ Minted <= MaxObjects
    /\ MaxClock \in Nat /\ MaxClock > 0 /\ MaxEdits \in Nat /\ MaxFaults \in Nat
  <1>1. IsFiniteSet(Devices \X Notes)
    BY PopulationAssumption, FS_Product
  <1> QED
    BY <1>1, FS_CardinalityType, SettingsAssumption DEF Minted, MaxObjects

LEMMA Blanks ==
    /\ NoNote \in Version /\ EmptyVault \in Vault
    /\ NoEntry \in Named /\ EmptyIndex \in SoundIndex
    /\ Idle \in Cycle /\ Free \in Saving /\ Shut \in Memory
  <1>1. NoNote \in Version /\ NoEntry \in Entry
    BY Sizes DEF NoNote, NoEntry, Version, Entry, Digests
  <1>2. EmptyVault \in Vault /\ EmptyIndex \in SoundIndex
    BY <1>1, Sizes DEF EmptyVault, Vault, EmptyIndex, SoundIndex, Named
  <1>3. Idle \in Cycle /\ Free \in Saving /\ Shut \in Memory
    BY <1>2 DEF Idle, Free, Shut, Cycle, Saving, Memory
  <1> QED
    BY <1>1, <1>2, <1>3 DEF Named

\* Named is read through its three facts.
LEMMA NamedMeans ==
    ASSUME NEW e
    PROVE  e \in Named <=> e \in Entry /\ (e = NoEntry \/ e.obj \in Objects)
  BY DEF Named

LEMMA LaterType ==
    ASSUME NEW x \in 0 .. MaxClock, NEW y \in 0 .. MaxClock
    PROVE  Later(x, y) \in 0 .. MaxClock
  BY DEF Later

----------------------------------------------------------------------------
(* The merge of two sound indexes.                                          *)

LEMMA MergedEntryNamed ==
    ASSUME NEW l \in SoundIndex, NEW r \in SoundIndex, NEW n \in Notes
    PROVE  MergedEntry(l, r, n) \in Named
  <1> DEFINE a == l.notes[n]
             b == r.notes[n]
             kept == IF ResolveEntry(a, b) = "remote" THEN b ELSE a
  <1>1. a \in Named /\ b \in Named /\ kept \in Entry
    BY DEF SoundIndex, Named
  <1>2. CASE b # NoEntry
    <2>1. [kept EXCEPT !.obj = b.obj] \in Named
      BY <1>1, <1>2 DEF Named, Entry
    <2>2. [kept EXCEPT !.obj = b.obj, !.synced = kept.digest] \in Named
      BY <1>1, <1>2 DEF Named, Entry
    <2> QED
      BY <1>1, <1>2, <2>1, <2>2, Blanks DEF MergedEntry
  <1>3. CASE b = NoEntry
    BY <1>1, <1>3, Blanks DEF MergedEntry
  <1> QED
    BY <1>2, <1>3

LEMMA MergedSound ==
    ASSUME NEW l \in SoundIndex, NEW r \in SoundIndex
    PROVE  Merged(l, r) \in SoundIndex
  <1>1. Purged(l, r) \in [Notes -> 0 .. MaxClock]
    BY LaterType DEF Purged, SoundIndex
  <1> QED
    BY <1>1, MergedEntryNamed DEF Merged, SoundIndex

\* A note the cloud names keeps the cloud's key ...
LEMMA MergedKeepsKey ==
    ASSUME NEW l \in SoundIndex, NEW r \in SoundIndex, NEW n \in Notes,
           r.notes[n] # NoEntry, Merged(l, r).notes[n] # NoEntry
    PROVE  Merged(l, r).notes[n].obj = r.notes[n].obj
  <1> DEFINE a == l.notes[n]
             b == r.notes[n]
             kept == IF ResolveEntry(a, b) = "remote" THEN b ELSE a
  <1>1. kept \in Entry
    BY DEF SoundIndex, Named
  <1>2. /\ [kept EXCEPT !.obj = b.obj].obj = b.obj
        /\ [kept EXCEPT !.obj = b.obj, !.synced = kept.digest].obj = b.obj
    BY <1>1 DEF Entry
  <1> QED
    BY <1>2 DEF Merged, MergedEntry

\* ... and one it does not name has to be sent.
LEMMA UnnamedIsPushed ==
    ASSUME NEW l \in SoundIndex, NEW r \in SoundIndex, NEW n \in Notes,
           r.notes[n] = NoEntry, Merged(l, r).notes[n] # NoEntry
    PROVE  n \in ToPush(l, r)
  BY DEF Merged, MergedEntry, ToPush

\* Only notes that have an entry are transferred, and the merged index names them.
LEMMA TransfersAreNamed ==
    ASSUME NEW l \in SoundIndex, NEW r \in SoundIndex, NEW n \in Notes
    PROVE  /\ n \in ToFetch(l, r) => r.notes[n] # NoEntry
           /\ n \in ToPush(l, r) => l.notes[n] # NoEntry
           /\ n \in ToFetch(l, r) \union ToPush(l, r)
                  => /\ Merged(l, r).notes[n] # NoEntry
                     /\ Merged(l, r).notes[n].obj \in Objects
  <1> DEFINE a == l.notes[n]
             b == r.notes[n]
             kept == IF ResolveEntry(a, b) = "remote" THEN b ELSE a
  <1>1. /\ n \in ToFetch(l, r) => b # NoEntry
        /\ n \in ToPush(l, r) => a # NoEntry
    BY DEF ToFetch, ToPush
  <1>2. 0 \notin Objects /\ NoEntry.obj = 0
    BY Sizes DEF Objects, NoEntry
  <1>3. ASSUME n \in ToFetch(l, r) \union ToPush(l, r)
        PROVE  MergedEntry(l, r, n).obj \in Objects
    <2>1. n \notin PurgedOut(l, r) /\ (a # NoEntry \/ b # NoEntry)
      BY <1>1, <1>3 DEF ToFetch, ToPush
    <2>2. a \in Named /\ b \in Named /\ kept \in Entry
      BY DEF SoundIndex, Named
    <2>3. CASE b = NoEntry
      BY <2>1, <2>2, <2>3 DEF MergedEntry, Named
    <2>4. CASE b # NoEntry
      <3>1. /\ [kept EXCEPT !.obj = b.obj].obj = b.obj
            /\ [kept EXCEPT !.obj = b.obj, !.synced = kept.digest].obj = b.obj
        BY <2>2 DEF Entry
      <3> QED
        BY <2>1, <2>2, <2>4, <3>1 DEF MergedEntry, Named
    <2> QED
      BY <2>3, <2>4
  <1> QED
    BY <1>1, <1>2, <1>3 DEF Merged

LEMMA CloudEntryNamed ==
    ASSUME NEW x \in Named
    PROVE  /\ [x EXCEPT !.synced = 0, !.shape = 0] \in Named
           /\ [x EXCEPT !.synced = 0, !.shape = 0].obj = x.obj
           /\ x = NoEntry => [x EXCEPT !.synced = 0, !.shape = 0] = NoEntry
  <1> DEFINE y == [x EXCEPT !.synced = 0, !.shape = 0]
  <1>1. x \in Entry /\ 0 \in Digests
    BY Sizes DEF Named, Digests
  <1>2. y \in Entry /\ y.obj = x.obj
    BY <1>1 DEF Entry
  <1>3. ASSUME x = NoEntry
        PROVE  y = NoEntry
    <2>1. /\ y.obj = x.obj /\ y.clock = x.clock /\ y.dead = x.dead /\ y.digest = x.digest
          /\ y.synced = 0 /\ y.shape = 0
      BY <1>1 DEF Entry
    <2>2. /\ x.obj = 0 /\ x.clock = 0 /\ x.dead = FALSE /\ x.digest = 0
          /\ NoEntry \in Entry /\ NoEntry.obj = 0 /\ NoEntry.clock = 0 /\ NoEntry.dead = FALSE
          /\ NoEntry.digest = 0 /\ NoEntry.synced = 0 /\ NoEntry.shape = 0
      BY <1>1, <1>3 DEF NoEntry
    <2> QED
      BY <1>2, <2>1, <2>2 DEF Entry
  <1> QED
    BY <1>2, <1>3 DEF Named

LEMMA CloudIndexSound ==
    ASSUME NEW m \in SoundIndex
    PROVE  /\ IndexForCloud(m) \in SoundIndex
           /\ \A n \in Notes : IndexForCloud(m).notes[n].obj = m.notes[n].obj
           /\ \A n \in Notes : IndexForCloud(m).notes[n] # NoEntry => m.notes[n] # NoEntry
  <1> DEFINE f == [n \in Notes |-> [m.notes[n] EXCEPT !.synced = 0, !.shape = 0]]
  <1>1. \A n \in Notes : m.notes[n] \in Named
    BY DEF SoundIndex
  <1>2. /\ \A n \in Notes : f[n] \in Named /\ f[n].obj = m.notes[n].obj
        /\ \A n \in Notes : m.notes[n] = NoEntry => f[n] = NoEntry
    BY <1>1, CloudEntryNamed
  <1>3. f \in [Notes -> Named]
    BY <1>2
  <1>4. IndexForCloud(m) = [m EXCEPT !.notes = f]
    BY DEF IndexForCloud
  <1> HIDE DEF f
  <1>5. [m EXCEPT !.notes = f] \in SoundIndex /\ [m EXCEPT !.notes = f].notes = f
    BY <1>3 DEF SoundIndex
  <1> QED
    BY <1>2, <1>4, <1>5

\* Two devices that merge the same pair of indexes, each from its own side, name
\* the same version of every note and the same purges (mergeIndexes).
THEOREM MergeCommutes ==
    ASSUME NEW l \in SoundIndex, NEW r \in SoundIndex, NEW n \in Notes
    PROVE  /\ Merged(l, r).purged[n] = Merged(r, l).purged[n]
           /\ Merged(l, r).notes[n].clock = Merged(r, l).notes[n].clock
           /\ Merged(l, r).notes[n].dead = Merged(r, l).notes[n].dead
           /\ Merged(l, r).notes[n].digest = Merged(r, l).notes[n].digest
  <1> DEFINE a == l.notes[n]
             b == r.notes[n]
             mine == IF ResolveEntry(a, b) = "remote" THEN b ELSE a
             his  == IF ResolveEntry(b, a) = "remote" THEN a ELSE b
  <1>1. \A x, y \in 0 .. MaxClock : Later(x, y) = Later(y, x)
    BY Sizes DEF Later
  <1>2. /\ \A k \in Notes : l.purged[k] \in 0 .. MaxClock /\ r.purged[k] \in 0 .. MaxClock
        /\ a \in Entry /\ b \in Entry
    BY DEF SoundIndex, Named
  <1>3. a.clock \in 0 .. MaxClock /\ b.clock \in 0 .. MaxClock
    BY <1>2 DEF Entry
  <1>4. Purged(l, r)[n] = Purged(r, l)[n]
    BY <1>1, <1>2 DEF Purged
  <1>5. n \in PurgedOut(l, r) <=> n \in PurgedOut(r, l)
    BY <1>1, <1>3, <1>4 DEF PurgedOut
  <1>6. mine.clock = his.clock /\ mine.dead = his.dead /\ mine.digest = his.digest
    <2>1. /\ a.clock \in Nat /\ b.clock \in Nat /\ a.digest \in Nat /\ b.digest \in Nat
          /\ a.dead \in BOOLEAN /\ b.dead \in BOOLEAN
      BY <1>2, Sizes DEF Entry, Digests
    <2>2. CASE a.dead = b.dead
      BY <2>1, <2>2 DEF ResolveEntry
    <2>3. CASE a.dead # b.dead
      BY <2>1, <2>3 DEF ResolveEntry
    <2> QED
      BY <2>2, <2>3
  <1>7. /\ mine \in Entry /\ his \in Entry
        /\ \A x \in Entry, o \in 0 .. MaxObjects :
             /\ [x EXCEPT !.obj = o].clock = x.clock
             /\ [x EXCEPT !.obj = o].dead = x.dead
             /\ [x EXCEPT !.obj = o].digest = x.digest
             /\ [x EXCEPT !.obj = o, !.synced = x.digest].clock = x.clock
             /\ [x EXCEPT !.obj = o, !.synced = x.digest].dead = x.dead
             /\ [x EXCEPT !.obj = o, !.synced = x.digest].digest = x.digest
    BY <1>2 DEF Entry
  <1>8. a.obj \in 0 .. MaxObjects /\ b.obj \in 0 .. MaxObjects
    BY <1>2 DEF Entry
  <1>9. CASE n \in PurgedOut(l, r) \/ a = NoEntry \/ b = NoEntry
    BY <1>4, <1>5, <1>9 DEF Merged, MergedEntry
  <1>10. CASE ~ (n \in PurgedOut(l, r) \/ a = NoEntry \/ b = NoEntry)
    BY <1>4, <1>5, <1>6, <1>7, <1>8, <1>10 DEF Merged, MergedEntry
  <1> QED
    BY <1>9, <1>10

\* A merge leaves nothing to do: a second cycle over what the first one published
\* fetches nothing and sends nothing (syncNotesV2).
THEOREM MergeSettles ==
    ASSUME NEW l \in SoundIndex, NEW r \in SoundIndex
    PROVE  LET m == Merged(l, r)
           IN  ToFetch(m, IndexForCloud(m)) = {} /\ ToPush(m, IndexForCloud(m)) = {}
  <1> DEFINE m == Merged(l, r)
             c == IndexForCloud(m)
  <1>1. m \in SoundIndex
    BY MergedSound
  <1>2. ASSUME NEW n \in Notes
        PROVE  /\ c.notes[n] # NoEntry => m.notes[n] # NoEntry
               /\ m.notes[n] # NoEntry => c.notes[n] # NoEntry
               /\ m.notes[n].digest = c.notes[n].digest
    <2>1. m.notes[n] \in Named /\ m.notes[n] \in Entry
      BY <1>1 DEF SoundIndex, Named
    <2>2. c.notes[n] = [m.notes[n] EXCEPT !.synced = 0, !.shape = 0]
      BY <1>1 DEF IndexForCloud, SoundIndex
    <2>3. c.notes[n].obj = m.notes[n].obj /\ c.notes[n].digest = m.notes[n].digest
      BY <2>1, <2>2 DEF Entry
    <2>4. NoEntry.obj = 0 /\ 0 \notin Objects
      BY Sizes DEF NoEntry, Objects
    <2> QED
      BY <1>1, <2>1, <2>3, <2>4, CloudIndexSound DEF Named
  <1> HIDE DEF m, c
  <1>3. ToFetch(m, c) = {} /\ ToPush(m, c) = {}
    BY <1>2 DEF ToFetch, ToPush
  <1> QED
    BY <1>3 DEF m, c

----------------------------------------------------------------------------
(* What the actions build.                                                  *)

LEMMA SplitVaultSound ==
    ASSUME NEW notes \in Vault, NEW prev \in SoundIndex,
           NEW purged \in [Notes -> 0 .. MaxClock],
           count.minted \in 0 .. MaxObjects, count.minted < MaxObjects
    PROVE  SplitVault(notes, prev, purged) \in SoundIndex
  <1> DEFINE entry(n) == [obj    |-> IF prev.notes[n] = NoEntry THEN count.minted + 1
                                     ELSE prev.notes[n].obj,
                          clock  |-> notes[n].clock,
                          dead   |-> notes[n].dead,
                          digest |-> DigestOf(notes[n], prev.notes[n]),
                          synced |-> prev.notes[n].synced,
                          shape  |-> notes[n].digest]
  <1>1. ASSUME NEW n \in Notes
        PROVE  entry(n) \in Named
    <2>1. notes[n] \in Version /\ prev.notes[n] \in Named /\ prev.notes[n] \in Entry
      BY DEF Vault, SoundIndex, Named
    <2>2. DigestOf(notes[n], prev.notes[n]) \in Digests
      BY <2>1 DEF DigestOf, Version, Entry
    <2>3. count.minted + 1 \in Objects
      BY Sizes DEF Objects
    <2>4. entry(n).obj \in Objects
      BY <2>1, <2>3 DEF Named
    <2>5. Objects \subseteq 0 .. MaxObjects
      BY Sizes DEF Objects
    <2>6. entry(n) \in Entry
      BY <2>1, <2>2, <2>4, <2>5 DEF Version, Entry
    <2> QED
      BY <2>4, <2>6 DEF Named
  <1>2. SplitVault(notes, prev, purged)
            = [notes |-> [n \in Notes |-> IF notes[n] = NoNote THEN NoEntry ELSE entry(n)],
               purged |-> purged]
    BY DEF SplitVault
  <1> HIDE DEF entry
  <1> QED
    BY <1>1, <1>2, Blanks DEF SoundIndex

LEMMA LocalIndexSound ==
    ASSUME NEW d \in Devices, cyc[d] \in Cycle
    PROVE  LocalIndex(d) \in SoundIndex
  <1> DEFINE m == Plan(d, Merged)
             absent == cyc[d].lost \intersect Plan(d, ToFetch)
             f == [n \in Notes |->
                     IF n \in absent THEN cyc[d].local.notes[n]
                     ELSE IF n \in cyc[d].done
                          THEN [m.notes[n] EXCEPT !.synced = m.notes[n].digest]
                          ELSE m.notes[n]]
  <1>1. cyc[d].local \in SoundIndex /\ cyc[d].remote \in SoundIndex
    BY DEF Cycle
  <1>2. m \in SoundIndex
    BY <1>1, MergedSound DEF Plan
  <1>3. ASSUME NEW n \in Notes
        PROVE  [m.notes[n] EXCEPT !.synced = m.notes[n].digest] \in Named
    <2>1. m.notes[n] \in Named /\ m.notes[n] \in Entry
      BY <1>2 DEF SoundIndex, Named
    <2> DEFINE e == m.notes[n]
               y == [e EXCEPT !.synced = e.digest]
    <2> HIDE DEF m
    <2>2. y \in Entry /\ y.obj = e.obj
      BY <2>1 DEF Entry
    <2>3. ASSUME e = NoEntry
          PROVE  y = NoEntry
      <3>1. /\ y.obj = e.obj /\ y.clock = e.clock /\ y.dead = e.dead /\ y.digest = e.digest
            /\ y.synced = e.digest /\ y.shape = e.shape
        BY <2>1 DEF Entry
      <3>2. NoEntry \in Entry /\ NoEntry.digest = NoEntry.synced
        BY <2>1, <2>3 DEF NoEntry
      <3> QED
        BY <2>2, <2>3, <3>1, <3>2 DEF Entry
    <2> QED
      BY <2>1, <2>2, <2>3 DEF Named
  <1>4. \A n \in Notes : m.notes[n] \in Named /\ cyc[d].local.notes[n] \in Named
    BY <1>1, <1>2 DEF SoundIndex
  <1>5. LocalIndex(d) = [m EXCEPT !.notes = f]
    BY DEF LocalIndex
  <1> HIDE DEF m
  <1>6. f \in [Notes -> Named]
    BY <1>3, <1>4
  <1> HIDE DEF f
  <1> QED
    BY <1>2, <1>5, <1>6 DEF SoundIndex

----------------------------------------------------------------------------
(* The initial states.                                                      *)

\* A device gives two notes of the start two keys, and no key twice.
LEMMA KeysDiffer ==
    ASSUME NEW layout, NEW d \in Devices, NEW n \in Notes
    PROVE  /\ KeyOf(layout, d, n) \in 1 .. Minted
           /\ \A e \in Devices, m \in Notes : KeyOf(layout, d, n) = KeyOf(layout, e, m) => n = m
  <1> DEFINE S == Devices \X Notes
             Keying(f) == \A x, y \in S : f[x] = f[y] => x = y
             key == CHOOSE f \in [S -> 1 .. Minted] : Keying(f)
             of(e) == IF layout = "shared" THEN Desk ELSE e
  <1>1. PICK f \in Bijection(S, 1 .. Minted) : TRUE
    <2>1. IsFiniteSet(S)
      BY PopulationAssumption, FS_Product
    <2> QED
      BY <2>1, FS_CardinalityType, Fun_ExistsBijSymmetric DEF Minted, ExistsBijection
  <1>2. f \in [S -> 1 .. Minted] /\ Keying(f)
    BY <1>1 DEF Bijection, Injection, IsInjective
  <1>3. key \in [S -> 1 .. Minted] /\ Keying(key)
    <2> HIDE DEF Keying
    <2> QED
      BY <1>2, Zenon
  <1>4. \A e \in Devices : of(e) \in Devices
    <2>1. Desk \in Devices
      BY PopulationAssumption DEF Desk
    <2> QED
      BY <2>1
  <1>5. \A e \in Devices, m \in Notes : KeyOf(layout, e, m) = key[<<of(e), m>>]
    BY DEF KeyOf
  <1> HIDE DEF key, of
  <1>6. \A e \in Devices, m \in Notes : <<of(e), m>> \in S
    BY <1>4
  <1> HIDE DEF S
  <1>7. KeyOf(layout, d, n) \in 1 .. Minted
    BY <1>3, <1>5, <1>6
  <1>8. ASSUME NEW e \in Devices, NEW m \in Notes, KeyOf(layout, d, n) = KeyOf(layout, e, m)
        PROVE  n = m
    <2> DEFINE x == <<of(d), n>>
               y == <<of(e), m>>
    <2>1. x \in S /\ y \in S /\ key[x] = key[y]
      BY <1>5, <1>6, <1>8
    <2>2. x[2] = n /\ y[2] = m
      OBVIOUS
    <2> HIDE DEF x, y
    <2>3. x = y
      BY <1>3, <2>1
    <2> QED
      BY <2>2, <2>3
  <1> QED
    BY <1>7, <1>8

LEMMA KeyOfType ==
    ASSUME NEW layout, NEW d \in Devices, NEW n \in Notes
    PROVE  KeyOf(layout, d, n) \in Objects
  <1>1. KeyOf(layout, d, n) \in 1 .. Minted
    BY KeysDiffer
  <1> QED
    BY <1>1, Sizes DEF Objects

LEMMA EntryOfType ==
    ASSUME NEW layout, NEW d \in Devices, NEW n \in Notes, NEW synced \in {0, Old.digest}
    PROVE  /\ EntryOf(layout, d, n, synced) \in Named
           /\ EntryOf(layout, d, n, synced) # NoEntry
           /\ EntryOf(layout, d, n, synced).obj = KeyOf(layout, d, n)
  <1>1. KeyOf(layout, d, n) \in Objects
    BY KeyOfType
  <1>2. 0 \in Digests /\ 1 \in Digests /\ 1 \in 0 .. MaxClock
    BY Sizes DEF Digests
  <1>3. /\ EntryOf(layout, d, n, synced).obj = KeyOf(layout, d, n)
        /\ EntryOf(layout, d, n, synced).clock = 1
    BY DEF EntryOf, Old
  <1>4. EntryOf(layout, d, n, synced) \in Entry
    BY <1>1, <1>2, Sizes DEF EntryOf, Entry, Old, Objects
  <1> QED
    BY <1>1, <1>3, <1>4 DEF Named, NoEntry

LEMMA InitIInv == Init => IInv
  <1> SUFFICES ASSUME Init
               PROVE  IInv
    OBVIOUS
  <1>1. PICK layout \in Layouts : Starts(layout)
    BY DEF Init
  <1>2. Old \in Version /\ NoNote \in Version /\ Old # NoNote
    BY Sizes, Blanks DEF Old, Version, Digests, NoNote
  <1>3. First \subseteq Notes /\ Desk \in Devices
    BY SettingsAssumption, PopulationAssumption DEF Desk
  <1> DEFINE store(d) == [o \in Objects |->
                            IF \E n \in First : KeyOf(layout, d, n) = o THEN Old ELSE NoNote]
             shared == layout = "shared"
             synced(d) == IF shared \/ d = Desk THEN Old.digest ELSE 0
             entry(d, n) == IF n \in First THEN EntryOf(layout, d, n, synced(d)) ELSE NoEntry
             shown(n) == IF n \in First THEN EntryOf(layout, Desk, n, 0) ELSE NoEntry
  <1>4. \A d \in Devices : store(d) \in [Objects -> Version]
    BY <1>2
  <1>5. \A d \in Devices, n \in Notes : entry(d, n) \in Named
    BY <1>3, EntryOfType, Blanks
  <1>6. \A n \in Notes : shown(n) \in Named
    BY <1>3, EntryOfType, Blanks
  <1>7. /\ disk = [d \in Devices |-> [EmptyIndex EXCEPT !.notes = [n \in Notes |-> entry(d, n)]]]
        /\ objs = [d \in Devices |-> store(d)]
        /\ cloud = [EmptyIndex EXCEPT !.notes = [n \in Notes |-> shown(n)]]
        /\ cobjs = store(Desk)
        /\ count = [edits |-> IF shared THEN 0 ELSE 1, minted |-> Minted, faults |-> 0]
    BY <1>1 DEF Starts
  <1> HIDE DEF entry, shown
  <1>8. disk \in [Devices -> SoundIndex]
    BY <1>5, <1>7, Blanks DEF SoundIndex
  <1>9. cloud \in SoundIndex /\ \A n \in Notes : cloud.notes[n] = shown(n)
    BY <1>6, <1>7, Blanks DEF SoundIndex
  <1>10. objs \in [Devices -> [Objects -> Version]] /\ cobjs \in [Objects -> Version]
    BY <1>2, <1>3, <1>4, <1>7
  <1>11. count \in [edits : 0 .. MaxEdits, minted : 0 .. MaxObjects, faults : 0 .. MaxFaults]
    <2>1. (IF shared THEN 0 ELSE 1) \in 0 .. MaxEdits
      BY SettingsAssumption, Sizes
    <2>2. Minted \in 0 .. MaxObjects /\ 0 \in 0 .. MaxFaults
      BY Sizes
    <2> QED
      BY <1>7, <2>1, <2>2
  <1>12. /\ mem \in [Devices -> Memory] /\ save \in [Devices -> Saving]
         /\ cyc \in [Devices -> Cycle] /\ told \in [Devices -> BOOLEAN]
    BY Blanks DEF Init
  <1>13. /\ written \in [Notes -> SUBSET Version] /\ acked \in Vault
         /\ stone \in [Notes -> 0 .. MaxClock] /\ missed \in SUBSET Notes
    BY <1>2, Sizes DEF Init, Vault
  <1>14. Types
    BY <1>8, <1>9, <1>10, <1>11, <1>12, <1>13 DEF Types
  <1>15. PublishedIsFetchable
    <2> SUFFICES ASSUME NEW n \in Notes, cloud.notes[n] # NoEntry
                 PROVE  cobjs[cloud.notes[n].obj] # NoNote
      BY DEF PublishedIsFetchable
    <2>1. n \in First /\ cloud.notes[n].obj = KeyOf(layout, Desk, n)
      BY <1>3, <1>9, EntryOfType DEF shown
    <2>2. KeyOf(layout, Desk, n) \in Objects
      BY <1>3, KeyOfType
    <2> QED
      BY <1>2, <1>7, <2>1, <2>2
  <1>16. \A d \in Devices : cyc[d] = Idle
    BY DEF Init
  <1>17. ReadIsFetchable /\ SentIsThere
    BY <1>16 DEF ReadIsFetchable, SentIsThere, Idle, EmptyIndex
  <1> QED
    BY <1>14, <1>15, <1>17 DEF IInv

----------------------------------------------------------------------------
(* The main process: nothing of the cloud or of a cycle moves.              *)

\* The invariant's other parts speak only of cyc, cloud and cobjs.
LEMMA CloudSideKept ==
    ASSUME IInv, UNCHANGED <<cyc, cloud, cobjs>>
    PROVE  PublishedIsFetchable' /\ ReadIsFetchable' /\ SentIsThere'
  BY DEF IInv, PublishedIsFetchable, ReadIsFetchable, SentIsThere, Plan

LEMMA FaultType ==
    ASSUME Types, Fault
    PROVE  count' \in [edits : 0 .. MaxEdits, minted : 0 .. MaxObjects, faults : 0 .. MaxFaults]
  BY Sizes DEF Types, Fault

LEMMA LoadsType ==
    ASSUME IInv, NEW d \in Devices, NEW unread \in SUBSET Notes, Loads(d, unread),
           count' \in [edits : 0 .. MaxEdits, minted : 0 .. MaxObjects, faults : 0 .. MaxFaults]
    PROVE  IInv'
  <1>1. Types
    BY DEF IInv
  <1>2. LoadVault(d, unread) \in Memory
    <2> DEFINE note(n) == IF disk[d].notes[n] = NoEntry \/ n \in unread THEN NoNote
                          ELSE objs[d][disk[d].notes[n].obj]
    <2>1. disk[d] \in SoundIndex /\ objs[d] \in [Objects -> Version]
      BY <1>1 DEF Types
    <2>2. \A n \in Notes : note(n) \in Version
      BY <2>1, Blanks DEF SoundIndex, Named
    <2> QED
      BY <2>1, <2>2 DEF LoadVault, Memory, Vault
  <1>3. missed' \in SUBSET Notes
    BY <1>1 DEF Types, Loads, Behind
  <1>4. Types'
    BY <1>1, <1>2, <1>3 DEF Types, Loads
  <1> QED
    BY <1>4, CloudSideKept DEF IInv, Loads

LEMMA BeginSaveType ==
    ASSUME IInv, NEW d \in Devices, NEW notes \in Vault,
           NEW purged \in [Notes -> 0 .. MaxClock], BeginSave(d, notes, purged),
           written' \in [Notes -> SUBSET Version],
           count' \in [edits : 0 .. MaxEdits, minted : 0 .. MaxObjects, faults : 0 .. MaxFaults]
    PROVE  IInv'
  <1>1. Types
    BY DEF IInv
  <1> DEFINE index == SplitVault(notes, mem[d].index, purged)
             saving == [at |-> "objects", notes |-> notes, index |-> index]
  <1>2. mem[d].index \in SoundIndex /\ count.minted \in 0 .. MaxObjects
    BY <1>1 DEF Types, Memory
  <1>3. index \in SoundIndex
    BY <1>2, SplitVaultSound DEF BeginSave
  <1>4. save' = [save EXCEPT ![d] = saving]
    BY DEF BeginSave
  <1> HIDE DEF index
  <1>5. saving \in Saving
    BY <1>3 DEF Saving
  <1> HIDE DEF saving
  <1>6. Types'
    BY <1>1, <1>4, <1>5 DEF Types, BeginSave
  <1> QED
    BY <1>6, CloudSideKept DEF IInv, BeginSave

LEMMA EditType ==
    ASSUME IInv, NEW d \in Devices, NEW n \in Notes, Edit(d, n)
    PROVE  IInv'
  <1>1. Types
    BY DEF IInv
  <1>2. PICK clock \in 1 .. MaxClock, dead \in BOOLEAN :
            LET version == [clock |-> clock, dead |-> dead, digest |-> count.edits + 2]
            IN  /\ count.edits < MaxEdits
                /\ BeginSave(d, [mem[d].notes EXCEPT ![n] = version], mem[d].index.purged)
                /\ written' = [written EXCEPT ![n] = @ \union {version}]
                /\ count' = [count EXCEPT !.edits = @ + 1, !.minted = @ + MintsOne(d, n)]
    BY DEF Edit
  <1> DEFINE version == [clock |-> clock, dead |-> dead, digest |-> count.edits + 2]
             notes == [mem[d].notes EXCEPT ![n] = version]
  <1>3. count.edits \in 0 .. MaxEdits /\ count.minted \in 0 .. MaxObjects
    BY <1>1 DEF Types
  <1>4. version \in Version
    BY <1>2, <1>3, Sizes DEF Version, Digests
  <1>5. notes \in Vault /\ mem[d].index.purged \in [Notes -> 0 .. MaxClock]
    BY <1>1, <1>4 DEF Types, Memory, Vault, SoundIndex
  <1>6. written' \in [Notes -> SUBSET Version]
    BY <1>1, <1>2, <1>4 DEF Types
  <1>7. count' \in [edits : 0 .. MaxEdits, minted : 0 .. MaxObjects, faults : 0 .. MaxFaults]
    <2>1. MintsOne(d, n) \in 0 .. 1
      BY DEF MintsOne
    <2>2. count.minted + MintsOne(d, n) \in 0 .. MaxObjects
      BY <1>2, <1>3, <2>1, Sizes DEF BeginSave
    <2>3. count.edits + 1 \in 0 .. MaxEdits
      BY <1>2, <1>3, Sizes
    <2>4. count' = [count EXCEPT !.edits = count.edits + 1,
                                 !.minted = count.minted + MintsOne(d, n)]
      BY <1>2
    <2>5. count \in [edits : 0 .. MaxEdits, minted : 0 .. MaxObjects, faults : 0 .. MaxFaults]
      BY <1>1 DEF Types
    <2> QED
      BY <2>2, <2>3, <2>4, <2>5
  <1> HIDE DEF version
  <1> QED
    BY <1>2, <1>5, <1>6, <1>7, BeginSaveType DEF version

LEMMA PurgeType ==
    ASSUME IInv, NEW d \in Devices, NEW n \in Notes, Purge(d, n)
    PROVE  IInv'
  <1>1. Types
    BY DEF IInv
  <1>2. PICK clock \in mem[d].notes[n].clock .. MaxClock :
            BeginSave(d, [mem[d].notes EXCEPT ![n] = NoNote],
                      [mem[d].index.purged EXCEPT ![n] = clock])
    BY DEF Purge
  <1>3. mem[d].notes \in Vault /\ mem[d].index.purged \in [Notes -> 0 .. MaxClock]
    BY <1>1 DEF Types, Memory, SoundIndex
  <1>4. clock \in 0 .. MaxClock
    BY <1>3, Sizes DEF Vault, Version
  <1>5. /\ [mem[d].notes EXCEPT ![n] = NoNote] \in Vault
        /\ [mem[d].index.purged EXCEPT ![n] = clock] \in [Notes -> 0 .. MaxClock]
    BY <1>3, <1>4, Blanks DEF Vault
  <1>6. count' \in [edits : 0 .. MaxEdits, minted : 0 .. MaxObjects, faults : 0 .. MaxFaults]
    <2>1. count \in [edits : 0 .. MaxEdits, minted : 0 .. MaxObjects, faults : 0 .. MaxFaults]
      BY <1>1 DEF Types
    <2>2. count' = [count EXCEPT !.edits = count.edits + 1] /\ count.edits < MaxEdits
      BY DEF Purge
    <2>3. count.edits + 1 \in 0 .. MaxEdits
      BY <2>1, <2>2, Sizes
    <2> QED
      BY <2>1, <2>2, <2>3
  <1>7. written' \in [Notes -> SUBSET Version]
    BY <1>1 DEF Types, Purge
  <1> QED
    BY <1>2, <1>5, <1>6, <1>7, BeginSaveType

LEMMA SaveObjectsType ==
    ASSUME IInv, NEW d \in Devices, SaveObjects(d)
    PROVE  IInv'
  <1>1. Types
    BY DEF IInv
  <1> DEFINE changed == Rewritten(save[d].index, mem[d].index)
             store == [o \in Objects |->
                         IF \E n \in changed : save[d].index.notes[n].obj = o
                         THEN save[d].notes[CHOOSE n \in changed : save[d].index.notes[n].obj = o]
                         ELSE objs[d][o]]
  <1>2. changed \subseteq Notes
    BY DEF Rewritten
  <1> HIDE DEF changed
  <1>3. save[d].notes \in Vault /\ objs[d] \in [Objects -> Version] /\ save[d] \in Saving
    BY <1>1 DEF Types, Saving
  <1>4. store \in [Objects -> Version]
    <2> SUFFICES ASSUME NEW o \in Objects
                 PROVE  store[o] \in Version
      OBVIOUS
    <2>1. CASE \E n \in changed : save[d].index.notes[n].obj = o
      <3>1. (CHOOSE n \in changed : save[d].index.notes[n].obj = o) \in Notes
        BY <1>2, <2>1
      <3> QED
        BY <1>3, <2>1, <3>1 DEF Vault
    <2>2. CASE ~ \E n \in changed : save[d].index.notes[n].obj = o
      BY <1>3, <2>2
    <2> QED
      BY <2>1, <2>2
  <1>5. objs' = [objs EXCEPT ![d] = store]
    BY DEF SaveObjects, changed
  <1> HIDE DEF store
  <1>6. [save[d] EXCEPT !.at = "index"] \in Saving
    BY <1>3 DEF Saving
  <1>7. save' = [save EXCEPT ![d] = [save[d] EXCEPT !.at = "index"]]
    BY <1>1 DEF SaveObjects, Types
  <1>8. UNCHANGED <<disk, mem, cyc, cloud, cobjs, told, written, acked, stone, missed, count>>
    BY DEF SaveObjects, history
  <1>9. Types'
    BY <1>1, <1>4, <1>5, <1>6, <1>7, <1>8 DEF Types
  <1> QED
    BY <1>8, <1>9, CloudSideKept DEF IInv

LEMMA SaveIndexType ==
    ASSUME IInv, NEW d \in Devices, SaveIndex(d)
    PROVE  IInv'
  <1>1. Types
    BY DEF IInv
  <1> DEFINE orphans == Claimed(mem[d].index) \ Claimed(save[d].index)
             store == [o \in Objects |-> IF o \in orphans THEN NoNote ELSE objs[d][o]]
             memory == [open |-> TRUE, notes |-> save[d].notes, index |-> save[d].index]
             newest(n) == LET v == save[d].notes[n]
                          IN  IF v # NoNote /\ ResolveEntry(acked[n], v) = "remote"
                              THEN v ELSE acked[n]
             stones == [n \in Notes |-> Later(stone[n], save[d].index.purged[n])]
  <1>2. /\ save[d].notes \in Vault /\ save[d].index \in SoundIndex
        /\ objs[d] \in [Objects -> Version]
    BY <1>1 DEF Types, Saving
  <1>3. store \in [Objects -> Version]
    BY <1>2, Blanks
  <1>4. memory \in Memory
    BY <1>2 DEF Memory
  <1>5. [n \in Notes |-> newest(n)] \in Vault
    BY <1>1, <1>2 DEF Types, Vault
  <1>6. stones \in [Notes -> 0 .. MaxClock]
    <2>1. \A n \in Notes : stone[n] \in 0 .. MaxClock /\ save[d].index.purged[n] \in 0 .. MaxClock
      BY <1>1, <1>2 DEF Types, SoundIndex
    <2> QED
      BY <2>1, LaterType
  <1>7. /\ disk' = [disk EXCEPT ![d] = save[d].index]
        /\ objs' = [objs EXCEPT ![d] = store]
        /\ mem' = [mem EXCEPT ![d] = memory]
        /\ save' = [save EXCEPT ![d] = Free]
        /\ acked' = [n \in Notes |-> newest(n)]
        /\ stone' = stones
        /\ UNCHANGED <<cyc, cloud, cobjs, told, written, missed, count>>
    BY DEF SaveIndex
  <1> HIDE DEF store, memory, stones, newest
  <1>8. Types'
    BY <1>1, <1>2, <1>3, <1>4, <1>5, <1>6, <1>7, Blanks DEF Types
  <1> QED
    BY <1>7, <1>8, CloudSideKept DEF IInv

----------------------------------------------------------------------------
(* The notes cycle.                                                         *)

\* One device's cycle moves on and what it read and sent stays in the cloud.
LEMMA CycleMoves ==
    ASSUME IInv, NEW d \in Devices, NEW c,
           cyc' = [cyc EXCEPT ![d] = c], UNCHANGED cobjs,
           \A n \in Notes : c.remote.notes[n] # NoEntry => cobjs[c.remote.notes[n].obj] # NoNote,
           c.at = "transfer" =>
               \A n \in c.done \intersect ToPush(c.local, c.remote) :
                   cobjs[Merged(c.local, c.remote).notes[n].obj] # NoNote
    PROVE  ReadIsFetchable' /\ SentIsThere'
  <1>1. \A e \in Devices : cyc'[e] = IF e = d THEN c ELSE cyc[e]
    BY DEF IInv, Types
  <1>2. ReadIsFetchable'
    BY <1>1 DEF IInv, ReadIsFetchable
  <1>3. SentIsThere'
    <2> SUFFICES ASSUME NEW e \in Devices, cyc'[e].at = "transfer",
                        NEW n \in cyc'[e].done \intersect Plan(e, ToPush)'
                 PROVE  cobjs'[Plan(e, Merged)'.notes[n].obj] # NoNote
      BY DEF SentIsThere
    <2>1. CASE e = d
      BY <1>1, <2>1 DEF Plan
    <2>2. CASE e # d
      BY <1>1, <2>2 DEF IInv, SentIsThere, Plan
    <2> QED
      BY <2>1, <2>2
  <1> QED
    BY <1>2, <1>3

\* The cycle gives up.
LEMMA CycleEnds ==
    ASSUME IInv, NEW d \in Devices, cyc' = [cyc EXCEPT ![d] = Idle], UNCHANGED <<cloud, cobjs>>
    PROVE  PublishedIsFetchable' /\ ReadIsFetchable' /\ SentIsThere'
  <1>1. /\ \A n \in Notes : Idle.remote.notes[n] = NoEntry
        /\ Idle.at # "transfer"
    BY DEF Idle, EmptyIndex
  <1>2. PublishedIsFetchable'
    BY DEF IInv, PublishedIsFetchable
  <1> QED
    BY <1>1, <1>2, CycleMoves

LEMMA CycleStartType ==
    ASSUME IInv, NEW d \in Devices, CycleStart(d)
    PROVE  IInv'
  <1>1. Types
    BY DEF IInv
  <1> DEFINE c == [Idle EXCEPT !.at = "transfer", !.local = disk[d], !.remote = cloud]
  <1>2. cyc' = [cyc EXCEPT ![d] = c]
    BY DEF CycleStart
  <1>3. /\ c \in Cycle /\ c.remote = cloud /\ c.done = {}
    <2>1. disk[d] \in SoundIndex /\ cloud \in SoundIndex
      BY <1>1 DEF Types
    <2>2. Idle \in Cycle /\ Idle.done = {}
      BY Blanks DEF Idle
    <2> QED
      BY <2>1, <2>2 DEF Cycle
  <1> HIDE DEF c
  <1>4. UNCHANGED <<disk, objs, mem, save, cloud, cobjs, told, written, acked, stone, missed, count>>
    BY DEF CycleStart, history
  <1>5. Types'
    BY <1>1, <1>2, <1>3, <1>4 DEF Types
  <1>6. PublishedIsFetchable'
    BY <1>4 DEF IInv, PublishedIsFetchable
  <1>7. \A n \in Notes : c.remote.notes[n] # NoEntry => cobjs[c.remote.notes[n].obj] # NoNote
    BY <1>3 DEF IInv, PublishedIsFetchable
  <1> QED
    BY <1>2, <1>3, <1>4, <1>5, <1>6, <1>7, CycleMoves DEF IInv

\* Only the notes a cycle has handled change: what it sent does not.
LEMMA CycleHandles ==
    ASSUME IInv, NEW d \in Devices, NEW c \in Cycle,
           cyc' = [cyc EXCEPT ![d] = c], UNCHANGED <<cloud, cobjs>>,
           c.at = cyc[d].at, c.local = cyc[d].local, c.remote = cyc[d].remote,
           c.at = "transfer" =>
               c.done \intersect Plan(d, ToPush) \subseteq cyc[d].done \intersect Plan(d, ToPush)
    PROVE  PublishedIsFetchable' /\ ReadIsFetchable' /\ SentIsThere'
  <1>1. \A n \in Notes : c.remote.notes[n] # NoEntry => cobjs[c.remote.notes[n].obj] # NoNote
    BY DEF IInv, ReadIsFetchable
  <1>2. c.at = "transfer" =>
          \A n \in c.done \intersect ToPush(c.local, c.remote) :
              cobjs[Merged(c.local, c.remote).notes[n].obj] # NoNote
    BY DEF IInv, SentIsThere, Plan
  <1>3. PublishedIsFetchable'
    BY DEF IInv, PublishedIsFetchable
  <1> QED
    BY <1>1, <1>2, <1>3, CycleMoves

\* A note is either fetched or sent.
LEMMA OneWay ==
    ASSUME NEW l \in SoundIndex, NEW r \in SoundIndex
    PROVE  ToFetch(l, r) \intersect ToPush(l, r) = {}
  BY DEF ToFetch, ToPush

LEMMA GetNoteType ==
    ASSUME IInv, NEW d \in Devices, NEW n \in Notes, GetNote(d, n)
    PROVE  IInv'
  <1>1. Types
    BY DEF IInv
  <1>2. cyc[d] \in Cycle /\ cyc[d].local \in SoundIndex /\ cyc[d].remote \in SoundIndex
    BY <1>1 DEF Types, Cycle
  <1> DEFINE note == cobjs[Plan(d, Merged).notes[n].obj]
             lost == [cyc[d] EXCEPT !.lost = cyc[d].lost \union {n}]
             got  == [cyc[d] EXCEPT !.fetched = [cyc[d].fetched EXCEPT ![n] = note],
                                    !.done = cyc[d].done \union {n}]
             c == IF note = NoNote THEN lost ELSE got
  <1>3. cyc' = [cyc EXCEPT ![d] = c]
    <2>1. CASE note = NoNote
      BY <1>1, <2>1 DEF GetNote, Types
    <2>2. CASE note # NoNote
      <3>1. cyc' = [cyc EXCEPT ![d] = got]
        BY <1>1, <2>2 DEF GetNote, Types, Cycle
      <3> QED
        BY <2>2, <3>1
    <2> QED
      BY <2>1, <2>2
  <1>4. n \in Plan(d, ToFetch)
    BY DEF GetNote
  <1>5. note \in Version
    BY <1>1, <1>2, <1>4, TransfersAreNamed DEF Types, Plan
  <1> HIDE DEF note
  <1>6. lost \in Cycle /\ lost.at = cyc[d].at /\ lost.local = cyc[d].local
          /\ lost.remote = cyc[d].remote /\ lost.done = cyc[d].done
    BY <1>2 DEF Cycle
  <1>7. got \in Cycle /\ got.at = cyc[d].at /\ got.local = cyc[d].local
          /\ got.remote = cyc[d].remote /\ got.done = cyc[d].done \union {n}
    BY <1>2, <1>5 DEF Cycle, Vault
  <1> HIDE DEF lost, got
  <1>8. c \in Cycle /\ c.at = cyc[d].at /\ c.local = cyc[d].local /\ c.remote = cyc[d].remote
          /\ c.done \subseteq cyc[d].done \union {n}
    BY <1>6, <1>7
  <1> HIDE DEF c
  <1>9. n \notin Plan(d, ToPush)
    BY <1>2, <1>4, OneWay DEF Plan
  <1>10. UNCHANGED <<disk, objs, mem, save, cloud, cobjs, told, written, acked, stone, missed, count>>
    BY DEF GetNote, history
  <1>11. Types'
    BY <1>1, <1>3, <1>8, <1>10 DEF Types
  <1> QED
    BY <1>3, <1>8, <1>9, <1>10, <1>11, CycleHandles DEF IInv

LEMMA TransferFailsType ==
    ASSUME IInv, NEW d \in Devices, NEW n \in Notes, TransferFails(d, n)
    PROVE  IInv'
  <1>1. Types
    BY DEF IInv
  <1> DEFINE c == [cyc[d] EXCEPT !.lost = cyc[d].lost \union {n}]
  <1>2. cyc' = [cyc EXCEPT ![d] = c]
    BY <1>1 DEF TransferFails, Types
  <1>3. c \in Cycle /\ c.at = cyc[d].at /\ c.local = cyc[d].local
          /\ c.remote = cyc[d].remote /\ c.done = cyc[d].done
    BY <1>1 DEF Types, Cycle
  <1> HIDE DEF c
  <1>4. UNCHANGED <<disk, objs, mem, save, cloud, cobjs, told, written, acked, stone, missed>>
    BY DEF TransferFails, history
  <1>5. count' \in [edits : 0 .. MaxEdits, minted : 0 .. MaxObjects, faults : 0 .. MaxFaults]
    BY <1>1, FaultType DEF TransferFails
  <1>6. Types'
    BY <1>1, <1>2, <1>3, <1>4, <1>5 DEF Types
  <1> QED
    BY <1>2, <1>3, <1>4, <1>6, CycleHandles DEF IInv

\* A note goes up: nothing that was in the cloud goes away.
LEMMA PutNoteType ==
    ASSUME IInv, NEW d \in Devices, NEW n \in Notes, PutNote(d, n)
    PROVE  IInv'
  <1>1. Types
    BY DEF IInv
  <1>2. cyc[d] \in Cycle /\ cyc[d].local \in SoundIndex /\ cyc[d].remote \in SoundIndex
    BY <1>1 DEF Types, Cycle
  <1> DEFINE note == objs[d][cyc[d].local.notes[n].obj]
             k    == Plan(d, Merged).notes[n].obj
             lost == [cyc[d] EXCEPT !.lost = cyc[d].lost \union {n}]
             sent == [cyc[d] EXCEPT !.done = cyc[d].done \union {n}]
  <1>3. lost \in Cycle /\ lost.at = cyc[d].at /\ lost.local = cyc[d].local
          /\ lost.remote = cyc[d].remote /\ lost.done = cyc[d].done
    BY <1>2 DEF Cycle
  <1>4. sent \in Cycle /\ sent.at = cyc[d].at /\ sent.local = cyc[d].local
          /\ sent.remote = cyc[d].remote /\ sent.done = cyc[d].done \union {n}
    BY <1>2 DEF Cycle
  <1>5. UNCHANGED <<disk, objs, mem, save, cloud, told, written, acked, stone, missed, count>>
    BY DEF PutNote, history
  <1>6. n \in Plan(d, ToPush)
    BY DEF PutNote
  <1>7. k \in Objects /\ cyc[d].local.notes[n] # NoEntry
    BY <1>2, <1>6, TransfersAreNamed DEF Plan
  <1>8. note \in Version
    <2>1. cyc[d].local.notes[n].obj \in Objects
      BY <1>2, <1>7 DEF SoundIndex, Named
    <2> QED
      BY <1>1, <2>1 DEF Types
  <1>9. CASE note = NoNote
    <2>1. cyc' = [cyc EXCEPT ![d] = lost] /\ UNCHANGED cobjs
      BY <1>1, <1>9 DEF PutNote, Types
    <2> HIDE DEF note, lost, sent, k
    <2>2. Types'
      BY <1>1, <1>3, <1>5, <2>1 DEF Types
    <2> QED
      BY <1>3, <1>5, <2>1, <2>2, CycleHandles DEF IInv
  <1>10. CASE note # NoNote
    <2>1. cyc' = [cyc EXCEPT ![d] = sent] /\ cobjs' = [cobjs EXCEPT ![k] = note]
      BY <1>1, <1>10 DEF PutNote, Types
    <2> HIDE DEF note, lost, sent, k
    <2>2. Types'
      BY <1>1, <1>4, <1>5, <1>7, <1>8, <2>1 DEF Types
    <2>3. /\ \A o \in Objects : cobjs[o] # NoNote => cobjs'[o] # NoNote
          /\ cobjs'[k] # NoNote
      BY <1>1, <1>7, <1>10, <2>1 DEF Types
    <2>4. PublishedIsFetchable'
      <3>1. \A m \in Notes : cloud.notes[m] # NoEntry => cloud.notes[m].obj \in Objects
        BY <1>1 DEF Types, SoundIndex, Named
      <3> QED
        BY <1>5, <2>3, <3>1 DEF IInv, PublishedIsFetchable
    <2>5. \A e \in Devices : /\ cyc'[e].at = cyc[e].at /\ cyc'[e].local = cyc[e].local
                             /\ cyc'[e].remote = cyc[e].remote
                             /\ cyc'[e].done = IF e = d THEN cyc[e].done \union {n} ELSE cyc[e].done
      BY <1>1, <1>4, <2>1 DEF Types
    <2>6. ReadIsFetchable'
      <3>1. \A e \in Devices, m \in Notes :
              cyc[e].remote.notes[m] # NoEntry => cyc[e].remote.notes[m].obj \in Objects
        BY <1>1 DEF Types, Cycle, SoundIndex, Named
      <3> QED
        BY <2>3, <2>5, <3>1 DEF IInv, ReadIsFetchable
    <2>7. SentIsThere'
      <3> SUFFICES ASSUME NEW e \in Devices, cyc'[e].at = "transfer",
                          NEW m \in cyc'[e].done \intersect Plan(e, ToPush)'
                   PROVE  cobjs'[Plan(e, Merged)'.notes[m].obj] # NoNote
        BY DEF SentIsThere
      <3>1. /\ Plan(e, ToPush)' = Plan(e, ToPush) /\ Plan(e, Merged)' = Plan(e, Merged)
            /\ cyc[e].at = "transfer"
        BY <2>5 DEF Plan
      <3>2. m \in Notes /\ Plan(e, Merged).notes[m].obj \in Objects
        <4>1. m \in Notes
          BY <3>1 DEF Plan, ToPush
        <4>2. cyc[e].local \in SoundIndex /\ cyc[e].remote \in SoundIndex
          BY <1>1 DEF Types, Cycle
        <4> QED
          BY <3>1, <4>1, <4>2, TransfersAreNamed DEF Plan
      <3>3. CASE m \in cyc[e].done
        BY <2>3, <3>1, <3>2, <3>3 DEF IInv, SentIsThere
      <3>4. CASE m \notin cyc[e].done
        <4>1. e = d /\ m = n
          BY <2>5, <3>4
        <4> QED
          BY <2>3, <3>1, <4>1 DEF k
      <3> QED
        BY <3>3, <3>4
    <2> QED
      BY <2>2, <2>4, <2>6, <2>7 DEF IInv
  <1> QED
    BY <1>9, <1>10

\* The publication: every note the new index cites was in the cloud's index that
\* the cycle read, or was sent.
LEMMA PutIndexType ==
    ASSUME IInv, NEW d \in Devices, PutIndex(d)
    PROVE  IInv'
  <1>1. Types
    BY DEF IInv
  <1>2. cyc[d] \in Cycle /\ cyc[d].local \in SoundIndex /\ cyc[d].remote \in SoundIndex
    BY <1>1 DEF Types, Cycle
  <1> DEFINE m == Plan(d, Merged)
             changed == ~SameIndex(m, cyc[d].local) \/ cyc[d].done # {}
             c == [cyc[d] EXCEPT !.at = "notes", !.index = LocalIndex(d), !.changed = changed]
  <1>3. m \in SoundIndex /\ m = Merged(cyc[d].local, cyc[d].remote)
    BY <1>2, MergedSound DEF Plan
  <1>4. cyc' = [cyc EXCEPT ![d] = c]
    BY <1>1 DEF PutIndex, Types
  <1>5. /\ cloud' = IndexForCloud(m) /\ AllPushed(d)
        \/ cloud' = cloud
    BY DEF PutIndex
  <1>6. cyc[d].at = "transfer" /\ Plan(d, ToPush) \subseteq Handled(d)
    BY DEF PutIndex, Transferred, Descended
  <1>7. UNCHANGED <<disk, objs, mem, save, cobjs, told, written, acked, stone, missed, count>>
    BY DEF PutIndex, history
  <1> HIDE DEF m
  <1>8. changed \in BOOLEAN
    OBVIOUS
  <1> HIDE DEF changed
  <1>9. c \in Cycle /\ c.at = "notes" /\ c.remote = cyc[d].remote
    BY <1>2, <1>8, LocalIndexSound DEF Cycle
  <1> HIDE DEF c
  <1>10. cloud' \in SoundIndex
    BY <1>1, <1>3, <1>5, CloudIndexSound DEF Types
  <1>11. Types'
    BY <1>1, <1>4, <1>7, <1>9, <1>10 DEF Types
  <1>12. PublishedIsFetchable'
    <2>1. CASE cloud' = cloud
      BY <1>7, <2>1 DEF IInv, PublishedIsFetchable
    <2>2. CASE cloud' = IndexForCloud(m) /\ AllPushed(d)
      <3> SUFFICES ASSUME NEW n \in Notes, m.notes[n] # NoEntry
                   PROVE  cobjs[m.notes[n].obj] # NoNote
        BY <1>3, <1>7, <2>2, CloudIndexSound DEF PublishedIsFetchable
      <3>1. CASE cyc[d].remote.notes[n] # NoEntry
        BY <1>2, <1>3, <3>1, MergedKeepsKey DEF IInv, ReadIsFetchable
      <3>2. CASE cyc[d].remote.notes[n] = NoEntry
        <4>1. n \in Plan(d, ToPush)
          BY <1>2, <1>3, <3>2, UnnamedIsPushed DEF Plan
        <4>2. n \in cyc[d].done
          BY <1>6, <2>2, <4>1 DEF AllPushed, Handled
        <4> QED
          BY <1>6, <4>1, <4>2 DEF IInv, SentIsThere, m
      <3> QED
        BY <3>1, <3>2
    <2> QED
      BY <1>5, <2>1, <2>2
  <1>13. \A n \in Notes : c.remote.notes[n] # NoEntry => cobjs[c.remote.notes[n].obj] # NoNote
    BY <1>9 DEF IInv, ReadIsFetchable
  <1>14. ReadIsFetchable' /\ SentIsThere'
    BY <1>4, <1>7, <1>9, <1>13, CycleMoves
  <1> QED
    BY <1>11, <1>12, <1>14 DEF IInv

\* After the publication a cycle writes on its own disk.
LEMMA LocalWrites ==
    ASSUME IInv, NEW d \in Devices, NEW c \in Cycle,
           cyc' = [cyc EXCEPT ![d] = c], UNCHANGED <<cloud, cobjs>>,
           c.at # "transfer", c.remote = cyc[d].remote
    PROVE  PublishedIsFetchable' /\ ReadIsFetchable' /\ SentIsThere'
  <1>1. \A n \in Notes : c.remote.notes[n] # NoEntry => cobjs[c.remote.notes[n].obj] # NoNote
    BY DEF IInv, ReadIsFetchable
  <1>2. PublishedIsFetchable'
    BY DEF IInv, PublishedIsFetchable
  <1> QED
    BY <1>1, <1>2, CycleMoves

LEMMA WriteNotesType ==
    ASSUME IInv, NEW d \in Devices, WriteNotes(d)
    PROVE  IInv'
  <1>1. Types
    BY DEF IInv
  <1> DEFINE down == {n \in Plan(d, ToFetch) : n \in cyc[d].done}
             store == [o \in Objects |->
                         IF \E n \in down : cyc[d].index.notes[n].obj = o
                         THEN cyc[d].fetched[CHOOSE n \in down : cyc[d].index.notes[n].obj = o]
                         ELSE objs[d][o]]
             c == [cyc[d] EXCEPT !.at = "rekey", !.done = down]
  <1>2. objs' = [objs EXCEPT ![d] = store] /\ cyc' = [cyc EXCEPT ![d] = c]
    BY <1>1 DEF WriteNotes, Types
  <1>3. down \subseteq Notes
    BY DEF Plan, ToFetch
  <1>4. UNCHANGED <<disk, mem, save, cloud, cobjs, told, written, acked, stone, missed, count>>
    BY DEF WriteNotes, history
  <1> HIDE DEF down
  <1>5. cyc[d] \in Cycle /\ cyc[d].fetched \in Vault /\ objs[d] \in [Objects -> Version]
    BY <1>1 DEF Types, Cycle
  <1>6. store \in [Objects -> Version]
    <2> SUFFICES ASSUME NEW o \in Objects
                 PROVE  store[o] \in Version
      OBVIOUS
    <2>1. CASE \E n \in down : cyc[d].index.notes[n].obj = o
      <3>1. (CHOOSE n \in down : cyc[d].index.notes[n].obj = o) \in Notes
        BY <1>3, <2>1
      <3> QED
        BY <1>5, <2>1, <3>1 DEF Vault
    <2>2. CASE ~ \E n \in down : cyc[d].index.notes[n].obj = o
      BY <1>5, <2>2
    <2> QED
      BY <2>1, <2>2
  <1>7. c \in Cycle /\ c.at = "rekey" /\ c.remote = cyc[d].remote
    BY <1>3, <1>5 DEF Cycle
  <1> HIDE DEF c, store
  <1>8. Types'
    BY <1>1, <1>2, <1>4, <1>6, <1>7 DEF Types
  <1> QED
    BY <1>2, <1>4, <1>7, <1>8, LocalWrites DEF IInv

LEMMA RekeyType ==
    ASSUME IInv, NEW d \in Devices, NEW n \in Notes, Rekey(d, n)
    PROVE  IInv'
  <1>1. Types
    BY DEF IInv
  <1>2. /\ cyc[d] \in Cycle /\ cyc[d].index \in SoundIndex
        /\ cyc[d].local \in SoundIndex /\ cyc[d].remote \in SoundIndex
        /\ objs[d] \in [Objects -> Version]
    BY <1>1 DEF Types, Cycle
  <1> DEFINE from == cyc[d].local.notes[n].obj
             to   == cyc[d].remote.notes[n].obj
             moved == [o \in Objects |-> IF o = from THEN NoNote
                                         ELSE IF o = to THEN objs[d][from] ELSE objs[d][o]]
             ready == [cyc[d] EXCEPT !.done = cyc[d].done \union {n}]
             gone  == [cyc[d] EXCEPT !.done = cyc[d].done \union {n},
                                     !.index = [cyc[d].index EXCEPT
                                        !.notes = [cyc[d].index.notes EXCEPT ![n] = NoEntry]]]
  <1>3. /\ cyc[d].at = "rekey" /\ n \in Plan(d, Rekeyed)
        /\ UNCHANGED <<disk, mem, save, cloud, cobjs, told, written, acked, stone, count>>
    BY DEF Rekey, ToRekey
  <1>4. from \in Objects /\ to \in Objects
    <2>1. cyc[d].local.notes[n] # NoEntry /\ cyc[d].remote.notes[n] # NoEntry
      BY <1>3 DEF Plan, Rekeyed, Collides
    <2> QED
      BY <1>2, <2>1 DEF SoundIndex, Named
  <1>5. missed' \in SUBSET Notes
    BY <1>1 DEF Rekey, Types
  <1>6. \/ objs' = objs /\ cyc' = [cyc EXCEPT ![d] = ready]
        \/ objs' = objs /\ cyc' = [cyc EXCEPT ![d] = gone]
        \/ objs' = [objs EXCEPT ![d] = moved] /\ cyc' = [cyc EXCEPT ![d] = ready]
    <2>1. CASE objs[d][to] # NoNote
      BY <1>1, <2>1 DEF Rekey, Types
    <2>2. CASE objs[d][to] = NoNote /\ objs[d][from] = NoNote
      BY <1>1, <2>2 DEF Rekey, Types, Cycle, SoundIndex, Index
    <2>3. CASE objs[d][to] = NoNote /\ objs[d][from] # NoNote
      BY <1>1, <2>3 DEF Rekey, Types
    <2> QED
      BY <2>1, <2>2, <2>3
  <1>7. moved \in [Objects -> Version]
    BY <1>2, <1>4, Blanks
  <1>8. ready \in Cycle /\ ready.at = "rekey" /\ ready.remote = cyc[d].remote
    BY <1>2, <1>3 DEF Cycle
  <1>9. gone \in Cycle /\ gone.at = "rekey" /\ gone.remote = cyc[d].remote
    <2>1. [cyc[d].index EXCEPT !.notes = [cyc[d].index.notes EXCEPT ![n] = NoEntry]] \in SoundIndex
      BY <1>2, Blanks DEF SoundIndex
    <2> QED
      BY <1>2, <1>3, <2>1 DEF Cycle
  <1> HIDE DEF moved, ready, gone
  <1>10. PICK c \in {ready, gone} : cyc' = [cyc EXCEPT ![d] = c]
    BY <1>6
  <1>11. c \in Cycle /\ c.at = "rekey" /\ c.remote = cyc[d].remote
    BY <1>8, <1>9
  <1>12. objs' \in [Devices -> [Objects -> Version]]
    BY <1>1, <1>6, <1>7 DEF Types
  <1>13. Types'
    BY <1>1, <1>3, <1>5, <1>10, <1>11, <1>12 DEF Types
  <1> QED
    BY <1>3, <1>10, <1>11, <1>13, LocalWrites DEF IInv

LEMMA WriteIndexType ==
    ASSUME IInv, NEW d \in Devices, WriteIndex(d)
    PROVE  IInv'
  <1>1. Types
    BY DEF IInv
  <1> DEFINE c == [cyc[d] EXCEPT !.at = "sweep"]
  <1>2. cyc' = [cyc EXCEPT ![d] = c]
    BY <1>1 DEF WriteIndex, Types
  <1>3. c \in Cycle /\ c.at = "sweep" /\ c.remote = cyc[d].remote /\ cyc[d].index \in SoundIndex
    BY <1>1 DEF Types, Cycle
  <1> HIDE DEF c
  <1>4. UNCHANGED <<objs, mem, save, cloud, cobjs, told, written, acked, stone, missed, count>>
    BY DEF WriteIndex, history
  <1>5. disk' \in [Devices -> SoundIndex]
    BY <1>1, <1>3 DEF WriteIndex, Types
  <1>6. Types'
    BY <1>1, <1>2, <1>3, <1>4, <1>5 DEF Types
  <1> QED
    BY <1>2, <1>3, <1>4, <1>6, LocalWrites DEF IInv

LEMMA SweepType ==
    ASSUME IInv, NEW d \in Devices, Sweep(d)
    PROVE  IInv'
  <1>1. Types
    BY DEF IInv
  <1> DEFINE store == [o \in Objects |->
                         IF o \in Claimed(cyc[d].index) THEN objs[d][o] ELSE NoNote]
  <1>2. store \in [Objects -> Version]
    BY <1>1, Blanks DEF Types
  <1>3. objs' = [objs EXCEPT ![d] = store] \/ objs' = objs
    BY DEF Sweep
  <1> HIDE DEF store
  <1>4. objs' \in [Devices -> [Objects -> Version]]
    BY <1>1, <1>2, <1>3 DEF Types
  <1>5. /\ cyc' = [cyc EXCEPT ![d] = Idle]
        /\ UNCHANGED <<disk, mem, save, cloud, cobjs, written, acked, stone, missed, count>>
    BY DEF Sweep, history
  <1>6. told' \in [Devices -> BOOLEAN]
    <2>1. told' = [told EXCEPT ![d] = told[d] \/ cyc[d].fetched # EmptyVault]
      BY DEF Sweep
    <2> QED
      BY <1>1, <2>1 DEF Types
  <1>7. Types'
    BY <1>1, <1>4, <1>5, <1>6, Blanks DEF Types
  <1> QED
    BY <1>5, <1>7, CycleEnds DEF IInv

LEMMA CycleFailsType ==
    ASSUME IInv, NEW d \in Devices, CycleFails(d)
    PROVE  IInv'
  <1>1. Types /\ Fault
    BY DEF IInv, CycleFails
  <1>2. /\ cyc' = [cyc EXCEPT ![d] = Idle]
        /\ UNCHANGED <<disk, objs, mem, save, cloud, cobjs, told, written, acked, stone, missed>>
    BY DEF CycleFails, history
  <1>3. Types'
    BY <1>1, <1>2, FaultType, Blanks DEF Types
  <1> QED
    BY <1>2, <1>3, CycleEnds DEF IInv

LEMMA CrashType ==
    ASSUME IInv, NEW d \in Devices, Crash(d)
    PROVE  IInv'
  <1>1. Types /\ Fault
    BY DEF IInv, Crash
  <1>2. /\ cyc' = [cyc EXCEPT ![d] = Idle] /\ mem' = [mem EXCEPT ![d] = Shut]
        /\ save' = [save EXCEPT ![d] = Free] /\ told' = [told EXCEPT ![d] = FALSE]
        /\ UNCHANGED <<disk, objs, cloud, cobjs, written, acked, stone>>
        /\ missed' \in SUBSET Notes
    BY <1>1 DEF Crash, Types, Halfway
  <1>3. Types'
    BY <1>1, <1>2, FaultType, Blanks DEF Types
  <1> QED
    BY <1>2, <1>3, CycleEnds DEF IInv

----------------------------------------------------------------------------
(* The invariant, and what follows from it.                                 *)

LEMMA MainStepKeeps ==
    ASSUME IInv, NEW d \in Devices, MainStep(d)
    PROVE  IInv'
  <1>1. CASE Load(d)
    <2>1. count' \in [edits : 0 .. MaxEdits, minted : 0 .. MaxObjects, faults : 0 .. MaxFaults]
      BY <1>1 DEF Load, IInv, Types
    <2> QED
      BY <1>1, <2>1, LoadsType DEF Load
  <1>2. ASSUME NEW n \in Notes, LoadUnreadable(d, n)
        PROVE  IInv'
    BY <1>2, FaultType, LoadsType DEF LoadUnreadable, IInv
  <1> QED
    BY <1>1, <1>2, SaveObjectsType, SaveIndexType, EditType, PurgeType DEF MainStep

LEMMA CycleStepKeeps ==
    ASSUME IInv, NEW d \in Devices, CycleStep(d)
    PROVE  IInv'
  BY CycleStartType, PutIndexType, CycleFailsType, WriteNotesType, WriteIndexType, SweepType,
     GetNoteType, PutNoteType, TransferFailsType, RekeyType DEF CycleStep

LEMMA StutterKeeps ==
    ASSUME IInv, UNCHANGED vars
    PROVE  IInv'
  <1>1. Types'
    BY DEF IInv, Types, vars, history
  <1> QED
    BY <1>1, CloudSideKept DEF IInv, vars

THEOREM Inductive == Spec => []IInv
  <1>1. IInv /\ [Next]_vars => IInv'
    BY MainStepKeeps, CycleStepKeeps, CrashType, StutterKeeps DEF Next
  <1> QED
    BY <1>1, InitIInv, PTL DEF Spec

\* Every variable stays in its type, for any devices, notes and bounds.
THEOREM TypeCorrect == Spec => []TypeOK
  <1>1. SoundIndex \subseteq Index
    BY DEF SoundIndex, Index, Named
  <1>2. IInv => TypeOK
    <2> SUFFICES ASSUME IInv
                 PROVE  TypeOK
      OBVIOUS
    <2>1. Types
      BY DEF IInv
    <2>2. disk \in [Devices -> Index] /\ cloud \in Index
      BY <1>1, <2>1 DEF Types
    <2>3. mem \in [Devices -> [open : BOOLEAN, notes : Vault, index : Index]]
      BY <1>1, <2>1 DEF Types, Memory
    <2>4. save \in [Devices -> [at : {"free", "objects", "index"}, notes : Vault, index : Index]]
      BY <1>1, <2>1 DEF Types, Saving
    <2>5. cyc \in [Devices ->
                  [at : {"idle", "transfer", "notes", "rekey", "sweep"},
                   local : Index, remote : Index, fetched : Vault, done : SUBSET Notes,
                   lost : SUBSET Notes, index : Index, changed : BOOLEAN]]
      BY <1>1, <2>1 DEF Types, Cycle
    <2> QED
      BY <2>1, <2>2, <2>3, <2>4, <2>5 DEF Types, TypeOK
  <1> QED
    BY <1>2, Inductive, PTL

\* The published index never cites an object the cloud does not hold, however
\* many devices publish over each other and whatever transfers fail.
THEOREM FetchableTheorem == Spec => []PublishedIsFetchable
  <1>1. IInv => PublishedIsFetchable
    BY DEF IInv
  <1> QED
    BY <1>1, Inductive, PTL

\* Any two devices that compare their entries for a note name the same winner.
THEOREM AgreementTheorem == Spec => []SidesAgree
  <1>1. IInv => SidesAgree
    <2> SUFFICES ASSUME IInv, NEW d \in Devices, NEW e \in Devices, NEW n \in Notes,
                        disk[d].notes[n].digest # disk[e].notes[n].digest
                 PROVE  ResolveEntry(disk[d].notes[n], disk[e].notes[n]) = "remote"
                          <=> ResolveEntry(disk[e].notes[n], disk[d].notes[n]) = "local"
      BY DEF SidesAgree
    <2>1. disk[d].notes[n] \in Entry /\ disk[e].notes[n] \in Entry
      BY DEF IInv, Types, SoundIndex, Named
    <2>2. \A x \in Entry : x.clock \in Nat /\ x.dead \in BOOLEAN /\ x.digest \in Nat
      BY Sizes DEF Entry, Digests
    <2> QED
      BY <2>1, <2>2, ResolveAgrees
  <1> QED
    BY <1>1, Inductive, PTL

----------------------------------------------------------------------------
(* Where the newest version of a note is.                                   *)

\* v is no better than w.
Reaches(w, v) == ResolveEntry(w, v) = "local"

\* The indexes of a device, the one a save is to write left out.
SettledOf(d) == {disk[d], mem[d].index, cyc[d].local, cyc[d].remote, cyc[d].index}
Settled == {cloud} \union UNION {SettledOf(d) : d \in Devices}
Indexes == Settled \union {save[d].index : d \in Devices}

\* Key o is that of note n in some index.
Uses(o, n) == \E i \in Indexes : i.notes[n].obj = o

Copies(n) == written[n] \union {NoNote}

\* No key is that of two notes, and those still to be minted are new.
KeysApart ==
    /\ \A o \in Objects, n, m \in Notes : Uses(o, n) /\ Uses(o, m) => n = m
    /\ \A o \in Objects, n \in Notes : Uses(o, n) => o <= count.minted
    /\ \A o \in Objects : o > count.minted =>
          cobjs[o] = NoNote /\ \A d \in Devices : objs[d][o] = NoNote

\* A digest names one version of its note, and what is acknowledged was written.
VersionsApart ==
    \A n \in Notes :
        /\ \A v \in written[n] : v.clock > 0 /\ v.digest <= count.edits + 1
        /\ \A v, w \in written[n] : v.digest = w.digest => v = w
        /\ acked[n] \in Copies(n)
        /\ stone[n] > 0 => written[n] # {}

\* What lies under the keys of a note, and in a vault, is a version of that note.
CopiesAreWritten ==
    \A n \in Notes :
        /\ \A o \in Objects : Uses(o, n) =>
              /\ written[n] # {} /\ cobjs[o] \in Copies(n)
              /\ \A d \in Devices : objs[d][o] \in Copies(n)
        /\ \A d \in Devices : /\ mem[d].notes[n] \in Copies(n)
                              /\ save[d].notes[n] \in Copies(n)
                              /\ cyc[d].fetched[n] \in Copies(n)

\* What an index says of a note was acknowledged, or beaten since.
Backed(i) ==
    \A n \in Notes :
        /\ i.purged[n] <= stone[n]
        /\ n \notin missed /\ i.notes[n] # NoEntry =>
              /\ VersionOf(i.notes[n]) \in written[n]
              /\ Reaches(acked[n], VersionOf(i.notes[n]))

EntriesAreAcked == \A i \in Settled : Backed(i)

Data == KeysApart /\ VersionsApart /\ CopiesAreWritten /\ EntriesAreAcked

\* An open vault is no older than its index.
Fresh(m) ==
    \A n \in Notes :
        /\ m.notes[n] # NoNote => m.index.notes[n] # NoEntry
        /\ n \notin missed /\ m.index.notes[n] # NoEntry =>
              \/ m.notes[n].clock > m.index.notes[n].clock
              \/ m.notes[n] = VersionOf(m.index.notes[n])

\* A save goes forward from the memory it started from ...
Onward(s, m, n) ==
    /\ s.notes[n] # NoNote => VersionOf(s.index.notes[n]) = s.notes[n]
    /\ m.index.notes[n] # NoEntry =>
          \/ /\ s.notes[n] # NoNote
             /\ s.index.notes[n].obj = m.index.notes[n].obj
             /\ Reaches(s.notes[n], m.notes[n])
          \/ /\ s.notes[n] = NoNote
             /\ s.index.purged[n] >= m.notes[n].clock

\* ... and buries what it drops.
Whole(s, m, n) ==
    /\ s.notes[n] # NoNote <=> s.index.notes[n] # NoEntry
    /\ s.index.purged[n] # m.index.purged[n] => s.index.notes[n] = NoEntry
    /\ s.index.purged[n] > 0 => written[n] # {}

\* What it is about to acknowledge is in an object.
Stored(s, o, n) ==
    s.at = "index" /\ s.notes[n] # NoNote /\ ~ Reaches(acked[n], s.notes[n])
        => o[s.index.notes[n].obj] = s.notes[n]

SaveGoesOn(d) ==
    save[d].at # "free" =>
        /\ mem[d].open /\ cyc[d].at = "idle"
        /\ \A n \in Notes :
              /\ Whole(save[d], mem[d], n)
              /\ n \notin missed => /\ Onward(save[d], mem[d], n)
                                    /\ Stored(save[d], objs[d], n)

\* A cycle works on the index that is still on the disk.
Alike(c, i) == c.at \in {"transfer", "notes", "rekey"} => c.local = i

Local == \A d \in Devices : Fresh(mem[d]) /\ SaveGoesOn(d) /\ Alike(cyc[d], disk[d])

\* The index a cycle is to write names version v, under the key it is to have.
Names(c, i, v, n) ==
    LET e == c.index.notes[n]
    IN  /\ e # NoEntry /\ VersionOf(e) = v
        /\ c.at \in {"notes", "rekey"} => e.obj = Merged(c.local, c.remote).notes[n].obj
        /\ c.at = "sweep" \/ ~ c.changed => e.obj = i.notes[n].obj

Moved(c, n) == c.at = "rekey" /\ n \in Rekeyed(c.local, c.remote) /\ n \in c.done

\* A disk i with objects o holds version v of n, and neither the memory m nor the
\* cycle c of its device will let it go.
HomeAt(i, o, m, c, v, n) ==
    /\ i.notes[n] # NoEntry /\ VersionOf(i.notes[n]) = v
    /\ m.open => /\ m.index.notes[n].obj = i.notes[n].obj
                 /\ VersionOf(m.index.notes[n]) = v
    /\ c.at \in {"notes", "rekey", "sweep"} => Names(c, i, v, n)
    /\ IF Moved(c, n)
       THEN /\ ~ m.open /\ o[i.notes[n].obj] = NoNote
            /\ Reaches(o[c.remote.notes[n].obj], v)
       ELSE Reaches(o[i.notes[n].obj], v)

Home(d, n) == HomeAt(disk[d], objs[d], mem[d], cyc[d], acked[n], n)

HomeExists ==
    \A n \in Notes \ missed : acked[n].clock > stone[n] => \E d \in Devices : Home(d, n)

\* An index that keeps the newest purge of a note.
Buries(i, s, n) ==
    /\ i.purged[n] >= s
    /\ i.notes[n] # NoEntry => i.notes[n].clock > s

GraveAt(i, m, w, c, s, n) ==
    /\ Buries(i, s, n)
    /\ m.open => Buries(m.index, s, n)
    /\ w.at # "free" => Buries(w.index, s, n)
    /\ c.at \in {"notes", "rekey", "sweep"} => Buries(c.index, s, n)

Grave(d, n) == GraveAt(disk[d], mem[d], save[d], cyc[d], stone[n], n)

GraveExists == \A n \in Notes \ missed : \E d \in Devices : Grave(d, n)

Kept == Data /\ Local /\ HomeExists /\ GraveExists

----------------------------------------------------------------------------
(* The arbitration as an order on the versions of a note.                   *)

LEMMA ReachesIsAnOrder ==
    ASSUME NEW u \in Version, NEW v \in Version, NEW w \in Version
    PROVE  /\ Reaches(u, u)
           /\ Reaches(u, v) /\ Reaches(v, w) => Reaches(u, w)
           /\ Reaches(u, v) /\ Reaches(v, u) => u = v
           /\ Reaches(u, v) \/ Reaches(v, u)
           /\ Reaches(u, v) => u.clock >= v.clock
           /\ u.clock > v.clock => Reaches(u, v)
  <1> DEFINE Whole3(x) == x.clock \in Nat /\ x.dead \in BOOLEAN /\ x.digest \in Nat
  <1>1. Whole3(u) /\ Whole3(v) /\ Whole3(w)
    BY Sizes DEF Version, Digests
  <1>2. /\ Reaches(u, u)
        /\ Reaches(u, v) \/ Reaches(v, u)
        /\ Reaches(u, v) => u.clock >= v.clock
        /\ u.clock > v.clock => Reaches(u, v)
    BY <1>1 DEF Reaches, ResolveEntry
  <1>3. Reaches(u, v) /\ Reaches(v, w) => Reaches(u, w)
    BY <1>1 DEF Reaches, ResolveEntry
  <1>4. Reaches(u, v) /\ Reaches(v, u) => u = v
    <2> SUFFICES ASSUME Reaches(u, v), Reaches(v, u)
                 PROVE  u = v
      OBVIOUS
    <2>1. u.clock = v.clock /\ u.dead = v.dead /\ u.digest = v.digest
      BY <1>1 DEF Reaches, ResolveEntry
    <2> QED
      BY <2>1 DEF Version
  <1> QED
    BY <1>2, <1>3, <1>4

LEMMA VersionOfType ==
    ASSUME NEW e \in Entry
    PROVE  /\ VersionOf(e) \in Version /\ VersionOf(e).clock = e.clock
           /\ VersionOf(e).dead = e.dead /\ VersionOf(e).digest = e.digest
  BY DEF VersionOf, Version, Entry

\* Two entries are compared by the versions they name.
LEMMA WinnerOf ==
    ASSUME NEW a \in Entry, NEW b \in Entry
    PROVE  /\ ResolveEntry(a, b) \in {"local", "remote"}
           /\ ResolveEntry(a, b) = "local" <=> Reaches(VersionOf(a), VersionOf(b))
  <1>1. ResolveEntry(VersionOf(a), VersionOf(b)) = ResolveEntry(a, b)
    BY VersionOfType DEF ResolveEntry
  <1> QED
    BY <1>1 DEF Reaches, ResolveEntry

\* An entry names a note exactly when it has an object.
LEMMA EntryHasKey ==
    ASSUME NEW e \in Named
    PROVE  /\ e \in Entry
           /\ e # NoEntry <=> e.obj \in Objects
           /\ NoEntry.clock = 0
  BY Sizes DEF Named, NoEntry, Objects

\* A merged entry names the version of one side, under the key of the cloud when
\* the cloud has one; it is newer than the purges of both.
LEMMA MergedEntryMeans ==
    ASSUME NEW l \in SoundIndex, NEW r \in SoundIndex, NEW n \in Notes,
           MergedEntry(l, r, n) # NoEntry
    PROVE  /\ \/ /\ l.notes[n] # NoEntry
                 /\ VersionOf(MergedEntry(l, r, n)) = VersionOf(l.notes[n])
              \/ /\ r.notes[n] # NoEntry
                 /\ VersionOf(MergedEntry(l, r, n)) = VersionOf(r.notes[n])
           /\ r.notes[n] # NoEntry => MergedEntry(l, r, n).obj = r.notes[n].obj
           /\ r.notes[n] = NoEntry => MergedEntry(l, r, n) = l.notes[n]
           /\ n \notin PurgedOut(l, r)
           /\ MergedEntry(l, r, n).clock = Later(l.notes[n].clock, r.notes[n].clock)
  <1> DEFINE a == l.notes[n]
             b == r.notes[n]
             kept == IF ResolveEntry(a, b) = "remote" THEN b ELSE a
             m == MergedEntry(l, r, n)
  <1>1. a \in Named /\ b \in Named /\ a \in Entry /\ b \in Entry /\ kept \in Entry
    BY DEF SoundIndex, Named
  <1>2. n \notin PurgedOut(l, r)
    BY DEF MergedEntry
  <1>3. a.clock \in Nat /\ b.clock \in Nat /\ b.obj \in 0 .. MaxObjects /\ NoEntry.clock = 0
    BY <1>1, Sizes, EntryHasKey DEF Entry
  <1>4. CASE b = NoEntry
    <2>1. m = a
      BY <1>2, <1>4 DEF MergedEntry
    <2>2. a.clock = Later(a.clock, b.clock)
      BY <1>3, <1>4 DEF Later
    <2> QED
      BY <1>2, <1>4, <2>1, <2>2
  <1>5. CASE b # NoEntry /\ a = NoEntry
    <2>1. m = b
      BY <1>2, <1>5 DEF MergedEntry
    <2>2. b.clock = Later(a.clock, b.clock)
      BY <1>3, <1>5 DEF Later
    <2> QED
      BY <1>2, <1>5, <2>1, <2>2
  <1>6. CASE b # NoEntry /\ a # NoEntry
    <2>1. VersionOf(m) = VersionOf(kept) /\ m.obj = b.obj
      <3>1. \/ m = [kept EXCEPT !.obj = b.obj, !.synced = kept.digest]
            \/ m = [kept EXCEPT !.obj = b.obj]
        BY <1>2, <1>6 DEF MergedEntry
      <3> HIDE DEF m, kept
      <3> QED
        BY <1>1, <1>3, <3>1 DEF Entry, VersionOf
    <2>2. kept.clock = Later(a.clock, b.clock)
      <3>1. a.dead \in BOOLEAN /\ b.dead \in BOOLEAN /\ a.digest \in Nat /\ b.digest \in Nat
        BY <1>1, Sizes DEF Entry, Digests
      <3> QED
        BY <1>3, <3>1 DEF Later, ResolveEntry
    <2>3. m \in Entry
      BY MergedEntryNamed DEF Named
    <2>4. m.clock = kept.clock
      <3> HIDE DEF m, kept
      <3> QED
        BY <1>1, <2>1, <2>3, VersionOfType
    <2> QED
      BY <1>2, <1>6, <2>1, <2>2, <2>4
  <1> QED
    BY <1>4, <1>5, <1>6

\* A version no purge and no remote one beats stays, and is not fetched.
LEMMA MergeKeepsLocal ==
    ASSUME NEW l \in SoundIndex, NEW r \in SoundIndex, NEW n \in Notes,
           l.notes[n] # NoEntry, n \notin PurgedOut(l, r),
           r.notes[n] # NoEntry => Reaches(VersionOf(l.notes[n]), VersionOf(r.notes[n]))
    PROVE  /\ MergedEntry(l, r, n) # NoEntry
           /\ VersionOf(MergedEntry(l, r, n)) = VersionOf(l.notes[n])
           /\ n \notin ToFetch(l, r)
  <1> DEFINE a == l.notes[n]
             b == r.notes[n]
             m == MergedEntry(l, r, n)
  <1>1. a \in Named /\ b \in Named /\ a \in Entry /\ b \in Entry /\ b.obj \in 0 .. MaxObjects
    BY DEF SoundIndex, Named, Entry
  <1>2. CASE b = NoEntry
    BY <1>2 DEF MergedEntry, ToFetch
  <1>3. CASE b # NoEntry
    <2>1. ResolveEntry(a, b) = "local" /\ ResolveEntry(a, b) # "remote"
      BY <1>1, <1>3, WinnerOf
    <2>2. \/ m = [a EXCEPT !.obj = b.obj, !.synced = a.digest]
          \/ m = [a EXCEPT !.obj = b.obj]
      BY <1>3, <2>1 DEF MergedEntry
    <2>3. VersionOf(m) = VersionOf(a) /\ m.obj = b.obj
      <3> HIDE DEF m
      <3> QED
        BY <1>1, <2>2 DEF Entry, VersionOf
    <2>4. m # NoEntry
      BY <1>1, <1>3, <2>3, EntryHasKey, Blanks
    <2> QED
      BY <1>3, <2>1, <2>3, <2>4 DEF ToFetch
  <1> QED
    BY <1>2, <1>3

LEMMA CloudIndexMeans ==
    ASSUME NEW m \in SoundIndex, NEW n \in Notes
    PROVE  /\ IndexForCloud(m).notes[n].obj = m.notes[n].obj
           /\ VersionOf(IndexForCloud(m).notes[n]) = VersionOf(m.notes[n])
           /\ IndexForCloud(m).purged = m.purged
  <1>1. m.notes[n] \in Entry
    BY DEF SoundIndex, Named
  <1>2. IndexForCloud(m).notes[n] = [m.notes[n] EXCEPT !.synced = 0, !.shape = 0]
        /\ IndexForCloud(m).purged = m.purged
    BY DEF IndexForCloud, SoundIndex
  <1> QED
    BY <1>1, <1>2 DEF Entry, VersionOf

\* The index for this disk follows the merged one, but for what did not come down.
LEMMA LocalIndexMeans ==
    ASSUME NEW d \in Devices, cyc[d] \in Cycle, NEW n \in Notes
    PROVE  LET c == cyc[d]
               m == MergedEntry(c.local, c.remote, n)
               x == LocalIndex(d).notes[n]
           IN  /\ LocalIndex(d).purged = Purged(c.local, c.remote)
               /\ \/ n \in ToFetch(c.local, c.remote) /\ x = c.local.notes[n]
                  \/ x.obj = m.obj /\ VersionOf(x) = VersionOf(m)
               /\ n \notin ToFetch(c.local, c.remote) => x.obj = m.obj /\ VersionOf(x) = VersionOf(m)
  <1> DEFINE c == cyc[d]
             m == Merged(c.local, c.remote)
             absent == c.lost \intersect ToFetch(c.local, c.remote)
             x == LocalIndex(d).notes[n]
  <1>1. c.local \in SoundIndex /\ c.remote \in SoundIndex /\ m \in SoundIndex
    BY MergedSound DEF Cycle
  <1>2. m.notes[n] \in Entry /\ m.notes[n] = MergedEntry(c.local, c.remote, n)
        /\ m.purged = Purged(c.local, c.remote)
    BY <1>1, MergedEntryNamed DEF Merged, Named
  <1>3. /\ LocalIndex(d).purged = m.purged
        /\ x = IF n \in absent THEN c.local.notes[n]
               ELSE IF n \in c.done THEN [m.notes[n] EXCEPT !.synced = m.notes[n].digest]
                    ELSE m.notes[n]
    BY DEF LocalIndex, Plan, Merged
  <1> HIDE DEF m, x
  <1> QED
    BY <1>2, <1>3 DEF Entry, VersionOf, x

----------------------------------------------------------------------------
(* What a step of one device does to the indexes and the objects.           *)

\* The other devices are where they were.
Alone(d) ==
    \A e \in Devices : e # d =>
        /\ disk'[e] = disk[e] /\ objs'[e] = objs[e] /\ mem'[e] = mem[e]
        /\ save'[e] = save[e] /\ cyc'[e] = cyc[e]

\* Every key of index i is already that of the same note.
Keyed(i) == \A n \in Notes, o \in Objects : i.notes[n].obj = o => Uses(o, n)

\* Store x holds what store y held, or versions under keys of their notes.
Laid(x, y) ==
    \A o \in Objects : \/ x[o] = y[o] \/ x[o] = NoNote
                       \/ \E n \in Notes : Uses(o, n) /\ x[o] \in Copies(n)

LEMMA SettledMeans ==
    ASSUME NEW i
    PROVE  i \in Settled <=> i = cloud \/ \E d \in Devices : i \in SettledOf(d)
  BY DEF Settled

LEMMA SettledMoves ==
    ASSUME NEW d \in Devices, Alone(d), NEW i \in Settled'
    PROVE  i \in Settled \/ i = cloud' \/ i \in SettledOf(d)'
  <1>1. i = cloud' \/ \E e \in Devices : i \in SettledOf(e)'
    BY DEF Settled
  <1>2. ASSUME NEW e \in Devices, e # d, i \in SettledOf(e)'
        PROVE  i \in Settled
    BY <1>2, SettledMeans DEF Alone, SettledOf
  <1> QED
    BY <1>1, <1>2

LEMMA IndexesMove ==
    ASSUME NEW d \in Devices, Alone(d), NEW i \in Indexes'
    PROVE  i \in Indexes \/ i = cloud' \/ i \in SettledOf(d)' \/ i = save'[d].index
  <1>1. i \in Settled' \/ \E e \in Devices : i = save'[e].index
    BY DEF Indexes
  <1>2. i \in Settled' => i \in Indexes \/ i = cloud' \/ i \in SettledOf(d)'
    BY SettledMoves DEF Indexes
  <1>3. ASSUME NEW e \in Devices, e # d, i = save'[e].index
        PROVE  i \in Indexes
    BY <1>3 DEF Alone, Indexes
  <1> QED
    BY <1>1, <1>2, <1>3

LEMMA SettledAreIndexes ==
    /\ cloud \in Settled
    /\ \A d \in Devices : /\ disk[d] \in Settled /\ mem[d].index \in Settled
                          /\ cyc[d].local \in Settled /\ cyc[d].remote \in Settled
                          /\ cyc[d].index \in Settled /\ save[d].index \in Indexes
    /\ Settled \subseteq Indexes
    /\ \A i \in Indexes : Keyed(i)
  <1>1. \A d \in Devices : /\ disk[d] \in SettledOf(d) /\ mem[d].index \in SettledOf(d)
                           /\ cyc[d].local \in SettledOf(d) /\ cyc[d].remote \in SettledOf(d)
                           /\ cyc[d].index \in SettledOf(d)
    BY DEF SettledOf
  <1>2. Settled \subseteq Indexes /\ \A d \in Devices : save[d].index \in Indexes
    BY DEF Indexes
  <1>3. \A i \in Indexes : Keyed(i)
    BY DEF Keyed, Uses
  <1> QED
    BY <1>1, <1>2, <1>3, SettledMeans

\* An index that names nothing.
LEMMA EmptyIsBacked ==
    ASSUME IInv
    PROVE  Keyed(EmptyIndex) /\ Backed(EmptyIndex)
  <1>1. \A n \in Notes : EmptyIndex.notes[n] = NoEntry /\ EmptyIndex.purged[n] = 0
    BY DEF EmptyIndex
  <1>2. NoEntry.obj = 0 /\ 0 \notin Objects
    BY Sizes DEF NoEntry, Objects
  <1>3. \A n \in Notes : stone[n] >= 0
    BY Sizes DEF IInv, Types
  <1> QED
    BY <1>1, <1>2, <1>3 DEF Keyed, Backed

\* The versions of a note, and those that are acknowledged, are versions.
LEMMA CopiesType ==
    ASSUME IInv, NEW n \in Notes
    PROVE  /\ Copies(n) \subseteq Version /\ written[n] \subseteq Version
           /\ acked[n] \in Version /\ stone[n] \in 0 .. MaxClock /\ NoNote.clock = 0
  BY Blanks DEF IInv, Types, Copies, Vault, NoNote

\* No step but a save that begins or ends changes what is written, acknowledged
\* or purged: it only moves indexes and objects.
LEMMA DataKept ==
    ASSUME IInv, Data, NEW d \in Devices, Alone(d),
           UNCHANGED <<written, acked, stone>>, missed \subseteq missed',
           count'.minted = count.minted, count'.edits \in Nat, count.edits <= count'.edits,
           \A i \in SettledOf(d)' : Keyed(i) /\ Backed(i),
           Keyed(cloud'), Backed(cloud'), Keyed(save'[d].index),
           Laid(cobjs', cobjs), Laid(objs'[d], objs[d]),
           \A n \in Notes : /\ mem'[d].notes[n] \in Copies(n)
                            /\ save'[d].notes[n] \in Copies(n)
                            /\ cyc'[d].fetched[n] \in Copies(n)
    PROVE  Data'
  <1>1. ASSUME NEW o \in Objects, NEW n \in Notes, Uses(o, n)'
        PROVE  Uses(o, n)
    <2>1. PICK i \in Indexes' : i.notes[n].obj = o
      BY <1>1 DEF Uses
    <2>2. Keyed(i)
      BY <2>1, IndexesMove, SettledAreIndexes
    <2> QED
      BY <2>1, <2>2 DEF Keyed
  <1>2. KeysApart
    BY DEF Data
  <1>3. ASSUME NEW o \in Objects, NEW n \in Notes, Uses(o, n)
        PROVE  /\ written[n] # {} /\ cobjs'[o] \in Copies(n)
               /\ \A e \in Devices : objs'[e][o] \in Copies(n)
    <2>1. /\ written[n] # {} /\ cobjs[o] \in Copies(n) /\ NoNote \in Copies(n)
          /\ \A e \in Devices : objs[e][o] \in Copies(n)
      BY <1>3 DEF Data, CopiesAreWritten, Copies
    <2>2. \A m \in Notes : Uses(o, m) => m = n
      BY <1>2, <1>3 DEF KeysApart
    <2>3. cobjs'[o] \in Copies(n) /\ objs'[d][o] \in Copies(n)
      BY <2>1, <2>2 DEF Laid
    <2> QED
      BY <2>1, <2>3 DEF Alone
  <1>4. KeysApart'
    <2>1. \A o \in Objects, n, m \in Notes : Uses(o, n)' /\ Uses(o, m)' => n = m
      BY <1>1, <1>2 DEF KeysApart
    <2>2. \A o \in Objects, n \in Notes : Uses(o, n)' => o <= count'.minted
      BY <1>1, <1>2 DEF KeysApart
    <2>3. ASSUME NEW o \in Objects, o > count'.minted
          PROVE  cobjs'[o] = NoNote /\ \A e \in Devices : objs'[e][o] = NoNote
      <3>1. count.minted \in Nat /\ o \in Nat
        BY Sizes DEF IInv, Types, Objects
      <3>2. /\ cobjs[o] = NoNote /\ \A e \in Devices : objs[e][o] = NoNote
            /\ \A n \in Notes : ~ Uses(o, n)
        BY <1>2, <2>3, <3>1 DEF KeysApart
      <3>3. cobjs'[o] = NoNote /\ objs'[d][o] = NoNote
        BY <3>2 DEF Laid
      <3> QED
        BY <3>2, <3>3 DEF Alone
    <2> QED
      BY <2>1, <2>2, <2>3 DEF KeysApart
  <1>5. VersionsApart'
    <2>1. count.edits \in Nat /\ \A n \in Notes : \A v \in written[n] : v.digest \in Nat
      BY Sizes, CopiesType DEF IInv, Types, Version, Digests
    <2>2. \A n \in Notes : \A v \in written[n] : v.clock > 0 /\ v.digest <= count'.edits + 1
      BY <2>1 DEF Data, VersionsApart
    <2> QED
      BY <2>2 DEF Data, VersionsApart, Copies
  <1>6. CopiesAreWritten'
    <2>1. \A n \in Notes : Copies(n)' = Copies(n)
      BY DEF Copies
    <2>2. \A e \in Devices, n \in Notes : /\ mem'[e].notes[n] \in Copies(n)
                                          /\ save'[e].notes[n] \in Copies(n)
                                          /\ cyc'[e].fetched[n] \in Copies(n)
      BY DEF Data, CopiesAreWritten, Alone
    <2> QED
      BY <1>1, <1>3, <2>1, <2>2 DEF CopiesAreWritten
  <1>7. EntriesAreAcked'
    <2> SUFFICES ASSUME NEW i \in Settled'
                 PROVE  Backed(i)'
      BY DEF EntriesAreAcked
    <2>1. Backed(i)
      BY SettledMoves DEF Data, EntriesAreAcked
    <2> QED
      BY <2>1 DEF Backed
  <1> QED
    BY <1>4, <1>5, <1>6, <1>7 DEF Data

LEMMA SettledSound ==
    ASSUME IInv
    PROVE  /\ Settled \subseteq SoundIndex /\ Indexes \subseteq SoundIndex
           /\ \A i \in SoundIndex, n \in Notes :
                 /\ i.notes[n] \in Named /\ i.notes[n] \in Entry
                 /\ i.purged[n] \in 0 .. MaxClock
  <1>1. \A d \in Devices : SettledOf(d) \subseteq SoundIndex /\ save[d].index \in SoundIndex
    BY DEF IInv, Types, SettledOf, Memory, Saving, Cycle
  <1>2. cloud \in SoundIndex
    BY DEF IInv, Types
  <1> QED
    BY <1>1, <1>2, SettledMeans DEF Indexes, SoundIndex, Named

\* A merge names no note under another key, and no version that was not acknowledged.
LEMMA MergedBacked ==
    ASSUME IInv, Data, NEW l \in Settled, NEW r \in Settled
    PROVE  /\ Keyed(Merged(l, r)) /\ Backed(Merged(l, r))
           /\ Keyed(IndexForCloud(Merged(l, r))) /\ Backed(IndexForCloud(Merged(l, r)))
  <1> DEFINE m == Merged(l, r)
  <1>1. l \in SoundIndex /\ r \in SoundIndex /\ m \in SoundIndex
    BY SettledSound, MergedSound
  <1>2. Keyed(l) /\ Keyed(r) /\ Backed(l) /\ Backed(r)
    BY SettledAreIndexes DEF Data, EntriesAreAcked
  <1>3. \A n \in Notes : m.notes[n] = MergedEntry(l, r, n) /\ m.purged[n] = Purged(l, r)[n]
    BY DEF Merged
  <1> HIDE DEF m
  <1>4. ASSUME NEW n \in Notes, NEW o \in Objects, m.notes[n].obj = o
        PROVE  Uses(o, n)
    <2>1. m.notes[n] # NoEntry
      BY <1>1, <1>4, SettledSound, EntryHasKey
    <2>2. r.notes[n].obj = o \/ l.notes[n].obj = o
      BY <1>1, <1>3, <1>4, <2>1, MergedEntryMeans
    <2> QED
      BY <1>2, <2>2 DEF Keyed
  <1>5. ASSUME NEW n \in Notes
        PROVE  m.purged[n] <= stone[n]
    <2>1. l.purged[n] <= stone[n] /\ r.purged[n] <= stone[n]
      BY <1>2 DEF Backed
    <2> QED
      BY <1>3, <2>1 DEF Purged, Later
  <1>6. ASSUME NEW n \in Notes, n \notin missed, m.notes[n] # NoEntry
        PROVE  /\ VersionOf(m.notes[n]) \in written[n]
               /\ Reaches(acked[n], VersionOf(m.notes[n]))
    <2>1. \/ l.notes[n] # NoEntry /\ VersionOf(m.notes[n]) = VersionOf(l.notes[n])
          \/ r.notes[n] # NoEntry /\ VersionOf(m.notes[n]) = VersionOf(r.notes[n])
      BY <1>1, <1>3, <1>6, MergedEntryMeans
    <2> QED
      BY <1>2, <1>6, <2>1 DEF Backed
  <1>7. Keyed(m) /\ Backed(m)
    BY <1>4, <1>5, <1>6 DEF Keyed, Backed
  <1>8. \A n \in Notes : IndexForCloud(m).notes[n] # NoEntry => m.notes[n] # NoEntry
    BY <1>1, CloudIndexSound
  <1>9. Keyed(IndexForCloud(m)) /\ Backed(IndexForCloud(m))
    BY <1>1, <1>7, <1>8, CloudIndexMeans DEF Keyed, Backed
  <1> QED
    BY <1>7, <1>9 DEF m

\* The same of the index a cycle writes on its disk.
LEMMA LocalIndexBacked ==
    ASSUME IInv, Data, NEW d \in Devices
    PROVE  Keyed(LocalIndex(d)) /\ Backed(LocalIndex(d))
  <1> DEFINE l == cyc[d].local
             r == cyc[d].remote
             m == Merged(l, r)
             x == LocalIndex(d)
  <1>1. cyc[d] \in Cycle
    BY DEF IInv, Types
  <1>2. l \in Settled /\ r \in Settled /\ Keyed(l) /\ Backed(l)
    BY SettledAreIndexes DEF Data, EntriesAreAcked
  <1>3. Keyed(m) /\ Backed(m) /\ m \in SoundIndex /\ x \in SoundIndex
    BY <1>1, <1>2, MergedBacked, SettledSound, MergedSound, LocalIndexSound
  <1>4. \A n \in Notes : m.notes[n] = MergedEntry(l, r, n)
    BY DEF Merged
  <1>5. \A n \in Notes : x.purged[n] = m.purged[n]
    BY <1>1, LocalIndexMeans DEF Merged
  <1>6. \A n \in Notes : \/ x.notes[n] = l.notes[n]
                         \/ /\ x.notes[n].obj = m.notes[n].obj
                            /\ VersionOf(x.notes[n]) = VersionOf(m.notes[n])
    BY <1>1, <1>4, LocalIndexMeans
  <1> HIDE DEF m, x, l
  <1>7. Keyed(x)
    BY <1>2, <1>3, <1>6 DEF Keyed
  <1>8. \A n \in Notes : x.notes[n] # NoEntry /\ x.notes[n] # l.notes[n] => m.notes[n] # NoEntry
    BY <1>3, <1>6, SettledSound, EntryHasKey
  <1>9. Backed(x)
    BY <1>2, <1>3, <1>5, <1>6, <1>8 DEF Backed
  <1> QED
    BY <1>7, <1>9 DEF x

LEMMA BackedSettled ==
    ASSUME Data
    PROVE  \A i \in Settled : Keyed(i) /\ Backed(i)
  BY SettledAreIndexes DEF Data, EntriesAreAcked

\* What lies under a key of a note is a version of it.
LEMMA ObjectIsCopy ==
    ASSUME IInv, Data, NEW i \in Indexes, NEW n \in Notes, i.notes[n] # NoEntry
    PROVE  /\ i.notes[n].obj \in Objects /\ Uses(i.notes[n].obj, n)
           /\ written[n] # {} /\ cobjs[i.notes[n].obj] \in Copies(n)
           /\ \A d \in Devices : objs[d][i.notes[n].obj] \in Copies(n)
  <1>1. i.notes[n].obj \in Objects
    BY SettledSound, EntryHasKey
  <1>2. Uses(i.notes[n].obj, n)
    BY DEF Uses
  <1> QED
    BY <1>1, <1>2 DEF Data, CopiesAreWritten

LEMMA VaultsAreCopies ==
    ASSUME Data, NEW d \in Devices, NEW n \in Notes
    PROVE  /\ mem[d].notes[n] \in Copies(n) /\ save[d].notes[n] \in Copies(n)
           /\ cyc[d].fetched[n] \in Copies(n) /\ EmptyVault[n] \in Copies(n)
  BY DEF Data, CopiesAreWritten, EmptyVault, Copies

LEMMA LoadsData ==
    ASSUME IInv, Data, NEW d \in Devices, NEW unread \in SUBSET Notes, Loads(d, unread),
           count'.minted = count.minted, count'.edits = count.edits
    PROVE  Alone(d) /\ Data'
  <1> count.edits \in Nat
    BY Sizes DEF IInv, Types
  <1>1. /\ \A e \in Devices : mem'[e] = IF e = d THEN LoadVault(d, unread) ELSE mem[e]
        /\ UNCHANGED <<disk, objs, save, cyc, cloud, cobjs, written, acked, stone>>
        /\ missed \subseteq missed'
    BY DEF Loads, IInv, Types
  <1>2. Alone(d)
    BY <1>1 DEF Alone
  <1>3. /\ mem'[d].index = disk[d]
        /\ \A n \in Notes : \/ mem'[d].notes[n] = NoNote
                            \/ /\ disk[d].notes[n] # NoEntry
                               /\ mem'[d].notes[n] = objs[d][disk[d].notes[n].obj]
    <2>1. mem'[d] = LoadVault(d, unread)
      BY <1>1
    <2>2. /\ mem'[d].index = disk[d]
          /\ \A n \in Notes : mem'[d].notes[n] = IF disk[d].notes[n] = NoEntry \/ n \in unread
                               THEN NoNote ELSE objs[d][disk[d].notes[n].obj]
      BY <2>1 DEF LoadVault
    <2> QED
      BY <2>2
  <1>4. SettledOf(d)' \subseteq Settled
    BY <1>1, <1>3, SettledAreIndexes DEF SettledOf
  <1>5. \A n \in Notes : mem'[d].notes[n] \in Copies(n)
    <2>1. disk[d] \in Indexes /\ \A n \in Notes : NoNote \in Copies(n)
      BY SettledAreIndexes DEF Copies
    <2> QED
      BY <1>3, <2>1, ObjectIsCopy
  <1>6. Keyed(cloud') /\ Backed(cloud') /\ Keyed(save'[d].index)
    BY <1>1, SettledAreIndexes, BackedSettled
  <1>7. Laid(cobjs', cobjs) /\ Laid(objs'[d], objs[d])
    BY <1>1 DEF Laid
  <1> QED
    BY <1>1, <1>2, <1>4, <1>5, <1>6, <1>7, BackedSettled, VaultsAreCopies, DataKept

\* A step of a cycle, from the record it leaves behind.
LEMMA CycleData ==
    ASSUME IInv, Data, NEW d \in Devices, NEW c,
           cyc' = [cyc EXCEPT ![d] = c],
           UNCHANGED <<disk, mem, save, written, acked, stone>>, missed \subseteq missed',
           count'.minted = count.minted, count'.edits = count.edits,
           \A e \in Devices : e # d => objs'[e] = objs[e],
           Keyed(c.local), Backed(c.local), Keyed(c.remote), Backed(c.remote),
           Keyed(c.index), Backed(c.index), \A n \in Notes : c.fetched[n] \in Copies(n),
           Keyed(cloud'), Backed(cloud'), Laid(cobjs', cobjs), Laid(objs'[d], objs[d])
    PROVE  Alone(d) /\ Data'
  <1> count.edits \in Nat
    BY Sizes DEF IInv, Types
  <1>1. \A e \in Devices : cyc'[e] = IF e = d THEN c ELSE cyc[e]
    BY DEF IInv, Types
  <1>2. Alone(d)
    BY <1>1 DEF Alone
  <1>3. \A i \in SettledOf(d)' : Keyed(i) /\ Backed(i)
    BY <1>1, SettledAreIndexes, BackedSettled DEF SettledOf
  <1>4. Keyed(save'[d].index)
    BY SettledAreIndexes
  <1>5. \A n \in Notes : /\ mem'[d].notes[n] \in Copies(n)
                         /\ save'[d].notes[n] \in Copies(n)
                         /\ cyc'[d].fetched[n] \in Copies(n)
    BY <1>1, VaultsAreCopies
  <1> QED
    BY <1>2, <1>3, <1>4, <1>5, DataKept

LEMMA CycleStartData ==
    ASSUME IInv, Data, NEW d \in Devices, CycleStart(d)
    PROVE  Alone(d) /\ Data'
  <1> DEFINE c == [Idle EXCEPT !.at = "transfer", !.local = disk[d], !.remote = cloud]
  <1>1. /\ cyc' = [cyc EXCEPT ![d] = c]
        /\ UNCHANGED <<disk, objs, mem, save, cloud, cobjs, written, acked, stone, missed, count>>
    BY DEF CycleStart, history
  <1>2. c.local = disk[d] /\ c.remote = cloud /\ c.index = EmptyIndex /\ c.fetched = EmptyVault
    BY DEF Idle
  <1> HIDE DEF c
  <1>3. Laid(cobjs', cobjs) /\ Laid(objs'[d], objs[d])
    BY <1>1 DEF Laid
  <1> QED
    BY <1>1, <1>2, <1>3, BackedSettled, SettledAreIndexes, EmptyIsBacked, VaultsAreCopies, CycleData

\* A cycle that has ended leaves no index behind.
LEMMA CycleEndsData ==
    ASSUME IInv, Data, NEW d \in Devices, cyc' = [cyc EXCEPT ![d] = Idle],
           UNCHANGED <<disk, mem, save, cloud, cobjs, written, acked, stone, missed>>,
           count'.minted = count.minted, count'.edits = count.edits,
           \A e \in Devices : e # d => objs'[e] = objs[e],
           \A o \in Objects : objs'[d][o] \in {objs[d][o], NoNote}
    PROVE  Alone(d) /\ Data'
  <1>1. /\ Idle.local = EmptyIndex /\ Idle.remote = EmptyIndex /\ Idle.index = EmptyIndex
        /\ Idle.fetched = EmptyVault
    BY DEF Idle
  <1>2. Laid(cobjs', cobjs) /\ Laid(objs'[d], objs[d])
    BY DEF Laid
  <1> QED
    BY <1>1, <1>2, BackedSettled, SettledAreIndexes, EmptyIsBacked, VaultsAreCopies, CycleData

LEMMA CycleFailsData ==
    ASSUME IInv, Data, NEW d \in Devices, CycleFails(d)
    PROVE  Alone(d) /\ Data'
  <1>1. count'.minted = count.minted /\ count'.edits = count.edits
    BY DEF CycleFails, Fault, IInv, Types
  <1> QED
    BY <1>1, CycleEndsData DEF CycleFails, history

LEMMA SweepData ==
    ASSUME IInv, Data, NEW d \in Devices, Sweep(d)
    PROVE  Alone(d) /\ Data'
  <1>1. /\ \A e \in Devices : e # d => objs'[e] = objs[e]
        /\ \A o \in Objects : objs'[d][o] \in {objs[d][o], NoNote}
    <2>1. CASE objs' = objs
      BY <2>1
    <2>2. CASE objs' = [objs EXCEPT ![d] = [o \in Objects |->
                          IF o \in Claimed(cyc[d].index) THEN objs[d][o] ELSE NoNote]]
      BY <2>2 DEF IInv, Types
    <2> QED
      BY <2>1, <2>2 DEF Sweep
  <1> QED
    BY <1>1, CycleEndsData DEF Sweep, history

\* The transfers keep the indexes of the cycle.
LEMMA TransferData ==
    ASSUME IInv, Data, NEW d \in Devices, NEW c,
           cyc' = [cyc EXCEPT ![d] = c],
           UNCHANGED <<disk, objs, mem, save, cloud, written, acked, stone, missed>>,
           count'.minted = count.minted, count'.edits = count.edits,
           c.local = cyc[d].local, c.remote = cyc[d].remote, c.index = cyc[d].index,
           \A n \in Notes : c.fetched[n] \in Copies(n), Laid(cobjs', cobjs)
    PROVE  Alone(d) /\ Data'
  <1>1. Laid(objs'[d], objs[d])
    BY DEF Laid
  <1> QED
    BY <1>1, BackedSettled, SettledAreIndexes, CycleData

LEMMA GetNoteData ==
    ASSUME IInv, Data, NEW d \in Devices, NEW n \in Notes, GetNote(d, n)
    PROVE  Alone(d) /\ Data'
  <1> DEFINE note == cobjs[Plan(d, Merged).notes[n].obj]
             lost == [cyc[d] EXCEPT !.lost = cyc[d].lost \union {n}]
             got  == [cyc[d] EXCEPT !.fetched = [cyc[d].fetched EXCEPT ![n] = note],
                                    !.done = cyc[d].done \union {n}]
  <1>1. cyc[d] \in Cycle /\ cyc \in [Devices -> Cycle]
    BY DEF IInv, Types
  <1>2. UNCHANGED <<disk, objs, mem, save, cloud, cobjs, written, acked, stone, missed, count>>
    BY DEF GetNote, history
  <1>3. Laid(cobjs', cobjs)
    BY <1>2 DEF Laid
  <1>4. note \in Copies(n)
    <2>1. /\ cyc[d].local \in SoundIndex /\ cyc[d].remote \in SoundIndex
          /\ n \in ToFetch(cyc[d].local, cyc[d].remote)
      BY <1>1 DEF Cycle, GetNote, Plan
    <2>2. cyc[d].remote.notes[n] # NoEntry /\ Plan(d, Merged).notes[n] # NoEntry
      BY <2>1, TransfersAreNamed DEF Plan
    <2>3. Plan(d, Merged).notes[n].obj = cyc[d].remote.notes[n].obj
      BY <2>1, <2>2, MergedKeepsKey DEF Plan
    <2>4. cyc[d].remote \in Indexes
      BY SettledAreIndexes
    <2> QED
      BY <2>2, <2>3, <2>4, ObjectIsCopy
  <1> HIDE DEF note
  <1>5. /\ lost.local = cyc[d].local /\ lost.remote = cyc[d].remote
        /\ lost.index = cyc[d].index /\ lost.fetched = cyc[d].fetched
    BY <1>1 DEF Cycle
  <1>6. /\ got.local = cyc[d].local /\ got.remote = cyc[d].remote /\ got.index = cyc[d].index
        /\ \A m \in Notes : got.fetched[m] = IF m = n THEN note ELSE cyc[d].fetched[m]
    BY <1>1 DEF Cycle, Vault
  <1>7. cyc' = [cyc EXCEPT ![d] = lost] \/ cyc' = [cyc EXCEPT ![d] = got]
    BY <1>1 DEF GetNote, Cycle, note
  <1> HIDE DEF lost, got
  <1>8. CASE cyc' = [cyc EXCEPT ![d] = lost]
    BY <1>2, <1>3, <1>5, <1>8, VaultsAreCopies, TransferData
  <1>9. CASE cyc' = [cyc EXCEPT ![d] = got]
    BY <1>2, <1>3, <1>4, <1>6, <1>9, VaultsAreCopies, TransferData
  <1> QED
    BY <1>7, <1>8, <1>9

LEMMA TransferFailsData ==
    ASSUME IInv, Data, NEW d \in Devices, NEW n \in Notes, TransferFails(d, n)
    PROVE  Alone(d) /\ Data'
  <1> DEFINE c == [cyc[d] EXCEPT !.lost = cyc[d].lost \union {n}]
  <1>1. cyc[d] \in Cycle /\ cyc \in [Devices -> Cycle]
    BY DEF IInv, Types
  <1>2. /\ cyc' = [cyc EXCEPT ![d] = c]
        /\ UNCHANGED <<disk, objs, mem, save, cloud, cobjs, written, acked, stone, missed>>
    BY <1>1 DEF TransferFails, history
  <1>3. count'.minted = count.minted /\ count'.edits = count.edits
    BY DEF TransferFails, Fault, IInv, Types
  <1>4. /\ c.local = cyc[d].local /\ c.remote = cyc[d].remote
        /\ c.index = cyc[d].index /\ c.fetched = cyc[d].fetched
    BY <1>1 DEF Cycle
  <1> HIDE DEF c
  <1>5. Laid(cobjs', cobjs)
    BY <1>2 DEF Laid
  <1> QED
    BY <1>2, <1>3, <1>4, <1>5, VaultsAreCopies, TransferData

LEMMA PutNoteData ==
    ASSUME IInv, Data, NEW d \in Devices, NEW n \in Notes, PutNote(d, n)
    PROVE  Alone(d) /\ Data'
  <1> DEFINE note == objs[d][cyc[d].local.notes[n].obj]
             k    == Plan(d, Merged).notes[n].obj
             lost == [cyc[d] EXCEPT !.lost = cyc[d].lost \union {n}]
             sent == [cyc[d] EXCEPT !.done = cyc[d].done \union {n}]
  <1>1. cyc[d] \in Cycle /\ cyc \in [Devices -> Cycle] /\ cobjs \in [Objects -> Version]
    BY DEF IInv, Types
  <1>2. UNCHANGED <<disk, objs, mem, save, cloud, written, acked, stone, missed, count>>
    BY DEF PutNote, history
  <1>3. /\ cyc[d].local \in SoundIndex /\ cyc[d].remote \in SoundIndex
        /\ n \in ToPush(cyc[d].local, cyc[d].remote)
    BY <1>1 DEF Cycle, PutNote, Plan
  <1>4. note \in Copies(n)
    <2>1. cyc[d].local.notes[n] # NoEntry /\ cyc[d].local \in Indexes
      BY <1>3, TransfersAreNamed, SettledAreIndexes
    <2> QED
      BY <2>1, ObjectIsCopy
  <1>5. k \in Objects /\ Uses(k, n)
    <2>1. k \in Objects
      BY <1>3, TransfersAreNamed DEF Plan
    <2>2. Keyed(Plan(d, Merged))
      BY SettledAreIndexes, MergedBacked DEF Plan
    <2> QED
      BY <2>1, <2>2 DEF Keyed
  <1>6. /\ lost.local = cyc[d].local /\ lost.remote = cyc[d].remote
        /\ lost.index = cyc[d].index /\ lost.fetched = cyc[d].fetched
        /\ sent.local = cyc[d].local /\ sent.remote = cyc[d].remote
        /\ sent.index = cyc[d].index /\ sent.fetched = cyc[d].fetched
    BY <1>1 DEF Cycle
  <1>7. \/ cyc' = [cyc EXCEPT ![d] = lost] /\ cobjs' = cobjs
        \/ cyc' = [cyc EXCEPT ![d] = sent] /\ cobjs' = [cobjs EXCEPT ![k] = note]
    BY <1>1 DEF PutNote
  <1> HIDE DEF lost, sent, note, k
  <1>8. Laid(cobjs', cobjs)
    <2>1. \A o \in Objects : cobjs'[o] = cobjs[o] \/ (o = k /\ cobjs'[o] = note)
      BY <1>1, <1>7
    <2> QED
      BY <1>4, <1>5, <2>1 DEF Laid
  <1> QED
    BY <1>2, <1>6, <1>7, <1>8, VaultsAreCopies, TransferData

LEMMA PutIndexData ==
    ASSUME IInv, Data, NEW d \in Devices, PutIndex(d)
    PROVE  Alone(d) /\ Data'
  <1> DEFINE changed == ~SameIndex(Plan(d, Merged), cyc[d].local) \/ cyc[d].done # {}
             c == [cyc[d] EXCEPT !.at = "notes", !.index = LocalIndex(d), !.changed = changed]
  <1>1. cyc[d] \in Cycle /\ cyc \in [Devices -> Cycle]
    BY DEF IInv, Types
  <1>2. /\ cyc' = [cyc EXCEPT ![d] = c]
        /\ UNCHANGED <<disk, objs, mem, save, cobjs, written, acked, stone, missed, count>>
        /\ cloud' = IndexForCloud(Merged(cyc[d].local, cyc[d].remote)) \/ cloud' = cloud
    BY <1>1 DEF PutIndex, history, Plan
  <1> HIDE DEF changed
  <1>3. /\ c.local = cyc[d].local /\ c.remote = cyc[d].remote
        /\ c.index = LocalIndex(d) /\ c.fetched = cyc[d].fetched
    BY <1>1 DEF Cycle
  <1> HIDE DEF c
  <1>4. Keyed(cloud') /\ Backed(cloud')
    BY <1>2, SettledAreIndexes, BackedSettled, MergedBacked
  <1>5. Laid(cobjs', cobjs) /\ Laid(objs'[d], objs[d])
    BY <1>2 DEF Laid
  <1> QED
    BY <1>2, <1>3, <1>4, <1>5, LocalIndexBacked, BackedSettled, SettledAreIndexes,
       VaultsAreCopies, CycleData

\* Versions laid under the keys index i has for them.
LEMMA LayingIsLaid ==
    ASSUME NEW i, Keyed(i), NEW S \in SUBSET Notes, NEW vault, NEW y, NEW x,
           \A n \in Notes : vault[n] \in Copies(n),
           x = [o \in Objects |-> IF \E n \in S : i.notes[n].obj = o
                                  THEN vault[CHOOSE n \in S : i.notes[n].obj = o] ELSE y[o]]
    PROVE  Laid(x, y)
  <1> SUFFICES ASSUME NEW o \in Objects, x[o] # y[o]
               PROVE  \E n \in Notes : Uses(o, n) /\ x[o] \in Copies(n)
    BY DEF Laid
  <1>1. \E n \in S : i.notes[n].obj = o
    OBVIOUS
  <1> DEFINE m == CHOOSE n \in S : i.notes[n].obj = o
  <1>2. m \in S /\ i.notes[m].obj = o
    BY <1>1
  <1>3. x[o] = vault[m]
    BY <1>1
  <1> HIDE DEF m
  <1> QED
    BY <1>2, <1>3 DEF Keyed

\* When the keys are apart, only one note is laid under a key.
LEMMA OneOwner ==
    ASSUME KeysApart, NEW i, Keyed(i), NEW o \in Objects, NEW m \in Notes, Uses(o, m),
           NEW n \in Notes, i.notes[n].obj = o
    PROVE  n = m
  BY DEF Keyed, KeysApart

LEMMA SaveObjectsData ==
    ASSUME IInv, Data, NEW d \in Devices, SaveObjects(d)
    PROVE  Alone(d) /\ Data'
  <1> DEFINE changed == Rewritten(save[d].index, mem[d].index)
             store == [o \in Objects |->
                         IF \E n \in changed : save[d].index.notes[n].obj = o
                         THEN save[d].notes[CHOOSE n \in changed : save[d].index.notes[n].obj = o]
                         ELSE objs[d][o]]
  <1>1. /\ objs' = [objs EXCEPT ![d] = store]
        /\ save' = [save EXCEPT ![d].at = "index"]
        /\ UNCHANGED <<disk, mem, cyc, cloud, cobjs, written, acked, stone, missed, count>>
    BY DEF SaveObjects, history
  <1>2. changed \in SUBSET Notes
    BY DEF Rewritten
  <1> HIDE DEF changed
  <1>3. Laid(store, objs[d])
    BY <1>2, SettledAreIndexes, VaultsAreCopies, LayingIsLaid
  <1> HIDE DEF store
  <1>4. \A e \in Devices : /\ objs'[e] = IF e = d THEN store ELSE objs[e]
                           /\ save'[e].notes = save[e].notes /\ save'[e].index = save[e].index
                           /\ e # d => save'[e] = save[e]
    BY <1>1 DEF IInv, Types, Saving
  <1>5. Alone(d)
    BY <1>1, <1>4 DEF Alone
  <1>6. SettledOf(d)' \subseteq Settled
    BY <1>1, SettledAreIndexes DEF SettledOf
  <1>7. Laid(cobjs', cobjs) /\ Laid(objs'[d], objs[d])
    BY <1>1, <1>3, <1>4 DEF Laid
  <1>8. Keyed(cloud') /\ Backed(cloud') /\ Keyed(save'[d].index)
    BY <1>1, <1>4, SettledAreIndexes, BackedSettled
  <1>9. count.edits \in Nat
    BY Sizes DEF IInv, Types
  <1> QED
    BY <1>1, <1>4, <1>5, <1>6, <1>7, <1>8, <1>9, BackedSettled, VaultsAreCopies, DataKept

LEMMA WriteNotesData ==
    ASSUME IInv, Data, NEW d \in Devices, WriteNotes(d)
    PROVE  Alone(d) /\ Data'
  <1> DEFINE down == {n \in Plan(d, ToFetch) : n \in cyc[d].done}
             store == [o \in Objects |->
                         IF \E n \in down : cyc[d].index.notes[n].obj = o
                         THEN cyc[d].fetched[CHOOSE n \in down : cyc[d].index.notes[n].obj = o]
                         ELSE objs[d][o]]
             c == [cyc[d] EXCEPT !.at = "rekey", !.done = down]
  <1>1. cyc[d] \in Cycle /\ cyc \in [Devices -> Cycle] /\ objs \in [Devices -> [Objects -> Version]]
    BY DEF IInv, Types
  <1>2. /\ objs' = [objs EXCEPT ![d] = store] /\ cyc' = [cyc EXCEPT ![d] = c]
        /\ UNCHANGED <<disk, mem, save, cloud, cobjs, written, acked, stone, missed, count>>
    BY <1>1 DEF WriteNotes, history
  <1>3. down \in SUBSET Notes
    BY DEF Plan, ToFetch
  <1> HIDE DEF down
  <1>4. Laid(store, objs[d])
    BY <1>3, SettledAreIndexes, VaultsAreCopies, LayingIsLaid
  <1> HIDE DEF store
  <1>5. /\ c.local = cyc[d].local /\ c.remote = cyc[d].remote
        /\ c.index = cyc[d].index /\ c.fetched = cyc[d].fetched
    BY <1>1 DEF Cycle
  <1> HIDE DEF c
  <1>6. \A e \in Devices : objs'[e] = IF e = d THEN store ELSE objs[e]
    BY <1>1, <1>2
  <1>7. Laid(cobjs', cobjs) /\ Laid(objs'[d], objs[d])
    BY <1>2, <1>4, <1>6 DEF Laid
  <1> QED
    BY <1>2, <1>5, <1>6, <1>7, BackedSettled, SettledAreIndexes, VaultsAreCopies, CycleData

\* What the move of a note changes on its device.
LEMMA RekeyMeans ==
    ASSUME IInv, NEW d \in Devices, NEW n \in Notes, Rekey(d, n)
    PROVE  LET from == cyc[d].local.notes[n].obj
               to   == cyc[d].remote.notes[n].obj
           IN  /\ cyc[d].at = "rekey" /\ n \in Rekeyed(cyc[d].local, cyc[d].remote)
               /\ n \notin cyc[d].done
               /\ cyc[d].local.notes[n] # NoEntry /\ cyc[d].remote.notes[n] # NoEntry
               /\ from \in Objects /\ to \in Objects /\ from # to
               /\ cyc'[d].at = "rekey" /\ cyc'[d].local = cyc[d].local
               /\ cyc'[d].remote = cyc[d].remote /\ cyc'[d].fetched = cyc[d].fetched
               /\ cyc'[d].changed = cyc[d].changed /\ cyc'[d].done = cyc[d].done \union {n}
               /\ cyc'[d].index.purged = cyc[d].index.purged
               /\ \A m \in Notes : \/ cyc'[d].index.notes[m] = cyc[d].index.notes[m]
                                   \/ m = n /\ cyc'[d].index.notes[m] = NoEntry
               /\ \/ objs'[d] = objs[d]
                  \/ /\ objs[d][to] = NoNote /\ objs[d][from] # NoNote
                     /\ \A o \in Objects : objs'[d][o] = IF o = from THEN NoNote
                                                          ELSE IF o = to THEN objs[d][from]
                                                          ELSE objs[d][o]
               /\ n \notin missed' /\ objs[d][from] # NoNote =>
                     /\ ~ mem[d].open /\ objs[d][to] = NoNote
                     /\ objs'[d][to] = objs[d][from] /\ objs'[d][from] = NoNote
                     /\ cyc'[d].index = cyc[d].index
               /\ missed \subseteq missed'
               /\ \A e \in Devices : e # d => objs'[e] = objs[e] /\ cyc'[e] = cyc[e]
               /\ UNCHANGED <<disk, mem, save, cloud, cobjs, written, acked, stone, count>>
  <1> DEFINE from == cyc[d].local.notes[n].obj
             to   == cyc[d].remote.notes[n].obj
             moved == [o \in Objects |-> IF o = from THEN NoNote
                                         ELSE IF o = to THEN objs[d][from] ELSE objs[d][o]]
             ready == [cyc[d] EXCEPT !.done = cyc[d].done \union {n}]
             gone  == [cyc[d] EXCEPT !.done = cyc[d].done \union {n},
                                     !.index = [cyc[d].index EXCEPT
                                        !.notes = [cyc[d].index.notes EXCEPT ![n] = NoEntry]]]
  <1>1. /\ cyc[d] \in Cycle /\ cyc \in [Devices -> Cycle] /\ cyc[d].index \in SoundIndex
        /\ objs \in [Devices -> [Objects -> Version]]
        /\ cyc[d].local \in SoundIndex /\ cyc[d].remote \in SoundIndex
    BY DEF IInv, Types, Cycle
  <1>2. /\ cyc[d].at = "rekey" /\ n \in Rekeyed(cyc[d].local, cyc[d].remote)
        /\ n \notin cyc[d].done
        /\ UNCHANGED <<disk, mem, save, cloud, cobjs, written, acked, stone, count>>
    BY DEF Rekey, ToRekey, Plan
  <1>3. /\ cyc[d].local.notes[n] # NoEntry /\ cyc[d].remote.notes[n] # NoEntry /\ from # to
    BY <1>2 DEF Rekeyed, Collides
  <1>4. from \in Objects /\ to \in Objects
    BY <1>1, <1>3 DEF SoundIndex, Named
  <1>5. /\ ready.at = cyc[d].at /\ ready.local = cyc[d].local /\ ready.remote = cyc[d].remote
        /\ ready.fetched = cyc[d].fetched /\ ready.changed = cyc[d].changed
        /\ ready.done = cyc[d].done \union {n} /\ ready.index = cyc[d].index
    BY <1>1 DEF Cycle
  <1>6. /\ gone.at = cyc[d].at /\ gone.local = cyc[d].local /\ gone.remote = cyc[d].remote
        /\ gone.fetched = cyc[d].fetched /\ gone.changed = cyc[d].changed
        /\ gone.done = cyc[d].done \union {n} /\ gone.index.purged = cyc[d].index.purged
        /\ \A m \in Notes : gone.index.notes[m] = IF m = n THEN NoEntry ELSE cyc[d].index.notes[m]
    BY <1>1 DEF Cycle, SoundIndex
  <1>7. \/ objs[d][to] # NoNote /\ objs' = objs /\ cyc' = [cyc EXCEPT ![d] = ready]
        \/ /\ objs[d][to] = NoNote /\ objs[d][from] = NoNote
           /\ objs' = objs /\ cyc' = [cyc EXCEPT ![d] = gone]
        \/ /\ objs[d][to] = NoNote /\ objs[d][from] # NoNote
           /\ objs' = [objs EXCEPT ![d] = moved] /\ cyc' = [cyc EXCEPT ![d] = ready]
    <2>1. CASE objs[d][to] # NoNote
      BY <1>1, <2>1 DEF Rekey
    <2>2. CASE objs[d][to] = NoNote /\ objs[d][from] = NoNote
      BY <1>1, <2>2 DEF Rekey, Cycle, SoundIndex, Index
    <2>3. CASE objs[d][to] = NoNote /\ objs[d][from] # NoNote
      BY <1>1, <2>3 DEF Rekey
    <2> QED
      BY <2>1, <2>2, <2>3
  <1>8. /\ missed \subseteq missed'
        /\ n \notin missed' => ~ mem[d].open /\ NoNote \in {objs[d][from], objs[d][to]}
    BY DEF Rekey
  <1> HIDE DEF ready, gone
  <1>9. \A e \in Devices : e # d => objs'[e] = objs[e] /\ cyc'[e] = cyc[e]
    BY <1>1, <1>7
  <1>10. CASE objs[d][to] # NoNote
    BY <1>1, <1>2, <1>3, <1>4, <1>5, <1>7, <1>8, <1>9, <1>10
  <1>11. CASE objs[d][to] = NoNote /\ objs[d][from] = NoNote
    BY <1>1, <1>2, <1>3, <1>4, <1>6, <1>7, <1>8, <1>9, <1>11
  <1>12. CASE objs[d][to] = NoNote /\ objs[d][from] # NoNote
    <2>1. cyc'[d] = ready /\ objs' = [objs EXCEPT ![d] = moved]
      BY <1>1, <1>7, <1>12
    <2>2. \A o \in Objects : objs'[d][o] = IF o = from THEN NoNote
                                          ELSE IF o = to THEN objs[d][from] ELSE objs[d][o]
      BY <1>1, <2>1
    <2>3. objs'[d][to] = objs[d][from] /\ objs'[d][from] = NoNote
      BY <1>3, <1>4, <2>2
    <2> HIDE DEF moved
    <2> QED
      BY <1>2, <1>3, <1>4, <1>5, <1>8, <1>9, <1>12, <2>1, <2>2, <2>3
  <1> QED
    BY <1>10, <1>11, <1>12

LEMMA RekeyData ==
    ASSUME IInv, Data, NEW d \in Devices, NEW n \in Notes, Rekey(d, n)
    PROVE  Alone(d) /\ Data'
  <1> DEFINE from == cyc[d].local.notes[n].obj
             to   == cyc[d].remote.notes[n].obj
  <1>1. /\ UNCHANGED <<disk, mem, save, cloud, cobjs, written, acked, stone, count>>
        /\ \A e \in Devices : e # d => objs'[e] = objs[e] /\ cyc'[e] = cyc[e]
        /\ missed \subseteq missed'
        /\ cyc'[d].local = cyc[d].local /\ cyc'[d].remote = cyc[d].remote
        /\ cyc'[d].fetched = cyc[d].fetched /\ cyc'[d].index.purged = cyc[d].index.purged
        /\ \A m \in Notes : \/ cyc'[d].index.notes[m] = cyc[d].index.notes[m]
                            \/ m = n /\ cyc'[d].index.notes[m] = NoEntry
        /\ cyc[d].local.notes[n] # NoEntry /\ cyc[d].remote.notes[n] # NoEntry
        /\ \A o \in Objects : \/ objs'[d][o] = objs[d][o] \/ objs'[d][o] = NoNote
                              \/ o = to /\ objs'[d][o] = objs[d][from]
    BY RekeyMeans
  <1>2. cyc' = [cyc EXCEPT ![d] = cyc'[d]]
    BY <1>1, RekeyType DEF IInv, Types
  <1>3. Uses(to, n) /\ objs[d][from] \in Copies(n)
    BY <1>1, SettledAreIndexes, ObjectIsCopy
  <1>4. Laid(objs'[d], objs[d]) /\ Laid(cobjs', cobjs)
    BY <1>1, <1>3 DEF Laid
  <1>5. Keyed(cyc'[d].index) /\ Backed(cyc'[d].index)
    <2>1. Keyed(cyc[d].index) /\ Backed(cyc[d].index)
      BY SettledAreIndexes, BackedSettled
    <2>2. \A o \in Objects : NoEntry.obj # o
      BY Sizes DEF NoEntry, Objects
    <2>3. Keyed(cyc'[d].index)
      BY <1>1, <2>1, <2>2 DEF Keyed
    <2>4. Backed(cyc'[d].index)
      BY <1>1, <2>1 DEF Backed
    <2> QED
      BY <2>3, <2>4
  <1> QED
    BY <1>1, <1>2, <1>4, <1>5, BackedSettled, SettledAreIndexes, VaultsAreCopies, CycleData

LEMMA WriteIndexData ==
    ASSUME IInv, Data, NEW d \in Devices, WriteIndex(d)
    PROVE  Alone(d) /\ Data'
  <1>1. UNCHANGED <<objs, mem, save, cloud, cobjs, written, acked, stone, missed, count>>
    BY DEF WriteIndex, history
  <1>2. \A e \in Devices : /\ cyc'[e].local = cyc[e].local /\ cyc'[e].remote = cyc[e].remote
                           /\ cyc'[e].index = cyc[e].index /\ cyc'[e].fetched = cyc[e].fetched
                           /\ e # d => cyc'[e] = cyc[e]
    BY DEF WriteIndex, IInv, Types, Cycle
  <1>3. /\ disk'[d] = disk[d] \/ disk'[d] = cyc[d].index
        /\ \A e \in Devices : e # d => disk'[e] = disk[e]
    BY DEF WriteIndex, IInv, Types
  <1>4. Alone(d)
    BY <1>1, <1>2, <1>3 DEF Alone
  <1>5. SettledOf(d)' \subseteq Settled
    BY <1>1, <1>2, <1>3, SettledAreIndexes DEF SettledOf
  <1>6. Laid(cobjs', cobjs) /\ Laid(objs'[d], objs[d])
    BY <1>1 DEF Laid
  <1>7. Keyed(cloud') /\ Backed(cloud') /\ Keyed(save'[d].index) /\ count.edits \in Nat
    BY <1>1, SettledAreIndexes, BackedSettled, Sizes DEF IInv, Types
  <1> QED
    BY <1>1, <1>2, <1>4, <1>5, <1>6, <1>7, BackedSettled, VaultsAreCopies, DataKept

LEMMA CrashData ==
    ASSUME IInv, Data, NEW d \in Devices, Crash(d)
    PROVE  Alone(d) /\ Data'
  <1>1. /\ UNCHANGED <<disk, objs, cloud, cobjs, written, acked, stone>>
        /\ missed \subseteq missed'
    BY DEF Crash
  <1>2. \A e \in Devices : /\ mem'[e] = IF e = d THEN Shut ELSE mem[e]
                           /\ save'[e] = IF e = d THEN Free ELSE save[e]
                           /\ cyc'[e] = IF e = d THEN Idle ELSE cyc[e]
    BY DEF Crash, IInv, Types
  <1>3. count'.minted = count.minted /\ count'.edits = count.edits /\ count.edits \in Nat
    BY Sizes DEF Crash, Fault, IInv, Types
  <1>4. Alone(d)
    BY <1>1, <1>2 DEF Alone
  <1>5. /\ mem'[d].index = EmptyIndex /\ mem'[d].notes = EmptyVault
        /\ save'[d].index = EmptyIndex /\ save'[d].notes = EmptyVault
        /\ cyc'[d].local = EmptyIndex /\ cyc'[d].remote = EmptyIndex
        /\ cyc'[d].index = EmptyIndex /\ cyc'[d].fetched = EmptyVault
    BY <1>2 DEF Shut, Free, Idle
  <1>6. \A i \in SettledOf(d)' : Keyed(i) /\ Backed(i)
    BY <1>1, <1>5, SettledAreIndexes, BackedSettled, EmptyIsBacked DEF SettledOf
  <1>7. Laid(cobjs', cobjs) /\ Laid(objs'[d], objs[d])
    BY <1>1 DEF Laid
  <1>8. Keyed(cloud') /\ Backed(cloud') /\ Keyed(save'[d].index)
    BY <1>1, <1>5, SettledAreIndexes, BackedSettled, EmptyIsBacked
  <1>9. \A n \in Notes : /\ mem'[d].notes[n] \in Copies(n)
                         /\ save'[d].notes[n] \in Copies(n)
                         /\ cyc'[d].fetched[n] \in Copies(n)
    BY <1>5, VaultsAreCopies
  <1> QED
    BY <1>1, <1>3, <1>4, <1>6, <1>7, <1>8, <1>9, DataKept

----------------------------------------------------------------------------
(* The saves.                                                               *)

\* The entry a save writes for a note of its vault: under the key the note has, or
\* under a new one; it names the note's version when the memory was fresh.
LEMMA SplitVaultMeans ==
    ASSUME NEW notes \in Vault, NEW prev \in SoundIndex, NEW purged, NEW n \in Notes,
           count.minted \in 0 .. MaxObjects, count.minted < MaxObjects
    PROVE  LET x == SplitVault(notes, prev, purged)
           IN  /\ x.purged = purged
               /\ notes[n] = NoNote => x.notes[n] = NoEntry
               /\ notes[n] # NoNote =>
                     /\ x.notes[n] # NoEntry
                     /\ x.notes[n].obj = IF prev.notes[n] = NoEntry THEN count.minted + 1
                                         ELSE prev.notes[n].obj
                     /\ x.notes[n].clock = notes[n].clock
                     /\ \/ prev.notes[n] = NoEntry
                        \/ notes[n].clock > prev.notes[n].clock
                        \/ notes[n] = VersionOf(prev.notes[n])
                        => VersionOf(x.notes[n]) = notes[n]
  <1> DEFINE a == notes[n]
             b == prev.notes[n]
             e == [obj    |-> IF b = NoEntry THEN count.minted + 1 ELSE b.obj,
                   clock  |-> a.clock,
                   dead   |-> a.dead,
                   digest |-> DigestOf(a, b),
                   synced |-> b.synced,
                   shape  |-> a.digest]
  <1>1. a \in Version /\ b \in Named /\ b \in Entry
    BY DEF Vault, SoundIndex, Named
  <1>2. /\ SplitVault(notes, prev, purged).purged = purged
        /\ SplitVault(notes, prev, purged).notes[n] = IF a = NoNote THEN NoEntry ELSE e
    BY DEF SplitVault
  <1>3. /\ e.obj = IF b = NoEntry THEN count.minted + 1 ELSE b.obj
        /\ e.clock = a.clock /\ VersionOf(e) = [clock |-> a.clock, dead |-> a.dead,
                                                 digest |-> DigestOf(a, b)]
    BY DEF VersionOf
  <1>4. e # NoEntry
    <2>1. NoEntry.obj = 0
      BY DEF NoEntry
    <2>2. e.obj # 0
      BY <1>1, <1>3, Sizes DEF Named, Objects
    <2> HIDE DEF e
    <2> QED
      BY <2>1, <2>2
  <1> HIDE DEF e
  <1>5. ASSUME \/ b = NoEntry
               \/ a.clock > b.clock
               \/ a = VersionOf(b)
        PROVE  VersionOf(e) = a
    <2>1. a.clock \in Nat /\ b.clock \in Nat
      BY <1>1, Sizes DEF Version, Entry
    <2>2. DigestOf(a, b) = a.digest
      <3>1. CASE b = NoEntry
        BY <3>1 DEF DigestOf
      <3>2. CASE a.clock > b.clock
        BY <2>1, <3>2 DEF DigestOf
      <3>3. CASE a = VersionOf(b)
        <4>1. a.digest = b.digest
          BY <3>3 DEF VersionOf
        <4> QED
          BY <4>1 DEF DigestOf
      <3> QED
        BY <1>5, <3>1, <3>2, <3>3
    <2>3. a = [clock |-> a.clock, dead |-> a.dead, digest |-> a.digest]
      BY <1>1 DEF Version
    <2> QED
      BY <1>3, <2>2, <2>3
  <1> QED
    BY <1>2, <1>3, <1>4, <1>5

\* An open vault holds no note its index does not name.
LEMMA FreshMeans ==
    ASSUME IInv, Data, NEW d \in Devices, Fresh(mem[d]), NEW n \in Notes
    PROVE  /\ mem[d].notes[n] # NoNote => mem[d].index.notes[n] # NoEntry
           /\ n \notin missed /\ mem[d].index.notes[n] # NoEntry =>
                 /\ mem[d].notes[n] # NoNote
                 /\ mem[d].notes[n].clock >= mem[d].index.notes[n].clock
                 /\ Reaches(mem[d].notes[n], VersionOf(mem[d].index.notes[n]))
                 /\ mem[d].index.notes[n].clock > 0
  <1> DEFINE a == mem[d].notes[n]
             b == mem[d].index.notes[n]
  <1>1. a \in Version /\ b \in Entry /\ a.clock \in Nat /\ b.clock \in Nat
    <2>1. a \in Version /\ b \in Entry
      BY SettledSound, SettledAreIndexes DEF IInv, Types, Memory, Vault
    <2> QED
      BY <2>1, Sizes DEF Version, Entry
  <1>2. VersionOf(b) \in Version /\ VersionOf(b).clock = b.clock
    BY <1>1, VersionOfType
  <1>3. ASSUME n \notin missed, b # NoEntry
        PROVE  /\ a # NoNote /\ a.clock >= b.clock /\ Reaches(a, VersionOf(b)) /\ b.clock > 0
    <2>1. VersionOf(b) \in written[n]
      BY <1>3, SettledAreIndexes, BackedSettled DEF Backed
    <2>2. b.clock > 0
      BY <1>2, <2>1 DEF Data, VersionsApart
    <2>3. a.clock > b.clock \/ a = VersionOf(b)
      BY <1>3 DEF Fresh
    <2>4. a.clock >= b.clock
      BY <1>1, <1>2, <2>3
    <2>5. Reaches(a, VersionOf(b))
      BY <1>1, <1>2, <2>3, ReachesIsAnOrder
    <2>6. a # NoNote
      BY <1>1, <2>2, <2>4, CopiesType
    <2> QED
      BY <2>2, <2>4, <2>5, <2>6
  <1> QED
    BY <1>3 DEF Fresh

\* A save begins: what it is to write, and what stays.
LEMMA BeginSaveMeans ==
    ASSUME IInv, NEW d \in Devices, NEW notes \in Vault, NEW purged, BeginSave(d, notes, purged)
    PROVE  /\ mem[d].open /\ save[d].at = "free" /\ (Busy \/ cyc[d].at = "idle")
           /\ save'[d].at = "objects" /\ save'[d].notes = notes
           /\ save'[d].index = SplitVault(notes, mem[d].index, purged)
           /\ \A e \in Devices : e # d => save'[e] = save[e]
           /\ UNCHANGED <<disk, objs, mem, cyc, cloud, cobjs, acked, stone, missed>>
           /\ count.minted \in 0 .. MaxObjects /\ count.minted < MaxObjects
           /\ mem[d].index \in SoundIndex /\ mem[d].notes \in Vault
           /\ Alone(d) /\ SettledOf(d)' = SettledOf(d)
  <1>1. \A e \in Devices : save'[e] = IF e = d THEN [at |-> "objects", notes |-> notes,
                                        index |-> SplitVault(notes, mem[d].index, purged)]
                                      ELSE save[e]
    BY DEF BeginSave, IInv, Types
  <1>2. /\ mem[d].open /\ save[d].at = "free" /\ (Busy \/ cyc[d].at = "idle")
        /\ count.minted < MaxObjects
        /\ UNCHANGED <<disk, objs, mem, cyc, cloud, cobjs, acked, stone, missed>>
    BY DEF BeginSave
  <1>3. /\ count.minted \in 0 .. MaxObjects
        /\ mem[d].index \in SoundIndex /\ mem[d].notes \in Vault
    BY DEF IInv, Types, Memory
  <1>4. Alone(d) /\ SettledOf(d)' = SettledOf(d)
    BY <1>1, <1>2 DEF Alone, SettledOf
  <1> QED
    BY <1>1, <1>2, <1>3, <1>4

\* What an edit asks of the memory, and what it stamps.
LEMMA EditMeans ==
    ASSUME IInv, NEW d \in Devices, NEW n \in Notes, Edit(d, n)
    PROVE  \E version \in Version :
              /\ version.clock > 0 /\ version # NoNote /\ version.digest = count.edits + 2
              /\ version.clock > mem[d].notes[n].clock
              /\ mem[d].notes[n] # NoNote \/ written[n] = {}
              /\ [mem[d].notes EXCEPT ![n] = version] \in Vault
              /\ BeginSave(d, [mem[d].notes EXCEPT ![n] = version], mem[d].index.purged)
              /\ written' = [written EXCEPT ![n] = @ \union {version}]
              /\ count'.edits = count.edits + 1 /\ count'.minted = count.minted + MintsOne(d, n)
  <1>1. PICK clock \in 1 .. MaxClock, dead \in BOOLEAN :
            LET version == [clock |-> clock, dead |-> dead, digest |-> count.edits + 2]
            IN  /\ count.edits < MaxEdits
                /\ mem[d].notes[n] # NoNote \/ written[n] = {}
                /\ clock > mem[d].notes[n].clock
                /\ BeginSave(d, [mem[d].notes EXCEPT ![n] = version], mem[d].index.purged)
                /\ written' = [written EXCEPT ![n] = @ \union {version}]
                /\ count' = [count EXCEPT !.edits = @ + 1, !.minted = @ + MintsOne(d, n)]
    BY DEF Edit
  <1> DEFINE version == [clock |-> clock, dead |-> dead, digest |-> count.edits + 2]
  <1>2. count.edits \in 0 .. MaxEdits /\ mem[d].notes \in Vault
    BY DEF IInv, Types, Memory
  <1>3. version \in Version
    BY <1>1, <1>2, Sizes DEF Version, Digests
  <1>4. version.clock > 0 /\ version.clock = clock /\ version.digest = count.edits + 2
    BY <1>1
  <1>5. count'.edits = count.edits + 1 /\ count'.minted = count.minted + MintsOne(d, n)
    BY <1>1 DEF IInv, Types
  <1>6. /\ mem[d].notes[n] # NoNote \/ written[n] = {}
        /\ clock > mem[d].notes[n].clock
        /\ BeginSave(d, [mem[d].notes EXCEPT ![n] = version], mem[d].index.purged)
        /\ written' = [written EXCEPT ![n] = @ \union {version}]
    BY <1>1
  <1> HIDE DEF version
  <1>7. version # NoNote /\ [mem[d].notes EXCEPT ![n] = version] \in Vault
    BY <1>2, <1>3, <1>4 DEF NoNote, Vault
  <1> QED
    BY <1>3, <1>4, <1>5, <1>6, <1>7

LEMMA EditData ==
    ASSUME IInv, Data, NEW d \in Devices, Fresh(mem[d]), NEW n \in Notes, Edit(d, n)
    PROVE  Alone(d) /\ Data'
  <1> DEFINE notes(version) == [mem[d].notes EXCEPT ![n] = version]
             prev == mem[d].index
             new == count.minted + 1
  <1>1. PICK version \in Version :
              /\ version.clock > 0 /\ version # NoNote /\ version.digest = count.edits + 2
              /\ notes(version) \in Vault
              /\ BeginSave(d, notes(version), prev.purged)
              /\ written' = [written EXCEPT ![n] = @ \union {version}]
              /\ count'.edits = count.edits + 1 /\ count'.minted = count.minted + MintsOne(d, n)
    BY EditMeans
  <1>2. /\ save'[d].notes = notes(version)
        /\ save'[d].index = SplitVault(notes(version), prev, prev.purged)
        /\ \A e \in Devices : e # d => save'[e] = save[e]
        /\ UNCHANGED <<disk, objs, mem, cyc, cloud, cobjs, acked, stone, missed>>
        /\ count.minted \in 0 .. MaxObjects /\ count.minted < MaxObjects
        /\ prev \in SoundIndex /\ mem[d].notes \in Vault
        /\ Alone(d) /\ SettledOf(d)' = SettledOf(d)
    BY <1>1, BeginSaveMeans
  <1>3. \A m \in Notes : written'[m] = IF m = n THEN written[m] \union {version} ELSE written[m]
    BY <1>1 DEF IInv, Types
  <1>4. \A m \in Notes : notes(version)[m] = IF m = n THEN version ELSE mem[d].notes[m]
    BY <1>2 DEF Vault
  <1>5. MintsOne(d, n) = IF prev.notes[n] = NoEntry THEN 1 ELSE 0
    BY DEF MintsOne
  <1>6. ASSUME NEW o \in Objects, NEW m \in Notes, Uses(o, m)', ~ Uses(o, m)
        PROVE  o = new /\ m = n /\ prev.notes[n] = NoEntry
    <2> HIDE DEF notes
    <2>1. PICK i \in Indexes' : i.notes[m].obj = o
      BY <1>6 DEF Uses
    <2>2. ~ Keyed(i)
      BY <1>6, <2>1 DEF Keyed
    <2>3. i \notin Indexes /\ i \notin SettledOf(d)' /\ i # cloud'
      <3>1. cloud' = cloud /\ SettledOf(d)' \subseteq Settled
        BY <1>2, SettledMeans
      <3> QED
        BY <2>2, <3>1, SettledAreIndexes
    <2>4. i = save'[d].index
      BY <1>2, <2>3, IndexesMove
    <2>5. i.notes[m] # NoEntry
      BY <2>1, Sizes DEF NoEntry, Objects
    <2>6. /\ notes(version)[m] # NoNote
          /\ i.notes[m].obj = IF prev.notes[m] = NoEntry THEN new ELSE prev.notes[m].obj
      BY <1>1, <1>2, <2>4, <2>5, SplitVaultMeans
    <2>7. prev.notes[m] = NoEntry
      BY <1>6, <2>1, <2>6, SettledAreIndexes DEF Keyed
    <2>8. m = n
      BY <1>4, <2>6, <2>7 DEF Fresh
    <2> QED
      BY <2>1, <2>6, <2>7, <2>8
  <1>7. KeysApart
    BY DEF Data
  <1>8. count.minted \in Nat /\ count'.minted \in Nat /\ count.minted <= count'.minted
          /\ (prev.notes[n] = NoEntry => count'.minted = new)
    BY <1>1, <1>2, <1>5, Sizes
  <1> HIDE DEF notes, prev
  <1>9. KeysApart'
    <2>1. ASSUME NEW o \in Objects, NEW m \in Notes, NEW k \in Notes, Uses(o, m)', Uses(o, k)'
          PROVE  m = k
      <3>1. \A j \in Notes : Uses(o, j) => o <= count.minted
        BY <1>7 DEF KeysApart
      <3>2. o \in Nat
        BY Sizes DEF Objects
      <3> QED
        BY <1>6, <1>7, <1>8, <2>1, <3>1, <3>2 DEF KeysApart
    <2>2. ASSUME NEW o \in Objects, NEW m \in Notes, Uses(o, m)'
          PROVE  o <= count'.minted
      <3>1. o \in Nat
        BY Sizes DEF Objects
      <3>2. Uses(o, m) => o <= count.minted
        BY <1>7 DEF KeysApart
      <3> QED
        BY <1>6, <1>8, <2>2, <3>1, <3>2
    <2>3. ASSUME NEW o \in Objects, o > count'.minted
          PROVE  cobjs'[o] = NoNote /\ \A e \in Devices : objs'[e][o] = NoNote
      <3>1. o > count.minted
        BY <1>8, <2>3, Sizes DEF Objects
      <3> QED
        BY <1>2, <1>7, <3>1 DEF KeysApart
    <2> QED
      BY <2>1, <2>2, <2>3 DEF KeysApart
  <1>10. count.edits \in Nat
    BY Sizes DEF IInv, Types
  <1>11. VersionsApart'
    <2> SUFFICES ASSUME NEW m \in Notes
                 PROVE  /\ \A v \in written'[m] : v.clock > 0 /\ v.digest <= count'.edits + 1
                        /\ \A v, w \in written'[m] : v.digest = w.digest => v = w
                        /\ acked'[m] \in Copies(m)'
                        /\ stone'[m] > 0 => written'[m] # {}
      BY DEF VersionsApart
    <2>1. /\ \A v \in written[m] : v.clock > 0 /\ v.digest <= count.edits + 1 /\ v.digest \in Nat
          /\ \A v, w \in written[m] : v.digest = w.digest => v = w
          /\ acked[m] \in Copies(m)
          /\ stone[m] > 0 => written[m] # {}
      BY CopiesType, Sizes DEF Data, VersionsApart, Version, Digests
    <2>2. CASE m # n
      BY <1>1, <1>2, <1>3, <1>10, <2>1, <2>2 DEF Copies
    <2>3. CASE m = n
      <3>1. written'[m] = written[m] \union {version}
        BY <1>3, <2>3
      <3>2. /\ \A v \in written[m] : v.digest # version.digest
        BY <1>1, <1>10, <2>1
      <3> QED
        BY <1>1, <1>2, <1>10, <2>1, <3>1, <3>2 DEF Copies
    <2> QED
      BY <2>2, <2>3
  <1>12. \A m \in Notes : Copies(m) \subseteq Copies(m)' /\ written[m] \subseteq written'[m]
    BY <1>3 DEF Copies
  <1>13. CopiesAreWritten'
    <2>1. ASSUME NEW m \in Notes, NEW o \in Objects, Uses(o, m)'
          PROVE  /\ written'[m] # {} /\ cobjs'[o] \in Copies(m)'
                 /\ \A e \in Devices : objs'[e][o] \in Copies(m)'
      <3>1. CASE Uses(o, m)
        <4>1. /\ written[m] # {} /\ cobjs[o] \in Copies(m)
              /\ \A e \in Devices : objs[e][o] \in Copies(m)
          BY <3>1 DEF Data, CopiesAreWritten
        <4> QED
          BY <1>2, <1>12, <4>1
      <3>2. CASE ~ Uses(o, m)
        <4>1. o > count.minted /\ m = n
          BY <1>6, <1>8, <2>1, <3>2
        <4>2. cobjs[o] = NoNote /\ \A e \in Devices : objs[e][o] = NoNote
          BY <1>7, <4>1 DEF KeysApart
        <4>3. NoNote \in Copies(m)' /\ written'[m] # {}
          BY <1>3, <4>1 DEF Copies
        <4> QED
          BY <1>2, <4>2, <4>3
      <3> QED
        BY <3>1, <3>2
    <2>2. ASSUME NEW m \in Notes, NEW e \in Devices
          PROVE  /\ mem'[e].notes[m] \in Copies(m)' /\ save'[e].notes[m] \in Copies(m)'
                 /\ cyc'[e].fetched[m] \in Copies(m)'
      <3>1. /\ mem[e].notes[m] \in Copies(m)' /\ save[e].notes[m] \in Copies(m)'
            /\ cyc[e].fetched[m] \in Copies(m)'
        BY <1>12, VaultsAreCopies
      <3>2. notes(version)[m] \in Copies(m)'
        BY <1>3, <1>4, <1>12, VaultsAreCopies DEF Copies
      <3> QED
        BY <1>2, <3>1, <3>2
    <2> QED
      BY <2>1, <2>2 DEF CopiesAreWritten
  <1>14. EntriesAreAcked'
    <2> SUFFICES ASSUME NEW i \in Settled'
                 PROVE  Backed(i)'
      BY DEF EntriesAreAcked
    <2>1. i \in Settled
      BY <1>2, SettledMoves, SettledMeans
    <2>2. Backed(i)
      BY <2>1 DEF Data, EntriesAreAcked
    <2> QED
      BY <1>2, <1>12, <2>2 DEF Backed
  <1> QED
    BY <1>2, <1>9, <1>11, <1>13, <1>14 DEF Data

LEMMA PurgeMeans ==
    ASSUME IInv, NEW d \in Devices, NEW n \in Notes, Purge(d, n)
    PROVE  \E clock \in 0 .. MaxClock :
              /\ clock >= mem[d].notes[n].clock
              /\ mem[d].notes[n] # NoNote
              /\ [mem[d].notes EXCEPT ![n] = NoNote] \in Vault
              /\ BeginSave(d, [mem[d].notes EXCEPT ![n] = NoNote],
                           [mem[d].index.purged EXCEPT ![n] = clock])
              /\ count'.edits = count.edits + 1 /\ count'.minted = count.minted
              /\ written' = written
  <1>1. PICK clock \in mem[d].notes[n].clock .. MaxClock :
            BeginSave(d, [mem[d].notes EXCEPT ![n] = NoNote],
                      [mem[d].index.purged EXCEPT ![n] = clock])
    BY DEF Purge
  <1>2. mem[d].notes \in Vault /\ mem[d].notes[n].clock \in 0 .. MaxClock
    BY DEF IInv, Types, Memory, Vault, Version
  <1>3. clock \in 0 .. MaxClock /\ clock >= mem[d].notes[n].clock
    BY <1>1, <1>2, Sizes
  <1>4. [mem[d].notes EXCEPT ![n] = NoNote] \in Vault
    BY <1>2, Blanks DEF Vault
  <1>5. /\ count'.edits = count.edits + 1 /\ count'.minted = count.minted
        /\ written' = written /\ mem[d].notes[n] # NoNote
    BY DEF Purge, IInv, Types
  <1> QED
    BY <1>1, <1>3, <1>4, <1>5

LEMMA PurgeData ==
    ASSUME IInv, Data, NEW d \in Devices, Fresh(mem[d]), NEW n \in Notes, Purge(d, n)
    PROVE  Alone(d) /\ Data'
  <1> DEFINE notes == [mem[d].notes EXCEPT ![n] = NoNote]
             prev == mem[d].index
             purged(clock) == [prev.purged EXCEPT ![n] = clock]
  <1>1. PICK clock \in 0 .. MaxClock :
              /\ notes \in Vault
              /\ BeginSave(d, notes, purged(clock))
              /\ count'.edits = count.edits + 1 /\ count'.minted = count.minted
              /\ written' = written
    BY PurgeMeans
  <1>2. /\ save'[d].notes = notes
        /\ save'[d].index = SplitVault(notes, prev, purged(clock))
        /\ UNCHANGED <<disk, objs, mem, cyc, cloud, cobjs, acked, stone, missed>>
        /\ count.minted \in 0 .. MaxObjects /\ count.minted < MaxObjects
        /\ prev \in SoundIndex /\ mem[d].notes \in Vault
        /\ Alone(d) /\ SettledOf(d)' = SettledOf(d)
    BY <1>1, BeginSaveMeans
  <1>3. \A m \in Notes : notes[m] = NoNote \/ notes[m] = mem[d].notes[m]
    BY <1>2 DEF Vault
  <1> HIDE DEF notes, purged
  <1>4. Keyed(save'[d].index)
    <2> SUFFICES ASSUME NEW m \in Notes, NEW o \in Objects, save'[d].index.notes[m].obj = o
                 PROVE  Uses(o, m)
      BY DEF Keyed
    <2>1. save'[d].index.notes[m] # NoEntry
      BY Sizes DEF NoEntry, Objects
    <2>2. /\ notes[m] # NoNote
          /\ o = IF prev.notes[m] = NoEntry THEN count.minted + 1 ELSE prev.notes[m].obj
      BY <1>1, <1>2, <2>1, SplitVaultMeans
    <2>3. prev.notes[m] # NoEntry
      BY <1>3, <2>2 DEF Fresh
    <2> QED
      BY <2>2, <2>3, SettledAreIndexes DEF Keyed
  <1>5. \A m \in Notes : /\ mem'[d].notes[m] \in Copies(m)
                         /\ save'[d].notes[m] \in Copies(m)
                         /\ cyc'[d].fetched[m] \in Copies(m)
    BY <1>2, <1>3, VaultsAreCopies DEF Copies
  <1>6. Laid(cobjs', cobjs) /\ Laid(objs'[d], objs[d])
    BY <1>2 DEF Laid
  <1>7. count.edits \in Nat /\ \A i \in SettledOf(d)' : Keyed(i) /\ Backed(i)
    BY <1>2, Sizes, SettledMeans, BackedSettled DEF IInv, Types
  <1>8. Keyed(cloud') /\ Backed(cloud')
    BY <1>2, SettledAreIndexes, BackedSettled
  <1> QED
    BY <1>1, <1>2, <1>4, <1>5, <1>6, <1>7, <1>8, DataKept

\* A save ends: the index replaces the old one, and what it holds is acknowledged.
LEMMA SaveIndexMeans ==
    ASSUME IInv, NEW d \in Devices, SaveIndex(d)
    PROVE  /\ save[d].at = "index" /\ save'[d] = Free
           /\ disk'[d] = save[d].index
           /\ mem'[d].open /\ mem'[d].notes = save[d].notes /\ mem'[d].index = save[d].index
           /\ \A o \in Objects : /\ objs'[d][o] \in {objs[d][o], NoNote}
                                 /\ o \in Claimed(save[d].index) => objs'[d][o] = objs[d][o]
           /\ \A n \in Notes :
                 /\ save[d].notes[n] = NoNote \/ Reaches(acked[n], save[d].notes[n])
                       => acked'[n] = acked[n]
                 /\ save[d].notes[n] # NoNote /\ ~ Reaches(acked[n], save[d].notes[n])
                       => acked'[n] = save[d].notes[n]
                 /\ stone'[n] = Later(stone[n], save[d].index.purged[n])
                 /\ stone[n] <= stone'[n] /\ save[d].index.purged[n] <= stone'[n]
                 /\ Reaches(acked'[n], acked[n])
                 /\ save[d].notes[n] # NoNote => Reaches(acked'[n], save[d].notes[n])
           /\ Alone(d)
           /\ UNCHANGED <<cyc, cloud, cobjs, written, missed, count>>
  <1> DEFINE orphans == Claimed(mem[d].index) \ Claimed(save[d].index)
             store == [o \in Objects |-> IF o \in orphans THEN NoNote ELSE objs[d][o]]
             newest(n) == LET v == save[d].notes[n]
                          IN  IF v # NoNote /\ ResolveEntry(acked[n], v) = "remote"
                              THEN v ELSE acked[n]
  <1>1. /\ save[d].at = "index"
        /\ disk' = [disk EXCEPT ![d] = save[d].index]
        /\ objs' = [objs EXCEPT ![d] = store]
        /\ mem' = [mem EXCEPT ![d] = [open |-> TRUE, notes |-> save[d].notes,
                                      index |-> save[d].index]]
        /\ save' = [save EXCEPT ![d] = Free]
        /\ acked' = [n \in Notes |-> newest(n)]
        /\ stone' = [n \in Notes |-> Later(stone[n], save[d].index.purged[n])]
        /\ UNCHANGED <<cyc, cloud, cobjs, written, missed, count>>
    BY DEF SaveIndex
  <1>2. \A e \in Devices :
          /\ e # d => /\ disk'[e] = disk[e] /\ objs'[e] = objs[e] /\ mem'[e] = mem[e]
                      /\ save'[e] = save[e] /\ cyc'[e] = cyc[e]
    BY <1>1 DEF IInv, Types
  <1>3. /\ save'[d] = Free /\ disk'[d] = save[d].index /\ objs'[d] = store
        /\ mem'[d].open /\ mem'[d].notes = save[d].notes /\ mem'[d].index = save[d].index
    BY <1>1 DEF IInv, Types
  <1>4. \A o \in Objects : /\ objs'[d][o] \in {objs[d][o], NoNote}
                           /\ o \in Claimed(save[d].index) => objs'[d][o] = objs[d][o]
    BY <1>3
  <1>5. ASSUME NEW n \in Notes
        PROVE  /\ save[d].notes[n] = NoNote \/ Reaches(acked[n], save[d].notes[n])
                     => acked'[n] = acked[n]
               /\ save[d].notes[n] # NoNote /\ ~ Reaches(acked[n], save[d].notes[n])
                     => acked'[n] = save[d].notes[n]
               /\ stone'[n] = Later(stone[n], save[d].index.purged[n])
               /\ stone[n] <= stone'[n] /\ save[d].index.purged[n] <= stone'[n]
               /\ Reaches(acked'[n], acked[n])
               /\ save[d].notes[n] # NoNote => Reaches(acked'[n], save[d].notes[n])
    <2> DEFINE v == save[d].notes[n]
    <2>1. /\ acked[n] \in Version /\ v \in Version
          /\ stone[n] \in 0 .. MaxClock /\ save[d].index.purged[n] \in 0 .. MaxClock
      BY DEF IInv, Types, Vault, Saving, SoundIndex
    <2>2. ResolveEntry(acked[n], v) = "remote" <=> ~ Reaches(acked[n], v)
      BY DEF Reaches, ResolveEntry
    <2>3. /\ acked'[n] = IF v # NoNote /\ ~ Reaches(acked[n], v) THEN v ELSE acked[n]
          /\ stone'[n] = Later(stone[n], save[d].index.purged[n])
      BY <1>1, <2>2
    <2>4. stone[n] <= stone'[n] /\ save[d].index.purged[n] <= stone'[n]
      BY <2>1, <2>3, Sizes DEF Later
    <2>5. Reaches(acked'[n], acked[n]) /\ (v # NoNote => Reaches(acked'[n], v))
      BY <2>1, <2>3, ReachesIsAnOrder
    <2> QED
      BY <2>3, <2>4, <2>5
  <1> QED
    BY <1>1, <1>2, <1>3, <1>4, <1>5 DEF Alone

LEMMA SaveIndexData ==
    ASSUME IInv, Data, NEW d \in Devices, SaveGoesOn(d), SaveIndex(d)
    PROVE  Alone(d) /\ Data'
  <1>1. /\ save[d].at = "index" /\ save'[d] = Free
        /\ disk'[d] = save[d].index
        /\ mem'[d].notes = save[d].notes /\ mem'[d].index = save[d].index
        /\ \A o \in Objects : objs'[d][o] \in {objs[d][o], NoNote}
        /\ Alone(d)
        /\ UNCHANGED <<cyc, cloud, cobjs, written, missed, count>>
    BY SaveIndexMeans
  <1>2. \A n \in Notes :
           /\ acked'[n] = acked[n] \/ (save[d].notes[n] # NoNote /\ acked'[n] = save[d].notes[n])
           /\ stone'[n] = Later(stone[n], save[d].index.purged[n])
           /\ stone[n] <= stone'[n] /\ save[d].index.purged[n] <= stone'[n]
           /\ Reaches(acked'[n], acked[n])
           /\ save[d].notes[n] # NoNote => Reaches(acked'[n], save[d].notes[n])
    BY SaveIndexMeans
  <1>3. \A n \in Notes : Whole(save[d], mem[d], n) /\ (n \notin missed => Onward(save[d], mem[d], n))
    BY <1>1 DEF SaveGoesOn
  <1>4. /\ save'[d].index = EmptyIndex /\ save'[d].notes = EmptyVault
    BY <1>1 DEF Free
  <1>5. \A i \in SettledOf(d)' : i \in Settled \/ i = save[d].index
    BY <1>1, SettledAreIndexes DEF SettledOf
  <1>6. \A n \in Notes : Copies(n)' = Copies(n)
    BY <1>1 DEF Copies
  <1>7. ASSUME NEW o \in Objects, NEW n \in Notes, Uses(o, n)'
        PROVE  Uses(o, n)
    <2>1. PICK i \in Indexes' : i.notes[n].obj = o
      BY <1>7 DEF Uses
    <2>2. Keyed(i)
      BY <1>1, <1>4, <1>5, IndexesMove, SettledAreIndexes, EmptyIsBacked
    <2> QED
      BY <2>1, <2>2 DEF Keyed
  <1>8. KeysApart'
    <2>1. \A e \in Devices, o \in Objects : objs'[e][o] \in {objs[e][o], NoNote}
      BY <1>1 DEF Alone
    <2> QED
      BY <1>1, <1>7, <2>1 DEF Data, KeysApart
  <1>9. VersionsApart'
    <2> SUFFICES ASSUME NEW n \in Notes
                 PROVE  acked'[n] \in Copies(n) /\ (stone'[n] > 0 => written[n] # {})
      BY <1>1, <1>6 DEF Data, VersionsApart
    <2>1. acked[n] \in Copies(n) /\ (stone[n] > 0 => written[n] # {})
      BY DEF Data, VersionsApart
    <2>2. acked'[n] \in Copies(n)
      BY <1>2, <2>1, VaultsAreCopies
    <2>3. stone'[n] > 0 => written[n] # {}
      BY <1>2, <1>3, <2>1 DEF Later, Whole
    <2> QED
      BY <2>2, <2>3
  <1>10. CopiesAreWritten'
    <2>1. ASSUME NEW n \in Notes, NEW o \in Objects, Uses(o, n)'
          PROVE  /\ written[n] # {} /\ cobjs[o] \in Copies(n)
                 /\ \A e \in Devices : objs'[e][o] \in Copies(n)
      <3>1. /\ written[n] # {} /\ cobjs[o] \in Copies(n) /\ NoNote \in Copies(n)
            /\ \A e \in Devices : objs[e][o] \in Copies(n)
        BY <1>7, <2>1 DEF Data, CopiesAreWritten, Copies
      <3> QED
        BY <1>1, <3>1 DEF Alone
    <2>2. ASSUME NEW n \in Notes, NEW e \in Devices
          PROVE  /\ mem'[e].notes[n] \in Copies(n) /\ save'[e].notes[n] \in Copies(n)
                 /\ cyc'[e].fetched[n] \in Copies(n)
      BY <1>1, <1>4, VaultsAreCopies DEF Alone
    <2> QED
      BY <1>1, <1>6, <2>1, <2>2 DEF CopiesAreWritten
  <1>11. EntriesAreAcked'
    <2> SUFFICES ASSUME NEW i \in Settled', NEW n \in Notes
                 PROVE  /\ i.purged[n] <= stone'[n]
                        /\ n \notin missed /\ i.notes[n] # NoEntry =>
                             /\ VersionOf(i.notes[n]) \in written[n]
                             /\ Reaches(acked'[n], VersionOf(i.notes[n]))
      BY <1>1 DEF EntriesAreAcked, Backed
    <2>1. i \in Settled \/ i = save[d].index
      BY <1>1, <1>5, SettledMoves, SettledAreIndexes
    <2>2. CASE i \in Settled
      <3>1. /\ i.purged[n] <= stone[n] /\ i.purged[n] \in 0 .. MaxClock
            /\ stone[n] \in 0 .. MaxClock /\ stone'[n] \in 0 .. MaxClock
        BY <2>2, BackedSettled, SettledSound, CopiesType, SaveIndexType DEF Backed, IInv, Types
      <3>2. i.purged[n] <= stone'[n]
        BY <1>2, <3>1, Sizes
      <3>3. ASSUME n \notin missed, i.notes[n] # NoEntry
            PROVE  /\ VersionOf(i.notes[n]) \in written[n]
                   /\ Reaches(acked'[n], VersionOf(i.notes[n]))
        <4>1. /\ VersionOf(i.notes[n]) \in written[n]
              /\ Reaches(acked[n], VersionOf(i.notes[n]))
          BY <2>2, <3>3, BackedSettled DEF Backed
        <4>2. acked[n] \in Version /\ acked'[n] \in Version /\ VersionOf(i.notes[n]) \in Version
          BY <4>1, CopiesType, SaveIndexType DEF IInv, Types, Vault
        <4> QED
          BY <1>2, <4>1, <4>2, ReachesIsAnOrder
      <3> QED
        BY <3>2, <3>3
    <2>3. CASE i = save[d].index
      <3>1. i.purged[n] <= stone'[n]
        BY <1>2, <2>3
      <3>2. ASSUME n \notin missed, i.notes[n] # NoEntry
            PROVE  /\ VersionOf(i.notes[n]) \in written[n]
                   /\ Reaches(acked'[n], VersionOf(i.notes[n]))
        <4>1. save[d].notes[n] # NoNote /\ VersionOf(i.notes[n]) = save[d].notes[n]
          BY <1>3, <2>3, <3>2 DEF Whole, Onward
        <4>2. save[d].notes[n] \in written[n]
          BY <4>1, VaultsAreCopies DEF Copies
        <4> QED
          BY <1>2, <4>1, <4>2
      <3> QED
        BY <3>1, <3>2
    <2> QED
      BY <2>1, <2>2, <2>3
  <1> QED
    BY <1>1, <1>8, <1>9, <1>10, <1>11 DEF Data

----------------------------------------------------------------------------
(* Each device: its memory is fresh, its save goes on, its cycle is alone.  *)

LocalAt(d) == Fresh(mem[d]) /\ SaveGoesOn(d) /\ Alike(cyc[d], disk[d])

LEMMA LocalMeans ==
    Local <=> \A d \in Devices : LocalAt(d)
  BY DEF Local, LocalAt

\* What the acknowledged versions do in every step.
Rising ==
    /\ missed \subseteq missed'
    /\ \A n \in Notes : written[n] \subseteq written'[n] /\ Reaches(acked'[n], acked[n])

LEMMA RisingOf ==
    ASSUME IInv, missed \subseteq missed', acked' = acked,
           \A n \in Notes : written[n] \subseteq written'[n]
    PROVE  Rising
  BY CopiesType, ReachesIsAnOrder DEF Rising

LEMMA FreshKept ==
    ASSUME Rising, NEW m, Fresh(m)
    PROVE  Fresh(m)'
  BY DEF Rising, Fresh

LEMMA SaveKept ==
    ASSUME IInv, IInv', Data, Rising, NEW e \in Devices, SaveGoesOn(e),
           UNCHANGED <<save[e], mem[e], cyc[e].at, objs[e]>>
    PROVE  SaveGoesOn(e)'
  <1> SUFFICES ASSUME save[e].at # "free"
               PROVE  /\ mem[e].open /\ cyc[e].at = "idle"
                      /\ \A n \in Notes :
                            /\ Whole(save[e], mem[e], n)'
                            /\ n \notin missed' => /\ Onward(save[e], mem[e], n)'
                                                   /\ Stored(save[e], objs[e], n)'
    BY DEF SaveGoesOn
  <1>1. mem[e].open /\ cyc[e].at = "idle"
    BY DEF SaveGoesOn
  <1>2. ASSUME NEW n \in Notes
        PROVE  Whole(save[e], mem[e], n)'
    BY DEF SaveGoesOn, Rising, Whole
  <1>3. ASSUME NEW n \in Notes, n \notin missed'
        PROVE  Onward(save[e], mem[e], n)' /\ Stored(save[e], objs[e], n)'
    <2>1. Onward(save[e], mem[e], n) /\ Stored(save[e], objs[e], n)
      BY <1>3 DEF SaveGoesOn, Rising
    <2>2. Onward(save[e], mem[e], n)'
      BY <2>1 DEF Onward
    <2>3. /\ acked[n] \in Version /\ acked'[n] \in Version /\ save[e].notes[n] \in Version
          /\ Reaches(acked'[n], acked[n])
      BY DEF IInv, Types, Vault, Saving, Rising
    <2>4. Reaches(acked[n], save[e].notes[n]) => Reaches(acked'[n], save[e].notes[n])
      BY <2>3, ReachesIsAnOrder
    <2>5. Stored(save[e], objs[e], n)'
      BY <2>1, <2>4 DEF Stored, Reaches
    <2> QED
      BY <2>2, <2>5
  <1> QED
    BY <1>1, <1>2, <1>3

LEMMA LocalKept ==
    ASSUME IInv, IInv', Data, Local, NEW d \in Devices, Alone(d), Rising, LocalAt(d)'
    PROVE  Local'
  <1>1. ASSUME NEW e \in Devices, e # d
        PROVE  LocalAt(e)'
    <2>1. /\ disk'[e] = disk[e] /\ objs'[e] = objs[e] /\ mem'[e] = mem[e]
          /\ save'[e] = save[e] /\ cyc'[e] = cyc[e]
      BY <1>1 DEF Alone
    <2>2. LocalAt(e)
      BY LocalMeans
    <2>3. SaveGoesOn(e)'
      BY <2>1, <2>2, SaveKept DEF LocalAt
    <2>4. Fresh(mem[e])'
      BY <2>1, <2>2, FreshKept DEF LocalAt
    <2>5. Alike(cyc[e], disk[e])'
      BY <2>1, <2>2 DEF LocalAt, Alike
    <2> QED
      BY <2>3, <2>4, <2>5 DEF LocalAt
  <1> QED
    BY <1>1 DEF Local, LocalAt

\* Where the user does not save during a cycle, a device does one or the other.
LEMMA CycleLocal ==
    ASSUME IInv, IInv', Data, Local, NEW d \in Devices, Alone(d),
           UNCHANGED <<mem, save, written, acked>>, missed \subseteq missed',
           cyc[d].at # "idle" \/ save[d].at = "free",
           Alike(cyc'[d], disk'[d])
    PROVE  Local' /\ Rising
  <1>1. Rising
    BY RisingOf
  <1>2. LocalAt(d)
    BY LocalMeans
  <1>3. save[d].at = "free"
    BY <1>2 DEF LocalAt, SaveGoesOn
  <1>4. SaveGoesOn(d)'
    BY <1>3 DEF SaveGoesOn
  <1>5. Fresh(mem[d])'
    BY <1>1, <1>2, FreshKept DEF LocalAt
  <1>6. LocalAt(d)'
    BY <1>4, <1>5 DEF LocalAt, Alike
  <1> QED
    BY <1>1, <1>6, LocalKept

LEMMA LoadsLocal ==
    ASSUME IInv, IInv', Data, Local, NEW d \in Devices, NEW unread \in SUBSET Notes,
           Loads(d, unread), Alone(d)
    PROVE  Local' /\ Rising
  <1>1. /\ mem'[d] = LoadVault(d, unread) /\ save[d].at = "free"
        /\ missed' = missed \union unread \union Behind(d)
        /\ UNCHANGED <<disk, objs, save, cyc, written, acked>>
    BY DEF Loads, IInv, Types
  <1>2. Rising
    BY <1>1, RisingOf
  <1>3. ASSUME NEW n \in Notes
        PROVE  /\ mem'[d].index.notes[n] = disk[d].notes[n]
               /\ mem'[d].notes[n] = IF disk[d].notes[n] = NoEntry \/ n \in unread
                                     THEN NoNote ELSE objs[d][disk[d].notes[n].obj]
    BY <1>1 DEF LoadVault
  <1>4. ASSUME NEW n \in Notes, n \notin missed', disk[d].notes[n] # NoEntry
        PROVE  \/ mem'[d].notes[n].clock > disk[d].notes[n].clock
               \/ mem'[d].notes[n] = VersionOf(disk[d].notes[n])
    <2>1. n \notin unread /\ n \notin Behind(d)
      BY <1>1, <1>4
    <2>2. mem'[d].notes[n] = objs[d][disk[d].notes[n].obj]
      BY <1>3, <1>4, <2>1
    <2> QED
      BY <1>4, <2>1, <2>2 DEF Behind
  <1>5. Fresh(mem[d])'
    BY <1>3, <1>4 DEF Fresh
  <1>6. SaveGoesOn(d)' /\ Alike(cyc[d], disk[d])'
    BY <1>1, LocalMeans DEF LocalAt, SaveGoesOn, Alike
  <1> QED
    BY <1>2, <1>5, <1>6, LocalKept DEF LocalAt

LEMMA CrashLocal ==
    ASSUME IInv, IInv', Data, Local, NEW d \in Devices, Crash(d), Alone(d)
    PROVE  Local' /\ Rising
  <1>1. /\ mem'[d] = Shut /\ save'[d] = Free /\ cyc'[d] = Idle
        /\ missed \subseteq missed' /\ UNCHANGED <<written, acked>>
    BY DEF Crash, IInv, Types
  <1>2. Rising
    BY <1>1, RisingOf
  <1>3. Fresh(mem[d])'
    BY <1>1 DEF Shut, EmptyVault, EmptyIndex, Fresh
  <1>4. SaveGoesOn(d)' /\ Alike(cyc[d], disk[d])'
    BY <1>1 DEF SaveGoesOn, Alike, Free, Idle
  <1> QED
    BY <1>2, <1>3, <1>4, LocalKept DEF LocalAt

LEMMA EditLocal ==
    ASSUME Busy = FALSE, IInv, IInv', Data, Local, NEW d \in Devices, NEW n \in Notes, Edit(d, n)
    PROVE  Local' /\ Rising
  <1> DEFINE notes(version) == [mem[d].notes EXCEPT ![n] = version]
             prev == mem[d].index
  <1>1. PICK version \in Version :
              /\ version.clock > 0 /\ version # NoNote
              /\ version.clock > mem[d].notes[n].clock
              /\ mem[d].notes[n] # NoNote \/ written[n] = {}
              /\ notes(version) \in Vault
              /\ BeginSave(d, notes(version), prev.purged)
              /\ written' = [written EXCEPT ![n] = @ \union {version}]
    BY EditMeans
  <1>2. /\ mem[d].open /\ cyc[d].at = "idle"
        /\ save'[d].at = "objects" /\ save'[d].notes = notes(version)
        /\ save'[d].index = SplitVault(notes(version), prev, prev.purged)
        /\ UNCHANGED <<disk, objs, mem, cyc, acked, stone, missed>>
        /\ count.minted \in 0 .. MaxObjects /\ count.minted < MaxObjects
        /\ prev \in SoundIndex /\ mem[d].notes \in Vault
        /\ Alone(d)
    BY <1>1, BeginSaveMeans
  <1>3. \A m \in Notes : written[m] \subseteq written'[m]
    BY <1>1 DEF IInv, Types
  <1>4. \A m \in Notes : notes(version)[m] = IF m = n THEN version ELSE mem[d].notes[m]
    BY <1>2 DEF Vault
  <1> HIDE DEF notes
  <1>5. Rising
    BY <1>2, <1>3, RisingOf
  <1>6. LocalAt(d)
    BY LocalMeans
  <1>7. \A m \in Notes :
           /\ prev.purged[m] > 0 => written[m] # {}
           /\ prev.notes[m] \in Named /\ prev.notes[m] \in Entry
    <2>1. \A m \in Notes : /\ prev.purged[m] <= stone[m] /\ stone[m] \in 0 .. MaxClock
                           /\ prev.purged[m] \in 0 .. MaxClock
      BY BackedSettled, SettledAreIndexes, SettledSound, CopiesType DEF Backed
    <2>2. \A m \in Notes : prev.purged[m] > 0 => stone[m] > 0
      BY <2>1, Sizes
    <2> QED
      BY <1>2, <2>2, SettledSound DEF Data, VersionsApart
  <1>8. ASSUME NEW m \in Notes
        PROVE  Whole(save[d], mem[d], m)'
    <2>1. /\ save'[d].notes[m] # NoNote <=> save'[d].index.notes[m] # NoEntry
          /\ save'[d].index.purged = prev.purged
      BY <1>1, <1>2, SplitVaultMeans
    <2> QED
      BY <1>2, <1>3, <1>7, <2>1 DEF Whole
  <1>9. ASSUME NEW m \in Notes, m \notin missed'
        PROVE  Onward(save[d], mem[d], m)'
    <2> DEFINE v == notes(version)[m]
    <2>1. /\ v # NoNote => /\ save'[d].index.notes[m] # NoEntry
                           /\ save'[d].index.notes[m].obj =
                                IF prev.notes[m] = NoEntry THEN count.minted + 1
                                ELSE prev.notes[m].obj
                           /\ \/ prev.notes[m] = NoEntry
                              \/ v.clock > prev.notes[m].clock
                              \/ v = VersionOf(prev.notes[m])
                              => VersionOf(save'[d].index.notes[m]) = v
          /\ save'[d].notes[m] = v
      BY <1>1, <1>2, SplitVaultMeans
    <2>2. /\ mem[d].notes[m] # NoNote => prev.notes[m] # NoEntry
          /\ prev.notes[m] # NoEntry =>
                 /\ mem[d].notes[m] # NoNote
                 /\ mem[d].notes[m].clock >= prev.notes[m].clock
      BY <1>2, <1>6, <1>9, FreshMeans DEF LocalAt
    <2>3. /\ mem[d].notes[m] \in Version /\ v \in Version
          /\ mem[d].notes[m].clock \in Nat /\ v.clock \in Nat /\ prev.notes[m].clock \in Nat
      BY <1>1, <1>2, <1>7, Sizes DEF Vault, Version, Entry
    <2>4. prev.notes[m] # NoEntry =>
             /\ v # NoNote /\ Reaches(v, mem[d].notes[m])
             /\ v.clock > prev.notes[m].clock \/ v = VersionOf(prev.notes[m])
      <3>1. CASE m = n
        BY <1>1, <1>4, <2>2, <2>3, <3>1, ReachesIsAnOrder
      <3>2. CASE m # n
        <4>1. v = mem[d].notes[m]
          BY <1>4, <3>2
        <4>2. prev.notes[m] # NoEntry => v.clock > prev.notes[m].clock \/ v = VersionOf(prev.notes[m])
          BY <1>2, <1>6, <1>9, <4>1 DEF LocalAt, Fresh
        <4> QED
          BY <2>2, <2>3, <4>1, <4>2, ReachesIsAnOrder
      <3> QED
        BY <3>1, <3>2
    <2> HIDE DEF v
    <2> QED
      BY <1>2, <2>1, <2>4 DEF Onward, Reaches
  <1>10. \A m \in Notes : Stored(save[d], objs[d], m)'
    BY <1>2 DEF Stored
  <1>11. SaveGoesOn(d)'
    BY <1>2, <1>8, <1>9, <1>10 DEF SaveGoesOn
  <1>12. Fresh(mem[d])' /\ Alike(cyc[d], disk[d])'
    BY <1>2, <1>6 DEF LocalAt, Fresh, Alike
  <1> QED
    BY <1>2, <1>5, <1>11, <1>12, LocalKept DEF LocalAt

LEMMA PurgeLocal ==
    ASSUME Busy = FALSE, IInv, IInv', Data, Local, NEW d \in Devices, NEW n \in Notes, Purge(d, n)
    PROVE  Local' /\ Rising
  <1> DEFINE notes == [mem[d].notes EXCEPT ![n] = NoNote]
             prev == mem[d].index
             purged(clock) == [prev.purged EXCEPT ![n] = clock]
  <1>1. PICK clock \in 0 .. MaxClock :
              /\ clock >= mem[d].notes[n].clock
              /\ mem[d].notes[n] # NoNote
              /\ notes \in Vault
              /\ BeginSave(d, notes, purged(clock))
              /\ written' = written
    BY PurgeMeans
  <1>2. /\ mem[d].open /\ cyc[d].at = "idle"
        /\ save'[d].at = "objects" /\ save'[d].notes = notes
        /\ save'[d].index = SplitVault(notes, prev, purged(clock))
        /\ UNCHANGED <<disk, objs, mem, cyc, acked, stone, missed>>
        /\ count.minted \in 0 .. MaxObjects /\ count.minted < MaxObjects
        /\ prev \in SoundIndex /\ mem[d].notes \in Vault
        /\ Alone(d)
    BY <1>1, BeginSaveMeans
  <1>3. /\ \A m \in Notes : notes[m] = IF m = n THEN NoNote ELSE mem[d].notes[m]
        /\ \A m \in Notes : purged(clock)[m] = IF m = n THEN clock ELSE prev.purged[m]
    BY <1>2 DEF Vault, SoundIndex
  <1> HIDE DEF notes, purged
  <1>4. Rising
    BY <1>1, <1>2, RisingOf
  <1>5. LocalAt(d)
    BY LocalMeans
  <1>6. \A m \in Notes :
           /\ purged(clock)[m] > 0 => written[m] # {}
           /\ prev.notes[m] \in Named /\ prev.notes[m] \in Entry
    <2>1. \A m \in Notes : /\ prev.purged[m] <= stone[m] /\ stone[m] \in 0 .. MaxClock
                           /\ prev.purged[m] \in 0 .. MaxClock
      BY BackedSettled, SettledAreIndexes, SettledSound, CopiesType DEF Backed
    <2>2. \A m \in Notes : prev.purged[m] > 0 => stone[m] > 0
      BY <2>1, Sizes
    <2>3. written[n] # {}
      BY <1>1, VaultsAreCopies DEF Copies
    <2> QED
      BY <1>2, <1>3, <2>2, <2>3, SettledSound DEF Data, VersionsApart
  <1>7. ASSUME NEW m \in Notes
        PROVE  Whole(save[d], mem[d], m)'
    <2>1. /\ save'[d].notes[m] # NoNote <=> save'[d].index.notes[m] # NoEntry
          /\ save'[d].index.purged = purged(clock)
      BY <1>1, <1>2, SplitVaultMeans
    <2> QED
      BY <1>1, <1>2, <1>3, <1>6, <2>1 DEF Whole
  <1>8. ASSUME NEW m \in Notes, m \notin missed'
        PROVE  Onward(save[d], mem[d], m)'
    <2> DEFINE v == notes[m]
    <2>1. /\ v # NoNote => /\ save'[d].index.notes[m] # NoEntry
                           /\ save'[d].index.notes[m].obj =
                                IF prev.notes[m] = NoEntry THEN count.minted + 1
                                ELSE prev.notes[m].obj
                           /\ \/ prev.notes[m] = NoEntry
                              \/ v.clock > prev.notes[m].clock
                              \/ v = VersionOf(prev.notes[m])
                              => VersionOf(save'[d].index.notes[m]) = v
          /\ save'[d].notes[m] = v /\ save'[d].index.purged = purged(clock)
      BY <1>1, <1>2, SplitVaultMeans
    <2>2. /\ mem[d].notes[m] # NoNote => prev.notes[m] # NoEntry
          /\ prev.notes[m] # NoEntry => mem[d].notes[m] # NoNote
      BY <1>2, <1>5, <1>8, FreshMeans DEF LocalAt
    <2>3. mem[d].notes[m] \in Version
      BY <1>2 DEF Vault
    <2>4. CASE m = n
      BY <1>1, <1>2, <1>3, <2>1, <2>4 DEF Onward
    <2>5. CASE m # n
      <3>1. v = mem[d].notes[m]
        BY <1>3, <2>5
      <3>2. prev.notes[m] # NoEntry => v.clock > prev.notes[m].clock \/ v = VersionOf(prev.notes[m])
        BY <1>2, <1>5, <1>8, <3>1 DEF LocalAt, Fresh
      <3>3. prev.notes[m] # NoEntry => v # NoNote /\ Reaches(v, mem[d].notes[m])
        BY <2>2, <2>3, <3>1, ReachesIsAnOrder
      <3> HIDE DEF v
      <3> QED
        BY <1>2, <2>1, <3>2, <3>3 DEF Onward, Reaches
    <2> QED
      BY <2>4, <2>5
  <1>9. \A m \in Notes : Stored(save[d], objs[d], m)'
    BY <1>2 DEF Stored
  <1>10. SaveGoesOn(d)'
    BY <1>2, <1>7, <1>8, <1>9 DEF SaveGoesOn
  <1>11. Fresh(mem[d])' /\ Alike(cyc[d], disk[d])'
    BY <1>2, <1>5 DEF LocalAt, Fresh, Alike
  <1> QED
    BY <1>2, <1>4, <1>10, <1>11, LocalKept DEF LocalAt

\* The objects of a save: each rewritten note finds its version under its key.
LEMMA SaveObjectsMeans ==
    ASSUME IInv, Data, NEW d \in Devices, SaveObjects(d)
    PROVE  /\ save[d].at = "objects" /\ save'[d].at = "index"
           /\ save'[d].notes = save[d].notes /\ save'[d].index = save[d].index
           /\ \A o \in Objects, m \in Notes : Uses(o, m) =>
                 IF m \in Rewritten(save[d].index, mem[d].index) /\ save[d].index.notes[m].obj = o
                 THEN objs'[d][o] = save[d].notes[m] ELSE objs'[d][o] = objs[d][o]
           /\ UNCHANGED <<disk, mem, cyc, cloud, cobjs, written, acked, stone, missed, count>>
  <1> DEFINE changed == Rewritten(save[d].index, mem[d].index)
             store == [o \in Objects |->
                         IF \E n \in changed : save[d].index.notes[n].obj = o
                         THEN save[d].notes[CHOOSE n \in changed : save[d].index.notes[n].obj = o]
                         ELSE objs[d][o]]
  <1>1. /\ objs' = [objs EXCEPT ![d] = store]
        /\ save' = [save EXCEPT ![d].at = "index"]
        /\ save[d].at = "objects"
        /\ UNCHANGED <<disk, mem, cyc, cloud, cobjs, written, acked, stone, missed, count>>
    BY DEF SaveObjects, history
  <1>2. changed \in SUBSET Notes /\ KeysApart
    BY DEF Rewritten, Data
  <1> HIDE DEF changed
  <1>3. Keyed(save[d].index)
    BY SettledAreIndexes
  <1>4. ASSUME NEW o \in Objects, NEW m \in Notes, Uses(o, m)
        PROVE  /\ m \in changed /\ save[d].index.notes[m].obj = o => store[o] = save[d].notes[m]
               /\ ~ (m \in changed /\ save[d].index.notes[m].obj = o) => store[o] = objs[d][o]
    <2>1. \A n \in changed : save[d].index.notes[n].obj = o => n = m
      BY <1>2, <1>3, <1>4, OneOwner
    <2>2. ASSUME m \in changed, save[d].index.notes[m].obj = o
          PROVE  store[o] = save[d].notes[m]
      <3>1. (CHOOSE n \in changed : save[d].index.notes[n].obj = o) = m
        BY <2>1, <2>2
      <3> QED
        BY <2>2, <3>1
    <2>3. ASSUME ~ (m \in changed /\ save[d].index.notes[m].obj = o)
          PROVE  store[o] = objs[d][o]
      BY <2>1, <2>3
    <2> QED
      BY <2>2, <2>3
  <1> HIDE DEF store
  <1>5. /\ objs'[d] = store /\ save'[d].at = "index"
        /\ save'[d].notes = save[d].notes /\ save'[d].index = save[d].index
    BY <1>1 DEF IInv, Types, Saving
  <1> QED
    BY <1>1, <1>4, <1>5 DEF changed

LEMMA SaveObjectsLocal ==
    ASSUME IInv, IInv', Data, Local, NEW d \in Devices, SaveObjects(d), Alone(d)
    PROVE  Local' /\ Rising
  <1> DEFINE new == save[d].index
             prev == mem[d].index
  <1>1. /\ save[d].at = "objects" /\ save'[d].at = "index"
        /\ save'[d].notes = save[d].notes /\ save'[d].index = new
        /\ UNCHANGED <<disk, mem, cyc, written, acked, stone, missed>>
    BY SaveObjectsMeans
  <1>2. Rising
    BY <1>1, RisingOf
  <1>3. LocalAt(d)
    BY LocalMeans
  <1>4. /\ mem[d].open /\ cyc[d].at = "idle"
        /\ \A n \in Notes : /\ Whole(save[d], mem[d], n)
                            /\ n \notin missed => Onward(save[d], mem[d], n)
    BY <1>1, <1>3 DEF LocalAt, SaveGoesOn
  <1>5. ASSUME NEW n \in Notes
        PROVE  Whole(save[d], mem[d], n)'
    BY <1>1, <1>4 DEF Whole
  <1>6. ASSUME NEW n \in Notes, n \notin missed
        PROVE  Onward(save[d], mem[d], n)'
    BY <1>1, <1>4, <1>6 DEF Onward, Reaches
  <1>7. ASSUME NEW n \in Notes, n \notin missed, save[d].notes[n] # NoNote,
               ~ Reaches(acked[n], save[d].notes[n])
        PROVE  objs'[d][new.notes[n].obj] = save[d].notes[n]
    <2> DEFINE v == save[d].notes[n]
    <2>1. new.notes[n] # NoEntry /\ VersionOf(new.notes[n]) = v
      BY <1>4, <1>7 DEF Whole, Onward
    <2>2. new.notes[n].obj \in Objects /\ Uses(new.notes[n].obj, n)
      BY <2>1, SettledAreIndexes, ObjectIsCopy
    <2>3. CASE n \in Rewritten(new, prev)
      BY <2>2, <2>3, SaveObjectsMeans
    <2>4. CASE n \notin Rewritten(new, prev)
      <3>1. new.notes[n].obj = prev.notes[n].obj /\ new.notes[n].digest = prev.notes[n].digest
        BY <2>1, <2>4 DEF Rewritten
      <3>2. prev.notes[n] # NoEntry
        BY <2>2, <3>1, SettledSound, SettledAreIndexes, EntryHasKey
      <3>3. VersionOf(prev.notes[n]) \in written[n] /\ Reaches(acked[n], VersionOf(prev.notes[n]))
        BY <1>7, <3>2, SettledAreIndexes, BackedSettled DEF Backed
      <3>4. v \in written[n]
        BY <1>7, VaultsAreCopies DEF Copies
      <3>5. v.digest = VersionOf(prev.notes[n]).digest
        BY <2>1, <3>1 DEF VersionOf
      <3>6. v = VersionOf(prev.notes[n])
        BY <3>3, <3>4, <3>5 DEF Data, VersionsApart
      <3> QED
        BY <1>7, <3>3, <3>6
    <2> QED
      BY <2>3, <2>4
  <1>8. \A n \in Notes : n \notin missed' => Stored(save[d], objs[d], n)'
    BY <1>1, <1>7 DEF Stored, Reaches
  <1>9. SaveGoesOn(d)'
    BY <1>1, <1>4, <1>5, <1>6, <1>8 DEF SaveGoesOn
  <1>10. Fresh(mem[d])' /\ Alike(cyc[d], disk[d])'
    BY <1>1, <1>3 DEF LocalAt, Fresh, Alike
  <1> QED
    BY <1>2, <1>9, <1>10, LocalKept DEF LocalAt

LEMMA SaveIndexLocal ==
    ASSUME IInv, IInv', Data, Local, NEW d \in Devices, SaveIndex(d)
    PROVE  Local' /\ Rising
  <1>1. /\ save[d].at = "index" /\ save'[d] = Free /\ Alone(d)
        /\ mem'[d].notes = save[d].notes /\ mem'[d].index = save[d].index
        /\ UNCHANGED <<cyc, written, missed>>
        /\ \A n \in Notes : Reaches(acked'[n], acked[n])
    BY SaveIndexMeans
  <1>2. Rising
    BY <1>1 DEF Rising
  <1>3. /\ cyc[d].at = "idle"
        /\ \A n \in Notes : /\ Whole(save[d], mem[d], n)
                            /\ n \notin missed => Onward(save[d], mem[d], n)
    BY <1>1, LocalMeans DEF LocalAt, SaveGoesOn
  <1>4. Fresh(mem[d])'
    BY <1>1, <1>3 DEF Fresh, Whole, Onward
  <1>5. SaveGoesOn(d)' /\ Alike(cyc[d], disk[d])'
    BY <1>1, <1>3 DEF SaveGoesOn, Alike, Free
  <1> QED
    BY <1>1, <1>2, <1>4, <1>5, LocalKept DEF LocalAt

LEMMA CycleStepLocal ==
    ASSUME Busy = FALSE, IInv, IInv', Data, Local, NEW d \in Devices, CycleStep(d), Alone(d)
    PROVE  Local' /\ Rising
  <1>1. Alike(cyc[d], disk[d]) /\ cyc[d] \in Cycle /\ cyc \in [Devices -> Cycle]
    BY DEF Local, IInv, Types
  <1>2. CASE CycleStart(d)
    <2>1. /\ save[d].at = "free" /\ cyc'[d].local = disk'[d] /\ missed \subseteq missed'
          /\ UNCHANGED <<mem, save, written, acked>>
      BY <1>1, <1>2 DEF CycleStart, history, Idle
    <2> QED
      BY <2>1, CycleLocal DEF Alike
  <1>3. CASE PutIndex(d)
    <2>1. /\ cyc[d].at = "transfer" /\ cyc'[d].local = cyc[d].local /\ missed \subseteq missed'
          /\ UNCHANGED <<disk, mem, save, written, acked>>
      BY <1>1, <1>3 DEF PutIndex, Transferred, Descended, history, Cycle
    <2> QED
      BY <1>1, <2>1, CycleLocal DEF Alike
  <1>4. CASE CycleFails(d)
    <2>1. /\ cyc[d].at = "transfer" /\ cyc'[d].at = "idle" /\ missed \subseteq missed'
          /\ UNCHANGED <<mem, save, written, acked>>
      BY <1>1, <1>4 DEF CycleFails, Transferred, Descended, history, Idle
    <2> QED
      BY <2>1, CycleLocal DEF Alike
  <1>5. CASE WriteNotes(d)
    <2>1. /\ cyc[d].at = "notes" /\ cyc'[d].local = cyc[d].local /\ missed \subseteq missed'
          /\ UNCHANGED <<disk, mem, save, written, acked>>
      BY <1>1, <1>5 DEF WriteNotes, history, Cycle
    <2> QED
      BY <1>1, <2>1, CycleLocal DEF Alike
  <1>6. CASE WriteIndex(d)
    <2>1. /\ cyc[d].at = "rekey" /\ cyc'[d].at = "sweep" /\ missed \subseteq missed'
          /\ UNCHANGED <<mem, save, written, acked>>
      BY <1>1, <1>6 DEF WriteIndex, history, Cycle
    <2> QED
      BY <2>1, CycleLocal DEF Alike
  <1>7. CASE Sweep(d)
    <2>1. /\ cyc[d].at = "sweep" /\ cyc'[d].at = "idle" /\ missed \subseteq missed'
          /\ UNCHANGED <<mem, save, written, acked>>
      BY <1>1, <1>7 DEF Sweep, history, Idle
    <2> QED
      BY <2>1, CycleLocal DEF Alike
  <1>8. ASSUME NEW n \in Notes, Rekey(d, n)
        PROVE  Local' /\ Rising
    <2>1. /\ cyc[d].at = "rekey" /\ cyc'[d].local = cyc[d].local /\ missed \subseteq missed'
          /\ UNCHANGED <<disk, mem, save, written, acked>>
      BY <1>8, RekeyMeans
    <2> QED
      BY <1>1, <2>1, CycleLocal DEF Alike
  <1>9. ASSUME NEW n \in Notes, GetNote(d, n) \/ PutNote(d, n) \/ TransferFails(d, n)
        PROVE  Local' /\ Rising
    <2>1. /\ cyc[d].at = "transfer" /\ missed \subseteq missed'
          /\ UNCHANGED <<disk, mem, save, written, acked>>
      BY <1>9 DEF GetNote, PutNote, TransferFails, Descended, history
    <2>2. cyc'[d].local = cyc[d].local
      <3>1. CASE GetNote(d, n)
        BY <1>1, <3>1 DEF GetNote, Cycle
      <3>2. CASE PutNote(d, n)
        BY <1>1, <3>2 DEF PutNote, Cycle
      <3>3. CASE TransferFails(d, n)
        BY <1>1, <3>3 DEF TransferFails, Cycle
      <3> QED
        BY <1>9, <3>1, <3>2, <3>3
    <2> QED
      BY <1>1, <2>1, <2>2, CycleLocal DEF Alike
  <1> QED
    BY <1>2, <1>3, <1>4, <1>5, <1>6, <1>7, <1>8, <1>9 DEF CycleStep

----------------------------------------------------------------------------
(* A device that holds the newest version keeps it.                         *)

\* The newest acknowledged version of n outlives the purges that were acknowledged.
Alive(n) == n \notin missed /\ acked[n].clock > stone[n]

LEMMA AliveMeans ==
    ASSUME IInv, Data, NEW n \in Notes, Alive(n)
    PROVE  /\ acked[n] \in Version /\ acked[n] # NoNote /\ acked[n] \in written[n]
           /\ acked[n].clock > 0 /\ acked[n].clock \in Nat /\ NoNote.clock = 0
           /\ ~ Reaches(NoNote, acked[n])
  <1>1. acked[n] \in Version /\ stone[n] \in Nat /\ acked[n].clock \in Nat /\ NoNote.clock = 0
    BY CopiesType, Sizes DEF Version
  <1>2. acked[n].clock > 0
    BY <1>1 DEF Alive
  <1>3. ~ Reaches(NoNote, acked[n])
    BY <1>1, <1>2, Blanks, ReachesIsAnOrder
  <1> QED
    BY <1>1, <1>2, <1>3 DEF Data, VersionsApart, Copies

LEMMA HomeMeans ==
    ASSUME IInv, Data, NEW d \in Devices, NEW n \in Notes, Home(d, n)
    PROVE  LET e == disk[d].notes[n]
           IN  /\ e # NoEntry /\ e \in Entry /\ VersionOf(e) = acked[n]
               /\ e.obj \in Objects /\ Uses(e.obj, n)
               /\ e.clock = acked[n].clock
  <1>1. disk[d].notes[n] # NoEntry /\ VersionOf(disk[d].notes[n]) = acked[n]
    BY DEF Home, HomeAt
  <1>2. disk[d].notes[n] \in Entry
    BY SettledSound, SettledAreIndexes
  <1> QED
    BY <1>1, <1>2, SettledAreIndexes, ObjectIsCopy, VersionOfType

\* Only the device that moves can stop being a home.
LEMMA HomeKept ==
    ASSUME IInv, HomeExists, NEW d \in Devices, Alone(d), missed \subseteq missed',
           UNCHANGED <<acked, stone>>,
           \A n \in Notes : Alive(n) /\ n \notin missed' /\ Home(d, n) => Home(d, n)'
    PROVE  HomeExists'
  <1> SUFFICES ASSUME NEW n \in Notes \ missed', acked[n].clock > stone[n]
               PROVE  \E e \in Devices : Home(e, n)'
    BY DEF HomeExists
  <1>1. Alive(n)
    BY DEF Alive
  <1>2. PICK e \in Devices : Home(e, n)
    BY <1>1 DEF HomeExists, Alive
  <1>3. CASE e = d
    BY <1>1, <1>2, <1>3
  <1>4. CASE e # d
    BY <1>2, <1>4 DEF Home, Alone
  <1> QED
    BY <1>3, <1>4

LEMMA HomeUndisturbed ==
    ASSUME HomeExists, UNCHANGED <<disk, objs, mem, cyc, acked, stone, missed>>
    PROVE  HomeExists'
  BY DEF HomeExists, Home

LEMMA LoadsHome ==
    ASSUME IInv, Data, HomeExists, NEW d \in Devices, NEW unread \in SUBSET Notes,
           Loads(d, unread), Alone(d)
    PROVE  HomeExists'
  <1>1. /\ mem'[d] = LoadVault(d, unread)
        /\ missed' = missed \union unread \union Behind(d)
        /\ UNCHANGED <<disk, objs, cyc, acked, stone>>
    BY DEF Loads, IInv, Types
  <1>2. mem'[d].index = disk[d]
    BY <1>1 DEF LoadVault
  <1>3. ASSUME NEW n \in Notes, Alive(n), n \notin missed', Home(d, n)
        PROVE  Home(d, n)'
    <2> DEFINE e == disk[d].notes[n]
    <2>1. /\ e # NoEntry /\ e \in Entry /\ VersionOf(e) = acked[n]
          /\ e.clock = acked[n].clock
      BY <1>3, HomeMeans
    <2>2. /\ acked[n] # NoNote /\ acked[n].clock > 0 /\ acked[n].clock \in Nat
          /\ NoNote.clock = 0
      BY <1>3, AliveMeans
    <2>3. objs[d][e.obj] # NoNote
      <3>1. n \notin Behind(d)
        BY <1>1, <1>3
      <3> QED
        BY <2>1, <2>2, <3>1 DEF Behind
    <2>4. ~ Moved(cyc[d], n)
      BY <1>3, <2>3 DEF Home, HomeAt
    <2>5. HomeAt(disk[d], objs[d], mem'[d], cyc[d], acked[n], n)
      BY <1>2, <1>3, <2>1, <2>4 DEF Home, HomeAt
    <2> QED
      BY <1>1, <2>5 DEF Home
  <1> QED
    BY <1>1, <1>3, HomeKept

LEMMA CrashHome ==
    ASSUME IInv, Data, HomeExists, NEW d \in Devices, Crash(d), Alone(d)
    PROVE  HomeExists'
  <1>1. /\ mem'[d] = Shut /\ cyc'[d] = Idle /\ missed' = missed \union Halfway(d)
        /\ UNCHANGED <<disk, objs, acked, stone>>
    BY DEF Crash, IInv, Types
  <1>2. ~ Shut.open /\ Idle.at = "idle"
    BY DEF Shut, Idle
  <1>3. ASSUME NEW n \in Notes, Alive(n), n \notin missed', Home(d, n)
        PROVE  Home(d, n)'
    <2>1. objs[d][disk[d].notes[n].obj] # NoNote
      BY <1>1, <1>3, HomeMeans DEF Halfway
    <2>2. ~ Moved(cyc[d], n)
      BY <1>3, <2>1 DEF Home, HomeAt
    <2>3. HomeAt(disk[d], objs[d], Shut, Idle, acked[n], n)
      BY <1>2, <1>3, <2>2 DEF Home, HomeAt, Moved
    <2> QED
      BY <1>1, <2>3 DEF Home
  <1> QED
    BY <1>1, <1>3, HomeKept

\* A vault that is open on the home of a note holds the version, or a better one.
LEMMA HomeMemory ==
    ASSUME IInv, Data, NEW d \in Devices, LocalAt(d), mem[d].open, NEW n \in Notes,
           Alive(n), Home(d, n)
    PROVE  /\ mem[d].index.notes[n] # NoEntry
           /\ mem[d].index.notes[n].obj = disk[d].notes[n].obj
           /\ mem[d].notes[n] \in Version /\ Reaches(mem[d].notes[n], acked[n])
           /\ mem[d].notes[n].clock >= acked[n].clock
  <1>1. /\ mem[d].index.notes[n].obj = disk[d].notes[n].obj
        /\ VersionOf(mem[d].index.notes[n]) = acked[n]
    BY DEF Home, HomeAt
  <1>2. /\ mem[d].index.notes[n] \in Named /\ mem[d].index.notes[n] \in Entry
        /\ mem[d].notes[n] \in Version
    BY SettledSound, SettledAreIndexes DEF IInv, Types, Memory, Vault
  <1>3. mem[d].index.notes[n] # NoEntry
    BY <1>1, <1>2, HomeMeans, EntryHasKey
  <1>4. mem[d].index.notes[n].clock = acked[n].clock
    BY <1>1, <1>2, VersionOfType
  <1> QED
    BY <1>1, <1>2, <1>3, <1>4, FreshMeans DEF LocalAt, Alive

LEMMA SaveObjectsHome ==
    ASSUME IInv, IInv', Data, Local, HomeExists, NEW d \in Devices, SaveObjects(d), Alone(d)
    PROVE  HomeExists'
  <1>1. /\ save[d].at = "objects"
        /\ UNCHANGED <<disk, mem, cyc, acked, stone, missed>>
    BY SaveObjectsMeans
  <1>2. LocalAt(d)
    BY LocalMeans
  <1>3. /\ mem[d].open /\ cyc[d].at = "idle"
        /\ \A n \in Notes \ missed : Onward(save[d], mem[d], n)
        /\ \A n \in Notes : Whole(save[d], mem[d], n)
    BY <1>1, <1>2 DEF LocalAt, SaveGoesOn
  <1>4. ASSUME NEW n \in Notes, Alive(n), Home(d, n)
        PROVE  Home(d, n)'
    <2> DEFINE o == disk[d].notes[n].obj
    <2>1. o \in Objects /\ Uses(o, n) /\ Reaches(objs[d][o], acked[n])
      BY <1>3, <1>4, HomeMeans DEF Home, HomeAt, Moved
    <2>2. /\ mem[d].index.notes[n] # NoEntry
          /\ mem[d].notes[n] \in Version /\ Reaches(mem[d].notes[n], acked[n])
      BY <1>2, <1>3, <1>4, HomeMemory
    <2>3. save[d].notes[n] # NoNote => Reaches(save[d].notes[n], acked[n])
      <3>1. save[d].notes[n] \in Version /\ acked[n] \in Version
        BY CopiesType DEF IInv, Types, Saving, Vault
      <3>2. save[d].notes[n] # NoNote => Reaches(save[d].notes[n], mem[d].notes[n])
        BY <1>3, <1>4, <2>2 DEF Onward, Alive
      <3> QED
        BY <2>2, <3>1, <3>2, ReachesIsAnOrder
    <2>4. Reaches(objs'[d][o], acked[n])
      <3>1. CASE n \in Rewritten(save[d].index, mem[d].index) /\ save[d].index.notes[n].obj = o
        <4>1. save[d].notes[n] # NoNote
          BY <1>3, <3>1 DEF Rewritten, Whole
        <4>2. objs'[d][o] = save[d].notes[n]
          BY <2>1, <3>1, SaveObjectsMeans
        <4> QED
          BY <2>3, <4>1, <4>2
      <3>2. CASE ~ (n \in Rewritten(save[d].index, mem[d].index) /\ save[d].index.notes[n].obj = o)
        <4>1. objs'[d][o] = objs[d][o]
          BY <2>1, <3>2, SaveObjectsMeans
        <4> QED
          BY <2>1, <4>1
      <3> QED
        BY <3>1, <3>2
    <2>5. HomeAt(disk[d], objs'[d], mem[d], cyc[d], acked[n], n)
      BY <1>3, <1>4, <2>4 DEF Home, HomeAt, Moved
    <2> QED
      BY <1>1, <2>5 DEF Home
  <1> QED
    BY <1>1, <1>4, HomeKept

LEMMA SaveIndexHome ==
    ASSUME IInv, IInv', Data, Local, HomeExists, NEW d \in Devices, SaveIndex(d)
    PROVE  HomeExists'
  <1>1. /\ save[d].at = "index" /\ Alone(d)
        /\ disk'[d] = save[d].index
        /\ mem'[d].open /\ mem'[d].index = save[d].index
        /\ \A o \in Objects : o \in Claimed(save[d].index) => objs'[d][o] = objs[d][o]
        /\ UNCHANGED <<cyc, missed>>
    BY SaveIndexMeans
  <1>2. LocalAt(d)
    BY LocalMeans
  <1>3. /\ mem[d].open /\ cyc[d].at = "idle"
        /\ \A n \in Notes : Whole(save[d], mem[d], n)
        /\ \A n \in Notes \ missed : Onward(save[d], mem[d], n) /\ Stored(save[d], objs[d], n)
    BY <1>1, <1>2 DEF LocalAt, SaveGoesOn
  <1> SUFFICES ASSUME NEW n \in Notes \ missed, acked'[n].clock > stone'[n]
               PROVE  \E e \in Devices : Home(e, n)'
    BY <1>1 DEF HomeExists
  <1> DEFINE v == save[d].notes[n]
             e == save[d].index.notes[n]
  <1>4. /\ v = NoNote \/ Reaches(acked[n], v) => acked'[n] = acked[n]
        /\ v # NoNote /\ ~ Reaches(acked[n], v) => acked'[n] = v
        /\ stone[n] <= stone'[n] /\ save[d].index.purged[n] <= stone'[n]
    BY SaveIndexMeans
  <1>5. Whole(save[d], mem[d], n) /\ Onward(save[d], mem[d], n) /\ Stored(save[d], objs[d], n)
    BY <1>3
  <1>6. v \in Version /\ acked[n] \in Version
    BY CopiesType DEF IInv, Types, Saving, Vault
  <1>7. v # NoNote => e.obj \in Objects /\ objs'[d][e.obj] = objs[d][e.obj]
                      /\ e # NoEntry /\ VersionOf(e) = v
    <2> SUFFICES ASSUME v # NoNote
                 PROVE  e.obj \in Objects /\ objs'[d][e.obj] = objs[d][e.obj]
                        /\ e # NoEntry /\ VersionOf(e) = v
      OBVIOUS
    <2>1. e # NoEntry /\ VersionOf(e) = v
      BY <1>5 DEF Whole, Onward
    <2>2. e.obj \in Objects
      BY <2>1, SettledAreIndexes, ObjectIsCopy
    <2> QED
      BY <1>1, <2>1, <2>2 DEF Claimed
  <1>8. ASSUME v # NoNote, acked'[n] = v, Reaches(objs[d][e.obj], v)
        PROVE  Home(d, n)'
    <2>1. HomeAt(disk'[d], objs'[d], mem'[d], cyc[d], v, n)
      BY <1>1, <1>3, <1>7, <1>8 DEF HomeAt, Moved
    <2> QED
      BY <1>1, <1>8, <2>1 DEF Home
  <1>9. CASE v # NoNote /\ ~ Reaches(acked[n], v)
    <2>1. objs[d][e.obj] = v
      BY <1>1, <1>5, <1>9 DEF Stored
    <2> QED
      BY <1>4, <1>6, <1>8, <1>9, <2>1, ReachesIsAnOrder
  <1>10. CASE v = NoNote \/ Reaches(acked[n], v)
    <2>1. acked'[n] = acked[n]
      BY <1>4, <1>10
    <2>2. Alive(n) /\ ~ save[d].index.purged[n] >= acked[n].clock
      <3>1. /\ stone[n] \in Nat /\ stone'[n] \in Nat /\ acked[n].clock \in Nat
            /\ save[d].index.purged[n] \in Nat
        BY <1>6, Sizes DEF IInv, Types, Version, Saving, SoundIndex
      <3> QED
        BY <1>4, <2>1, <3>1 DEF Alive
    <2>3. PICK h \in Devices : Home(h, n)
      BY <2>2 DEF HomeExists, Alive
    <2>4. CASE h # d
      BY <1>1, <2>1, <2>3, <2>4 DEF Home, Alone
    <2>5. CASE h = d
      <3>1. /\ mem[d].index.notes[n] # NoEntry
            /\ mem[d].index.notes[n].obj = disk[d].notes[n].obj
            /\ mem[d].notes[n] \in Version /\ Reaches(mem[d].notes[n], acked[n])
            /\ mem[d].notes[n].clock >= acked[n].clock
        BY <1>2, <1>3, <2>2, <2>3, <2>5, HomeMemory
      <3>2. v # NoNote /\ e.obj = disk[d].notes[n].obj /\ Reaches(v, mem[d].notes[n])
        <4>1. ~ save[d].index.purged[n] >= mem[d].notes[n].clock
          <5>1. /\ acked[n].clock \in Nat /\ mem[d].notes[n].clock \in Nat
                /\ save[d].index.purged[n] \in Nat
            BY <1>6, <3>1, Sizes DEF IInv, Types, Version, Saving, SoundIndex
          <5> QED
            BY <2>2, <3>1, <5>1
        <4> QED
          BY <1>5, <3>1, <4>1 DEF Onward
      <3>3. v = acked[n]
        BY <1>6, <1>10, <3>1, <3>2, ReachesIsAnOrder
      <3>4. Reaches(objs[d][disk[d].notes[n].obj], acked[n])
        BY <1>3, <2>3, <2>5 DEF Home, HomeAt, Moved
      <3> QED
        BY <1>8, <2>1, <3>2, <3>3, <3>4
    <2> QED
      BY <2>4, <2>5
  <1> QED
    BY <1>9, <1>10

\* A cycle that has not reached the disk, or has left it.
LEMMA RestsHome ==
    ASSUME IInv, HomeExists, NEW d \in Devices, Alone(d), missed \subseteq missed',
           UNCHANGED <<disk, objs, mem, acked, stone>>,
           cyc[d].at # "rekey", cyc'[d].at \in {"idle", "transfer"}
    PROVE  HomeExists'
  <1>1. ASSUME NEW n \in Notes, Home(d, n)
        PROVE  Home(d, n)'
    <2>1. HomeAt(disk[d], objs[d], mem[d], cyc'[d], acked[n], n)
      BY <1>1 DEF Home, HomeAt, Moved
    <2> QED
      BY <2>1 DEF Home
  <1> QED
    BY <1>1, HomeKept

\* On the home of a note the merge keeps the version, and does not fetch it.
LEMMA HomeMerge ==
    ASSUME IInv, Data, NEW d \in Devices, NEW n \in Notes, Alive(n), Home(d, n),
           cyc[d].local = disk[d]
    PROVE  LET l == cyc[d].local
               r == cyc[d].remote
               m == MergedEntry(l, r, n)
           IN  /\ l \in SoundIndex /\ r \in SoundIndex
               /\ n \notin PurgedOut(l, r) /\ n \notin ToFetch(l, r)
               /\ m # NoEntry /\ m \in Named /\ VersionOf(m) = acked[n]
               /\ Merged(l, r).notes[n] = m
               /\ r.notes[n] # NoEntry => m.obj = r.notes[n].obj
               /\ n \notin Rekeyed(l, r) => m.obj = disk[d].notes[n].obj
  <1> DEFINE l == cyc[d].local
             r == cyc[d].remote
             m == MergedEntry(l, r, n)
             e == disk[d].notes[n]
  <1>1. /\ l \in SoundIndex /\ r \in SoundIndex /\ l \in Settled /\ r \in Settled
        /\ Backed(l) /\ Backed(r)
    BY SettledSound, SettledAreIndexes, BackedSettled
  <1>2. /\ l.notes[n] # NoEntry /\ VersionOf(l.notes[n]) = acked[n]
        /\ l.notes[n].clock = acked[n].clock /\ l.notes[n] = e
    BY HomeMeans
  <1>3. n \notin PurgedOut(l, r)
    <2>1. /\ Purged(l, r)[n] = Later(l.purged[n], r.purged[n])
          /\ l.purged[n] <= stone[n] /\ r.purged[n] <= stone[n]
      BY <1>1 DEF Purged, Backed
    <2>2. /\ l.purged[n] \in Nat /\ r.purged[n] \in Nat /\ stone[n] \in Nat
          /\ acked[n].clock \in Nat /\ r.notes[n].clock \in Nat
      <3>1. /\ l.purged[n] \in 0 .. MaxClock /\ r.purged[n] \in 0 .. MaxClock
            /\ r.notes[n] \in Entry
        BY <1>1, SettledSound
      <3> QED
        BY <3>1, CopiesType, AliveMeans, Sizes DEF Entry
    <2>3. Later(l.notes[n].clock, r.notes[n].clock) >= acked[n].clock
      BY <1>2, <2>2 DEF Later
    <2>4. Purged(l, r)[n] < acked[n].clock /\ Purged(l, r)[n] \in Nat
      BY <2>1, <2>2 DEF Later, Alive
    <2>5. Later(l.notes[n].clock, r.notes[n].clock) > Purged(l, r)[n]
      BY <1>2, <2>2, <2>3, <2>4 DEF Later
    <2> QED
      BY <2>5 DEF PurgedOut
  <1>4. r.notes[n] # NoEntry => Reaches(VersionOf(l.notes[n]), VersionOf(r.notes[n]))
    BY <1>1, <1>2 DEF Backed, Alive
  <1>5. m # NoEntry /\ VersionOf(m) = acked[n] /\ n \notin ToFetch(l, r)
    BY <1>1, <1>2, <1>3, <1>4, MergeKeepsLocal
  <1>6. m \in Named /\ Merged(l, r).notes[n] = m
    BY <1>1, MergedEntryNamed DEF Merged
  <1>7. /\ r.notes[n] # NoEntry => m.obj = r.notes[n].obj
        /\ r.notes[n] = NoEntry => m = l.notes[n]
    BY <1>1, <1>5, MergedEntryMeans
  <1>8. n \notin Rekeyed(l, r) => r.notes[n] = NoEntry \/ l.notes[n].obj = r.notes[n].obj
    BY <1>2, <1>3 DEF Rekeyed, Collides
  <1> HIDE DEF m
  <1>9. n \notin Rekeyed(l, r) => m.obj = e.obj
    BY <1>2, <1>7, <1>8
  <1> QED
    BY <1>1, <1>3, <1>5, <1>6, <1>7, <1>9 DEF m

LEMMA PutIndexHome ==
    ASSUME IInv, Data, Local, HomeExists, NEW d \in Devices, PutIndex(d), Alone(d)
    PROVE  HomeExists'
  <1> DEFINE l == cyc[d].local
             r == cyc[d].remote
             changed == ~SameIndex(Plan(d, Merged), l) \/ cyc[d].done # {}
             c == [cyc[d] EXCEPT !.at = "notes", !.index = LocalIndex(d), !.changed = changed]
  <1>1. cyc[d] \in Cycle /\ cyc \in [Devices -> Cycle]
    BY DEF IInv, Types
  <1>2. /\ cyc' = [cyc EXCEPT ![d] = c] /\ cyc[d].at = "transfer"
        /\ UNCHANGED <<disk, objs, mem, acked, stone, missed>>
    BY <1>1 DEF PutIndex, Transferred, Descended, history
  <1>3. ~ changed => SameIndex(Merged(l, r), l)
    BY DEF Plan
  <1> HIDE DEF changed
  <1>4. /\ cyc'[d].at = "notes" /\ cyc'[d].local = l /\ cyc'[d].remote = r
        /\ cyc'[d].index = LocalIndex(d) /\ (cyc'[d].changed <=> changed)
    BY <1>1, <1>2 DEF Cycle
  <1>5. l = disk[d]
    BY <1>2 DEF Local, Alike
  <1>6. ASSUME NEW n \in Notes, Alive(n), Home(d, n)
        PROVE  Home(d, n)'
    <2> DEFINE x == LocalIndex(d).notes[n]
               m == Merged(l, r).notes[n]
    <2>1. /\ l \in SoundIndex /\ r \in SoundIndex /\ n \notin ToFetch(l, r)
          /\ m # NoEntry /\ m \in Named /\ VersionOf(m) = acked[n] /\ m = MergedEntry(l, r, n)
      BY <1>5, <1>6, HomeMerge
    <2>2. x.obj = m.obj /\ VersionOf(x) = VersionOf(m)
      BY <1>1, <2>1, LocalIndexMeans
    <2>3. LocalIndex(d) \in SoundIndex
      BY <1>1, LocalIndexSound
    <2>4. x # NoEntry
      BY <2>1, <2>2, <2>3, SettledSound, EntryHasKey
    <2>5. ~ changed => x.obj = disk[d].notes[n].obj
      <3> SUFFICES ASSUME ~ changed
                   PROVE  m.obj = l.notes[n].obj
        BY <1>5, <2>2
      <3>1. IndexForCloud(Merged(l, r)) = IndexForCloud(l)
        BY <1>3 DEF SameIndex
      <3>2. /\ IndexForCloud(Merged(l, r)).notes[n].obj = m.obj
            /\ IndexForCloud(l).notes[n].obj = l.notes[n].obj
        BY <2>1, MergedSound, CloudIndexMeans
      <3> QED
        BY <3>1, <3>2
    <2> HIDE DEF x, m
    <2>6. Names(cyc'[d], disk[d], acked[n], n)
      BY <1>4, <2>1, <2>2, <2>4, <2>5 DEF Names, x, m
    <2>7. HomeAt(disk[d], objs[d], mem[d], cyc'[d], acked[n], n)
      BY <1>2, <1>4, <1>6, <2>6 DEF Home, HomeAt, Moved
    <2> QED
      BY <1>2, <2>7 DEF Home
  <1> QED
    BY <1>2, <1>6, HomeKept

\* The notes that came down are laid under other keys than those this device holds
\* in their newest version.
LEMMA WriteNotesMeans ==
    ASSUME IInv, Data, NEW d \in Devices, WriteNotes(d)
    PROVE  /\ cyc[d].at = "notes" /\ cyc'[d].at = "rekey"
           /\ cyc'[d].local = cyc[d].local /\ cyc'[d].remote = cyc[d].remote
           /\ cyc'[d].index = cyc[d].index /\ cyc'[d].changed = cyc[d].changed
           /\ cyc'[d].done \subseteq ToFetch(cyc[d].local, cyc[d].remote)
           /\ \A o \in Objects, m \in Notes :
                 Uses(o, m) /\ m \notin ToFetch(cyc[d].local, cyc[d].remote)
                    => objs'[d][o] = objs[d][o]
           /\ UNCHANGED <<disk, mem, save, cloud, cobjs, written, acked, stone, missed, count>>
  <1> DEFINE down == {n \in Plan(d, ToFetch) : n \in cyc[d].done}
             store == [o \in Objects |->
                         IF \E n \in down : cyc[d].index.notes[n].obj = o
                         THEN cyc[d].fetched[CHOOSE n \in down : cyc[d].index.notes[n].obj = o]
                         ELSE objs[d][o]]
             c == [cyc[d] EXCEPT !.at = "rekey", !.done = down]
  <1>1. cyc[d] \in Cycle /\ cyc \in [Devices -> Cycle] /\ objs \in [Devices -> [Objects -> Version]]
    BY DEF IInv, Types
  <1>2. /\ objs' = [objs EXCEPT ![d] = store] /\ cyc' = [cyc EXCEPT ![d] = c]
        /\ cyc[d].at = "notes"
        /\ UNCHANGED <<disk, mem, save, cloud, cobjs, written, acked, stone, missed, count>>
    BY <1>1 DEF WriteNotes, history
  <1>3. down \subseteq ToFetch(cyc[d].local, cyc[d].remote) /\ down \subseteq Notes
    BY DEF Plan, ToFetch
  <1> HIDE DEF down
  <1>4. ASSUME NEW o \in Objects, NEW m \in Notes, Uses(o, m), m \notin down
        PROVE  store[o] = objs[d][o]
    <2>1. \A n \in down : cyc[d].index.notes[n].obj # o
      BY <1>3, <1>4, SettledAreIndexes, OneOwner DEF Data
    <2> QED
      BY <2>1
  <1> HIDE DEF store
  <1>5. objs'[d] = store
    BY <1>1, <1>2
  <1>6. /\ cyc'[d].at = "rekey"
        /\ cyc'[d].local = cyc[d].local /\ cyc'[d].remote = cyc[d].remote
        /\ cyc'[d].index = cyc[d].index /\ cyc'[d].changed = cyc[d].changed
        /\ cyc'[d].done = down
    BY <1>1, <1>2 DEF Cycle
  <1> QED
    BY <1>2, <1>3, <1>4, <1>5, <1>6

LEMMA WriteNotesHome ==
    ASSUME IInv, Data, Local, HomeExists, NEW d \in Devices, WriteNotes(d), Alone(d)
    PROVE  HomeExists'
  <1>1. /\ cyc[d].at = "notes" /\ cyc'[d].at = "rekey"
        /\ cyc'[d].local = cyc[d].local /\ cyc'[d].remote = cyc[d].remote
        /\ cyc'[d].index = cyc[d].index /\ cyc'[d].changed = cyc[d].changed
        /\ cyc'[d].done \subseteq ToFetch(cyc[d].local, cyc[d].remote)
        /\ \A o \in Objects, m \in Notes :
              Uses(o, m) /\ m \notin ToFetch(cyc[d].local, cyc[d].remote)
                 => objs'[d][o] = objs[d][o]
        /\ UNCHANGED <<disk, mem, acked, stone, missed>>
    BY WriteNotesMeans
  <1>2. cyc[d].local = disk[d]
    BY <1>1 DEF Local, Alike
  <1>3. ASSUME NEW n \in Notes, Alive(n), Home(d, n)
        PROVE  Home(d, n)'
    <2>1. n \notin ToFetch(cyc[d].local, cyc[d].remote)
      BY <1>2, <1>3, HomeMerge
    <2>2. objs'[d][disk[d].notes[n].obj] = objs[d][disk[d].notes[n].obj]
      BY <1>1, <1>3, <2>1, HomeMeans
    <2>3. ~ Moved(cyc'[d], n) /\ ~ Moved(cyc[d], n)
      BY <1>1, <2>1 DEF Moved
    <2>4. Names(cyc'[d], disk[d], acked[n], n)
      BY <1>1, <1>3 DEF Home, HomeAt, Names
    <2>5. HomeAt(disk[d], objs'[d], mem[d], cyc'[d], acked[n], n)
      BY <1>3, <2>2, <2>3, <2>4 DEF Home, HomeAt
    <2> QED
      BY <1>1, <2>5 DEF Home
  <1> QED
    BY <1>1, <1>3, HomeKept

LEMMA RekeyHome ==
    ASSUME IInv, Data, Local, HomeExists, NEW d \in Devices, NEW k \in Notes, Rekey(d, k), Alone(d)
    PROVE  HomeExists'
  <1> DEFINE from == cyc[d].local.notes[k].obj
             to   == cyc[d].remote.notes[k].obj
  <1>1. /\ cyc[d].at = "rekey" /\ k \in Rekeyed(cyc[d].local, cyc[d].remote)
        /\ k \notin cyc[d].done
        /\ cyc[d].local.notes[k] # NoEntry /\ cyc[d].remote.notes[k] # NoEntry
        /\ cyc'[d].at = "rekey" /\ cyc'[d].local = cyc[d].local
        /\ cyc'[d].remote = cyc[d].remote
        /\ cyc'[d].changed = cyc[d].changed /\ cyc'[d].done = cyc[d].done \union {k}
        /\ \A m \in Notes : \/ cyc'[d].index.notes[m] = cyc[d].index.notes[m]
                            \/ m = k /\ cyc'[d].index.notes[m] = NoEntry
        /\ \A o \in Objects : o # from /\ o # to => objs'[d][o] = objs[d][o]
        /\ k \notin missed' /\ objs[d][from] # NoNote =>
              /\ ~ mem[d].open
              /\ objs'[d][to] = objs[d][from] /\ objs'[d][from] = NoNote
              /\ cyc'[d].index = cyc[d].index
        /\ missed \subseteq missed'
        /\ UNCHANGED <<disk, mem, acked, stone>>
    BY RekeyMeans
  <1>2. cyc[d].local = disk[d]
    BY <1>1 DEF Local, Alike
  <1>3. Uses(from, k) /\ Uses(to, k) /\ KeysApart
    BY <1>1, SettledAreIndexes, ObjectIsCopy DEF Data
  <1>4. ASSUME NEW n \in Notes, Alive(n), n \notin missed', Home(d, n)
        PROVE  Home(d, n)'
    <2> DEFINE o == disk[d].notes[n].obj
    <2>1. o \in Objects /\ Uses(o, n) /\ Names(cyc[d], disk[d], acked[n], n)
      BY <1>1, <1>4, HomeMeans DEF Home, HomeAt
    <2>2. CASE n = k
      <3>1. from = o /\ ~ Moved(cyc[d], n) /\ Moved(cyc'[d], n)
        BY <1>1, <1>2, <2>2 DEF Moved
      <3>2. Reaches(objs[d][o], acked[n])
        BY <1>4, <3>1 DEF Home, HomeAt
      <3>3. objs[d][o] # NoNote
        BY <1>4, <3>2, AliveMeans
      <3>4. /\ ~ mem[d].open /\ objs'[d][to] = objs[d][o] /\ objs'[d][o] = NoNote
            /\ cyc'[d].index = cyc[d].index
        BY <1>1, <1>4, <2>2, <3>1, <3>3
      <3>5. Names(cyc'[d], disk[d], acked[n], n)
        BY <1>1, <2>1, <3>4 DEF Names
      <3>6. HomeAt(disk[d], objs'[d], mem[d], cyc'[d], acked[n], n)
        BY <1>1, <1>4, <2>2, <3>1, <3>2, <3>4, <3>5 DEF Home, HomeAt
      <3> QED
        BY <1>1, <3>6 DEF Home
    <2>3. CASE n # k
      <3>1. \A p \in Objects : Uses(p, n) => objs'[d][p] = objs[d][p]
        BY <1>1, <1>3, <2>3 DEF KeysApart
      <3>2. cyc'[d].index.notes[n] = cyc[d].index.notes[n]
        BY <1>1, <2>3
      <3>3. Names(cyc'[d], disk[d], acked[n], n)
        BY <1>1, <2>1, <3>2 DEF Names
      <3>4. Moved(cyc'[d], n) <=> Moved(cyc[d], n)
        BY <1>1, <2>3 DEF Moved
      <3>5. Moved(cyc[d], n) => objs'[d][cyc[d].remote.notes[n].obj]
                                  = objs[d][cyc[d].remote.notes[n].obj]
        <4> SUFFICES ASSUME Moved(cyc[d], n)
                     PROVE  objs'[d][cyc[d].remote.notes[n].obj]
                              = objs[d][cyc[d].remote.notes[n].obj]
          OBVIOUS
        <4>1. cyc[d].remote.notes[n] # NoEntry
          BY DEF Moved, Rekeyed, Collides
        <4> QED
          BY <3>1, <4>1, SettledAreIndexes, ObjectIsCopy
      <3>6. HomeAt(disk[d], objs'[d], mem[d], cyc'[d], acked[n], n)
        BY <1>1, <1>4, <2>1, <3>1, <3>3, <3>4, <3>5 DEF Home, HomeAt
      <3> QED
        BY <1>1, <3>6 DEF Home
    <2> QED
      BY <2>2, <2>3
  <1> QED
    BY <1>1, <1>4, HomeKept

LEMMA WriteIndexMeans ==
    ASSUME IInv, NEW d \in Devices, WriteIndex(d)
    PROVE  /\ cyc[d].at = "rekey" /\ cyc'[d].at = "sweep"
           /\ Rekeyed(cyc[d].local, cyc[d].remote) \subseteq cyc[d].done
           /\ disk'[d] = IF cyc[d].changed THEN cyc[d].index ELSE disk[d]
           /\ cyc'[d].index = cyc[d].index /\ cyc'[d].changed = cyc[d].changed
           /\ UNCHANGED <<objs, mem, save, cloud, cobjs, written, acked, stone, missed, count>>
  BY DEF WriteIndex, ToRekey, Plan, history, IInv, Types, Cycle

LEMMA WriteIndexHome ==
    ASSUME IInv, Data, Local, HomeExists, NEW d \in Devices, WriteIndex(d), Alone(d)
    PROVE  HomeExists'
  <1>1. /\ cyc[d].at = "rekey" /\ cyc'[d].at = "sweep"
        /\ Rekeyed(cyc[d].local, cyc[d].remote) \subseteq cyc[d].done
        /\ disk'[d] = IF cyc[d].changed THEN cyc[d].index ELSE disk[d]
        /\ cyc'[d].index = cyc[d].index /\ cyc'[d].changed = cyc[d].changed
        /\ UNCHANGED <<objs, mem, acked, stone, missed>>
    BY WriteIndexMeans
  <1>2. cyc[d].local = disk[d]
    BY <1>1 DEF Local, Alike
  <1>3. ASSUME NEW n \in Notes, Alive(n), Home(d, n)
        PROVE  Home(d, n)'
    <2> DEFINE e == disk[d].notes[n]
               x == cyc[d].index.notes[n]
               m == MergedEntry(cyc[d].local, cyc[d].remote, n)
    <2>1. /\ x # NoEntry /\ VersionOf(x) = acked[n] /\ x.obj = m.obj
          /\ ~ cyc[d].changed => x.obj = e.obj
          /\ n \notin Rekeyed(cyc[d].local, cyc[d].remote) => m.obj = e.obj
          /\ cyc[d].remote.notes[n] # NoEntry => m.obj = cyc[d].remote.notes[n].obj
      BY <1>1, <1>2, <1>3, HomeMerge DEF Home, HomeAt, Names
    <2>2. Moved(cyc[d], n) <=> n \in Rekeyed(cyc[d].local, cyc[d].remote)
      BY <1>1 DEF Moved
    <2>3. n \in Rekeyed(cyc[d].local, cyc[d].remote) =>
            /\ cyc[d].remote.notes[n] # NoEntry /\ e.obj # cyc[d].remote.notes[n].obj
      BY <1>2 DEF Rekeyed, Collides
    <2> HIDE DEF m
    <2>4. /\ disk'[d].notes[n] # NoEntry /\ VersionOf(disk'[d].notes[n]) = acked[n]
          /\ disk'[d].notes[n].obj = x.obj
      BY <1>1, <1>3, <2>1 DEF Home, HomeAt
    <2>5. mem[d].open => /\ mem[d].index.notes[n].obj = x.obj
                         /\ VersionOf(mem[d].index.notes[n]) = acked[n]
      BY <1>3, <2>1, <2>2 DEF Home, HomeAt
    <2>6. Reaches(objs[d][x.obj], acked[n])
      BY <1>3, <2>1, <2>2, <2>3 DEF Home, HomeAt
    <2>7. Names(cyc'[d], disk'[d], acked[n], n)
      BY <1>1, <2>1, <2>4 DEF Names
    <2>8. HomeAt(disk'[d], objs[d], mem[d], cyc'[d], acked[n], n)
      BY <1>1, <2>4, <2>5, <2>6, <2>7 DEF HomeAt, Moved
    <2> QED
      BY <1>1, <2>8 DEF Home
  <1> QED
    BY <1>1, <1>3, HomeKept

LEMMA SweepHome ==
    ASSUME IInv, Data, HomeExists, NEW d \in Devices, Sweep(d), Alone(d)
    PROVE  HomeExists'
  <1>1. /\ cyc[d].at = "sweep" /\ cyc'[d] = Idle
        /\ UNCHANGED <<disk, mem, acked, stone, missed>>
    BY DEF Sweep, history, IInv, Types
  <1>2. \A o \in Objects : o \in Claimed(cyc[d].index) => objs'[d][o] = objs[d][o]
    BY DEF Sweep, IInv, Types
  <1>3. ASSUME NEW n \in Notes, Home(d, n)
        PROVE  Home(d, n)'
    <2> DEFINE o == disk[d].notes[n].obj
    <2>1. cyc[d].index.notes[n].obj = o /\ o \in Objects /\ Reaches(objs[d][o], acked[n])
      BY <1>1, <1>3, HomeMeans DEF Home, HomeAt, Names, Moved
    <2>2. objs'[d][o] = objs[d][o]
      BY <1>2, <2>1 DEF Claimed
    <2>3. Idle.at = "idle"
      BY DEF Idle
    <2>4. HomeAt(disk[d], objs'[d], mem[d], Idle, acked[n], n)
      BY <1>3, <2>1, <2>2, <2>3 DEF Home, HomeAt, Moved
    <2> QED
      BY <1>1, <2>4 DEF Home
  <1> QED
    BY <1>1, <1>3, HomeKept

----------------------------------------------------------------------------
(* A device that keeps the newest purge of a note keeps it.                 *)

\* Index i says of every note what j says, or names it no more.
Within(i, j) == i.purged = j.purged /\ \A n \in Notes : i.notes[n] \in {j.notes[n], NoEntry}

Writing(c) == c.at \in {"notes", "rekey", "sweep"}

\* Only the device that moves can stop keeping the purge.
LEMMA GraveKept ==
    ASSUME GraveExists, NEW d \in Devices, Alone(d), missed \subseteq missed', UNCHANGED stone,
           \A n \in Notes : n \notin missed /\ Grave(d, n) => Grave(d, n)'
    PROVE  GraveExists'
  <1> SUFFICES ASSUME NEW n \in Notes \ missed'
               PROVE  \E e \in Devices : Grave(e, n)'
    BY DEF GraveExists
  <1>1. PICK e \in Devices : Grave(e, n)
    BY DEF GraveExists
  <1>2. CASE e = d
    BY <1>1, <1>2
  <1>3. CASE e # d
    BY <1>1, <1>3 DEF Grave, Alone
  <1> QED
    BY <1>2, <1>3

\* A step that brings the device no new index.
LEMMA GraveRests ==
    ASSUME GraveExists, NEW d \in Devices, Alone(d), missed \subseteq missed', UNCHANGED stone,
           disk'[d] = disk[d] \/ (Writing(cyc[d]) /\ disk'[d] = cyc[d].index),
           mem'[d].open => \/ mem'[d].index = disk[d]
                           \/ mem[d].open /\ mem'[d].index = mem[d].index,
           save'[d].at # "free" => save[d].at # "free" /\ save'[d].index = save[d].index,
           Writing(cyc'[d]) => Writing(cyc[d]) /\ Within(cyc'[d].index, cyc[d].index)
    PROVE  GraveExists'
  <1>1. ASSUME NEW n \in Notes, n \notin missed, Grave(d, n)
        PROVE  Grave(d, n)'
    <2>1. Buries(disk[d], stone[n], n) /\ Buries(disk'[d], stone[n], n)
      BY <1>1 DEF Grave, GraveAt, Writing
    <2>2. mem'[d].open => Buries(mem'[d].index, stone[n], n)
      BY <1>1, <2>1 DEF Grave, GraveAt
    <2>3. save'[d].at # "free" => Buries(save'[d].index, stone[n], n)
      BY <1>1 DEF Grave, GraveAt
    <2>4. Writing(cyc'[d]) => Buries(cyc'[d].index, stone[n], n)
      BY <1>1 DEF Grave, GraveAt, Writing, Within, Buries
    <2>5. GraveAt(disk'[d], mem'[d], save'[d], cyc'[d], stone[n], n)
      BY <2>1, <2>2, <2>3, <2>4 DEF GraveAt, Writing
    <2> QED
      BY <2>5 DEF Grave
  <1> QED
    BY <1>1, GraveKept

\* A save begins: what it keeps is no older than what its memory holds, and what it
\* buries was there.
LEMMA BeginSaveGrave ==
    ASSUME IInv, Data, GraveExists, NEW d \in Devices, Fresh(mem[d]),
           NEW notes \in Vault, NEW purged \in [Notes -> Nat], BeginSave(d, notes, purged),
           \A n \in Notes :
              /\ \/ purged[n] = mem[d].index.purged[n]
                 \/ mem[d].notes[n] # NoNote /\ purged[n] >= mem[d].notes[n].clock
              /\ notes[n] # NoNote =>
                    \/ notes[n].clock > stone[n]
                    \/ mem[d].notes[n] # NoNote /\ notes[n].clock >= mem[d].notes[n].clock
    PROVE  GraveExists'
  <1>1. /\ mem[d].open /\ save'[d].at = "objects"
        /\ save'[d].index = SplitVault(notes, mem[d].index, purged)
        /\ UNCHANGED <<disk, mem, cyc, stone, missed>>
        /\ count.minted \in 0 .. MaxObjects /\ count.minted < MaxObjects
        /\ mem[d].index \in SoundIndex /\ Alone(d)
    BY BeginSaveMeans
  <1>2. ASSUME NEW n \in Notes, n \notin missed, Grave(d, n)
        PROVE  Grave(d, n)'
    <2> DEFINE x == SplitVault(notes, mem[d].index, purged)
    <2>1. Buries(mem[d].index, stone[n], n)
      BY <1>1, <1>2 DEF Grave, GraveAt
    <2>2. /\ stone[n] \in Nat /\ purged[n] \in Nat /\ mem[d].index.notes[n].clock \in Nat
          /\ mem[d].notes[n].clock \in Nat /\ notes[n].clock \in Nat
      <3>1. mem[d].index.notes[n] \in Entry /\ mem[d].notes[n] \in Version /\ notes[n] \in Version
        BY <1>1, SettledSound DEF IInv, Types, Memory, Vault
      <3> QED
        BY <3>1, CopiesType, Sizes DEF Entry, Version
    <2>3. mem[d].notes[n] # NoNote => mem[d].notes[n].clock > stone[n]
      BY <1>2, <2>1, <2>2, FreshMeans DEF Buries
    <2>4. /\ x.purged = purged
          /\ x.notes[n] # NoEntry => notes[n] # NoNote /\ x.notes[n].clock = notes[n].clock
      <3>1. /\ x.purged = purged
            /\ notes[n] = NoNote => x.notes[n] = NoEntry
            /\ notes[n] # NoNote => x.notes[n].clock = notes[n].clock
        BY <1>1, SplitVaultMeans
      <3> HIDE DEF x
      <3> QED
        BY <3>1
    <2>5. purged[n] >= stone[n]
      BY <2>1, <2>2, <2>3 DEF Buries
    <2>6. notes[n] # NoNote => notes[n].clock > stone[n]
      BY <2>2, <2>3
    <2> HIDE DEF x
    <2>7. Buries(x, stone[n], n)
      BY <2>4, <2>5, <2>6 DEF Buries
    <2>8. GraveAt(disk[d], mem[d], save'[d], cyc[d], stone[n], n)
      BY <1>1, <1>2, <2>7 DEF Grave, GraveAt, x
    <2> QED
      BY <1>1, <2>8 DEF Grave
  <1> QED
    BY <1>1, <1>2, GraveKept

LEMMA EditGrave ==
    ASSUME IInv, Data, GraveExists, NEW d \in Devices, Fresh(mem[d]), NEW n \in Notes, Edit(d, n)
    PROVE  GraveExists'
  <1>1. PICK version \in Version :
          /\ version.clock > 0 /\ version.clock > mem[d].notes[n].clock
          /\ mem[d].notes[n] # NoNote \/ written[n] = {}
          /\ [mem[d].notes EXCEPT ![n] = version] \in Vault
          /\ BeginSave(d, [mem[d].notes EXCEPT ![n] = version], mem[d].index.purged)
    BY EditMeans
  <1> DEFINE notes == [mem[d].notes EXCEPT ![n] = version]
  <1>2. /\ mem[d].notes \in Vault
        /\ mem[d].index.purged \in [Notes -> Nat]
    BY Sizes DEF IInv, Types, Memory, SoundIndex
  <1>3. \A m \in Notes : mem[d].notes[m].clock \in Nat /\ stone[m] \in Nat
    BY <1>2, CopiesType, Sizes DEF Vault, Version
  <1>4. version.clock \in Nat
    BY Sizes DEF Version
  <1>5. notes[n] = version /\ \A m \in Notes : m # n => notes[m] = mem[d].notes[m]
    BY <1>2 DEF Vault
  <1>6. ASSUME NEW m \in Notes, notes[m] # NoNote
        PROVE  \/ notes[m].clock > stone[m]
               \/ mem[d].notes[m] # NoNote /\ notes[m].clock >= mem[d].notes[m].clock
    <2>1. CASE m # n
      BY <1>3, <1>5, <1>6, <2>1
    <2>2. CASE m = n /\ mem[d].notes[n] # NoNote
      BY <1>1, <1>3, <1>4, <1>5, <2>2
    <2>3. CASE m = n /\ written[n] = {}
      <3>1. ~ stone[n] > 0
        BY <2>3 DEF Data, VersionsApart
      <3> QED
        BY <1>1, <1>3, <1>4, <1>5, <2>3, <3>1
    <2> QED
      BY <1>1, <2>1, <2>2, <2>3
  <1> HIDE DEF notes
  <1> QED
    BY <1>1, <1>2, <1>6, BeginSaveGrave DEF notes

LEMMA PurgeGrave ==
    ASSUME IInv, Data, GraveExists, NEW d \in Devices, Fresh(mem[d]), NEW n \in Notes, Purge(d, n)
    PROVE  GraveExists'
  <1>1. PICK clock \in 0 .. MaxClock :
          /\ clock >= mem[d].notes[n].clock
          /\ mem[d].notes[n] # NoNote
          /\ [mem[d].notes EXCEPT ![n] = NoNote] \in Vault
          /\ BeginSave(d, [mem[d].notes EXCEPT ![n] = NoNote],
                       [mem[d].index.purged EXCEPT ![n] = clock])
    BY PurgeMeans
  <1> DEFINE notes == [mem[d].notes EXCEPT ![n] = NoNote]
             purged == [mem[d].index.purged EXCEPT ![n] = clock]
  <1>2. /\ mem[d].notes \in Vault
        /\ mem[d].index.purged \in [Notes -> 0 .. MaxClock]
    BY DEF IInv, Types, Memory, SoundIndex
  <1>3. \A m \in Notes : mem[d].notes[m].clock \in Nat
    BY <1>2, Sizes DEF Vault, Version
  <1>4. /\ notes[n] = NoNote /\ \A m \in Notes : m # n => notes[m] = mem[d].notes[m]
        /\ purged \in [Notes -> 0 .. MaxClock] /\ purged[n] = clock
        /\ \A m \in Notes : m # n => purged[m] = mem[d].index.purged[m]
    BY <1>2 DEF Vault
  <1>5. purged \in [Notes -> Nat]
    BY <1>4, Sizes
  <1>6. ASSUME NEW m \in Notes
        PROVE  /\ \/ purged[m] = mem[d].index.purged[m]
                  \/ mem[d].notes[m] # NoNote /\ purged[m] >= mem[d].notes[m].clock
               /\ notes[m] # NoNote =>
                     \/ notes[m].clock > stone[m]
                     \/ mem[d].notes[m] # NoNote /\ notes[m].clock >= mem[d].notes[m].clock
    BY <1>1, <1>3, <1>4
  <1> HIDE DEF notes, purged
  <1> QED
    BY <1>1, <1>5, <1>6, BeginSaveGrave DEF notes, purged

LEMMA SaveIndexGrave ==
    ASSUME IInv, Data, Local, GraveExists, NEW d \in Devices, SaveIndex(d)
    PROVE  GraveExists'
  <1>1. /\ save[d].at = "index" /\ save'[d] = Free /\ Alone(d)
        /\ disk'[d] = save[d].index /\ mem'[d].index = save[d].index
        /\ \A n \in Notes : stone'[n] = Later(stone[n], save[d].index.purged[n])
        /\ UNCHANGED <<cyc, missed>>
    BY SaveIndexMeans
  <1>2. /\ cyc[d].at = "idle"
        /\ \A n \in Notes : Whole(save[d], mem[d], n)
    BY <1>1, LocalMeans DEF LocalAt, SaveGoesOn
  <1>3. ASSUME NEW n \in Notes, NEW s, Buries(save[d].index, s, n), stone'[n] = s
        PROVE  Grave(d, n)'
    <2>1. Free.at = "free"
      BY DEF Free
    <2>2. GraveAt(disk'[d], mem'[d], Free, cyc[d], s, n)
      BY <1>1, <1>2, <1>3, <2>1 DEF GraveAt
    <2> QED
      BY <1>1, <1>3, <2>2 DEF Grave
  <1> SUFFICES ASSUME NEW n \in Notes \ missed
               PROVE  \E e \in Devices : Grave(e, n)'
    BY <1>1 DEF GraveExists
  <1>4. stone[n] \in Nat /\ save[d].index.purged[n] \in Nat /\ mem[d].index.purged[n] \in Nat
    BY CopiesType, SettledSound, SettledAreIndexes, Sizes
  <1>5. CASE save[d].index.purged[n] > stone[n]
    <2>1. stone'[n] = save[d].index.purged[n]
      BY <1>1, <1>4, <1>5 DEF Later
    <2>2. mem[d].index.purged[n] <= stone[n]
      BY SettledAreIndexes, BackedSettled DEF Backed
    <2>3. save[d].index.notes[n] = NoEntry
      BY <1>2, <1>4, <1>5, <2>2 DEF Whole
    <2> QED
      BY <1>3, <1>4, <2>1, <2>3 DEF Buries
  <1>6. CASE ~ save[d].index.purged[n] > stone[n]
    <2>1. stone'[n] = stone[n]
      BY <1>1, <1>4, <1>6 DEF Later
    <2>2. PICK g \in Devices : Grave(g, n)
      BY DEF GraveExists
    <2>3. CASE g = d
      BY <1>1, <1>3, <2>1, <2>2, <2>3 DEF Grave, GraveAt
    <2>4. CASE g # d
      BY <1>1, <2>1, <2>2, <2>4 DEF Grave, Alone
    <2> QED
      BY <2>3, <2>4
  <1> QED
    BY <1>5, <1>6

\* The merge keeps every purge, and what it names is newer than both.
LEMMA PutIndexGrave ==
    ASSUME IInv, Data, Local, GraveExists, NEW d \in Devices, PutIndex(d), Alone(d)
    PROVE  GraveExists'
  <1> DEFINE l == cyc[d].local
             r == cyc[d].remote
             i == LocalIndex(d)
  <1>1. cyc[d] \in Cycle /\ cyc \in [Devices -> Cycle]
    BY DEF IInv, Types
  <1>2. /\ cyc[d].at = "transfer" /\ cyc'[d].at = "notes" /\ cyc'[d].index = i
        /\ UNCHANGED <<disk, mem, save, stone, missed>>
    BY <1>1 DEF PutIndex, Transferred, Descended, history, Cycle
  <1>3. /\ l = disk[d] /\ l \in SoundIndex /\ r \in SoundIndex /\ i \in SoundIndex
        /\ Backed(l) /\ Backed(r)
    BY <1>1, <1>2, SettledSound, SettledAreIndexes, BackedSettled, LocalIndexSound DEF Local, Alike
  <1>4. ASSUME NEW n \in Notes, n \notin missed, Grave(d, n)
        PROVE  Grave(d, n)'
    <2> DEFINE x == i.notes[n]
               m == MergedEntry(l, r, n)
    <2>1. /\ i.purged = Purged(l, r)
          /\ x = l.notes[n] \/ (x.obj = m.obj /\ VersionOf(x) = VersionOf(m))
      BY <1>1, LocalIndexMeans
    <2>2. /\ x \in Named /\ m \in Named /\ l.notes[n] \in Entry /\ r.notes[n] \in Entry
          /\ l.purged[n] \in 0 .. MaxClock /\ r.purged[n] \in 0 .. MaxClock
      BY <1>3, SettledSound, MergedEntryNamed
    <2>3. Buries(l, stone[n], n)
      BY <1>3, <1>4 DEF Grave, GraveAt
    <2>4. /\ stone[n] \in Nat /\ Purged(l, r)[n] \in Nat /\ Purged(l, r)[n] >= stone[n]
      <3>1. Purged(l, r)[n] = Later(l.purged[n], r.purged[n])
        BY DEF Purged
      <3> QED
        BY <2>2, <2>3, <3>1, CopiesType, Sizes DEF Later, Buries
    <2>5. ASSUME m # NoEntry
          PROVE  m.clock \in Nat /\ m.clock > stone[n]
      <3>1. /\ m.clock = Later(l.notes[n].clock, r.notes[n].clock)
            /\ n \notin PurgedOut(l, r)
            /\ \/ l.notes[n] # NoEntry /\ VersionOf(m) = VersionOf(l.notes[n])
               \/ r.notes[n] # NoEntry /\ VersionOf(m) = VersionOf(r.notes[n])
        BY <1>3, <2>5, MergedEntryMeans
      <3>2. VersionOf(m) \in written[n]
        BY <1>3, <1>4, <3>1 DEF Backed
      <3> HIDE DEF m
      <3>3. m.clock > 0 /\ m.clock \in Nat
        <4>1. VersionOf(m).clock > 0 /\ VersionOf(m).clock = m.clock
          BY <2>2, <3>2, VersionOfType DEF Data, VersionsApart, Named
        <4> QED
          BY <2>2, <4>1, Sizes DEF Named, Entry
      <3>4. Purged(l, r)[n] = 0 \/ m.clock > Purged(l, r)[n]
        BY <2>4, <3>1 DEF PurgedOut
      <3> QED
        BY <2>4, <3>3, <3>4
    <2>6. x # NoEntry => x.clock > stone[n]
      <3> SUFFICES ASSUME x # NoEntry
                   PROVE  x.clock > stone[n]
        OBVIOUS
      <3>1. CASE x = l.notes[n]
        BY <2>3, <3>1 DEF Buries
      <3>2. CASE x.obj = m.obj /\ VersionOf(x) = VersionOf(m)
        <4> HIDE DEF x, m
        <4>1. m # NoEntry
          BY <2>2, <3>2, EntryHasKey
        <4>2. x.clock = m.clock
          BY <2>2, <3>2, VersionOfType DEF Named
        <4> QED
          BY <2>5, <4>1, <4>2
      <3> QED
        BY <2>1, <3>1, <3>2
    <2> HIDE DEF i
    <2>7. Buries(i, stone[n], n)
      BY <2>1, <2>4, <2>6 DEF Buries
    <2>8. GraveAt(disk[d], mem[d], save[d], cyc'[d], stone[n], n)
      BY <1>2, <1>4, <2>7 DEF Grave, GraveAt
    <2> QED
      BY <1>2, <2>8 DEF Grave
  <1> QED
    BY <1>2, <1>4, GraveKept

----------------------------------------------------------------------------
(* The start, and every step.                                               *)

\* The start, note by note.
Begins(layout) ==
    /\ \A d \in Devices, n \in Notes :
          /\ disk[d].purged[n] = 0 /\ cloud.purged[n] = 0
          /\ n \notin First => disk[d].notes[n] = NoEntry /\ cloud.notes[n] = NoEntry
          /\ n \in First =>
                /\ VersionOf(disk[d].notes[n]) = Old /\ VersionOf(cloud.notes[n]) = Old
                /\ disk[d].notes[n] # NoEntry
                /\ disk[d].notes[n].clock = 1
                /\ disk[d].notes[n].obj = KeyOf(layout, d, n)
                /\ cloud.notes[n].obj = KeyOf(layout, Desk, n)
    /\ \A d \in Devices : mem[d] = Shut /\ save[d] = Free /\ cyc[d] = Idle
    /\ \A d \in Devices, o \in Objects :
          objs[d][o] = IF \E n \in First : KeyOf(layout, d, n) = o THEN Old ELSE NoNote
    /\ cobjs = objs[Desk]
    /\ \A n \in Notes : /\ written[n] = IF n \in First THEN {Old} ELSE {}
                        /\ acked[n] = IF n \in First THEN Old ELSE NoNote
                        /\ stone[n] = 0
    /\ count.minted = Minted /\ count.edits \in {0, 1} /\ missed = {}

LEMMA InitMeans ==
    ASSUME Init
    PROVE  \E layout \in Layouts : Begins(layout)
  <1>1. PICK layout \in Layouts : Starts(layout)
    BY DEF Init
  <1>2. First \subseteq Notes /\ Desk \in Devices
    BY SettingsAssumption, PopulationAssumption DEF Desk
  <1> DEFINE store(d) == [o \in Objects |->
                            IF \E n \in First : KeyOf(layout, d, n) = o THEN Old ELSE NoNote]
             shared == layout = "shared"
             synced(d) == IF shared \/ d = Desk THEN Old.digest ELSE 0
             entry(d, n) == IF n \in First THEN EntryOf(layout, d, n, synced(d)) ELSE NoEntry
             shown(n) == IF n \in First THEN EntryOf(layout, Desk, n, 0) ELSE NoEntry
  <1>3. /\ disk = [d \in Devices |-> [EmptyIndex EXCEPT !.notes = [n \in Notes |-> entry(d, n)]]]
        /\ objs = [d \in Devices |-> store(d)]
        /\ cloud = [EmptyIndex EXCEPT !.notes = [n \in Notes |-> shown(n)]]
        /\ cobjs = store(Desk)
        /\ count = [edits |-> IF shared THEN 0 ELSE 1, minted |-> Minted, faults |-> 0]
    BY <1>1 DEF Starts
  <1>4. \A d \in Devices, n \in Notes :
           /\ disk[d].notes[n] = entry(d, n) /\ disk[d].purged[n] = 0
           /\ cloud.notes[n] = shown(n) /\ cloud.purged[n] = 0
    BY <1>3 DEF EmptyIndex
  <1>5. ASSUME NEW d \in Devices, NEW n \in Notes, NEW synced_ \in {0, Old.digest}
        PROVE  LET e == EntryOf(layout, d, n, synced_)
               IN  /\ e # NoEntry /\ VersionOf(e) = Old /\ e.clock = 1
                   /\ e.obj = KeyOf(layout, d, n)
    <2>1. EntryOf(layout, d, n, synced_) # NoEntry
      BY EntryOfType
    <2> QED
      BY <2>1 DEF EntryOf, VersionOf, Old
  <1>6. \A d \in Devices : synced(d) \in {0, Old.digest}
    OBVIOUS
  <1>7. ASSUME NEW d \in Devices, NEW n \in Notes
        PROVE  /\ n \notin First => disk[d].notes[n] = NoEntry /\ cloud.notes[n] = NoEntry
               /\ n \in First =>
                     /\ VersionOf(disk[d].notes[n]) = Old /\ VersionOf(cloud.notes[n]) = Old
                     /\ disk[d].notes[n] # NoEntry
                     /\ disk[d].notes[n].clock = 1
                     /\ disk[d].notes[n].obj = KeyOf(layout, d, n)
                     /\ cloud.notes[n].obj = KeyOf(layout, Desk, n)
    BY <1>2, <1>4, <1>5, <1>6
  <1>8. /\ \A d \in Devices, o \in Objects : objs[d][o] = store(d)[o]
        /\ cobjs = objs[Desk]
    BY <1>2, <1>3
  <1>9. count.minted = Minted /\ count.edits \in {0, 1}
    BY <1>3
  <1>10. /\ \A d \in Devices : mem[d] = Shut /\ save[d] = Free /\ cyc[d] = Idle
         /\ \A n \in Notes : /\ written[n] = IF n \in First THEN {Old} ELSE {}
                             /\ acked[n] = IF n \in First THEN Old ELSE NoNote
                             /\ stone[n] = 0
         /\ missed = {}
    BY DEF Init
  <1>11. Begins(layout)
    BY <1>4, <1>7, <1>8, <1>9, <1>10 DEF Begins
  <1> QED
    BY <1>11

LEMMA InitKept ==
    ASSUME Init
    PROVE  Kept
  <1>1. PICK layout \in Layouts : Begins(layout)
    BY InitMeans
  <1>2. IInv /\ Desk \in Devices
    BY InitIInv, PopulationAssumption DEF Desk
  <1>3. /\ Old \in Version /\ Old.clock = 1 /\ Old.digest = 1 /\ Reaches(Old, Old)
        /\ NoNote.clock = 0 /\ NoEntry.obj = 0
    <2>1. Old \in Version
      BY Sizes DEF Old, Version, Digests
    <2> QED
      BY <2>1, ReachesIsAnOrder DEF Old, NoNote, NoEntry
  <1>4. ASSUME NEW i \in Indexes
        PROVE  i = cloud \/ i = EmptyIndex \/ \E d \in Devices : i = disk[d]
    <2>1. i = cloud \/ \E d \in Devices : i \in SettledOf(d) \/ i = save[d].index
      BY SettledMeans DEF Indexes
    <2>2. \A d \in Devices : mem[d] = Shut /\ save[d] = Free /\ cyc[d] = Idle
      BY <1>1 DEF Begins
    <2> QED
      BY <2>1, <2>2 DEF SettledOf, Shut, Free, Idle
  <1>5. ASSUME NEW o \in Objects, NEW n \in Notes, Uses(o, n)
        PROVE  n \in First /\ \E d \in Devices : KeyOf(layout, d, n) = o
    <2>1. PICK i \in Indexes : i.notes[n].obj = o
      BY <1>5 DEF Uses
    <2>2. o # 0
      BY Sizes DEF Objects
    <2>3. i # EmptyIndex
      BY <1>3, <2>1, <2>2 DEF EmptyIndex
    <2>4. CASE i = cloud
      BY <1>1, <1>2, <1>3, <2>1, <2>2, <2>4 DEF Begins
    <2>5. ASSUME NEW d \in Devices, i = disk[d]
          PROVE  n \in First /\ KeyOf(layout, d, n) = o
      BY <1>1, <1>3, <2>1, <2>2, <2>5 DEF Begins
    <2> QED
      BY <1>4, <2>3, <2>4, <2>5
  <1>6. /\ \A d \in Devices, o \in Objects : objs[d][o] \in {Old, NoNote}
        /\ \A o \in Objects : cobjs[o] \in {Old, NoNote}
    BY <1>1, <1>2 DEF Begins
  <1>7. /\ \A n \in Notes : NoNote \in Copies(n) /\ (n \in First => Old \in Copies(n))
        /\ \A n \in Notes : acked[n] \in Copies(n) /\ EmptyVault[n] = NoNote
    BY <1>1 DEF Begins, Copies, EmptyVault
  <1>8. KeysApart
    <2>1. ASSUME NEW o \in Objects, NEW n \in Notes, NEW m \in Notes, Uses(o, n), Uses(o, m)
          PROVE  n = m
      BY <1>5, <2>1, KeysDiffer
    <2>2. ASSUME NEW o \in Objects, NEW n \in Notes, Uses(o, n)
          PROVE  o <= count.minted
      BY <1>1, <1>5, <2>2, KeysDiffer, Sizes DEF Begins
    <2>3. ASSUME NEW o \in Objects, o > count.minted
          PROVE  cobjs[o] = NoNote /\ \A d \in Devices : objs[d][o] = NoNote
      <3>1. \A d \in Devices, n \in Notes : KeyOf(layout, d, n) # o
        BY <1>1, <2>3, KeysDiffer, Sizes DEF Begins
      <3>2. First \subseteq Notes
        BY SettingsAssumption
      <3> QED
        BY <1>1, <1>2, <3>1, <3>2 DEF Begins
    <2> QED
      BY <2>1, <2>2, <2>3 DEF KeysApart
  <1>9. VersionsApart
    <2>1. \A n \in Notes : \A v \in written[n] : v = Old
      BY <1>1 DEF Begins
    <2>2. \A n \in Notes : stone[n] = 0
      BY <1>1 DEF Begins
    <2>3. 1 <= count.edits + 1
      BY <1>1 DEF Begins
    <2> QED
      BY <1>3, <1>7, <2>1, <2>2, <2>3 DEF VersionsApart
  <1>10. CopiesAreWritten
    <2>1. ASSUME NEW n \in Notes, NEW o \in Objects, Uses(o, n)
          PROVE  /\ written[n] # {} /\ cobjs[o] \in Copies(n)
                 /\ \A d \in Devices : objs[d][o] \in Copies(n)
      <3>1. n \in First /\ written[n] = {Old}
        BY <1>1, <1>5, <2>1 DEF Begins
      <3> QED
        BY <1>6, <1>7, <3>1
    <2>2. \A d \in Devices, n \in Notes : /\ mem[d].notes[n] \in Copies(n)
                                          /\ save[d].notes[n] \in Copies(n)
                                          /\ cyc[d].fetched[n] \in Copies(n)
      BY <1>1, <1>7 DEF Begins, Shut, Free, Idle
    <2> QED
      BY <2>1, <2>2 DEF CopiesAreWritten
  <1>11. EntriesAreAcked
    <2> SUFFICES ASSUME NEW i \in Settled
                 PROVE  Backed(i)
      BY DEF EntriesAreAcked
    <2>1. Backed(EmptyIndex)
      BY <1>2, EmptyIsBacked
    <2>2. \A n \in Notes : n \in First => Old \in written[n] /\ acked[n] = Old
      BY <1>1 DEF Begins
    <2>3. Backed(cloud)
      BY <1>1, <1>2, <1>3, <2>2 DEF Begins, Backed
    <2>4. \A d \in Devices : Backed(disk[d])
      BY <1>1, <1>3, <2>2 DEF Begins, Backed
    <2> QED
      BY <1>4, <2>1, <2>3, <2>4, SettledAreIndexes
  <1>12. Local
    <2>1. Fresh(Shut)
      BY DEF Fresh, Shut, EmptyVault, EmptyIndex
    <2>2. \A d \in Devices : SaveGoesOn(d)
      BY <1>1 DEF Begins, SaveGoesOn, Free
    <2>3. \A d \in Devices : Alike(cyc[d], disk[d])
      BY <1>1 DEF Begins, Alike, Idle
    <2> QED
      BY <1>1, <2>1, <2>2, <2>3 DEF Begins, Local
  <1>13. ~ Shut.open /\ Idle.at = "idle" /\ Free.at = "free"
    BY DEF Shut, Idle, Free
  <1>14. ASSUME NEW n \in Notes, acked[n].clock > stone[n]
         PROVE  Home(Desk, n)
    <2>1. n \in First /\ acked[n] = Old
      BY <1>1, <1>3, <1>14 DEF Begins
    <2>2. /\ disk[Desk].notes[n] # NoEntry /\ VersionOf(disk[Desk].notes[n]) = Old
          /\ disk[Desk].notes[n].obj = KeyOf(layout, Desk, n)
      BY <1>1, <1>2, <2>1 DEF Begins
    <2>3. objs[Desk][KeyOf(layout, Desk, n)] = Old
      BY <1>1, <1>2, <2>1, KeyOfType DEF Begins
    <2>4. HomeAt(disk[Desk], objs[Desk], Shut, Idle, Old, n)
      BY <1>3, <1>13, <2>2, <2>3 DEF HomeAt, Moved
    <2> QED
      BY <1>1, <1>2, <2>1, <2>4 DEF Home, Begins
  <1>15. ASSUME NEW n \in Notes
         PROVE  Grave(Desk, n)
    <2>1. Buries(disk[Desk], 0, n)
      BY <1>1, <1>2, <1>3 DEF Begins, Buries
    <2>2. GraveAt(disk[Desk], Shut, Free, Idle, 0, n)
      BY <1>13, <2>1 DEF GraveAt
    <2> QED
      BY <1>1, <1>2, <2>2 DEF Grave, Begins
  <1> QED
    BY <1>2, <1>8, <1>9, <1>10, <1>11, <1>12, <1>14, <1>15 DEF Kept, Data, HomeExists, GraveExists

\* A step of the main process.
LEMMA MainStepKept ==
    ASSUME Busy = FALSE, IInv, IInv', Kept, NEW d \in Devices, MainStep(d)
    PROVE  Kept'
  <1>1. Data /\ Local /\ HomeExists /\ GraveExists /\ Fresh(mem[d]) /\ SaveGoesOn(d)
    BY DEF Kept, Local
  <1>2. ASSUME NEW unread \in SUBSET Notes, Loads(d, unread),
               count'.minted = count.minted, count'.edits = count.edits
        PROVE  Kept'
    <2>1. Alone(d) /\ Data'
      BY <1>1, <1>2, LoadsData
    <2>2. Local' /\ HomeExists'
      BY <1>1, <1>2, <2>1, LoadsLocal, LoadsHome
    <2>3. /\ mem'[d].index = disk[d] /\ missed \subseteq missed'
          /\ UNCHANGED <<disk, save, cyc, stone>>
      BY <1>2 DEF Loads, LoadVault, IInv, Types
    <2>4. GraveExists'
      BY <1>1, <2>1, <2>3, GraveRests DEF Within
    <2> QED
      BY <2>1, <2>2, <2>4 DEF Kept
  <1>3. CASE Load(d)
    BY <1>2, <1>3 DEF Load
  <1>4. ASSUME NEW n \in Notes, LoadUnreadable(d, n)
        PROVE  Kept'
    BY <1>2, <1>4 DEF LoadUnreadable, Fault, IInv, Types
  <1>5. CASE SaveObjects(d)
    <2>1. Alone(d) /\ Data'
      BY <1>1, <1>5, SaveObjectsData
    <2>2. Local' /\ HomeExists'
      BY <1>1, <1>5, <2>1, SaveObjectsLocal, SaveObjectsHome
    <2>3. /\ save[d].at = "objects" /\ save'[d].index = save[d].index
          /\ UNCHANGED <<disk, mem, cyc, stone, missed>>
      BY <1>1, <1>5, SaveObjectsMeans
    <2>4. GraveExists'
      BY <1>1, <2>1, <2>3, GraveRests DEF Within
    <2> QED
      BY <2>1, <2>2, <2>4 DEF Kept
  <1>6. CASE SaveIndex(d)
    BY <1>1, <1>6, SaveIndexData, SaveIndexLocal, SaveIndexHome, SaveIndexGrave DEF Kept
  <1>7. ASSUME NEW notes \in Vault, NEW purged, BeginSave(d, notes, purged)
        PROVE  HomeExists'
    BY <1>1, <1>7, BeginSaveMeans, HomeUndisturbed
  <1>8. ASSUME NEW n \in Notes, Edit(d, n)
        PROVE  Kept'
    <2>1. HomeExists'
      BY <1>7, <1>8, EditMeans
    <2> QED
      BY <1>1, <1>8, <2>1, EditData, EditLocal, EditGrave DEF Kept
  <1>9. ASSUME NEW n \in Notes, Purge(d, n)
        PROVE  Kept'
    <2>1. HomeExists'
      BY <1>7, <1>9, PurgeMeans
    <2> QED
      BY <1>1, <1>9, <2>1, PurgeData, PurgeLocal, PurgeGrave DEF Kept
  <1> QED
    BY <1>3, <1>4, <1>5, <1>6, <1>8, <1>9 DEF MainStep

\* A step of the cycle.
LEMMA CycleStepKept ==
    ASSUME Busy = FALSE, IInv, IInv', Kept, NEW d \in Devices, CycleStep(d)
    PROVE  Kept'
  <1>1. Data /\ Local /\ HomeExists /\ GraveExists
    BY DEF Kept
  <1>2. SUFFICES Alone(d) /\ Data' /\ HomeExists' /\ GraveExists'
    BY <1>1, CycleStepLocal DEF Kept
  <1>3. ASSUME Alone(d), UNCHANGED <<disk, objs, mem, save, acked, stone, missed>>,
               cyc[d].at # "rekey", cyc'[d].at \in {"idle", "transfer"}
        PROVE  HomeExists' /\ GraveExists'
    BY <1>1, <1>3, RestsHome, GraveRests DEF Writing
  <1>4. Idle.at = "idle" /\ cyc[d] \in Cycle /\ cyc \in [Devices -> Cycle]
    BY DEF Idle, IInv, Types
  <1>5. CASE CycleStart(d)
    <2>1. /\ cyc[d].at = "idle" /\ cyc'[d].at = "transfer"
          /\ UNCHANGED <<disk, objs, mem, save, acked, stone, missed>>
      BY <1>4, <1>5, Blanks DEF CycleStart, history, Cycle
    <2> QED
      BY <1>1, <1>3, <1>5, <2>1, CycleStartData
  <1>6. CASE PutIndex(d)
    BY <1>1, <1>6, PutIndexData, PutIndexHome, PutIndexGrave
  <1>7. CASE CycleFails(d)
    <2>1. /\ cyc[d].at = "transfer" /\ cyc'[d].at = "idle"
          /\ UNCHANGED <<disk, objs, mem, save, acked, stone, missed>>
      BY <1>4, <1>7 DEF CycleFails, Transferred, Descended, history
    <2> QED
      BY <1>1, <1>3, <1>7, <2>1, CycleFailsData
  <1>8. CASE WriteNotes(d)
    <2>1. Alone(d) /\ Data'
      BY <1>1, <1>8, WriteNotesData
    <2>2. /\ cyc[d].at = "notes" /\ cyc'[d].at = "rekey" /\ cyc'[d].index = cyc[d].index
          /\ UNCHANGED <<disk, mem, save, stone, missed>>
      BY <1>1, <1>8, WriteNotesMeans
    <2>3. GraveExists'
      BY <1>1, <2>1, <2>2, GraveRests DEF Writing, Within
    <2> QED
      BY <1>1, <1>8, <2>1, <2>3, WriteNotesHome
  <1>9. CASE WriteIndex(d)
    <2>1. Alone(d) /\ Data'
      BY <1>1, <1>9, WriteIndexData
    <2>2. /\ cyc[d].at = "rekey" /\ cyc'[d].at = "sweep" /\ cyc'[d].index = cyc[d].index
          /\ disk'[d] = disk[d] \/ disk'[d] = cyc[d].index
          /\ UNCHANGED <<mem, save, stone, missed>>
      BY <1>9, WriteIndexMeans
    <2>3. GraveExists'
      BY <1>1, <2>1, <2>2, GraveRests DEF Writing, Within
    <2> QED
      BY <1>1, <1>9, <2>1, <2>3, WriteIndexHome
  <1>10. CASE Sweep(d)
    <2>1. Alone(d) /\ Data'
      BY <1>1, <1>10, SweepData
    <2>2. cyc'[d] = Idle /\ UNCHANGED <<disk, mem, save, stone, missed>>
      BY <1>4, <1>10 DEF Sweep, history
    <2>3. GraveExists'
      BY <1>1, <1>4, <2>1, <2>2, GraveRests DEF Writing
    <2> QED
      BY <1>1, <1>10, <2>1, <2>3, SweepHome
  <1>11. ASSUME NEW n \in Notes, GetNote(d, n)
         PROVE  Alone(d) /\ Data' /\ HomeExists' /\ GraveExists'
    <2>1. /\ cyc[d].at = "transfer" /\ cyc'[d].at = "transfer"
          /\ UNCHANGED <<disk, objs, mem, save, acked, stone, missed>>
      BY <1>4, <1>11 DEF GetNote, history, Cycle
    <2> QED
      BY <1>1, <1>3, <1>11, <2>1, GetNoteData
  <1>12. ASSUME NEW n \in Notes, PutNote(d, n)
         PROVE  Alone(d) /\ Data' /\ HomeExists' /\ GraveExists'
    <2>1. /\ cyc[d].at = "transfer" /\ cyc'[d].at = "transfer"
          /\ UNCHANGED <<disk, objs, mem, save, acked, stone, missed>>
      BY <1>4, <1>12 DEF PutNote, Descended, history, Cycle
    <2> QED
      BY <1>1, <1>3, <1>12, <2>1, PutNoteData
  <1>13. ASSUME NEW n \in Notes, TransferFails(d, n)
         PROVE  Alone(d) /\ Data' /\ HomeExists' /\ GraveExists'
    <2>1. /\ cyc[d].at = "transfer" /\ cyc'[d].at = "transfer"
          /\ UNCHANGED <<disk, objs, mem, save, acked, stone, missed>>
      BY <1>4, <1>13 DEF TransferFails, Descended, history, Cycle
    <2> QED
      BY <1>1, <1>3, <1>13, <2>1, TransferFailsData
  <1>14. ASSUME NEW n \in Notes, Rekey(d, n)
         PROVE  Alone(d) /\ Data' /\ HomeExists' /\ GraveExists'
    <2>1. Alone(d) /\ Data'
      BY <1>1, <1>14, RekeyData
    <2>2. /\ cyc[d].at = "rekey" /\ cyc'[d].at = "rekey"
          /\ cyc'[d].index.purged = cyc[d].index.purged
          /\ \A m \in Notes : \/ cyc'[d].index.notes[m] = cyc[d].index.notes[m]
                              \/ m = n /\ cyc'[d].index.notes[m] = NoEntry
          /\ missed \subseteq missed' /\ UNCHANGED <<disk, mem, save, stone>>
      BY <1>14, RekeyMeans
    <2>3. GraveExists'
      BY <1>1, <2>1, <2>2, GraveRests DEF Writing, Within
    <2> QED
      BY <1>1, <1>14, <2>1, <2>3, RekeyHome
  <1> QED
    BY <1>5, <1>6, <1>7, <1>8, <1>9, <1>10, <1>11, <1>12, <1>13, <1>14 DEF CycleStep

LEMMA CrashKept ==
    ASSUME IInv, IInv', Kept, NEW d \in Devices, Crash(d)
    PROVE  Kept'
  <1>1. Data /\ Local /\ HomeExists /\ GraveExists
    BY DEF Kept
  <1>2. Alone(d) /\ Data'
    BY <1>1, CrashData
  <1>3. /\ mem'[d] = Shut /\ save'[d] = Free /\ cyc'[d] = Idle
        /\ missed \subseteq missed' /\ UNCHANGED <<disk, stone>>
    BY DEF Crash, IInv, Types
  <1>4. ~ Shut.open /\ Idle.at = "idle" /\ Free.at = "free"
    BY DEF Shut, Idle, Free
  <1>5. GraveExists'
    BY <1>1, <1>2, <1>3, <1>4, GraveRests DEF Writing
  <1> QED
    BY <1>1, <1>2, <1>5, CrashLocal, CrashHome DEF Kept

LEMMA StutterKept ==
    ASSUME Kept, UNCHANGED vars
    PROVE  Kept'
  <1>1. UNCHANGED <<disk, objs, mem, save, cyc, cloud, cobjs, written, acked, stone, missed, count>>
    BY DEF vars, history
  <1>2. Settled' = Settled /\ Indexes' = Indexes
    BY <1>1 DEF Settled, SettledOf, Indexes
  <1>3. Data'
    <2>1. \A o, n : Uses(o, n)' <=> Uses(o, n)
      BY <1>2 DEF Uses
    <2>2. KeysApart'
      BY <1>1, <2>1 DEF Kept, Data, KeysApart
    <2>3. VersionsApart'
      BY <1>1 DEF Kept, Data, VersionsApart, Copies
    <2>4. CopiesAreWritten'
      BY <1>1, <2>1 DEF Kept, Data, CopiesAreWritten, Copies
    <2>5. EntriesAreAcked'
      BY <1>1, <1>2 DEF Kept, Data, EntriesAreAcked, Backed
    <2> QED
      BY <2>2, <2>3, <2>4, <2>5 DEF Data
  <1>4. Local'
    BY <1>1 DEF Kept, Local, Fresh, SaveGoesOn, Whole, Onward, Stored, Alike
  <1>5. HomeExists' /\ GraveExists'
    BY <1>1 DEF Kept, HomeExists, Home, GraveExists, Grave
  <1> QED
    BY <1>3, <1>4, <1>5 DEF Kept

\* While the user saves only between the cycles of a device, some device keeps the
\* newest version of every note and the newest purge.
THEOREM KeptTheorem ==
    ASSUME Busy = FALSE
    PROVE  Spec => []Kept
  <1>1. IInv /\ IInv' /\ Kept /\ [Next]_vars => Kept'
    BY MainStepKept, CycleStepKept, CrashKept, StutterKept DEF Next
  <1> QED
    BY <1>1, InitKept, Inductive, PTL DEF Spec

----------------------------------------------------------------------------
(* What the devices that keep things account for.                           *)

\* The version a home keeps lies in one of its objects.
LEMMA HomeHolds ==
    ASSUME IInv, Data, NEW d \in Devices, NEW n \in Notes, Alive(n), Home(d, n)
    PROVE  Held(n, acked[n])
  <1>1. ASSUME NEW o \in Objects, Uses(o, n), Reaches(objs[d][o], acked[n])
        PROVE  Held(n, acked[n])
    <2>1. objs[d][o] \in Copies(n) /\ objs[d][o] # NoNote
      BY <1>1, AliveMeans DEF Data, CopiesAreWritten
    <2> QED
      BY <1>1, <2>1 DEF Copies, Held, Reaches
  <1>2. CASE Moved(cyc[d], n)
    <2>1. cyc[d].remote.notes[n] # NoEntry /\ Reaches(objs[d][cyc[d].remote.notes[n].obj], acked[n])
      BY <1>2 DEF Home, HomeAt, Moved, Rekeyed, Collides
    <2> QED
      BY <1>1, <2>1, SettledAreIndexes, ObjectIsCopy
  <1>3. CASE ~ Moved(cyc[d], n)
    BY <1>1, <1>3, HomeMeans DEF Home, HomeAt
  <1> QED
    BY <1>2, <1>3

\* The winner among the acknowledged versions of a note lies in an object somewhere,
\* unless it was purged after it: for any devices, notes, clocks, crashes and failed
\* transfers, when the user saves between the cycles of a device.
THEOREM NewestTheorem ==
    ASSUME Busy = FALSE
    PROVE  Spec => []NewestIsHeld
  <1>1. IInv /\ Kept => NewestIsHeld
    <2> SUFFICES ASSUME IInv, Kept, NEW n \in Notes \ missed, acked[n].clock > stone[n]
                 PROVE  Held(n, acked[n])
      BY DEF NewestIsHeld, Safe
    <2>1. Alive(n)
      BY DEF Alive
    <2>2. PICK d \in Devices : Home(d, n)
      BY DEF Kept, HomeExists
    <2> QED
      BY <2>1, <2>2, HomeHolds DEF Kept
  <1> QED
    BY <1>1, Inductive, KeptTheorem, PTL

\* The index of a device changes at the end of a save or of a cycle only.
LEMMA DiskMoves ==
    ASSUME IInv, [Next]_vars, NEW d \in Devices
    PROVE  disk'[d] = disk[d] \/ SaveIndex(d) \/ WriteIndex(d)
  <1>1. disk \in [Devices -> SoundIndex]
    BY DEF IInv, Types
  <1>2. CASE UNCHANGED vars
    BY <1>2 DEF vars
  <1>3. ASSUME NEW e \in Devices, MainStep(e)
        PROVE  disk'[d] = disk[d] \/ SaveIndex(d)
    <2>1. ASSUME NEW m \in Notes, Edit(e, m)
          PROVE  disk' = disk
      BY <2>1 DEF Edit, BeginSave
    <2>2. ASSUME NEW m \in Notes, Purge(e, m)
          PROVE  disk' = disk
      BY <2>2 DEF Purge, BeginSave
    <2>3. CASE SaveIndex(e)
      BY <1>1, <2>3 DEF SaveIndex
    <2>4. CASE Load(e) \/ SaveObjects(e) \/ \E m \in Notes : LoadUnreadable(e, m)
      BY <2>4 DEF Load, LoadUnreadable, Loads, SaveObjects
    <2> QED
      BY <1>3, <2>1, <2>2, <2>3, <2>4 DEF MainStep
  <1>4. ASSUME NEW e \in Devices, CycleStep(e)
        PROVE  disk'[d] = disk[d] \/ WriteIndex(d)
    <2>1. CASE WriteIndex(e)
      BY <1>1, <2>1 DEF WriteIndex
    <2>2. CASE CycleStart(e) \/ PutIndex(e) \/ CycleFails(e) \/ WriteNotes(e) \/ Sweep(e)
      BY <2>2 DEF CycleStart, PutIndex, CycleFails, WriteNotes, Sweep
    <2>3. ASSUME NEW m \in Notes, GetNote(e, m) \/ PutNote(e, m) \/ TransferFails(e, m) \/ Rekey(e, m)
          PROVE  disk' = disk
      BY <2>3 DEF GetNote, PutNote, TransferFails, Rekey
    <2> QED
      BY <1>4, <2>1, <2>2, <2>3 DEF CycleStep
  <1>5. ASSUME NEW e \in Devices, Crash(e)
        PROVE  disk' = disk
    BY <1>5 DEF Crash
  <1> QED
    BY <1>2, <1>3, <1>4, <1>5 DEF Next

\* A note leaves the index of a device only behind a stone, or while another device
\* accounts for it, whatever the devices publish over each other.
THEOREM UnnamedTheorem ==
    ASSUME Busy = FALSE
    PROVE  Spec => NothingLeavesUnnamed
  <1> DEFINE accounts(index, d, n) == \/ index.notes[n] # NoEntry
                                      \/ index.purged[n] >= disk[d].notes[n].clock
  <1>1. ASSUME IInv, Kept, [Next]_vars, NEW d \in Devices, NEW n \in Notes \ missed,
               disk[d].notes[n] # NoEntry, disk'[d].notes[n] = NoEntry
        PROVE  \/ disk'[d].purged[n] >= disk[d].notes[n].clock
               \/ \E e \in Devices \ {d} : accounts(disk[e], d, n)
    <2>1. Data /\ LocalAt(d)
      BY <1>1, LocalMeans DEF Kept
    <2>2. /\ disk[d].notes[n] \in Entry /\ acked[n] \in Version /\ acked[n].clock \in Nat
          /\ stone[n] \in Nat /\ disk[d].notes[n].clock \in Nat
          /\ disk[d].notes[n].clock <= acked[n].clock
      <3>1. disk[d].notes[n] \in Entry /\ acked[n] \in Version /\ stone[n] \in 0 .. MaxClock
        BY <1>1, SettledSound, SettledAreIndexes, CopiesType
      <3>2. Reaches(acked[n], VersionOf(disk[d].notes[n]))
        BY <1>1, <2>1, SettledAreIndexes, BackedSettled DEF Backed
      <3>3. acked[n].clock >= disk[d].notes[n].clock
        BY <3>1, <3>2, VersionOfType, ReachesIsAnOrder
      <3> QED
        BY <3>1, <3>3, Sizes DEF Entry, Version
    <2>3. CASE acked[n].clock > stone[n]
      <3>1. PICK h \in Devices : Home(h, n)
        BY <1>1, <2>3 DEF Kept, HomeExists
      <3>2. CASE h # d
        BY <1>1, <2>1, <3>1, <3>2, HomeMeans
      <3>3. CASE h = d /\ SaveIndex(d)
        <4>1. save[d].at = "index" /\ disk'[d] = save[d].index
          BY <1>1, <3>3, SaveIndexMeans
        <4>2. /\ mem[d].open /\ Whole(save[d], mem[d], n) /\ Onward(save[d], mem[d], n)
          BY <1>1, <2>1, <4>1 DEF LocalAt, SaveGoesOn
        <4>3. /\ mem[d].index.notes[n] # NoEntry /\ mem[d].notes[n] \in Version
              /\ mem[d].notes[n].clock >= acked[n].clock
          BY <1>1, <2>1, <2>3, <3>1, <3>3, <4>2, HomeMemory DEF Alive
        <4>4. save[d].index.purged[n] >= mem[d].notes[n].clock
          BY <1>1, <4>1, <4>2, <4>3 DEF Whole, Onward
        <4>5. save[d].index.purged[n] \in Nat /\ mem[d].notes[n].clock \in Nat
          BY <1>1, <4>3, SettledSound, SettledAreIndexes, Sizes DEF Version
        <4> QED
          BY <2>2, <4>1, <4>3, <4>4, <4>5
      <3>4. CASE h = d /\ WriteIndex(d)
        <4>1. cyc[d].at = "rekey" /\ disk'[d] = IF cyc[d].changed THEN cyc[d].index ELSE disk[d]
          BY <1>1, <3>4, WriteIndexMeans
        <4>2. cyc[d].index.notes[n] # NoEntry
          BY <3>1, <3>4, <4>1 DEF Home, HomeAt, Names
        <4> QED
          BY <1>1, <4>1, <4>2
      <3> QED
        BY <1>1, <3>2, <3>3, <3>4, DiskMoves
    <2>4. CASE ~ acked[n].clock > stone[n]
      <3>1. PICK g \in Devices : Grave(g, n)
        BY <1>1 DEF Kept, GraveExists
      <3>2. /\ disk[g].purged[n] >= stone[n]
            /\ disk[g].notes[n] # NoEntry => disk[g].notes[n].clock > stone[n]
        BY <3>1 DEF Grave, GraveAt, Buries
      <3>3. g # d
        BY <1>1, <2>2, <2>4, <3>2
      <3>4. disk[g].purged[n] \in Nat
        BY <1>1, SettledSound, SettledAreIndexes, Sizes
      <3>5. disk[g].purged[n] >= disk[d].notes[n].clock
        BY <2>2, <2>4, <3>2, <3>4
      <3> QED
        BY <3>3, <3>5
    <2> QED
      BY <2>3, <2>4
  <1>2. IInv /\ Kept /\ [Next]_vars =>
           [\A d \in Devices, n \in Notes \ missed :
              disk[d].notes[n] # NoEntry /\ disk'[d].notes[n] = NoEntry
                => \/ disk'[d].purged[n] >= disk[d].notes[n].clock
                   \/ \E e \in Devices \ {d} : accounts(disk[e], d, n)]_vars
    BY <1>1
  <1> QED
    BY <1>2, Inductive, KeptTheorem, PTL DEF NothingLeavesUnnamed, Spec

=============================================================================
