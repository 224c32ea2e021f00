------------------------------ MODULE SyncQueue ------------------------------
(***************************************************************************)
(* The retry queue of the synchronisation (electron/sync/syncQueue.ts):    *)
(* one file for all the profiles of the machine.  Every call reads the     *)
(* whole file, changes it and writes it back, with no lock; the calls come *)
(* from the transfers of a cycle, from its retry loop and its last step    *)
(* (syncService.ts) and from the screen (main.ts).                         *)
(*                                                                         *)
(* A work is a transfer to do: a resource, a direction and a profile.      *)
(* Left out: clearProfile and clearAll, which nothing calls, and the       *)
(* deletions, which are never queued.                                      *)
(***************************************************************************)
EXTENDS Naturals, FiniteSets

CONSTANTS
    Works,        \* the transfers
    Downloads,    \* those that fetch: they are queued with a high priority
    Foreign,      \* those of profiles other than the one that syncs: each left an
                  \* item behind
    GivenUp,      \* those of this profile that were given up before
    Slots,        \* the transfers under way at once (MAX_PARALLEL_UPLOADS)
    Attempts,     \* MAX_ATTEMPTS
    MaxFaults,    \* bound: failed transfers, absent manifests and crashes
    MaxGestures   \* bound: gestures of the user on the list of failures

Own     == Works \ Foreign
Left    == Foreign \cup GivenUp
Batch   == Cardinality(Slots)
Callers == Slots \cup {"loop", "user", "panel"}

ASSUME WorksAssumption  == /\ Downloads \subseteq Works /\ Foreign \subseteq Works
                            /\ GivenUp \subseteq Own /\ IsFiniteSet(Left)
ASSUME BoundsAssumption == {Attempts, MaxFaults, MaxGestures} \subseteq Nat /\ Attempts > 0
ASSUME SlotsAssumption  == Slots # {} /\ Slots \cap {"loop", "user", "panel"} = {}

VARIABLES
    file,      \* sync-queue.json: its items, in the order of their ids
    calls,     \* per caller: the call under way, and what it read
    cycle,     \* the running cycle
    cooling,   \* the items whose nextRetry is still to come
    born,      \* items made so far
    faults, gestures,
    rearmed,   \* the items the user has tried again
    owed,      \* the works whose failure was written and that nothing settled since
    crossed    \* the works whose item a save wrote over without having read it

vars == <<file, calls, cycle, cooling, born, faults, gestures, rearmed, owed, crossed>>
history == <<rearmed, owed, crossed>>

\* retry: nextRetry is set.  The attempts of an exhausted item that a crossed save
\* brings back under a retry pass the maximum.
Item == [id : Nat, work : Works, attempts : Nat, retry : BOOLEAN]

\* A call: what it does, to which item or to which works.
Call == [do : {"enqueue", "success", "failed", "rearm", "dismiss", "reap"},
         id : Nat, of : SUBSET Works]
Enqueue(w)  == [do |-> "enqueue", id |-> 0, of |-> {w}]
Mark(do, i) == [do |-> do, id |-> i.id, of |-> {i.work}]
Reap(works) == [do |-> "reap", id |-> 0, of |-> works]

Silent      == [at |-> "idle", call |-> Reap({}), seen |-> {}, next |-> {}]
Begun(call) == [at |-> "load", call |-> call, seen |-> {}, next |-> {}]
NoCycle     == [at |-> "idle", todo |-> {}, worked |-> {}, items |-> {}, failing |-> {}]

TypeOK ==
    /\ file \subseteq Item
    /\ calls \in [Callers -> [at : {"idle", "load", "save"}, call : Call,
                              seen : SUBSET Works, next : SUBSET Item]]
    /\ cycle \in [at : {"idle", "pool", "queue", "end"}, todo : SUBSET Own,
                  worked : SUBSET Own, items : SUBSET Item, failing : SUBSET Item]
    /\ \A i \in cycle.items \cup cycle.failing : i.work \in Own
    /\ cooling \subseteq Nat /\ born \in Nat /\ rearmed \subseteq Nat
    /\ faults \in 0 .. MaxFaults /\ gestures \in 0 .. MaxGestures
    /\ owed \subseteq Works /\ crossed \subseteq Works

Untried(id, w, n) == [id |-> id, work |-> w, attempts |-> n, retry |-> FALSE]
Fresh(id, w)      == Untried(id, w, 0)

Init ==
    /\ born = Cardinality(Left)
    /\ \E order \in [1 .. born -> Left] :
          /\ \A w \in Left : \E k \in 1 .. born : order[k] = w
          /\ \A k, l \in 1 .. born : order[k] = order[l] => k = l
          /\ file = {Untried(k, order[k], IF order[k] \in GivenUp THEN Attempts ELSE 0) : k \in 1 .. born}
    /\ calls = [c \in Callers |-> Silent]
    /\ cycle = NoCycle
    /\ cooling = {} /\ faults = 0 /\ gestures = 0
    /\ rearmed = {} /\ owed = GivenUp /\ crossed = {}

WorksOf(f)   == {i.work : i \in f}
Exhausted(i) == i.attempts >= Attempts

------------------------------------------------------------------------------
(* The calls of syncQueue.ts: what each one makes of the file it read.       *)

\* Mutant: no item is recognised.
MutEnqueued(f, w, id) == f \cup {Fresh(id, w)}

\* A new item goes last: the order of the file is that of the ids.
Enqueued(f, w, id) ==
    IF \E i \in f : i.work = w /\ ~Exhausted(i) THEN f ELSE f \cup {Fresh(id, w)}

FailedItem(i) == [i EXCEPT !.attempts = @ + 1, !.retry = i.attempts + 1 < Attempts]

\* Mutant: an item leaves the file with its last attempt.
MutFailedOnce(f, id) ==
    {i \in f : i.id # id} \cup {j \in {FailedItem(i) : i \in {k \in f : k.id = id}} : ~Exhausted(j)}

FailedOnce(f, id) == {IF i.id = id THEN FailedItem(i) ELSE i : i \in f}

Rearmed(f, id) ==
    {IF i.id = id /\ Exhausted(i) THEN [i EXCEPT !.attempts = 0, !.retry = FALSE] ELSE i : i \in f}

Applied(call, f, id) ==
    CASE call.do = "enqueue" -> Enqueued(f, CHOOSE w \in call.of : TRUE, id)
      [] call.do = "success" -> {i \in f : i.id # call.id}
      [] call.do = "failed"  -> FailedOnce(f, call.id)
      [] call.do = "rearm"   -> Rearmed(f, call.id)
      [] call.do = "dismiss" -> {i \in f : i.id # call.id \/ ~Exhausted(i)}
      [] call.do = "reap"    -> {i \in f : i.work \notin call.of \/ ~Exhausted(i)}

\* Written, or found there already.
Settles(call, after) ==
    owed' = CASE call.do = "enqueue" -> owed \cup call.of
              [] call.do \in {"success", "dismiss", "reap"} -> owed \ (call.of \ WorksOf(after))
              [] OTHER -> owed

\* load, and the decision in the same turn: a call that changes nothing is over.
LoadFile(c) ==
    LET call   == calls[c].call
        result == Applied(call, file, born + 1)
    IN  /\ calls[c].at = "load"
        /\ IF result = file
           THEN /\ calls' = [calls EXCEPT ![c] = Silent]
                /\ Settles(call, file)
                /\ UNCHANGED born
           ELSE /\ calls' = [calls EXCEPT ![c] = [at |-> "save", call |-> call,
                                                 seen |-> WorksOf(file), next |-> result]]
                /\ born' = IF call.do = "enqueue" THEN born + 1 ELSE born
                /\ UNCHANGED owed
        /\ UNCHANGED <<file, cycle, cooling, faults, gestures, rearmed, crossed>>

\* save: the whole file, as this call made it.
SaveFile(c) ==
    LET call  == calls[c].call
        after == calls[c].next
    IN  /\ calls[c].at = "save"
        /\ file' = after
        /\ calls' = [calls EXCEPT ![c] = Silent]
        /\ cooling' = CASE call.do = "failed" -> cooling \cup {call.id}
                        [] call.do = "rearm" -> cooling \ {call.id}
                        [] OTHER -> cooling
        /\ rearmed' = IF call.do = "rearm" THEN rearmed \cup {call.id} ELSE rearmed
        /\ Settles(call, after)
        /\ crossed' = crossed \cup (WorksOf(file) \ (WorksOf(after) \cup calls[c].seen))
        /\ UNCHANGED <<cycle, born, faults, gestures>>

------------------------------------------------------------------------------
(* The cycle of the open profile (triggerSync, with isSyncing).              *)

Idle(c) == calls[c].at = "idle"
Fault   == faults < MaxFaults /\ faults' = faults + 1
Calls(c, call) == calls' = [calls EXCEPT ![c] = Begun(call)]

\* The merge names the transfers of this cycle.
CycleStart ==
    /\ cycle.at = "idle"
    /\ \E works \in SUBSET Own :
          cycle' = [NoCycle EXCEPT !.at = "pool", !.todo = works, !.worked = works]
    /\ UNCHANGED <<file, calls, cooling, born, faults, gestures, history>>

\* runPool: a free slot takes the next transfer; the slots are alike.
FreeSlots == {s \in Slots : Idle(s)}

PoolSends(w) ==
    /\ cycle.at = "pool" /\ FreeSlots # {} /\ w \in cycle.todo
    /\ cycle' = [cycle EXCEPT !.todo = @ \ {w}]
    /\ UNCHANGED <<file, calls, cooling, born, faults, gestures, history>>

\* uploadFile, downloadFile: the transfer throws, after it was queued.
PoolFails(w) ==
    /\ cycle.at = "pool" /\ FreeSlots # {} /\ w \in cycle.todo /\ Fault
    /\ cycle' = [cycle EXCEPT !.todo = @ \ {w}]
    /\ Calls(CHOOSE s \in FreeSlots : TRUE, Enqueue(w))
    /\ UNCHANGED <<file, cooling, born, gestures, history>>

\* High priority before normal, then the order of the file.
Before(i, j) ==
    IF i.work \in Downloads <=> j.work \in Downloads THEN i.id < j.id ELSE i.work \in Downloads
FirstOf(items, n) == {i \in items : Cardinality({j \in items : Before(j, i)}) < n}

Ready(i) == ~Exhausted(i) /\ (i.retry => i.id \notin cooling)

\* Mutant: the batch is taken before the items that wait are set aside.
MutDequeued == {i \in FirstOf(file, Batch) : Ready(i)}

\* dequeue: the first items that may be tried.
Dequeued == FirstOf({i \in file : Ready(i)}, Batch)

\* Mutant: the items of every profile are tried.
MutQueueStart ==
    /\ cycle.at = "pool" /\ cycle.todo = {} /\ FreeSlots = Slots
    /\ cycle' = [cycle EXCEPT !.at = "queue", !.items = Dequeued]
    /\ UNCHANGED <<file, calls, cooling, born, faults, gestures, history>>

\* processQueue: of the batch, only the items of this profile.
QueueStart ==
    /\ cycle.at = "pool" /\ cycle.todo = {} /\ FreeSlots = Slots
    /\ cycle' = [cycle EXCEPT !.at = "queue", !.items = {i \in Dequeued : i.work \in Own}]
    /\ UNCHANGED <<file, calls, cooling, born, faults, gestures, history>>

\* The turn of item i in the loop.
Turn(i) ==
    /\ cycle.at = "queue" /\ Idle("loop") /\ cycle.failing = {}
    /\ i \in FirstOf(cycle.items, 1)
Leaves(i) == cycle' = [cycle EXCEPT !.items = @ \ {i}]

QueueSends(i) ==
    /\ Turn(i) /\ Leaves(i)
    /\ Calls("loop", Mark("success", i))
    /\ UNCHANGED <<file, cooling, born, faults, gestures, history>>

\* The transfer queues its own failure, or the manifest is not had before it starts;
\* then processQueue marks it.
QueueFails(i) ==
    /\ Turn(i) /\ Fault
    /\ cycle' = [cycle EXCEPT !.items = @ \ {i}, !.failing = {i}]
    /\ Calls("loop", Enqueue(i.work)) \/ UNCHANGED calls
    /\ UNCHANGED <<file, cooling, born, gestures, history>>

QueueMarks(i) ==
    /\ cycle.at = "queue" /\ Idle("loop") /\ i \in cycle.failing
    /\ cycle' = [cycle EXCEPT !.failing = {}]
    /\ Calls("loop", Mark("failed", i))
    /\ UNCHANGED <<file, cooling, born, faults, gestures, history>>

\* No remote manifest: a download is neither done nor failed.
QueueSkips(i) ==
    /\ Turn(i) /\ Leaves(i) /\ Fault
    /\ i.work \in Downloads
    /\ UNCHANGED <<file, calls, cooling, born, gestures, history>>

QueueEnd ==
    /\ cycle.at = "queue" /\ Idle("loop") /\ cycle.items \cup cycle.failing = {}
    /\ cycle' = [cycle EXCEPT !.at = "end"]
    /\ UNCHANGED <<file, calls, cooling, born, faults, gestures, history>>

\* reapResolvedFailures: the works the merge left alone and whose entry is synced.
\* A cycle that failed to publish ends without it.
CycleEnd ==
    /\ cycle.at = "end" /\ Idle("loop")
    /\ cycle' = NoCycle
    /\ \/ UNCHANGED calls
       \/ \E synced \in SUBSET (Own \ cycle.worked) :
              synced # {} /\ Calls("loop", Reap(synced))
    /\ UNCHANGED <<file, cooling, born, faults, gestures, history>>

------------------------------------------------------------------------------
(* The screen, the time and the end of the process.                          *)

\* sync:retryFailed, sync:dismissFailed, on an item of the list.
Gesture ==
    /\ gestures < MaxGestures /\ gestures' = gestures + 1
    /\ Idle("user")
    /\ \E do \in {"rearm", "dismiss"}, i \in file :
          i.work \in Own /\ i.attempts > 0 /\ Calls("user", Mark(do, i))
    /\ UNCHANGED <<file, cycle, cooling, born, faults, history>>

\* resolveConflict: the version of the cloud is asked for, and does not come.
PanelFails(w) ==
    /\ w \in Own \cap Downloads /\ Idle("panel") /\ Fault
    /\ Calls("panel", Enqueue(w))
    /\ UNCHANGED <<file, cycle, cooling, born, gestures, history>>

Elapse(id) ==
    /\ cooling' = cooling \ {id}
    /\ UNCHANGED <<file, calls, cycle, born, faults, gestures, history>>

Crash ==
    /\ Fault
    /\ calls' = [c \in Callers |-> Silent]
    /\ cycle' = NoCycle
    /\ UNCHANGED <<file, cooling, born, gestures, history>>

CallStep  == \E c \in Callers : LoadFile(c) \/ SaveFile(c)
PoolStep  == \E w \in Own : PoolSends(w) \/ PoolFails(w)
ItemStep  == \/ \E i \in cycle.items : QueueSends(i) \/ QueueFails(i) \/ QueueSkips(i)
             \/ \E i \in cycle.failing : QueueMarks(i)
CycleStep == QueueStart \/ ItemStep \/ QueueEnd \/ CycleEnd

Next ==
    \/ CallStep \/ CycleStart \/ PoolStep \/ CycleStep
    \/ Gesture \/ (\E w \in Own : PanelFails(w)) \/ (\E id \in cooling : Elapse(id)) \/ Crash

Spec == Init /\ [][Next]_vars

\* The timer starts cycles, what is under way goes on, and time passes.
FairSpec ==
    /\ Spec
    /\ WF_vars(CycleStart \/ PoolStep \/ CycleStep)
    /\ WF_vars(CallStep) /\ WF_vars(\E id \in cooling : Elapse(id))

------------------------------------------------------------------------------
(* Properties.                                                               *)

\* "Deduplicates": two items of one work both wait to be tried only when the user
\* had an exhausted one tried again, however the calls cross.
TwinsAreRearmed ==
    \A i, j \in file :
        /\ i.id # j.id /\ i.work = j.work
        /\ ~Exhausted(i) /\ ~Exhausted(j)
        => {i.id, j.id} \cap rearmed # {}

\* A transfer whose failure was written has an item, tried or exhausted, until it
\* succeeds, the user dismisses it or a cycle finds it done; except those that
\* another call wrote over.
FailuresStayListed == owed \ crossed \subseteq WorksOf(file)

\* No transfer of the profile that syncs waits for ever at the same attempt, as long
\* as the items of the other profiles do not fill the batch.
Waits(w, k) == \E i \in file : i.work = w /\ i.attempts = k
Foreigners  == {i \in file : i.work \in Foreign /\ ~Exhausted(i)}

WaitingIsTried ==
    \A w \in Own, k \in 0 .. Attempts - 1 :
        (Waits(w, k) /\ Cardinality(Foreigners) < Batch) ~> ~Waits(w, k)

==============================================================================
