------------------------------ MODULE WebTabs ------------------------------
(***************************************************************************)
(* The tabs of the web application: the election of the one that syncs     *)
(* (syncLeader.ts), the scheduler of each tab with its cycle lock, its     *)
(* watchdog and its queued request (syncScheduler.ts), the cycle they all  *)
(* share inside a tab (pullFromCloud, readSync.ts) and the register of     *)
(* modifications the tabs share in IndexedDB (pendingUploads.ts).          *)
(*                                                                         *)
(* A modification is the number of its mark.  The register has one entry,  *)
(* 0 when it is empty; the cloud holds the newest modification it was      *)
(* given.                                                                  *)
(***************************************************************************)
EXTENDS Naturals, FiniteSets

CONSTANTS
    Tabs,        \* the tabs of one browser
    Writers,     \* bound: the tabs somebody writes in
    NoTab,       \* holds the lock when nobody does
    MaxRuns,     \* bound: runs of runCycle under way in one tab
    MaxMarks,    \* bound: modifications
    MaxFaults,   \* bound: sessions stopped, tabs closed, cycles hung,
                 \* late or failed
    HangsAt      \* where a cycle may never return: "guard", "pull"

ASSUME TabsAssumption == NoTab \notin Tabs /\ IsFiniteSet(Tabs) /\ Writers \subseteq Tabs
ASSUME BoundsAssumption ==
    /\ {MaxRuns, MaxMarks, MaxFaults} \subseteq Nat
    /\ HangsAt \subseteq {"guard", "pull"}

VARIABLES
    tab,      \* per tab: the module variables of its scheduler and leader
    lock,     \* the Web Lock: who holds it, whether its callback has run, who waits
    wire,     \* messages of the BroadcastChannel not yet delivered
    pending,  \* the shared register: mark waiting to be pushed, 0 for none
    cloud,    \* newest modification in the cloud
    marks,    \* modifications made
    torn,     \* newest mark an erasure wrote over without having read it
    faults    \* faults so far

vars == <<tab, lock, wire, pending, cloud, marks, torn, faults>>

Marks == 0 .. MaxMarks
Gens == 0 .. MaxFaults
\* A request is named by its tab and the number of marks when it was made.
Ids == [tab : Tabs, seq : 1 .. MaxMarks]
RunStages == {"asked", "hung", "pull", "pulled"}
Runs == [slot : 1 .. MaxRuns, stage : RunStages, gen : Gens]

NoPull == [stage |-> "none", seen |-> 0, stale |-> FALSE, again |-> FALSE]
Pulls == [stage : {"none", "pull", "push", "clear", "erase", "hung"},
          seen : Marks, stale : BOOLEAN, again : BOOLEAN]

NewTab == [open |-> TRUE, started |-> FALSE, gen |-> 0, leader |-> FALSE,
           running |-> FALSE, late |-> FALSE, token |-> 0, queued |-> FALSE,
           debounce |-> FALSE, ask |-> 0,
           runs |-> {}, pull |-> NoPull]
NobodysLock == [tab |-> NoTab, gen |-> 0, answered |-> FALSE]

Requests == [tab : Tabs, gen : Gens]
Messages == [kind : {"cycle", "ack"}, id : Ids, to : Tabs]

Init ==
    /\ tab = [t \in Tabs |-> NewTab]
    /\ lock = [holder |-> NobodysLock, waiting |-> {}]
    /\ wire = {}
    /\ pending = 0 /\ cloud = 0 /\ marks = 0 /\ torn = 0 /\ faults = 0

------------------------------------------------------------------------------
(* runCycle: the refusal, the entry, and the end of a run.                   *)

Awake(t) == tab[t].open

\* A cycle that is over resumes its runs in microtasks, before any timer or message.
Open(t) == Awake(t) /\ \A r \in tab[t].runs : r.stage # "pulled"

\* Mutant: the watchdog never takes the lock back.
MutCycleLocked(T) == T.running

\* cycleLocked: a cycle older than CYCLE_STUCK_MS no longer counts.
CycleLocked(T) == T.running /\ ~T.late

\* Mutant: every run has the same token.
MutFreeSlot(T) == 1

\* The token of a run is its place among those under way.
FreeSlot(T) ==
    CHOOSE n \in 1 .. MaxRuns : \A r \in T.runs : r.slot # n

HasSlot(T) == \E n \in 1 .. MaxRuns : \A r \in T.runs : r.slot # n
Room(T) == CycleLocked(T) \/ HasSlot(T)

(* The synchronous head of runCycle: refused and perhaps queued, or under    *)
(* way up to the first await.  The lock is not taken yet.                    *)
Entered(T, requeue) ==
    IF CycleLocked(T) THEN [T EXCEPT !.queued = @ \/ requeue]
    ELSE [T EXCEPT !.running = FALSE,
                   !.runs = @ \cup {[slot |-> FreeSlot(T), stage |-> "asked",
                                     gen |-> 0]}]

(* The await on the active profile returned: the run takes the lock, whoever *)
(* has it, passes the guards, and joins the cycle under way in this tab or    *)
(* opens one.  The guards change nothing and are one step with the lock.     *)
Taken(T, r, stage) ==
    [T EXCEPT !.running = TRUE, !.late = FALSE, !.token = r.slot,
              !.runs = (@ \ {r}) \cup {[r EXCEPT !.stage = stage, !.gen = T.gen]}]

\* pullFromCloud: the cycle under way in this tab, or a new one.
Joined(T) ==
    IF T.pull.stage = "none" THEN [T EXCEPT !.pull = [NoPull EXCEPT !.stage = "pull"]] ELSE T

RunPulls(t) ==
    /\ Open(t)
    /\ \E r \in tab[t].runs :
         /\ r.stage = "asked"
         /\ tab' = [tab EXCEPT ![t] = Joined(Taken(@, r, "pull"))]
    /\ UNCHANGED <<lock, wire, pending, cloud, marks, torn, faults>>

\* Mutant: the token is not compared, a run given up for lost releases the next one's lock.
MutMine(T, r) == r.gen = T.gen

(* The finally of runCycle and the microtask after it: only the run whose    *)
(* token stands releases the lock, and only it replays the queued request.   *)
Mine(T, r) == r.gen = T.gen /\ r.slot = T.token

Finished(T, r) ==
    LET left == [T EXCEPT !.runs = @ \ {r}, !.running = @ /\ ~Mine(T, r),
                          !.late = @ /\ ~Mine(T, r),
                          !.token = IF Mine(T, r) THEN 0 ELSE @,
                          !.queued = @ /\ r.gen # T.gen]
    IN  IF Mine(T, r) /\ T.queued THEN Entered(left, FALSE) ELSE left

RunEnds(t) ==
    /\ Awake(t)
    /\ \E r \in tab[t].runs :
         /\ r.stage = "pulled"
         /\ tab' = [tab EXCEPT ![t] = Finished(@, r)]
    /\ UNCHANGED <<lock, wire, pending, cloud, marks, torn, faults>>

------------------------------------------------------------------------------
(* pullFromCloud and pushToCloud: the cycle shared by the runs of one tab.   *)

Over(T) ==
    [T EXCEPT !.pull = NoPull,
              !.runs = {IF r.stage = "pull" THEN [r EXCEPT !.stage = "pulled"] ELSE r : r \in @}]

\* The push reads the register and the manifest; an empty register ends the cycle.
PullReads(t) ==
    /\ tab[t].pull.stage = "pull" /\ Open(t)
    /\ tab' = [tab EXCEPT ![t] =
         IF pending = 0 THEN Over(@)
         ELSE [@ EXCEPT !.pull.stage = "push", !.pull.seen = pending, !.pull.stale = FALSE]]
    /\ UNCHANGED <<lock, wire, pending, cloud, marks, torn, faults>>

\* The compare-and-swap of the manifest passes; whoever read it before must read again.
PullPushes(t) ==
    /\ tab[t].pull.stage = "push" /\ ~tab[t].pull.stale /\ Open(t)
    /\ cloud' = IF tab[t].pull.seen > cloud THEN tab[t].pull.seen ELSE cloud
    /\ tab' = [u \in Tabs |->
         IF u = t THEN [tab[u] EXCEPT !.pull.stage = "clear", !.pull.again = FALSE]
         ELSE [tab[u] EXCEPT !.pull.stale = @ \/ tab[u].pull.stage = "push"]]
    /\ UNCHANGED <<lock, wire, pending, marks, torn, faults>>

\* A 409: once more from the register, then the push gives up until the next cycle.
PullConflicts(t) ==
    /\ tab[t].pull.stage = "push" /\ tab[t].pull.stale /\ Open(t)
    /\ tab' = [tab EXCEPT ![t] =
         IF @.pull.again THEN Over(@)
         ELSE [@ EXCEPT !.pull = [NoPull EXCEPT !.stage = "pull", !.again = TRUE]]]
    /\ UNCHANGED <<lock, wire, pending, cloud, marks, torn, faults>>

\* The request fails: the cycle ends, the mark stays for the next one.
PullFails(t) ==
    /\ tab[t].pull.stage \in {"pull", "push"} /\ faults < MaxFaults /\ Open(t)
    /\ tab' = [tab EXCEPT ![t] = Over(@)]
    /\ faults' = faults + 1
    /\ UNCHANGED <<lock, wire, pending, cloud, marks, torn>>

\* Mutant: the entry is removed whatever its mark has become.
MutPushed(seen) == TRUE

Pushed(seen) == pending = seen

\* clearPendingUploads reads the register: an entry that no longer has the mark that
\* was pushed is kept.
Clears(t) ==
    /\ tab[t].pull.stage = "clear" /\ Open(t)
    /\ tab' = [tab EXCEPT ![t] =
         IF Pushed(@.pull.seen) THEN [@ EXCEPT !.pull.stage = "erase", !.pull.seen = pending]
         ELSE Over(@)]
    /\ UNCHANGED <<lock, wire, pending, cloud, marks, torn, faults>>

\* It writes the register back without the entry, in another transaction.
Erases(t) ==
    /\ tab[t].pull.stage = "erase" /\ Open(t)
    /\ pending' = 0
    /\ torn' = IF pending > tab[t].pull.seen THEN pending ELSE torn
    /\ tab' = [tab EXCEPT ![t] = Over(@)]
    /\ UNCHANGED <<lock, wire, cloud, marks, faults>>

------------------------------------------------------------------------------
(* What asks for a cycle: an edit, the leader's timers, a follower.          *)

\* markPendingUpload, and the debounce of the tab that wrote.
Mark(t) ==
    /\ t \in Writers /\ marks < MaxMarks /\ tab[t].started /\ Open(t)
    /\ marks' = marks + 1
    /\ pending' = marks + 1
    /\ tab' = [tab EXCEPT ![t].debounce = TRUE]
    /\ UNCHANGED <<lock, wire, cloud, torn, faults>>

\* The debounce of a leader: a cycle, queued if one is under way.
DebounceOfLeader(t) ==
    /\ tab[t].debounce /\ tab[t].leader /\ Open(t) /\ Room(tab[t])
    /\ tab' = [tab EXCEPT ![t] = Entered([@ EXCEPT !.debounce = FALSE], TRUE)]
    /\ UNCHANGED <<lock, wire, pending, cloud, marks, torn, faults>>

\* The debounce of a follower: an identified request to whoever leads.
DebounceOfFollower(t) ==
    /\ tab[t].debounce /\ ~tab[t].leader /\ tab[t].ask = 0 /\ Open(t)
    /\ tab' = [tab EXCEPT ![t] = [@ EXCEPT !.debounce = FALSE,
                                           !.ask = marks]]
    /\ wire' = wire \cup
         {[kind |-> "cycle", id |-> [tab |-> t, seq |-> marks], to |-> u] :
            u \in {v \in Tabs \ {t} : tab[v].started}}
    /\ UNCHANGED <<lock, pending, cloud, marks, torn, faults>>

(* The period, a probe that found a change, a wake or the channel: a cycle if *)
(* none runs.  Bound: they do not add a run to one that has just begun.      *)
Tick(t) ==
    /\ tab[t].leader /\ ~CycleLocked(tab[t]) /\ Open(t) /\ Room(tab[t])
    /\ \A r \in tab[t].runs : r.stage # "asked"
    /\ tab' = [tab EXCEPT ![t] = Entered(@, FALSE)]
    /\ UNCHANGED <<lock, wire, pending, cloud, marks, torn, faults>>

\* onMessage, `cycle`: the leader acknowledges, then cycles or queues; others ignore it.
HearCycle(t) ==
    /\ Open(t) /\ Room(tab[t])
    /\ \E m \in wire :
         /\ m.kind = "cycle" /\ m.to = t
         /\ IF tab[t].leader
            THEN /\ tab' = [tab EXCEPT ![t] = Entered(@, TRUE)]
                 /\ wire' = (wire \ {m}) \cup {[m EXCEPT !.kind = "ack", !.to = m.id.tab]}
            ELSE tab' = tab /\ wire' = wire \ {m}
    /\ UNCHANGED <<lock, pending, cloud, marks, torn, faults>>

(* onMessage, `status`: the acknowledgement of one's own request.  Nothing    *)
(* more depends on it, the verdict that follows is for a click only.         *)
HearAck(t) ==
    /\ Open(t)
    /\ \E m \in wire :
         /\ m.kind = "ack" /\ m.to = t
         /\ wire' = wire \ {m}
         /\ tab' = IF ~tab[t].leader /\ m.id.seq = tab[t].ask
                   THEN [tab EXCEPT ![t].ask = 0] ELSE tab
    /\ UNCHANGED <<lock, pending, cloud, marks, torn, faults>>

\* askLeaderOrRunHere: nobody acknowledged, this tab pushes its modifications itself.
AckTimeout(t) ==
    /\ tab[t].ask # 0 /\ Open(t) /\ Room(tab[t])
    /\ tab' = [tab EXCEPT ![t] = Entered([@ EXCEPT !.ask = 0], TRUE)]
    /\ UNCHANGED <<lock, wire, pending, cloud, marks, torn, faults>>

------------------------------------------------------------------------------
(* The election: a Web Lock held for the life of the session.                *)

\* startSyncScheduler: a follower first, and in the queue of the lock.
Start(t) ==
    /\ ~tab[t].started /\ Open(t)
    /\ tab' = [tab EXCEPT ![t].started = TRUE]
    /\ lock' = [lock EXCEPT !.waiting = @ \cup {[tab |-> t, gen |-> tab[t].gen]}]
    /\ UNCHANGED <<wire, pending, cloud, marks, torn, faults>>

\* The lock manager hands the lock to a request; its callback has yet to run.
Grant ==
    /\ lock.holder = NobodysLock
    /\ \E q \in lock.waiting :
         lock' = [holder |-> [tab |-> q.tab, gen |-> q.gen, answered |-> FALSE],
                  waiting |-> lock.waiting \ {q}]
    /\ UNCHANGED <<tab, wire, pending, cloud, marks, torn, faults>>

\* Mutant: a lock granted after the stop promotes the tab all the same.
MutElects(T, gen) == ~T.leader

\* assumeLeadership refuses a request of a session that has ended.
Elects(T, gen) == gen = T.gen /\ ~T.leader

\* The callback: the tab leads and cycles at once, or gives the lock back.
Callback(t) ==
    /\ lock.holder.tab = t /\ ~lock.holder.answered /\ Open(t) /\ Room(tab[t])
    /\ IF Elects(tab[t], lock.holder.gen)
       THEN /\ tab' = [tab EXCEPT ![t] = Entered([@ EXCEPT !.leader = TRUE], FALSE)]
            /\ lock' = [lock EXCEPT !.holder.answered = TRUE]
       ELSE /\ tab' = tab
            /\ lock' = [lock EXCEPT !.holder = NobodysLock]
    /\ UNCHANGED <<wire, pending, cloud, marks, torn, faults>>

\* The abort of a request that was still waiting when its session ended.
Withdraw ==
    /\ \E q \in lock.waiting :
         /\ q.gen # tab[q.tab].gen
         /\ lock' = [lock EXCEPT !.waiting = @ \ {q}]
    /\ UNCHANGED <<tab, wire, pending, cloud, marks, torn, faults>>

(* stopSyncScheduler: the session's token passes, everything is reset, the   *)
(* role is given back.  A request nobody acknowledged falls back on a cycle  *)
(* of this tab's own, as at its time limit.                                  *)
Stopped(T) ==
    LET reset == [T EXCEPT !.started = FALSE, !.gen = @ + 1, !.leader = FALSE,
                           !.running = FALSE, !.late = FALSE, !.queued = FALSE,
                           !.debounce = FALSE, !.ask = 0]
    IN  IF T.ask # 0 THEN Entered(reset, TRUE) ELSE reset

Stop(t) ==
    /\ tab[t].started /\ faults < MaxFaults /\ Open(t)
    /\ HasSlot(tab[t])
    /\ tab' = [tab EXCEPT ![t] = Stopped(@)]
    /\ lock' = [lock EXCEPT !.holder = IF @.tab = t /\ @.answered THEN NobodysLock ELSE @]
    /\ wire' = {m \in wire : m.to # t}
    /\ faults' = faults + 1
    /\ UNCHANGED <<pending, cloud, marks, torn>>

------------------------------------------------------------------------------
(* What goes wrong: a tab disappears, a cycle is slow or hangs.  A tab that   *)
(* is frozen or throttled is one that takes no step for a while.             *)

\* The browser frees the lock and the place in the queue of a tab that is gone.
Close(t) ==
    /\ tab[t].started /\ faults < MaxFaults
    /\ tab' = [tab EXCEPT ![t] = [NewTab EXCEPT !.open = FALSE]]
    /\ lock' = [holder |-> IF lock.holder.tab = t THEN NobodysLock ELSE lock.holder,
                waiting |-> {q \in lock.waiting : q.tab # t}]
    /\ wire' = {m \in wire : m.to # t}
    /\ faults' = faults + 1
    /\ UNCHANGED <<pending, cloud, marks, torn>>

\* Three minutes since the lock of the cycle was taken.
GetsLate(t) ==
    /\ tab[t].running /\ ~tab[t].late /\ Open(t)
    /\ \/ /\ \E r \in tab[t].runs : Mine(tab[t], r) /\ r.stage = "hung"
          /\ faults' = faults
       \/ tab[t].pull.stage = "hung" /\ faults' = faults
       \/ faults < MaxFaults /\ faults' = faults + 1
    /\ tab' = [tab EXCEPT ![t].late = TRUE]
    /\ UNCHANGED <<lock, wire, pending, cloud, marks, torn>>

\* A request without a time limit never returns: in the guards, or inside the shared cycle.
Hangs(t) ==
    /\ faults < MaxFaults /\ Open(t)
    /\ \/ /\ "guard" \in HangsAt
          /\ \E r \in tab[t].runs :
               r.stage = "asked" /\ tab' = [tab EXCEPT ![t] = Taken(@, r, "hung")]
       \/ /\ "pull" \in HangsAt /\ tab[t].pull.stage = "pull"
          /\ tab' = [tab EXCEPT ![t].pull.stage = "hung"]
    /\ faults' = faults + 1
    /\ UNCHANGED <<lock, wire, pending, cloud, marks, torn>>

------------------------------------------------------------------------------

Pulling(t) ==
    \/ PullReads(t) \/ PullPushes(t) \/ PullConflicts(t) \/ Clears(t) \/ Erases(t)

Asking(t) ==
    \/ DebounceOfLeader(t) \/ DebounceOfFollower(t) \/ HearCycle(t) \/ HearAck(t)
    \/ AckTimeout(t)

Next ==
    \/ Grant \/ Withdraw
    \/ \E t \in Tabs :
         \/ RunPulls(t) \/ RunEnds(t)
         \/ Pulling(t) \/ PullFails(t)
         \/ Asking(t) \/ Mark(t) \/ Tick(t)
         \/ Start(t) \/ Callback(t) \/ Stop(t)
         \/ Close(t) \/ GetsLate(t) \/ Hangs(t)

Spec == Init /\ [][Next]_vars

(* An open tab keeps running: its promises resume, its timers fire, its      *)
(* messages are delivered.  The lock manager serves its queue.  A tab that   *)
(* sleeps is woken in the end.  Nothing makes a hung request return.         *)
Fairness ==
    /\ WF_vars(Grant) /\ WF_vars(Withdraw)
    /\ \A t \in Tabs :
         /\ WF_vars(RunPulls(t)) /\ WF_vars(RunEnds(t))
         /\ WF_vars(Pulling(t)) /\ WF_vars(Tick(t)) /\ WF_vars(Callback(t))
         /\ WF_vars(DebounceOfLeader(t)) /\ WF_vars(DebounceOfFollower(t))
         /\ WF_vars(HearCycle(t)) /\ WF_vars(HearAck(t)) /\ WF_vars(AckTimeout(t))
         /\ WF_vars(GetsLate(t))

FairSpec == Spec /\ Fairness

------------------------------------------------------------------------------
(* Properties.                                                               *)

TypeOK ==
    /\ tab \in [Tabs ->
         [open : BOOLEAN, started : BOOLEAN, gen : Gens, leader : BOOLEAN,
          running : BOOLEAN, late : BOOLEAN, token : 0 .. MaxRuns, queued : BOOLEAN,
          debounce : BOOLEAN, ask : Marks,
          runs : SUBSET Runs, pull : Pulls]]
    /\ \A t \in Tabs : \A r, s \in tab[t].runs : r.slot = s.slot => r = s
    /\ lock.holder \in [tab : Tabs \cup {NoTab}, gen : Gens, answered : BOOLEAN]
    /\ lock.waiting \subseteq Requests
    /\ wire \subseteq Messages
    /\ {pending, cloud, marks, torn} \subseteq Marks /\ faults \in 0 .. MaxFaults

(* Whoever leads holds the Web Lock of its present session, so two tabs      *)
(* never lead at once; and a lock whose callback has run is a leader's: no   *)
(* stopped tab keeps it from the others.                                     *)
LockIsLeadership ==
    /\ \A t \in Tabs : tab[t].leader =>
         /\ tab[t].started
         /\ lock.holder = [tab |-> t, gen |-> tab[t].gen, answered |-> TRUE]
    /\ lock.holder.answered => tab[lock.holder.tab].leader

(* A cycle in flight under the present token has its lock: no other run that *)
(* ends, not even one the watchdog gave up for lost, opens it.               *)
YoungestKeepsLock ==
    \A t \in Tabs : \A r \in tab[t].runs :
        r.stage \in {"hung", "pull", "pulled"} /\ Mine(tab[t], r) /\ ~tab[t].late
        => tab[t].running

(* What the cloud does not have is in the register: the acknowledgement of a *)
(* push never erases the mark of an edit made while it was under way, unless *)
(* the mark was put between the read and the write of the register itself.   *)
NoMarkForgotten == cloud < marks /\ torn < marks => pending = marks

(* The same without exception, as the comment of clearPendingUploads has it. *)
(* Does not hold: two transactions, and a mark between them, forget the edit. *)
TheNewMarkStays == cloud < marks => pending = marks

(* As long as some tab keeps running, every modification reaches the cloud,  *)
(* whichever tab made it, although leaders stop, sleep, close or hang; but   *)
(* for one whose mark such a write erased.                                   *)
Works(t) == tab[t].started
ModificationLeaves ==
    (\E t \in Tabs : <>[]Works(t)) => \A n \in 1 .. MaxMarks : marks >= n ~> cloud >= n \/ torn >= n

(* A request refused because a cycle runs is queued, not thrown away: as     *)
(* long as the session lasts it leaves the queue only to be replayed.        *)
(* Does not hold: a run that is not the holder's ends and takes the request  *)
(* with it.                                                                  *)
QueuedIsReplayed ==
    [][\A t \in Tabs :
         tab[t].queued /\ ~tab'[t].queued /\ tab'[t].gen = tab[t].gen /\ tab'[t].open
         => \E r \in tab'[t].runs \ tab[t].runs : r.stage = "asked"]_vars
==============================================================================
