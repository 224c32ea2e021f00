----------------------------- MODULE WebTabsProofs -----------------------------
(***************************************************************************)
(* The invariants of WebTabs, for any set of tabs and any bounds.          *)
(*                                                                         *)
(* The proof goes in two layers.  What one tab does to its own variables   *)
(* is a fact about the operators of the scheduler (Entered, Taken,         *)
(* Finished, Over, Stopped): each keeps a tab Sound.  What the tabs owe to *)
(* one another goes through the lock, the register and the cloud.          *)
(***************************************************************************)
EXTENDS WebTabs, TLAPS

TabStates ==
    [open : BOOLEAN, started : BOOLEAN, gen : Gens, leader : BOOLEAN,
     running : BOOLEAN, late : BOOLEAN, token : 0 .. MaxRuns, queued : BOOLEAN,
     debounce : BOOLEAN, ask : Marks,
     runs : SUBSET Runs, pull : Pulls]

\* The runs under way in a tab are told apart by their slots.
Distinct(T) == \A r, s \in T.runs : r.slot = s.slot => r = s

\* No run is of a session to come.
OfThePast(T) == \A r \in T.runs : r.gen <= T.gen

\* YoungestKeepsLock, of one tab.
Kept(T) ==
    \A r \in T.runs :
        r.stage \in {"hung", "pull", "pulled"} /\ Mine(T, r) /\ ~T.late => T.running

Sound(T) == T \in TabStates /\ Distinct(T) /\ OfThePast(T) /\ Kept(T)

\* What the other tabs can see of a tab is left alone.
Steady(T, U) ==
    U.open = T.open /\ U.started = T.started /\ U.gen = T.gen /\ U.leader = T.leader

----------------------------------------------------------------------------
(* The scheduler of one tab.                                                *)

\* A new run takes a slot that is free.
LEMMA FreeSlotIsFree ==
    ASSUME NEW T, HasSlot(T)
    PROVE  FreeSlot(T) \in 1 .. MaxRuns /\ \A r \in T.runs : r.slot # FreeSlot(T)
  BY DEF HasSlot, FreeSlot

\* A tab whose lock is taken back on the way in: the runs under way keep still.
LEMMA EnteredSound ==
    ASSUME NEW T, Sound(T), NEW requeue \in BOOLEAN, Room(T)
    PROVE  /\ Sound(Entered(T, requeue)) /\ Steady(T, Entered(T, requeue))
           /\ Entered(T, requeue).pull = T.pull
           /\ Entered(T, requeue).debounce = T.debounce
           /\ Entered(T, requeue).ask = T.ask
  <1> DEFINE U == Entered(T, requeue)
  <1>1. CASE CycleLocked(T)
    <2>1. U = [T EXCEPT !.queued = @ \/ requeue]
      BY <1>1 DEF Entered
    <2>2. U \in TabStates /\ U.runs = T.runs /\ U.gen = T.gen /\ U.token = T.token
          /\ U.late = T.late /\ U.running = T.running
      BY <2>1 DEF Sound, TabStates
    <2>3. Distinct(U) /\ OfThePast(U) /\ Kept(U)
      BY <2>2 DEF Sound, Distinct, OfThePast, Kept, Mine
    <2> QED
      BY <2>1, <2>2, <2>3 DEF Sound, Steady, TabStates
  <1>2. CASE ~CycleLocked(T)
    <2> DEFINE n == [slot |-> FreeSlot(T), stage |-> "asked", gen |-> 0]
    <2>1. U = [T EXCEPT !.running = FALSE, !.runs = @ \cup {n}]
      BY <1>2 DEF Entered
    <2>2. n \in Runs /\ \A r \in T.runs : r.slot # n.slot
      BY <1>2, FreeSlotIsFree, BoundsAssumption DEF Room, Runs, RunStages, Gens
    <2> HIDE DEF n
    <2>3. U \in TabStates /\ U.runs = T.runs \cup {n} /\ U.gen = T.gen /\ U.token = T.token
          /\ U.late = T.late /\ T.gen \in Gens
      BY <2>1, <2>2 DEF Sound, TabStates
    <2>4. Distinct(U)
      BY <2>2, <2>3 DEF Sound, Distinct
    <2>5. OfThePast(U)
      BY <2>3, BoundsAssumption DEF Sound, OfThePast, n, Gens
    <2>6. Kept(U)
      <3>1. T.late \/ ~T.running
        BY <1>2 DEF CycleLocked
      <3> QED
        BY <2>3, <3>1 DEF Sound, Kept, Mine, n
    <2> QED
      BY <2>1, <2>3, <2>4, <2>5, <2>6 DEF Sound, Steady, TabStates
  <1> QED
    BY <1>1, <1>2

\* A run that passes its await takes the lock, and the token with it.
LEMMA TakenSound ==
    ASSUME NEW T, Sound(T), NEW r \in T.runs, NEW stage \in RunStages
    PROVE  /\ Sound(Taken(T, r, stage)) /\ Steady(T, Taken(T, r, stage))
           /\ Taken(T, r, stage).pull = T.pull
           /\ Taken(T, r, stage).debounce = T.debounce
           /\ Taken(T, r, stage).ask = T.ask
  <1> DEFINE U == Taken(T, r, stage)
             n == [r EXCEPT !.stage = stage, !.gen = T.gen]
  <1>1. /\ r \in Runs /\ n \in Runs /\ n.slot = r.slot /\ n.gen = T.gen
        /\ r.slot \in 1 .. MaxRuns /\ T.gen \in Gens
    BY DEF Sound, TabStates, Runs
  <1>2. U = [T EXCEPT !.running = TRUE, !.late = FALSE, !.token = r.slot,
                      !.runs = (@ \ {r}) \cup {n}]
    BY DEF Taken
  <1> HIDE DEF n
  <1>3. U \in TabStates /\ U.runs = (T.runs \ {r}) \cup {n} /\ U.gen = T.gen /\ U.running
    <2>1. (T.runs \ {r}) \cup {n} \subseteq Runs /\ r.slot \in 0 .. MaxRuns
      BY <1>1, BoundsAssumption DEF Sound, TabStates
    <2> QED
      BY <1>2, <2>1 DEF Sound, TabStates
  <1>4. Distinct(U)
    BY <1>1, <1>3 DEF Sound, Distinct
  <1>5. OfThePast(U)
    BY <1>1, <1>3, BoundsAssumption DEF Sound, OfThePast, Gens
  <1>6. Kept(U)
    BY <1>3 DEF Kept
  <1> QED
    BY <1>2, <1>3, <1>4, <1>5, <1>6 DEF Sound, Steady, TabStates

\* A run that ends: whoever is left under the present token keeps the lock.
LEMMA FinishedSound ==
    ASSUME NEW T, Sound(T), NEW r \in T.runs
    PROVE  /\ Sound(Finished(T, r)) /\ Steady(T, Finished(T, r))
           /\ Finished(T, r).pull = T.pull
           /\ Finished(T, r).debounce = T.debounce
           /\ Finished(T, r).ask = T.ask
  <1> DEFINE left == [T EXCEPT !.runs = @ \ {r}, !.running = @ /\ ~Mine(T, r),
                               !.late = @ /\ ~Mine(T, r),
                               !.token = IF Mine(T, r) THEN 0 ELSE @,
                               !.queued = @ /\ r.gen # T.gen]
  <1>1. /\ left \in TabStates /\ left.runs = T.runs \ {r} /\ left.gen = T.gen
        /\ left.token = (IF Mine(T, r) THEN 0 ELSE T.token)
        /\ left.pull = T.pull /\ left.debounce = T.debounce /\ left.ask = T.ask
        /\ Steady(T, left)
    <2>1. (IF Mine(T, r) THEN 0 ELSE T.token) \in 0 .. MaxRuns
      BY BoundsAssumption DEF Sound, TabStates
    <2>2. T.runs \ {r} \in SUBSET Runs
      BY DEF Sound, TabStates
    <2>3. left \in TabStates
      BY <2>1, <2>2 DEF Sound, TabStates
    <2> QED
      BY <2>3 DEF Sound, TabStates, Steady
  <1>2. Mine(T, r) \/ (left.running = T.running /\ left.late = T.late)
    BY DEF Sound, TabStates
  <1>3. Distinct(left) /\ OfThePast(left)
    BY <1>1 DEF Sound, Distinct, OfThePast
  <1>4. Kept(left)
    <2>1. \A s \in T.runs : s.slot # 0
      BY DEF Sound, TabStates, Runs
    <2>2. CASE Mine(T, r)
      BY <1>1, <2>1, <2>2 DEF Kept, Mine
    <2>3. CASE ~Mine(T, r)
      BY <1>1, <1>2, <2>3 DEF Sound, Kept, Mine
    <2> QED
      BY <2>2, <2>3
  <1>5. Sound(left)
    BY <1>1, <1>3, <1>4 DEF Sound
  <1>6. r.slot \in 1 .. MaxRuns /\ \A s \in left.runs : s.slot # r.slot
    BY <1>1 DEF Sound, TabStates, Runs, Distinct
  <1>7. Room(left)
    BY <1>6 DEF Room, HasSlot
  <1>8. Finished(T, r) = IF Mine(T, r) /\ T.queued THEN Entered(left, FALSE) ELSE left
    BY DEF Finished
  <1> HIDE DEF left
  <1>9. /\ Sound(Entered(left, FALSE)) /\ Steady(left, Entered(left, FALSE))
        /\ Entered(left, FALSE).pull = left.pull
        /\ Entered(left, FALSE).debounce = left.debounce
        /\ Entered(left, FALSE).ask = left.ask
    BY <1>5, <1>7, EnteredSound
  <1> QED
    BY <1>1, <1>5, <1>8, <1>9 DEF Steady

\* The shared cycle is over: its runs resume.
LEMMA OverSound ==
    ASSUME NEW T, Sound(T)
    PROVE  /\ Sound(Over(T)) /\ Steady(T, Over(T)) /\ Over(T).pull = NoPull
           /\ Over(T).debounce = T.debounce
  <1> DEFINE U == Over(T)
             Resumed(r) == IF r.stage = "pull" THEN [r EXCEPT !.stage = "pulled"] ELSE r
  <1>1. U = [T EXCEPT !.pull = NoPull, !.runs = {Resumed(r) : r \in @}]
    BY DEF Over
  <1>2. \A r \in T.runs : /\ Resumed(r) \in Runs /\ Resumed(r).slot = r.slot
                          /\ Resumed(r).gen = r.gen
                          /\ Resumed(r).stage \in {"hung", "pull", "pulled"} =>
                               r.stage \in {"hung", "pull", "pulled"}
    BY DEF Sound, TabStates, Runs, RunStages
  <1>3. NoPull \in Pulls
    BY BoundsAssumption DEF NoPull, Pulls, Marks
  <1> HIDE DEF Resumed
  <1>4. {Resumed(r) : r \in T.runs} \in SUBSET Runs
    BY <1>2
  <1>5. U \in TabStates
    BY <1>1, <1>3, <1>4 DEF Sound, TabStates
  <1>6. U.runs = {Resumed(r) : r \in T.runs} /\ U.pull = NoPull
    BY <1>1 DEF Sound, TabStates
  <1>7. /\ U.gen = T.gen /\ U.token = T.token /\ U.late = T.late
        /\ U.running = T.running /\ U.debounce = T.debounce /\ Steady(T, U)
    BY <1>1 DEF Sound, TabStates, Steady
  <1>8. Distinct(U) /\ OfThePast(U)
    BY <1>2, <1>6, <1>7 DEF Sound, Distinct, OfThePast
  <1>9. Kept(U)
    BY <1>2, <1>6, <1>7 DEF Sound, Kept, Mine
  <1> QED
    BY <1>5, <1>6, <1>7, <1>8, <1>9 DEF Sound

\* The session ends: no run is of the session that comes next.
LEMMA StoppedSound ==
    ASSUME NEW T, Sound(T), T.gen + 1 \in Gens, HasSlot(T)
    PROVE  /\ Sound(Stopped(T)) /\ Stopped(T).pull = T.pull
           /\ Stopped(T).open = T.open /\ ~Stopped(T).started /\ ~Stopped(T).leader
           /\ Stopped(T).gen = T.gen + 1 /\ ~Stopped(T).debounce
  <1> DEFINE reset == [T EXCEPT !.started = FALSE, !.gen = @ + 1, !.leader = FALSE,
                                !.running = FALSE, !.late = FALSE, !.queued = FALSE,
                                !.debounce = FALSE, !.ask = 0]
  <1>1. /\ reset \in TabStates /\ reset.runs = T.runs /\ reset.gen = T.gen + 1
        /\ reset.pull = T.pull /\ reset.open = T.open
        /\ ~reset.started /\ ~reset.leader /\ ~reset.debounce
    <2>1. 0 \in Marks
      BY BoundsAssumption DEF Marks
    <2>2. reset \in TabStates
      BY <2>1 DEF Sound, TabStates
    <2>3. /\ reset.runs = T.runs /\ reset.gen = T.gen + 1
          /\ reset.pull = T.pull /\ reset.open = T.open
      BY DEF Sound, TabStates
    <2>4. ~reset.started /\ ~reset.leader /\ ~reset.debounce
      BY DEF Sound, TabStates
    <2> QED
      BY <2>2, <2>3, <2>4
  <1>2. \A r \in T.runs : r.gen <= T.gen /\ r.gen \in Nat /\ T.gen \in Nat
    BY BoundsAssumption DEF Sound, OfThePast, TabStates, Runs, Gens
  <1>3. Distinct(reset) /\ OfThePast(reset) /\ Kept(reset)
    BY <1>1, <1>2 DEF Sound, Distinct, OfThePast, Kept, Mine
  <1>4. Room(reset)
    BY <1>1 DEF Room, HasSlot
  <1>5. Stopped(T) = IF T.ask # 0 THEN Entered(reset, TRUE) ELSE reset
    BY DEF Stopped
  <1> HIDE DEF reset
  <1>6. Sound(reset)
    BY <1>1, <1>3 DEF Sound
  <1>7. /\ Sound(Entered(reset, TRUE)) /\ Steady(reset, Entered(reset, TRUE))
        /\ Entered(reset, TRUE).pull = reset.pull
        /\ Entered(reset, TRUE).debounce = reset.debounce
    BY <1>4, <1>6, EnteredSound
  <1> QED
    BY <1>1, <1>5, <1>6, <1>7 DEF Steady

\* A change of what the scheduler does not look at keeps a tab sound.
LEMMA SoundElsewhere ==
    ASSUME NEW T, NEW U, Sound(T), U \in TabStates, U.gen = T.gen, U.token = T.token,
           U.runs = T.runs, U.running = T.running, U.late = T.late \/ U.late = TRUE
    PROVE  Sound(U)
  BY DEF Sound, Distinct, OfThePast, Kept, Mine

LEMMA NewTabSound ==
    /\ Sound(NewTab) /\ Sound([NewTab EXCEPT !.open = FALSE])
    /\ NewTab.pull = NoPull
  <1>1. NoPull \in Pulls /\ {} \subseteq Runs
    BY BoundsAssumption DEF NoPull, Pulls, Marks
  <1>2. 0 \in Gens /\ 0 \in Marks /\ 0 \in 0 .. MaxRuns
    BY BoundsAssumption DEF Gens, Marks
  <1>3. NewTab \in TabStates
    BY <1>1, <1>2 DEF NewTab, TabStates
  <1>4. [NewTab EXCEPT !.open = FALSE] \in TabStates
    BY <1>3 DEF TabStates
  <1>5. NewTab.runs = {} /\ [NewTab EXCEPT !.open = FALSE].runs = {} /\ NewTab.pull = NoPull
    BY DEF NewTab
  <1> QED
    BY <1>3, <1>4, <1>5 DEF Sound, Distinct, OfThePast, Kept

----------------------------------------------------------------------------
(* The inductive invariant.                                                 *)

Holders == [tab : Tabs \cup {NoTab}, gen : Gens, answered : BOOLEAN]

SharedTypes ==
    /\ lock \in [holder : Holders, waiting : SUBSET Requests]
    /\ wire \in SUBSET Messages
    /\ pending \in Marks /\ cloud \in Marks /\ marks \in Marks /\ torn \in Marks
    /\ faults \in 0 .. MaxFaults

TabsAreSound ==
    /\ tab \in [Tabs -> TabStates]
    /\ \A t \in Tabs : /\ Sound(tab[t])
                       /\ tab[t].gen <= faults
                       /\ tab[t].debounce => marks > 0

\* A request for the lock is of a session that lasts, or of one gone by.
Asked(q) ==
    /\ q.gen <= tab[q.tab].gen
    /\ q.gen = tab[q.tab].gen => tab[q.tab].started

\* LockIsLeadership, with the queue the leaders come from.
Succession ==
    /\ LockIsLeadership
    /\ lock.holder.answered => lock.holder.tab \in Tabs
    /\ lock.holder.tab \in Tabs => Asked(lock.holder)
    /\ \A q \in lock.waiting : Asked(q)

\* The stages of a push that passed and whose mark is still to be erased.
Acknowledged == {"clear", "erase"}

\* NoMarkForgotten, with the push whose acknowledgement is to come: it erases what
\* the cloud has.
Register ==
    /\ NoMarkForgotten
    /\ pending = 0 \/ pending = marks
    /\ \A t \in Tabs : tab[t].pull.stage \in Acknowledged => tab[t].pull.seen <= cloud

IInv == SharedTypes /\ TabsAreSound /\ Succession /\ Register

LEMMA Bounds == MaxFaults \in Nat /\ MaxMarks \in Nat /\ MaxRuns \in Nat
                /\ Gens = 0 .. MaxFaults /\ Marks = 0 .. MaxMarks
  BY BoundsAssumption DEF Gens, Marks

\* A step of one tab that the lock does not see and the register need not know.
LEMMA LocalStep ==
    ASSUME IInv, NEW t \in Tabs, NEW U, Sound(U), Steady(tab[t], U),
           U.debounce => tab[t].debounce,
           U.pull = tab[t].pull \/ U.pull.stage \notin Acknowledged \/ U.pull.seen <= cloud,
           tab' = [tab EXCEPT ![t] = U],
           lock' = lock, pending' = pending, cloud' = cloud, marks' = marks, torn' = torn,
           wire' \in SUBSET Messages, faults' \in faults .. MaxFaults
    PROVE  IInv'
  <1> USE DEF IInv
  <1>1. /\ tab' \in [Tabs -> TabStates] /\ tab'[t] = U
        /\ \A u \in Tabs : u # t => tab'[u] = tab[u]
    BY DEF TabsAreSound, Sound
  <1>2. \A u \in Tabs : Steady(tab[u], tab'[u])
    BY <1>1 DEF Steady
  <1>3. SharedTypes'
    BY Bounds DEF SharedTypes
  <1>4. TabsAreSound'
    <2> SUFFICES ASSUME NEW u \in Tabs
                 PROVE  /\ Sound(tab'[u]) /\ tab'[u].gen <= faults'
                        /\ tab'[u].debounce => marks' > 0
      BY <1>1 DEF TabsAreSound
    <2>1. tab[u].gen \in Nat /\ faults \in Nat /\ tab[u].gen <= faults
      BY Bounds DEF TabsAreSound, TabStates, SharedTypes
    <2>2. tab'[u].gen = tab[u].gen
      BY <1>2 DEF Steady
    <2> QED
      BY <1>1, <2>1, <2>2 DEF TabsAreSound
  <1>5. Succession'
    <2>1. LockIsLeadership'
      BY <1>2 DEF Succession, LockIsLeadership, Steady
    <2>2. \A q \in lock.waiting : Asked(q)'
      BY <1>2 DEF Succession, Asked, Steady, SharedTypes, Requests
    <2>3. lock.holder.tab \in Tabs => Asked(lock.holder)'
      BY <1>2 DEF Succession, Asked, Steady
    <2> QED
      BY <2>1, <2>2, <2>3 DEF Succession
  <1>6. Register'
    BY <1>1 DEF Register, NoMarkForgotten
  <1> QED
    BY <1>3, <1>4, <1>5, <1>6

LEMMA InitIInv == Init => IInv
  <1> SUFFICES ASSUME Init PROVE IInv
    OBVIOUS
  <1>1. SharedTypes
    <2>1. NobodysLock \in Holders
      BY Bounds DEF NobodysLock, Holders
    <2> QED
      BY <2>1, Bounds DEF Init, SharedTypes
  <1>2. TabsAreSound
    <2>1. NewTab \in TabStates /\ NewTab.gen = 0 /\ ~NewTab.debounce
      BY NewTabSound DEF Sound, NewTab
    <2> QED
      BY <2>1, NewTabSound DEF Init, TabsAreSound
  <1>3. Succession
    <2>1. lock.holder.answered = FALSE /\ lock.holder.tab = NoTab /\ lock.waiting = {}
      BY DEF Init, NobodysLock
    <2>2. \A t \in Tabs : tab[t].leader = FALSE
      BY DEF Init, NewTab
    <2> QED
      BY <2>1, <2>2, TabsAssumption DEF Succession, LockIsLeadership
  <1>4. Register
    <2>1. \A t \in Tabs : tab[t].pull.stage = "none"
      BY DEF Init, NewTab, NoPull
    <2> QED
      BY <2>1 DEF Init, Register, NoMarkForgotten, Acknowledged
  <1> QED
    BY <1>1, <1>2, <1>3, <1>4 DEF IInv

----------------------------------------------------------------------------
(* The steps of the scheduler and of the shared cycle.                      *)

LEMMA FaultsBound ==
    ASSUME IInv
    PROVE  faults \in faults .. MaxFaults /\ (faults < MaxFaults => faults + 1 \in faults .. MaxFaults)
  BY Bounds DEF IInv, SharedTypes

LEMMA RunPullsKeeps ==
    ASSUME IInv, NEW t \in Tabs, RunPulls(t)
    PROVE  IInv'
  <1> USE DEF IInv
  <1>1. PICK r \in tab[t].runs : tab' = [tab EXCEPT ![t] = Joined(Taken(@, r, "pull"))]
    BY DEF RunPulls
  <1> DEFINE V == Taken(tab[t], r, "pull")
             U == Joined(V)
             begun == [NoPull EXCEPT !.stage = "pull"]
  <1>2. /\ Sound(V) /\ Steady(tab[t], V) /\ V.pull = tab[t].pull
        /\ V.debounce = tab[t].debounce
    BY TakenSound DEF TabsAreSound, RunStages
  <1>3. tab' = [tab EXCEPT ![t] = U]
    BY <1>1
  <1> HIDE DEF V
  <1>4. begun \in Pulls /\ begun.stage = "pull"
    <2>1. 0 \in Marks
      BY Bounds
    <2> QED
      BY <2>1 DEF NoPull, Pulls
  <1>5. V \in TabStates
    BY <1>2 DEF Sound
  <1>6. U = (IF V.pull.stage = "none" THEN [V EXCEPT !.pull = begun] ELSE V)
    BY DEF Joined
  <1> HIDE DEF U, begun
  <1>7. /\ U \in TabStates /\ U.gen = V.gen /\ U.token = V.token /\ U.runs = V.runs
        /\ U.running = V.running /\ U.late = V.late /\ U.debounce = V.debounce
        /\ Steady(V, U) /\ (U.pull = V.pull \/ U.pull.stage = "pull")
    BY <1>4, <1>5, <1>6 DEF TabStates, Steady
  <1>8. Sound(U)
    BY <1>2, <1>7, SoundElsewhere
  <1>9. Steady(tab[t], U) /\ (U.pull = tab[t].pull \/ U.pull.stage \notin Acknowledged)
    BY <1>2, <1>7 DEF Steady, Acknowledged
  <1> QED
    BY <1>2, <1>3, <1>7, <1>8, <1>9, LocalStep, FaultsBound DEF RunPulls, SharedTypes

LEMMA RunEndsKeeps ==
    ASSUME IInv, NEW t \in Tabs, RunEnds(t)
    PROVE  IInv'
  <1> USE DEF IInv
  <1>1. PICK r \in tab[t].runs : tab' = [tab EXCEPT ![t] = Finished(@, r)]
    BY DEF RunEnds
  <1> DEFINE U == Finished(tab[t], r)
  <1>2. /\ Sound(U) /\ Steady(tab[t], U) /\ U.pull = tab[t].pull
        /\ U.debounce = tab[t].debounce
    BY FinishedSound DEF TabsAreSound
  <1>3. tab' = [tab EXCEPT ![t] = U]
    BY <1>1
  <1> HIDE DEF U
  <1> QED
    BY <1>2, <1>3, LocalStep, FaultsBound DEF RunEnds, SharedTypes

\* The cycle of a tab ends, or goes back to its start: its push is forgotten.
LEMMA OverKeeps ==
    ASSUME IInv, NEW t \in Tabs, tab' = [tab EXCEPT ![t] = Over(@)],
           lock' = lock, pending' = pending, cloud' = cloud, marks' = marks,
           torn' = torn, wire' = wire,
           faults' \in faults .. MaxFaults
    PROVE  IInv'
  <1> USE DEF IInv
  <1> DEFINE U == Over(tab[t])
  <1>1. Sound(U) /\ Steady(tab[t], U) /\ U.pull = NoPull /\ U.debounce = tab[t].debounce
    BY OverSound DEF TabsAreSound
  <1>2. tab' = [tab EXCEPT ![t] = U] /\ NoPull.stage \notin Acknowledged
    BY DEF NoPull, Acknowledged
  <1> HIDE DEF U
  <1> QED
    BY <1>1, <1>2, LocalStep DEF SharedTypes

\* The shared cycle moves on inside a tab, short of a push that passed.
LEMMA PullMoves ==
    ASSUME IInv, NEW t \in Tabs, NEW pull \in Pulls, pull.stage \notin Acknowledged,
           tab' = [tab EXCEPT ![t] = [@ EXCEPT !.pull = pull]],
           lock' = lock, pending' = pending, cloud' = cloud, marks' = marks,
           torn' = torn, wire' = wire,
           faults' \in faults .. MaxFaults
    PROVE  IInv'
  <1> USE DEF IInv
  <1> DEFINE U == [tab[t] EXCEPT !.pull = pull]
  <1>0. Sound(tab[t]) /\ tab[t] \in TabStates
    BY DEF TabsAreSound, Sound
  <1>1. /\ U \in TabStates /\ U.gen = tab[t].gen /\ U.token = tab[t].token
        /\ U.runs = tab[t].runs /\ U.running = tab[t].running /\ U.late = tab[t].late
        /\ U.debounce = tab[t].debounce /\ Steady(tab[t], U) /\ U.pull = pull
    BY <1>0 DEF TabStates, Steady
  <1>2. tab' = [tab EXCEPT ![t] = U]
    OBVIOUS
  <1> HIDE DEF U
  <1>3. Sound(U)
    BY <1>0, <1>1, SoundElsewhere
  <1> QED
    BY <1>1, <1>2, <1>3, LocalStep DEF SharedTypes

LEMMA PullReadsKeeps ==
    ASSUME IInv, NEW t \in Tabs, PullReads(t)
    PROVE  IInv'
  <1>1. CASE pending = 0
    BY <1>1, OverKeeps, FaultsBound DEF PullReads
  <1>2. CASE pending # 0
    <2> DEFINE pull == [tab[t].pull EXCEPT !.stage = "push", !.seen = pending, !.stale = FALSE]
    <2>1. tab[t].pull \in Pulls /\ tab[t] \in TabStates /\ pending \in Marks
      BY DEF IInv, TabsAreSound, TabStates, SharedTypes
    <2>2. pull \in Pulls /\ pull.stage = "push"
      BY <2>1 DEF Pulls
    <2>3. tab' = [tab EXCEPT ![t] = [@ EXCEPT !.pull = pull]]
      BY <1>2, <2>1 DEF PullReads, TabStates, Pulls, IInv, TabsAreSound
    <2> HIDE DEF pull
    <2> QED
      BY <2>2, <2>3, PullMoves, FaultsBound DEF PullReads, Acknowledged
  <1> QED
    BY <1>1, <1>2

LEMMA PullConflictsKeeps ==
    ASSUME IInv, NEW t \in Tabs, PullConflicts(t)
    PROVE  IInv'
  <1>1. CASE tab[t].pull.again
    BY <1>1, OverKeeps, FaultsBound DEF PullConflicts, IInv, TabsAreSound
  <1>2. CASE ~tab[t].pull.again
    <2> DEFINE pull == [NoPull EXCEPT !.stage = "pull", !.again = TRUE]
    <2>1. tab[t].pull \in Pulls /\ tab[t] \in TabStates
      BY DEF IInv, TabsAreSound, TabStates
    <2>a. 0 \in Marks
      BY Bounds
    <2>2. pull \in Pulls /\ pull.stage = "pull"
      BY <2>a DEF NoPull, Pulls
    <2>3. tab' = [tab EXCEPT ![t] = [@ EXCEPT !.pull = pull]]
      BY <1>2, <2>1 DEF PullConflicts, TabStates, Pulls, IInv, TabsAreSound
    <2> HIDE DEF pull
    <2> QED
      BY <2>2, <2>3, PullMoves, FaultsBound DEF PullConflicts, Acknowledged
  <1> QED
    BY <1>1, <1>2

\* The push passes: the cloud has what it carried, and it carried what it saw.
LEMMA PullPushesKeeps ==
    ASSUME IInv, NEW t \in Tabs, PullPushes(t)
    PROVE  IInv'
  <1> USE DEF IInv
  <1> DEFINE After(u) == IF u = t THEN [tab[u] EXCEPT !.pull.stage = "clear", !.pull.again = FALSE]
                         ELSE [tab[u] EXCEPT !.pull.stale = @ \/ tab[u].pull.stage = "push"]
  <1>1. tab' = [u \in Tabs |-> After(u)]
    BY DEF PullPushes
  <1>2. ASSUME NEW u \in Tabs
        PROVE  /\ After(u) \in TabStates /\ After(u).gen = tab[u].gen
               /\ After(u).token = tab[u].token /\ After(u).runs = tab[u].runs
               /\ After(u).running = tab[u].running /\ After(u).late = tab[u].late
               /\ After(u).debounce = tab[u].debounce /\ Steady(tab[u], After(u))
               /\ After(u).pull.seen = tab[u].pull.seen
               /\ u # t => After(u).pull.stage = tab[u].pull.stage
    <2>1. tab[u] \in TabStates /\ tab[u].pull \in Pulls
      BY DEF TabsAreSound, TabStates
    <2>2. CASE u = t
      BY <2>1, <2>2 DEF TabStates, Pulls, Steady
    <2>3. CASE u # t
      BY <2>1, <2>3 DEF TabStates, Pulls, Steady
    <2> QED
      BY <2>2, <2>3
  <1> HIDE DEF After
  <1>3. \A u \in Tabs : tab'[u] = After(u) /\ Sound(After(u))
    BY <1>1, <1>2, SoundElsewhere DEF TabsAreSound
  <1>4. /\ cloud' \in Marks /\ cloud' >= cloud /\ cloud' >= tab[t].pull.seen
        /\ UNCHANGED <<lock, wire, pending, marks, torn, faults>>
    <2>1. tab[t].pull.seen \in Marks /\ cloud \in Marks
      BY DEF TabsAreSound, TabStates, Pulls, SharedTypes
    <2>2. /\ cloud' = IF tab[t].pull.seen > cloud THEN tab[t].pull.seen ELSE cloud
          /\ UNCHANGED <<lock, wire, pending, marks, torn, faults>>
      BY DEF PullPushes
    <2>3. cloud' \in Marks /\ cloud' >= cloud /\ cloud' >= tab[t].pull.seen
      BY <2>1, <2>2, Bounds
    <2> QED
      BY <2>2, <2>3
  <1>5. SharedTypes'
    BY <1>4 DEF SharedTypes
  <1>6. TabsAreSound'
    BY <1>1, <1>2, <1>3, <1>4 DEF TabsAreSound
  <1>7. Succession'
    <2>1. \A u \in Tabs : Steady(tab[u], tab'[u])
      BY <1>2, <1>3
    <2>2. LockIsLeadership'
      BY <1>4, <2>1 DEF Succession, LockIsLeadership, Steady
    <2>3. \A q \in lock.waiting : Asked(q)'
      BY <2>1 DEF Succession, Asked, Steady, SharedTypes, Requests
    <2>4. lock.holder.tab \in Tabs => Asked(lock.holder)'
      BY <1>4, <2>1 DEF Succession, Asked, Steady
    <2> QED
      BY <1>4, <2>2, <2>3, <2>4 DEF Succession
  <1>8. Register'
    <2>1. NoMarkForgotten'
      BY <1>4, Bounds DEF Register, NoMarkForgotten, SharedTypes
    <2>2. ASSUME NEW u \in Tabs, tab'[u].pull.stage \in Acknowledged
          PROVE  tab'[u].pull.seen <= cloud'
      <3>1. tab[u].pull.seen \in Marks
        BY DEF TabsAreSound, TabStates, Pulls
      <3> QED
        BY <1>2, <1>3, <1>4, <2>2, <3>1, Bounds DEF Register, SharedTypes
    <2> QED
      BY <1>4, <2>1, <2>2 DEF Register
  <1> QED
    BY <1>5, <1>6, <1>7, <1>8

\* The acknowledgement reads the register: it goes on with what was pushed.
LEMMA ClearsKeeps ==
    ASSUME IInv, NEW t \in Tabs, Clears(t)
    PROVE  IInv'
  <1>1. CASE pending # tab[t].pull.seen
    BY <1>1, OverKeeps, FaultsBound DEF Clears, Pushed, IInv, TabsAreSound
  <1>2. CASE pending = tab[t].pull.seen
    <2> DEFINE pull == [tab[t].pull EXCEPT !.stage = "erase", !.seen = pending]
               U == [tab[t] EXCEPT !.pull = pull]
    <2>1. /\ tab[t].pull \in Pulls /\ tab[t] \in TabStates /\ Sound(tab[t])
          /\ pending \in Marks
      BY DEF IInv, TabsAreSound, TabStates, SharedTypes
    <2>2. pull \in Pulls /\ pull.seen = pending
      BY <2>1 DEF Pulls
    <2>3. tab' = [tab EXCEPT ![t] = U]
      BY <1>2, <2>1 DEF Clears, Pushed, TabStates, Pulls, IInv, TabsAreSound
    <2> HIDE DEF pull
    <2>4. /\ U \in TabStates /\ U.gen = tab[t].gen /\ U.token = tab[t].token
          /\ U.runs = tab[t].runs /\ U.running = tab[t].running /\ U.late = tab[t].late
          /\ U.debounce = tab[t].debounce /\ Steady(tab[t], U) /\ U.pull.seen = pending
      BY <2>1, <2>2 DEF TabStates, Steady
    <2> HIDE DEF U
    <2>5. Sound(U)
      BY <2>1, <2>4, SoundElsewhere
    <2>6. pending <= cloud
      BY <1>2 DEF Clears, IInv, Register, Acknowledged
    <2> QED
      BY <2>3, <2>4, <2>5, <2>6, LocalStep, FaultsBound DEF Clears, IInv, SharedTypes
  <1> QED
    BY <1>1, <1>2

\* It erases the mark it read, which the cloud has, or one put since, which torn
\* remembers.
LEMMA ErasesKeeps ==
    ASSUME IInv, NEW t \in Tabs, Erases(t)
    PROVE  IInv'
  <1> USE DEF IInv
  <1> DEFINE U == Over(tab[t])
  <1>1. Sound(U) /\ Steady(tab[t], U) /\ U.pull = NoPull /\ U.debounce = tab[t].debounce
    BY OverSound DEF TabsAreSound
  <1>2. /\ tab' = [tab EXCEPT ![t] = U] /\ NoPull.stage \notin Acknowledged
        /\ UNCHANGED <<lock, wire, cloud, marks, faults>>
        /\ pending' = 0
        /\ torn' = IF pending > tab[t].pull.seen THEN pending ELSE torn
    BY DEF Erases, NoPull, Acknowledged
  <1> HIDE DEF U
  <1>3. /\ tab' \in [Tabs -> TabStates] /\ tab'[t] = U
        /\ \A u \in Tabs : u # t => tab'[u] = tab[u]
    BY <1>1, <1>2 DEF TabsAreSound, Sound
  <1>4. \A u \in Tabs : Steady(tab[u], tab'[u])
    BY <1>1, <1>3 DEF Steady
  <1>5. SharedTypes'
    BY <1>2, Bounds DEF SharedTypes
  <1>6. TabsAreSound'
    BY <1>1, <1>2, <1>3, <1>4 DEF TabsAreSound, Steady
  <1>7. Succession'
    <2>2. LockIsLeadership'
      BY <1>2, <1>4 DEF Succession, LockIsLeadership, Steady
    <2>3. \A q \in lock.waiting : Asked(q)'
      BY <1>4 DEF Succession, Asked, Steady, SharedTypes, Requests
    <2>4. lock.holder.tab \in Tabs => Asked(lock.holder)'
      BY <1>2, <1>4 DEF Succession, Asked, Steady
    <2> QED
      BY <1>2, <2>2, <2>3, <2>4 DEF Succession
  <1>8. Register'
    <2>1. tab[t].pull.seen <= cloud /\ tab[t].pull.seen \in Marks
      BY DEF Erases, Register, Acknowledged, TabsAreSound, TabStates, Pulls
    <2>2. /\ pending = 0 \/ pending = marks
          /\ cloud < marks /\ torn < marks => pending = marks
      BY DEF Register, NoMarkForgotten
    <2>3. ~(cloud < marks /\ torn' < marks)
      <3>1. CASE pending > tab[t].pull.seen
        BY <1>2, <2>1, <2>2, <3>1, Bounds DEF SharedTypes
      <3>2. CASE ~(pending > tab[t].pull.seen)
        BY <1>2, <2>1, <2>2, <3>2, Bounds DEF SharedTypes
      <3> QED
        BY <3>1, <3>2
    <2>4. NoMarkForgotten'
      BY <1>2, <2>3 DEF NoMarkForgotten
    <2> QED
      BY <1>1, <1>2, <1>3, <2>4 DEF Register
  <1> QED
    BY <1>5, <1>6, <1>7, <1>8

----------------------------------------------------------------------------
(* The steps that ask for a cycle.                                          *)

\* A run is asked of a tab, whose other variables may have been reset.
LEMMA EntersKeeps ==
    ASSUME IInv, NEW t \in Tabs, NEW W, NEW requeue \in BOOLEAN, Room(tab[t]),
           W \in TabStates, Steady(tab[t], W), W.token = tab[t].token, W.runs = tab[t].runs,
           W.running = tab[t].running, W.late = tab[t].late, W.pull = tab[t].pull,
           W.debounce => tab[t].debounce,
           tab' = [tab EXCEPT ![t] = Entered(W, requeue)],
           lock' = lock, pending' = pending, cloud' = cloud, marks' = marks,
           torn' = torn, faults' = faults,
           wire' \in SUBSET Messages
    PROVE  IInv'
  <1> USE DEF IInv
  <1>1. Sound(W)
    BY SoundElsewhere DEF TabsAreSound, Steady
  <1>2. Room(W)
    BY DEF Room, CycleLocked, HasSlot
  <1> DEFINE U == Entered(W, requeue)
  <1>3. /\ Sound(U) /\ Steady(W, U) /\ U.pull = W.pull /\ U.debounce = W.debounce
    BY <1>1, <1>2, EnteredSound
  <1>4. tab' = [tab EXCEPT ![t] = U]
    OBVIOUS
  <1> HIDE DEF U
  <1>5. Steady(tab[t], U)
    BY <1>3 DEF Steady
  <1> QED
    BY <1>3, <1>4, <1>5, LocalStep, FaultsBound

LEMMA AskingKeeps ==
    ASSUME IInv, NEW t \in Tabs, Asking(t) \/ Tick(t)
    PROVE  IInv'
  <1> USE DEF IInv
  <1> DEFINE T == tab[t]
             calm == [T EXCEPT !.debounce = FALSE]
             alone == [T EXCEPT !.ask = 0]
  <1>0. /\ T \in TabStates /\ Sound(T) /\ Steady(T, T)
        /\ wire \in SUBSET Messages /\ marks \in Marks
        /\ T.debounce => marks > 0
    BY DEF TabsAreSound, SharedTypes, Sound, Steady
  <1>00. /\ calm \in TabStates /\ Steady(T, calm) /\ calm.token = T.token /\ calm.runs = T.runs
         /\ calm.running = T.running /\ calm.late = T.late /\ calm.pull = T.pull
         /\ ~calm.debounce
    BY <1>0 DEF TabStates, Steady
  <1>01. /\ alone \in TabStates /\ Steady(T, alone) /\ alone.token = T.token
         /\ alone.runs = T.runs /\ alone.running = T.running /\ alone.late = T.late
         /\ alone.pull = T.pull /\ alone.debounce = T.debounce
    <2>1. 0 \in Marks
      BY Bounds
    <2> QED
      BY <1>0, <2>1 DEF TabStates, Steady
  <1>1. CASE DebounceOfLeader(t)
    <2>1. Room(T) /\ tab' = [tab EXCEPT ![t] = Entered(calm, TRUE)]
      BY <1>1 DEF DebounceOfLeader
    <2> HIDE DEF calm
    <2> QED
      BY <1>0, <1>00, <1>1, <2>1, EntersKeeps DEF DebounceOfLeader
  <1>2. CASE DebounceOfFollower(t)
    <2> DEFINE U == [T EXCEPT !.debounce = FALSE, !.ask = marks]
    <2>1. tab' = [tab EXCEPT ![t] = U]
      BY <1>2 DEF DebounceOfFollower
    <2>2. /\ U \in TabStates /\ U.gen = T.gen /\ U.token = T.token /\ U.runs = T.runs
          /\ U.running = T.running /\ U.late = T.late /\ ~U.debounce /\ U.pull = T.pull
          /\ Steady(T, U)
      BY <1>0 DEF TabStates, Steady
    <2> HIDE DEF U
    <2>3. Sound(U)
      BY <1>0, <2>2, SoundElsewhere
    <2>4. wire' \in SUBSET Messages
      <3>1. marks \in 1 .. MaxMarks
        BY <1>0, <1>2, Bounds DEF DebounceOfFollower
      <3>2. \A u \in Tabs : [kind |-> "cycle", id |-> [tab |-> t, seq |-> marks], to |-> u] \in Messages
        BY <3>1 DEF Messages, Ids
      <3> QED
        BY <1>0, <1>2, <3>2 DEF DebounceOfFollower
    <2> QED
      BY <1>2, <2>1, <2>2, <2>3, <2>4, LocalStep, FaultsBound DEF DebounceOfFollower
  <1>3. CASE HearCycle(t)
    <2>1. PICK m \in wire :
            /\ m.kind = "cycle" /\ m.to = t
            /\ IF tab[t].leader
               THEN /\ tab' = [tab EXCEPT ![t] = Entered(@, TRUE)]
                    /\ wire' = (wire \ {m}) \cup {[m EXCEPT !.kind = "ack", !.to = m.id.tab]}
               ELSE tab' = tab /\ wire' = wire \ {m}
      BY <1>3 DEF HearCycle
    <2>2. CASE tab[t].leader
      <3>1. tab' = [tab EXCEPT ![t] = Entered(T, TRUE)]
        BY <2>1, <2>2
      <3>2. wire' \in SUBSET Messages
        <4>1. m \in Messages /\ m.id \in Ids /\ m.id.tab \in Tabs
          BY <1>0, <2>1 DEF Messages, Ids
        <4>2. [m EXCEPT !.kind = "ack", !.to = m.id.tab] \in Messages
          BY <4>1 DEF Messages
        <4> QED
          BY <1>0, <2>1, <2>2, <4>2
      <3> QED
        BY <1>0, <1>3, <3>1, <3>2, EntersKeeps DEF HearCycle
    <2>3. CASE ~tab[t].leader
      <3>1. tab' = [tab EXCEPT ![t] = T] /\ wire' \in SUBSET Messages
        BY <1>0, <2>1, <2>3 DEF TabsAreSound
      <3> QED
        BY <1>0, <1>3, <3>1, LocalStep, FaultsBound DEF HearCycle
    <2> QED
      BY <2>2, <2>3
  <1>4. CASE HearAck(t)
    <2>1. wire' \in SUBSET Messages
      BY <1>0, <1>4 DEF HearAck
    <2>2. tab' = [tab EXCEPT ![t] = T] \/ tab' = [tab EXCEPT ![t] = alone]
      <3>1. tab' = tab \/ tab' = [tab EXCEPT ![t].ask = 0]
        BY <1>4 DEF HearAck
      <3> QED
        BY <3>1 DEF TabsAreSound
    <2> HIDE DEF alone
    <2>3. Sound(alone)
      BY <1>0, <1>01, SoundElsewhere DEF Steady
    <2> QED
      BY <1>0, <1>01, <1>4, <2>1, <2>2, <2>3, LocalStep, FaultsBound DEF HearAck
  <1>5. CASE AckTimeout(t)
    <2>1. Room(T) /\ tab' = [tab EXCEPT ![t] = Entered(alone, TRUE)]
      BY <1>5 DEF AckTimeout
    <2> HIDE DEF alone
    <2> QED
      BY <1>0, <1>01, <1>5, <2>1, EntersKeeps DEF AckTimeout
  <1>6. CASE Tick(t)
    <2>1. tab' = [tab EXCEPT ![t] = Entered(T, FALSE)]
      BY <1>6 DEF Tick
    <2> QED
      BY <1>0, <1>6, <2>1, EntersKeeps DEF Tick
  <1> QED
    BY <1>1, <1>2, <1>3, <1>4, <1>5, <1>6 DEF Asking

LEMMA SlowKeeps ==
    ASSUME IInv, NEW t \in Tabs, GetsLate(t) \/ Hangs(t) \/ PullFails(t)
    PROVE  IInv'
  <1> USE DEF IInv
  <1> DEFINE T == tab[t]
  <1>0. T \in TabStates /\ Sound(T) /\ T.pull \in Pulls
    BY DEF TabsAreSound, Sound, TabStates
  <1>1. CASE GetsLate(t)
    <2> DEFINE U == [T EXCEPT !.late = TRUE]
    <2>1. tab' = [tab EXCEPT ![t] = U] /\ faults' \in faults .. MaxFaults
      BY <1>1, FaultsBound DEF GetsLate
    <2>2. /\ U \in TabStates /\ U.gen = T.gen /\ U.token = T.token /\ U.runs = T.runs
          /\ U.running = T.running /\ U.late = TRUE /\ U.debounce = T.debounce
          /\ U.pull = T.pull /\ Steady(T, U)
      BY <1>0 DEF TabStates, Steady
    <2> HIDE DEF U
    <2>3. Sound(U)
      BY <1>0, <2>2, SoundElsewhere
    <2> QED
      BY <1>1, <2>1, <2>2, <2>3, LocalStep DEF GetsLate, SharedTypes
  <1>2. CASE Hangs(t)
    <2>1. faults' \in faults .. MaxFaults
      BY <1>2, FaultsBound DEF Hangs
    <2>2. CASE \E r \in tab[t].runs : tab' = [tab EXCEPT ![t] = Taken(@, r, "hung")]
      <3>1. PICK r \in tab[t].runs : tab' = [tab EXCEPT ![t] = Taken(@, r, "hung")]
        BY <2>2
      <3> DEFINE U == Taken(T, r, "hung")
      <3>2. tab' = [tab EXCEPT ![t] = U]
        BY <3>1
      <3>3. Sound(U) /\ Steady(T, U) /\ U.pull = T.pull /\ U.debounce = T.debounce
        BY <1>0, TakenSound DEF RunStages
      <3> HIDE DEF U
      <3> QED
        BY <1>2, <2>1, <3>2, <3>3, LocalStep DEF Hangs, SharedTypes
    <2>3. CASE tab' = [tab EXCEPT ![t].pull.stage = "hung"]
      <3> DEFINE pull == [T.pull EXCEPT !.stage = "hung"]
      <3>1. pull \in Pulls /\ pull.stage = "hung"
        BY <1>0 DEF Pulls
      <3>2. tab' = [tab EXCEPT ![t] = [@ EXCEPT !.pull = pull]]
        BY <2>3
      <3> HIDE DEF pull
      <3> QED
        BY <1>2, <2>1, <3>1, <3>2, PullMoves DEF Hangs, Acknowledged
    <2> QED
      BY <1>2, <2>2, <2>3 DEF Hangs
  <1>3. CASE PullFails(t)
    BY <1>3, OverKeeps, FaultsBound DEF PullFails
  <1> QED
    BY <1>1, <1>2, <1>3

----------------------------------------------------------------------------
(* The election, and the writers.                                           *)

\* One tab changes, in what the lock may see as well.
LEMMA OneTab ==
    ASSUME IInv, NEW t \in Tabs, NEW U, Sound(U),
           tab' = [tab EXCEPT ![t] = U], U.gen <= faults', U.debounce => marks' > 0,
           faults' \in faults .. MaxFaults, marks' \in marks .. MaxMarks
    PROVE  /\ TabsAreSound' /\ tab'[t] = U
           /\ \A u \in Tabs : u # t => tab'[u] = tab[u]
  <1>1. /\ tab' \in [Tabs -> TabStates] /\ tab'[t] = U
        /\ \A u \in Tabs : u # t => tab'[u] = tab[u]
    BY DEF IInv, TabsAreSound, Sound
  <1>2. ASSUME NEW u \in Tabs
        PROVE  Sound(tab'[u]) /\ tab'[u].gen <= faults' /\ (tab'[u].debounce => marks' > 0)
    <2>1. CASE u = t
      BY <1>1, <2>1
    <2>2. CASE u # t
      <3>1. /\ Sound(tab[u]) /\ tab[u].gen <= faults /\ (tab[u].debounce => marks > 0)
            /\ tab[u].gen \in Nat /\ faults \in Nat /\ marks \in Nat
        BY Bounds DEF IInv, TabsAreSound, TabStates, SharedTypes
      <3> QED
        BY <1>1, <2>2, <3>1
    <2> QED
      BY <2>1, <2>2
  <1> QED
    BY <1>1, <1>2 DEF TabsAreSound

LEMMA RegisterStays ==
    ASSUME IInv, pending' = pending, cloud' = cloud, marks' = marks, torn' = torn,
           \A u \in Tabs : tab'[u].pull = tab[u].pull \/ tab'[u].pull.stage \notin Acknowledged
    PROVE  Register'
  BY DEF IInv, Register, NoMarkForgotten

LEMMA MarkKeeps ==
    ASSUME IInv, NEW t \in Tabs, Mark(t)
    PROVE  IInv'
  <1> USE DEF IInv
  <1> DEFINE U == [tab[t] EXCEPT !.debounce = TRUE]
  <1>0. tab[t] \in TabStates /\ Sound(tab[t]) /\ tab[t].gen <= faults
    BY DEF TabsAreSound
  <1>1. /\ tab' = [tab EXCEPT ![t] = U] /\ UNCHANGED <<lock, wire, cloud, torn, faults>>
        /\ marks' = marks + 1 /\ pending' = marks + 1 /\ marks < MaxMarks
    BY DEF Mark
  <1>2. /\ U \in TabStates /\ U.gen = tab[t].gen /\ U.token = tab[t].token
        /\ U.runs = tab[t].runs /\ U.running = tab[t].running /\ U.late = tab[t].late
        /\ U.pull = tab[t].pull /\ Steady(tab[t], U)
    BY <1>0 DEF TabStates, Steady
  <1> HIDE DEF U
  <1>3. Sound(U)
    BY <1>0, <1>2, SoundElsewhere
  <1>4. /\ marks' \in marks .. MaxMarks /\ marks' > 0 /\ marks' \in Marks /\ pending' \in Marks
        /\ pending' = marks'
    BY <1>1, Bounds DEF SharedTypes
  <1>5. /\ TabsAreSound' /\ tab'[t] = U
        /\ \A u \in Tabs : u # t => tab'[u] = tab[u]
    BY <1>0, <1>1, <1>2, <1>3, <1>4, OneTab, FaultsBound
  <1>6. \A u \in Tabs : Steady(tab[u], tab'[u])
    BY <1>2, <1>5 DEF Steady
  <1>7. SharedTypes'
    BY <1>1, <1>4 DEF SharedTypes
  <1>8. Succession'
    <2>2. LockIsLeadership'
      BY <1>1, <1>6 DEF Succession, LockIsLeadership, Steady
    <2>3. \A q \in lock.waiting : Asked(q)'
      BY <1>6 DEF Succession, Asked, Steady, SharedTypes, Requests
    <2>4. lock.holder.tab \in Tabs => Asked(lock.holder)'
      BY <1>1, <1>6 DEF Succession, Asked, Steady
    <2> QED
      BY <1>1, <2>2, <2>3, <2>4 DEF Succession
  <1>9. Register'
    BY <1>1, <1>2, <1>4, <1>5 DEF Register, NoMarkForgotten
  <1> QED
    BY <1>5, <1>7, <1>8, <1>9

LEMMA StartKeeps ==
    ASSUME IInv, NEW t \in Tabs, Start(t)
    PROVE  IInv'
  <1> USE DEF IInv
  <1> DEFINE U == [tab[t] EXCEPT !.started = TRUE]
  <1>q. PICK q : q = [tab |-> t, gen |-> tab[t].gen]
    OBVIOUS
  <1>0. /\ tab[t] \in TabStates /\ Sound(tab[t]) /\ tab[t].gen <= faults
        /\ tab[t].debounce => marks > 0
    BY DEF TabsAreSound
  <1>1. /\ tab' = [tab EXCEPT ![t] = U] /\ lock' = [lock EXCEPT !.waiting = @ \cup {q}]
        /\ UNCHANGED <<wire, pending, cloud, marks, torn, faults>>
    BY <1>q DEF Start
  <1>2. /\ U \in TabStates /\ U.gen = tab[t].gen /\ U.token = tab[t].token
        /\ U.runs = tab[t].runs /\ U.running = tab[t].running /\ U.late = tab[t].late
        /\ U.pull = tab[t].pull /\ U.debounce = tab[t].debounce /\ U.started
        /\ U.leader = tab[t].leader /\ tab[t].gen \in Gens
    BY <1>0 DEF TabStates
  <1> HIDE DEF U
  <1>3. Sound(U)
    BY <1>0, <1>2, SoundElsewhere
  <1>4. /\ TabsAreSound' /\ tab'[t] = U
        /\ \A u \in Tabs : u # t => tab'[u] = tab[u]
    <2>1. marks \in marks .. MaxMarks
      BY Bounds DEF SharedTypes
    <2> QED
      BY <1>0, <1>1, <1>2, <1>3, <2>1, OneTab, FaultsBound
  <1>5. q \in Requests /\ q.tab = t /\ q.gen = tab[t].gen
    BY <1>2, <1>q DEF Requests
  <1>6. /\ lock'.holder = lock.holder /\ lock'.waiting = lock.waiting \cup {q}
        /\ lock' \in [holder : Holders, waiting : SUBSET Requests]
    BY <1>1, <1>5 DEF SharedTypes
  <1>7. SharedTypes'
    BY <1>1, <1>6 DEF SharedTypes
  <1>8. Succession'
    <2>1. \A u \in Tabs : /\ tab'[u].leader = tab[u].leader /\ tab'[u].gen = tab[u].gen
                          /\ tab[u].started => tab'[u].started
      BY <1>2, <1>4
    <2>2. LockIsLeadership'
      BY <1>6, <2>1 DEF Succession, LockIsLeadership
    <2>3. \A p \in lock.waiting : Asked(p)'
      BY <2>1 DEF Succession, Asked, SharedTypes, Requests
    <2>4. Asked(q)'
      <3>1. tab'[t].gen = q.gen /\ tab'[t].started /\ q.gen \in Nat
        BY <1>2, <1>4, <1>5, Bounds
      <3> QED
        BY <1>5, <3>1 DEF Asked
    <2>5. lock'.holder.tab \in Tabs => Asked(lock.holder)'
      BY <1>6, <2>1 DEF Succession, Asked
    <2>6. \A p \in lock'.waiting : Asked(p)'
      BY <1>6, <2>3, <2>4
    <2>7. lock'.holder.answered => lock'.holder.tab \in Tabs
      BY <1>6 DEF Succession
    <2> QED
      BY <2>2, <2>5, <2>6, <2>7 DEF Succession
  <1>9. Register'
    BY <1>1, <1>2, <1>4, RegisterStays
  <1> QED
    BY <1>4, <1>7, <1>8, <1>9

\* The lock manager moves the lock along its queue.
LEMMA ManagerKeeps ==
    ASSUME IInv, Grant \/ Withdraw
    PROVE  IInv'
  <1> USE DEF IInv
  <1>1. UNCHANGED <<tab, wire, pending, cloud, marks, torn, faults>>
    BY DEF Grant, Withdraw
  <1>2. PICK q \in lock.waiting :
          \/ /\ lock.holder = NobodysLock
             /\ lock' = [holder |-> [tab |-> q.tab, gen |-> q.gen, answered |-> FALSE],
                         waiting |-> lock.waiting \ {q}]
          \/ lock' = [lock EXCEPT !.waiting = @ \ {q}]
    BY DEF Grant, Withdraw
  <1>3. q \in Requests /\ q.tab \in Tabs /\ q.gen \in Gens
    BY DEF SharedTypes, Requests
  <1> DEFINE h == [tab |-> q.tab, gen |-> q.gen, answered |-> FALSE]
  <1>4. h \in Holders /\ h.tab = q.tab /\ h.gen = q.gen /\ h.answered = FALSE
    BY <1>3 DEF Holders
  <1> HIDE DEF h
  <1>5. /\ lock'.waiting = lock.waiting \ {q}
        /\ lock' \in [holder : Holders, waiting : SUBSET Requests]
        /\ lock'.holder = lock.holder \/ (lock'.holder = h /\ lock.holder = NobodysLock)
    <2>1. CASE lock.holder = NobodysLock /\ lock' = [holder |-> h, waiting |-> lock.waiting \ {q}]
      BY <1>4, <2>1 DEF SharedTypes
    <2>2. CASE lock' = [lock EXCEPT !.waiting = @ \ {q}]
      BY <2>2 DEF SharedTypes
    <2> QED
      BY <1>2, <2>1, <2>2 DEF h
  <1>6. SharedTypes'
    BY <1>1, <1>5 DEF SharedTypes
  <1>7. Succession'
    <2>1. \A p \in lock'.waiting : Asked(p)'
      BY <1>1, <1>5 DEF Succession, Asked
    <2>2. CASE lock'.holder = lock.holder
      BY <1>1, <2>1, <2>2 DEF Succession, LockIsLeadership, Asked
    <2>3. CASE lock'.holder = h /\ lock.holder = NobodysLock
      <3>1. \A t \in Tabs : ~tab[t].leader
        <4>1. lock.holder.answered = FALSE
          BY <2>3 DEF NobodysLock
        <4>2. ASSUME NEW t \in Tabs, tab[t].leader PROVE FALSE
          <5>1. lock.holder = [tab |-> t, gen |-> tab[t].gen, answered |-> TRUE]
            BY <4>2 DEF Succession, LockIsLeadership
          <5>2. lock.holder.answered
            BY <5>1
          <5> QED
            BY <4>1, <5>2
        <4> QED
          BY <4>2
      <3>2. LockIsLeadership'
        BY <1>1, <1>4, <2>3, <3>1 DEF LockIsLeadership
      <3>3. Asked(lock.holder)'
        BY <1>1, <1>4, <2>3 DEF Succession, Asked
      <3> QED
        BY <1>4, <2>1, <2>3, <3>2, <3>3 DEF Succession
    <2> QED
      BY <1>5, <2>2, <2>3
  <1>8. TabsAreSound' /\ Register'
    BY <1>1 DEF TabsAreSound, Register, NoMarkForgotten, Sound
  <1> QED
    BY <1>6, <1>7, <1>8

\* The callback of a lock just granted: nobody led, and the tab leads if the
\* session that asked still lasts.
LEMMA CallbackKeeps ==
    ASSUME IInv, NEW t \in Tabs, Callback(t)
    PROVE  IInv'
  <1> USE DEF IInv
  <1>0. /\ tab[t] \in TabStates /\ Sound(tab[t]) /\ tab[t].gen <= faults
        /\ tab[t].debounce => marks > 0
    BY DEF TabsAreSound
  <1>1. /\ lock.holder.tab = t /\ ~lock.holder.answered /\ Room(tab[t])
        /\ UNCHANGED <<wire, pending, cloud, marks, torn, faults>>
    BY DEF Callback
  <1>2. \A u \in Tabs : ~tab[u].leader
    <2>1. ASSUME NEW u \in Tabs, tab[u].leader PROVE FALSE
      <3>1. lock.holder = [tab |-> u, gen |-> tab[u].gen, answered |-> TRUE]
        BY <2>1 DEF Succession, LockIsLeadership
      <3>2. lock.holder.answered
        BY <3>1
      <3> QED
        BY <1>1, <3>2
    <2> QED
      BY <2>1
  <1>3. CASE Elects(tab[t], lock.holder.gen)
    <2> DEFINE W == [tab[t] EXCEPT !.leader = TRUE]
               U == Entered(W, FALSE)
    <2>1. tab' = [tab EXCEPT ![t] = U] /\ lock' = [lock EXCEPT !.holder.answered = TRUE]
      BY <1>3 DEF Callback
    <2>2. /\ W \in TabStates /\ W.gen = tab[t].gen /\ W.token = tab[t].token
          /\ W.runs = tab[t].runs /\ W.running = tab[t].running /\ W.late = tab[t].late
          /\ W.pull = tab[t].pull /\ W.debounce = tab[t].debounce
          /\ W.started = tab[t].started /\ W.leader
      BY <1>0 DEF TabStates
    <2> HIDE DEF W
    <2>3. Sound(W) /\ Room(W)
      BY <1>0, <1>1, <2>2, SoundElsewhere DEF Room, CycleLocked, HasSlot
    <2>4. Sound(U) /\ Steady(W, U) /\ U.pull = W.pull /\ U.debounce = W.debounce
      BY <2>3, EnteredSound
    <2> HIDE DEF U
    <2>5. /\ TabsAreSound' /\ tab'[t] = U
          /\ \A u \in Tabs : u # t => tab'[u] = tab[u]
      <3>1. marks' \in marks .. MaxMarks /\ faults' \in faults .. MaxFaults
        BY <1>1, Bounds, FaultsBound DEF SharedTypes
      <3>2. U.gen <= faults' /\ (U.debounce => marks' > 0)
        BY <1>0, <1>1, <2>2, <2>4 DEF Steady
      <3> QED
        BY <2>1, <2>4, <3>1, <3>2, OneTab
    <2>6. /\ lock' \in [holder : Holders, waiting : SUBSET Requests]
          /\ lock'.waiting = lock.waiting
          /\ lock'.holder = [tab |-> t, gen |-> tab[t].gen, answered |-> TRUE]
      BY <1>1, <1>3, <2>1 DEF SharedTypes, Holders, Elects
    <2>7. SharedTypes'
      BY <1>1, <2>6 DEF SharedTypes
    <2>8. /\ U.leader /\ U.gen = tab[t].gen /\ U.started = tab[t].started
          /\ tab[t].started
      <3>1. Asked(lock.holder) /\ lock.holder.gen = tab[t].gen
        BY <1>1, <1>3 DEF Succession, Elects
      <3> QED
        BY <1>1, <2>2, <2>4, <3>1 DEF Steady, Asked
    <2>9. LockIsLeadership'
      <3>1. ASSUME NEW u \in Tabs, tab'[u].leader
            PROVE  /\ tab'[u].started
                   /\ lock'.holder = [tab |-> u, gen |-> tab'[u].gen, answered |-> TRUE]
        BY <1>2, <2>5, <2>6, <2>8, <3>1
      <3>2. lock'.holder.tab = t /\ tab'[t].leader
        BY <2>5, <2>6, <2>8
      <3> QED
        BY <3>1, <3>2 DEF LockIsLeadership
    <2>10. Succession'
      <3>1. \A u \in Tabs : tab'[u].gen = tab[u].gen /\ tab'[u].started = tab[u].started
        BY <2>5, <2>8
      <3>2. \A q \in lock'.waiting : Asked(q)'
        BY <2>6, <3>1 DEF Succession, Asked, SharedTypes, Requests
      <3>3. lock'.holder.tab = t /\ lock'.holder.gen = tab[t].gen /\ tab[t].gen \in Nat
        BY <1>0, <2>6, Bounds DEF TabStates
      <3>4. Asked(lock.holder)'
        <4>1. tab'[lock'.holder.tab].started /\ tab'[lock'.holder.tab].gen = tab[t].gen
          BY <2>5, <2>8, <3>3
        <4> QED
          BY <3>3, <4>1 DEF Asked
      <3> QED
        BY <2>9, <3>2, <3>3, <3>4 DEF Succession
    <2>11. Register'
      <3>1. \A u \in Tabs : tab'[u].pull = tab[u].pull
        BY <2>2, <2>4, <2>5
      <3> QED
        BY <1>1, <3>1, RegisterStays
    <2> QED
      BY <2>5, <2>7, <2>10, <2>11
  <1>4. CASE ~Elects(tab[t], lock.holder.gen)
    <2>1. tab' = tab /\ lock' = [lock EXCEPT !.holder = NobodysLock]
      BY <1>4 DEF Callback
    <2>2. /\ lock' \in [holder : Holders, waiting : SUBSET Requests]
          /\ lock'.waiting = lock.waiting /\ lock'.holder = NobodysLock
      <3>1. NobodysLock \in Holders
        BY Bounds DEF NobodysLock, Holders
      <3> QED
        BY <2>1, <3>1 DEF SharedTypes
    <2>3. SharedTypes'
      BY <1>1, <2>2 DEF SharedTypes
    <2>4. NobodysLock.answered = FALSE /\ NobodysLock.tab \notin Tabs
      BY TabsAssumption DEF NobodysLock
    <2>5. LockIsLeadership'
      BY <1>2, <2>1, <2>2, <2>4 DEF LockIsLeadership
    <2>6. \A q \in lock'.waiting : Asked(q)'
      BY <2>1, <2>2 DEF Succession, Asked
    <2>7. Succession'
      BY <2>2, <2>4, <2>5, <2>6 DEF Succession
    <2>8. TabsAreSound' /\ Register'
      BY <1>1, <2>1 DEF TabsAreSound, Register, NoMarkForgotten, Sound
    <2> QED
      BY <2>3, <2>7, <2>8
  <1> QED
    BY <1>3, <1>4

\* A tab no longer leads and is past all it asked for; the lock is not left to it.
Gone(t) ==
    /\ ~tab'[t].leader
    /\ lock'.holder = lock.holder \/ lock'.holder = NobodysLock
    /\ lock'.holder.tab = t => ~lock'.holder.answered /\ lock'.holder.gen < tab'[t].gen
    /\ lock'.holder = NobodysLock => lock.holder = NobodysLock \/ lock.holder.tab = t
    /\ lock'.waiting \subseteq lock.waiting
    /\ \A q \in lock'.waiting : q.tab = t => q.gen < tab'[t].gen

LEMMA SuccessionAfter ==
    ASSUME IInv, NEW t \in Tabs, Gone(t), \A u \in Tabs : u # t => tab'[u] = tab[u],
           tab'[t].gen \in Nat
    PROVE  Succession'
  <1> USE DEF IInv
  <1>1. NobodysLock.answered = FALSE /\ NobodysLock.tab \notin Tabs
    BY TabsAssumption DEF NobodysLock
  <1>2. ASSUME NEW u \in Tabs, tab'[u].leader
        PROVE  /\ tab'[u].started
               /\ lock'.holder = [tab |-> u, gen |-> tab'[u].gen, answered |-> TRUE]
    <2>1. u # t /\ tab'[u] = tab[u]
      BY <1>2 DEF Gone
    <2>2. /\ tab[u].started
          /\ lock.holder = [tab |-> u, gen |-> tab[u].gen, answered |-> TRUE]
      BY <1>2, <2>1 DEF Succession, LockIsLeadership
    <2>3. lock.holder.tab = u /\ lock.holder.answered
      BY <2>2
    <2>4. lock'.holder = lock.holder
      BY <1>1, <2>1, <2>3 DEF Gone
    <2> QED
      BY <2>1, <2>2, <2>4
  <1>3. lock'.holder.answered =>
          /\ lock'.holder.tab \in Tabs /\ tab'[lock'.holder.tab].leader
    <2> SUFFICES ASSUME lock'.holder.answered
                 PROVE  lock'.holder.tab \in Tabs /\ tab'[lock'.holder.tab].leader
      OBVIOUS
    <2>1. lock'.holder = lock.holder /\ lock.holder.tab # t
      BY <1>1 DEF Gone
    <2> QED
      BY <2>1 DEF Succession, LockIsLeadership
  <1>4. ASSUME lock'.holder.tab \in Tabs PROVE Asked(lock.holder)'
    <2>1. lock'.holder = lock.holder
      BY <1>1, <1>4 DEF Gone
    <2>2. CASE lock.holder.tab = t
      <3>1. lock.holder.gen \in Nat /\ lock.holder.gen < tab'[t].gen
        BY <2>1, <2>2, Bounds DEF Gone, SharedTypes, Holders
      <3>2. lock.holder.gen <= tab'[t].gen /\ lock.holder.gen # tab'[t].gen
        BY <3>1
      <3> QED
        BY <2>1, <2>2, <3>2 DEF Asked
    <2>3. CASE lock.holder.tab # t
      BY <1>4, <2>1, <2>3 DEF Succession, Asked
    <2> QED
      BY <2>2, <2>3
  <1>5. ASSUME NEW q \in lock'.waiting PROVE Asked(q)'
    <2>1. q \in lock.waiting /\ q \in Requests
      BY <1>5 DEF Gone, SharedTypes
    <2>2. CASE q.tab = t
      <3>1. q.gen \in Nat /\ q.gen < tab'[t].gen
        BY <1>5, <2>1, <2>2, Bounds DEF Gone, Requests
      <3>2. q.gen <= tab'[t].gen /\ q.gen # tab'[t].gen
        BY <3>1
      <3> QED
        BY <2>2, <3>2 DEF Asked
    <2>3. CASE q.tab # t
      BY <2>1, <2>3 DEF Succession, Asked, Requests
    <2> QED
      BY <2>2, <2>3
  <1> QED
    BY <1>2, <1>3, <1>4, <1>5 DEF Succession, LockIsLeadership

\* A session ends: what it asked of the lock is of the past, and a lock it held
\* is given back.
LEMMA StopKeeps ==
    ASSUME IInv, NEW t \in Tabs, Stop(t)
    PROVE  IInv'
  <1> USE DEF IInv
  <1> DEFINE U == Stopped(tab[t])
  <1>0. /\ tab[t] \in TabStates /\ Sound(tab[t]) /\ tab[t].gen <= faults
        /\ tab[t].gen \in Gens /\ faults \in Nat
    BY Bounds DEF TabsAreSound, TabStates, SharedTypes
  <1>1. /\ HasSlot(tab[t]) /\ faults < MaxFaults /\ faults' = faults + 1
        /\ tab' = [tab EXCEPT ![t] = U]
        /\ lock' = [lock EXCEPT !.holder = IF @.tab = t /\ @.answered THEN NobodysLock ELSE @]
        /\ wire' \in SUBSET Messages /\ UNCHANGED <<pending, cloud, marks, torn>>
    BY DEF Stop, SharedTypes
  <1>2. tab[t].gen + 1 \in Gens /\ tab[t].gen + 1 <= faults'
    BY <1>0, <1>1, Bounds
  <1>3. /\ Sound(U) /\ U.pull = tab[t].pull /\ ~U.leader /\ U.gen = tab[t].gen + 1
        /\ ~U.debounce
    BY <1>0, <1>1, <1>2, StoppedSound
  <1> HIDE DEF U
  <1>4. /\ TabsAreSound' /\ tab'[t] = U
        /\ \A u \in Tabs : u # t => tab'[u] = tab[u]
    <2>1. marks' \in marks .. MaxMarks /\ faults' \in faults .. MaxFaults
      BY <1>1, Bounds, FaultsBound DEF SharedTypes
    <2> QED
      BY <1>1, <1>2, <1>3, <2>1, OneTab
  <1>5. NobodysLock \in Holders /\ NobodysLock.answered = FALSE /\ NobodysLock.tab \notin Tabs
    BY Bounds, TabsAssumption DEF NobodysLock, Holders
  <1>6. /\ lock' \in [holder : Holders, waiting : SUBSET Requests]
        /\ lock'.waiting = lock.waiting
        /\ lock'.holder = IF lock.holder.tab = t /\ lock.holder.answered
                          THEN NobodysLock ELSE lock.holder
    BY <1>1, <1>5 DEF SharedTypes
  <1>7. SharedTypes'
    BY <1>0, <1>1, <1>6, Bounds DEF SharedTypes
  <1>8. Succession'
    <2>1. ASSUME NEW q \in lock.waiting, q.tab = t PROVE q.gen < tab[t].gen + 1
      <3>1. q.gen <= tab[t].gen /\ q.gen \in Nat /\ tab[t].gen \in Nat
        BY <1>0, <2>1, Bounds DEF Succession, Asked, SharedTypes, Requests
      <3> QED
        BY <3>1
    <2>2. ASSUME lock.holder.tab = t PROVE lock.holder.gen < tab[t].gen + 1
      <3>1. lock.holder.gen <= tab[t].gen /\ lock.holder.gen \in Nat /\ tab[t].gen \in Nat
        BY <1>0, <2>2, Bounds DEF Succession, Asked, SharedTypes, Holders
      <3> QED
        BY <3>1
    <2>3. tab'[t].gen = tab[t].gen + 1 /\ tab'[t].gen \in Nat /\ ~tab'[t].leader
      BY <1>2, <1>3, <1>4, Bounds
    <2>4. Gone(t)
      BY <1>5, <1>6, <2>1, <2>2, <2>3 DEF Gone
    <2> QED
      BY <1>4, <2>3, <2>4, SuccessionAfter
  <1>9. Register'
    BY <1>1, <1>3, <1>4, RegisterStays
  <1> QED
    BY <1>4, <1>7, <1>8, <1>9

\* A tab disappears, with its requests and the lock it held.
LEMMA CloseKeeps ==
    ASSUME IInv, NEW t \in Tabs, Close(t)
    PROVE  IInv'
  <1> USE DEF IInv
  <1>u. PICK U : U = [NewTab EXCEPT !.open = FALSE]
    OBVIOUS
  <1>1. /\ faults < MaxFaults /\ faults' = faults + 1
        /\ tab' = [tab EXCEPT ![t] = U]
        /\ lock' = [holder |-> IF lock.holder.tab = t THEN NobodysLock ELSE lock.holder,
                    waiting |-> {q \in lock.waiting : q.tab # t}]
        /\ wire' \in SUBSET Messages /\ UNCHANGED <<pending, cloud, marks, torn>>
    BY <1>u DEF Close, SharedTypes
  <1>2. Sound(U) /\ U.pull = NoPull /\ ~U.leader /\ U.gen = 0 /\ ~U.debounce
    <2>1. Sound(U)
      BY <1>u, NewTabSound
    <2> QED
      BY <1>u, <2>1 DEF NewTab
  <1>4. /\ TabsAreSound' /\ tab'[t] = U
        /\ \A u \in Tabs : u # t => tab'[u] = tab[u]
    <2>1. marks' \in marks .. MaxMarks /\ faults' \in faults .. MaxFaults /\ 0 <= faults'
      BY <1>1, Bounds, FaultsBound DEF SharedTypes
    <2> QED
      BY <1>1, <1>2, <2>1, OneTab
  <1>5. NobodysLock \in Holders /\ NobodysLock.answered = FALSE /\ NobodysLock.tab \notin Tabs
    BY Bounds, TabsAssumption DEF NobodysLock, Holders
  <1>6. /\ lock' \in [holder : Holders, waiting : SUBSET Requests]
        /\ lock'.waiting = {q \in lock.waiting : q.tab # t}
        /\ lock'.holder = IF lock.holder.tab = t THEN NobodysLock ELSE lock.holder
    BY <1>1, <1>5 DEF SharedTypes
  <1>7. SharedTypes'
    BY <1>1, <1>6, Bounds DEF SharedTypes
  <1>8. Succession'
    <2>1. tab'[t].gen \in Nat /\ ~tab'[t].leader
      BY <1>2, <1>4
    <2>2. Gone(t)
      BY <1>5, <1>6, <2>1 DEF Gone
    <2> QED
      BY <1>4, <2>1, <2>2, SuccessionAfter
  <1>9. Register'
    <2>1. \A u \in Tabs : tab'[u].pull = tab[u].pull \/ tab'[u].pull.stage \notin Acknowledged
      BY <1>2, <1>4 DEF NoPull, Acknowledged
    <2> QED
      BY <1>1, <2>1, RegisterStays
  <1> QED
    BY <1>4, <1>7, <1>8, <1>9

LEMMA StutterKeeps ==
    ASSUME IInv, UNCHANGED vars
    PROVE  IInv'
  BY DEF IInv, SharedTypes, TabsAreSound, Sound, Succession, LockIsLeadership, Asked, Register,
         NoMarkForgotten, vars

LEMMA StepKeepsIInv == IInv /\ [Next]_vars => IInv'
  <1> SUFFICES ASSUME IInv, [Next]_vars PROVE IInv'
    OBVIOUS
  <1>1. CASE Grant \/ Withdraw
    BY <1>1, ManagerKeeps
  <1>2. ASSUME NEW t \in Tabs, RunPulls(t) PROVE IInv'
    BY <1>2, RunPullsKeeps
  <1>3. ASSUME NEW t \in Tabs, RunEnds(t) PROVE IInv'
    BY <1>3, RunEndsKeeps
  <1>4. ASSUME NEW t \in Tabs, Pulling(t) PROVE IInv'
    BY <1>4, PullReadsKeeps, PullPushesKeeps, PullConflictsKeeps, ClearsKeeps,
       ErasesKeeps DEF Pulling
  <1>5. ASSUME NEW t \in Tabs, Asking(t) \/ Tick(t) PROVE IInv'
    BY <1>5, AskingKeeps
  <1>6. ASSUME NEW t \in Tabs, GetsLate(t) \/ Hangs(t) \/ PullFails(t) PROVE IInv'
    BY <1>6, SlowKeeps
  <1>7. ASSUME NEW t \in Tabs, Mark(t) PROVE IInv'
    BY <1>7, MarkKeeps
  <1>8. ASSUME NEW t \in Tabs, Start(t) PROVE IInv'
    BY <1>8, StartKeeps
  <1>9. ASSUME NEW t \in Tabs, Callback(t) PROVE IInv'
    BY <1>9, CallbackKeeps
  <1>10. ASSUME NEW t \in Tabs, Stop(t) PROVE IInv'
    BY <1>10, StopKeeps
  <1>11. ASSUME NEW t \in Tabs, Close(t) PROVE IInv'
    BY <1>11, CloseKeeps
  <1> QED
    BY <1>1, <1>2, <1>3, <1>4, <1>5, <1>6, <1>7, <1>8, <1>9, <1>10, <1>11, StutterKeeps DEF Next

LEMMA Inductive == Spec => []IInv
  BY InitIInv, StepKeepsIInv, PTL DEF Spec

----------------------------------------------------------------------------
(* The theorems: for any set of tabs, any writers and any bounds.           *)

\* Every variable stays in its type, and the slots of the runs under way in a
\* tab (runCycle, syncScheduler.ts) are told apart.
THEOREM TypeCorrect == Spec => []TypeOK
  <1>1. IInv => TypeOK
    <2> SUFFICES ASSUME IInv PROVE TypeOK
      OBVIOUS
    <2>1. tab \in [Tabs -> TabStates] /\ \A t \in Tabs : Distinct(tab[t])
      BY DEF IInv, TabsAreSound, Sound
    <2>2. /\ lock.holder \in Holders /\ lock.waiting \subseteq Requests /\ wire \subseteq Messages
          /\ {pending, cloud, marks, torn} \subseteq Marks /\ faults \in 0 .. MaxFaults
      BY DEF IInv, SharedTypes
    <2> QED
      BY <2>1, <2>2 DEF TypeOK, TabStates, Distinct, Holders
  <1> QED
    BY <1>1, Inductive, PTL

\* Two tabs never lead at once, and no stopped tab keeps the lock from the others
\* (assumeLeadership and stopSyncLeader, syncLeader.ts).
THEOREM LeadershipTheorem == Spec => []LockIsLeadership
  <1>1. IInv => LockIsLeadership
    BY DEF IInv, Succession
  <1> QED
    BY <1>1, Inductive, PTL

\* A run the watchdog gave up for lost never releases the lock of the cycle that
\* replaced it (the finally of runCycle, syncScheduler.ts).
THEOREM YoungestTheorem == Spec => []YoungestKeepsLock
  <1>1. IInv => YoungestKeepsLock
    BY DEF IInv, TabsAreSound, Sound, Kept, YoungestKeepsLock
  <1> QED
    BY <1>1, Inductive, PTL

\* An acknowledged push never erases the mark of a later edit, unless the mark was put
\* between the read and the write of the register (clearPendingUploads,
\* pendingUploads.ts).
THEOREM MarksTheorem == Spec => []NoMarkForgotten
  <1>1. IInv => NoMarkForgotten
    BY DEF IInv, Register
  <1> QED
    BY <1>1, Inductive, PTL
==============================================================================
