--------------------------- MODULE SyncQueueProofs ---------------------------
(***************************************************************************)
(* The retry queue for any transfers, profiles, slots and bounds: its      *)
(* types, its deduplication, and the failures it keeps.                    *)
(*                                                                         *)
(* The file alone says nothing of the saves still to come, so the          *)
(* inductive invariant speaks of what each pending call will write: a file *)
(* free of twins, which keeps every work the call read except the one it   *)
(* takes out.  To know which work a call named by an id takes out, an id   *)
(* must always stand for the same work, wherever it is held (Identity).    *)
(***************************************************************************)
EXTENDS SyncQueue, FiniteSetTheorems, TLAPS

Marks   == {"success", "failed", "rearm", "dismiss"}
Removes == {"success", "dismiss", "reap"}

\* A call to enqueue names one work.
Single ==
    \A c \in Callers : calls[c].call.do = "enqueue" => \E w \in Works : calls[c].call.of = {w}

\* An id stands for one work, in the file, in the pending saves and in memory.
Fits(name, i) == name[i.id] = i.work /\ i.id <= born
Agrees(name) ==
    /\ \A i \in file : Fits(name, i)
    /\ \A i \in cycle.items \cup cycle.failing : Fits(name, i)
    /\ \A c \in Callers : \A i \in calls[c].next : Fits(name, i)
    /\ \A c \in Callers : calls[c].call.do \in Marks =>
            /\ calls[c].call.of = {name[calls[c].call.id]}
            /\ calls[c].call.id <= born
Identity == \E name \in [Nat -> Works \cup {{}}] : Agrees(name)

Shape == TypeOK /\ Single /\ Identity

TwinFree(f, tried) ==
    \A i, j \in f :
        i.id # j.id /\ i.work = j.work /\ ~Exhausted(i) /\ ~Exhausted(j)
        => {i.id, j.id} \cap tried # {}

Tried(call) == IF call.do = "rearm" THEN {call.id} ELSE {}

\* What a call makes of a file whose works were seen.
Sound(call, seen, f, tried) ==
    /\ TwinFree(f, tried \cup Tried(call))
    /\ call.do = "enqueue" => call.of \subseteq WorksOf(f)
    /\ call.do \in Removes => seen \ WorksOf(f) \subseteq call.of
    /\ call.do \notin Removes => seen \subseteq WorksOf(f)

Pending ==
    \A c \in Callers : calls[c].at = "save" =>
        Sound(calls[c].call, calls[c].seen, calls[c].next, rearmed)

IInv == Shape /\ Pending /\ TwinsAreRearmed /\ FailuresStayListed

USE WorksAssumption, BoundsAssumption, SlotsAssumption

------------------------------------------------------------------------------
(* What a call makes of the file.                                            *)

\* A call turns items into items.
LEMMA AppliedTypes ==
    ASSUME NEW call \in Call, NEW f \in SUBSET Item, NEW id \in Nat,
           call.do = "enqueue" => \E w \in Works : call.of = {w}
    PROVE  Applied(call, f, id) \subseteq Item
<1>1. CASE call.do = "enqueue"
  <2>1. PICK w \in Works : call.of = {w}
    BY <1>1
  <2>2. (CHOOSE v \in call.of : TRUE) = w
    BY <2>1
  <2>3. Fresh(id, w) \in Item
    BY DEF Fresh, Untried, Item
  <2>4. Applied(call, f, id) = Enqueued(f, w, id)
    BY <1>1, <2>2 DEF Applied
  <2> QED
    BY <2>3, <2>4 DEF Enqueued
<1>2. CASE call.do = "failed"
  <2>1. ASSUME NEW i \in Item PROVE FailedItem(i) \in Item
    <3>1. (i.attempts + 1 < Attempts) \in BOOLEAN /\ i.attempts + 1 \in Nat
      BY DEF Item
    <3> QED
      BY <3>1 DEF FailedItem, Item
  <2>2. Applied(call, f, id) = {IF i.id = call.id THEN FailedItem(i) ELSE i : i \in f}
    BY <1>2 DEF Applied, FailedOnce
  <2> QED
    BY <2>1, <2>2
<1>3. CASE call.do = "rearm"
  <2>1. \A i \in Item : [i EXCEPT !.attempts = 0, !.retry = FALSE] \in Item
    BY DEF Item
  <2>2. Applied(call, f, id) =
          {IF i.id = call.id /\ Exhausted(i)
           THEN [i EXCEPT !.attempts = 0, !.retry = FALSE] ELSE i : i \in f}
    BY <1>3 DEF Applied, Rearmed
  <2> QED
    BY <2>1, <2>2
<1>4. CASE call.do \in Removes
  BY <1>4 DEF Applied, Removes
<1> QED
  BY <1>1, <1>2, <1>3, <1>4 DEF Call, Removes

\* Where no two live items share a work, a call leaves it so, up to the item it
\* gives back to the user; it keeps the works, except those it takes out.
LEMMA AppliedIsSound ==
    ASSUME NEW call \in Call, NEW f \in SUBSET Item, NEW id \in Nat, NEW tried \in SUBSET Nat,
           call.do = "enqueue" => \E w \in Works : call.of = {w},
           TwinFree(f, tried),
           call.do \in {"success", "dismiss"} =>
                \A i \in f : i.id = call.id => i.work \in call.of
    PROVE  Sound(call, WorksOf(f), Applied(call, f, id), tried)
<1> DEFINE g == Applied(call, f, id)
<1>1. CASE call.do = "enqueue"
  <2>1. PICK w \in Works : call.of = {w}
    BY <1>1
  <2>2. g = Enqueued(f, w, id)
    BY <1>1, <2>1 DEF Applied
  <2>3. f \subseteq g /\ g \subseteq f \cup {Fresh(id, w)}
    BY <2>2 DEF Enqueued
  <2>4. w \in WorksOf(g)
    <3>1. Fresh(id, w).work = w
      BY DEF Fresh, Untried
    <3>2. \E i \in g : i.work = w
      BY <2>2, <3>1 DEF Enqueued
    <3> QED
      BY <3>2 DEF WorksOf
  <2>5. TwinFree(g, tried)
    BY <2>2 DEF TwinFree, Enqueued, Fresh, Untried
  <2> QED
    BY <1>1, <2>1, <2>3, <2>4, <2>5 DEF Sound, Tried, Removes, WorksOf
<1>2. CASE call.do = "failed"
  <2>1. g = {IF i.id = call.id THEN FailedItem(i) ELSE i : i \in f}
    BY <1>2 DEF Applied, FailedOnce
  <2>2. \A i \in f : /\ FailedItem(i).id = i.id /\ FailedItem(i).work = i.work
                     /\ Exhausted(i) => Exhausted(FailedItem(i))
    BY DEF FailedItem, Exhausted, Item
  <2>3. \A j \in g : \E i \in f : i.id = j.id /\ i.work = j.work /\ (Exhausted(i) => Exhausted(j))
    BY <2>1, <2>2
  <2>4. TwinFree(g, tried)
    BY <2>3 DEF TwinFree
  <2>5. WorksOf(f) \subseteq WorksOf(g)
    BY <2>1, <2>2 DEF WorksOf
  <2> QED
    BY <1>2, <2>4, <2>5 DEF Sound, Tried, Removes
<1>3. CASE call.do = "rearm"
  <2> DEFINE R(i) == IF i.id = call.id /\ Exhausted(i)
                     THEN [i EXCEPT !.attempts = 0, !.retry = FALSE] ELSE i
  <2>1. g = {R(i) : i \in f}
    BY <1>3 DEF Applied, Rearmed
  <2>2. \A i \in f : /\ R(i).id = i.id /\ R(i).work = i.work
                     /\ i.id # call.id => R(i) = i
    BY DEF Item
  <2>3. \A j \in g : \E i \in f : i.id = j.id /\ i.work = j.work /\ (j.id # call.id => j = i)
    BY <2>1, <2>2
  <2>4. TwinFree(g, tried \cup {call.id})
    BY <2>3 DEF TwinFree
  <2>5. WorksOf(f) \subseteq WorksOf(g)
    BY <2>1, <2>2 DEF WorksOf
  <2> QED
    BY <1>3, <2>4, <2>5 DEF Sound, Tried, Removes
<1>4. CASE call.do \in Removes
  <2>1. g \subseteq f
    BY <1>4 DEF Applied, Removes
  <2>2. \A i \in f \ g : i.work \in call.of
    BY <1>4 DEF Applied, Removes
  <2> QED
    BY <1>4, <2>1, <2>2 DEF Sound, Tried, Removes, TwinFree, WorksOf
<1> QED
  BY <1>1, <1>2, <1>3, <1>4 DEF Call, Removes

------------------------------------------------------------------------------
(* Types, the works the calls name, the ids.                                 *)

LEMMA CallTypes ==
    /\ \A w \in Works : Enqueue(w) \in Call
    /\ \A i \in Item, do \in Marks : Mark(do, i) \in Call
    /\ \A works \in SUBSET Works : Reap(works) \in Call
BY DEF Enqueue, Mark, Reap, Call, Marks, Item

LEMMA SilentIs ==
    /\ Silent = [at |-> "idle", call |-> Reap({}), seen |-> {}, next |-> {}]
    /\ Silent.call.do = "reap" /\ Silent.call.do \notin Marks
    /\ Silent.next = {} /\ Silent.at = "idle"
    /\ \A call : Begun(call) = [at |-> "load", call |-> call, seen |-> {}, next |-> {}]
<1>1. Silent = [at |-> "idle", call |-> Reap({}), seen |-> {}, next |-> {}]
  BY DEF Silent
<1>2. Reap({}).do = "reap"
  BY DEF Reap
<1>3. ASSUME NEW call
      PROVE  Begun(call) = [at |-> "load", call |-> call, seen |-> {}, next |-> {}]
  BY DEF Begun
<1> QED
  BY <1>1, <1>2, <1>3 DEF Marks

LEMMA InitShape == Init => Shape
<1> SUFFICES ASSUME Init PROVE Shape
  OBVIOUS
<1>1. born \in Nat
  BY FS_CardinalityType DEF Init
<1>2. PICK order \in [1 .. born -> Left] :
        /\ \A k, l \in 1 .. born : order[k] = order[l] => k = l
        /\ file = {Untried(k, order[k], IF order[k] \in GivenUp THEN Attempts ELSE 0) : k \in 1 .. born}
  BY DEF Init
<1>3. Left \subseteq Works
  BY DEF Left, Own
<1>4. ASSUME NEW k \in 1 .. born, NEW n \in Nat
      PROVE  /\ Untried(k, order[k], n) \in Item
             /\ Untried(k, order[k], n).id = k /\ Untried(k, order[k], n).work = order[k]
  <2>1. order[k] \in Works /\ k \in Nat
    BY <1>1, <1>3
  <2> QED
    BY <2>1 DEF Untried, Item
<1>5. ASSUME NEW i \in file PROVE i \in Item /\ i.id \in 1 .. born /\ i.work = order[i.id]
  <2>1. PICK k \in 1 .. born : i = Untried(k, order[k], IF order[k] \in GivenUp THEN Attempts ELSE 0)
    BY <1>2
  <2>2. (IF order[k] \in GivenUp THEN Attempts ELSE 0) \in Nat
    OBVIOUS
  <2> QED
    BY <1>4, <2>1, <2>2
<1>6. TypeOK
  <2>1. Silent \in [at : {"idle", "load", "save"}, call : Call, seen : SUBSET Works, next : SUBSET Item]
    BY SilentIs, CallTypes
  <2>2. NoCycle \in [at : {"idle", "pool", "queue", "end"}, todo : SUBSET Own,
                     worked : SUBSET Own, items : SUBSET Item, failing : SUBSET Item]
    BY DEF NoCycle
  <2>3. GivenUp \subseteq Works /\ 0 \in 0 .. MaxFaults /\ 0 \in 0 .. MaxGestures
    BY DEF Own
  <2>4. \A i \in NoCycle.items \cup NoCycle.failing : i.work \in Own
    BY DEF NoCycle
  <2> QED
    BY <1>1, <1>5, <2>1, <2>2, <2>3, <2>4 DEF Init, TypeOK
<1>7. Single
  BY SilentIs DEF Init, Single
<1>8. Identity
  <2> DEFINE name == [k \in Nat |-> IF k \in 1 .. born THEN order[k] ELSE {}]
  <2>1. name \in [Nat -> Works \cup {{}}]
    BY <1>3
  <2>2. \A i \in file : Fits(name, i)
    BY <1>1, <1>5 DEF Fits
  <2>3. \A c \in Callers : calls[c] = Silent
    BY DEF Init
  <2>4. NoCycle.items \cup NoCycle.failing = {}
    BY DEF NoCycle
  <2>5. Agrees(name)
    BY <2>2, <2>3, <2>4, SilentIs DEF Agrees, Init
  <2> QED
    BY <2>1, <2>5 DEF Identity
<1> QED
  BY <1>6, <1>7, <1>8 DEF Shape

\* A call that begins with the works and the id it should keeps the shape of calls.
LEMMA CallsShape ==
    ASSUME TypeOK, Single, NEW c \in Callers, NEW call \in Call, Calls(c, call),
           call.do = "enqueue" => \E w \in Works : call.of = {w}
    PROVE  /\ calls' \in [Callers -> [at : {"idle", "load", "save"}, call : Call,
                                     seen : SUBSET Works, next : SUBSET Item]]
           /\ Single'
           /\ \A d \in Callers : /\ d # c => calls'[d] = calls[d]
                                 /\ d = c => calls'[d] = Begun(call)
<1>1. Begun(call) = [at |-> "load", call |-> call, seen |-> {}, next |-> {}]
  BY SilentIs
<1>2. calls' = [calls EXCEPT ![c] = Begun(call)]
  BY DEF Calls
<1>3. \A d \in Callers : /\ d # c => calls'[d] = calls[d]
                         /\ d = c => calls'[d] = Begun(call)
  BY <1>2 DEF TypeOK
<1>4. calls' \in [Callers -> [at : {"idle", "load", "save"}, call : Call,
                             seen : SUBSET Works, next : SUBSET Item]]
  BY <1>1, <1>2 DEF TypeOK
<1>5. Single'
  BY <1>1, <1>3 DEF Single
<1> QED
  BY <1>3, <1>4, <1>5

\* The ids keep their works when a call begins on an item that is held somewhere.
LEMMA CallsIdentity ==
    ASSUME TypeOK, Identity, NEW c \in Callers, NEW call \in Call, UNCHANGED <<file, born>>,
           \A d \in Callers : /\ d # c => calls'[d] = calls[d]
                              /\ d = c => calls'[d] = Begun(call),
           cycle'.items \cup cycle'.failing \subseteq cycle.items \cup cycle.failing,
           \/ call.do \notin Marks
           \/ \E i \in file \cup cycle.items \cup cycle.failing :
                 call.id = i.id /\ call.of = {i.work}
    PROVE  Identity'
<1>1. PICK name \in [Nat -> Works \cup {{}}] : Agrees(name)
  BY DEF Identity
<1>2. Begun(call).call = call /\ Begun(call).next = {}
  BY SilentIs
<1>3. ASSUME NEW d \in Callers, NEW i \in calls'[d].next
      PROVE  name[i.id] = i.work /\ i.id <= born
  <2>1. calls'[d] = calls[d]
    BY <1>2
  <2> QED
    BY <1>1, <2>1 DEF Agrees, Fits
<1>4. ASSUME NEW d \in Callers, calls'[d].call.do \in Marks
      PROVE  /\ calls'[d].call.of = {name[calls'[d].call.id]}
             /\ calls'[d].call.id <= born
  <2>1. CASE d = c
    BY <1>1, <1>2, <1>4, <2>1 DEF Agrees, Fits
  <2>2. CASE d # c
    <3>1. calls'[d] = calls[d]
      BY <2>2
    <3> QED
      BY <1>1, <1>4, <3>1 DEF Agrees
  <2> QED
    BY <2>1, <2>2
<1>5. Agrees(name)'
  BY <1>1, <1>3, <1>4 DEF Agrees, Fits
<1> QED
  BY <1>5 DEF Identity

\* The ids keep their works when the calls stay, or fall silent.
LEMMA QuietIdentity ==
    ASSUME TypeOK, Identity, UNCHANGED <<file, born>>,
           \A d \in Callers : calls'[d] = calls[d] \/ calls'[d] = Silent,
           cycle'.items \cup cycle'.failing \subseteq file \cup cycle.items \cup cycle.failing
    PROVE  Identity'
<1>1. PICK name \in [Nat -> Works \cup {{}}] : Agrees(name)
  BY DEF Identity
<1>2. Silent.call.do \notin Marks /\ Silent.next = {}
  BY SilentIs
<1>3. Agrees(name)'
  BY <1>1, <1>2 DEF Agrees, Fits
<1> QED
  BY <1>3 DEF Identity

\* An action that begins a call keeps the types, the works and the ids.
LEMMA BeginsShape ==
    ASSUME Shape, NEW c \in Callers, NEW call \in Call, Calls(c, call),
           UNCHANGED <<file, cooling, born, history>>,
           cycle' \in [at : {"idle", "pool", "queue", "end"}, todo : SUBSET Own,
                      worked : SUBSET Own, items : SUBSET Item, failing : SUBSET Item],
           cycle'.items \cup cycle'.failing \subseteq cycle.items \cup cycle.failing,
           faults' \in 0 .. MaxFaults, gestures' \in 0 .. MaxGestures,
           call.do = "enqueue" => \E w \in Works : call.of = {w},
           \/ call.do \notin Marks
           \/ \E i \in file \cup cycle.items \cup cycle.failing :
                 call.id = i.id /\ call.of = {i.work}
    PROVE  Shape' /\ \A d \in Callers : calls'[d] = calls[d] \/ calls'[d].at # "save"
<1>1. /\ calls' \in [Callers -> [at : {"idle", "load", "save"}, call : Call,
                                seen : SUBSET Works, next : SUBSET Item]]
      /\ Single'
      /\ \A d \in Callers : /\ d # c => calls'[d] = calls[d]
                            /\ d = c => calls'[d] = Begun(call)
  BY CallsShape DEF Shape
<1>2. Identity'
  BY <1>1, CallsIdentity DEF Shape
<1>3. TypeOK'
  BY <1>1 DEF Shape, TypeOK, history
<1> QED
  BY <1>1, <1>2, <1>3, SilentIs DEF Shape

\* An action that begins no call and writes nothing.
LEMMA QuietShape ==
    ASSUME Shape, UNCHANGED <<file, born, history>>, cooling' \subseteq cooling,
           \A d \in Callers : calls'[d] = calls[d] \/ calls'[d] = Silent,
           calls' \in [Callers -> [at : {"idle", "load", "save"}, call : Call,
                                 seen : SUBSET Works, next : SUBSET Item]],
           cycle' \in [at : {"idle", "pool", "queue", "end"}, todo : SUBSET Own,
                      worked : SUBSET Own, items : SUBSET Item, failing : SUBSET Item],
           \A i \in cycle'.items \cup cycle'.failing : i.work \in Own,
           cycle'.items \cup cycle'.failing \subseteq file \cup cycle.items \cup cycle.failing,
           faults' \in 0 .. MaxFaults, gestures' \in 0 .. MaxGestures
    PROVE  Shape' /\ \A d \in Callers : calls'[d] = calls[d] \/ calls'[d].at # "save"
<1>1. Identity'
  BY QuietIdentity DEF Shape
<1>2. TypeOK'
  BY DEF Shape, TypeOK, history
<1>3. Single'
  BY SilentIs DEF Shape, Single
<1> QED
  BY <1>1, <1>2, <1>3, SilentIs DEF Shape

\* Where nothing is written, the rest of the invariant stays.
LEMMA Quiet ==
    ASSUME IInv, Shape', UNCHANGED <<file, history>>,
           \A d \in Callers : calls'[d] = calls[d] \/ calls'[d].at # "save"
    PROVE  IInv'
BY DEF IInv, Pending, TwinsAreRearmed, FailuresStayListed, history

------------------------------------------------------------------------------
(* The two halves of a call.                                                 *)

LEMMA LoadKeeps ==
    ASSUME IInv, NEW c \in Callers, LoadFile(c)
    PROVE  IInv'
<1> DEFINE call   == calls[c].call
           result == Applied(call, file, born + 1)
<1>0. /\ TypeOK /\ Single /\ call \in Call /\ call.of \subseteq Works
      /\ call.do = "enqueue" => \E w \in Works : call.of = {w}
  BY DEF IInv, Shape, TypeOK, Single, Call
<1>1. PICK name \in [Nat -> Works \cup {{}}] : Agrees(name)
  BY DEF IInv, Shape, Identity
<1>2. UNCHANGED <<file, cycle, cooling, faults, gestures, rearmed, crossed>>
  BY DEF LoadFile
<1>3. CASE result = file
  <2>1. calls' = [calls EXCEPT ![c] = Silent] /\ born' = born /\ Settles(call, file)
    BY <1>3 DEF LoadFile
  <2>2. \A d \in Callers : (d # c => calls'[d] = calls[d]) /\ (d = c => calls'[d] = Silent)
    BY <2>1, <1>0 DEF TypeOK
  <2>3. /\ calls' \in [Callers -> [at : {"idle", "load", "save"}, call : Call,
                                  seen : SUBSET Works, next : SUBSET Item]]
    <3>1. Silent \in [at : {"idle", "load", "save"}, call : Call, seen : SUBSET Works, next : SUBSET Item]
      BY SilentIs, CallTypes
    <3> QED
      BY <2>1, <3>1, <1>0 DEF TypeOK
  <2>4. owed' \subseteq Works
    BY <2>1, <1>0 DEF Settles, TypeOK
  <2>5. TypeOK'
    BY <1>0, <1>2, <2>1, <2>3, <2>4 DEF TypeOK
  <2>6. Single'
    BY <1>0, <2>2, SilentIs DEF Single
  <2>7. Identity'
    BY <1>0, <1>2, <2>1, <2>2, QuietIdentity DEF IInv, Shape
  <2>8. Pending' /\ TwinsAreRearmed'
    BY <1>2, <2>2, SilentIs DEF IInv, Pending, TwinsAreRearmed
  <2>9. call.do = "enqueue" => call.of \subseteq WorksOf(file)
    <3> SUFFICES ASSUME call.do = "enqueue" PROVE call.of \subseteq WorksOf(file)
      OBVIOUS
    <3>1. TwinFree(file, rearmed)
      BY DEF IInv, TwinsAreRearmed, TwinFree
    <3>2. Sound(call, WorksOf(file), result, rearmed)
      BY <1>0, <3>1, AppliedIsSound DEF TypeOK
    <3> QED
      BY <1>3, <3>2 DEF Sound
  <2>10. FailuresStayListed'
    BY <1>2, <2>1, <2>9 DEF IInv, FailuresStayListed, Settles
  <2> QED
    BY <2>5, <2>6, <2>7, <2>8, <2>10 DEF IInv, Shape
<1>4. CASE result # file
  <2> DEFINE saving == [at |-> "save", call |-> call, seen |-> WorksOf(file), next |-> result]
  <2>1. /\ calls' = [calls EXCEPT ![c] = saving] /\ UNCHANGED owed
        /\ born' = IF call.do = "enqueue" THEN born + 1 ELSE born
    BY <1>4 DEF LoadFile
  <2>2. \A d \in Callers : (d # c => calls'[d] = calls[d]) /\ (d = c => calls'[d] = saving)
    BY <2>1, <1>0 DEF TypeOK
  <2>3. born \in Nat /\ born' \in Nat /\ born <= born' /\ born + 1 \in Nat
    BY <2>1, <1>0 DEF TypeOK
  <2>4. result \subseteq Item
    BY <1>0, <2>3, AppliedTypes DEF TypeOK
  <2>5. WorksOf(file) \subseteq Works
    BY <1>0 DEF TypeOK, WorksOf, Item
  <2>6. calls' \in [Callers -> [at : {"idle", "load", "save"}, call : Call,
                               seen : SUBSET Works, next : SUBSET Item]]
    BY <1>0, <2>1, <2>4, <2>5 DEF TypeOK
  <2>7. TypeOK'
    BY <1>0, <1>2, <2>1, <2>3, <2>6 DEF TypeOK
  <2>8. Single'
    BY <1>0, <2>2 DEF Single
  <2>9. Identity'
    <3>1. CASE call.do = "enqueue"
      <4>1. PICK w \in Works : call.of = {w}
        BY <1>0, <3>1
      <4>2. PICK named \in [Nat -> Works \cup {{}}] : named = [name EXCEPT ![born + 1] = w]
        OBVIOUS
      <4>3. named[born + 1] = w /\ \A n \in Nat : n <= born => named[n] = name[n]
        BY <2>3, <4>2
      <4>4. \A i \in Item : Fits(name, i) => named[i.id] = i.work /\ i.id <= born'
        BY <2>3, <4>3 DEF Fits, Item
      <4>5. (CHOOSE v \in call.of : TRUE) = w
        BY <4>1
      <4>6. result \subseteq file \cup {Fresh(born + 1, w)}
        BY <3>1, <4>5 DEF Applied, Enqueued
      <4>7. Fresh(born + 1, w).id = born + 1 /\ Fresh(born + 1, w).work = w
        BY DEF Fresh, Untried
      <4>8. \A i \in result : named[i.id] = i.work /\ i.id <= born'
        BY <1>0, <1>1, <2>1, <2>3, <3>1, <4>3, <4>4, <4>6, <4>7 DEF Agrees, TypeOK
      <4>9. \A i \in file \cup cycle.items \cup cycle.failing : named[i.id] = i.work /\ i.id <= born'
        BY <1>0, <1>1, <4>4 DEF Agrees, TypeOK
      <4>10. \A d \in Callers : \A i \in calls'[d].next : named[i.id] = i.work /\ i.id <= born'
        BY <1>0, <1>1, <2>2, <4>4, <4>8 DEF Agrees, TypeOK
      <4>11. \A d \in Callers : calls'[d].call.do \in Marks =>
                  /\ calls'[d].call.of = {named[calls'[d].call.id]}
                  /\ calls'[d].call.id <= born'
        <5> SUFFICES ASSUME NEW d \in Callers, calls'[d].call.do \in Marks
                     PROVE  /\ calls'[d].call.of = {named[calls'[d].call.id]}
                            /\ calls'[d].call.id <= born'
          OBVIOUS
        <5>1. d # c
          BY <2>2, <3>1 DEF Marks
        <5>2. /\ calls'[d] = calls[d] /\ calls[d].call.id \in Nat
              /\ calls[d].call.of = {name[calls[d].call.id]} /\ calls[d].call.id <= born
          BY <1>0, <1>1, <2>2, <5>1 DEF Agrees, TypeOK, Call
        <5> QED
          BY <2>3, <4>3, <5>2
      <4>12. Agrees(named)'
        BY <1>2, <4>9, <4>10, <4>11 DEF Agrees, Fits
      <4> QED
        BY <4>2, <4>12 DEF Identity
    <3>2. CASE call.do # "enqueue"
      <4>1. \A i \in result : \E j \in file : i.id = j.id /\ i.work = j.work
        <5>1. CASE call.do = "failed"
          <6>1. result = {IF i.id = call.id THEN FailedItem(i) ELSE i : i \in file}
            BY <5>1 DEF Applied, FailedOnce
          <6>2. \A i \in file : FailedItem(i).id = i.id /\ FailedItem(i).work = i.work
            BY <1>0 DEF FailedItem, TypeOK, Item
          <6> QED
            BY <6>1, <6>2
        <5>2. CASE call.do = "rearm"
          <6>1. result = {IF i.id = call.id /\ Exhausted(i)
                          THEN [i EXCEPT !.attempts = 0, !.retry = FALSE] ELSE i : i \in file}
            BY <5>2 DEF Applied, Rearmed
          <6>2. \A i \in file : LET j == [i EXCEPT !.attempts = 0, !.retry = FALSE]
                                IN  j.id = i.id /\ j.work = i.work
            BY <1>0 DEF TypeOK, Item
          <6> QED
            BY <6>1, <6>2
        <5>3. CASE call.do \in Removes
          BY <5>3 DEF Applied, Removes
        <5> QED
          BY <1>0, <3>2, <5>1, <5>2, <5>3 DEF Call, Removes
      <4>2. born' = born
        BY <2>1, <3>2
      <4>3. \A i \in result : Fits(name, i)
        BY <1>1, <4>1 DEF Agrees, Fits
      <4>4. \A d \in Callers : calls'[d].call = calls[d].call
        BY <2>2
      <4>5. \A d \in Callers : \A i \in calls'[d].next : Fits(name, i)
        BY <1>1, <2>2, <4>3 DEF Agrees
      <4>6. Agrees(name)'
        BY <1>1, <1>2, <4>2, <4>4, <4>5 DEF Agrees, Fits
      <4> QED
        BY <4>6 DEF Identity
    <3> QED
      BY <3>1, <3>2
  <2>10. Pending'
    <3>1. TwinFree(file, rearmed)
      BY DEF IInv, TwinsAreRearmed, TwinFree
    <3>2. call.do \in {"success", "dismiss"} => \A i \in file : i.id = call.id => i.work \in call.of
      BY <1>1 DEF Agrees, Fits, Marks
    <3>3. Sound(call, WorksOf(file), result, rearmed)
      BY <1>0, <2>3, <3>1, <3>2, AppliedIsSound DEF TypeOK
    <3>4. \A d \in Callers : calls'[d].at = "save" =>
             Sound(calls'[d].call, calls'[d].seen, calls'[d].next, rearmed)
      BY <2>2, <3>3 DEF IInv, Pending
    <3> QED
      BY <1>2, <3>4 DEF Pending
  <2>11. TwinsAreRearmed' /\ FailuresStayListed'
    BY <1>2, <2>1 DEF IInv, TwinsAreRearmed, FailuresStayListed
  <2> QED
    BY <2>7, <2>8, <2>9, <2>10, <2>11 DEF IInv, Shape
<1> QED
  BY <1>3, <1>4

LEMMA SaveKeeps ==
    ASSUME IInv, NEW c \in Callers, SaveFile(c)
    PROVE  IInv'
<1> DEFINE call  == calls[c].call
           after == calls[c].next
<1>0. /\ TypeOK /\ Single /\ call \in Call /\ call.of \subseteq Works /\ call.id \in Nat
      /\ after \subseteq Item
  BY DEF IInv, Shape, TypeOK, Call
<1>1. /\ calls[c].at = "save" /\ file' = after /\ calls' = [calls EXCEPT ![c] = Silent]
      /\ rearmed' = rearmed \cup Tried(call)
      /\ Settles(call, after)
      /\ crossed' = crossed \cup (WorksOf(file) \ (WorksOf(after) \cup calls[c].seen))
      /\ UNCHANGED <<cycle, born, faults, gestures>>
  BY DEF SaveFile, Tried
<1>2. \A d \in Callers : (d # c => calls'[d] = calls[d]) /\ (d = c => calls'[d] = Silent)
  BY <1>0, <1>1 DEF TypeOK
<1>3. Sound(call, calls[c].seen, after, rearmed)
  BY <1>1 DEF IInv, Pending
<1>4. TypeOK'
  <2>1. Silent \in [at : {"idle", "load", "save"}, call : Call, seen : SUBSET Works, next : SUBSET Item]
    BY SilentIs, CallTypes
  <2>2. cooling' \subseteq Nat /\ rearmed' \subseteq Nat
    BY <1>0, <1>1 DEF TypeOK, Tried, SaveFile
  <2>3. owed' \subseteq Works
    BY <1>0, <1>1 DEF TypeOK, Settles
  <2>4. crossed' \subseteq Works
    BY <1>0, <1>1 DEF TypeOK, WorksOf, Item
  <2> QED
    BY <1>0, <1>1, <2>1, <2>2, <2>3, <2>4 DEF TypeOK
<1>5. Single'
  BY <1>0, <1>2, SilentIs DEF Single
<1>6. Identity'
  <2>1. PICK name \in [Nat -> Works \cup {{}}] : Agrees(name)
    BY DEF IInv, Shape, Identity
  <2>2. \A i \in after : Fits(name, i)
    BY <2>1 DEF Agrees
  <2>3. Agrees(name)'
    BY <1>1, <1>2, <2>1, <2>2, SilentIs DEF Agrees, Fits
  <2> QED
    BY <2>3 DEF Identity
<1>7. Pending'
  <2> SUFFICES ASSUME NEW d \in Callers, calls'[d].at = "save"
               PROVE  Sound(calls[d].call, calls[d].seen, calls[d].next, rearmed') /\ calls'[d] = calls[d]
    BY DEF Pending
  <2>1. calls'[d] = calls[d]
    BY <1>2, SilentIs
  <2>2. Sound(calls[d].call, calls[d].seen, calls[d].next, rearmed)
    BY <2>1 DEF IInv, Pending
  <2> QED
    BY <1>1, <2>1, <2>2 DEF Sound, TwinFree
<1>8. TwinsAreRearmed'
  BY <1>1, <1>3 DEF Sound, TwinFree, TwinsAreRearmed
<1>9. FailuresStayListed'
  <2> SUFFICES ASSUME NEW w \in owed', w \notin crossed', w \notin WorksOf(after)
               PROVE  FALSE
    BY <1>1 DEF FailuresStayListed, WorksOf
  <2>1. w \in owed
    BY <1>1, <1>3 DEF Settles, Sound
  <2>2. w \in WorksOf(file)
    BY <1>1, <2>1 DEF IInv, FailuresStayListed
  <2>3. w \in calls[c].seen
    BY <1>1, <2>2
  <2>4. call.do \in Removes /\ w \in call.of
    BY <1>3, <2>3 DEF Sound
  <2> QED
    BY <1>1, <2>4 DEF Settles, Removes
<1> QED
  BY <1>4, <1>5, <1>6, <1>7, <1>8, <1>9 DEF IInv, Shape

------------------------------------------------------------------------------
(* The steps.                                                                *)

\* The cycle as an action leaves it.
CycleFits(items) ==
    /\ cycle' \in [at : {"idle", "pool", "queue", "end"}, todo : SUBSET Own,
                  worked : SUBSET Own, items : SUBSET Item, failing : SUBSET Item]
    /\ cycle'.items \cup cycle'.failing \subseteq items

LEMMA CycleActions ==
    ASSUME IInv, CycleStart \/ PoolStep \/ CycleStep
    PROVE  IInv'
<1> DEFINE Held == cycle.items \cup cycle.failing
<1>0. TypeOK /\ Shape
  BY DEF IInv, Shape
<1>1. /\ calls \in [Callers -> [at : {"idle", "load", "save"}, call : Call,
                               seen : SUBSET Works, next : SUBSET Item]]
      /\ cycle \in [at : {"idle", "pool", "queue", "end"}, todo : SUBSET Own,
                    worked : SUBSET Own, items : SUBSET Item, failing : SUBSET Item]
      /\ \A i \in Held : i.work \in Own /\ i \in Item
      /\ Own \subseteq Works
      /\ faults \in 0 .. MaxFaults /\ gestures \in 0 .. MaxGestures
  BY <1>0 DEF TypeOK, Own
<1>2. ASSUME CycleFits(Held \cup {i \in file : i.work \in Own}), UNCHANGED calls,
             faults' \in 0 .. MaxFaults, UNCHANGED <<file, cooling, born, gestures, history>>
      PROVE  IInv'
  BY <1>0, <1>1, <1>2, QuietShape, Quiet DEF CycleFits, history
<1>3. ASSUME NEW c \in Callers, NEW call \in Call, Calls(c, call), CycleFits(Held),
             faults' \in 0 .. MaxFaults, UNCHANGED <<file, cooling, born, gestures, history>>,
             call.do = "enqueue" => \E w \in Works : call.of = {w},
             \/ call.do \notin Marks
             \/ \E i \in Held : call.id = i.id /\ call.of = {i.work}
      PROVE  IInv'
  BY <1>0, <1>1, <1>3, BeginsShape, Quiet DEF CycleFits, history
<1>4. \A w \in Own : Enqueue(w) \in Call /\ Enqueue(w).do = "enqueue" /\ Enqueue(w).of = {w}
  BY <1>1, CallTypes DEF Enqueue
<1>5. \A i \in Held, do \in Marks : /\ Mark(do, i) \in Call /\ Mark(do, i).do = do
                                    /\ Mark(do, i).id = i.id /\ Mark(do, i).of = {i.work}
  BY <1>1, CallTypes DEF Mark
<1>6. Fault => faults' \in 0 .. MaxFaults
  BY <1>1 DEF Fault
<1>7. {"loop", "user", "panel"} \subseteq Callers /\ Slots \subseteq Callers
  BY DEF Callers
<1>8. NoCycle \in [at : {"idle", "pool", "queue", "end"}, todo : SUBSET Own,
                  worked : SUBSET Own, items : SUBSET Item, failing : SUBSET Item]
      /\ NoCycle.items \cup NoCycle.failing = {}
  BY DEF NoCycle
<1>9. "enqueue" \notin Marks /\ "reap" \notin Marks /\ {"success", "failed"} \subseteq Marks
  BY DEF Marks
<1>10. CASE CycleStart
  <2>1. PICK works \in SUBSET Own : cycle' = [NoCycle EXCEPT !.at = "pool", !.todo = works, !.worked = works]
    BY <1>10 DEF CycleStart
  <2>2. CycleFits(Held)
    BY <1>8, <2>1 DEF CycleFits, NoCycle
  <2> QED
    BY <1>2, <1>1, <1>10, <2>2 DEF CycleStart, CycleFits
<1>11. CASE PoolStep
  <2>1. PICK w \in Own : PoolSends(w) \/ PoolFails(w)
    BY <1>11 DEF PoolStep
  <2>2. cycle' = [cycle EXCEPT !.todo = @ \ {w}]
    BY <2>1 DEF PoolSends, PoolFails
  <2>3. CycleFits(Held)
    BY <1>1, <2>2 DEF CycleFits
  <2>4. CASE PoolSends(w)
    BY <1>2, <1>1, <2>3, <2>4 DEF PoolSends, CycleFits
  <2>5. CASE PoolFails(w)
    <3>1. (CHOOSE s \in FreeSlots : TRUE) \in Callers
      BY <1>7, <2>5 DEF PoolFails, FreeSlots
    <3> QED
      BY <1>3, <1>4, <1>6, <1>9, <1>1, <2>3, <2>5, <3>1 DEF PoolFails
  <2> QED
    BY <2>1, <2>4, <2>5
<1>12. CASE QueueStart
  <2>1. cycle' = [cycle EXCEPT !.at = "queue", !.items = {i \in Dequeued : i.work \in Own}]
    BY <1>12 DEF QueueStart
  <2>2. Dequeued \subseteq file /\ file \subseteq Item
    BY <1>0 DEF Dequeued, FirstOf, TypeOK
  <2>3. CycleFits(Held \cup {i \in file : i.work \in Own})
    BY <1>1, <2>1, <2>2 DEF CycleFits
  <2> QED
    BY <1>2, <1>1, <1>12, <2>3 DEF QueueStart
<1>13. CASE ItemStep
  <2>1. ASSUME NEW i \in cycle.items, Leaves(i) PROVE CycleFits(Held)
    BY <1>1, <2>1 DEF Leaves, CycleFits
  <2>2. ASSUME NEW i \in cycle.items, QueueSends(i) PROVE IInv'
    <3>1. Calls("loop", Mark("success", i)) /\ CycleFits(Held)
      BY <2>1, <2>2 DEF QueueSends
    <3>2. Mark("success", i) \in Call /\ Mark("success", i).do = "success"
          /\ Mark("success", i).id = i.id /\ Mark("success", i).of = {i.work}
      BY <1>5, <1>9
    <3> QED
      BY <1>1, <1>3, <1>7, <2>2, <3>1, <3>2 DEF QueueSends
  <2>3. ASSUME NEW i \in cycle.items, QueueFails(i) PROVE IInv'
    <3>1. cycle' = [cycle EXCEPT !.items = @ \ {i}, !.failing = {i}]
      BY <2>3 DEF QueueFails
    <3>2. CycleFits(Held)
      BY <1>1, <3>1 DEF CycleFits
    <3>3. CASE UNCHANGED calls
      BY <1>2, <1>1, <1>6, <2>3, <3>2, <3>3 DEF QueueFails, CycleFits
    <3>4. CASE Calls("loop", Enqueue(i.work))
      BY <1>3, <1>1, <1>4, <1>6, <1>7, <1>9, <2>3, <3>2, <3>4 DEF QueueFails
    <3> QED
      BY <2>3, <3>3, <3>4 DEF QueueFails
  <2>4. ASSUME NEW i \in cycle.items, QueueSkips(i) PROVE IInv'
    <3>1. CycleFits(Held)
      BY <2>1, <2>4 DEF QueueSkips
    <3> QED
      BY <1>2, <1>1, <1>6, <2>4, <3>1 DEF QueueSkips, CycleFits
  <2>5. ASSUME NEW i \in cycle.failing, QueueMarks(i) PROVE IInv'
    <3>1. cycle' = [cycle EXCEPT !.failing = {}]
      BY <2>5 DEF QueueMarks
    <3>2. CycleFits(Held)
      BY <1>1, <3>1 DEF CycleFits
    <3>3. Mark("failed", i) \in Call /\ Mark("failed", i).do = "failed"
          /\ Mark("failed", i).id = i.id /\ Mark("failed", i).of = {i.work}
      BY <1>5, <1>9
    <3> QED
      BY <1>1, <1>3, <1>7, <2>5, <3>2, <3>3 DEF QueueMarks
  <2> QED
    BY <1>13, <2>2, <2>3, <2>4, <2>5 DEF ItemStep
<1>14. CASE QueueEnd
  <2>1. cycle' = [cycle EXCEPT !.at = "end"]
    BY <1>14 DEF QueueEnd
  <2>2. CycleFits(Held)
    BY <1>1, <2>1 DEF CycleFits
  <2> QED
    BY <1>2, <1>1, <1>14, <2>2 DEF QueueEnd, CycleFits
<1>15. CASE CycleEnd
  <2>1. CycleFits(Held)
    BY <1>8, <1>15 DEF CycleEnd, CycleFits
  <2>2. CASE UNCHANGED calls
    BY <1>2, <1>1, <1>15, <2>1, <2>2 DEF CycleEnd, CycleFits
  <2>3. CASE \E synced \in SUBSET (Own \ cycle.worked) : Calls("loop", Reap(synced))
    <3>1. PICK synced \in SUBSET (Own \ cycle.worked) : Calls("loop", Reap(synced))
      BY <2>3
    <3>2. Reap(synced) \in Call /\ Reap(synced).do = "reap"
      BY <1>1, CallTypes DEF Reap
    <3> QED
      BY <1>1, <1>3, <1>7, <1>9, <1>15, <2>1, <3>1, <3>2 DEF CycleEnd
  <2> QED
    BY <1>15, <2>2, <2>3 DEF CycleEnd
<1> QED
  BY <1>10, <1>11, <1>12, <1>13, <1>14, <1>15 DEF CycleStep

LEMMA Outside ==
    ASSUME IInv, \/ Gesture \/ Crash \/ \E w \in Own : PanelFails(w)
                 \/ \E id \in cooling : Elapse(id)
    PROVE  IInv'
<1>0. TypeOK /\ Shape
  BY DEF IInv, Shape
<1>1. /\ calls \in [Callers -> [at : {"idle", "load", "save"}, call : Call,
                               seen : SUBSET Works, next : SUBSET Item]]
      /\ cycle \in [at : {"idle", "pool", "queue", "end"}, todo : SUBSET Own,
                    worked : SUBSET Own, items : SUBSET Item, failing : SUBSET Item]
      /\ \A i \in cycle.items \cup cycle.failing : i.work \in Own
      /\ Own \subseteq Works /\ file \subseteq Item
      /\ faults \in 0 .. MaxFaults /\ gestures \in 0 .. MaxGestures
      /\ {"loop", "user", "panel"} \subseteq Callers
  BY <1>0 DEF TypeOK, Own, Callers
<1>2. Fault => faults' \in 0 .. MaxFaults
  BY <1>1 DEF Fault
<1>3. CASE Gesture
  <2>1. PICK do \in {"rearm", "dismiss"}, i \in file : Calls("user", Mark(do, i))
    BY <1>3 DEF Gesture
  <2>2. /\ Mark(do, i) \in Call /\ Mark(do, i).do # "enqueue"
        /\ Mark(do, i).id = i.id /\ Mark(do, i).of = {i.work}
    BY <1>1, <2>1, CallTypes DEF Mark, Marks
  <2>3. gestures' \in 0 .. MaxGestures
    BY <1>1, <1>3 DEF Gesture
  <2>4. UNCHANGED <<file, cycle, cooling, born, faults, history>>
    BY <1>3 DEF Gesture
  <2> QED
    BY <1>0, <1>1, <2>1, <2>2, <2>3, <2>4, BeginsShape, Quiet DEF history
<1>4. CASE \E w \in Own : PanelFails(w)
  <2>1. PICK w \in Own : PanelFails(w)
    BY <1>4
  <2>2. Enqueue(w) \in Call /\ Enqueue(w).do \notin Marks /\ Enqueue(w).of = {w}
    BY <1>1, CallTypes DEF Enqueue, Marks
  <2>3. UNCHANGED <<file, cycle, cooling, born, gestures, history>>
    BY <2>1 DEF PanelFails
  <2>4. Calls("panel", Enqueue(w)) /\ faults' \in 0 .. MaxFaults
    BY <1>2, <2>1 DEF PanelFails
  <2> QED
    BY <1>0, <1>1, <2>2, <2>3, <2>4, BeginsShape, Quiet DEF history
<1>5. CASE \E id \in cooling : Elapse(id)
  BY <1>0, <1>1, <1>5, QuietShape, Quiet DEF Elapse, history
<1>6. CASE Crash
  <2>1. \A d \in Callers : calls'[d] = Silent
    BY <1>6 DEF Crash
  <2>2. calls' \in [Callers -> [at : {"idle", "load", "save"}, call : Call,
                               seen : SUBSET Works, next : SUBSET Item]]
    <3>1. Silent \in [at : {"idle", "load", "save"}, call : Call, seen : SUBSET Works, next : SUBSET Item]
      BY SilentIs, CallTypes
    <3> QED
      BY <1>6, <3>1 DEF Crash
  <2>3. /\ NoCycle \in [at : {"idle", "pool", "queue", "end"}, todo : SUBSET Own,
                       worked : SUBSET Own, items : SUBSET Item, failing : SUBSET Item]
        /\ NoCycle.items \cup NoCycle.failing = {}
    BY DEF NoCycle
  <2> QED
    BY <1>0, <1>1, <1>2, <1>6, <2>1, <2>2, <2>3, QuietShape, Quiet DEF Crash, history
<1> QED
  BY <1>3, <1>4, <1>5, <1>6

LEMMA Stutter == ASSUME IInv, UNCHANGED vars PROVE IInv'
<1>0. TypeOK /\ Shape
  BY DEF IInv, Shape
<1> QED
  BY <1>0, QuietShape, Quiet DEF vars, history, TypeOK

\* At the start the file holds one item per work left, and no call is under way.
LEMMA InitIInv == Init => IInv
<1> SUFFICES ASSUME Init PROVE IInv
  OBVIOUS
<1>1. PICK order \in [1 .. born -> Left] :
        /\ \A w \in Left : \E k \in 1 .. born : order[k] = w
        /\ \A k, l \in 1 .. born : order[k] = order[l] => k = l
        /\ file = {Untried(k, order[k], IF order[k] \in GivenUp THEN Attempts ELSE 0) : k \in 1 .. born}
  BY DEF Init
<1>2. \A k, w, n : Untried(k, w, n).id = k /\ Untried(k, w, n).work = w
  BY DEF Untried
<1>3. TwinsAreRearmed
  <2> SUFFICES ASSUME NEW i \in file, NEW j \in file, i.work = j.work
               PROVE  i.id = j.id
    BY DEF TwinsAreRearmed
  <2>1. PICK k \in 1 .. born : i.id = k /\ i.work = order[k]
    BY <1>1, <1>2
  <2>2. PICK l \in 1 .. born : j.id = l /\ j.work = order[l]
    BY <1>1, <1>2
  <2> QED
    BY <1>1, <2>1, <2>2
<1>4. FailuresStayListed
  <2> SUFFICES ASSUME NEW w \in GivenUp PROVE \E i \in file : i.work = w
    BY DEF Init, FailuresStayListed, WorksOf
  <2>1. PICK k \in 1 .. born : order[k] = w
    BY <1>1 DEF Left
  <2> DEFINE i == Untried(k, order[k], IF order[k] \in GivenUp THEN Attempts ELSE 0)
  <2>2. i \in file /\ i.work = w
    BY <1>1, <1>2, <2>1
  <2> QED
    BY <2>2
<1>5. Pending
  BY SilentIs DEF Init, Pending
<1> QED
  BY InitShape, <1>3, <1>4, <1>5 DEF IInv

LEMMA NextKeeps == IInv /\ [Next]_vars => IInv'
<1> SUFFICES ASSUME IInv, [Next]_vars PROVE IInv'
  OBVIOUS
<1>1. CASE CallStep
  BY <1>1, LoadKeeps, SaveKeeps DEF CallStep
<1>2. CASE CycleStart \/ PoolStep \/ CycleStep
  BY <1>2, CycleActions
<1>3. CASE \/ Gesture \/ Crash \/ (\E w \in Own : PanelFails(w))
           \/ (\E id \in cooling : Elapse(id))
  BY <1>3, Outside
<1>4. CASE UNCHANGED vars
  BY <1>4, Stutter
<1> QED
  BY <1>1, <1>2, <1>3, <1>4 DEF Next

\* Every behaviour keeps the inductive invariant.
THEOREM Inductive == Spec => []IInv
BY InitIInv, NextKeeps, PTL DEF Spec

\* The file, the calls and the cycle keep their types, for any works and slots: the
\* loop of processQueue never holds an item of another profile.
THEOREM TypeCorrect == Spec => []TypeOK
<1>1. IInv => TypeOK
  BY DEF IInv, Shape
<1> QED
  BY <1>1, Inductive, PTL

\* However the reads and the writes of the calls cross, two items of one work wait
\* together only after the user had one of them tried again.
THEOREM TwinsTheorem == Spec => []TwinsAreRearmed
<1>1. IInv => TwinsAreRearmed
  BY DEF IInv
<1> QED
  BY <1>1, Inductive, PTL

\* A failure that was written keeps its line until a success, a dismissal or a cycle
\* settles it, unless another call wrote the file over without having read it.
THEOREM ListedTheorem == Spec => []FailuresStayListed
<1>1. IInv => FailuresStayListed
  BY DEF IInv
<1> QED
  BY <1>1, Inductive, PTL

==============================================================================
