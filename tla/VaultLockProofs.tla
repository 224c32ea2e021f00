---------------------------- MODULE VaultLockProofs ----------------------------
(***************************************************************************)
(* Behind a shut gate the session key is loaded only while a lock waits,   *)
(* for any number of texts, locks and unlocks and pipes of any length.     *)
(*                                                                         *)
(* A report of a lock erases nothing by itself when nobody waits for it,   *)
(* so the invariant says why it need not: on the pipe it follows an erase  *)
(* message and no key comes between the two (Off).  The effect of App.tsx  *)
(* sends a report with no erase message: the second part says that it      *)
(* does so only while the last word on the key is an erase.                *)
(*                                                                         *)
(* Then the types: the loads the window waits for are those on the pipes.  *)
(* Then the report of a lock as a proof: the text its teardown found is in *)
(* the main process already, for texts reach the disk in the order they    *)
(* were typed (Ordered) and nothing that a report, a teardown or a timer   *)
(* that is not armed stands for is anywhere behind it (Given).             *)
(***************************************************************************)
EXTENDS VaultLock, FiniteSetTheorems, TLAPS

\* The number of session keys loaded.  (Terms suit the provers better than
\* Booleans as arguments.)
Keys == IF key THEN 1 ELSE 0

\* After the first i messages of pipe s no key is loaded, when there were so many
\* before them.
Off(s, loaded, i) ==
    \/ \E j \in 1 .. i : /\ s[j].kind = "erase"
                         /\ \A k \in (j + 1) .. i : s[k].kind # "set"
    \/ /\ loaded = 0
       /\ \A k \in 1 .. i : s[k].kind # "set"

PlainTypes ==
    /\ gate \in {"unknown", "open", "shut"}
    /\ waits \in Nat
    /\ work \in Seq(Texts) /\ typed \in Texts /\ tears \subseteq Texts
    /\ up \in Seq(Up) /\ down \in Seq(Down)
    /\ screen \in {"open", "locked"} /\ shown \in {"open", "locked"}

\* The types the proof needs; loading would need messages counted.
Types == key \in BOOLEAN /\ PlainTypes

ReportsFollowAnErase ==
    \A i \in 1 .. Len(up) : up[i].kind = "locked" => Off(up, Keys, i)

SilentReportIsDue ==
    screen = "locked" /\ shown = "open" => Off(up, Keys, Len(up))

IInv == Types /\ ReportsFollowAnErase /\ SilentReportIsDue /\ NoKeyBehindAShutGate

----------------------------------------------------------------------------
(* The operator Off, as the pipe moves.                                     *)

\* Messages added at the end change nothing for those before them.
LEMMA OffBefore ==
    ASSUME NEW s \in Seq(Up), NEW t \in Seq(Up), NEW loaded \in 0 .. 1,
           NEW i \in 0 .. Len(s), Off(s, loaded, i)
    PROVE  Off(s \o t, loaded, i)
  <1>1. \A k \in 1 .. i : (s \o t)[k] = s[k]
    OBVIOUS
  <1> QED
    BY <1>1 DEF Off

\* Messages that carry no key leave the key off.
LEMMA OffAfter ==
    ASSUME NEW s \in Seq(Up), NEW t \in Seq(Up), NEW loaded \in 0 .. 1,
           Off(s, loaded, Len(s)), \A k \in 1 .. Len(t) : t[k].kind # "set",
           NEW i \in Len(s) .. Len(s) + Len(t)
    PROVE  Off(s \o t, loaded, i)
  <1>1. \A k \in 1 .. Len(s) : (s \o t)[k] = s[k]
    OBVIOUS
  <1>2. \A k \in Len(s) + 1 .. i : (s \o t)[k].kind # "set"
    <2>1. \A k \in Len(s) + 1 .. i : k - Len(s) \in 1 .. Len(t) /\ (s \o t)[k] = t[k - Len(s)]
      OBVIOUS
    <2> QED
      BY <2>1
  <1>3. CASE \E j \in 1 .. Len(s) : /\ s[j].kind = "erase"
                                    /\ \A k \in (j + 1) .. Len(s) : s[k].kind # "set"
    <2>1. PICK j \in 1 .. Len(s) : /\ s[j].kind = "erase"
                                   /\ \A k \in (j + 1) .. Len(s) : s[k].kind # "set"
      BY <1>3
    <2>2. \A k \in (j + 1) .. i : (s \o t)[k].kind # "set"
      BY <1>1, <1>2, <2>1
    <2>3. j \in 1 .. i /\ (s \o t)[j].kind = "erase"
      BY <1>1, <2>1
    <2> QED
      BY <2>2, <2>3 DEF Off
  <1>4. CASE loaded = 0 /\ \A k \in 1 .. Len(s) : s[k].kind # "set"
    <2>1. \A k \in 1 .. i : (s \o t)[k].kind # "set"
      BY <1>1, <1>2, <1>4
    <2> QED
      BY <1>4, <2>1 DEF Off
  <1> QED
    BY <1>3, <1>4 DEF Off

\* An erase message, and nothing but reports after it, leaves the key off.
LEMMA OffErased ==
    ASSUME NEW s \in Seq(Up), NEW text \in Texts, NEW loaded \in 0 .. 1
    PROVE  LET t == s \o <<Msg("erase", 0), Msg("locked", text)>>
           IN  Off(t, loaded, Len(s) + 1) /\ Off(t, loaded, Len(s) + 2)
  <1> DEFINE t == s \o <<Msg("erase", 0), Msg("locked", text)>>
  <1>1. t[Len(s) + 1].kind = "erase" /\ t[Len(s) + 2].kind # "set"
    BY DEF Msg
  <1> HIDE DEF t
  <1>2. Off(t, loaded, Len(s) + 1)
    BY <1>1 DEF Off
  <1>3. \A k \in ((Len(s) + 1) + 1) .. Len(s) + 2 : t[k].kind # "set"
    BY <1>1
  <1>4. Len(s) + 1 \in 1 .. Len(s) + 2
    OBVIOUS
  <1>5. Off(t, loaded, Len(s) + 2)
    BY <1>1, <1>3, <1>4 DEF Off
  <1> QED
    BY <1>2, <1>5 DEF t

\* A message is received: what it does to the key is what Off foresaw.
LEMMA OffReceived ==
    ASSUME NEW s \in Seq(Up), s # <<>>, NEW loaded \in 0 .. 1, NEW after \in 0 .. 1,
           NEW i \in 1 .. Len(s), Off(s, loaded, i),
           Head(s).kind # "set" /\ loaded = 0 => after = 0,
           Head(s).kind = "erase" => after = 0
    PROVE  Off(Tail(s), after, i - 1)
  <1>1. /\ Tail(s) \in Seq(Up) /\ Len(Tail(s)) = Len(s) - 1 /\ Head(s) = s[1]
        /\ \A k \in 1 .. Len(s) - 1 : Tail(s)[k] = s[k + 1]
    OBVIOUS
  <1>2. CASE \E j \in 1 .. i : /\ s[j].kind = "erase"
                               /\ \A k \in (j + 1) .. i : s[k].kind # "set"
    <2>1. PICK j \in 1 .. i : /\ s[j].kind = "erase"
                              /\ \A k \in (j + 1) .. i : s[k].kind # "set"
      BY <1>2
    <2>2. CASE j = 1
      <3>1. after = 0 /\ \A k \in 1 .. i - 1 : Tail(s)[k].kind # "set"
        BY <1>1, <2>1, <2>2
      <3> QED
        BY <3>1 DEF Off
    <2>3. CASE j > 1
      <3>1. j - 1 \in 1 .. i - 1 /\ Tail(s)[j - 1].kind = "erase"
        BY <1>1, <2>1, <2>3
      <3>2. \A k \in (j - 1) + 1 .. i - 1 : Tail(s)[k].kind # "set"
        BY <1>1, <2>1, <2>3
      <3> QED
        BY <3>1, <3>2 DEF Off
    <2> QED
      BY <2>2, <2>3
  <1>3. CASE loaded = 0 /\ \A k \in 1 .. i : s[k].kind # "set"
    <2>1. after = 0 /\ \A k \in 1 .. i - 1 : Tail(s)[k].kind # "set"
      BY <1>1, <1>3
    <2> QED
      BY <2>1 DEF Off
  <1> QED
    BY <1>2, <1>3 DEF Off

\* The key may only be erased while messages wait.
LEMMA OffForget ==
    ASSUME NEW s \in Seq(Up), NEW loaded \in 0 .. 1, NEW i \in 0 .. Len(s), Off(s, loaded, i)
    PROVE  Off(s, 0, i)
  BY DEF Off

----------------------------------------------------------------------------
(* The steps.                                                               *)

\* Everything in the types except the pipes is set by a step to a value that
\* is plainly of the type; the pipes grow by messages.
LEMMA Messages ==
    /\ 0 \in Texts
    /\ \A text \in Texts : /\ Msg("erase", text) \in Up /\ Msg("locked", text) \in Up
                           /\ Msg("set", text) \in Up /\ Msg("save", text) \in Up
                           /\ Msg("load", text) \in Up /\ Msg("unlocked", text) \in Up
                           /\ Msg("lock", text) \in Down /\ Msg("saved", text) \in Down
                           /\ Msg("loaded", text) \in Down
  <1>1. 0 \in Texts
    BY BoundsAssumption DEF Texts
  <1> QED
    BY <1>1 DEF Msg, Up, Down

LEMMA KeysAreFew == Keys \in 0 .. 1 /\ Keys' \in 0 .. 1
  BY DEF Keys

\* The pipe to the main process grows by messages that say nothing of the lock,
\* or not at all.
LEMMA PipeGrows ==
    ASSUME Types, ReportsFollowAnErase,
           NEW t \in Seq(Up), up' = up \o t, Keys' \in {Keys, 0},
           \A k \in 1 .. Len(t) : t[k].kind \notin {"set", "locked"}
    PROVE  /\ ReportsFollowAnErase'
           /\ Off(up, Keys, Len(up)) => Off(up', Keys', Len(up'))
  <1>1. ReportsFollowAnErase'
    <2> SUFFICES ASSUME NEW i \in 1 .. Len(up'), up'[i].kind = "locked"
                 PROVE  Off(up', Keys', i)
      BY DEF ReportsFollowAnErase
    <2>1. i \in 1 .. Len(up) /\ up[i].kind = "locked"
      BY DEF Types, PlainTypes
    <2>2. Off(up, Keys, i)
      BY <2>1 DEF ReportsFollowAnErase
    <2>3. Off(up, Keys', i)
      BY <2>1, <2>2, OffForget, KeysAreFew DEF Types, PlainTypes
    <2> QED
      BY <2>1, <2>3, OffBefore, KeysAreFew DEF Types, PlainTypes
  <1>2. ASSUME Off(up, Keys, Len(up)) PROVE Off(up', Keys', Len(up'))
    <2>1. Off(up, Keys', Len(up))
      BY <1>2, OffForget, KeysAreFew DEF Types, PlainTypes
    <2>2. Len(up') \in Len(up) .. Len(up) + Len(t)
      BY DEF Types, PlainTypes
    <2> QED
      BY <2>1, <2>2, OffAfter, KeysAreFew DEF Types, PlainTypes
  <1> QED
    BY <1>1, <1>2

\* The same when the pipe and the key are left alone, or the key is erased.
LEMMA PipeStays ==
    ASSUME Types, ReportsFollowAnErase, up' = up, Keys' \in {Keys, 0}
    PROVE  /\ ReportsFollowAnErase'
           /\ Off(up, Keys, Len(up)) => Off(up', Keys', Len(up'))
  <1> DEFINE t == <<>>
  <1>1. up' = up \o t /\ t \in Seq(Up)
    BY DEF Types, PlainTypes
  <1>2. \A k \in 1 .. Len(t) : t[k].kind \notin {"set", "locked"}
    OBVIOUS
  <1> HIDE DEF t
  <1> QED
    BY <1>1, <1>2, PipeGrows

\* The same for one message.
LEMMA PipeGrowsByOne ==
    ASSUME Types, ReportsFollowAnErase,
           NEW m \in Up, up' = Append(up, m), Keys' \in {Keys, 0},
           m.kind \notin {"set", "locked"}
    PROVE  /\ ReportsFollowAnErase'
           /\ Off(up, Keys, Len(up)) => Off(up', Keys', Len(up'))
           /\ up' \in Seq(Up)
  <1> DEFINE t == <<m>>
  <1>1. t \in Seq(Up) /\ up' = up \o t
    BY DEF Types, PlainTypes
  <1>2. \A k \in 1 .. Len(t) : t[k].kind \notin {"set", "locked"}
    OBVIOUS
  <1>3. up' \in Seq(Up)
    BY DEF Types, PlainTypes
  <1> HIDE DEF t
  <1> QED
    BY <1>1, <1>2, <1>3, PipeGrows

\* A session torn down: the erase message, then the report.
LEMMA PipeTorn ==
    ASSUME Types, ReportsFollowAnErase, NEW text \in Texts,
           up' = up \o <<Msg("erase", 0), Msg("locked", text)>>, Keys' = Keys
    PROVE  ReportsFollowAnErase' /\ Off(up', Keys', Len(up'))
  <1> DEFINE t == <<Msg("erase", 0), Msg("locked", text)>>
  <1>1. t \in Seq(Up) /\ Len(t) = 2 /\ Len(up') = Len(up) + 2
    BY Messages DEF Types, PlainTypes
  <1>2. Off(up', Keys, Len(up) + 1) /\ Off(up', Keys, Len(up) + 2)
    BY OffErased, KeysAreFew DEF Types, PlainTypes
  <1>3. ReportsFollowAnErase'
    <2> SUFFICES ASSUME NEW i \in 1 .. Len(up'), up'[i].kind = "locked"
                 PROVE  Off(up', Keys, i)
      BY DEF ReportsFollowAnErase
    <2>1. CASE i \in 1 .. Len(up)
      <3>1. Off(up, Keys, i)
        BY <2>1 DEF ReportsFollowAnErase, Types, PlainTypes
      <3> QED
        <4>1. i \in 0 .. Len(up) /\ up \in Seq(Up) /\ up' = up \o t
          BY <2>1 DEF Types, PlainTypes
        <4> HIDE DEF t
        <4> QED
          BY <1>1, <3>1, <4>1, OffBefore, KeysAreFew
    <2>2. CASE i \notin 1 .. Len(up)
      BY <1>1, <1>2, <2>2
    <2> QED
      BY <2>1, <2>2
  <1> QED
    BY <1>1, <1>2, <1>3

\* Tear, as the window locks itself or hears a request.
LEMMA Tearing ==
    ASSUME Types, ReportsFollowAnErase, SilentReportIsDue, Tear, Keys' = Keys, shown' = shown
    PROVE  /\ ReportsFollowAnErase' /\ SilentReportIsDue'
           /\ up' \in Seq(Up) /\ screen' \in {"open", "locked"} /\ tears' \subseteq Texts
  <1>1. CASE dirty
    <2>1. up' = Append(up, Msg("save", typed)) /\ Msg("save", typed) \in Up
      BY <1>1, Messages DEF Tear, Types, PlainTypes
    <2>2. /\ ReportsFollowAnErase' /\ (Off(up, Keys, Len(up)) => Off(up', Keys', Len(up')))
          /\ up' \in Seq(Up)
      BY <2>1, PipeGrowsByOne DEF Msg
    <2> QED
      BY <1>1, <2>1, <2>2 DEF Tear, Types, PlainTypes, SilentReportIsDue
  <1>2. CASE ~dirty
    <2>1. up' = up \o <<Msg("erase", 0), Msg("locked", typed)>> /\ typed \in Texts
      BY <1>2 DEF Tear, Torn, Types, PlainTypes
    <2>2. ReportsFollowAnErase' /\ Off(up', Keys', Len(up'))
      BY <2>1, PipeTorn
    <2> QED
      BY <1>2, <2>1, <2>2, Messages DEF Tear, Torn, Types, PlainTypes, SilentReportIsDue
  <1> QED
    BY <1>1, <1>2

\* A message leaves the pipe, and does to the key what Off foresaw.
LEMMA PipeShrinks ==
    ASSUME Types, ReportsFollowAnErase, SilentReportIsDue, up # <<>>, up' = Tail(up),
           Head(up).kind # "set" => Keys' \in {Keys, 0},
           Head(up).kind = "erase" => Keys' = 0,
           UNCHANGED <<screen, shown>>
    PROVE  ReportsFollowAnErase' /\ SilentReportIsDue' /\ up' \in Seq(Up)
  <1>1. /\ up' \in Seq(Up) /\ Len(up') = Len(up) - 1 /\ Len(up) \in Nat \ {0}
        /\ \A i \in 1 .. Len(up') : up'[i] = up[i + 1]
    BY DEF Types, PlainTypes
  <1>2. ASSUME NEW i \in 1 .. Len(up), Off(up, Keys, i) PROVE Off(up', Keys', i - 1)
    BY <1>2, OffReceived, KeysAreFew DEF Types, PlainTypes
  <1>3. ReportsFollowAnErase'
    <2> SUFFICES ASSUME NEW i \in 1 .. Len(up'), up'[i].kind = "locked"
                 PROVE  Off(up', Keys', i)
      BY DEF ReportsFollowAnErase
    <2>1. i + 1 \in 1 .. Len(up) /\ up[i + 1].kind = "locked"
      BY <1>1
    <2>2. Off(up, Keys, i + 1)
      BY <2>1 DEF ReportsFollowAnErase
    <2>3. Off(up', Keys', (i + 1) - 1)
      BY <1>2, <2>1, <2>2
    <2> QED
      BY <2>3
  <1>4. SilentReportIsDue'
    <2> SUFFICES ASSUME screen = "locked", shown = "open"
                 PROVE  Off(up', Keys', Len(up'))
      BY DEF SilentReportIsDue
    <2>1. Off(up, Keys, Len(up)) /\ Len(up) \in 1 .. Len(up)
      BY <1>1 DEF SilentReportIsDue
    <2> QED
      BY <1>1, <1>2, <2>1
  <1> QED
    BY <1>1, <1>3, <1>4

\* A report of a lock that nobody waits for finds the key already erased.
LEMMA ReportFindsNoKey ==
    ASSUME Types, ReportsFollowAnErase, up # <<>>, Head(up).kind = "locked"
    PROVE  key = FALSE
  <1>1. 1 \in 1 .. Len(up) /\ up[1].kind = "locked"
    BY DEF Types, PlainTypes
  <1>2. Off(up, Keys, 1)
    BY <1>1 DEF ReportsFollowAnErase
  <1>3. Keys = 0
    BY <1>1, <1>2 DEF Off
  <1> QED
    BY <1>3 DEF Keys, Types, PlainTypes

LEMMA InitIInv == Init => IInv
  <1> SUFFICES ASSUME Init PROVE IInv
    OBVIOUS
  <1>1. Types
    <2>1. key \in BOOLEAN
      BY Messages DEF Init, Types
    <2>2. PlainTypes
      BY Messages DEF Init, Types, PlainTypes
    <2> QED
      BY <2>1, <2>2 DEF Types
  <1>2. ReportsFollowAnErase
    BY DEF Init, ReportsFollowAnErase
  <1>3. SilentReportIsDue
    BY DEF Init, SilentReportIsDue, Off, Keys
  <1>4. NoKeyBehindAShutGate
    BY DEF Init, NoKeyBehindAShutGate
  <1> QED
    BY <1>1, <1>2, <1>3, <1>4 DEF IInv

LEMMA MainKeepsIInv ==
    ASSUME IInv, MainStep
    PROVE  IInv'
  <1> USE DEF IInv
  <1>1. CASE LockFromMain(TRUE)
    <2>1. Msg("lock", 0) \in Down /\ Keys' = Keys
      BY <1>1, Messages DEF LockFromMain, Keys
    <2>2. Types'
      <3>1. key' \in BOOLEAN
        BY <1>1, <2>1 DEF LockFromMain, Types
      <3>2. PlainTypes'
        BY <1>1, <2>1 DEF LockFromMain, Types, window, PlainTypes
      <3> QED
        BY <3>1, <3>2 DEF Types
    <2>3. ReportsFollowAnErase' /\ (Off(up, Keys, Len(up)) => Off(up', Keys', Len(up')))
      BY <1>1, <2>1, PipeStays DEF LockFromMain
    <2>4. SilentReportIsDue'
      BY <1>1, <2>3 DEF LockFromMain, SilentReportIsDue, window
    <2>5. NoKeyBehindAShutGate'
      BY <1>1 DEF LockFromMain, NoKeyBehindAShutGate, Types, PlainTypes
    <2> QED
      BY <2>2, <2>3, <2>4, <2>5
  <1>2. CASE LockFromMain(FALSE)
    <2>1. Msg("lock", 0) \in Down /\ Keys' = 0 /\ key' = FALSE
      BY <1>2, Messages DEF LockFromMain, Forget, Keys
    <2>2. Types'
      <3>1. key' \in BOOLEAN
        BY <1>2, <2>1 DEF LockFromMain, Types
      <3>2. PlainTypes'
        BY <1>2, <2>1 DEF LockFromMain, Types, window, PlainTypes
      <3> QED
        BY <3>1, <3>2 DEF Types
    <2>3. ReportsFollowAnErase' /\ (Off(up, Keys, Len(up)) => Off(up', Keys', Len(up')))
      BY <1>2, <2>1, PipeStays DEF LockFromMain
    <2>4. SilentReportIsDue'
      BY <1>2, <2>3 DEF LockFromMain, SilentReportIsDue, window
    <2>5. NoKeyBehindAShutGate'
      BY <2>1 DEF NoKeyBehindAShutGate
    <2> QED
      BY <2>2, <2>3, <2>4, <2>5
  <1>3. CASE Timeout
    <2>1. Keys' = 0 /\ key' = FALSE
      BY <1>3 DEF Timeout, Forget, Keys
    <2>2. Types'
      <3>1. key' \in BOOLEAN
        BY <1>3, <2>1 DEF Timeout, Types
      <3>2. PlainTypes'
        BY <1>3, <2>1 DEF Timeout, Types, window, PlainTypes
      <3> QED
        BY <3>1, <3>2 DEF Types
    <2>3. ReportsFollowAnErase' /\ (Off(up, Keys, Len(up)) => Off(up', Keys', Len(up')))
      BY <1>3, <2>1, PipeStays DEF Timeout
    <2>4. SilentReportIsDue'
      BY <1>3, <2>3 DEF Timeout, SilentReportIsDue, window
    <2>5. NoKeyBehindAShutGate'
      BY <2>1 DEF NoKeyBehindAShutGate
    <2> QED
      BY <2>2, <2>3, <2>4, <2>5
  <1>4. CASE Receive
    <2> DEFINE m == Head(up)
    <2>1. up # <<>> /\ up' = Tail(up) /\ UNCHANGED window /\ m.text \in Texts
      <3>1. up # <<>> /\ up' = Tail(up) /\ UNCHANGED window
        BY <1>4 DEF Receive
      <3>2. m \in Up
        BY <3>1 DEF Types, PlainTypes
      <3>3. m.text \in Texts
        BY <3>2 DEF Up
      <3> QED
        BY <3>1, <3>3
    <2>2. CASE SetKey(m)
      <3>1. key' = TRUE /\ gate' = "open" /\ m.kind = "set"
        BY <2>2 DEF SetKey
      <3>2. ReportsFollowAnErase' /\ SilentReportIsDue' /\ up' \in Seq(Up)
        BY <2>1, <3>1, PipeShrinks DEF window
      <3>3. Types'
        <4>1. key' \in BOOLEAN
          BY <2>1, <2>2, <3>1, <3>2 DEF SetKey, Types
        <4>2. PlainTypes'
          BY <2>1, <2>2, <3>1, <3>2 DEF SetKey, Types, window, PlainTypes
        <4> QED
          BY <4>1, <4>2 DEF Types
      <3> QED
        BY <3>1, <3>2, <3>3 DEF NoKeyBehindAShutGate
    <2>3. CASE ClearKey(m)
      <3>1. key' = FALSE /\ Keys' = 0 /\ gate' = "shut"
        BY <2>3 DEF ClearKey, Forget, Keys
      <3>2. ReportsFollowAnErase' /\ SilentReportIsDue' /\ up' \in Seq(Up)
        BY <2>1, <3>1, PipeShrinks DEF window
      <3>3. Types'
        <4>1. key' \in BOOLEAN
          BY <2>1, <2>3, <3>1, <3>2 DEF ClearKey, Types
        <4>2. PlainTypes'
          BY <2>1, <2>3, <3>1, <3>2 DEF ClearKey, Types, window, PlainTypes
        <4> QED
          BY <4>1, <4>2 DEF Types
      <3> QED
        BY <3>1, <3>2, <3>3 DEF NoKeyBehindAShutGate
    <2>4. CASE HearLocked(m)
      <3>1. m.kind = "locked" /\ gate' = "shut" /\ waits' = 0 /\ key' \in {key, FALSE}
        BY <2>4 DEF HearLocked, Forget
      <3>2. key = FALSE
        BY <2>1, <3>1, ReportFindsNoKey
      <3>3. key' = FALSE /\ Keys' = 0
        BY <3>1, <3>2 DEF Keys
      <3>4. ReportsFollowAnErase' /\ SilentReportIsDue' /\ up' \in Seq(Up)
        BY <2>1, <3>1, <3>3, PipeShrinks DEF window
      <3>5. Types'
        <4>1. key' \in BOOLEAN
          BY <2>1, <2>4, <3>1, <3>3, <3>4 DEF HearLocked, Types
        <4>2. PlainTypes'
          BY <2>1, <2>4, <3>1, <3>3, <3>4 DEF HearLocked, Types, window, PlainTypes
        <4> QED
          BY <4>1, <4>2 DEF Types
      <3> QED
        BY <3>3, <3>4, <3>5 DEF NoKeyBehindAShutGate
    <2>5. CASE HearUnlocked(m)
      <3>1. m.kind = "unlocked" /\ gate' = "open" /\ key' = key /\ Keys' = Keys
        BY <2>5 DEF HearUnlocked, Keys
      <3>2. ReportsFollowAnErase' /\ SilentReportIsDue' /\ up' \in Seq(Up)
        BY <2>1, <3>1, PipeShrinks DEF window
      <3>3. Types'
        <4>1. key' \in BOOLEAN
          BY <2>1, <2>5, <3>1, <3>2 DEF HearUnlocked, Types
        <4>2. PlainTypes'
          BY <2>1, <2>5, <3>1, <3>2 DEF HearUnlocked, Types, window, PlainTypes
        <4> QED
          BY <4>1, <4>2 DEF Types
      <3> QED
        BY <3>1, <3>2, <3>3 DEF NoKeyBehindAShutGate
    <2>6. CASE TakeSave(m)
      <3>1. m.kind = "save" /\ key' = key /\ Keys' = Keys /\ gate' = gate /\ waits' = waits
        BY <2>6 DEF TakeSave, Keys
      <3>2. ReportsFollowAnErase' /\ SilentReportIsDue' /\ up' \in Seq(Up)
        BY <2>1, <3>1, PipeShrinks DEF window
      <3>3. Types'
        <4>1. key' \in BOOLEAN
          BY <2>1, <2>6, <3>1, <3>2 DEF TakeSave, Types
        <4>2. PlainTypes'
          BY <2>1, <2>6, <3>1, <3>2 DEF TakeSave, Types, window, PlainTypes
        <4> QED
          BY <4>1, <4>2 DEF Types
      <3> QED
        BY <3>1, <3>2, <3>3 DEF NoKeyBehindAShutGate
    <2>7. CASE TakeLoad(m)
      <3>1. m.kind = "load" /\ key' = key /\ Keys' = Keys /\ gate' = gate /\ waits' = waits
        BY <2>7 DEF TakeLoad, Keys
      <3>2. ReportsFollowAnErase' /\ SilentReportIsDue' /\ up' \in Seq(Up)
        BY <2>1, <3>1, PipeShrinks DEF window
      <3>3. Types'
        <4>1. key' \in BOOLEAN
          BY <2>1, <2>7, <3>1, <3>2, Messages DEF TakeLoad, Types
        <4>2. PlainTypes'
          <5>1. Append(down, Msg("loaded", 0)) \in Seq(Down)
            BY Messages DEF Types, PlainTypes
          <5>2. down' \in Seq(Down)
            BY <2>7, <5>1 DEF TakeLoad, Types, PlainTypes
          <5> QED
            BY <2>1, <2>7, <3>1, <3>2, <5>2 DEF TakeLoad, Types, window, PlainTypes
        <4> QED
          BY <4>1, <4>2 DEF Types
      <3> QED
        BY <3>1, <3>2, <3>3 DEF NoKeyBehindAShutGate
    <2> QED
      BY <1>4, <2>2, <2>3, <2>4, <2>5, <2>6, <2>7 DEF Receive
  <1>5. CASE SaveEnds
    <2>1. Keys' = Keys /\ UNCHANGED <<up, screen, shown>> /\ Head(work) \in Texts
      BY <1>5 DEF SaveEnds, Types, PlainTypes, window, Keys
    <2>2. Types'
      <3>1. key' \in BOOLEAN
        BY <1>5, <2>1, Messages DEF SaveEnds, Types
      <3>2. PlainTypes'
        BY <1>5, <2>1, Messages DEF SaveEnds, Types, window, PlainTypes
      <3> QED
        BY <3>1, <3>2 DEF Types
    <2>3. ReportsFollowAnErase' /\ (Off(up, Keys, Len(up)) => Off(up', Keys', Len(up')))
      BY <2>1, PipeStays
    <2>4. SilentReportIsDue'
      BY <2>1, <2>3 DEF SilentReportIsDue
    <2> QED
      BY <1>5, <2>2, <2>3, <2>4 DEF SaveEnds, NoKeyBehindAShutGate
  <1>6. CASE ReadEnds
    <2>1. Keys' = Keys /\ UNCHANGED <<up, screen, shown>>
      BY <1>6 DEF ReadEnds, window, Keys
    <2>2. Types'
      <3>1. key' \in BOOLEAN
        BY <1>6, <2>1, Messages DEF ReadEnds, Types
      <3>2. PlainTypes'
        BY <1>6, <2>1, Messages DEF ReadEnds, Types, window, PlainTypes
      <3> QED
        BY <3>1, <3>2 DEF Types
    <2>3. ReportsFollowAnErase' /\ (Off(up, Keys, Len(up)) => Off(up', Keys', Len(up')))
      BY <2>1, PipeStays
    <2>4. SilentReportIsDue'
      BY <2>1, <2>3 DEF SilentReportIsDue
    <2> QED
      BY <1>6, <2>2, <2>3, <2>4 DEF ReadEnds, NoKeyBehindAShutGate
  <1> QED
    BY <1>1, <1>2, <1>3, <1>4, <1>5, <1>6 DEF MainStep

LEMMA WindowKeepsIInv ==
    ASSUME IInv, WindowStep
    PROVE  IInv'
  <1> USE DEF IInv
  <1>0. SUFFICES Types' /\ ReportsFollowAnErase' /\ SilentReportIsDue'
    BY DEF WindowStep, Type, TimerFires, LockFromWindow, Deliver, EffectReports, Unlock, UnlockEnds,
           main, NoKeyBehindAShutGate
  <1>00. Keys' = Keys /\ key' = key /\ key' \in BOOLEAN
    BY DEF WindowStep, Type, TimerFires, LockFromWindow, Deliver, EffectReports, Unlock, UnlockEnds,
           main, Keys, Types
  <1>1. CASE Type
    <2>1. UNCHANGED <<up, screen, shown>>
      BY <1>1 DEF Type
    <2>2. PlainTypes'
      BY <1>1, BoundsAssumption DEF Type, PlainTypes, Types, main, Texts
    <2>3. ReportsFollowAnErase' /\ (Off(up, Keys, Len(up)) => Off(up', Keys', Len(up')))
      BY <1>00, <2>1, PipeStays
    <2> QED
      BY <1>00, <2>1, <2>2, <2>3 DEF Types, SilentReportIsDue
  <1>2. CASE TimerFires
    <2>1. UNCHANGED <<screen, shown>> /\ up' = Append(up, Msg("save", typed)) /\ Msg("save", typed) \in Up
      BY <1>2, Messages DEF TimerFires, Types, PlainTypes
    <2>2. ReportsFollowAnErase' /\ (Off(up, Keys, Len(up)) => Off(up', Keys', Len(up'))) /\ up' \in Seq(Up)
      BY <1>00, <2>1, PipeGrowsByOne DEF Msg
    <2>3. PlainTypes'
      BY <1>2, <2>2 DEF TimerFires, PlainTypes, Types, main
    <2> QED
      BY <1>00, <2>1, <2>2, <2>3 DEF Types, SilentReportIsDue
  <1>3. CASE LockFromWindow
    <2>1. Tear /\ shown' = shown
      BY <1>3 DEF LockFromWindow
    <2>2. /\ ReportsFollowAnErase' /\ SilentReportIsDue'
          /\ up' \in Seq(Up) /\ screen' \in {"open", "locked"} /\ tears' \subseteq Texts
      BY <1>00, <2>1, Tearing
    <2>3. PlainTypes'
      BY <1>3, <2>2 DEF LockFromWindow, PlainTypes, Types, main
    <2> QED
      BY <1>00, <2>2, <2>3 DEF Types
  <1>4. CASE Deliver
    <2> DEFINE m == Head(down)
    <2>1. /\ UNCHANGED <<main, shown, typed, opening, count>>
          /\ down' \in Seq(Down) /\ m.text \in Texts
      <3>1. UNCHANGED <<main, shown, typed, opening, count>> /\ down # <<>> /\ down' = Tail(down)
        BY <1>4 DEF Deliver
      <3>2. m \in Down /\ down' \in Seq(Down)
        BY <3>1 DEF Types, PlainTypes
      <3> QED
        BY <3>1, <3>2 DEF Down
    <2>2. SUFFICES /\ ReportsFollowAnErase' /\ SilentReportIsDue'
                   /\ up' \in Seq(Up) /\ screen' \in {"open", "locked"} /\ tears' \subseteq Texts
      BY <1>00, <2>1 DEF Types, PlainTypes, main
    <2>3. CASE HearRequest(m)
      BY <1>00, <2>1, <2>3, Tearing DEF HearRequest
    <2>4. CASE HearSaved(m) /\ m.text \in tears
      <3>1. /\ up' = up \o <<Msg("erase", 0), Msg("locked", m.text)>>
            /\ screen' = "locked" /\ tears' \subseteq Texts
        BY <2>4 DEF HearSaved, Torn, Types, PlainTypes
      <3>2. ReportsFollowAnErase' /\ Off(up', Keys', Len(up'))
        BY <1>00, <2>1, <3>1, PipeTorn
      <3>3. up' \in Seq(Up)
        BY <2>1, <3>1, Messages DEF Types, PlainTypes
      <3> QED
        BY <3>1, <3>2, <3>3 DEF SilentReportIsDue
    <2>5. CASE (HearSaved(m) /\ m.text \notin tears) \/ HearLoaded(m)
      <3>1. UNCHANGED <<screen, up, tears>>
        BY <2>5 DEF HearSaved, HearLoaded
      <3>2. ReportsFollowAnErase' /\ (Off(up, Keys, Len(up)) => Off(up', Keys', Len(up')))
        BY <1>00, <3>1, PipeStays
      <3> QED
        BY <2>1, <3>1, <3>2 DEF Types, PlainTypes, SilentReportIsDue
    <2> QED
      BY <1>4, <2>3, <2>4, <2>5 DEF Deliver
  <1>5. CASE EffectReports
    <2>1. /\ shown # screen /\ shown' = screen /\ screen' = screen
          /\ up' = Append(up, Report(screen))
      BY <1>5 DEF EffectReports
    <2>2. CASE screen = "locked"
      <3>1. /\ Report(screen) = Msg("locked", 0) /\ Msg("locked", 0) \in Up
            /\ Msg("locked", 0).kind = "locked" /\ shown = "open"
        BY <2>1, <2>2, Messages DEF Report, Msg, Types, PlainTypes
      <3>2. Off(up, Keys, Len(up))
        BY <2>2, <3>1 DEF SilentReportIsDue
      <3>3. /\ up \in Seq(Up) /\ up' \in Seq(Up) /\ Len(up') = Len(up) + 1
            /\ \A i \in 1 .. Len(up) : up'[i] = up[i]
        BY <2>1, <3>1 DEF Types, PlainTypes
      <3>4. ReportsFollowAnErase'
        <4> SUFFICES ASSUME NEW i \in 1 .. Len(up'), up'[i].kind = "locked"
                     PROVE  Off(up', Keys, i)
          BY <1>00 DEF ReportsFollowAnErase
        <4> DEFINE t == <<Msg("locked", 0)>>
        <4>1. t \in Seq(Up) /\ up' = up \o t
          BY <2>1, <3>1 DEF Types, PlainTypes
        <4>2. \A k \in 1 .. Len(t) : t[k].kind # "set"
          BY <3>1
        <4>3. Len(t) = 1
          OBVIOUS
        <4> HIDE DEF t
        <4>4. CASE i \in 1 .. Len(up)
          <5>1. Off(up, Keys, i)
            BY <3>3, <4>4 DEF ReportsFollowAnErase
          <5>2. i \in 0 .. Len(up)
            BY <4>4
          <5> QED
            BY <3>3, <4>1, <5>1, <5>2, OffBefore, KeysAreFew
        <4>5. CASE i = Len(up) + 1
          <5>1. i \in Len(up) .. Len(up) + Len(t)
            BY <3>3, <4>3, <4>5
          <5> QED
            BY <3>2, <3>3, <4>1, <4>2, <5>1, OffAfter, KeysAreFew
        <4> QED
          BY <3>3, <4>4, <4>5
      <3>5. SilentReportIsDue'
        BY <2>1, <2>2 DEF SilentReportIsDue
      <3>6. PlainTypes'
        BY <1>5, <2>1, <2>2, <3>3 DEF EffectReports, Types, PlainTypes, main
      <3> QED
        BY <1>00, <3>4, <3>5, <3>6 DEF Types
    <2>3. CASE screen = "open"
      <3>1. Report(screen) = Msg("unlocked", 0) /\ Msg("unlocked", 0) \in Up
        BY <2>3, Messages DEF Report
      <3>2. ReportsFollowAnErase' /\ up' \in Seq(Up)
        BY <1>00, <2>1, <3>1, PipeGrowsByOne DEF Msg
      <3>3. SilentReportIsDue'
        BY <2>1, <2>3 DEF SilentReportIsDue
      <3>4. PlainTypes'
        BY <1>5, <2>1, <2>3, <3>2 DEF EffectReports, Types, PlainTypes, main
      <3> QED
        BY <1>00, <3>2, <3>3, <3>4 DEF Types
    <2> QED
      BY <2>2, <2>3 DEF Types, PlainTypes
  <1>6. CASE Unlock
    <2>1. /\ screen = "locked" /\ shown = screen /\ UNCHANGED <<screen, shown>>
          /\ up' = Append(up, Msg("set", 0)) /\ Msg("set", 0) \in Up /\ Msg("set", 0).kind = "set"
      BY <1>6, Messages DEF Unlock, Msg
    <2>2. /\ up \in Seq(Up) /\ up' \in Seq(Up) /\ Len(up') = Len(up) + 1
          /\ up'[Len(up) + 1] = Msg("set", 0)
      BY <2>1 DEF Types, PlainTypes
    <2>3. ReportsFollowAnErase'
      <3> SUFFICES ASSUME NEW i \in 1 .. Len(up'), up'[i].kind = "locked"
                   PROVE  Off(up', Keys, i)
        BY <1>00 DEF ReportsFollowAnErase
      <3>1. i \in 1 .. Len(up) /\ i \in 0 .. Len(up) /\ up[i].kind = "locked"
        BY <2>1, <2>2
      <3>2. Off(up, Keys, i)
        BY <3>1 DEF ReportsFollowAnErase
      <3> DEFINE t == <<Msg("set", 0)>>
      <3>3. t \in Seq(Up) /\ up' = up \o t
        BY <2>1, <2>2
      <3> HIDE DEF t
      <3> QED
        BY <2>2, <3>1, <3>2, <3>3, OffBefore, KeysAreFew
    <2>4. SilentReportIsDue'
      BY <2>1 DEF SilentReportIsDue
    <2>5. PlainTypes'
      BY <1>6, <2>1, <2>2 DEF Unlock, Types, PlainTypes, main
    <2> QED
      BY <1>00, <2>3, <2>4, <2>5 DEF Types
  <1>7. CASE UnlockEnds
    <2> DEFINE t == <<Msg("unlocked", 0), Msg("load", 0)>>
    <2>1. t \in Seq(Up) /\ up' = up \o t /\ screen' = "open" /\ shown' = shown
      BY <1>7, Messages DEF UnlockEnds
    <2>2. \A k \in 1 .. Len(t) : t[k].kind \notin {"set", "locked"}
      BY DEF Msg
    <2>3. up' \in Seq(Up)
      BY <2>1 DEF Types, PlainTypes
    <2>4. PlainTypes'
      BY <1>7, <2>3 DEF UnlockEnds, Types, PlainTypes, main
    <2> HIDE DEF t
    <2>5. ReportsFollowAnErase'
      BY <1>00, <2>1, <2>2, PipeGrows
    <2>6. SilentReportIsDue'
      BY <2>1 DEF SilentReportIsDue
    <2> QED
      BY <1>00, <2>4, <2>5, <2>6 DEF Types
  <1> QED
    BY <1>1, <1>2, <1>3, <1>4, <1>5, <1>6, <1>7 DEF WindowStep

\* Nothing moves.
LEMMA StutterKeepsIInv ==
    ASSUME IInv, UNCHANGED vars
    PROVE  IInv'
  BY DEF IInv, Types, PlainTypes, ReportsFollowAnErase, SilentReportIsDue, NoKeyBehindAShutGate,
         Off, Keys, vars, main, window

\* A main process that believes the vault locked holds no session key, unless a
\* lock is still waiting for the window (electron/main.ts, lockVaultFromMain):
\* for any texts, locks and unlocks, and pipes of any length.
THEOREM ShutGateTheorem == Spec => []NoKeyBehindAShutGate
  <1>1. Init => IInv
    BY InitIInv
  <1>2. IInv /\ [Next]_vars => IInv'
    BY MainKeepsIInv, WindowKeepsIInv, StutterKeepsIInv DEF Next
  <1>3. IInv => NoKeyBehindAShutGate
    BY DEF IInv
  <1> QED
    BY <1>1, <1>2, <1>3, PTL DEF Spec

----------------------------------------------------------------------------
(* Types: the window waits for as many answers as there are loads on the    *)
(* way, so an answer never takes it below zero.                             *)

\* The messages of kind k on a pipe.
Slots(s, k) == {i \in 1 .. Len(s) : s[i].kind = k}
Ones(s, k)  == Cardinality(Slots(s, k))

LoadsMatch == loading = Ones(up, "load") + reads + Ones(down, "loaded")

\* The types IInv leaves out.
OtherTypes ==
    /\ clear \in BOOLEAN /\ fek \in BOOLEAN /\ dirty \in BOOLEAN /\ opening \in BOOLEAN
    /\ reads \in Nat /\ loading \in Nat /\ disk \in Texts
    /\ count \in [locks : 0 .. MaxLocks, unlocks : 0 .. MaxUnlocks]

\* There are finitely many.
LEMMA OnesType ==
    ASSUME NEW S, NEW s \in Seq(S), NEW k
    PROVE  IsFiniteSet(Slots(s, k)) /\ Ones(s, k) \in Nat
  <1>1. IsFiniteSet(1 .. Len(s)) /\ Slots(s, k) \in SUBSET (1 .. Len(s))
    BY FS_Interval DEF Slots
  <1> QED
    BY <1>1, FS_Subset, FS_CardinalityType DEF Ones

\* A message is added.
LEMMA OnesAppend ==
    ASSUME NEW S, NEW s \in Seq(S), NEW m \in S, NEW k
    PROVE  Ones(Append(s, m), k) = Ones(s, k) + (IF m.kind = k THEN 1 ELSE 0)
  <1>1. Len(s) + 1 \notin Slots(s, k)
    BY DEF Slots
  <1>2. Slots(Append(s, m), k) =
            IF m.kind = k THEN Slots(s, k) \cup {Len(s) + 1} ELSE Slots(s, k)
    <2>1. /\ Len(Append(s, m)) = Len(s) + 1 /\ Append(s, m)[Len(s) + 1] = m
          /\ \A i \in 1 .. Len(s) : Append(s, m)[i] = s[i]
      OBVIOUS
    <2> QED
      BY <2>1 DEF Slots
  <1>3. CASE m.kind = k
    <2>1. Cardinality(Slots(s, k) \cup {Len(s) + 1}) = Cardinality(Slots(s, k)) + 1
      BY <1>1, OnesType, FS_AddElement
    <2> QED
      BY <1>2, <1>3, <2>1 DEF Ones
  <1>4. CASE m.kind # k
    BY <1>2, <1>4, OnesType DEF Ones
  <1> QED
    BY <1>3, <1>4

\* A message leaves.
LEMMA OnesTail ==
    ASSUME NEW S, NEW s \in Seq(S), s # <<>>, NEW k
    PROVE  Ones(s, k) = Ones(Tail(s), k) + (IF Head(s).kind = k THEN 1 ELSE 0)
  <1> DEFINE A == Slots(Tail(s), k)
             B == Slots(s, k) \ {1}
             f == [i \in A |-> i + 1]
  <1>1. /\ Tail(s) \in Seq(S) /\ Len(Tail(s)) = Len(s) - 1 /\ Head(s) = s[1]
        /\ Len(s) \in Nat \ {0}
        /\ \A i \in 1 .. Len(s) - 1 : Tail(s)[i] = s[i + 1]
    OBVIOUS
  <1>2. f \in Bijection(A, B)
    <2>1. \A i \in A : i \in Nat /\ i + 1 \in B
      BY <1>1 DEF Slots
    <2>2. \A j \in B : j - 1 \in A /\ (j - 1) + 1 = j
      BY <1>1 DEF Slots
    <2> HIDE DEF A, B
    <2>3. f \in [A -> B] /\ \A i \in A : f[i] = i + 1
      BY <2>1
    <2>4. f \in Injection(A, B)
      BY <2>1, <2>3 DEF Injection, IsInjective
    <2>5. f \in Surjection(A, B)
      BY <2>2, <2>3 DEF Surjection
    <2> QED
      BY <2>4, <2>5 DEF Bijection
  <1>3. Cardinality(A) = Cardinality(B) /\ Cardinality(A) \in Nat
    BY <1>1, <1>2, OnesType, FS_Bijection, FS_CardinalityType DEF ExistsBijection
  <1>4. Cardinality(B) = IF 1 \in Slots(s, k) THEN Cardinality(Slots(s, k)) - 1
                         ELSE Cardinality(Slots(s, k))
    BY OnesType, FS_RemoveElement
  <1>5. 1 \in Slots(s, k) <=> Head(s).kind = k
    BY <1>1 DEF Slots
  <1>6. Cardinality(Slots(s, k)) \in Nat
    BY OnesType DEF Ones
  <1> QED
    BY <1>3, <1>4, <1>5, <1>6 DEF Ones

\* Two messages are added.
LEMMA OnesTwo ==
    ASSUME NEW S, NEW s \in Seq(S), NEW m \in S, NEW n \in S, NEW k
    PROVE  Ones(s \o <<m, n>>, k) =
               Ones(s, k) + (IF m.kind = k THEN 1 ELSE 0) + (IF n.kind = k THEN 1 ELSE 0)
  <1>1. s \o <<m, n>> = Append(Append(s, m), n) /\ Append(s, m) \in Seq(S)
    OBVIOUS
  <1>2. Ones(s, k) \in Nat
    BY OnesType
  <1>3. Ones(Append(s, m), k) = Ones(s, k) + (IF m.kind = k THEN 1 ELSE 0)
    BY OnesAppend
  <1>4. Ones(Append(Append(s, m), n), k) =
            Ones(Append(s, m), k) + (IF n.kind = k THEN 1 ELSE 0)
    BY <1>1, OnesAppend
  <1> QED
    BY <1>1, <1>2, <1>3, <1>4

\* What a step of the main process and of the window touches of the counted messages.
LEMMA LoadsOfMain ==
    ASSUME Types, OtherTypes, LoadsMatch, MainStep
    PROVE  LoadsMatch'
  <1> USE DEF Types, PlainTypes
  <1>0. /\ up \in Seq(Up) /\ down \in Seq(Down) /\ reads \in Nat
        /\ Ones(up, "load") \in Nat /\ Ones(down, "loaded") \in Nat
        /\ Msg("lock", 0) \in Down /\ Msg("loaded", 0) \in Down
        /\ Msg("lock", 0).kind = "lock" /\ Msg("loaded", 0).kind = "loaded"
        /\ \A t \in Texts : Msg("saved", t) \in Down /\ Msg("saved", t).kind = "saved"
    BY OnesType, Messages DEF OtherTypes, Msg
  <1>1. ASSUME NEW b, LockFromMain(b) PROVE LoadsMatch'
    <2>1. /\ down' = Append(down, Msg("lock", 0))
          /\ UNCHANGED <<up, reads, loading>>
      BY <1>1 DEF LockFromMain, window
    <2>2. Ones(down', "loaded") = Ones(down, "loaded")
      BY <1>0, <2>1, OnesAppend
    <2> QED
      BY <2>1, <2>2 DEF LoadsMatch
  <1>2. CASE Timeout
    BY <1>2 DEF Timeout, window, LoadsMatch
  <1>3. CASE Receive
    <2>1. up # <<>> /\ up' = Tail(up) /\ loading' = loading
      BY <1>3 DEF Receive, window
    <2>2. Ones(up, "load") = Ones(up', "load") + (IF Head(up).kind = "load" THEN 1 ELSE 0)
      BY <1>0, <2>1, OnesTail
    <2>3. CASE TakeLoad(Head(up)) /\ gate = "shut"
      <3>1. /\ Head(up).kind = "load" /\ down' = Append(down, Msg("loaded", 0))
            /\ reads' = reads
        BY <2>3 DEF TakeLoad
      <3>2. Ones(down', "loaded") = Ones(down, "loaded") + 1
        BY <1>0, <3>1, OnesAppend
      <3>3. up' \in Seq(Up) /\ Ones(up', "load") \in Nat
        <4>1. up' \in Seq(Up)
          BY <1>0, <2>1
        <4> QED
          BY <4>1, OnesType
      <3> QED
        BY <1>0, <2>1, <2>2, <3>1, <3>2, <3>3 DEF LoadsMatch
    <2>4. CASE TakeLoad(Head(up)) /\ gate # "shut"
      <3>1. Head(up).kind = "load" /\ down' = down /\ reads' = reads + 1
        BY <2>4 DEF TakeLoad
      <3>2. up' \in Seq(Up) /\ Ones(up', "load") \in Nat
        <4>1. up' \in Seq(Up)
          BY <1>0, <2>1
        <4> QED
          BY <4>1, OnesType
      <3> QED
        BY <1>0, <2>1, <2>2, <3>1, <3>2 DEF LoadsMatch
    <2>5. CASE ~TakeLoad(Head(up))
      <3>1. Head(up).kind # "load" /\ UNCHANGED <<down, reads>>
        BY <1>3, <2>5 DEF Receive, SetKey, ClearKey, HearLocked, HearUnlocked, TakeSave
      <3>2. up' \in Seq(Up) /\ Ones(up', "load") \in Nat
        <4>1. up' \in Seq(Up)
          BY <1>0, <2>1
        <4> QED
          BY <4>1, OnesType
      <3> QED
        BY <1>0, <2>1, <2>2, <3>1, <3>2 DEF LoadsMatch
    <2> QED
      BY <2>3, <2>4, <2>5
  <1>4. CASE SaveEnds
    <2>1. /\ down' = Append(down, Msg("saved", Head(work))) /\ Head(work) \in Texts
          /\ UNCHANGED <<up, reads, loading>>
      BY <1>4 DEF SaveEnds, window
    <2>2. Ones(down', "loaded") = Ones(down, "loaded")
      BY <1>0, <2>1, OnesAppend
    <2> QED
      BY <2>1, <2>2 DEF LoadsMatch
  <1>5. CASE ReadEnds
    <2>1. /\ down' = Append(down, Msg("loaded", 0)) /\ reads > 0 /\ reads' = reads - 1
          /\ UNCHANGED <<up, loading>>
      BY <1>5 DEF ReadEnds, window
    <2>2. Ones(down', "loaded") = Ones(down, "loaded") + 1
      BY <1>0, <2>1, OnesAppend
    <2> QED
      BY <1>0, <2>1, <2>2 DEF LoadsMatch
  <1> QED
    BY <1>1, <1>2, <1>3, <1>4, <1>5 DEF MainStep

\* A teardown asks for no load.
LEMMA TearLoadsNothing ==
    ASSUME Types, NEW text \in Texts,
           \/ up' = up
           \/ up' = Append(up, Msg("save", text))
           \/ Torn(text, up)
    PROVE  Ones(up', "load") = Ones(up, "load")
  <1>1. /\ Msg("erase", 0) \in Up /\ Msg("locked", text) \in Up /\ Msg("save", text) \in Up
        /\ Msg("erase", 0).kind = "erase" /\ Msg("locked", text).kind = "locked"
        /\ Msg("save", text).kind = "save" /\ up \in Seq(Up) /\ Ones(up, "load") \in Nat
    BY Messages, OnesType DEF Msg, Types, PlainTypes
  <1>2. CASE up' = Append(up, Msg("save", text))
    BY <1>1, <1>2, OnesAppend
  <1>3. CASE Torn(text, up)
    BY <1>1, <1>3, OnesTwo DEF Torn
  <1> QED
    BY <1>2, <1>3

LEMMA LoadsOfWindow ==
    ASSUME Types, OtherTypes, LoadsMatch, WindowStep
    PROVE  LoadsMatch'
  <1>0. /\ up \in Seq(Up) /\ down \in Seq(Down) /\ reads \in Nat /\ typed \in Texts
        /\ Ones(up, "load") \in Nat /\ Ones(down, "loaded") \in Nat
        /\ \A t \in Texts : /\ Msg("set", t) \in Up /\ Msg("set", t).kind = "set"
                            /\ Msg("unlocked", t) \in Up /\ Msg("load", t) \in Up
                            /\ Msg("unlocked", t).kind = "unlocked"
                            /\ Msg("locked", t) \in Up /\ Msg("locked", t).kind = "locked"
                            /\ Msg("load", t).kind = "load"
        /\ 0 \in Texts
    BY OnesType, Messages DEF Types, PlainTypes, OtherTypes, Msg
  <1>1. CASE Type
    BY <1>1 DEF Type, main, LoadsMatch
  <1>2. CASE TimerFires
    <2>1. Ones(up', "load") = Ones(up, "load")
      BY <1>0, <1>2, TearLoadsNothing DEF TimerFires
    <2> QED
      BY <1>2, <2>1 DEF TimerFires, main, LoadsMatch
  <1>3. CASE LockFromWindow
    <2>1. Ones(up', "load") = Ones(up, "load")
      BY <1>0, <1>3, TearLoadsNothing DEF LockFromWindow, Tear
    <2> QED
      BY <1>3, <2>1 DEF LockFromWindow, main, LoadsMatch
  <1>4. CASE Deliver
    <2>1. down # <<>> /\ down' = Tail(down) /\ reads' = reads /\ Head(down).text \in Texts
      <3>1. down # <<>> /\ down' = Tail(down) /\ reads' = reads
        BY <1>4 DEF Deliver, main
      <3>2. Head(down) \in Down
        BY <1>0, <3>1
      <3> QED
        BY <3>1, <3>2 DEF Down
    <2>2. /\ Ones(down, "loaded") =
                Ones(down', "loaded") + (IF Head(down).kind = "loaded" THEN 1 ELSE 0)
          /\ Ones(down', "loaded") \in Nat
      <3>1. down' \in Seq(Down)
        BY <1>0, <2>1
      <3> QED
        BY <1>0, <2>1, <3>1, OnesTail, OnesType
    <2>3. CASE HearLoaded(Head(down))
      <3>1. Head(down).kind = "loaded" /\ loading' = loading - 1 /\ up' = up
        BY <2>3 DEF HearLoaded
      <3> QED
        BY <1>0, <2>1, <2>2, <3>1 DEF LoadsMatch
    <2>4. CASE HearRequest(Head(down)) \/ HearSaved(Head(down))
      <3>1. Head(down).kind # "loaded" /\ loading' = loading
        BY <2>4 DEF HearRequest, HearSaved
      <3>2. Ones(up', "load") = Ones(up, "load")
        BY <1>0, <2>1, <2>4, TearLoadsNothing DEF HearRequest, HearSaved, Tear
      <3> QED
        BY <1>0, <2>1, <2>2, <3>1, <3>2 DEF LoadsMatch
    <2> QED
      BY <1>4, <2>3, <2>4 DEF Deliver
  <1>5. CASE EffectReports
    <2>1. /\ up' = Append(up, Report(screen)) /\ UNCHANGED <<down, reads, loading>>
          /\ Report(screen) \in Up /\ Report(screen).kind # "load"
      BY <1>0, <1>5 DEF EffectReports, main, Report
    <2>2. Ones(up', "load") = Ones(up, "load")
      BY <1>0, <2>1, OnesAppend
    <2> QED
      BY <2>1, <2>2 DEF LoadsMatch
  <1>6. CASE Unlock
    <2>1. up' = Append(up, Msg("set", 0)) /\ UNCHANGED <<down, reads, loading>>
      BY <1>6 DEF Unlock, main
    <2>2. Ones(up', "load") = Ones(up, "load")
      BY <1>0, <2>1, OnesAppend
    <2> QED
      BY <2>1, <2>2 DEF LoadsMatch
  <1>7. CASE UnlockEnds
    <2>1. /\ up' = up \o <<Msg("unlocked", 0), Msg("load", 0)>> /\ UNCHANGED <<down, reads>>
          /\ loading' = loading + 1
      BY <1>7 DEF UnlockEnds, main
    <2>2. Ones(up', "load") = Ones(up, "load") + 1
      <3>1. /\ Msg("unlocked", 0) \in Up /\ Msg("unlocked", 0).kind # "load"
            /\ Msg("load", 0) \in Up /\ Msg("load", 0).kind = "load"
        BY <1>0
      <3>2. Ones(up \o <<Msg("unlocked", 0), Msg("load", 0)>>, "load") =
                Ones(up, "load") + 0 + 1
        BY <1>0, <3>1, OnesTwo
      <3> QED
        BY <1>0, <2>1, <3>2
    <2> QED
      BY <1>0, <2>1, <2>2 DEF LoadsMatch
  <1> QED
    BY <1>1, <1>2, <1>3, <1>4, <1>5, <1>6, <1>7 DEF WindowStep

\* A match of naturals is a natural: the count of the loads is.
LEMMA LoadsAreNatural ==
    ASSUME Types, LoadsMatch, reads \in Nat PROVE loading \in Nat
  BY OnesType DEF Types, PlainTypes, LoadsMatch

LEMMA OtherTypesStep ==
    ASSUME Types, OtherTypes, LoadsMatch, Next, Types', LoadsMatch'
    PROVE  OtherTypes'
  <1>1. reads' \in Nat /\ disk' \in Texts
    <2>1. CASE Receive
      BY <2>1 DEF Receive, SetKey, ClearKey, HearLocked, HearUnlocked, TakeSave, TakeLoad,
         OtherTypes
    <2>2. CASE SaveEnds
      <3>1. Head(work) \in Texts
        BY <2>2 DEF SaveEnds, Types, PlainTypes
      <3> QED
        BY <2>2, <3>1 DEF SaveEnds, OtherTypes
    <2>3. CASE ReadEnds
      BY <2>3 DEF ReadEnds, OtherTypes
    <2>4. CASE ~(Receive \/ SaveEnds \/ ReadEnds)
      <3>1. UNCHANGED <<reads, disk>>
        BY <2>4 DEF Next, MainStep, LockFromMain, Timeout, WindowStep, Type, TimerFires,
           LockFromWindow, Deliver, EffectReports, Unlock, UnlockEnds, main
      <3> QED
        BY <3>1 DEF OtherTypes
    <2> QED
      BY <2>1, <2>2, <2>3, <2>4
  <1>2. clear' \in BOOLEAN
    BY Zenon DEF Next, MainStep, LockFromMain, Timeout, Receive, SetKey, ClearKey, HearLocked,
       HearUnlocked, TakeSave, TakeLoad, SaveEnds, ReadEnds, WindowStep, Type, TimerFires,
       LockFromWindow, Deliver, EffectReports, Unlock, UnlockEnds, main, Forget, OtherTypes
  <1>3. fek' \in BOOLEAN /\ dirty' \in BOOLEAN /\ opening' \in BOOLEAN
    <2>1. MainStep => UNCHANGED window
      BY DEF MainStep, LockFromMain, Timeout, Receive, SaveEnds, ReadEnds
    <2>2. WindowStep => fek' \in BOOLEAN /\ dirty' \in BOOLEAN /\ opening' \in BOOLEAN
      BY Zenon DEF WindowStep, Type, TimerFires, LockFromWindow, Deliver, HearRequest,
         HearSaved, HearLoaded, Tear, Torn, EffectReports, Unlock, UnlockEnds, OtherTypes
    <2> QED
      BY <2>1, <2>2 DEF Next, window, OtherTypes
  <1>4. count' \in [locks : 0 .. MaxLocks, unlocks : 0 .. MaxUnlocks]
    BY BoundsAssumption DEF Next, MainStep, LockFromMain, Timeout, Receive, SaveEnds,
       ReadEnds, WindowStep, Type, TimerFires, LockFromWindow, Deliver, EffectReports, Unlock,
       UnlockEnds, OtherTypes
  <1>5. loading' \in Nat
    BY <1>1, LoadsAreNatural, OnesType DEF Types, PlainTypes, LoadsMatch
  <1> QED
    BY <1>1, <1>2, <1>3, <1>4, <1>5 DEF OtherTypes

\* All the types.
CInv == IInv /\ OtherTypes /\ LoadsMatch

LEMMA CHolds == Spec => []CInv
  <1>1. Init => OtherTypes /\ LoadsMatch
    <2> SUFFICES ASSUME Init PROVE OtherTypes /\ LoadsMatch
      OBVIOUS
    <2>1. OtherTypes
      <3>1. clear \in BOOLEAN /\ fek \in BOOLEAN /\ dirty \in BOOLEAN /\ opening \in BOOLEAN
        BY Zenon DEF Init
      <3>2. /\ reads \in Nat /\ loading \in Nat /\ disk \in Texts
            /\ count \in [locks : 0 .. MaxLocks, unlocks : 0 .. MaxUnlocks]
        BY BoundsAssumption DEF Init, Texts
      <3> QED
        BY <3>1, <3>2 DEF OtherTypes
    <2>2. Ones(<<>>, "load") = 0 /\ Ones(<<>>, "loaded") = 0
      <3>1. Slots(<<>>, "load") = {} /\ Slots(<<>>, "loaded") = {}
        BY DEF Slots
      <3> QED
        BY <3>1, FS_EmptySet DEF Ones
    <2> QED
      BY <2>1, <2>2 DEF Init, LoadsMatch
  <1>2. CInv /\ [Next]_vars => CInv'
    <2> SUFFICES ASSUME CInv, [Next]_vars PROVE CInv'
      OBVIOUS
    <2>1. IInv'
      BY MainKeepsIInv, WindowKeepsIInv, StutterKeepsIInv DEF CInv, Next
    <2>2. CASE Next
      <3>1. LoadsMatch'
        BY <2>2, LoadsOfMain, LoadsOfWindow DEF CInv, IInv, Next
      <3> QED
        BY <2>1, <2>2, <3>1, OtherTypesStep DEF CInv, IInv
    <2>3. CASE UNCHANGED vars
      BY <2>1, <2>3 DEF CInv, OtherTypes, LoadsMatch, vars, main, window
    <2> QED
      BY <2>2, <2>3
  <1> QED
    BY <1>1, <1>2, InitIInv, PTL DEF Spec, CInv

\* The types hold, and with them that the window never waits for fewer than no answer:
\* for any texts, locks, unlocks and pipes of any length.
THEOREM TypeCorrect == Spec => []TypeOK
  <1>1. CInv => TypeOK
    <2> SUFFICES ASSUME CInv PROVE TypeOK
      OBVIOUS
    <2>1. {key, clear, fek, dirty, opening} \subseteq BOOLEAN
      BY Zenon DEF CInv, IInv, Types, OtherTypes
    <2>2. {waits, reads, loading} \subseteq Nat /\ {screen, shown} \subseteq {"open", "locked"}
      BY DEF CInv, IInv, Types, PlainTypes, OtherTypes
    <2> QED
      BY <2>1, <2>2 DEF CInv, IInv, Types, PlainTypes, OtherTypes, TypeOK
  <1> QED
    BY <1>1, CHolds, PTL

----------------------------------------------------------------------------
(* The report of a lock comes after the text that its teardown found.       *)

\* Texts reach the disk in the order they were typed: on it, then at work, then on
\* the pipe, then in the store.
Ordered ==
    /\ disk <= typed
    /\ \A j \in 1 .. Len(work) : disk <= work[j] /\ work[j] <= typed
    /\ \A j \in 1 .. Len(work) : \A i \in 1 .. j : work[i] <= work[j]
    /\ \A j \in 1 .. Len(up) : up[j].kind = "save" =>
          /\ disk <= up[j].text /\ up[j].text <= typed
          /\ \A i \in 1 .. Len(work) : work[i] <= up[j].text
          /\ \A i \in 1 .. j : up[i].kind = "save" => up[i].text <= up[j].text

\* The text, or a later one, is handed over once the first n messages are received.
GivenBy(d, w, u, text, n) ==
    \/ d >= text
    \/ \E i \in 1 .. Len(w) : w[i] >= text
    \/ \E i \in 1 .. n : u[i].kind = "save" /\ u[i].text >= text
Given(text, n) == GivenBy(disk, work, up, text, n)
Gives(text, n) == GivenBy(disk', work', up', text, n)

\* What is reported, what a teardown waits for, and what no timer holds back was given.
ReportsAreGiven == \A i \in 1 .. Len(up) : up[i].kind = "locked" => Given(up[i].text, i)
TearsAreGiven   == \A text \in tears : Given(text, Len(up))
CleanIsGiven    == ~dirty => Given(typed, Len(up))

\* An answer to a load resets the timer: none is armed while one is awaited.
Calm ==
    /\ opening => ~dirty /\ screen = "locked"
    /\ loading # 0 => ~dirty

RInv == Ordered /\ ReportsAreGiven /\ TearsAreGiven /\ CleanIsGiven /\ Calm

\* What a report needs is in the main process when it arrives.
LEMMA ReportArrives ==
    ASSUME Types, ReportsAreGiven PROVE ReportIsProof
  <1> SUFFICES ASSUME up # <<>>, Head(up).kind = "locked" PROVE Handed(Head(up).text)
    BY DEF ReportIsProof
  <1>1. 1 \in 1 .. Len(up) /\ up[1] = Head(up)
    BY DEF Types, PlainTypes
  <1>2. Given(Head(up).text, 1)
    BY <1>1 DEF ReportsAreGiven
  <1>3. \A i \in 1 .. 1 : up[i].kind # "save"
    BY <1>1
  <1> QED
    BY <1>2, <1>3 DEF Given, GivenBy, Handed

\* The pipe grows: by what was typed last, by reports of what was given, by the rest.
LEMMA Growing ==
    ASSUME Types, Ordered, ReportsAreGiven, disk \in Texts,
           NEW t \in Seq(Up), up' = up \o t, UNCHANGED <<work, disk, typed>>,
           \A k \in 1 .. Len(t) : t[k].kind = "save" => t[k].text = typed,
           \A k \in 1 .. Len(t) : t[k].kind = "locked" => Given(t[k].text, Len(up))
    PROVE  /\ Ordered' /\ ReportsAreGiven'
           /\ \A text \in Texts : Given(text, Len(up)) => Gives(text, Len(up'))
           /\ (\E k \in 1 .. Len(t) : t[k].kind = "save") => Gives(typed, Len(up'))
  <1>1. /\ up \in Seq(Up) /\ Len(up) \in Nat /\ Len(t) \in Nat /\ Len(up') = Len(up) + Len(t)
        /\ \A i \in 1 .. Len(up) : up'[i] = up[i]
        /\ \A i \in 1 .. Len(t) : up'[Len(up) + i] = t[i]
        /\ typed \in Nat /\ disk \in Nat /\ \A i \in 1 .. Len(work) : work[i] \in Nat
        /\ up' \in Seq(Up) /\ \A i \in 1 .. Len(up') : up'[i].text \in Texts
    <2>1. up \in Seq(Up) /\ up' \in Seq(Up)
      BY DEF Types, PlainTypes
    <2>2. \A i \in 1 .. Len(up') : up'[i] \in Up
      BY <2>1
    <2>3. typed \in Nat /\ disk \in Nat /\ \A i \in 1 .. Len(work) : work[i] \in Nat
      <3>1. typed \in Texts /\ \A i \in 1 .. Len(work) : work[i] \in Texts
        BY DEF Types, PlainTypes
      <3> QED
        BY <3>1, BoundsAssumption DEF Texts
    <2> QED
      BY <2>1, <2>2, <2>3 DEF Up
  <1>2. ASSUME NEW j \in 1 .. Len(up')
        PROVE  \/ j \in 1 .. Len(up)
               \/ \E k \in 1 .. Len(t) : j = Len(up) + k
    <2>1. j \notin 1 .. Len(up) => j - Len(up) \in 1 .. Len(t) /\ j = Len(up) + (j - Len(up))
      BY <1>1
    <2> QED
      BY <2>1
  <1>3. ASSUME NEW text \in Texts, NEW n \in 0 .. Len(up), NEW m \in n .. Len(up'),
               Given(text, n)
        PROVE  Gives(text, m)
    <2>1. \A i \in 1 .. n : i \in 1 .. m /\ up'[i] = up[i]
      BY <1>1
    <2> QED
      BY <1>3, <2>1 DEF Given, Gives, GivenBy
  <1>4. Ordered'
    <2>1. /\ (disk <= typed)'
          /\ \A j \in 1 .. Len(work') : disk' <= work'[j] /\ work'[j] <= typed'
          /\ \A j \in 1 .. Len(work') : \A i \in 1 .. j : work'[i] <= work'[j]
      BY DEF Ordered
    <2>2. ASSUME NEW j \in 1 .. Len(up'), up'[j].kind = "save"
          PROVE  /\ disk <= up'[j].text /\ up'[j].text <= typed
                 /\ \A i \in 1 .. Len(work) : work[i] <= up'[j].text
                 /\ \A i \in 1 .. j : up'[i].kind = "save" => up'[i].text <= up'[j].text
      <3>1. CASE j \in 1 .. Len(up)
        <4>1. up'[j] = up[j] /\ \A i \in 1 .. j : up'[i] = up[i]
          BY <1>1, <3>1
        <4> QED
          BY <2>2, <3>1, <4>1 DEF Ordered
      <3>2. CASE \E k \in 1 .. Len(t) : j = Len(up) + k
        <4>1. up'[j].text = typed
          BY <1>1, <2>2, <3>2
        <4>2. ASSUME NEW i \in 1 .. j, up'[i].kind = "save" PROVE up'[i].text <= typed
          <5>1. i \in 1 .. Len(up')
            BY <1>1, <2>2
          <5>2. CASE i \in 1 .. Len(up)
            BY <1>1, <4>2, <5>2 DEF Ordered
          <5>3. CASE \E k \in 1 .. Len(t) : i = Len(up) + k
            BY <1>1, <4>2, <5>3
          <5> QED
            BY <1>2, <5>1, <5>2, <5>3
        <4> QED
          BY <1>1, <4>1, <4>2 DEF Ordered
      <3> QED
        BY <1>2, <3>1, <3>2
    <2> QED
      BY <2>1, <2>2 DEF Ordered
  <1>5. ReportsAreGiven'
    <2> SUFFICES ASSUME NEW j \in 1 .. Len(up'), up'[j].kind = "locked"
                 PROVE  Gives(up'[j].text, j)
      BY DEF ReportsAreGiven, Given, Gives
    <2>1. up'[j].text \in Texts
      BY <1>1
    <2>2. CASE j \in 1 .. Len(up)
      <3>1. up'[j] = up[j] /\ Given(up[j].text, j) /\ j \in 0 .. Len(up) /\ j \in j .. Len(up')
        BY <1>1, <2>2 DEF ReportsAreGiven
      <3> QED
        BY <1>3, <2>1, <3>1
    <2>3. CASE \E k \in 1 .. Len(t) : j = Len(up) + k
      <3>1. Given(up'[j].text, Len(up)) /\ Len(up) \in 0 .. Len(up) /\ j \in Len(up) .. Len(up')
        BY <1>1, <2>3
      <3> QED
        BY <1>3, <2>1, <3>1
    <2> QED
      BY <1>2, <2>2, <2>3
  <1>6. ASSUME NEW text \in Texts, Given(text, Len(up)) PROVE Gives(text, Len(up'))
    <2>1. Len(up) \in 0 .. Len(up) /\ Len(up') \in Len(up) .. Len(up')
      BY <1>1
    <2>2. ASSUME NEW m \in Len(up) .. Len(up') PROVE Gives(text, m)
      BY <1>3, <1>6, <2>1
    <2> QED
      BY <2>1, <2>2 DEF Gives, GivenBy
  <1>7. ASSUME NEW k \in 1 .. Len(t), t[k].kind = "save" PROVE Gives(typed, Len(up'))
    <2>1. Len(up) + k \in 1 .. Len(up') /\ up'[Len(up) + k] = t[k] /\ t[k].text = typed
      BY <1>1, <1>7
    <2>2. up'[Len(up) + k].kind = "save" /\ up'[Len(up) + k].text >= typed
      BY <1>1, <1>7, <2>1
    <2> QED
      BY <2>1, <2>2 DEF Gives, GivenBy
  <1> QED
    BY <1>4, <1>5, <1>6, <1>7

\* One message.
LEMMA GrowingByOne ==
    ASSUME Types, Ordered, ReportsAreGiven, disk \in Texts,
           NEW m \in Up, up' = Append(up, m), UNCHANGED <<work, disk, typed>>,
           m.kind = "save" => m.text = typed,
           m.kind = "locked" => Given(m.text, Len(up))
    PROVE  /\ Ordered' /\ ReportsAreGiven'
           /\ \A text \in Texts : Given(text, Len(up)) => Gives(text, Len(up'))
           /\ m.kind = "save" => Gives(typed, Len(up'))
  <1> DEFINE t == <<m>>
  <1>1. t \in Seq(Up) /\ up' = up \o t /\ Len(t) = 1 /\ t[1] = m
    BY DEF Types, PlainTypes
  <1> HIDE DEF t
  <1>2. \A k \in 1 .. Len(t) : t[k] = m
    BY <1>1
  <1>3. 1 \in 1 .. Len(t) /\ t[1] = m
    BY <1>1
  <1>4. \A k \in 1 .. Len(t) : t[k].kind = "save" => t[k].text = typed
    BY <1>2
  <1>5. \A k \in 1 .. Len(t) : t[k].kind = "locked" => Given(t[k].text, Len(up))
    BY <1>2
  <1>6. m.kind = "save" => \E k \in 1 .. Len(t) : t[k].kind = "save"
    BY <1>3
  <1>7. /\ Ordered' /\ ReportsAreGiven'
        /\ \A text \in Texts : Given(text, Len(up)) => Gives(text, Len(up'))
        /\ (\E k \in 1 .. Len(t) : t[k].kind = "save") => Gives(typed, Len(up'))
    BY <1>1, <1>4, <1>5, Growing
  <1> QED
    BY <1>6, <1>7

\* No message.
LEMMA Still ==
    ASSUME Ordered, ReportsAreGiven, UNCHANGED <<up, work, disk>>, typed <= typed',
           typed \in Nat, typed' \in Nat, disk \in Texts, Types
    PROVE  /\ Ordered' /\ ReportsAreGiven'
           /\ \A text \in Texts : Given(text, Len(up)) => Gives(text, Len(up'))
  <1>1. /\ \A i \in 1 .. Len(work) : work[i] \in Nat
        /\ \A i \in 1 .. Len(up) : up[i].text \in Nat
        /\ disk \in Nat
    <2>1. /\ \A i \in 1 .. Len(work) : work[i] \in Texts
          /\ \A i \in 1 .. Len(up) : up[i] \in Up
      BY DEF Types, PlainTypes
    <2> QED
      BY <2>1, BoundsAssumption DEF Up, Texts
  <1>2. \A x \in Nat : x <= typed => x <= typed'
    OBVIOUS
  <1>3. ReportsAreGiven'
    BY DEF ReportsAreGiven, Given, GivenBy
  <1>4. \A text \in Texts : Given(text, Len(up)) => Gives(text, Len(up'))
    BY DEF Given, Gives
  <1>5. Ordered'
    <2>1. \A i \in 1 .. Len(work) : work[i] <= typed'
      BY <1>1, <1>2 DEF Ordered
    <2>2. \A i \in 1 .. Len(up) : up[i].kind = "save" => up[i].text <= typed'
      BY <1>1, <1>2 DEF Ordered
    <2>3. disk <= typed'
      BY <1>1, <1>2 DEF Ordered
    <2> QED
      BY <2>1, <2>2, <2>3 DEF Ordered
  <1> QED
    BY <1>3, <1>4, <1>5

\* A session torn down reports a text that was given.
LEMMA TornIsGiven ==
    ASSUME Types, Ordered, ReportsAreGiven, disk \in Texts, NEW text \in Texts, Torn(text, up),
           Given(text, Len(up)), UNCHANGED <<work, disk, typed>>
    PROVE  /\ Ordered' /\ ReportsAreGiven'
           /\ \A x \in Texts : Given(x, Len(up)) => Gives(x, Len(up'))
  <1> DEFINE t == <<Msg("erase", 0), Msg("locked", text)>>
  <1>1. t \in Seq(Up) /\ up' = up \o t /\ Len(t) = 2
    BY Messages DEF Torn
  <1>2. \A k \in 1 .. Len(t) : /\ t[k].kind # "save"
                               /\ t[k].kind = "locked" => t[k].text = text
    BY DEF Msg
  <1> HIDE DEF t
  <1> QED
    BY <1>1, <1>2, Growing

\* The teardown: it sends the text it holds back, or reports one that nothing holds back.
LEMMA TearIsGiven ==
    ASSUME Types, OtherTypes, RInv, Tear, UNCHANGED <<work, disk, typed, opening>>,
           loading' = loading \/ loading' = 0
    PROVE  RInv'
  <1>0. typed \in Texts /\ tears \subseteq Texts /\ disk \in Texts
    BY DEF Types, PlainTypes, OtherTypes
  <1>1. CASE dirty
    <2>1. /\ up' = Append(up, Msg("save", typed)) /\ Msg("save", typed) \in Up
          /\ Msg("save", typed).kind = "save" /\ Msg("save", typed).text = typed
          /\ ~dirty' /\ tears' = tears \cup {typed} /\ screen' = screen
      BY <1>0, <1>1, Messages DEF Tear, Msg
    <2>2. /\ Ordered' /\ ReportsAreGiven' /\ Gives(typed, Len(up'))
          /\ \A text \in Texts : Given(text, Len(up)) => Gives(text, Len(up'))
      BY <1>0, <2>1, GrowingByOne DEF RInv
    <2>3. TearsAreGiven' /\ CleanIsGiven'
      BY <1>0, <2>1, <2>2 DEF RInv, TearsAreGiven, CleanIsGiven, Given, Gives
    <2>4. Calm'
      BY <2>1 DEF RInv, Calm
    <2> QED
      BY <2>2, <2>3, <2>4 DEF RInv
  <1>2. CASE ~dirty
    <2>1. Torn(typed, up) /\ dirty' = dirty /\ tears' = tears /\ screen' = "locked"
      BY <1>2 DEF Tear, Torn
    <2>2. /\ Ordered' /\ ReportsAreGiven'
          /\ \A text \in Texts : Given(text, Len(up)) => Gives(text, Len(up'))
      BY <1>0, <1>2, <2>1, TornIsGiven DEF RInv, CleanIsGiven
    <2>3. TearsAreGiven' /\ CleanIsGiven'
      BY <1>0, <2>1, <2>2 DEF RInv, TearsAreGiven, CleanIsGiven, Given, Gives
    <2>4. Calm'
      BY <1>2, <2>1 DEF RInv, Calm
    <2> QED
      BY <2>2, <2>3, <2>4 DEF RInv
  <1> QED
    BY <1>1, <1>2

\* The steps of the window.
LEMMA WindowKeepsRInv ==
    ASSUME CInv, CInv', RInv, WindowStep
    PROVE  RInv'
  <1>0. /\ typed \in Texts /\ tears \subseteq Texts /\ disk \in Texts /\ 0 \in Texts
        /\ typed \in Nat /\ Types /\ OtherTypes /\ down \in Seq(Down)
        /\ Ordered /\ ReportsAreGiven /\ TearsAreGiven /\ CleanIsGiven /\ Calm
    <2>1. Types /\ OtherTypes
      BY DEF CInv, IInv
    <2>2. typed \in Texts /\ tears \subseteq Texts /\ disk \in Texts /\ down \in Seq(Down)
      BY <2>1 DEF Types, PlainTypes, OtherTypes
    <2>3. typed \in Nat /\ 0 \in Texts
      BY <2>2, BoundsAssumption DEF Texts
    <2> QED
      BY <2>1, <2>2, <2>3 DEF RInv
  <1>00. UNCHANGED <<work, disk>>
    BY DEF WindowStep, Type, TimerFires, LockFromWindow, Deliver, EffectReports, Unlock,
       UnlockEnds, main
  <1> HIDE DEF RInv
  <1>1. CASE Type
    <2>1. /\ screen = "open" /\ loading = 0 /\ typed' = typed + 1 /\ dirty' = TRUE
          /\ UNCHANGED <<up, screen, tears, opening, loading>>
      BY <1>1 DEF Type
    <2>2. /\ Ordered' /\ ReportsAreGiven'
          /\ \A text \in Texts : Given(text, Len(up)) => Gives(text, Len(up'))
      BY <1>0, <1>00, <2>1, Still
    <2>3. TearsAreGiven' /\ CleanIsGiven'
      BY <1>0, <2>1, <2>2 DEF TearsAreGiven, CleanIsGiven, Given, Gives
    <2>4. Calm'
      BY <1>0, <2>1 DEF Calm
    <2> QED
      BY <2>2, <2>3, <2>4 DEF RInv
  <1>2. CASE TimerFires
    <2>1. /\ up' = Append(up, Msg("save", typed)) /\ Msg("save", typed) \in Up
          /\ Msg("save", typed).kind = "save" /\ Msg("save", typed).text = typed
          /\ ~dirty' /\ UNCHANGED <<typed, tears, screen, opening, loading>>
      BY <1>0, <1>2, Messages DEF TimerFires, Msg
    <2>2. /\ Ordered' /\ ReportsAreGiven' /\ Gives(typed, Len(up'))
          /\ \A text \in Texts : Given(text, Len(up)) => Gives(text, Len(up'))
      BY <1>0, <1>00, <2>1, GrowingByOne
    <2>3. TearsAreGiven' /\ CleanIsGiven'
      BY <1>0, <2>1, <2>2 DEF TearsAreGiven, CleanIsGiven, Given, Gives
    <2>4. Calm'
      BY <1>0, <2>1 DEF Calm
    <2> QED
      BY <2>2, <2>3, <2>4 DEF RInv
  <1>3. CASE LockFromWindow
    BY <1>0, <1>00, <1>3, TearIsGiven DEF LockFromWindow
  <1>4. CASE Deliver
    <2> DEFINE m == Head(down)
    <2>1. /\ UNCHANGED <<typed, opening>> /\ m.text \in Texts
          /\ HearRequest(m) \/ HearSaved(m) \/ HearLoaded(m)
      <3>1. down # <<>> /\ UNCHANGED <<typed, opening>>
        BY <1>4 DEF Deliver
      <3>2. m \in Down
        BY <1>0, <3>1
      <3> QED
        BY <1>4, <3>1, <3>2 DEF Deliver, Down
    <2>2. CASE HearRequest(m)
      BY <1>0, <1>00, <2>1, <2>2, TearIsGiven DEF HearRequest
    <2>3. CASE HearSaved(m) /\ m.text \in tears
      <3>1. /\ Torn(m.text, up) /\ screen' = "locked" /\ tears' \subseteq tears
            /\ UNCHANGED <<dirty, loading>>
        BY <2>3 DEF HearSaved, Torn
      <3>2. /\ Ordered' /\ ReportsAreGiven'
            /\ \A text \in Texts : Given(text, Len(up)) => Gives(text, Len(up'))
        BY <1>0, <1>00, <2>1, <2>3, <3>1, TornIsGiven DEF TearsAreGiven
      <3>3. TearsAreGiven' /\ CleanIsGiven'
        BY <1>0, <2>1, <3>1, <3>2 DEF TearsAreGiven, CleanIsGiven, Given, Gives
      <3>4. Calm'
        BY <1>0, <2>1, <3>1 DEF Calm
      <3> QED
        BY <3>2, <3>3, <3>4 DEF RInv
    <2>4. CASE HearSaved(m) /\ m.text \notin tears
      <3>1. UNCHANGED <<screen, up, tears, dirty, loading>>
        BY <2>4 DEF HearSaved
      <3>2. /\ Ordered' /\ ReportsAreGiven'
            /\ \A text \in Texts : Given(text, Len(up)) => Gives(text, Len(up'))
        BY <1>0, <1>00, <2>1, <3>1, Still
      <3>3. TearsAreGiven' /\ CleanIsGiven'
        BY <1>0, <2>1, <3>1, <3>2 DEF TearsAreGiven, CleanIsGiven, Given, Gives
      <3>4. Calm'
        BY <1>0, <2>1, <3>1 DEF Calm
      <3> QED
        BY <3>2, <3>3, <3>4 DEF RInv
    <2>5. CASE HearLoaded(m)
      <3>1. /\ loading' = loading - 1 /\ dirty' = FALSE /\ UNCHANGED <<screen, up, tears>>
        BY <2>5 DEF HearLoaded
      <3>2. loading # 0
        <4>1. loading \in Nat /\ loading' \in Nat
          BY DEF CInv, OtherTypes
        <4> QED
          BY <3>1, <4>1
      <3>3. /\ Ordered' /\ ReportsAreGiven'
            /\ \A text \in Texts : Given(text, Len(up)) => Gives(text, Len(up'))
        BY <1>0, <1>00, <2>1, <3>1, Still
      <3>4. TearsAreGiven' /\ CleanIsGiven'
        BY <1>0, <2>1, <3>1, <3>2, <3>3 DEF TearsAreGiven, CleanIsGiven, Calm, Given, Gives
      <3>5. Calm'
        BY <1>0, <2>1, <3>1 DEF Calm
      <3> QED
        BY <3>3, <3>4, <3>5 DEF RInv
    <2> QED
      BY <2>1, <2>2, <2>3, <2>4, <2>5
  <1>5. CASE EffectReports
    <2>1. /\ up' = Append(up, Report(screen))
          /\ UNCHANGED <<screen, typed, dirty, tears, opening, loading>>
      BY <1>5 DEF EffectReports
    <2>2. Report(screen) \in Up /\ Report(screen).kind # "save" /\ Report(screen).text = 0
      BY <1>0, Messages DEF Report, Msg
    <2>3. Given(0, Len(up))
      BY <1>0, BoundsAssumption DEF Given, GivenBy, Texts
    <2>4. /\ Ordered' /\ ReportsAreGiven'
          /\ \A text \in Texts : Given(text, Len(up)) => Gives(text, Len(up'))
      BY <1>0, <1>00, <2>1, <2>2, <2>3, GrowingByOne
    <2>5. TearsAreGiven' /\ CleanIsGiven'
      BY <1>0, <2>1, <2>4 DEF TearsAreGiven, CleanIsGiven, Given, Gives
    <2>6. Calm'
      BY <1>0, <2>1 DEF Calm
    <2> QED
      BY <2>4, <2>5, <2>6 DEF RInv
  <1>6. CASE Unlock
    <2>1. /\ up' = Append(up, Msg("set", 0)) /\ screen = "locked" /\ ~dirty
          /\ UNCHANGED <<screen, typed, dirty, tears, loading>>
      BY <1>6 DEF Unlock
    <2>2. Msg("set", 0) \in Up /\ Msg("set", 0).kind = "set"
      BY <1>0, Messages DEF Msg
    <2>3. /\ Ordered' /\ ReportsAreGiven'
          /\ \A text \in Texts : Given(text, Len(up)) => Gives(text, Len(up'))
      BY <1>0, <1>00, <2>1, <2>2, GrowingByOne
    <2>4. TearsAreGiven' /\ CleanIsGiven'
      BY <1>0, <2>1, <2>3 DEF TearsAreGiven, CleanIsGiven, Given, Gives
    <2>5. Calm'
      BY <2>1 DEF Calm
    <2> QED
      BY <2>3, <2>4, <2>5 DEF RInv
  <1>7. CASE UnlockEnds
    <2> DEFINE t == <<Msg("unlocked", 0), Msg("load", 0)>>
    <2>1. /\ up' = up \o t /\ opening /\ ~opening' /\ screen' = "open"
          /\ UNCHANGED <<typed, dirty, tears>>
      BY <1>7 DEF UnlockEnds
    <2>2. t \in Seq(Up) /\ \A k \in 1 .. Len(t) : t[k].kind \notin {"save", "locked"}
      <3>1. Msg("unlocked", 0) \in Up /\ Msg("load", 0) \in Up
        BY <1>0, Messages
      <3>2. t \in Seq(Up) /\ Len(t) = 2 /\ t[1] = Msg("unlocked", 0) /\ t[2] = Msg("load", 0)
        BY <3>1
      <3>3. t[1].kind = "unlocked" /\ t[2].kind = "load"
        BY <3>2 DEF Msg
      <3>4. \A k \in 1 .. 2 : k = 1 \/ k = 2
        OBVIOUS
      <3> QED
        BY <3>2, <3>3, <3>4
    <2> HIDE DEF t
    <2>3. /\ Ordered' /\ ReportsAreGiven'
          /\ \A text \in Texts : Given(text, Len(up)) => Gives(text, Len(up'))
      BY <1>0, <1>00, <2>1, <2>2, Growing
    <2>4. TearsAreGiven' /\ CleanIsGiven'
      BY <1>0, <2>1, <2>3 DEF TearsAreGiven, CleanIsGiven, Given, Gives
    <2>5. Calm'
      BY <1>0, <2>1 DEF Calm
    <2> QED
      BY <2>3, <2>4, <2>5 DEF RInv
  <1> QED
    BY <1>1, <1>2, <1>3, <1>4, <1>5, <1>6, <1>7 DEF WindowStep

\* A message is received: what the first i gave, the others and the work now give.
LEMMA ReceivingKeepsRInv ==
    ASSUME Types, OtherTypes, RInv, Receive
    PROVE  RInv'
  <1> DEFINE m == Head(up)
  <1>1. /\ up # <<>> /\ up' = Tail(up) /\ disk' = disk
        /\ UNCHANGED <<typed, dirty, tears, screen, opening, loading>>
        /\ work' = IF m.kind = "save" THEN Append(work, m.text) ELSE work
    BY DEF Receive, SetKey, ClearKey, HearLocked, HearUnlocked, TakeSave, TakeLoad, window
  <1>2. /\ up \in Seq(Up) /\ m = up[1] /\ Len(up) \in Nat \ {0} /\ Len(up') = Len(up) - 1
        /\ \A i \in 1 .. Len(up') : up'[i] = up[i + 1] /\ i + 1 \in 1 .. Len(up)
        /\ 1 \in 1 .. Len(up) /\ m \in Up
    BY <1>1 DEF Types, PlainTypes
  <1>3. /\ typed \in Nat /\ disk \in Nat /\ tears \subseteq Texts /\ typed \in Texts
        /\ work \in Seq(Texts) /\ \A i \in 1 .. Len(work) : work[i] \in Nat
        /\ \A i \in 1 .. Len(up) : up[i].text \in Nat /\ up[i].text \in Texts
        /\ m.text \in Nat /\ m.text \in Texts
    <2>1. /\ typed \in Texts /\ disk \in Texts /\ tears \subseteq Texts /\ work \in Seq(Texts)
          /\ \A i \in 1 .. Len(work) : work[i] \in Texts
          /\ \A i \in 1 .. Len(up) : up[i] \in Up
      BY <1>2 DEF Types, PlainTypes, OtherTypes
    <2> QED
      BY <1>2, <2>1, BoundsAssumption DEF Up, Texts
  <1>4. /\ m.kind = "save" => /\ Len(work') = Len(work) + 1
                              /\ \A i \in 1 .. Len(work) : work'[i] = work[i]
                              /\ work'[Len(work) + 1] = m.text
        /\ m.kind # "save" => work' = work
    BY <1>1, <1>3
  <1>5. ASSUME NEW text \in Nat, NEW n \in 1 .. Len(up), Given(text, n)
        PROVE  Gives(text, n - 1)
    <2>1. CASE disk >= text
      BY <1>1, <2>1 DEF Gives, GivenBy
    <2>2. CASE \E i \in 1 .. Len(work) : work[i] >= text
      <3>1. PICK i \in 1 .. Len(work) : work[i] >= text
        BY <2>2
      <3>2. i \in 1 .. Len(work') /\ work'[i] = work[i]
        BY <1>3, <1>4, <3>1
      <3> QED
        BY <3>1, <3>2 DEF Gives, GivenBy
    <2>3. CASE \E i \in 1 .. n : up[i].kind = "save" /\ up[i].text >= text
      <3>1. PICK i \in 1 .. n : up[i].kind = "save" /\ up[i].text >= text
        BY <2>3
      <3>2. CASE i = 1
        <4>1. Len(work) + 1 \in 1 .. Len(work') /\ work'[Len(work) + 1] >= text
          BY <1>2, <1>3, <1>4, <3>1, <3>2
        <4> QED
          BY <4>1 DEF Gives, GivenBy
      <3>3. CASE i # 1
        <4>1. i - 1 \in 1 .. n - 1 /\ i - 1 \in 1 .. Len(up') /\ (i - 1) + 1 = i
          BY <1>2, <3>1, <3>3
        <4>2. up'[i - 1] = up[i]
          BY <1>2, <4>1
        <4> QED
          BY <3>1, <4>1, <4>2 DEF Gives, GivenBy
      <3> QED
        BY <3>2, <3>3
    <2> QED
      BY <1>5, <2>1, <2>2, <2>3 DEF Given, GivenBy
  <1>6. Ordered'
    <2> USE DEF RInv
    <2>1. ASSUME NEW i \in 1 .. Len(work')
          PROVE  \/ i \in 1 .. Len(work) /\ work'[i] = work[i]
                 \/ i = Len(work) + 1 /\ m.kind = "save" /\ work'[i] = m.text
      BY <1>3, <1>4
    <2>2. m.kind = "save" => /\ disk <= m.text /\ m.text <= typed
                             /\ \A i \in 1 .. Len(work) : work[i] <= m.text
      BY <1>2 DEF Ordered
    <2>3. \A j \in 1 .. Len(work') : disk <= work'[j] /\ work'[j] <= typed
      BY <2>1, <2>2 DEF Ordered
    <2>4. ASSUME NEW j \in 1 .. Len(work'), NEW i \in 1 .. j PROVE work'[i] <= work'[j]
      <3>1. i \in 1 .. Len(work')
        BY <1>3, <1>4
      <3>2. CASE j \in 1 .. Len(work) /\ work'[j] = work[j]
        <4>1. i \in 1 .. Len(work) /\ i # Len(work) + 1
          BY <1>3, <3>2
        <4>2. work'[i] = work[i]
          BY <2>1, <3>1, <4>1
        <4> QED
          BY <3>2, <4>2 DEF Ordered
      <3>3. CASE j = Len(work) + 1 /\ m.kind = "save" /\ work'[j] = m.text
        BY <1>3, <2>1, <2>2, <3>1, <3>3
      <3> QED
        BY <2>1, <3>2, <3>3
    <2>5. ASSUME NEW j \in 1 .. Len(up'), up'[j].kind = "save"
          PROVE  /\ disk <= up'[j].text /\ up'[j].text <= typed
                 /\ \A i \in 1 .. Len(work') : work'[i] <= up'[j].text
                 /\ \A i \in 1 .. j : up'[i].kind = "save" => up'[i].text <= up'[j].text
      <3>1. /\ up'[j] = up[j + 1] /\ j + 1 \in 1 .. Len(up) /\ 1 \in 1 .. j + 1
            /\ \A i \in 1 .. j : up'[i] = up[i + 1] /\ i + 1 \in 1 .. j + 1
        BY <1>2
      <3>2. /\ disk <= up[j + 1].text /\ up[j + 1].text <= typed
            /\ \A i \in 1 .. Len(work) : work[i] <= up[j + 1].text
            /\ \A i \in 1 .. j + 1 : up[i].kind = "save" => up[i].text <= up[j + 1].text
        BY <2>5, <3>1 DEF Ordered
      <3>3. \A i \in 1 .. Len(work') : work'[i] <= up[j + 1].text
        BY <1>2, <2>1, <3>1, <3>2
      <3> QED
        BY <3>1, <3>2, <3>3
    <2>6. disk <= typed
      BY DEF Ordered
    <2> QED
      BY <1>1, <2>3, <2>4, <2>5, <2>6 DEF Ordered
  <1>7. ReportsAreGiven'
    <2> SUFFICES ASSUME NEW j \in 1 .. Len(up'), up'[j].kind = "locked"
                 PROVE  Gives(up'[j].text, j)
      BY DEF ReportsAreGiven, Given, Gives
    <2>1. up'[j] = up[j + 1] /\ j + 1 \in 1 .. Len(up) /\ (j + 1) - 1 = j
      BY <1>2
    <2>2. Given(up[j + 1].text, j + 1)
      BY <2>1 DEF RInv, ReportsAreGiven
    <2>3. Gives(up[j + 1].text, (j + 1) - 1)
      BY <1>3, <1>5, <2>1, <2>2
    <2> QED
      BY <2>1, <2>3
  <1>8. ASSUME NEW text \in Texts, Given(text, Len(up)) PROVE Gives(text, Len(up'))
    <2>1. text \in Nat /\ Len(up) \in 1 .. Len(up)
      BY <1>2, BoundsAssumption DEF Texts
    <2>2. Gives(text, Len(up) - 1)
      BY <1>5, <1>8, <2>1
    <2> QED
      BY <1>2, <2>2
  <1>9. TearsAreGiven' /\ CleanIsGiven'
    BY <1>1, <1>3, <1>8 DEF RInv, TearsAreGiven, CleanIsGiven, Given, Gives
  <1>10. Calm'
    BY <1>1 DEF RInv, Calm
  <1> QED
    BY <1>6, <1>7, <1>9, <1>10 DEF RInv

\* The oldest save reaches the disk: it is no older than what is there.
LEMMA SavingKeepsRInv ==
    ASSUME Types, OtherTypes, RInv, SaveEnds
    PROVE  RInv'
  <1>1. /\ work # <<>> /\ disk' = Head(work) /\ work' = Tail(work) /\ up' = up
        /\ UNCHANGED <<typed, dirty, tears, screen, opening, loading>>
    BY DEF SaveEnds, window
  <1>2. /\ work \in Seq(Texts) /\ disk' = work[1] /\ Len(work) \in Nat \ {0}
        /\ Len(work') = Len(work) - 1 /\ 1 \in 1 .. Len(work)
        /\ \A i \in 1 .. Len(work') : work'[i] = work[i + 1] /\ i + 1 \in 1 .. Len(work)
        /\ up \in Seq(Up) /\ typed \in Texts /\ tears \subseteq Texts /\ disk \in Texts
    BY <1>1 DEF Types, PlainTypes, OtherTypes
  <1>3. /\ typed \in Nat /\ disk \in Nat /\ \A i \in 1 .. Len(work) : work[i] \in Nat
        /\ \A i \in 1 .. Len(up) : up[i].text \in Nat
    <2>1. /\ \A i \in 1 .. Len(work) : work[i] \in Texts
          /\ \A i \in 1 .. Len(up) : up[i] \in Up
      BY <1>2
    <2> QED
      BY <1>2, <2>1, BoundsAssumption DEF Up, Texts
  <1>4. ASSUME NEW text \in Nat, NEW n, Given(text, n) PROVE Gives(text, n)
    <2>1. CASE disk >= text
      <3>1. disk <= work[1]
        BY <1>2 DEF RInv, Ordered
      <3> QED
        BY <1>2, <1>3, <2>1, <3>1 DEF Gives, GivenBy
    <2>2. CASE \E i \in 1 .. Len(work) : work[i] >= text
      <3>1. PICK i \in 1 .. Len(work) : work[i] >= text
        BY <2>2
      <3>2. CASE i = 1
        BY <1>2, <3>1, <3>2 DEF Gives, GivenBy
      <3>3. CASE i # 1
        <4>1. i - 1 \in 1 .. Len(work') /\ (i - 1) + 1 = i
          BY <1>2, <3>1, <3>3
        <4>2. work'[i - 1] = work[i]
          BY <1>2, <4>1
        <4> QED
          BY <3>1, <4>1, <4>2 DEF Gives, GivenBy
      <3> QED
        BY <3>2, <3>3
    <2>3. CASE \E i \in 1 .. n : up[i].kind = "save" /\ up[i].text >= text
      BY <1>1, <2>3 DEF Gives, GivenBy
    <2> QED
      BY <1>4, <2>1, <2>2, <2>3 DEF Given, GivenBy
  <1>5. Ordered'
    <2> USE DEF RInv
    <2>1. disk' <= typed
      BY <1>2 DEF Ordered
    <2>2. ASSUME NEW j \in 1 .. Len(work')
          PROVE  /\ disk' <= work'[j] /\ work'[j] <= typed
                 /\ \A i \in 1 .. j : work'[i] <= work'[j]
      <3>1. /\ work'[j] = work[j + 1] /\ j + 1 \in 1 .. Len(work) /\ 1 \in 1 .. j + 1
            /\ \A i \in 1 .. j : work'[i] = work[i + 1] /\ i + 1 \in 1 .. j + 1
        BY <1>2
      <3>2. work[j + 1] <= typed /\ \A i \in 1 .. j + 1 : work[i] <= work[j + 1]
        BY <3>1 DEF Ordered
      <3> QED
        BY <1>2, <3>1, <3>2
    <2>3. ASSUME NEW j \in 1 .. Len(up), up[j].kind = "save"
          PROVE  /\ disk' <= up[j].text /\ up[j].text <= typed
                 /\ \A i \in 1 .. Len(work') : work'[i] <= up[j].text
                 /\ \A i \in 1 .. j : up[i].kind = "save" => up[i].text <= up[j].text
      <3>1. /\ up[j].text <= typed /\ \A i \in 1 .. Len(work) : work[i] <= up[j].text
            /\ \A i \in 1 .. j : up[i].kind = "save" => up[i].text <= up[j].text
        BY <2>3 DEF Ordered
      <3> QED
        BY <1>2, <3>1
    <2> QED
      BY <1>1, <2>1, <2>2, <2>3 DEF Ordered
  <1>6. ReportsAreGiven'
    BY <1>1, <1>3, <1>4 DEF RInv, ReportsAreGiven, Given, Gives
  <1>7. TearsAreGiven' /\ CleanIsGiven'
    <2>1. \A text \in tears : text \in Nat
      BY <1>2, BoundsAssumption DEF Texts
    <2> QED
      BY <1>1, <1>3, <1>4, <2>1 DEF RInv, TearsAreGiven, CleanIsGiven, Given, Gives
  <1>8. Calm'
    BY <1>1 DEF RInv, Calm
  <1> QED
    BY <1>5, <1>6, <1>7, <1>8 DEF RInv

\* The other steps of the main process touch neither the saves nor the reports.
LEMMA MainKeepsRInv ==
    ASSUME Types, OtherTypes, RInv, MainStep
    PROVE  RInv'
  <1>1. ASSUME UNCHANGED <<up, work, disk, window>> PROVE RInv'
    BY <1>1 DEF window, RInv, Ordered, ReportsAreGiven, TearsAreGiven, CleanIsGiven, Calm,
       Given, GivenBy
  <1>2. CASE LockFromMain(TRUE) \/ LockFromMain(FALSE) \/ Timeout \/ ReadEnds
    BY <1>1, <1>2 DEF LockFromMain, Timeout, ReadEnds
  <1> QED
    BY <1>2, ReceivingKeepsRInv, SavingKeepsRInv DEF MainStep

LEMMA RHolds == Spec => [](CInv /\ RInv)
  <1>1. Init => RInv
    <2> SUFFICES ASSUME Init PROVE RInv
      OBVIOUS
    <2>1. /\ disk = 0 /\ typed = 0 /\ work = <<>> /\ up = <<>> /\ tears = {}
          /\ Len(work) = 0 /\ Len(up) = 0
          /\ ~opening /\ loading = 0
      BY DEF Init
    <2> QED
      BY <2>1 DEF RInv, Ordered, ReportsAreGiven, TearsAreGiven, CleanIsGiven, Calm, Given,
         GivenBy
  <1>2. CInv /\ CInv' /\ RInv /\ [Next]_vars => RInv'
    <2> SUFFICES ASSUME CInv, CInv', RInv, [Next]_vars PROVE RInv'
      OBVIOUS
    <2>1. CASE MainStep
      BY <2>1, MainKeepsRInv DEF CInv, IInv
    <2>2. CASE WindowStep
      BY <2>2, WindowKeepsRInv
    <2>3. CASE UNCHANGED vars
      BY <2>3 DEF vars, main, window, RInv, Ordered, ReportsAreGiven, TearsAreGiven,
         CleanIsGiven, Calm, Given, GivenBy
    <2> QED
      BY <2>1, <2>2, <2>3 DEF Next
  <1> QED
    BY <1>1, <1>2, CHolds, PTL DEF Spec

\* ReportIsProof, for texts, locks and unlocks in any number: whichever of its three
\* ways a teardown took (nothing held back, a save it awaited, a lock asked again
\* meanwhile), the text it found is in the main process before its report is.
THEOREM ReportTheorem == Spec => []ReportIsProof
  <1>1. CInv /\ RInv => ReportIsProof
    BY ReportArrives DEF CInv, IInv, RInv
  <1> QED
    BY <1>1, RHolds, PTL
=============================================================================
