--------------------------- MODULE SmallPartsProofs --------------------------
(***************************************************************************)
(* Proofs about parts that stand alone: the watch dog, the usage time, the *)
(* statistics by date, the curves.  First that the notices of module       *)
(* WatchDog are earned, for every interval, number of failed checks and    *)
(* number of calls.                                                        *)
(***************************************************************************)
EXTENDS WatchDog, TimeUsage, DateStatistics, Curve, Sums, SequenceTheorems

Flags == started \in BOOLEAN /\ raced \in BOOLEAN

Counts ==
  /\ failCount \in Nat /\ loaded \in Nat
  /\ silence \in 0 .. CheckMaxDuration
  /\ callsLeft \in 0 .. MaxCalls
  /\ failed \in 0 .. CheckFailCount
  /\ starting \in {"done", "touch", "count"}
  /\ pc \in {"sleep", "check", "forget", "load", "store", "compare", "notify", "reset", "touch"}

DogTypeOK == Flags /\ Counts

\* What the count, or the copy of it that a round is about to write back, has
\* to do with the checks that failed.
CountEarned ==
  /\ pc \in {"sleep", "check"} => failCount <= failed /\ failCount < CheckFailCount
  /\ pc = "load" => failCount < failed /\ failCount < CheckFailCount
  /\ pc = "store" => loaded < failed
  /\ pc = "compare" => failCount <= failed
  /\ pc = "notify" => failed >= CheckFailCount
  /\ pc = "touch" => failCount = 0

IInv == Counts /\ (raced \/ CountEarned)

-----------------------------------------------------------------------------
(* The fields of the dog and the steps of its routine have their types.     *)
THEOREM DogTyped == DogSpec => []DogTypeOK
<1>1. DogInit => Flags
  BY DEF DogInit, Flags
<1>2. DogInit => Counts
  BY WatchDogAssumption DEF DogInit, Counts
<1>3. Flags /\ [DogNext]_dogVars => Flags'
  BY DEF Flags, dogVars, DogNext, MainRoutine, Touch, Start, StartTouch, StartCount, Stop, Elapse,
         Wake, Check, Forget, LoadCount, StoreCount, Compare, NotifyTimeout, ResetCount, ResetTouch
<1>4. Counts /\ [DogNext]_dogVars => Counts'
  <2> SUFFICES ASSUME Counts, [DogNext]_dogVars PROVE Counts'
    OBVIOUS
  <2> USE WatchDogAssumption DEF Counts
  <2>1. CASE Touch \/ Start \/ StartTouch \/ StartCount \/ Stop \/ Elapse
    BY <2>1 DEF Touch, Start, StartTouch, StartCount, Stop, Elapse, Call
  <2>2. CASE Wake \/ Check \/ Forget \/ LoadCount \/ StoreCount
    BY <2>2 DEF Wake, Check, Forget, LoadCount, StoreCount
  <2>3. CASE Compare \/ NotifyTimeout \/ ResetCount \/ ResetTouch
    BY <2>3 DEF Compare, NotifyTimeout, ResetCount, ResetTouch
  <2>4. CASE UNCHANGED dogVars
    BY <2>4 DEF dogVars
  <2> QED
    BY <2>1, <2>2, <2>3, <2>4 DEF DogNext, MainRoutine
<1> QED
  BY <1>1, <1>2, <1>3, <1>4, PTL DEF DogSpec, DogTypeOK

(* Callers come in between any two steps of a round: Touch and Stop leave   *)
(* the count alone, and Start sets it to zero, which a round that has read  *)
(* it before may undo.                                                      *)
LEMMA CallersKeep ==
  ASSUME IInv, Touch \/ Start \/ StartTouch \/ StartCount \/ Stop \/ Elapse
  PROVE  (raced \/ CountEarned)'
<1> USE WatchDogAssumption DEF IInv, Counts, CountEarned
<1>1. CASE StartCount /\ pc = "sleep"
  BY <1>1 DEF StartCount
<1>2. CASE StartCount /\ pc # "sleep"
  BY <1>2 DEF StartCount
<1>3. CASE Touch \/ Start \/ StartTouch \/ Stop \/ Elapse
  BY <1>3 DEF Touch, Start, StartTouch, Stop, Elapse, Call
<1> QED
  BY <1>1, <1>2, <1>3

(* A round counts only a check that failed, and ends with a count that is   *)
(* too small for a notice, or that a notice has set to zero.                *)
LEMMA RoundKeeps ==
  ASSUME IInv, MainRoutine
  PROVE  (raced \/ CountEarned)'
<1> USE WatchDogAssumption DEF IInv, Counts, CountEarned
<1>1. CASE Wake
  BY <1>1 DEF Wake
<1>2. CASE Check
  BY <1>2 DEF Check
<1>3. CASE Forget
  BY <1>3 DEF Forget
<1>4. CASE LoadCount
  BY <1>4 DEF LoadCount
<1>5. CASE StoreCount
  BY <1>5 DEF StoreCount
<1>6. CASE Compare
  BY <1>6 DEF Compare
<1>7. CASE NotifyTimeout
  BY <1>7 DEF NotifyTimeout
<1>8. CASE ResetCount
  BY <1>8 DEF ResetCount
<1>9. CASE ResetTouch
  BY <1>9 DEF ResetTouch
<1> QED
  BY <1>1, <1>2, <1>3, <1>4, <1>5, <1>6, <1>7, <1>8, <1>9 DEF MainRoutine

(* Notice is given only after as many failed checks in a row as the dog was *)
(* configured for, though mainRoutine counts them without the lock, unless  *)
(* Start came in the middle of a round.                                     *)
THEOREM NoticesEarned == DogSpec => []NoticeEarned
<1>1. DogInit => (raced \/ CountEarned)
  BY WatchDogAssumption DEF DogInit, CountEarned
<1>2. IInv /\ [DogNext]_dogVars => (raced \/ CountEarned)'
  <2> SUFFICES ASSUME IInv, [DogNext]_dogVars PROVE (raced \/ CountEarned)'
    OBVIOUS
  <2>1. CASE Touch \/ Start \/ StartTouch \/ StartCount \/ Stop \/ Elapse
    BY <2>1, CallersKeep
  <2>2. CASE MainRoutine
    BY <2>2, RoundKeeps
  <2>3. CASE UNCHANGED dogVars
    BY <2>3 DEF IInv, CountEarned, dogVars
  <2> QED
    BY <2>1, <2>2, <2>3 DEF DogNext
<1>3. (raced \/ CountEarned) => NoticeEarned
  BY DEF CountEarned, NoticeEarned
<1> QED
  BY <1>1, <1>2, <1>3, DogTyped, PTL DEF DogSpec, DogTypeOK, IInv

-----------------------------------------------------------------------------
(***************************************************************************)
(* Proof that TimeUsage counts exactly, for any events and spans and       *)
(* whatever was cleaned away.  What is kept of the events is enough: the   *)
(* first one that is kept was before the end of the spans cleaned (Rest).  *)
(* The loop of DoStatistics has counted, after each event, how long each   *)
(* status lasted up to the last event it counted (Exact).                  *)
(***************************************************************************)
LogEvent == [status : Statuses, at : Nat]

InTime(s) == \A i, j \in 1 .. Len(s) : i <= j => s[i].at <= s[j].at

\* All but the first k events are kept.
Rest(k) ==
  /\ Len(ds) = Len(log) - k
  /\ \A i \in 1 .. Len(ds) : ds[i] = log[k + i]
  /\ k > 0 => Len(ds) > 0 /\ ds[1].at <= floor

UsageInv ==
  /\ clock \in Nat /\ floor \in Nat
  /\ log \in Seq(LogEvent) /\ ds \in Seq(LogEvent)
  /\ InTime(log)
  /\ \A i \in 1 .. Len(log) : log[i].at <= clock
  /\ \E k \in 0 .. Len(log) : Rest(k)

-----------------------------------------------------------------------------
\* How long status s lasted from b to a.
Lasted(s, b, a) == Cardinality({t \in b .. (a - 1) : StatusAt(t) = s})

\* g goes through the first n events.
Loop(b, e, g, n) ==
  g = [i \in 0 .. n |->
         IF i = 0 THEN [last |-> b, lastIdx |-> 1, status |-> NoStatus,
                        durations |-> [s \in AnyStatus |-> 0]]
         ELSE Event(g[i - 1], ds[i], i, e)]

LEMMA LoopExists ==
  ASSUME NEW b, NEW e, NEW n \in Nat
  PROVE  \E g : Loop(b, e, g, n)
<1> DEFINE G == {i \in 0 .. n : \E g : Loop(b, e, g, i)}
           first == [last |-> b, lastIdx |-> 1, status |-> NoStatus,
                     durations |-> [s \in AnyStatus |-> 0]]
<1>1. 0 \in G
  <2>1. Loop(b, e, [i \in 0 .. 0 |-> first], 0)
    BY DEF Loop
  <2> HIDE DEF first
  <2>2. \E g : Loop(b, e, g, 0)
    BY <2>1
  <2> QED
    BY <2>2
<1>2. ASSUME NEW i \in 0 .. n, i < n, i \in G
      PROVE  i + 1 \in G
  <2>1. PICK g : Loop(b, e, g, i)
    BY <1>2
  <2> DEFINE h == [j \in 0 .. (i + 1) |->
                     IF j = i + 1 THEN Event(g[i], ds[i + 1], i + 1, e) ELSE g[j]]
  <2>2. ASSUME NEW j \in 0 .. (i + 1)
        PROVE  h[j] = IF j = 0 THEN first ELSE Event(h[j - 1], ds[j], j, e)
    <3>1. CASE j = i + 1
      <4>1. h[j - 1] = g[i] /\ h[j] = Event(g[i], ds[j], j, e) /\ j # 0
        BY <3>1
      <4> HIDE DEF h, first
      <4> QED
        BY <4>1
    <3>2. CASE j \in 0 .. i
      <4>1. h[j] = g[j] /\ (j # 0 => h[j - 1] = g[j - 1])
        BY <3>2
      <4>2. g[j] = IF j = 0 THEN first ELSE Event(g[j - 1], ds[j], j, e)
        BY <2>1, <3>2 DEF Loop
      <4> HIDE DEF h, first
      <4> QED
        BY <4>1, <4>2
    <3> QED
      BY <3>1, <3>2
  <2>3. h = [j \in 0 .. (i + 1) |-> h[j]]
    OBVIOUS
  <2>4. Loop(b, e, h, i + 1)
    <3> HIDE DEF h
    <3> QED
      BY <2>2, <2>3 DEF Loop
  <2>5. \E k : Loop(b, e, k, i + 1)
    <3> HIDE DEF h
    <3> QED
      BY <2>4
  <2>6. i + 1 \in 0 .. n
    BY <1>2
  <2> QED
    BY <2>5, <2>6
<1>3. G = 0 .. n
  <2>1. G \in SUBSET (0 .. n)
    OBVIOUS
  <2> HIDE DEF G
  <2> QED
    BY <1>1, <1>2, <2>1, IndexInduction
<1> QED
  BY <1>3

(* What Counted stands for.                                                 *)
LEMMA CountedMeans ==
  ASSUME NEW b, NEW e, Len(ds) \in Nat
  PROVE  \E g, last : /\ Loop(b, e, g, Len(ds)) /\ last = g[Len(ds)]
                      /\ Counted(b, e) =
                           [lastIdx |-> last.lastIdx,
                            durations |-> [last.durations EXCEPT ![last.status] =
                                             @ + (e - last.last)]]
<1>1. PICK g : g = CHOOSE h : Loop(b, e, h, Len(ds))
  OBVIOUS
<1>2. Loop(b, e, g, Len(ds))
  BY <1>1, LoopExists
<1>3. Counted(b, e) = [lastIdx |-> g[Len(ds)].lastIdx,
                       durations |-> [g[Len(ds)].durations EXCEPT ![g[Len(ds)].status] =
                                        @ + (e - g[Len(ds)].last)]]
  BY <1>1 DEF Counted, Loop
<1> QED
  BY <1>2, <1>3

-----------------------------------------------------------------------------
Acc == [last : Int, lastIdx : Nat, status : AnyStatus, durations : [AnyStatus -> Int]]

\* What Event does, in fields.
Follows(acc, f, i, e, new) ==
  /\ new \in Acc
  /\ f.at < acc.last =>
       /\ new.last = acc.last /\ new.lastIdx = acc.lastIdx
       /\ new.status = f.status /\ new.durations = acc.durations
  /\ f.at >= acc.last /\ e <= f.at => new = acc
  /\ f.at >= acc.last /\ f.at < e =>
       /\ new.last = f.at /\ new.lastIdx = i /\ new.status = f.status
       /\ \A s \in AnyStatus :
            new.durations[s] = acc.durations[s]
                                 + (IF s = acc.status THEN f.at - acc.last ELSE 0)

LEMMA EventFields ==
  ASSUME NEW acc \in Acc, NEW f \in LogEvent, NEW i \in Nat, NEW e \in Int
  PROVE  Follows(acc, f, i, e, Event(acc, f, i, e))
<1> SUFFICES ASSUME NEW new, new = Event(acc, f, i, e)
             PROVE  Follows(acc, f, i, e, new)
  OBVIOUS
<1> USE DEF Follows
<1>1. f.status \in AnyStatus /\ f.at \in Int /\ acc.last \in Int
  BY DEF LogEvent, AnyStatus, Acc
<1>2. CASE f.at < acc.last
  BY <1>1, <1>2 DEF Event, Acc
<1>3. CASE f.at >= acc.last /\ e <= f.at
  BY <1>1, <1>3 DEF Event
<1>4. CASE f.at >= acc.last /\ f.at < e
  <2>1. PICK d : d = [acc.durations EXCEPT ![acc.status] = @ + (f.at - acc.last)]
    OBVIOUS
  <2>2. d \in [AnyStatus -> Int]
    BY <1>1, <2>1 DEF Acc
  <2>3. \A s \in AnyStatus :
           d[s] = acc.durations[s] + (IF s = acc.status THEN f.at - acc.last ELSE 0)
    BY <1>1, <2>1 DEF Acc
  <2>4. new = [last |-> f.at, lastIdx |-> i, status |-> f.status, durations |-> d]
    BY <1>1, <1>4, <2>1 DEF Event
  <2> QED
    BY <1>1, <1>4, <2>2, <2>3, <2>4 DEF Acc
<1> QED
  BY <1>1, <1>2, <1>3, <1>4

\* The event that a cleaning keeps first.
Bounded(acc, i, e) ==
  acc \in Acc /\ (acc.lastIdx = 1 \/ (acc.lastIdx \in 1 .. i /\ ds[acc.lastIdx].at < e))

LEMMA LoopBounded ==
  ASSUME UsageInv, NEW b \in Int, NEW e \in Int, NEW g, Loop(b, e, g, Len(ds)),
         NEW k \in 0 .. Len(ds)
  PROVE  Bounded(g[k], k, e)
<1> DEFINE G == {i \in 0 .. Len(ds) : Bounded(g[i], i, e)}
<1>1. Len(ds) \in Nat /\ \A i \in 1 .. Len(ds) : ds[i] \in LogEvent
  BY DEF UsageInv
<1>2. 0 \in G
  <2>1. g[0] = [last |-> b, lastIdx |-> 1, status |-> NoStatus,
                durations |-> [s \in AnyStatus |-> 0]]
    BY <1>1 DEF Loop
  <2>2. NoStatus \in AnyStatus
    BY DEF AnyStatus
  <2>3. g[0] \in Acc
    BY <2>1, <2>2 DEF Acc
  <2>4. g[0].lastIdx = 1
    BY <2>1
  <2> QED
    BY <1>1, <2>3, <2>4 DEF Bounded
<1>3. ASSUME NEW i \in 0 .. Len(ds), i < Len(ds), i \in G
      PROVE  i + 1 \in G
  <2>1. PICK j \in 1 .. Len(ds) : j = i + 1 /\ j # 0 /\ j - 1 = i
    BY <1>1, <1>3
  <2>2. PICK acc, new : acc = g[i] /\ new = g[j]
    OBVIOUS
  <2>3. new = Event(acc, ds[j], j, e)
    BY <1>1, <2>1, <2>2 DEF Loop
  <2>4. acc \in Acc /\ Bounded(acc, i, e)
    BY <1>3, <2>2 DEF Bounded
  <2>5. ds[j] \in LogEvent /\ ds[j].at \in Nat /\ acc.last \in Int
    BY <1>1, <2>4 DEF LogEvent, Acc
  <2>6. new \in Acc /\ (new.lastIdx = acc.lastIdx \/ (new.lastIdx = j /\ ds[j].at < e))
    <3>1. PICK f \in LogEvent : f = ds[j]
      BY <2>5
    <3>2. j \in Nat /\ new = Event(acc, f, j, e)
      BY <2>1, <2>3, <3>1
    <3>3. Follows(acc, f, j, e, new)
      BY <2>4, <3>2, EventFields
    <3> QED
      BY <2>5, <3>1, <3>3 DEF Follows
  <2>7. Bounded(new, j, e)
    BY <2>1, <2>4, <2>6 DEF Bounded
  <2> QED
    BY <1>1, <2>1, <2>2, <2>7
<1>4. G = 0 .. Len(ds)
  <2>1. G \in SUBSET (0 .. Len(ds))
    OBVIOUS
  <2> HIDE DEF G
  <2> QED
    BY <1>1, <1>2, <1>3, <2>1, IndexInduction
<1> QED
  BY <1>4

-----------------------------------------------------------------------------
(* The status in a stretch with m of the events kept behind and the others  *)
(* ahead.                                                                   *)
LEMMA StatusBetween ==
  ASSUME UsageInv, NEW k \in 0 .. Len(log), Rest(k),
         NEW m \in 0 .. Len(ds), m > 0 \/ k = 0,
         NEW t \in Int,
         \A j \in 1 .. m : ds[j].at <= t,
         \A j \in (m + 1) .. Len(ds) : ds[j].at > t
  PROVE  StatusAt(t) = IF m = 0 THEN NoStatus ELSE ds[m].status
<1>1. PICK n \in Nat, d \in Nat :
        n = Len(log) /\ d = Len(ds) /\ d = n - k /\ k <= n /\ m <= d
  <2>1. Len(log) \in Nat /\ Len(ds) \in Nat
    BY DEF UsageInv
  <2>2. Len(ds) = Len(log) - k
    BY DEF Rest
  <2> QED
    BY <2>1, <2>2
<1>2. DOMAIN log = 1 .. n /\ \A i \in 1 .. n : log[i] \in LogEvent /\ log[i].at \in Nat
  <2>1. log \in Seq(LogEvent)
    BY DEF UsageInv
  <2>2. DOMAIN log = 1 .. n /\ \A i \in 1 .. n : log[i] \in LogEvent
    BY <1>1, <2>1
  <2> QED
    BY <2>2 DEF LogEvent
<1>3. PICK before : before = {i \in 1 .. n : log[i].at <= t}
  OBVIOUS
<1>4. \A i \in 1 .. d : ds[i] = log[k + i]
  BY <1>1 DEF Rest
<1>5. \A i \in (k + m + 1) .. n : log[i].at > t
  <2> SUFFICES ASSUME NEW i \in (k + m + 1) .. n PROVE log[i].at > t
    OBVIOUS
  <2>1. PICK j \in (m + 1) .. d : j = i - k
    <3>1. k \in Nat /\ m \in Nat /\ i \in Int /\ k + m + 1 <= i /\ i <= n
      BY <1>1
    <3>2. i - k \in (m + 1) .. d
      BY <1>1, <3>1
    <3> QED
      BY <3>2
  <2>2. j \in 1 .. d /\ k + j = i
    BY <1>1, <2>1
  <2>3. ds[j] = log[i] /\ ds[j].at > t
    BY <1>1, <1>4, <2>1, <2>2
  <2> QED
    BY <2>3
<1>6. CASE m = 0
  <2>1. before = {}
    BY <1>1, <1>2, <1>3, <1>5, <1>6
  <2> QED
    BY <1>2, <1>3, <1>6, <2>1 DEF StatusAt
<1>7. CASE m > 0
  <2>1. PICK x \in 1 .. n : x = k + m /\ log[x] = ds[m] /\ ds[m].at <= t
    <3>1. k \in Nat /\ m \in 1 .. d /\ m \in 1 .. m /\ k + m \in 1 .. n
      BY <1>1, <1>7
    <3>2. log[k + m] = ds[m] /\ ds[m].at <= t
      BY <1>4, <3>1
    <3> QED
      BY <3>1, <3>2
  <2>2. x \in before /\ \A y \in before : x >= y
    BY <1>1, <1>2, <1>3, <1>5, <2>1
  <2>3. Max(before) = x
    <3>1. Max(before) \in before /\ \A y \in before : Max(before) >= y
      BY <2>2 DEF Max
    <3>2. Max(before) >= x /\ x >= Max(before) /\ Max(before) \in Nat
      BY <1>3, <2>2, <3>1
    <3> QED
      BY <3>2
  <2>4. StatusAt(t) = log[x].status
    BY <1>2, <1>3, <2>2, <2>3 DEF StatusAt
  <2> QED
    BY <1>7, <2>1, <2>4
<1> QED
  BY <1>6, <1>7

(* A stretch in which the status does not change adds its length to that    *)
(* status.                                                                  *)
LEMMA LastedOn ==
  ASSUME NEW b \in Int, NEW c \in Int, NEW a \in Int, b <= c, c <= a,
         NEW x, \A t \in c .. (a - 1) : StatusAt(t) = x, NEW s
  PROVE  Lasted(s, b, a) = Lasted(s, b, c) + (IF s = x THEN a - c ELSE 0)
<1>1. PICK old, new, all : /\ old = {t \in b .. (c - 1) : StatusAt(t) = s}
                           /\ new = {t \in c .. (a - 1) : StatusAt(t) = s}
                           /\ all = {t \in b .. (a - 1) : StatusAt(t) = s}
  OBVIOUS
<1>2. all = old \cup new /\ old \cap new = {}
  <2>1. \A t \in Int : /\ t \in b .. (a - 1) <=> t \in b .. (c - 1) \/ t \in c .. (a - 1)
                       /\ ~(t \in b .. (c - 1) /\ t \in c .. (a - 1))
    OBVIOUS
  <2>2. b .. (c - 1) \subseteq Int /\ c .. (a - 1) \subseteq Int /\ b .. (a - 1) \subseteq Int
    OBVIOUS
  <2> QED
    BY <1>1, <2>1, <2>2, Zenon
<1>3. IsFiniteSet(old) /\ IsFiniteSet(c .. (a - 1))
  <2>1. IsFiniteSet(b .. (c - 1)) /\ IsFiniteSet(c .. (a - 1))
    BY FS_Interval
  <2>2. old \in SUBSET (b .. (c - 1))
    BY <1>1
  <2> QED
    BY <2>1, <2>2, FS_Subset
<1>4. IsFiniteSet(new) /\ Cardinality(new) = IF s = x THEN a - c ELSE 0
  <2>1. CASE s = x
    <3>1. new = c .. (a - 1)
      BY <1>1, <2>1
    <3>2. c > a - 1 => a - c = 0
      OBVIOUS
    <3>3. Cardinality(c .. (a - 1)) = IF c > a - 1 THEN 0 ELSE (a - 1) - c + 1
      BY FS_Interval
    <3>4. Cardinality(c .. (a - 1)) = a - c
      BY <3>2, <3>3
    <3> QED
      BY <1>3, <2>1, <3>1, <3>4
  <2>2. CASE s # x
    <3>1. new = {}
      BY <1>1, <2>2
    <3> QED
      BY <2>2, <3>1, FS_EmptySet
  <2> QED
    BY <2>1, <2>2
<1>5. Cardinality(all) = Cardinality(old) + Cardinality(new)
  <2>1. Cardinality(old \cup new) =
          Cardinality(old) + Cardinality(new) - Cardinality(old \cap new)
    BY <1>3, <1>4, FS_Union
  <2>2. Cardinality(old \cap new) = 0
    BY <1>2, FS_EmptySet
  <2>3. Cardinality(old) \in Nat /\ Cardinality(new) \in Nat
    BY <1>3, <1>4, FS_CardinalityType
  <2> QED
    BY <1>2, <2>1, <2>2, <2>3
<1> QED
  BY <1>1, <1>4, <1>5 DEF Lasted

-----------------------------------------------------------------------------
(* The events that are kept are in the order of time.                       *)
LEMMA KeptInTime ==
  ASSUME UsageInv
  PROVE  InTime(ds) /\ Len(ds) \in Nat /\ \A j \in 1 .. Len(ds) : ds[j] \in LogEvent /\ ds[j].at \in Nat
<1>1. PICK k \in 0 .. Len(log) : Rest(k)
  BY DEF UsageInv
<1>2. Len(ds) \in Nat /\ Len(log) \in Nat /\ \A j \in 1 .. Len(ds) : ds[j] \in LogEvent
  BY DEF UsageInv
<1>3. InTime(ds)
  <2> SUFFICES ASSUME NEW i \in 1 .. Len(ds), NEW j \in 1 .. Len(ds), i <= j
               PROVE  ds[i].at <= ds[j].at
    BY DEF InTime
  <2>1. PICK x \in 1 .. Len(log), y \in 1 .. Len(log) : x = k + i /\ y = k + j /\ x <= y
    <3>1. k \in Nat /\ Len(ds) = Len(log) - k
      BY <1>1, <1>2 DEF Rest
    <3> QED
      BY <1>2, <3>1
  <2>2. ds[i] = log[x] /\ ds[j] = log[y]
    BY <1>1, <2>1 DEF Rest
  <2>3. log[x].at <= log[y].at
    BY <2>1 DEF UsageInv, InTime
  <2> QED
    BY <2>2, <2>3
<1> QED
  BY <1>2, <1>3 DEF LogEvent

\* Of the first i events kept, m are behind an instant, the others ahead of e.
Between(m, i, at, e) ==
  /\ \A j \in 1 .. m : ds[j].at <= at
  /\ \A j \in (m + 1) .. i : e <= ds[j].at

StatusOf(m) == IF m = 0 THEN NoStatus ELSE ds[m].status

(* From the last event behind to the next one ahead the status is the one   *)
(* of the event behind, and if all events kept are ahead, no time passed    *)
(* or no event was thrown away.                                             *)
LEMMA Stretch ==
  ASSUME UsageInv, NEW b \in Nat, floor <= b, NEW c \in Int, b <= c, NEW a \in Int, c <= a,
         NEW m \in 0 .. Len(ds), Between(m, Len(ds), c, a), NEW s
  PROVE  Lasted(s, b, a) = Lasted(s, b, c) + (IF s = StatusOf(m) THEN a - c ELSE 0)
<1>1. PICK k \in 0 .. Len(log) : Rest(k)
  BY DEF UsageInv
<1>2. /\ Len(ds) \in Nat /\ Len(log) \in Nat /\ floor \in Nat
      /\ \A j \in 1 .. Len(ds) : ds[j].at \in Nat
  BY KeptInTime DEF UsageInv
<1>3. \A t \in c .. (a - 1) : StatusAt(t) = StatusOf(m)
  <2> SUFFICES ASSUME NEW t \in c .. (a - 1) PROVE StatusAt(t) = StatusOf(m)
    OBVIOUS
  <2>1. t \in Int /\ c <= t /\ t < a
    OBVIOUS
  <2>2. m > 0 \/ k = 0
    <3> SUFFICES ASSUME m = 0, k > 0 PROVE FALSE
      BY <1>1, <1>2
    <3>1. Len(ds) > 0 /\ ds[1].at <= floor
      BY <1>1 DEF Rest
    <3>2. 1 \in (m + 1) .. Len(ds)
      BY <1>2, <3>1
    <3>3. a <= ds[1].at /\ ds[1].at \in Nat
      BY <1>2, <3>2 DEF Between
    <3> QED
      BY <1>2, <2>1, <3>1, <3>3
  <2>3. \A j \in 1 .. m : ds[j].at <= t
    BY <1>2, <2>1 DEF Between
  <2>4. \A j \in (m + 1) .. Len(ds) : ds[j].at > t
    BY <1>2, <2>1 DEF Between
  <2>5. StatusAt(t) = IF m = 0 THEN NoStatus ELSE ds[m].status
    BY <1>1, <2>1, <2>2, <2>3, <2>4, StatusBetween
  <2> QED
    BY <2>5 DEF StatusOf
<1>4. b \in Int
  OBVIOUS
<1> QED
  BY <1>3, <1>4, LastedOn

-----------------------------------------------------------------------------
\* After i events acc has counted as far as acc.last.
Exact(acc, i, b, e) ==
  /\ acc \in Acc /\ acc.last \in b .. e
  /\ \A s \in AnyStatus : acc.durations[s] = Lasted(s, b, acc.last)
  /\ \E m \in 0 .. i : Between(m, i, acc.last, e) /\ acc.status = StatusOf(m)

(* One more event is counted exactly.                                       *)
LEMMA EventExact ==
  ASSUME UsageInv, NEW b \in Nat, floor <= b, NEW e \in Nat, b <= e,
         NEW j \in 1 .. Len(ds), NEW acc, Exact(acc, j - 1, b, e)
  PROVE  Exact(Event(acc, ds[j], j, e), j, b, e)
<1>1. PICK new, f, i : new = Event(acc, f, j, e) /\ f = ds[j] /\ i = j - 1
  OBVIOUS
<1>2. InTime(ds) /\ Len(ds) \in Nat /\ \A x \in 1 .. Len(ds) : ds[x] \in LogEvent /\ ds[x].at \in Nat
  BY KeptInTime
<1>3. f \in LogEvent /\ f.at \in Nat /\ j \in Nat /\ e \in Int /\ i \in 0 .. Len(ds) /\ j = i + 1
  BY <1>1, <1>2
<1>4. acc \in Acc /\ acc.last \in b .. e /\ acc.last \in Int
  BY DEF Exact
<1>5. Follows(acc, f, j, e, new)
  BY <1>1, <1>3, <1>4, EventFields
<1>6. PICK m \in 0 .. i : Between(m, i, acc.last, e) /\ acc.status = StatusOf(m)
  BY <1>1 DEF Exact
<1>7. \A x \in 1 .. Len(ds) : (x <= j => ds[x].at <= f.at) /\ (j <= x => f.at <= ds[x].at)
  BY <1>1, <1>2 DEF InTime
<1>8. f.at < e => m = i
  <2> SUFFICES ASSUME f.at < e, m # i PROVE FALSE
    OBVIOUS
  <2>1. m + 1 \in (m + 1) .. i /\ m + 1 \in 1 .. Len(ds) /\ m + 1 <= j
    BY <1>3, <1>6
  <2>2. PICK x \in 1 .. Len(ds) : x = m + 1
    BY <2>1
  <2>3. e <= ds[x].at /\ ds[x].at <= f.at /\ ds[x].at \in Nat
    BY <1>2, <1>6, <1>7, <2>1, <2>2 DEF Between
  <2> QED
    BY <1>3, <2>3
<1>9. StatusOf(j) = f.status
  BY <1>1, <1>3 DEF StatusOf
<1>10. \A s \in AnyStatus : acc.durations[s] = Lasted(s, b, acc.last)
  BY DEF Exact
<1>11. CASE f.at < acc.last
  <2>1. f.at < e /\ m = i
    BY <1>3, <1>4, <1>8, <1>11
  <2>2. Between(j, j, acc.last, e)
    BY <1>3, <1>4, <1>6, <1>11, <1>1, <2>1 DEF Between
  <2>3. /\ new \in Acc /\ new.last = acc.last /\ new.status = f.status
        /\ new.durations = acc.durations
    BY <1>5, <1>11 DEF Follows
  <2>4. j \in 0 .. j /\ Between(j, j, new.last, e) /\ new.status = StatusOf(j)
    BY <1>3, <1>9, <2>2, <2>3
  <2>5. \E y \in 0 .. j : Between(y, j, new.last, e) /\ new.status = StatusOf(y)
    BY <2>4
  <2> QED
    BY <1>1, <1>4, <1>10, <2>3, <2>5 DEF Exact
<1>12. CASE f.at >= acc.last /\ e <= f.at
  <2>1. new = acc
    BY <1>5, <1>12 DEF Follows
  <2>2. Between(m, j, acc.last, e)
    BY <1>1, <1>3, <1>6, <1>12 DEF Between
  <2>3. m \in 0 .. j
    BY <1>3, <1>6
  <2>4. \E y \in 0 .. j : Between(y, j, new.last, e) /\ new.status = StatusOf(y)
    BY <1>6, <2>1, <2>2, <2>3
  <2> QED
    BY <1>1, <1>4, <1>10, <2>1, <2>4 DEF Exact
<1>13. CASE f.at >= acc.last /\ f.at < e
  <2>1. m = i
    BY <1>8, <1>13
  <2>2. /\ new \in Acc /\ new.last = f.at /\ new.status = f.status
        /\ \A s \in AnyStatus :
             new.durations[s] = acc.durations[s]
                                  + (IF s = acc.status THEN f.at - acc.last ELSE 0)
    BY <1>5, <1>13 DEF Follows
  <2>3. Between(i, Len(ds), acc.last, f.at)
    <3>1. \A x \in 1 .. i : ds[x].at <= acc.last
      BY <1>6, <2>1 DEF Between
    <3>2. \A x \in (i + 1) .. Len(ds) : f.at <= ds[x].at
      BY <1>3, <1>7
    <3> QED
      BY <3>1, <3>2 DEF Between
  <2>4. \A s \in AnyStatus : new.durations[s] = Lasted(s, b, new.last)
    <3> SUFFICES ASSUME NEW s \in AnyStatus
                 PROVE  new.durations[s] = Lasted(s, b, new.last)
      OBVIOUS
    <3>1. b <= acc.last /\ acc.last <= f.at /\ f.at \in Int
      BY <1>3, <1>4, <1>13
    <3>2. Lasted(s, b, f.at) =
            Lasted(s, b, acc.last) + (IF s = StatusOf(i) THEN f.at - acc.last ELSE 0)
      BY <1>3, <1>4, <2>3, <3>1, Stretch
    <3>3. acc.status = StatusOf(i)
      BY <1>6, <2>1
    <3> QED
      BY <1>10, <2>2, <3>2, <3>3
  <2>5. Between(j, j, f.at, e)
    <3>1. \A x \in 1 .. j : ds[x].at <= f.at
      BY <1>2, <1>3, <1>7
    <3>2. (j + 1) .. j = {}
      BY <1>3
    <3> QED
      BY <3>1, <3>2 DEF Between
  <2>6. j \in 0 .. j /\ Between(j, j, new.last, e) /\ new.status = StatusOf(j)
    BY <1>3, <1>9, <2>2, <2>5
  <2>7. \E y \in 0 .. j : Between(y, j, new.last, e) /\ new.status = StatusOf(y)
    BY <2>6
  <2>8. new.last \in b .. e
    BY <1>3, <1>4, <1>13, <2>2
  <2> QED
    BY <1>1, <2>2, <2>4, <2>7, <2>8 DEF Exact
<1> QED
  BY <1>3, <1>4, <1>11, <1>12, <1>13

(* So is every event of the loop.                                           *)
LEMMA LoopExact ==
  ASSUME UsageInv, NEW b \in Nat, floor <= b, NEW e \in Nat, b <= e,
         NEW g, Loop(b, e, g, Len(ds))
  PROVE  Exact(g[Len(ds)], Len(ds), b, e)
<1> DEFINE G == {i \in 0 .. Len(ds) : Exact(g[i], i, b, e)}
<1>1. Len(ds) \in Nat
  BY DEF UsageInv
<1>2. 0 \in G
  <2>1. g[0] = [last |-> b, lastIdx |-> 1, status |-> NoStatus,
                durations |-> [s \in AnyStatus |-> 0]]
    BY <1>1 DEF Loop
  <2>2. NoStatus \in AnyStatus
    BY DEF AnyStatus
  <2>3. g[0] \in Acc
    BY <2>1, <2>2 DEF Acc
  <2>4. PICK acc : acc = g[0]
    OBVIOUS
  <2>5. /\ acc \in Acc /\ acc.last = b /\ acc.status = NoStatus
        /\ \A s \in AnyStatus : acc.durations[s] = 0
    BY <2>1, <2>3, <2>4
  <2>6. \A s : Lasted(s, b, b) = 0
    <3> SUFFICES ASSUME NEW s PROVE Lasted(s, b, b) = 0
      OBVIOUS
    <3>1. {t \in b .. (b - 1) : StatusAt(t) = s} = {}
      OBVIOUS
    <3> QED
      BY <3>1, FS_EmptySet DEF Lasted
  <2>7. 0 \in 0 .. 0 /\ Between(0, 0, acc.last, e) /\ acc.status = StatusOf(0)
    BY <2>5 DEF Between, StatusOf
  <2>8. \E m \in 0 .. 0 : Between(m, 0, acc.last, e) /\ acc.status = StatusOf(m)
    BY <2>7
  <2>9. acc.last \in b .. e
    BY <2>5
  <2>10. Exact(acc, 0, b, e)
    BY <2>5, <2>6, <2>8, <2>9 DEF Exact
  <2> QED
    BY <1>1, <2>4, <2>10
<1>3. ASSUME NEW i \in 0 .. Len(ds), i < Len(ds), i \in G
      PROVE  i + 1 \in G
  <2>1. PICK j \in 1 .. Len(ds) : j = i + 1 /\ j # 0 /\ j - 1 = i
    BY <1>1, <1>3
  <2>2. PICK acc : acc = g[j - 1]
    OBVIOUS
  <2>3. g[j] = Event(acc, ds[j], j, e)
    BY <1>1, <2>1, <2>2 DEF Loop
  <2>4. Exact(acc, j - 1, b, e)
    BY <1>3, <2>1, <2>2
  <2>5. Exact(g[j], j, b, e)
    BY <2>3, <2>4, EventExact
  <2> QED
    BY <1>1, <2>1, <2>5
<1>4. G = 0 .. Len(ds)
  <2>1. G \in SUBSET (0 .. Len(ds))
    OBVIOUS
  <2> HIDE DEF G
  <2> QED
    BY <1>1, <1>2, <1>3, <2>1, IndexInduction
<1>5. Len(ds) \in 0 .. Len(ds)
  BY <1>1
<1> QED
  BY <1>4, <1>5

(* What is counted is exact whenever the events kept are the rest of all    *)
(* events.                                                                  *)
LEMMA InvExact ==
  ASSUME TimeUsageAssumption, UsageInv
  PROVE  UsageExact
<1> SUFFICES ASSUME NEW span \in Spans, floor <= span[1], NEW s \in AnyStatus
             PROVE  Counted(span[1], span[2]).durations[s] = Lasted(s, span[1], span[2])
  BY DEF UsageExact, Lasted
<1>1. PICK b \in Nat, e \in Nat : b = span[1] /\ e = span[2] /\ b <= e /\ floor <= b
  BY DEF Spans, TimeUsageAssumption
<1>2. Len(ds) \in Nat
  BY DEF UsageInv
<1>3. PICK g, acc : /\ Loop(b, e, g, Len(ds)) /\ acc = g[Len(ds)]
                    /\ Counted(b, e) =
                         [lastIdx |-> acc.lastIdx,
                          durations |-> [acc.durations EXCEPT ![acc.status] = @ + (e - acc.last)]]
  BY <1>2, CountedMeans
<1>4. Exact(acc, Len(ds), b, e)
  BY <1>1, <1>3, LoopExact
<1>5. acc \in Acc /\ acc.last \in b .. e /\ acc.durations[s] = Lasted(s, b, acc.last)
  BY <1>4 DEF Exact
<1>6. PICK m \in 0 .. Len(ds) : Between(m, Len(ds), acc.last, e) /\ acc.status = StatusOf(m)
  BY <1>4 DEF Exact
<1>7. b <= acc.last /\ acc.last <= e /\ acc.last \in Int /\ e \in Int
  BY <1>5
<1>8. Lasted(s, b, e) = Lasted(s, b, acc.last) + (IF s = StatusOf(m) THEN e - acc.last ELSE 0)
  BY <1>1, <1>6, <1>7, Stretch
<1>9. Counted(b, e).durations[s] = acc.durations[s] + (IF s = acc.status THEN e - acc.last ELSE 0)
  <2>1. PICK d : d = [acc.durations EXCEPT ![acc.status] = @ + (e - acc.last)]
    OBVIOUS
  <2>2. d[s] = acc.durations[s] + (IF s = acc.status THEN e - acc.last ELSE 0)
    BY <1>5, <2>1 DEF Acc
  <2>3. Counted(b, e).durations = d
    BY <1>3, <2>1
  <2> QED
    BY <2>2, <2>3
<1> QED
  BY <1>1, <1>5, <1>6, <1>8, <1>9

-----------------------------------------------------------------------------
(* An event is kept at the end, a cleaning throws some away at the start.   *)
LEMMA UsageInit_Inv ==
  ASSUME UsageInit
  PROVE  UsageInv
<1>1. <<>> \in Seq(LogEvent) /\ Len(<<>>) = 0
  OBVIOUS
<1>2. ds = <<>> /\ log = <<>> /\ clock = 0 /\ floor = 0
  BY DEF UsageInit
<1>3. InTime(log) /\ \A i \in 1 .. Len(log) : log[i].at <= clock
  BY <1>1, <1>2 DEF InTime
<1>4. 0 \in 0 .. Len(log) /\ Rest(0)
  BY <1>1, <1>2 DEF Rest
<1> QED
  BY <1>1, <1>2, <1>3, <1>4 DEF UsageInv

LEMMA UpdateKeeps ==
  ASSUME TimeUsageAssumption, UsageInv, NEW status \in Statuses, Update(status)
  PROVE  UsageInv'
<1>1. PICK f \in LogEvent : f.at = clock /\ ds' = Append(ds, f) /\ log' = Append(log, f)
  BY DEF Update, UsageInv, LogEvent
<1>2. clock' = clock /\ floor' = floor /\ clock \in Nat /\ floor \in Nat
  BY DEF Update, UsageInv
<1>3. ds \in Seq(LogEvent) /\ log \in Seq(LogEvent) /\ Len(ds) \in Nat /\ Len(log) \in Nat
  BY DEF UsageInv
<1>4. /\ ds' \in Seq(LogEvent) /\ log' \in Seq(LogEvent)
      /\ Len(ds') = Len(ds) + 1 /\ Len(log') = Len(log) + 1
      /\ \A i \in 1 .. Len(ds) : ds'[i] = ds[i]
      /\ \A i \in 1 .. Len(log) : log'[i] = log[i]
      /\ ds'[Len(ds) + 1] = f /\ log'[Len(log) + 1] = f
  BY <1>1, <1>3
<1>5. \A i \in 1 .. Len(log') : i \in 1 .. Len(log) \/ i = Len(log) + 1
  BY <1>3, <1>4
<1>6. \A i \in 1 .. Len(log) : log[i].at <= clock
  BY DEF UsageInv
<1>7. \A i \in 1 .. Len(log') : log'[i].at <= clock
  BY <1>1, <1>2, <1>4, <1>5, <1>6
<1>8. InTime(log')
  <2> SUFFICES ASSUME NEW i \in 1 .. Len(log'), NEW j \in 1 .. Len(log'), i <= j
               PROVE  log'[i].at <= log'[j].at
    BY DEF InTime
  <2>1. CASE j \in 1 .. Len(log)
    <3>1. i \in 1 .. Len(log)
      BY <2>1
    <3> QED
      BY <1>4, <2>1, <3>1 DEF UsageInv, InTime
  <2>2. CASE j = Len(log) + 1
    BY <1>1, <1>4, <1>7, <2>2
  <2> QED
    BY <1>5, <2>1, <2>2
<1>9. \E k \in 0 .. Len(log') : Rest(k)'
  <2>1. PICK k \in 0 .. Len(log) : Rest(k)
    BY DEF UsageInv
  <2>2. k \in Nat /\ k \in 0 .. Len(log') /\ Len(ds) = Len(log) - k
    BY <1>3, <1>4, <2>1 DEF Rest
  <2>3. ASSUME NEW i \in 1 .. Len(ds') PROVE ds'[i] = log'[k + i]
    <3>1. CASE i \in 1 .. Len(ds)
      <4>1. PICK x \in 1 .. Len(log) : x = k + i
        BY <1>3, <2>2, <3>1
      <4>2. ds[i] = log[x]
        BY <2>1, <3>1, <4>1 DEF Rest
      <4> QED
        BY <1>4, <3>1, <4>1, <4>2
    <3>2. CASE i = Len(ds) + 1
      <4>1. k + i = Len(log) + 1
        BY <1>3, <2>2, <3>2
      <4> QED
        BY <1>4, <3>2, <4>1
    <3> QED
      BY <1>3, <1>4, <3>1, <3>2
  <2>4. k > 0 => Len(ds') > 0 /\ ds'[1].at <= floor'
    <3> SUFFICES ASSUME k > 0 PROVE Len(ds') > 0 /\ ds'[1].at <= floor'
      OBVIOUS
    <3>1. Len(ds) > 0 /\ ds[1].at <= floor
      BY <2>1 DEF Rest
    <3>2. 1 \in 1 .. Len(ds)
      BY <1>3, <3>1
    <3> QED
      BY <1>2, <1>3, <1>4, <3>1, <3>2
  <2>5. Len(ds') = Len(log') - k
    BY <1>3, <1>4, <2>2
  <2>6. Rest(k)'
    BY <2>3, <2>4, <2>5 DEF Rest
  <2> QED
    BY <2>2, <2>6
<1> QED
  BY <1>2, <1>4, <1>7, <1>8, <1>9 DEF UsageInv

LEMMA CleanKeeps ==
  ASSUME TimeUsageAssumption, UsageInv, NEW b \in Nat, NEW e \in Nat,
         DoStatisticsAndClean(b, e)
  PROVE  UsageInv'
<1>1. /\ ds' = Cleaned(b, e) /\ clock' = clock /\ log' = log
      /\ floor' \in Nat /\ floor' >= floor /\ floor' >= e
      /\ clock \in Nat /\ floor \in Nat
  BY DEF DoStatisticsAndClean, UsageInv
<1>2. ds \in Seq(LogEvent) /\ log \in Seq(LogEvent) /\ Len(ds) \in Nat /\ Len(log) \in Nat
  BY DEF UsageInv
<1>3. InTime(log') /\ \A i \in 1 .. Len(log') : log'[i].at <= clock'
  BY <1>1 DEF UsageInv
<1>4. PICK k \in 0 .. Len(log) : Rest(k)
  BY DEF UsageInv
<1>5. k \in Nat /\ Len(ds) = Len(log) - k
  BY <1>2, <1>4 DEF Rest
<1>6. \A j \in 1 .. Len(ds) : ds[j] \in LogEvent /\ ds[j].at \in Nat
  BY KeptInTime
<1>7. CASE ds = <<>>
  <2>1. ds' = ds
    BY <1>1, <1>7 DEF Cleaned
  <2>2. Len(ds) = 0
    BY <1>7
  <2>3. k = 0
    BY <1>4, <1>5, <2>2 DEF Rest
  <2>4. Rest(k)'
    BY <1>1, <1>2, <1>4, <2>1, <2>3 DEF Rest
  <2>5. k \in 0 .. Len(log') /\ ds' \in Seq(LogEvent) /\ log' \in Seq(LogEvent)
    BY <1>1, <1>2, <2>1
  <2> QED
    BY <1>1, <1>3, <2>4, <2>5 DEF UsageInv
<1>8. CASE ds # <<>>
  <2>1. Len(ds) > 0
    BY <1>2, <1>8
  <2>2. PICK g, acc : /\ Loop(b, e, g, Len(ds)) /\ acc = g[Len(ds)]
                      /\ Counted(b, e) =
                           [lastIdx |-> acc.lastIdx,
                            durations |-> [acc.durations EXCEPT ![acc.status] =
                                             @ + (e - acc.last)]]
    BY <1>2, CountedMeans
  <2>3. Bounded(acc, Len(ds), e)
    <3>1. b \in Int /\ e \in Int /\ Len(ds) \in 0 .. Len(ds)
      BY <1>2
    <3> QED
      BY <2>2, <3>1, LoopBounded
  <2>4. PICK x : x = Counted(b, e).lastIdx
    OBVIOUS
  <2>5. x \in 1 .. Len(ds) /\ (x = 1 \/ ds[x].at < e)
    <3>1. x = acc.lastIdx
      BY <2>2, <2>4
    <3> QED
      BY <1>2, <2>1, <2>3, <3>1 DEF Bounded
  <2>6. ds' = SubSeq(ds, x, Len(ds))
    BY <1>1, <1>8, <2>4 DEF Cleaned
  <2>7. /\ ds' \in Seq(LogEvent) /\ Len(ds') = Len(ds) - x + 1
        /\ \A i \in 1 .. Len(ds') : ds'[i] = ds[x + i - 1]
    BY <1>2, <2>5, <2>6
  <2>8. PICK y \in 0 .. Len(log') : y = k + x - 1 /\ y \in Nat
    BY <1>1, <1>2, <1>5, <2>5
  <2>9. Len(ds') = Len(log') - y
    BY <1>1, <1>2, <1>5, <2>5, <2>7, <2>8
  <2>10. ASSUME NEW i \in 1 .. Len(ds') PROVE ds'[i] = log'[y + i]
    <3>1. PICK j \in 1 .. Len(ds) : j = x + i - 1
      <4>1. i \in Nat /\ 1 <= i /\ i <= Len(ds) - x + 1 /\ x \in Nat /\ 1 <= x
        BY <1>2, <2>5, <2>7
      <4>2. x + i - 1 \in 1 .. Len(ds)
        BY <1>2, <4>1
      <4> QED
        BY <4>2
    <3>2. k + j = y + i
      BY <1>5, <2>5, <2>8, <3>1
    <3>3. ds[j] = log[k + j]
      BY <1>4 DEF Rest
    <3> QED
      BY <1>1, <2>7, <3>1, <3>2, <3>3
  <2>11. y > 0 => Len(ds') > 0 /\ ds'[1].at <= floor'
    <3> SUFFICES ASSUME y > 0 PROVE Len(ds') > 0 /\ ds'[1].at <= floor'
      OBVIOUS
    <3>1. Len(ds') > 0 /\ 1 \in 1 .. Len(ds') /\ x + 1 - 1 = x
      BY <1>2, <2>5, <2>7
    <3>2. ds'[1] = ds[x] /\ ds[x].at \in Nat
      BY <1>6, <2>5, <2>7, <3>1
    <3>3. CASE x = 1
      <4>1. k > 0
        BY <1>5, <2>8, <3>3
      <4>2. ds[x].at <= floor
        BY <1>4, <3>3, <4>1 DEF Rest
      <4> QED
        BY <1>1, <3>1, <3>2, <4>2
    <3>4. CASE ds[x].at < e
      BY <1>1, <3>1, <3>2, <3>4
    <3> QED
      BY <2>5, <3>3, <3>4
  <2>12. Rest(y)'
    BY <2>9, <2>10, <2>11 DEF Rest
  <2>13. log' \in Seq(LogEvent)
    BY <1>1, <1>2
  <2> QED
    BY <1>1, <1>3, <2>7, <2>8, <2>12, <2>13 DEF UsageInv
<1> QED
  BY <1>7, <1>8

LEMMA UsageStep ==
  ASSUME TimeUsageAssumption, UsageInv, [UsageNext]_usageVars
  PROVE  UsageInv'
<1>1. ASSUME NEW s \in Statuses, Update(s) PROVE UsageInv'
  BY <1>1, UpdateKeeps
<1>2. ASSUME NEW span \in Spans, DoStatisticsAndClean(span[1], span[2]) PROVE UsageInv'
  <2>1. PICK b \in Nat, e \in Nat : b = span[1] /\ e = span[2]
    BY DEF Spans, TimeUsageAssumption
  <2> QED
    BY <1>2, <2>1, CleanKeeps
<1>3. CASE Pass \/ UNCHANGED usageVars
  <2>1. /\ ds' = ds /\ log' = log /\ floor' = floor
        /\ clock' \in Nat /\ clock' >= clock /\ clock \in Nat
    BY <1>3 DEF Pass, usageVars, UsageInv
  <2>2. \A i \in 1 .. Len(log) : log[i] \in LogEvent /\ log[i].at \in Nat /\ log[i].at <= clock
    <3>1. log \in Seq(LogEvent)
      BY DEF UsageInv
    <3>2. \A i \in 1 .. Len(log) : log[i] \in LogEvent
      BY <3>1
    <3>3. \A i \in 1 .. Len(log) : log[i].at <= clock
      BY DEF UsageInv
    <3> QED
      BY <3>2, <3>3 DEF LogEvent
  <2>3. \A i \in 1 .. Len(log') : log'[i].at <= clock'
    BY <2>1, <2>2
  <2>4. InTime(log') /\ \E k \in 0 .. Len(log') : Rest(k)'
    BY <2>1 DEF UsageInv, Rest, InTime
  <2> QED
    BY <2>1, <2>3, <2>4 DEF UsageInv
<1> QED
  BY <1>1, <1>2, <1>3 DEF UsageNext

(* For all events and spans, what DoStatistics counts for a span is how   *)
(* long each status lasted in it, although DoStatisticsAndClean threw away  *)
(* the events before.                                                       *)
THEOREM SpansExact == UsageSpec => []UsageExact
<1>1. UsageInit => UsageInv
  BY UsageInit_Inv
<1>2. UsageInv /\ [UsageNext]_usageVars => UsageInv'
  BY TimeUsageAssumption, UsageStep
<1>3. UsageInv => UsageExact
  BY TimeUsageAssumption, InvExact
<1> QED
  BY <1>1, <1>2, <1>3, PTL DEF UsageSpec

-----------------------------------------------------------------------------
(***************************************************************************)
(* Proof that the totals of DateStatistics add up, for any months, length  *)
(* of month, first weekday and long day.  First the calendar: two days are *)
(* in one week of GetKeysForAt if no Sunday is left behind on the way from *)
(* one to the other, and that is when they are in one week of a calendar   *)
(* (WellKeyed).  Then the data: a change adds the same to its day and to   *)
(* each total the day is part of (More), and so to each sum.               *)
(***************************************************************************)
\* A month begins with some day of the week, at most one date is long.
Calendar ==
  /\ firstDay \in 0 .. 6
  /\ longDay = {} \/ \E date \in Dates : longDay = {date}

\* Where the walk meets a day first.
Met(m, d) == IF \E x \in longDay : x[1] = m /\ x[2] < d THEN d + 1 ELSE d

\* The walk w of n steps meets the days in their order, d first at met[d].
InOrder(w, n, met) ==
  /\ n \in Nat /\ w \in [1 .. n -> 1 .. MonthDays]
  /\ met \in [1 .. MonthDays -> 1 .. n]
  /\ \A d \in 1 .. MonthDays : w[met[d]] = d /\ \A j \in 1 .. n : j < met[d] => w[j] < d
  /\ \A d \in 1 .. MonthDays : \A j \in 1 .. n : met[d] <= j => d <= w[j]
  /\ \A c, d \in 1 .. MonthDays : c < d => met[c] < met[d]

(* The walk through a month does, with a long day in it and without.        *)
LEMMA WalkInOrder ==
  ASSUME DateStatisticsAssumption, Calendar, NEW m \in Months
  PROVE  \E n : InOrder(Walk(m), n, [d \in 1 .. MonthDays |-> Met(m, d)])
<1>1. PICK long : long = {date[2] : date \in {x \in longDay : x[1] = m}}
  OBVIOUS
<1>2. PICK n : n = MonthDays + Cardinality(long)
  OBVIOUS
<1>3. PICK w : w = [i \in 1 .. n |-> IF \E d \in long : i > d THEN i - 1 ELSE i]
  OBVIOUS
<1>4. w = Walk(m)
  BY <1>1, <1>2, <1>3 DEF Walk
<1>5. PICK met : met = [d \in 1 .. MonthDays |-> Met(m, d)]
  OBVIOUS
<1>6. \A d : (\E x \in longDay : x[1] = m /\ x[2] < d) <=> (\E x \in long : x < d)
  BY <1>1
<1>7. met = [d \in 1 .. MonthDays |-> IF \E x \in long : x < d THEN d + 1 ELSE d]
  BY <1>5, <1>6 DEF Met
<1>8. MonthDays \in 1 .. 31
  BY DEF DateStatisticsAssumption
<1>9. long = {} \/ \E d \in 1 .. MonthDays : long = {d}
  BY <1>1 DEF Calendar, Dates
<1>10. CASE long = {}
  <2>1. n = MonthDays
    BY <1>2, <1>8, <1>10, FS_EmptySet
  <2>2. w = [i \in 1 .. n |-> i]
    BY <1>3, <1>10
  <2>3. met = [d \in 1 .. MonthDays |-> d]
    BY <1>7, <1>10
  <2>4. InOrder(w, n, met)
    BY <1>8, <2>1, <2>2, <2>3 DEF InOrder
  <2> QED
    BY <1>4, <1>5, <2>4
<1>11. ASSUME NEW l \in 1 .. MonthDays, long = {l}
       PROVE  \E k : InOrder(Walk(m), k, [d \in 1 .. MonthDays |-> Met(m, d)])
  <2>1. n = MonthDays + 1
    BY <1>2, <1>8, <1>11, FS_Singleton
  <2>2. w = [i \in 1 .. n |-> IF i > l THEN i - 1 ELSE i]
    BY <1>3, <1>11
  <2>3. met = [d \in 1 .. MonthDays |-> IF l < d THEN d + 1 ELSE d]
    BY <1>7, <1>11
  <2>4. InOrder(w, n, met)
    BY <1>8, <2>1, <2>2, <2>3 DEF InOrder
  <2> QED
    BY <1>4, <1>5, <2>4
<1> QED
  BY <1>9, <1>10, <1>11

(* GetKeysForAt answers the week and the weekday of where it is met first.  *)
LEMMA KeysMeet ==
  ASSUME DateStatisticsAssumption, Calendar, NEW m \in Months, NEW d \in 1 .. MonthDays
  PROVE  /\ Met(m, d) \in DOMAIN Walk(m) /\ Walk(m)[Met(m, d)] = d
         /\ GetKeysForAt(m, d) = <<WeekAt(m, Met(m, d)), Weekday(d)>>
<1>1. PICK n, w, met : /\ InOrder(w, n, met) /\ w = Walk(m)
                       /\ met = [x \in 1 .. MonthDays |-> Met(m, x)]
  BY WalkInOrder
<1>2. PICK i : i = Met(m, d) /\ i = met[d]
  BY <1>1
<1>3. n \in Nat /\ DOMAIN w = 1 .. n /\ i \in 1 .. n /\ w[i] = d
  BY <1>1, <1>2 DEF InOrder
<1>4. PICK I : I = {j \in 1 .. n : w[j] = d}
  OBVIOUS
<1>5. i \in I /\ \A j \in I : i <= j
  BY <1>1, <1>2, <1>3, <1>4 DEF InOrder
<1>6. Min(I) = i
  <2>1. Min(I) \in I /\ \A y \in I : Min(I) <= y
    BY <1>5 DEF Min
  <2>2. Min(I) <= i /\ i <= Min(I) /\ Min(I) \in Nat
    BY <1>4, <1>5, <2>1
  <2> QED
    BY <1>3, <2>2
<1>7. GetKeysForAt(m, d) = <<WeekAt(m, Min(I)), Weekday(d)>>
  BY <1>1, <1>3, <1>4 DEF GetKeysForAt
<1> QED
  BY <1>1, <1>2, <1>3, <1>6, <1>7

(* The number of the week goes up on the way from one day to another when   *)
(* a Sunday is left behind, and only then.                                  *)
LEMMA WeeksMeet ==
  ASSUME DateStatisticsAssumption, Calendar, NEW m \in Months,
         NEW c \in 1 .. MonthDays, NEW d \in 1 .. MonthDays, c < d
  PROVE  /\ WeekAt(m, Met(m, c)) \in Nat
         /\ WeekAt(m, Met(m, c)) <= WeekAt(m, Met(m, d))
         /\ WeekAt(m, Met(m, c)) = WeekAt(m, Met(m, d)) <=>
              \A x \in c .. (d - 1) : Weekday(x) # 0
<1>1. PICK n, w, met : /\ InOrder(w, n, met) /\ w = Walk(m)
                       /\ met = [x \in 1 .. MonthDays |-> Met(m, x)]
  BY WalkInOrder
<1>2. PICK i \in 1 .. n, j \in 1 .. n :
        i = Met(m, c) /\ i = met[c] /\ j = Met(m, d) /\ j = met[d] /\ i < j
  <2>1. met[c] \in 1 .. n /\ met[d] \in 1 .. n /\ met[c] < met[d]
    BY <1>1 DEF InOrder
  <2>2. met[c] = Met(m, c) /\ met[d] = Met(m, d)
    BY <1>1
  <2> QED
    BY <2>1, <2>2
<1>3. PICK A, B, C : /\ A = {x \in 1 .. i - 1 : Weekday(w[x]) = 0}
                     /\ B = {x \in 1 .. j - 1 : Weekday(w[x]) = 0}
                     /\ C = {x \in i .. (j - 1) : Weekday(w[x]) = 0}
  OBVIOUS
<1>4. n \in Nat /\ MonthDays \in Nat
  BY <1>1 DEF InOrder, DateStatisticsAssumption
<1>5. B = A \cup C /\ A \cap C = {}
  <2>1. \A x \in Int : /\ x \in 1 .. (j - 1) <=> x \in 1 .. (i - 1) \/ x \in i .. (j - 1)
                       /\ ~(x \in 1 .. (i - 1) /\ x \in i .. (j - 1))
    BY <1>2, <1>4
  <2>2. 1 .. (i - 1) \subseteq Int /\ i .. (j - 1) \subseteq Int /\ 1 .. (j - 1) \subseteq Int
    BY <1>4
  <2> QED
    BY <1>3, <2>1, <2>2, Zenon
<1>6. IsFiniteSet(A) /\ IsFiniteSet(C)
  <2>1. i - 1 \in Int /\ i \in Int /\ j - 1 \in Int
    BY <1>4
  <2>2. IsFiniteSet(1 .. (i - 1)) /\ IsFiniteSet(i .. (j - 1))
    BY <2>1, FS_Interval
  <2>3. A \in SUBSET (1 .. (i - 1)) /\ C \in SUBSET (i .. (j - 1))
    BY <1>3
  <2> QED
    BY <2>2, <2>3, FS_Subset
<1>7. /\ Cardinality(B) = Cardinality(A) + Cardinality(C)
      /\ Cardinality(A) \in Nat /\ Cardinality(C) \in Nat /\ (Cardinality(C) = 0 <=> C = {})
  <2>1. Cardinality(A \cup C) = Cardinality(A) + Cardinality(C) - Cardinality(A \cap C)
    BY <1>6, FS_Union
  <2>2. Cardinality(A \cap C) = 0
    BY <1>5, FS_EmptySet
  <2>3. Cardinality(A) \in Nat /\ Cardinality(C) \in Nat /\ (Cardinality(C) = 0 <=> C = {})
    BY <1>6, FS_CardinalityType, FS_EmptySet
  <2> QED
    BY <1>5, <2>1, <2>2, <2>3
<1>8. C = {} <=> \A x \in c .. (d - 1) : Weekday(x) # 0
  <2>1. ASSUME NEW x \in c .. (d - 1), Weekday(x) = 0
        PROVE  C # {}
    <3>1. x \in 1 .. MonthDays /\ c <= x /\ x < d
      BY <1>4
    <3>2. met[x] \in 1 .. n /\ i <= met[x] /\ met[x] < j /\ w[met[x]] = x
      <4>1. met[x] \in 1 .. n /\ met[x] < j /\ w[met[x]] = x
        BY <1>1, <1>2, <3>1 DEF InOrder
      <4>2. c < x => i < met[x]
        BY <1>1, <1>2, <3>1 DEF InOrder
      <4>3. c = x \/ c < x
        BY <3>1
      <4> QED
        BY <1>2, <1>4, <4>1, <4>2, <4>3
    <3>3. met[x] \in i .. (j - 1)
      BY <1>4, <3>2
    <3> QED
      BY <1>3, <2>1, <3>2, <3>3
  <2>2. ASSUME NEW y \in C
        PROVE  \E x \in c .. (d - 1) : Weekday(x) = 0
    <3>1. y \in 1 .. n /\ i <= y /\ y < j /\ Weekday(w[y]) = 0
      BY <1>3, <1>4
    <3>2. w[y] \in 1 .. MonthDays /\ c <= w[y] /\ w[y] < d
      BY <1>1, <1>2, <3>1 DEF InOrder
    <3>3. w[y] \in c .. (d - 1)
      BY <1>4, <3>2
    <3> QED
      BY <3>1, <3>3
  <2> QED
    BY <2>1, <2>2
<1>9. WeekAt(m, i) = 1 + Cardinality(A) /\ WeekAt(m, j) = 1 + Cardinality(B)
  BY <1>1, <1>3 DEF WeekAt
<1> QED
  BY <1>2, <1>7, <1>8, <1>9

(* So does the week of the calendar, in which no weekday comes twice.       *)
LEMMA SameWeekMeans ==
  ASSUME DateStatisticsAssumption, Calendar,
         NEW c \in 1 .. MonthDays, NEW d \in 1 .. MonthDays, c < d
  PROVE  /\ SameWeek(c, d) <=> \A x \in c .. (d - 1) : Weekday(x) # 0
         /\ SameWeek(d, c) <=> SameWeek(c, d)
         /\ SameWeek(c, d) => Weekday(c) # Weekday(d)
<1>1. firstDay \in 0 .. 6 /\ c \in 1 .. 31 /\ d \in 1 .. 31
  BY DEF DateStatisticsAssumption, Calendar
<1>2. PICK f \in 0 .. 6 : f = (firstDay + 6) % 7
  BY <1>1
<1>3. \A x \in Nat : Weekday(x) = 0 <=> (x + f) % 7 = 0
  BY <1>1, <1>2 DEF Weekday
<1>4. SameWeek(c, d) <=> (c - 1 + f) \div 7 = (d - 1 + f) \div 7
  BY <1>2 DEF SameWeek
<1>5. SameWeek(d, c) <=> SameWeek(c, d)
  BY DEF SameWeek
<1>6. ASSUME NEW x \in c .. (d - 1), SameWeek(c, d)
      PROVE  Weekday(x) # 0
  <2>1. (x + f) % 7 # 0
    BY <1>1, <1>4, <1>6
  <2> QED
    BY <1>1, <1>3, <2>1
<1>7. ASSUME ~ SameWeek(c, d)
      PROVE  \E x \in c .. (d - 1) : Weekday(x) = 0
  <2>1. PICK x : x = 7 * ((d - 1 + f) \div 7) - f
    OBVIOUS
  <2>2. x \in c .. (d - 1) /\ (x + f) % 7 = 0
    BY <1>1, <1>4, <1>7, <2>1
  <2>3. x \in Nat
    BY <1>1, <2>2
  <2> QED
    BY <1>3, <2>2, <2>3
<1>8. SameWeek(c, d) => Weekday(c) # Weekday(d)
  BY <1>1, <1>2, <1>4 DEF Weekday
<1> QED
  BY <1>5, <1>6, <1>7, <1>8

\* What GetKeysForAt has answered for each date.
Keyed == keys = [date \in Dates |-> GetKeysForAt(date[1], date[2])]

\* Dates have cells of their own, and share the week's with those of their week.
WellKeyed ==
  /\ \A x \in Dates : keys[x] \in Cells(x[1])
  /\ \A x, y \in Dates : x[1] = y[1] =>
       /\ keys[x][1] = keys[y][1] <=> SameWeek(y[2], x[2])
       /\ keys[x] = keys[y] => x = y

(* What follows from the two.                                               *)
LEMMA KeysOfDates ==
  ASSUME DateStatisticsAssumption, Calendar, Keyed
  PROVE  WellKeyed
<1>1. ASSUME NEW x \in Dates
      PROVE  /\ x = <<x[1], x[2]>> /\ x[1] \in Months /\ x[2] \in 1 .. MonthDays
             /\ keys[x] = <<WeekAt(x[1], Met(x[1], x[2])), Weekday(x[2])>>
             /\ keys[x][1] = WeekAt(x[1], Met(x[1], x[2])) /\ keys[x][2] = Weekday(x[2])
             /\ keys[x] \in Cells(x[1])
  <2>1. x = <<x[1], x[2]>> /\ x[1] \in Months /\ x[2] \in 1 .. MonthDays
    BY DEF Dates
  <2>2. PICK m \in Months, d \in 1 .. MonthDays : m = x[1] /\ d = x[2]
    BY <2>1
  <2>3. keys[x] = GetKeysForAt(m, d)
    BY <2>2 DEF Keyed
  <2>4. PICK i : i = Met(m, d)
    OBVIOUS
  <2>5. i \in DOMAIN Walk(m) /\ Walk(m)[i] = d /\ keys[x] = <<WeekAt(m, i), Weekday(d)>>
    BY <2>3, <2>4, KeysMeet
  <2>6. keys[x] \in Cells(m)
    BY <2>5 DEF Cells
  <2> QED
    BY <2>1, <2>2, <2>4, <2>5, <2>6
<1>2. MonthDays \in Nat
  BY DEF DateStatisticsAssumption
<1>3. ASSUME NEW m \in Months, NEW c \in 1 .. MonthDays, NEW d \in 1 .. MonthDays, c < d
      PROVE  /\ WeekAt(m, Met(m, c)) = WeekAt(m, Met(m, d)) <=> SameWeek(c, d)
             /\ SameWeek(d, c) <=> SameWeek(c, d)
             /\ SameWeek(c, d) => Weekday(c) # Weekday(d)
  <2>1. /\ SameWeek(c, d) <=> \A x \in c .. (d - 1) : Weekday(x) # 0
        /\ SameWeek(d, c) <=> SameWeek(c, d)
        /\ SameWeek(c, d) => Weekday(c) # Weekday(d)
    BY <1>3, SameWeekMeans
  <2>2. WeekAt(m, Met(m, c)) = WeekAt(m, Met(m, d)) <=>
              \A x \in c .. (d - 1) : Weekday(x) # 0
    BY <1>3, WeeksMeet
  <2> QED
    BY <2>1, <2>2
<1>4. ASSUME NEW x \in Dates, NEW y \in Dates, x[1] = y[1]
      PROVE  /\ keys[x][1] = keys[y][1] <=> SameWeek(y[2], x[2])
             /\ keys[x] = keys[y] => x = y
  <2>1. PICK m \in Months, c \in 1 .. MonthDays, d \in 1 .. MonthDays :
          m = x[1] /\ m = y[1] /\ c = x[2] /\ d = y[2]
    BY <1>1, <1>4
  <2>2. /\ keys[x][1] = WeekAt(m, Met(m, c)) /\ keys[y][1] = WeekAt(m, Met(m, d))
        /\ keys[x][2] = Weekday(c) /\ keys[y][2] = Weekday(d)
    BY <1>1, <2>1
  <2>3. CASE c = d
    <3>1. x = <<m, c>> /\ y = <<m, d>>
      BY <1>1, <2>1
    <3>2. SameWeek(d, c)
      BY <2>3 DEF SameWeek
    <3>3. x = y
      BY <2>3, <3>1
    <3> QED
      BY <2>1, <3>2, <3>3
  <2>4. CASE c < d
    <3>1. /\ WeekAt(m, Met(m, c)) = WeekAt(m, Met(m, d)) <=> SameWeek(c, d)
          /\ SameWeek(d, c) <=> SameWeek(c, d)
          /\ SameWeek(c, d) => Weekday(c) # Weekday(d)
      BY <1>3, <2>4
    <3> QED
      BY <2>1, <2>2, <3>1
  <2>5. CASE d < c
    <3>1. /\ WeekAt(m, Met(m, d)) = WeekAt(m, Met(m, c)) <=> SameWeek(d, c)
          /\ SameWeek(d, c) => Weekday(d) # Weekday(c)
      BY <1>3, <2>5
    <3> QED
      BY <2>1, <2>2, <3>1
  <2> QED
    BY <1>2, <2>3, <2>4, <2>5
<1> QED
  BY <1>1, <1>4 DEF WellKeyed

LEMMA DatesFinite ==
  ASSUME DateStatisticsAssumption
  PROVE  IsFiniteSet(Dates)
<1>1. 1 \in Int /\ 12 \in Int /\ MonthDays \in Int
  BY DEF DateStatisticsAssumption
<1>2. IsFiniteSet(1 .. MonthDays) /\ IsFiniteSet(1 .. 12)
  BY <1>1, FS_Interval
<1>3. IsFiniteSet(Months)
  BY <1>2, FS_Subset DEF DateStatisticsAssumption
<1> QED
  BY <1>2, <1>3, FS_Product DEF Dates

-----------------------------------------------------------------------------
\* The weeks of a month as NewMonthData counts them, and a year's data.
Weeks(m) == {c[1] : c \in Cells(m)}

Data(t) ==
  /\ t.day = [m \in Months |-> t.day[m]] /\ \A m \in Months : t.day[m] \in [Cells(m) -> Int]
  /\ t.week = [m \in Months |-> t.week[m]] /\ \A m \in Months : t.week[m] \in [Weeks(m) -> Int]
  /\ t.month \in [Months -> Int] /\ t.season \in [1 .. 4 -> Int] /\ t.year \in Int

\* u is t with r more at a date.
More(t, u, date, r) ==
  /\ \A x \in Dates : u.day[x[1]][keys[x]] = t.day[x[1]][keys[x]] + (IF x = date THEN r ELSE 0)
  /\ \A x \in Dates : u.week[x[1]][keys[x][1]] =
       t.week[x[1]][keys[x][1]] + (IF x[1] = date[1] /\ SameWeek(date[2], x[2]) THEN r ELSE 0)
  /\ \A m \in Months : /\ u.month[m] = t.month[m] + (IF m = date[1] THEN r ELSE 0)
                       /\ u.season[Season(m)] =
                            t.season[Season(m)] + (IF Season(m) = Season(date[1]) THEN r ELSE 0)
  /\ u.year = t.year + r

(* A change that does not replace is more, or less, at its date.            *)
LEMMA CombinedMeans ==
  ASSUME DateStatisticsAssumption, WellKeyed, NEW t, Data(t), NEW date \in Dates,
         NEW op \in {"add", "replace", "delete"}, NEW n \in Int, NEW u,
         u = Combined(t, date[1], keys[date], op, n)
  PROVE  Data(u) /\ (op # "replace" => \E r \in Int : More(t, u, date, r))
<1>1. PICK m, cell, w, s :
        /\ m = date[1] /\ cell = keys[date] /\ w = cell[1] /\ s = Season(m)
        /\ m \in Months /\ cell \in Cells(m) /\ w \in Weeks(m) /\ s \in 1 .. 4
  <2>1. date[1] \in Months /\ keys[date] \in Cells(date[1]) /\ keys[date][1] \in Weeks(date[1])
    BY DEF Dates, WellKeyed, Weeks
  <2>2. \A x \in 1 .. 12 : Season(x) \in 1 .. 4
    BY DEF Season
  <2>3. date[1] \in 1 .. 12
    BY <2>1 DEF DateStatisticsAssumption
  <2> QED
    BY <2>1, <2>2, <2>3
<1>2. PICK day, week, month, season, year :
        /\ day = [t.day EXCEPT ![m][cell] = Combine(@, op, n)]
        /\ week = [t.week EXCEPT ![m][w] = Combine(@, op, n)]
        /\ month = [t.month EXCEPT ![m] = Combine(@, op, n)]
        /\ season = [t.season EXCEPT ![s] = Combine(@, op, n)]
        /\ year = Combine(t.year, op, n)
  OBVIOUS
<1>3. u.day = day /\ u.week = week /\ u.month = month /\ u.season = season /\ u.year = year
  BY <1>1, <1>2 DEF Combined
<1>4. \A x \in Int : Combine(x, op, n) \in Int
  BY DEF Combine
<1>5. Data(u)
  <2>1. day = [x \in Months |-> day[x]] /\ \A x \in Months : day[x] \in [Cells(x) -> Int]
    BY <1>1, <1>2, <1>4 DEF Data
  <2>2. week = [x \in Months |-> week[x]] /\ \A x \in Months : week[x] \in [Weeks(x) -> Int]
    BY <1>1, <1>2, <1>4 DEF Data
  <2>3. month \in [Months -> Int] /\ season \in [1 .. 4 -> Int] /\ year \in Int
    BY <1>1, <1>2, <1>4 DEF Data
  <2> QED
    BY <1>3, <2>1, <2>2, <2>3 DEF Data
<1>6. ASSUME op # "replace"
      PROVE  \E r \in Int : More(t, u, date, r)
  <2>1. PICK r \in Int : \A x \in Int : Combine(x, op, n) = x + r
    <3>1. CASE op = "add"
      BY <3>1 DEF Combine
    <3>2. CASE op = "delete"
      <4>1. - n \in Int /\ \A x \in Int : Combine(x, op, n) = x + (- n)
        BY <3>2 DEF Combine
      <4> QED
        BY <4>1
    <3> QED
      BY <1>6, <3>1, <3>2
  <2>2. ASSUME NEW x \in Dates
        PROVE  /\ u.day[x[1]][keys[x]] = t.day[x[1]][keys[x]] + (IF x = date THEN r ELSE 0)
               /\ u.week[x[1]][keys[x][1]] = t.week[x[1]][keys[x][1]]
                    + (IF x[1] = date[1] /\ SameWeek(date[2], x[2]) THEN r ELSE 0)
    <3>1. PICK l, c, v : /\ l = x[1] /\ c = keys[x] /\ v = c[1]
                         /\ l \in Months /\ c \in Cells(l) /\ v \in Weeks(l)
      BY DEF Dates, WellKeyed, Weeks
    <3>2. t.day[l][c] \in Int /\ t.week[l][v] \in Int
      BY <3>1 DEF Data
    <3>3. day[l][c] = t.day[l][c] + (IF l = m /\ c = cell THEN r ELSE 0)
      <4>1. l = m => day[l] = [t.day[l] EXCEPT ![cell] = Combine(@, op, n)]
        BY <1>1, <1>2 DEF Data
      <4>2. l # m => day[l] = t.day[l]
        BY <1>1, <1>2, <3>1 DEF Data
      <4>3. t.day[l] \in [Cells(l) -> Int]
        BY <3>1 DEF Data
      <4> QED
        BY <2>1, <3>1, <3>2, <4>1, <4>2, <4>3
    <3>4. week[l][v] = t.week[l][v] + (IF l = m /\ v = w THEN r ELSE 0)
      <4>1. l = m => week[l] = [t.week[l] EXCEPT ![w] = Combine(@, op, n)]
        BY <1>1, <1>2 DEF Data
      <4>2. l # m => week[l] = t.week[l]
        BY <1>1, <1>2, <3>1 DEF Data
      <4>3. t.week[l] \in [Weeks(l) -> Int]
        BY <3>1 DEF Data
      <4> QED
        BY <2>1, <3>1, <3>2, <4>1, <4>2, <4>3
    <3>5. x = date <=> l = m /\ c = cell
      BY <1>1, <3>1 DEF WellKeyed
    <3>6. l = m /\ v = w <=> x[1] = date[1] /\ SameWeek(date[2], x[2])
      BY <1>1, <3>1 DEF WellKeyed
    <3> QED
      BY <1>3, <3>1, <3>3, <3>4, <3>5, <3>6
  <2>3. ASSUME NEW l \in Months
        PROVE  /\ u.month[l] = t.month[l] + (IF l = date[1] THEN r ELSE 0)
               /\ u.season[Season(l)] =
                    t.season[Season(l)] + (IF Season(l) = Season(date[1]) THEN r ELSE 0)
    <3>1. PICK p \in 1 .. 4 : p = Season(l)
      BY DEF Season, DateStatisticsAssumption
    <3>2. t.month[l] \in Int /\ t.season[p] \in Int
      BY DEF Data
    <3>3. month[l] = t.month[l] + (IF l = m THEN r ELSE 0)
      BY <1>1, <1>2, <2>1, <3>2 DEF Data
    <3>4. season[p] = t.season[p] + (IF p = s THEN r ELSE 0)
      BY <1>1, <1>2, <2>1, <3>2 DEF Data
    <3> QED
      BY <1>1, <1>3, <3>1, <3>3, <3>4
  <2>4. u.year = t.year + r
    BY <1>2, <1>3, <2>1 DEF Data
  <2>5. More(t, u, date, r)
    BY <2>2, <2>3, <2>4 DEF More
  <2> QED
    BY <2>5
<1> QED
  BY <1>5, <1>6

(* What is more at a date is more in the sums it is part of.                *)
LEMMA MoreInSums ==
  ASSUME DateStatisticsAssumption, WellKeyed, NEW t, Data(t), NEW u, Data(u),
         NEW date \in Dates, NEW r \in Int, More(t, u, date, r), NEW S \in SUBSET Dates
  PROVE  /\ SumOf(u, S) = SumOf(t, S) + (IF date \in S THEN r ELSE 0)
         /\ SumOf(t, S) \in Int
<1>1. PICK f, g : /\ f = [x \in Dates |-> t.day[x[1]][keys[x]]]
                  /\ g = [x \in Dates |-> u.day[x[1]][keys[x]]]
  OBVIOUS
<1>2. SumOf(t, S) = SumFunctionOnSet(f, S) /\ SumOf(u, S) = SumFunctionOnSet(g, S)
  BY <1>1 DEF SumOf
<1>3. IsFiniteSet(S)
  BY DatesFinite, FS_Subset
<1>4. \A x \in Dates : t.day[x[1]][keys[x]] \in Int
  <2> SUFFICES ASSUME NEW x \in Dates PROVE t.day[x[1]][keys[x]] \in Int
    OBVIOUS
  <2>1. x[1] \in Months /\ keys[x] \in Cells(x[1])
    BY DEF WellKeyed, Dates
  <2> QED
    BY <2>1 DEF Data
<1>5. \A x \in S : f[x] \in Int /\ g[x] = f[x] + (IF x = date THEN r ELSE 0)
  BY <1>1, <1>4 DEF More
<1>6. \A x \in S : f[x] \in Int /\ g[x] \in Int
  BY <1>5
<1>7. SumFunctionOnSet(f, S) \in Int
  BY <1>3, <1>6, SumInt
<1>8. CASE date \in S
  <2>1. \A x \in S \ {date} : f[x] = g[x]
    BY <1>5
  <2>2. SumFunctionOnSet(g, S) = SumFunctionOnSet(f, S) - f[date] + g[date]
    BY <1>3, <1>6, <1>8, <2>1, SumUpdate
  <2>3. f[date] \in Int /\ g[date] = f[date] + r
    BY <1>5, <1>8
  <2> QED
    BY <1>2, <1>7, <1>8, <2>2, <2>3
<1>9. CASE date \notin S
  <2>1. \A x \in S : f[x] = g[x]
    BY <1>5, <1>9
  <2>2. SumFunctionOnSet(f, S) = SumFunctionOnSet(g, S)
    BY <1>3, <2>1, SumSame
  <2> QED
    BY <1>2, <1>7, <1>9, <2>2
<1> QED
  BY <1>8, <1>9

(* And so the totals still add up.                                          *)
LEMMA MoreAddsUp ==
  ASSUME DateStatisticsAssumption, WellKeyed, NEW t, Data(t), NEW u, Data(u),
         NEW date \in Dates, NEW r \in Int, More(t, u, date, r), AddsUp(t)
  PROVE  AddsUp(u)
<1>1. \A S \in SUBSET Dates : /\ SumOf(u, S) = SumOf(t, S) + (IF date \in S THEN r ELSE 0)
                              /\ SumOf(t, S) \in Int
  BY MoreInSums
<1>2. ASSUME NEW x \in Dates
      PROVE  u.week[x[1]][keys[x][1]] =
               SumOf(u, {y \in Dates : y[1] = x[1] /\ SameWeek(y[2], x[2])})
  <2>1. PICK S \in SUBSET Dates : S = {y \in Dates : y[1] = x[1] /\ SameWeek(y[2], x[2])}
    OBVIOUS
  <2>2. t.week[x[1]][keys[x][1]] = SumOf(t, S)
    BY <2>1 DEF AddsUp
  <2>3. date \in S <=> x[1] = date[1] /\ SameWeek(date[2], x[2])
    BY <2>1
  <2>4. SumOf(u, S) = SumOf(t, S) + (IF date \in S THEN r ELSE 0)
    BY <1>1
  <2> QED
    BY <2>1, <2>2, <2>3, <2>4 DEF More
<1>3. ASSUME NEW m \in Months
      PROVE  /\ u.month[m] = SumOf(u, {y \in Dates : y[1] = m})
             /\ u.season[Season(m)] = SumOf(u, {y \in Dates : Season(y[1]) = Season(m)})
  <2>1. PICK S \in SUBSET Dates, T \in SUBSET Dates :
          S = {y \in Dates : y[1] = m} /\ T = {y \in Dates : Season(y[1]) = Season(m)}
    OBVIOUS
  <2>2. t.month[m] = SumOf(t, S) /\ t.season[Season(m)] = SumOf(t, T)
    BY <2>1 DEF AddsUp
  <2>3. (date \in S <=> m = date[1]) /\ (date \in T <=> Season(m) = Season(date[1]))
    BY <2>1
  <2>4. /\ SumOf(u, S) = SumOf(t, S) + (IF date \in S THEN r ELSE 0)
        /\ SumOf(u, T) = SumOf(t, T) + (IF date \in T THEN r ELSE 0)
    BY <1>1
  <2> QED
    BY <2>1, <2>2, <2>3, <2>4 DEF More
<1>4. u.year = SumOf(u, Dates)
  <2>1. PICK S \in SUBSET Dates : S = Dates
    OBVIOUS
  <2>2. SumOf(u, S) = SumOf(t, S) + r
    BY <1>1, <2>1
  <2> QED
    BY <2>1, <2>2 DEF More, AddsUp
<1> QED
  BY <1>2, <1>3, <1>4 DEF AddsUp

-----------------------------------------------------------------------------
\* What is held and what the file holds add up alike.
DatesInv ==
  /\ Calendar /\ Keyed
  /\ Data(totals) /\ Data(file)
  /\ ~replaced => AddsUp(totals) /\ AddsUp(file)

(* New data do.                                                             *)
LEMMA ZerosAddUp ==
  ASSUME DateStatisticsAssumption, WellKeyed
  PROVE  Data(NewYearData) /\ AddsUp(NewYearData)
<1>1. PICK t : t = NewYearData
  OBVIOUS
<1>2. /\ t.day = [m \in Months |-> [c \in Cells(m) |-> 0]]
      /\ t.week = [m \in Months |-> [w \in Weeks(m) |-> 0]]
      /\ t.month = [m \in Months |-> 0]
      /\ t.season = [s \in 1 .. 4 |-> 0]
      /\ t.year = 0
  BY <1>1 DEF NewYearData, Weeks
<1>3. Data(t)
  BY <1>2 DEF Data
<1>4. ASSUME NEW x \in Dates
      PROVE  t.day[x[1]][keys[x]] = 0 /\ t.week[x[1]][keys[x][1]] = 0
  <2>1. x[1] \in Months /\ keys[x] \in Cells(x[1]) /\ keys[x][1] \in Weeks(x[1])
    BY DEF Dates, WellKeyed, Weeks
  <2> QED
    BY <1>2, <2>1
<1>5. ASSUME NEW S \in SUBSET Dates PROVE SumOf(t, S) = 0
  <2>1. PICK f : f = [x \in Dates |-> t.day[x[1]][keys[x]]]
    OBVIOUS
  <2>2. IsFiniteSet(S) /\ \A x \in S : f[x] = 0
    BY <1>4, <2>1, DatesFinite, FS_Subset
  <2>3. SumFunctionOnSet(f, S) = 0
    BY <2>2, SumZero
  <2> QED
    BY <2>1, <2>3 DEF SumOf
<1>6. \A m \in Months : t.month[m] = 0 /\ t.season[Season(m)] = 0
  <2>1. \A m \in 1 .. 12 : Season(m) \in 1 .. 4
    BY DEF Season
  <2>2. \A m \in Months : Season(m) \in 1 .. 4
    BY <2>1 DEF DateStatisticsAssumption
  <2> QED
    BY <1>2, <2>2
<1>7. AddsUp(t)
  <2>1. \A x \in Dates : SumOf(t, {y \in Dates : y[1] = x[1] /\ SameWeek(y[2], x[2])}) = 0
    BY <1>5
  <2>2. \A m \in Months : /\ SumOf(t, {y \in Dates : y[1] = m}) = 0
                          /\ SumOf(t, {y \in Dates : Season(y[1]) = Season(m)}) = 0
    BY <1>5
  <2>3. SumOf(t, Dates) = 0
    BY <1>5
  <2> QED
    BY <1>2, <1>4, <1>6, <2>1, <2>2, <2>3 DEF AddsUp
<1> QED
  BY <1>1, <1>3, <1>7

LEMMA DatesInit_Inv ==
  ASSUME DateStatisticsAssumption, DatesInit
  PROVE  DatesInv
<1>1. Calendar /\ Keyed /\ totals = NewYearData /\ file = NewYearData
  BY DEF DatesInit, Calendar, Keyed
<1>2. Data(NewYearData) /\ AddsUp(NewYearData)
  BY <1>1, KeysOfDates, ZerosAddUp
<1> QED
  BY <1>1, <1>2 DEF DatesInv

(* The calendar stays, and with it what is said of the data.                *)
LEMMA CalendarStays ==
  ASSUME UNCHANGED <<firstDay, longDay, keys>>, Calendar, Keyed
  PROVE  /\ Calendar' /\ Keyed'
         /\ Data(totals') => Data(totals)'
         /\ Data(file') => Data(file)'
         /\ AddsUp(totals') => AddsUp(totals)'
         /\ AddsUp(file') => AddsUp(file)'
<1>1. firstDay' = firstDay /\ longDay' = longDay /\ keys' = keys
  OBVIOUS
<1>2. \A m : Walk(m)' = Walk(m)
  BY <1>1 DEF Walk
<1>3. \A d : Weekday(d)' = Weekday(d)
  BY <1>1 DEF Weekday
<1>4. \A m, i : WeekAt(m, i)' = WeekAt(m, i)
  BY <1>2, <1>3 DEF WeekAt
<1>5. \A m : Cells(m)' = Cells(m)
  BY <1>2, <1>3, <1>4 DEF Cells
<1>6. \A m : Weeks(m)' = Weeks(m)
  BY <1>5 DEF Weeks
<1>7. \A m, d : GetKeysForAt(m, d)' = GetKeysForAt(m, d)
  <2> SUFFICES ASSUME NEW m, NEW d PROVE GetKeysForAt(m, d)' = GetKeysForAt(m, d)
    OBVIOUS
  <2>1. PICK i : i = Min({j \in DOMAIN Walk(m) : Walk(m)[j] = d})
    OBVIOUS
  <2>2. GetKeysForAt(m, d) = <<WeekAt(m, i), Weekday(d)>>
    BY <2>1 DEF GetKeysForAt
  <2>3. {j \in DOMAIN Walk(m) : Walk(m)[j] = d} = {j \in DOMAIN Walk(m) : Walk(m)[j] = d}'
    BY <1>2
  <2>4. GetKeysForAt(m, d)' = <<WeekAt(m, i)', Weekday(d)'>>
    BY <2>1, <2>3 DEF GetKeysForAt
  <2> QED
    BY <1>3, <1>4, <2>2, <2>4
<1>8. \A c, d : SameWeek(c, d)' <=> SameWeek(c, d)
  BY <1>1 DEF SameWeek
<1>9. Calendar' /\ Keyed'
  BY <1>1, <1>7 DEF Calendar, Keyed
<1>10. Data(totals') => Data(totals)'
  BY <1>5, <1>6 DEF Data
<1>11. Data(file') => Data(file)'
  BY <1>5, <1>6 DEF Data
<1>12. \A S : SumOf(totals, S)' = SumOf(totals', S) /\ SumOf(file, S)' = SumOf(file', S)
  BY <1>1 DEF SumOf
<1>13. \A date : {x \in Dates : x[1] = date[1] /\ SameWeek(x[2], date[2])'}
                  = {x \in Dates : x[1] = date[1] /\ SameWeek(x[2], date[2])}
  BY <1>8
<1>14. AddsUp(totals') => AddsUp(totals)'
  BY <1>1, <1>12, <1>13 DEF AddsUp
<1>15. AddsUp(file') => AddsUp(file)'
  BY <1>1, <1>12, <1>13 DEF AddsUp
<1> QED
  BY <1>9, <1>10, <1>11, <1>14, <1>15

LEMMA SetDayKeeps ==
  ASSUME DateStatisticsAssumption, DatesInv, NEW date \in Dates,
         NEW op \in {"add", "replace", "delete"}, NEW n \in DayAmounts,
         SetDayData(date[1], date[2], op, n)
  PROVE  DatesInv'
<1>1. WellKeyed /\ Calendar /\ Keyed /\ UNCHANGED <<firstDay, longDay, keys>>
  BY KeysOfDates DEF DatesInv, SetDayData
<1>2. n \in Int /\ date = <<date[1], date[2]>>
  BY DEF DateStatisticsAssumption, Dates
<1>3. totals' = Combined(totals, date[1], keys[date], op, n)
  BY <1>2 DEF SetDayData
<1>4. file' = totals' \/ file' = file
  BY DEF SetDayData
<1>5. replaced' = (replaced \/ op = "replace")
  BY DEF SetDayData
<1>6. Data(totals) /\ Data(file) /\ (~replaced => AddsUp(totals) /\ AddsUp(file))
  BY DEF DatesInv
<1>7. Data(totals') /\ (op # "replace" => \E r \in Int : More(totals, totals', date, r))
  BY <1>1, <1>2, <1>3, <1>6, CombinedMeans
<1>8. ASSUME ~replaced, op # "replace"
      PROVE  AddsUp(totals') /\ AddsUp(file)
  <2>1. PICK r \in Int : More(totals, totals', date, r)
    BY <1>7, <1>8
  <2> QED
    BY <1>1, <1>6, <1>7, <1>8, <2>1, MoreAddsUp
<1>9. Data(file') /\ (~replaced /\ op # "replace" => AddsUp(file'))
  BY <1>4, <1>6, <1>7, <1>8
<1>10. /\ Calendar' /\ Keyed' /\ Data(totals)' /\ Data(file)'
       /\ AddsUp(totals') => AddsUp(totals)'
       /\ AddsUp(file') => AddsUp(file)'
  BY <1>1, <1>7, <1>9, CalendarStays
<1> QED
  BY <1>5, <1>8, <1>9, <1>10 DEF DatesInv

LEMMA DatesStep ==
  ASSUME DateStatisticsAssumption, DatesInv, [DatesNext]_datesVars
  PROVE  DatesInv'
<1>1. ASSUME NEW m \in Months, NEW d \in SetDays, NEW op \in {"add", "replace", "delete"},
             NEW n \in DayAmounts, SetDayData(m, d, op, n)
      PROVE  DatesInv'
  <2>1. PICK date \in Dates : date[1] = m /\ date[2] = d
    <3>1. <<m, d>> \in Dates /\ <<m, d>>[1] = m /\ <<m, d>>[2] = d
      BY DEF Dates, DateStatisticsAssumption
    <3> QED
      BY <3>1
  <2> QED
    BY <1>1, <2>1, SetDayKeeps
<1>2. CASE Load \/ UNCHANGED datesVars
  <2>1. /\ UNCHANGED <<firstDay, longDay, keys>> /\ file' = file /\ replaced' = replaced
        /\ totals' = totals \/ totals' = file
    BY <1>2 DEF Load, datesVars
  <2>2. /\ Calendar /\ Keyed /\ Data(totals') /\ Data(file')
        /\ ~replaced => AddsUp(totals') /\ AddsUp(file')
    BY <2>1 DEF DatesInv
  <2>3. /\ Calendar' /\ Keyed' /\ Data(totals)' /\ Data(file)'
        /\ AddsUp(totals') => AddsUp(totals)'
        /\ AddsUp(file') => AddsUp(file)'
    BY <2>1, <2>2, CalendarStays
  <2> QED
    BY <2>1, <2>2, <2>3 DEF DatesInv
<1> QED
  BY <1>1, <1>2 DEF DatesNext

LEMMA DatesInvAddUp ==
  ASSUME DateStatisticsAssumption, DatesInv
  PROVE  TotalsAddUp
<1>1. WellKeyed
  BY KeysOfDates DEF DatesInv
<1>2. ASSUME NEW x \in Dates
      PROVE  /\ keys[x] \in DOMAIN totals.day[x[1]]
             /\ \A d \in 1 .. MonthDays : keys[<<x[1], d>>] = keys[x] => d = x[2]
  <2>1. x[1] \in Months /\ keys[x] \in Cells(x[1])
    BY <1>1 DEF Dates, WellKeyed
  <2>2. totals.day[x[1]] \in [Cells(x[1]) -> Int]
    BY <2>1 DEF DatesInv, Data
  <2>3. ASSUME NEW d \in 1 .. MonthDays, keys[<<x[1], d>>] = keys[x] PROVE d = x[2]
    <3>1. PICK y \in Dates : y = <<x[1], d>> /\ y[1] = x[1] /\ y[2] = d
      <4>1. <<x[1], d>> \in Dates /\ <<x[1], d>>[1] = x[1] /\ <<x[1], d>>[2] = d
        BY <2>1 DEF Dates
      <4> QED
        BY <4>1
    <3>2. keys[y] = keys[x]
      BY <2>3, <3>1
    <3>3. y = x
      BY <1>1, <3>1, <3>2 DEF WellKeyed
    <3> QED
      BY <3>1, <3>3
  <2> QED
    BY <2>1, <2>2, <2>3
<1> QED
  BY <1>2 DEF TotalsAddUp, CellsApart, DatesInv

(* In every calendar each date has a cell of its own, and the totals of its *)
(* week, month, season and year are the sums of the days in them, unless an *)
(* amount was replaced: after any changes, failed writes and restarts.      *)
THEOREM CalendarAddsUp == DatesSpec => []TotalsAddUp
<1>1. DatesInit => DatesInv
  BY DateStatisticsAssumption, DatesInit_Inv
<1>2. DatesInv /\ [DatesNext]_datesVars => DatesInv'
  BY DateStatisticsAssumption, DatesStep
<1>3. DatesInv => TotalsAddUp
  BY DateStatisticsAssumption, DatesInvAddUp
<1> QED
  BY <1>1, <1>2, <1>3, PTL DEF DatesSpec

-----------------------------------------------------------------------------
(***************************************************************************)
(* Proofs about the curves, for any speeds, any number of goroutines that  *)
(* set samples, and any length of history.                                 *)
(***************************************************************************)

(* Multiples of a speed are ordered as what they are multiples of.          *)
LEMMA MultiplesOrdered ==
  ASSUME NEW s \in Nat \ {0}, NEW a \in Int, NEW b \in Int, a < b
  PROVE  LabelTime(s, a) \in Int /\ LabelTime(s, b) \in Int
         /\ LabelTime(s, a) + s <= LabelTime(s, b)
<1>1. PICK y \in Nat : b = a + 1 + y
  <2>1. b - a - 1 \in Nat /\ b = a + 1 + (b - a - 1)
    OBVIOUS
  <2> QED
    BY <2>1
<1>2. PICK m \in Int, k \in Nat : m = a * s /\ k = y * s
  OBVIOUS
<1>3. b * s = m + s + k
  BY <1>1, <1>2
<1> QED
  BY <1>2, <1>3 DEF LabelTime

(* They are numbers.                                                        *)
LEMMA MultipleType ==
  ASSUME NEW s \in Nat \ {0}, NEW a \in Int
  PROVE  LabelTime(s, a) \in Int /\ (a \in Nat => LabelTime(s, a) \in Nat)
BY DEF LabelTime

(* A time lies in the span of its label.                                    *)
LEMMA InSpan ==
  ASSUME NEW s \in Nat \ {0}, NEW t \in Nat
  PROVE  /\ Label(s, t) \in Nat
         /\ LabelTime(s, Label(s, t)) <= t
         /\ t < LabelTime(s, Label(s, t)) + s
BY DEF Label, LabelTime

(* And in no other's. *)
LEMMA LabelOf ==
  ASSUME NEW s \in Nat \ {0}, NEW t \in Nat, NEW q \in Int,
         LabelTime(s, q) <= t, t < LabelTime(s, q) + s
  PROVE  Label(s, t) = q
<1>1. PICK p \in Nat : p = Label(s, t)
  BY InSpan
<1>2. PICK a \in Int, b \in Int : a = LabelTime(s, p) /\ b = LabelTime(s, q)
  BY MultipleType
<1>3. a <= t /\ t < a + s /\ b <= t /\ t < b + s
  BY <1>1, <1>2, InSpan
<1>4. ~(p < q)
  <2> SUFFICES ASSUME p < q
               PROVE  FALSE
    OBVIOUS
  <2>1. a + s <= b
    BY <1>2, MultiplesOrdered
  <2> QED
    BY <1>3, <2>1
<1>5. ~(q < p)
  <2> SUFFICES ASSUME q < p
               PROVE  FALSE
    OBVIOUS
  <2>1. b + s <= a
    BY <1>2, MultiplesOrdered
  <2> QED
    BY <1>3, <2>1
<1> QED
  BY <1>1, <1>4, <1>5

(* Labels do not go back.                                                   *)
LEMMA LabelsGoOn ==
  ASSUME NEW s \in Nat \ {0}, NEW t \in Nat, NEW u \in Nat, t <= u
  PROVE  Label(s, t) <= Label(s, u)
<1>1. PICK p \in Nat, q \in Nat : p = Label(s, t) /\ q = Label(s, u)
  BY InSpan
<1>2. PICK a \in Int, b \in Int : a = LabelTime(s, p) /\ b = LabelTime(s, q)
  BY MultipleType
<1>3. a <= t /\ t < a + s /\ b <= u /\ u < b + s
  BY <1>1, <1>2, InSpan
<1>4. ~(q < p)
  <2> SUFFICES ASSUME q < p
               PROVE  FALSE
    OBVIOUS
  <2>1. b + s <= a
    BY <1>2, MultiplesOrdered
  <2> QED
    BY <1>3, <2>1
<1> QED
  BY <1>1, <1>4

(* The label of a label's time is the label.                                *)
LEMMA LabelOfTime ==
  ASSUME NEW s \in Nat \ {0}, NEW q \in Nat
  PROVE  Label(s, LabelTime(s, q)) = q
<1>1. PICK b \in Nat : b = LabelTime(s, q)
  BY MultipleType
<1>2. b <= b /\ b < b + s
  BY <1>1
<1> QED
  BY <1>1, <1>2, LabelOf

-----------------------------------------------------------------------------
CurvePoint == [at : Int, data : SUBSET Nat]

\* g goes through the n labels before label.
CurveLoop(points, speed, label, g, n) ==
  g = [i \in 0 .. n |->
         IF i = 0 THEN [curve |-> <<>>, idx |-> 1]
         ELSE NextEntry(points, LabelTime(speed, label - i), g[i - 1])]

(* There is such a function.                                                *)
LEMMA CurveLoopExists ==
  ASSUME NEW points, NEW speed, NEW label, NEW n \in Nat
  PROVE  \E g : CurveLoop(points, speed, label, g, n)
<1> DEFINE G == {i \in 0 .. n : \E g : CurveLoop(points, speed, label, g, i)}
           first == [curve |-> <<>>, idx |-> 1]
<1>1. 0 \in G
  <2>1. CurveLoop(points, speed, label, [i \in 0 .. 0 |-> first], 0)
    BY DEF CurveLoop
  <2> HIDE DEF first
  <2>2. \E g : CurveLoop(points, speed, label, g, 0)
    BY <2>1
  <2> QED
    BY <2>2
<1>2. ASSUME NEW i \in 0 .. n, i < n, i \in G
      PROVE  i + 1 \in G
  <2>1. PICK g : CurveLoop(points, speed, label, g, i)
    BY <1>2
  <2> DEFINE at(j) == LabelTime(speed, label - j)
             h == [j \in 0 .. (i + 1) |->
                     IF j = i + 1 THEN NextEntry(points, at(i + 1), g[i]) ELSE g[j]]
  <2>2. ASSUME NEW j \in 0 .. (i + 1)
        PROVE  h[j] = IF j = 0 THEN first ELSE NextEntry(points, at(j), h[j - 1])
    <3>1. CASE j = i + 1
      <4>1. h[j - 1] = g[i] /\ h[j] = NextEntry(points, at(j), g[i]) /\ j # 0
        <5> HIDE DEF at
        <5> QED
          BY <3>1
      <4> HIDE DEF h, first, at
      <4> QED
        BY <4>1
    <3>2. CASE j \in 0 .. i
      <4>1. h[j] = g[j] /\ (j # 0 => h[j - 1] = g[j - 1])
        <5> HIDE DEF at
        <5> QED
          BY <3>2
      <4>2. g[j] = IF j = 0 THEN first ELSE NextEntry(points, at(j), g[j - 1])
        BY <2>1, <3>2 DEF CurveLoop
      <4> HIDE DEF h, first, at
      <4> QED
        BY <4>1, <4>2
    <3> QED
      BY <3>1, <3>2
  <2>3. h = [j \in 0 .. (i + 1) |-> h[j]]
    <3> HIDE DEF at
    <3> QED
      OBVIOUS
  <2>4. CurveLoop(points, speed, label, h, i + 1)
    <3> HIDE DEF h
    <3> QED
      BY <2>2, <2>3 DEF CurveLoop
  <2>5. \E k : CurveLoop(points, speed, label, k, i + 1)
    <3> HIDE DEF h
    <3> QED
      BY <2>4
  <2>6. i + 1 \in 0 .. n
    BY <1>2
  <2> QED
    BY <2>5, <2>6
<1>3. G = 0 .. n
  <2>1. G \in SUBSET (0 .. n)
    OBVIOUS
  <2> HIDE DEF G
  <2> QED
    BY <1>1, <1>2, <2>1, IndexInduction
<1> QED
  BY <1>3

(* What Shown stands for.                                                   *)
LEMMA ShownMeans ==
  ASSUME NEW speed, NEW label, NEW n \in Nat
  PROVE  \E g : /\ CurveLoop(Reverse(dHistory[speed]), speed, label, g, n)
                /\ Shown(speed, label, n) = g[n].curve
<1>1. PICK g : g = CHOOSE h : CurveLoop(Reverse(dHistory[speed]), speed, label, h, n)
  OBVIOUS
<1>2. CurveLoop(Reverse(dHistory[speed]), speed, label, g, n)
  BY <1>1, CurveLoopExists
<1>3. Shown(speed, label, n) = g[n].curve
  BY <1>1 DEF Shown, CurveLoop
<1> QED
  BY <1>2, <1>3

(* What Append does to the entries.                                         *)
LEMMA EntriesOfAppend ==
  ASSUME NEW S, NEW s \in Seq(S), NEW e \in S
  PROVE  /\ Append(s, e) \in Seq(S)
         /\ ToSet(Append(s, e)) = ToSet(s) \cup {e}
<1>1. PICK m \in Nat : m = Len(s)
  BY LenProperties
<1>2. DOMAIN s = 1 .. m
  BY <1>1, LenProperties
<1>3. PICK t : t = Append(s, e)
  OBVIOUS
<1>4. t \in Seq(S) /\ Len(t) = m + 1 /\ t[m + 1] = e /\ \A i \in 1 .. m : t[i] = s[i]
  BY <1>1, <1>3, AppendProperties
<1>5. DOMAIN t = 1 .. (m + 1)
  BY <1>4, LenProperties
<1>6. ToSet(t) \subseteq ToSet(s) \cup {e}
  <2> SUFFICES ASSUME NEW i \in 1 .. (m + 1)
               PROVE  t[i] \in ToSet(s) \cup {e}
    BY <1>5 DEF ToSet
  <2>1. CASE i \in 1 .. m
    BY <2>1, <1>2, <1>4 DEF ToSet
  <2>2. CASE i = m + 1
    BY <2>2, <1>4
  <2> QED
    BY <2>1, <2>2
<1>7. ToSet(s) \cup {e} \subseteq ToSet(t)
  <2>1. ASSUME NEW i \in 1 .. m
        PROVE  s[i] \in ToSet(t)
    <3>1. i \in DOMAIN t /\ t[i] = s[i]
      BY <1>4, <1>5
    <3> QED
      BY <3>1 DEF ToSet
  <2>2. e \in ToSet(t)
    <3>1. m + 1 \in DOMAIN t /\ t[m + 1] = e
      BY <1>4, <1>5
    <3> QED
      BY <3>1 DEF ToSet
  <2> QED
    BY <2>1, <2>2, <1>2 DEF ToSet
<1> QED
  BY <1>3, <1>4, <1>6, <1>7

(* And what Reverse does.                                                   *)
LEMMA ReversedSeq ==
  ASSUME NEW S, NEW s \in Seq(S), NEW m \in Nat, m = Len(s)
  PROVE  /\ Reverse(s) \in Seq(S) /\ Len(Reverse(s)) = m
         /\ \A i \in 1 .. m : m + 1 - i \in 1 .. m /\ Reverse(s)[i] = s[m + 1 - i]
         /\ ToSet(Reverse(s)) = ToSet(s)
<1>1. PICK r : r = Reverse(s)
  OBVIOUS
<1>2. \A i \in 1 .. m : m + 1 - i \in 1 .. m /\ r[i] = s[m + 1 - i] /\ s[i] \in S
  <2> SUFFICES ASSUME NEW i \in 1 .. m
               PROVE  m + 1 - i \in 1 .. m /\ r[i] = s[m + 1 - i] /\ s[i] \in S
    OBVIOUS
  <2>1. r[i] = s[(m - i) + 1] /\ (m - i) + 1 = m + 1 - i
    BY <1>1 DEF Reverse
  <2>2. s[i] \in S
    BY ElementOfSeq
  <2> QED
    BY <2>1, <2>2
<1>3. r \in [1 .. m -> S]
  <2>1. DOMAIN r = 1 .. m /\ r = [i \in 1 .. m |-> r[i]]
    BY <1>1 DEF Reverse
  <2> QED
    BY <1>2, <2>1
<1>4. r \in Seq(S) /\ Len(r) = m
  BY <1>3
<1>5. DOMAIN s = 1 .. m /\ DOMAIN r = 1 .. m
  BY <1>3, LenProperties
<1>6. ToSet(r) \subseteq ToSet(s)
  <2> SUFFICES ASSUME NEW i \in 1 .. m
               PROVE  r[i] \in ToSet(s)
    BY <1>5 DEF ToSet
  <2> QED
    BY <1>2, <1>5 DEF ToSet
<1>7. ToSet(s) \subseteq ToSet(r)
  <2> SUFFICES ASSUME NEW i \in 1 .. m
               PROVE  s[i] \in ToSet(r)
    BY <1>5 DEF ToSet
  <2>1. PICK j \in 1 .. m : j = m + 1 - i
    OBVIOUS
  <2>2. r[j] = s[i]
    <3>1. m + 1 - j = i
      BY <2>1
    <3> QED
      BY <1>2, <3>1
  <2> QED
    BY <1>5, <2>2 DEF ToSet
<1> QED
  BY <1>1, <1>2, <1>4, <1>6, <1>7

\* Points newest first, each at the begin of a label, all before the given one.
NewestFirst(points, speed, label) ==
  /\ \A i \in 1 .. Len(points) :
       \E q \in Int : q < label /\ points[i].at = LabelTime(speed, q)
  /\ \A i, j \in 1 .. Len(points) : i < j => points[j].at < points[i].at

\* Where the loop of GetCurves is after the label that begins at bound: the
\* points before idx are in the curve, the others are older than bound, and the
\* curve has nothing but points and empty entries.
LoopAt(points, bound, acc) ==
  /\ acc.curve \in Seq(CurvePoint)
  /\ acc.idx \in Nat \ {0}
  /\ \A j \in 1 .. Len(points) : j < acc.idx => points[j] \in ToSet(acc.curve)
  /\ \A j \in 1 .. Len(points) : acc.idx <= j /\ j < Len(points) => points[j].at < bound
  /\ \A e \in ToSet(acc.curve) : e.data = {} \/ e \in ToSet(points)

(* A round of the loop keeps it so.                                         *)
LEMMA EntryKeepsLoop ==
  ASSUME NEW points \in Seq(CurvePoint), NEW s \in Nat \ {0}, NEW q \in Int, NEW top \in Int,
         NewestFirst(points, s, top), NEW acc, LoopAt(points, LabelTime(s, q), acc)
  PROVE  LoopAt(points, LabelTime(s, q - 1), NextEntry(points, LabelTime(s, q - 1), acc))
<1>1. PICK m \in Nat, k \in Nat \ {0}, c \in Seq(CurvePoint) :
        m = Len(points) /\ k = acc.idx /\ c = acc.curve
  BY LenProperties DEF LoopAt
<1>0. PICK r \in Int : r = q - 1
  OBVIOUS
<1>2. PICK new \in Int, bound \in Int : new = LabelTime(s, r) /\ bound = LabelTime(s, q)
  BY MultipleType
<1>3. /\ \A j \in 1 .. m : j < k => points[j] \in ToSet(c)
      /\ \A j \in 1 .. m : k <= j /\ j < m => points[j].at < bound
      /\ \A e \in ToSet(c) : e.data = {} \/ e \in ToSet(points)
  BY <1>1, <1>2 DEF LoopAt
<1>4. \A j \in 1 .. m : points[j] \in CurvePoint /\ points[j].at \in Int /\ points[j] \in ToSet(points)
  <2>1. ASSUME NEW j \in 1 .. m
        PROVE  points[j] \in CurvePoint
    BY <1>1, ElementOfSeq
  <2>2. DOMAIN points = 1 .. m
    BY <1>1, LenProperties
  <2> QED
    BY <2>1, <2>2 DEF ToSet, CurvePoint
<1>5. \A j \in 1 .. m : points[j].at < bound => points[j].at <= new
  <2> SUFFICES ASSUME NEW j \in 1 .. m, points[j].at < bound
               PROVE  points[j].at <= new
    OBVIOUS
  <2>1. PICK p \in Int : points[j].at = LabelTime(s, p)
    BY <1>1 DEF NewestFirst
  <2>2. PICK a \in Int : a = LabelTime(s, p)
    BY MultipleType
  <2>3. CASE p <= r
    <3>1. CASE p = r
      BY <3>1, <2>1, <2>2, <1>2
    <3>2. CASE p < r
      <4>1. a + s <= new
        BY <3>2, <2>2, <1>2, MultiplesOrdered
      <4> QED
        BY <4>1, <2>1, <2>2
    <3> QED
      BY <2>3, <3>1, <3>2
  <2>4. CASE p = q
    BY <2>4, <2>1, <2>2, <1>2
  <2>5. CASE q < p
    <3>1. bound + s <= a
      BY <2>5, <2>2, <1>2, MultiplesOrdered
    <3> QED
      BY <3>1, <2>1, <2>2
  <2> QED
    BY <1>0, <2>3, <2>4, <2>5
<1>6. \A i, j \in 1 .. m : i < j => points[j].at < points[i].at
  BY <1>1 DEF NewestFirst
<1>7. PICK next : next = NextEntry(points, new, acc)
  OBVIOUS
<1>8. CASE k >= m \/ points[k].at # new
  <2>1. PICK e \in CurvePoint : e = [at |-> new, data |-> {}]
    <3>1. [at |-> new, data |-> {}] \in CurvePoint
      BY DEF CurvePoint
    <3> QED
      BY <3>1
  <2>2. next = [curve |-> Append(c, e), idx |-> k]
    BY <1>1, <1>7, <1>8, <2>1 DEF NextEntry
  <2>3. Append(c, e) \in Seq(CurvePoint) /\ ToSet(Append(c, e)) = ToSet(c) \cup {e}
    BY EntriesOfAppend
  <2>4. next.curve = Append(c, e) /\ next.idx = k /\ e.data = {}
    BY <2>1, <2>2
  <2>5. ASSUME NEW j \in 1 .. m, k <= j, j < m
        PROVE  points[j].at < new
    <3>1. k \in 1 .. m /\ k < m
      BY <2>5
    <3>2. points[k].at < new
      BY <1>3, <1>4, <1>5, <1>8, <3>1
    <3>3. CASE j = k
      BY <3>2, <3>3
    <3>4. CASE k < j
      BY <1>4, <1>6, <3>1, <3>2, <3>4
    <3> QED
      BY <2>5, <3>3, <3>4
  <2>6. LoopAt(points, new, next)
    BY <1>1, <1>3, <2>3, <2>4, <2>5 DEF LoopAt
  <2> QED
    BY <1>0, <1>2, <1>7, <2>6
<1>9. CASE k < m /\ points[k].at = new
  <2>1. k \in 1 .. m
    BY <1>9
  <2>2. PICK e \in CurvePoint : e = points[k]
    BY <1>4, <2>1
  <2>3. next = [curve |-> Append(c, e), idx |-> k + 1]
    BY <1>1, <1>7, <1>9, <2>2 DEF NextEntry
  <2>4. Append(c, e) \in Seq(CurvePoint) /\ ToSet(Append(c, e)) = ToSet(c) \cup {e}
    BY EntriesOfAppend
  <2>5. next.curve = Append(c, e) /\ next.idx = k + 1 /\ k + 1 \in Nat \ {0} /\ e \in ToSet(points)
    BY <1>4, <2>1, <2>2, <2>3
  <2>6. ASSUME NEW j \in 1 .. m, j < k + 1
        PROVE  points[j] \in ToSet(c) \cup {e}
    <3>1. CASE j = k
      BY <3>1, <2>2
    <3>2. CASE j < k
      BY <3>2, <1>3
    <3> QED
      BY <2>6, <3>1, <3>2
  <2>7. ASSUME NEW j \in 1 .. m, k + 1 <= j, j < m
        PROVE  points[j].at < new
    BY <1>6, <1>9, <2>1, <2>7
  <2>8. LoopAt(points, new, next)
    BY <1>1, <1>3, <2>4, <2>5, <2>6, <2>7 DEF LoopAt
  <2> QED
    BY <1>0, <1>2, <1>7, <2>8
<1> QED
  BY <1>1, <1>8, <1>9

(* So it is after each of the rounds.                                       *)
LEMMA LoopThroughout ==
  ASSUME NEW points \in Seq(CurvePoint), NEW s \in Nat \ {0}, NEW label \in Int, NEW n \in Nat,
         NewestFirst(points, s, label), NEW g, CurveLoop(points, s, label, g, n)
  PROVE  LoopAt(points, LabelTime(s, label - n), g[n])
<1> DEFINE G == {i \in 0 .. n : LoopAt(points, LabelTime(s, label - i), g[i])}
<1>1. 0 \in G
  <2>1. g[0] = [curve |-> <<>>, idx |-> 1]
    BY DEF CurveLoop
  <2>2. <<>> \in Seq(CurvePoint) /\ ToSet(<<>>) = {}
    BY EmptySeq DEF ToSet
  <2>3. g[0].curve = <<>> /\ g[0].idx = 1
    BY <2>1
  <2>4. ASSUME NEW j \in 1 .. Len(points)
        PROVE  points[j].at < LabelTime(s, label)
    <3>1. PICK p \in Int : p < label /\ points[j].at = LabelTime(s, p)
      BY DEF NewestFirst
    <3>2. PICK a \in Int, b \in Int : a = LabelTime(s, p) /\ b = LabelTime(s, label)
      BY MultipleType
    <3>3. a + s <= b
      BY <3>1, <3>2, MultiplesOrdered
    <3> QED
      BY <3>1, <3>2, <3>3
  <2>5. PICK bound : bound = LabelTime(s, label)
    OBVIOUS
  <2>6. PICK m \in Nat : m = Len(points)
    BY LenProperties
  <2>7. LoopAt(points, bound, g[0])
    BY <2>2, <2>3, <2>4, <2>5, <2>6 DEF LoopAt
  <2>8. label - 0 = label
    OBVIOUS
  <2> QED
    BY <2>5, <2>7, <2>8
<1>2. ASSUME NEW i \in 0 .. n, i < n, i \in G
      PROVE  i + 1 \in G
  <2>1. PICK j \in 1 .. n : j = i + 1
    BY <1>2
  <2>2. g[j] = NextEntry(points, LabelTime(s, label - j), g[j - 1])
    BY DEF CurveLoop
  <2>3. PICK q \in Int : q = label - i
    OBVIOUS
  <2>4. j - 1 = i /\ label - j = q - 1
    BY <2>1, <2>3
  <2>5. LoopAt(points, LabelTime(s, q), g[i])
    BY <1>2, <2>3
  <2>6. LoopAt(points, LabelTime(s, q - 1), NextEntry(points, LabelTime(s, q - 1), g[i]))
    BY <2>5, EntryKeepsLoop
  <2>7. LoopAt(points, LabelTime(s, label - j), g[j])
    BY <2>2, <2>4, <2>6
  <2>8. j \in 0 .. n
    OBVIOUS
  <2> QED
    BY <2>1, <2>7, <2>8
<1>3. G = 0 .. n
  <2>1. G \in SUBSET (0 .. n)
    OBVIOUS
  <2> HIDE DEF G
  <2> QED
    BY <1>1, <1>2, <2>1, IndexInduction
<1>4. n \in G
  BY <1>3
<1> QED
  BY <1>4

-----------------------------------------------------------------------------
(* What the histories hold. *)

\* The samples, of those in S, that are of a key's label.
OfKey(S, key) == {x \in 1 .. Len(S) : Label(key[1], S[x]) = key[2]}

\* A point of a speed whose label number last has not ended: not empty, of the
\* time of an earlier label, with samples of that label only.
PointOK(S, speed, last, p) ==
  /\ p.data # {}
  /\ \E q \in Nat : /\ q < last /\ p.at = LabelTime(speed, q)
                    /\ p.data \subseteq OfKey(S, <<speed, q>>)

PointsOK(S, speed, last, points) ==
  /\ points \in Seq(CurvePoint)
  /\ \A i \in 1 .. Len(points) : PointOK(S, speed, last, points[i])
  /\ \A i, j \in 1 .. Len(points) : i < j => points[i].at < points[j].at

(* GetCurves shows nothing but points of the history and empty entries, and *)
(* of the points that are not older than the labels asked for all but the   *)
(* oldest.                                                                  *)
LEMMA CurveOfHistory ==
  ASSUME NEW speed \in Nat \ {0}, NEW last \in Nat, NEW label \in Nat, last <= label,
         NEW n \in Nat, PointsOK(samples, speed, last, dHistory[speed]), dHistory[speed] # <<>>
  PROVE  /\ \A e \in ToSet(GetCurves(speed, label, n)) :
              e.data = {} \/ e \in ToSet(dHistory[speed])
         /\ \A p \in ToSet(Tail(dHistory[speed])) :
              p.at >= LabelTime(speed, label - n) => p \in ToSet(GetCurves(speed, label, n))
<1>1. PICK h \in Seq(CurvePoint) : h = dHistory[speed]
  BY DEF PointsOK
<1>2. PICK m \in Nat \ {0} : m = Len(h)
  BY <1>1, EmptySeq
<1>3. PICK r \in Seq(CurvePoint) : r = Reverse(h)
  BY <1>2, ReversedSeq
<1>4. /\ Len(r) = m
      /\ \A i \in 1 .. m : m + 1 - i \in 1 .. m /\ r[i] = h[m + 1 - i]
      /\ ToSet(r) = ToSet(h)
  BY <1>2, <1>3, ReversedSeq
<1>5. \A i \in 1 .. m : PointOK(samples, speed, last, h[i])
  BY <1>1, <1>2 DEF PointsOK
<1>6. NewestFirst(r, speed, label)
  <2>1. ASSUME NEW i \in 1 .. m
        PROVE  \E q \in Int : q < label /\ r[i].at = LabelTime(speed, q)
    <3>1. PointOK(samples, speed, last, r[i])
      BY <1>4, <1>5
    <3>2. PICK q \in Nat : q < last /\ r[i].at = LabelTime(speed, q)
      BY <3>1 DEF PointOK
    <3>3. q \in Int /\ q < label
      BY <3>2
    <3> QED
      BY <3>2, <3>3
  <2>2. ASSUME NEW i \in 1 .. m, NEW j \in 1 .. m, i < j
        PROVE  r[j].at < r[i].at
    <3>1. PICK k \in 1 .. m, l \in 1 .. m : k = m + 1 - i /\ l = m + 1 - j /\ l < k
      BY <2>2
    <3>2. r[i] = h[k] /\ r[j] = h[l]
      BY <1>4, <3>1
    <3>3. h[l].at < h[k].at
      BY <1>1, <1>2, <3>1 DEF PointsOK
    <3> QED
      BY <3>2, <3>3
  <2> QED
    BY <1>4, <2>1, <2>2 DEF NewestFirst
<1>7. PICK g : CurveLoop(r, speed, label, g, n) /\ Shown(speed, label, n) = g[n].curve
  BY <1>1, <1>3, ShownMeans
<1>8. PICK bound \in Int : bound = LabelTime(speed, label - n)
  BY MultipleType
<1>9. LoopAt(r, bound, g[n])
  BY <1>6, <1>7, <1>8, LoopThroughout
<1>10. PICK c \in Seq(CurvePoint) : c = Shown(speed, label, n)
  BY <1>7, <1>9 DEF LoopAt
<1>11. /\ \A e \in ToSet(c) : e.data = {} \/ e \in ToSet(h)
       /\ \A j \in 1 .. m : j < m => r[j].at < bound \/ r[j] \in ToSet(c)
  <2>1. PICK k \in Nat \ {0} : k = g[n].idx
    BY <1>9 DEF LoopAt
  <2>2. \A j \in 1 .. m : j < k => r[j] \in ToSet(c)
    BY <1>4, <1>7, <1>9, <1>10, <2>1 DEF LoopAt
  <2>3. \A j \in 1 .. m : k <= j /\ j < m => r[j].at < bound
    BY <1>4, <1>9, <2>1 DEF LoopAt
  <2>4. \A e \in ToSet(c) : e.data = {} \/ e \in ToSet(h)
    BY <1>4, <1>7, <1>9, <1>10 DEF LoopAt
  <2> QED
    BY <2>1, <2>2, <2>3, <2>4
<1>12. PICK d : d = IF c # <<>> /\ Head(c).data = {} THEN Tail(c) ELSE c
  OBVIOUS
<1>13. /\ d \in Seq(CurvePoint) /\ ToSet(d) \subseteq ToSet(c)
       /\ \A e \in ToSet(c) : e.data # {} => e \in ToSet(d)
  <2>1. CASE c # <<>> /\ Head(c).data = {}
    <3>1. d = Tail(c)
      BY <1>12, <2>1
    <3>2. PICK k \in Nat \ {0} : k = Len(c)
      BY <2>1, EmptySeq
    <3>3. d \in Seq(CurvePoint) /\ Len(d) = k - 1 /\ \A i \in 1 .. (k - 1) : d[i] = c[i + 1]
      BY <2>1, <3>1, <3>2, HeadTailProperties
    <3>4. DOMAIN c = 1 .. k /\ DOMAIN d = 1 .. (k - 1)
      BY <3>2, <3>3, LenProperties
    <3>5. \A i \in 1 .. (k - 1) : i + 1 \in 1 .. k /\ d[i] = c[i + 1]
      BY <3>3
    <3>6. ToSet(d) \subseteq ToSet(c)
      BY <3>4, <3>5 DEF ToSet
    <3>7. ASSUME NEW i \in 1 .. k, c[i].data # {}
          PROVE  c[i] \in ToSet(d)
      <4>1. c[1].data = {}
        BY <2>1
      <4>2. PICK j \in 1 .. (k - 1) : i = j + 1
        <5>1. i # 1
          BY <3>7, <4>1
        <5>2. i - 1 \in 1 .. (k - 1) /\ i = (i - 1) + 1
          BY <5>1
        <5> QED
          BY <5>2
      <4>3. d[j] = c[i]
        BY <3>3, <4>2
      <4> QED
        BY <3>4, <4>3 DEF ToSet
    <3>8. \A e \in ToSet(c) : e.data # {} => e \in ToSet(d)
      BY <3>4, <3>7 DEF ToSet
    <3> QED
      BY <3>3, <3>6, <3>8
  <2>2. CASE ~(c # <<>> /\ Head(c).data = {})
    BY <1>12, <2>2
  <2> QED
    BY <2>1, <2>2
<1>14. ToSet(GetCurves(speed, label, n)) = ToSet(d)
  <2>1. GetCurves(speed, label, n) = Reverse(d)
    BY <1>10, <1>12 DEF GetCurves
  <2>2. PICK k \in Nat : k = Len(d)
    BY <1>13, LenProperties
  <2> QED
    BY <1>13, <2>1, <2>2, ReversedSeq
<1>15. \A p \in ToSet(Tail(h)) : p.at >= bound => p \in ToSet(d)
  <2>1. Tail(h) \in Seq(CurvePoint) /\ Len(Tail(h)) = m - 1
        /\ \A i \in 1 .. (m - 1) : Tail(h)[i] = h[i + 1]
    BY <1>1, <1>2, HeadTailProperties
  <2>2. DOMAIN Tail(h) = 1 .. (m - 1)
    BY <2>1, LenProperties
  <2> SUFFICES ASSUME NEW i \in 1 .. (m - 1), Tail(h)[i].at >= bound
               PROVE  Tail(h)[i] \in ToSet(d)
    BY <2>2 DEF ToSet
  <2>3. PICK p \in CurvePoint : p = Tail(h)[i]
    BY <2>1, ElementOfSeq
  <2>4. PICK j \in 1 .. m : j = m - i /\ j < m
    OBVIOUS
  <2>5. m + 1 - j = i + 1 /\ i + 1 \in 1 .. m
    BY <2>4
  <2>6. r[j] = p /\ h[i + 1] = p
    BY <1>4, <2>1, <2>3, <2>4, <2>5
  <2>7. p.at \in Int /\ p.data # {}
    <3>1. PointOK(samples, speed, last, p)
      BY <1>5, <2>5, <2>6
    <3> QED
      BY <3>1 DEF PointOK, CurvePoint
  <2>8. ~(p.at < bound)
    <3>1. PICK a \in Int : a = p.at
      BY <2>7
    <3>2. a >= bound
      BY <2>3, <3>1
    <3>3. ~(a < bound)
      BY <3>2
    <3> QED
      BY <3>1, <3>3
  <2>9. p \in ToSet(c)
    BY <1>11, <2>4, <2>6, <2>8
  <2> QED
    BY <1>13, <2>3, <2>7, <2>9
<1>16. \A e \in ToSet(d) : e.data = {} \/ e \in ToSet(h)
  BY <1>11, <1>13
<1> QED
  BY <1>1, <1>8, <1>14, <1>15, <1>16

-----------------------------------------------------------------------------
(* What each variable holds.                                                *)

Calling == [step : {"find", "make", "load", "store"}, turn : 1 .. Len(speeds), sample : Nat,
            map : Nat, value : SUBSET Nat, alone : BOOLEAN]

CacheEntry == [maps : Seq(SUBSET Nat), expires : Nat]

CurveClock ==
  /\ now \in Nat
  /\ samples \in Seq(Nat)
  /\ \A x \in 1 .. Len(samples) : samples[x] <= now
  /\ speedLabels \in [Speeds -> Nat]
  /\ \A speed \in Speeds : speedLabels[speed] <= Label(speed, now)

\* What every map of a label has gathered is of that label.
CacheOK(cache, S) ==
  \A key \in DOMAIN cache :
    /\ key \in Speeds \X Nat
    /\ cache[key] \in CacheEntry
    /\ Len(cache[key].maps) # 0
    /\ \A i \in 1 .. Len(cache[key].maps) : cache[key].maps[i] \subseteq OfKey(S, key)

\* The key that a call is at.
KeyOf(call, S) == CachedKey(speeds[call.turn], Label(speeds[call.turn], S[call.sample]))

\* A call holds a map that was made for the key it is at, and a value of that key.
CallOK(call, cache, S) ==
  /\ call.sample \in 1 .. Len(S)
  /\ call.step \in {"load", "store"} =>
       /\ KeyOf(call, S) \in DOMAIN cache
       /\ call.map \in 1 .. Len(cache[KeyOf(call, S)].maps)
  /\ call.step = "store" => call.value \subseteq OfKey(S, KeyOf(call, S))

CallsOK ==
  /\ setting \in [Setters -> Calling \cup {NoCall}]
  /\ \A c \in Setters : setting[c] # NoCall => CallOK(setting[c], cachedDs, samples)

HistoriesOK ==
  /\ dHistory \in [Speeds -> Seq(CurvePoint)] /\ disk \in [Speeds -> Seq(CurvePoint)]
  /\ \A speed \in Speeds : /\ PointsOK(samples, speed, speedLabels[speed], dHistory[speed])
                           /\ PointsOK(samples, speed, speedLabels[speed], disk[speed])

CurveOK == CurveClock /\ CacheOK(cachedDs, samples) /\ CallsOK /\ HistoriesOK

(* Speeds are positive, and there is one.                                   *)
LEMMA SpeedTypes ==
  /\ Speeds \subseteq Nat \ {0}
  /\ Len(speeds) \in Nat \ {0}
  /\ \A i \in 1 .. Len(speeds) : speeds[i] \in Speeds
<1>1. DOMAIN speeds = 1 .. Len(speeds)
  BY CurveAssumption, LenProperties
<1>2. Len(speeds) \in Nat \ {0}
  BY CurveAssumption, EmptySeq
<1>3. \A i \in 1 .. Len(speeds) : speeds[i] \in Nat \ {0}
  BY CurveAssumption, ElementOfSeq
<1> QED
  BY <1>1, <1>2, <1>3 DEF Speeds, Range

(* A call at one of the steps is under way.                                 *)
LEMMA CallIsCalling ==
  ASSUME NEW call \in Calling \cup {NoCall}
  PROVE  /\ call # NoCall => call \in Calling
         /\ call.step \in {"find", "make", "load", "store"} => call # NoCall
<1>1. NoCall.step = "idle"
  BY DEF NoCall
<1> QED
  BY <1>1

-----------------------------------------------------------------------------
(* What is set or gathered later keeps what was set before as it is.        *)

Extends(S, T) ==
  /\ S \in Seq(Nat) /\ T \in Seq(Nat)
  /\ Len(S) <= Len(T)
  /\ \A x \in 1 .. Len(S) : T[x] = S[x]

Grows(cache, next) ==
  \A key \in DOMAIN cache :
    /\ key \in DOMAIN next
    /\ Len(cache[key].maps) \in Nat /\ Len(next[key].maps) \in Nat
    /\ Len(cache[key].maps) <= Len(next[key].maps)

(* A sample stays one of its key's.                                         *)
LEMMA ExtendsLengths ==
  ASSUME NEW S, NEW T, Extends(S, T)
  PROVE  /\ 1 .. Len(S) \subseteq 1 .. Len(T)
         /\ \A key : OfKey(S, key) \subseteq OfKey(T, key)
<1>1. PICK m \in Nat, n \in Nat : m = Len(S) /\ n = Len(T) /\ m <= n
  BY LenProperties DEF Extends
<1>2. 1 .. m \subseteq 1 .. n
  BY <1>1
<1> QED
  BY <1>1, <1>2 DEF Extends, OfKey

(* What is known of the cache holds for more samples too.                   *)
LEMMA CacheStays ==
  ASSUME NEW cache, NEW S, NEW T, CacheOK(cache, S), Extends(S, T)
  PROVE  CacheOK(cache, T)
<1>1. \A key : OfKey(S, key) \subseteq OfKey(T, key)
  BY ExtendsLengths
<1> SUFFICES ASSUME NEW key \in DOMAIN cache
             PROVE  /\ key \in Speeds \X Nat
                    /\ cache[key] \in CacheEntry
                    /\ Len(cache[key].maps) # 0
                    /\ \A i \in 1 .. Len(cache[key].maps) : cache[key].maps[i] \subseteq OfKey(T, key)
  BY DEF CacheOK
<1>2. \A i \in 1 .. Len(cache[key].maps) : cache[key].maps[i] \subseteq OfKey(S, key)
  BY DEF CacheOK
<1>3. \A i \in 1 .. Len(cache[key].maps) : cache[key].maps[i] \subseteq OfKey(T, key)
  BY <1>1, <1>2
<1> QED
  BY <1>3 DEF CacheOK

(* What is known of a call holds for more samples and more maps too.        *)
LEMMA CallStays ==
  ASSUME NEW call, NEW cache, NEW S, CallOK(call, cache, S),
         NEW next, NEW T, Grows(cache, next), Extends(S, T)
  PROVE  CallOK(call, next, T) /\ KeyOf(call, T) = KeyOf(call, S)
<1>1. call.sample \in 1 .. Len(S) /\ call.sample \in 1 .. Len(T) /\ T[call.sample] = S[call.sample]
  BY ExtendsLengths DEF CallOK, Extends
<1>2. PICK key : key = KeyOf(call, S)
  OBVIOUS
<1>3. KeyOf(call, T) = key
  BY <1>1, <1>2 DEF KeyOf
<1>4. ASSUME call.step \in {"load", "store"}
      PROVE  key \in DOMAIN next /\ call.map \in 1 .. Len(next[key].maps)
  <2>1. key \in DOMAIN cache /\ call.map \in 1 .. Len(cache[key].maps)
    BY <1>2, <1>4 DEF CallOK
  <2>2. PICK m \in Nat, n \in Nat :
          m = Len(cache[key].maps) /\ n = Len(next[key].maps) /\ m <= n /\ key \in DOMAIN next
    BY <2>1 DEF Grows
  <2> QED
    BY <2>1, <2>2
<1>5. ASSUME call.step = "store"
      PROVE  call.value \subseteq OfKey(T, key)
  <2>1. call.value \subseteq OfKey(S, key)
    BY <1>2, <1>5 DEF CallOK
  <2> QED
    BY <2>1, ExtendsLengths
<1> QED
  BY <1>1, <1>2, <1>3, <1>4, <1>5 DEF CallOK

(* What is known of points holds for more samples and later labels too.     *)
LEMMA PointsStay ==
  ASSUME NEW S, NEW T, Extends(S, T), NEW speed, NEW last \in Nat, NEW next \in Nat, last <= next,
         NEW points, PointsOK(S, speed, last, points)
  PROVE  PointsOK(T, speed, next, points)
<1> SUFFICES ASSUME NEW i \in 1 .. Len(points)
             PROVE  PointOK(T, speed, next, points[i])
  BY DEF PointsOK
<1>1. PointOK(S, speed, last, points[i])
  BY DEF PointsOK
<1>2. PICK q \in Nat : /\ q < last /\ points[i].at = LabelTime(speed, q)
                       /\ points[i].data \subseteq OfKey(S, <<speed, q>>)
  BY <1>1 DEF PointOK
<1>3. q < next
  BY <1>2
<1>4. points[i].data \subseteq OfKey(T, <<speed, q>>)
  BY <1>2, ExtendsLengths
<1> QED
  BY <1>1, <1>2, <1>3, <1>4 DEF PointOK

(* If nothing is set and no map is made, that is so as well.                *)
LEMMA Reflexive ==
  /\ \A S \in Seq(Nat) : Extends(S, S)
  /\ \A cache, S : CacheOK(cache, S) => Grows(cache, cache)
<1>1. ASSUME NEW S \in Seq(Nat)
      PROVE  Extends(S, S)
  <2>1. Len(S) \in Nat
    BY LenProperties
  <2> QED
    BY <2>1 DEF Extends
<1>2. ASSUME NEW cache, NEW S, CacheOK(cache, S), NEW key \in DOMAIN cache
      PROVE  Len(cache[key].maps) \in Nat
  <2>1. cache[key].maps \in Seq(SUBSET Nat)
    BY <1>2 DEF CacheOK, CacheEntry
  <2> QED
    BY <2>1, LenProperties
<1> QED
  BY <1>1, <1>2 DEF Grows

(* The invariant is as good for more samples, later labels and more maps,   *)
(* whenever the calls are.                                                  *)
LEMMA HistoriesStay ==
  ASSUME HistoriesOK, CurveClock, Extends(samples, samples'), UNCHANGED <<dHistory, disk>>,
         speedLabels' \in [Speeds -> Nat], \A speed \in Speeds : speedLabels[speed] <= speedLabels'[speed]
  PROVE  HistoriesOK'
<1>1. ASSUME NEW speed \in Speeds
      PROVE  /\ PointsOK(samples', speed, speedLabels'[speed], dHistory[speed])
             /\ PointsOK(samples', speed, speedLabels'[speed], disk[speed])
  <2>1. PICK a \in Nat, b \in Nat : a = speedLabels[speed] /\ b = speedLabels'[speed] /\ a <= b
    BY DEF CurveClock
  <2>2. PointsOK(samples, speed, a, dHistory[speed]) /\ PointsOK(samples, speed, a, disk[speed])
    BY <2>1 DEF HistoriesOK
  <2> QED
    BY <2>1, <2>2, PointsStay
<1> QED
  BY <1>1 DEF HistoriesOK

-----------------------------------------------------------------------------
(* What the steps do with the cache. *)

(* A function from 1 to n is a sequence.                                    *)
LEMMA FunctionIsSeq ==
  ASSUME NEW D, NEW n \in Nat, NEW f \in [1 .. n -> D]
  PROVE  f \in Seq(D) /\ Len(f) = n
OBVIOUS

(* The cache with a good entry is good.                                     *)
LEMMA CacheWith ==
  ASSUME NEW cache, NEW S, CacheOK(cache, S), NEW key \in Speeds \X Nat, NEW entry \in CacheEntry,
         Len(entry.maps) # 0,
         \A i \in 1 .. Len(entry.maps) : entry.maps[i] \subseteq OfKey(S, key),
         key \in DOMAIN cache => Len(cache[key].maps) <= Len(entry.maps)
  PROVE  CacheOK(With(cache, key, entry), S) /\ Grows(cache, With(cache, key, entry))
<1>1. PICK next : next = With(cache, key, entry)
  OBVIOUS
<1>2. /\ DOMAIN next = DOMAIN cache \cup {key} /\ next[key] = entry
      /\ \A k \in DOMAIN cache : k # key => next[k] = cache[k]
  BY <1>1 DEF With
<1>3. CacheOK(next, S)
  <2> SUFFICES ASSUME NEW k \in DOMAIN next
               PROVE  /\ k \in Speeds \X Nat
                      /\ next[k] \in CacheEntry
                      /\ Len(next[k].maps) # 0
                      /\ \A i \in 1 .. Len(next[k].maps) : next[k].maps[i] \subseteq OfKey(S, k)
    BY DEF CacheOK
  <2>1. CASE k = key
    BY <1>2, <2>1
  <2>2. CASE k # key
    <3>1. k \in DOMAIN cache /\ next[k] = cache[k]
      BY <1>2, <2>2
    <3> QED
      BY <3>1 DEF CacheOK
  <2> QED
    BY <2>1, <2>2
<1>4. ASSUME NEW k \in DOMAIN cache
      PROVE  /\ k \in DOMAIN next
             /\ Len(cache[k].maps) \in Nat /\ Len(next[k].maps) \in Nat
             /\ Len(cache[k].maps) <= Len(next[k].maps)
  <2>1. cache[k].maps \in Seq(SUBSET Nat) /\ entry.maps \in Seq(SUBSET Nat)
    BY DEF CacheOK, CacheEntry
  <2>2. Len(cache[k].maps) \in Nat /\ Len(entry.maps) \in Nat
    BY <2>1, LenProperties
  <2>3. CASE k = key
    BY <1>2, <2>2, <2>3
  <2>4. CASE k # key
    BY <1>2, <2>2, <2>4
  <2> QED
    BY <2>3, <2>4
<1> QED
  BY <1>1, <1>3, <1>4 DEF Grows

(* Samples are numbered.                                                    *)
LEMMA OfKeyType ==
  ASSUME NEW S \in Seq(Nat), NEW key
  PROVE  OfKey(S, key) \subseteq Nat
<1>1. PICK m \in Nat : m = Len(S)
  BY LenProperties
<1> QED
  BY <1>1 DEF OfKey

\* The entry after one map more.
WithMap(cache, key, expires) ==
  [maps |-> Append(IF key \in DOMAIN cache THEN cache[key].maps ELSE <<>>, {}), expires |-> expires]

(* A map more, with nothing in it, is good.                                 *)
LEMMA CacheMake ==
  ASSUME NEW cache, NEW S, CacheOK(cache, S), NEW key \in Speeds \X Nat, NEW expires \in Nat
  PROVE  /\ CacheOK(With(cache, key, WithMap(cache, key, expires)), S)
         /\ Grows(cache, With(cache, key, WithMap(cache, key, expires)))
         /\ Len(WithMap(cache, key, expires).maps) \in Nat \ {0}
<1>1. PICK old \in Seq(SUBSET Nat) :
        /\ old = IF key \in DOMAIN cache THEN cache[key].maps ELSE <<>>
        /\ \A i \in 1 .. Len(old) : old[i] \subseteq OfKey(S, key)
  <2>1. CASE key \in DOMAIN cache
    <3>1. cache[key].maps \in Seq(SUBSET Nat)
          /\ \A i \in 1 .. Len(cache[key].maps) : cache[key].maps[i] \subseteq OfKey(S, key)
      BY <2>1 DEF CacheOK, CacheEntry
    <3> QED
      BY <2>1, <3>1
  <2>2. CASE key \notin DOMAIN cache
    <3>1. <<>> \in Seq(SUBSET Nat) /\ Len(<<>>) = 0
      BY EmptySeq
    <3>2. \A i \in 1 .. Len(<<>>) : <<>>[i] \subseteq OfKey(S, key)
      BY <3>1
    <3> QED
      BY <2>2, <3>1, <3>2
  <2> QED
    BY <2>1, <2>2
<1>2. PICK m \in Nat : m = Len(old)
  BY LenProperties
<1>3. PICK none : none = {}
  OBVIOUS
<1>4. PICK maps \in Seq(SUBSET Nat) : maps = Append(old, none) /\ Len(maps) = m + 1
        /\ maps[m + 1] = none /\ \A i \in 1 .. m : maps[i] = old[i]
  <2>1. none \in SUBSET Nat
    BY <1>3
  <2>2. PICK D : D = SUBSET Nat
    OBVIOUS
  <2>3. old \in Seq(D) /\ none \in D
    BY <2>1, <2>2
  <2>4. PICK t : t = Append(old, none)
    OBVIOUS
  <2>5. t \in Seq(D) /\ Len(t) = m + 1 /\ t[m + 1] = none /\ \A i \in 1 .. m : t[i] = old[i]
    BY <1>2, <2>3, <2>4, AppendProperties
  <2> QED
    BY <2>2, <2>4, <2>5
<1>5. \A i \in 1 .. (m + 1) : maps[i] \subseteq OfKey(S, key)
  <2>1. ASSUME NEW i \in 1 .. m
        PROVE  maps[i] \subseteq OfKey(S, key)
    BY <1>1, <1>2, <1>4
  <2>2. maps[m + 1] \subseteq OfKey(S, key)
    BY <1>3, <1>4
  <2> QED
    BY <2>1, <2>2
<1>6. PICK entry \in CacheEntry : entry = WithMap(cache, key, expires) /\ entry.maps = maps
  <2>1. [maps |-> maps, expires |-> expires] \in CacheEntry
    BY DEF CacheEntry
  <2>2. WithMap(cache, key, expires) = [maps |-> maps, expires |-> expires]
    BY <1>1, <1>3, <1>4 DEF WithMap
  <2> QED
    BY <2>1, <2>2
<1>7. Len(entry.maps) = m + 1 /\ m + 1 # 0 /\ m + 1 \in Nat \ {0}
  BY <1>4, <1>6
<1>8. \A i \in 1 .. Len(entry.maps) : entry.maps[i] \subseteq OfKey(S, key)
  BY <1>4, <1>5, <1>6
<1>9. key \in DOMAIN cache => Len(cache[key].maps) <= Len(entry.maps)
  BY <1>1, <1>2, <1>7
<1>10. CacheOK(With(cache, key, entry), S) /\ Grows(cache, With(cache, key, entry))
  BY <1>7, <1>8, <1>9, CacheWith
<1> QED
  BY <1>6, <1>7, <1>10

\* The cache after a store into a map.
Stored(cache, key, m, v) == [cache EXCEPT ![key].maps[m] = v]

(* A value of the key, stored into one of its maps, is good, and nothing    *)
(* else changes.                                                            *)
LEMMA CacheStore ==
  ASSUME NEW cache, NEW S \in Seq(Nat), CacheOK(cache, S), NEW key \in DOMAIN cache,
         NEW m \in 1 .. Len(cache[key].maps), NEW v \in SUBSET OfKey(S, key),
         NEW next, next = Stored(cache, key, m, v)
  PROVE  /\ CacheOK(next, S) /\ Grows(cache, next)
         /\ DOMAIN next = DOMAIN cache
         /\ \A k \in DOMAIN cache : next[k].expires = cache[k].expires /\ (k # key => next[k] = cache[k])
         /\ next[key].maps = [cache[key].maps EXCEPT ![m] = v]
         /\ Len(next[key].maps) = Len(cache[key].maps)
<1>1. key \in Speeds \X Nat /\ cache[key] \in CacheEntry /\ Len(cache[key].maps) # 0
      /\ \A i \in 1 .. Len(cache[key].maps) : cache[key].maps[i] \subseteq OfKey(S, key)
  BY DEF CacheOK
<1>2. PICK old \in Seq(SUBSET Nat), e \in Nat : cache[key] = [maps |-> old, expires |-> e]
  BY <1>1 DEF CacheEntry
<1>3. cache[key].maps = old /\ cache[key].expires = e
  BY <1>2
<1>4. PICK n \in Nat : n = Len(old)
  BY LenProperties
<1>5. v \in SUBSET Nat
  BY OfKeyType
<1>6. PICK maps : maps = [old EXCEPT ![m] = v]
  OBVIOUS
<1>7. maps \in Seq(SUBSET Nat) /\ Len(maps) = n /\ \A i \in 1 .. n : maps[i] = IF i = m THEN v ELSE old[i]
  <2>1. old \in [1 .. n -> SUBSET Nat]
    BY <1>4, LenProperties
  <2>2. maps \in [1 .. n -> SUBSET Nat]
    BY <1>5, <1>6, <2>1
  <2>3. maps \in Seq(SUBSET Nat) /\ Len(maps) = n
    BY <2>2, FunctionIsSeq
  <2>4. \A i \in 1 .. n : maps[i] = IF i = m THEN v ELSE old[i]
    BY <1>6, <2>1
  <2> QED
    BY <2>3, <2>4
<1>8. PICK entry \in CacheEntry : entry = [maps |-> maps, expires |-> e]
  <2>1. [maps |-> maps, expires |-> e] \in CacheEntry
    BY <1>7 DEF CacheEntry
  <2> QED
    BY <2>1
<1>9. next = [cache EXCEPT ![key] = entry]
  <2>1. [cache[key] EXCEPT !.maps = maps] = entry
    BY <1>2, <1>8
  <2>2. next = [cache EXCEPT ![key] = [cache[key] EXCEPT !.maps = [cache[key].maps EXCEPT ![m] = v]]]
    BY DEF Stored
  <2> QED
    BY <1>3, <1>6, <2>1, <2>2
<1>10. next = With(cache, key, entry)
  <2>1. DOMAIN cache \cup {key} = DOMAIN cache
    OBVIOUS
  <2> QED
    BY <1>9, <2>1 DEF With
<1>11. entry.maps = maps /\ entry.expires = e
  BY <1>8
<1>12. n # 0 /\ \A i \in 1 .. n : maps[i] \subseteq OfKey(S, key)
  <2>1. n # 0 /\ \A i \in 1 .. n : old[i] \subseteq OfKey(S, key)
    BY <1>1, <1>3, <1>4
  <2> QED
    BY <1>7, <2>1
<1>13. CacheOK(With(cache, key, entry), S) /\ Grows(cache, With(cache, key, entry))
  <2>1. Len(entry.maps) # 0 /\ Len(cache[key].maps) <= Len(entry.maps)
    BY <1>3, <1>4, <1>7, <1>11, <1>12
  <2>2. \A i \in 1 .. Len(entry.maps) : entry.maps[i] \subseteq OfKey(S, key)
    BY <1>7, <1>11, <1>12
  <2> QED
    BY <1>1, <2>1, <2>2, CacheWith
<1>14. next[key] = entry /\ \A k \in DOMAIN cache : k # key => next[k] = cache[k]
  BY <1>9
<1>15. DOMAIN next = DOMAIN cache
  BY <1>9
<1>16. \A k \in DOMAIN cache : next[k].expires = cache[k].expires
  BY <1>3, <1>11, <1>14
<1> QED
  BY <1>3, <1>4, <1>6, <1>7, <1>10, <1>11, <1>13, <1>14, <1>15, <1>16

-----------------------------------------------------------------------------
(* Every step keeps the invariant.                                          *)

(* A call's sample is of the key the call is at.                            *)
LEMMA OwnKey ==
  ASSUME NEW call \in Calling, NEW S \in Seq(Nat), call.sample \in 1 .. Len(S)
  PROVE  /\ KeyOf(call, S) \in Speeds \X Nat
         /\ KeyOf(call, S)[1] = speeds[call.turn]
         /\ call.sample \in OfKey(S, KeyOf(call, S))
<1>1. PICK speed \in Nat \ {0} : speed = speeds[call.turn] /\ speed \in Speeds
  <2>1. call.turn \in 1 .. Len(speeds)
    BY DEF Calling
  <2> QED
    BY <2>1, SpeedTypes
<1>2. PICK t \in Nat : t = S[call.sample]
  BY ElementOfSeq
<1>3. PICK label \in Nat : label = Label(speed, t)
  BY InSpan
<1>4. KeyOf(call, S) = <<speed, label>>
  BY <1>1, <1>2, <1>3 DEF KeyOf, CachedKey
<1> QED
  BY <1>1, <1>2, <1>3, <1>4 DEF OfKey

(* A step of one call.                                                      *)
LEMMA CallsNext ==
  ASSUME CallsOK, Grows(cachedDs, cachedDs'), Extends(samples, samples'),
         NEW c \in Setters, NEW new \in Calling \cup {NoCall},
         new # NoCall => CallOK(new, cachedDs', samples'),
         setting' = [o \in Setters |-> IF o = c THEN new ELSE setting[o]]
  PROVE  CallsOK'
<1>1. setting' \in [Setters -> Calling \cup {NoCall}]
  BY DEF CallsOK
<1>2. ASSUME NEW o \in Setters, setting'[o] # NoCall
      PROVE  CallOK(setting'[o], cachedDs', samples')
  <2>1. CASE o = c
    BY <1>2, <2>1
  <2>2. CASE o # c
    <3>1. PICK call : call = setting[o] /\ setting'[o] = call
      BY <2>2
    <3>2. CallOK(call, cachedDs, samples)
      BY <1>2, <3>1 DEF CallsOK
    <3>3. CallOK(call, cachedDs', samples')
      BY <3>2, CallStays
    <3> QED
      BY <3>1, <3>3
  <2> QED
    BY <2>1, <2>2
<1> QED
  BY <1>1, <1>2 DEF CallsOK

(* If neither samples nor the cache change, the cache is as good as before. *)
LEMMA NothingSet ==
  ASSUME CurveOK, samples' = samples, cachedDs' = cachedDs
  PROVE  Extends(samples, samples') /\ Grows(cachedDs, cachedDs') /\ CacheOK(cachedDs', samples')
BY Reflexive DEF CurveOK, CurveClock

(* And if neither the time nor labels and histories do, so are those.       *)
LEMMA HistoriesSame ==
  ASSUME CurveOK, samples' = samples, UNCHANGED <<now, speedLabels, dHistory, disk>>
  PROVE  CurveClock' /\ HistoriesOK'
<1>1. CurveClock'
  BY DEF CurveOK, CurveClock
<1>2. HistoriesOK'
  BY DEF CurveOK, HistoriesOK
<1> QED
  BY <1>1, <1>2

(* The call that takes a step, and its key.                                 *)
LEMMA CallAtKey ==
  ASSUME CurveOK, NEW c \in Setters, setting[c].step \in {"find", "make", "load", "store"}
  PROVE  /\ setting[c] \in Calling /\ setting[c] # NoCall
         /\ CallOK(setting[c], cachedDs, samples)
         /\ SetKey(c) = KeyOf(setting[c], samples)
         /\ SetKey(c) \in Speeds \X Nat
         /\ Speed(c) \in Nat \ {0} /\ SetKey(c)[1] = Speed(c)
         /\ setting[c].sample \in OfKey(samples, SetKey(c))
<1>1. setting[c] \in Calling \cup {NoCall}
  BY DEF CurveOK, CallsOK
<1>2. setting[c] \in Calling /\ setting[c] # NoCall
  BY <1>1, CallIsCalling
<1>3. CallOK(setting[c], cachedDs, samples)
  BY <1>2 DEF CurveOK, CallsOK
<1>4. SetKey(c) = KeyOf(setting[c], samples)
  BY DEF SetKey, Speed, KeyOf
<1>5. setting[c].sample \in 1 .. Len(samples)
  BY <1>3 DEF CallOK
<1>6. samples \in Seq(Nat)
  BY DEF CurveOK, CurveClock
<1>7. /\ SetKey(c) \in Speeds \X Nat /\ SetKey(c)[1] = Speed(c)
      /\ setting[c].sample \in OfKey(samples, SetKey(c))
  BY <1>2, <1>4, <1>5, <1>6, OwnKey DEF Speed
<1>8. Speed(c) \in Nat \ {0}
  <2>1. SetKey(c)[1] \in Speeds
    BY <1>7
  <2> QED
    BY <1>7, <2>1, SpeedTypes
<1> QED
  BY <1>2, <1>3, <1>4, <1>7, <1>8

(* A call begins, with a sample more.                                       *)
LEMMA SetBeginOK ==
  ASSUME CurveOK, NEW c \in Setters, SetBegin(c)
  PROVE  CurveOK'
<1>1. PICK t \in Nat, S \in Seq(Nat), m \in Nat : t = now /\ S = samples /\ m = Len(S)
  BY LenProperties DEF CurveOK, CurveClock
<1>2. PICK T : T = samples'
  OBVIOUS
<1>3. T \in Seq(Nat) /\ Len(T) = m + 1 /\ T[m + 1] = t /\ \A x \in 1 .. m : T[x] = S[x]
  <2>1. T = Append(S, t)
    BY <1>1, <1>2 DEF SetBegin
  <2> QED
    BY <1>1, <2>1, AppendProperties
<1>4. Extends(samples, samples')
  BY <1>1, <1>2, <1>3 DEF Extends
<1>5. Grows(cachedDs, cachedDs') /\ CacheOK(cachedDs', samples')
  BY <1>4, Reflexive, CacheStays DEF CurveOK, SetBegin
<1>6. CurveClock'
  <2>1. \A x \in 1 .. Len(T) : T[x] <= t
    <3> SUFFICES ASSUME NEW x \in 1 .. (m + 1)
                 PROVE  T[x] <= t
      BY <1>3
    <3>1. CASE x \in 1 .. m
      BY <3>1, <1>1, <1>3 DEF CurveOK, CurveClock
    <3>2. CASE x = m + 1
      BY <3>2, <1>3
    <3> QED
      BY <3>1, <3>2
  <2> QED
    BY <1>1, <1>2, <1>3, <2>1 DEF CurveOK, CurveClock, SetBegin
<1>7. HistoriesOK'
  <2>1. \A speed \in Speeds : speedLabels[speed] <= speedLabels'[speed]
    <3>1. \A speed \in Speeds : speedLabels[speed] \in Nat
      BY DEF CurveOK, CurveClock
    <3> QED
      BY <3>1 DEF SetBegin
  <2> QED
    BY <1>4, <2>1, HistoriesStay DEF CurveOK, CurveClock, SetBegin
<1>8. CallsOK'
  <2>1. PICK b \in BOOLEAN : b = \A x \in Setters : setting[x] = NoCall
    OBVIOUS
  <2>2. PICK new : new = [step |-> "find", turn |-> 1, sample |-> m + 1, map |-> 0, value |-> {}, alone |-> b]
    OBVIOUS
  <2>3. new \in Calling
    <3>1. 1 \in 1 .. Len(speeds) /\ m + 1 \in Nat /\ {} \in SUBSET Nat
      BY SpeedTypes
    <3> QED
      BY <2>2, <3>1 DEF Calling
  <2>4. setting' = [o \in Setters |->
          IF o = c THEN new ELSE IF setting[o] = NoCall THEN NoCall ELSE [setting[o] EXCEPT !.alone = FALSE]]
    BY <1>1, <1>2, <1>3, <2>1, <2>2 DEF SetBegin
  <2>5. CallOK(new, cachedDs', T)
    BY <1>3, <2>2 DEF CallOK
  <2>6. ASSUME NEW o \in Setters, setting[o] # NoCall
        PROVE  /\ [setting[o] EXCEPT !.alone = FALSE] \in Calling
               /\ CallOK([setting[o] EXCEPT !.alone = FALSE], cachedDs', T)
    <3>1. setting[o] \in Calling
      BY <2>6 DEF CurveOK, CallsOK
    <3>2. PICK call \in Calling : call = setting[o]
      BY <3>1
    <3>3. CallOK(call, cachedDs', T)
      <4>1. CallOK(call, cachedDs, samples)
        BY <2>6, <3>2 DEF CurveOK, CallsOK
      <4> QED
        BY <1>2, <1>4, <1>5, <4>1, CallStays
    <3>4. PICK call2 : call2 = [call EXCEPT !.alone = FALSE]
      OBVIOUS
    <3>5. call2 \in Calling
      BY <3>4 DEF Calling
    <3>6. /\ call2.sample = call.sample /\ call2.step = call.step /\ call2.turn = call.turn
          /\ call2.map = call.map /\ call2.value = call.value
      BY <3>4 DEF Calling
    <3>7. CallOK(call2, cachedDs', T)
      BY <3>3, <3>6 DEF CallOK, KeyOf
    <3> QED
      BY <3>2, <3>4, <3>5, <3>7
  <2>7. ASSUME NEW o \in Setters
        PROVE  /\ setting'[o] \in Calling \cup {NoCall}
               /\ setting'[o] # NoCall => CallOK(setting'[o], cachedDs', T)
    <3>1. CASE o = c
      BY <2>3, <2>4, <2>5, <3>1
    <3>2. CASE o # c /\ setting[o] = NoCall
      BY <2>4, <3>2
    <3>3. CASE o # c /\ setting[o] # NoCall
      BY <2>4, <2>6, <3>3
    <3> QED
      BY <3>1, <3>2, <3>3
  <2>8. setting' = [o \in Setters |-> setting'[o]]
    BY <2>4
  <2> QED
    BY <1>2, <2>7, <2>8 DEF CallsOK
<1> QED
  BY <1>5, <1>6, <1>7, <1>8 DEF CurveOK

(* It finds a map, and what is in it.                                       *)
LEMMA FindHitOK ==
  ASSUME CurveOK, NEW c \in Setters, FindHit(c)
  PROVE  CurveOK'
<1>1. PICK call \in Calling, key \in Speeds \X Nat : call = setting[c] /\ key = SetKey(c)
        /\ CallOK(call, cachedDs, samples) /\ key = KeyOf(call, samples)
  BY CallAtKey DEF FindHit
<1>2. key \in DOMAIN cachedDs
  BY <1>1 DEF FindHit, Cached
<1>3. PICK maps \in Seq(SUBSET Nat), n \in Nat : maps = cachedDs[key].maps /\ n = Len(maps) /\ n # 0
        /\ \A i \in 1 .. n : maps[i] \subseteq OfKey(samples, key)
  <2>1. cachedDs[key].maps \in Seq(SUBSET Nat)
    BY <1>2 DEF CurveOK, CacheOK, CacheEntry
  <2>2. Len(cachedDs[key].maps) \in Nat
    BY <2>1, LenProperties
  <2> QED
    BY <1>2, <2>1, <2>2 DEF CurveOK, CacheOK
<1>4. PICK value \in SUBSET Nat : value = Last(maps) /\ value \subseteq OfKey(samples, key)
  <2>1. n \in 1 .. n /\ Last(maps) = maps[n]
    BY <1>3 DEF Last
  <2>2. maps[n] \in SUBSET Nat
    BY <1>3, <2>1, ElementOfSeq
  <2> QED
    BY <1>3, <2>1, <2>2
<1>5. PICK new : new = [call EXCEPT !.step = "store", !.map = n, !.value = value]
  OBVIOUS
<1>6. new \in Calling
  BY <1>5 DEF Calling
<1>7. /\ new.sample = call.sample /\ new.step = "store" /\ new.turn = call.turn
      /\ new.map = n /\ new.value = value
  BY <1>5 DEF Calling
<1>8. setting' = [o \in Setters |-> IF o = c THEN new ELSE setting[o]]
  <2>1. setting' = [setting EXCEPT ![c].step = "store", ![c].map = n, ![c].value = value]
    BY <1>1, <1>3, <1>4 DEF FindHit
  <2>2. setting' = [setting EXCEPT ![c] = new]
    BY <1>1, <1>5, <2>1 DEF CurveOK, CallsOK
  <2> QED
    BY <2>2 DEF CurveOK, CallsOK
<1>9. UNCHANGED <<now, cachedDs, speedLabels, dHistory, disk, samples>>
  BY DEF FindHit
<1>10. CallOK(new, cachedDs, samples)
  <2>1. KeyOf(new, samples) = key
    BY <1>1, <1>7 DEF KeyOf
  <2>2. n \in 1 .. Len(cachedDs[key].maps)
    BY <1>3
  <2> QED
    BY <1>1, <1>2, <1>4, <1>7, <2>1, <2>2 DEF CallOK
<1>11. CallsOK'
  BY <1>6, <1>8, <1>9, <1>10, NothingSet, CallsNext DEF CurveOK
<1> QED
  BY <1>9, <1>11, NothingSet, HistoriesSame DEF CurveOK

(* It finds none.                                                           *)
LEMMA FindMissOK ==
  ASSUME CurveOK, NEW c \in Setters, FindMiss(c)
  PROVE  CurveOK'
<1>1. PICK call \in Calling : call = setting[c] /\ CallOK(call, cachedDs, samples)
  BY CallAtKey DEF FindMiss
<1>2. PICK new : new = [call EXCEPT !.step = "make"]
  OBVIOUS
<1>3. new \in Calling /\ new.sample = call.sample /\ new.step = "make"
  BY <1>2 DEF Calling
<1>4. setting' = [o \in Setters |-> IF o = c THEN new ELSE setting[o]]
  BY <1>1, <1>2 DEF FindMiss, CurveOK, CallsOK
<1>5. UNCHANGED <<now, cachedDs, speedLabels, dHistory, disk, samples>>
  BY DEF FindMiss
<1>6. CallOK(new, cachedDs, samples)
  BY <1>1, <1>3 DEF CallOK
<1>7. CallsOK'
  BY <1>3, <1>4, <1>5, <1>6, NothingSet, CallsNext DEF CurveOK
<1> QED
  BY <1>5, <1>7, NothingSet, HistoriesSame DEF CurveOK

(* What Make does to the cache.                                             *)
LEMMA MakeMeans ==
  ASSUME CurveOK, NEW c \in Setters, Make(c)
  PROVE  LET entry == WithMap(cachedDs, SetKey(c), now + 2 * Speed(c))
         IN /\ now + 2 * Speed(c) \in Nat
            /\ cachedDs' = With(cachedDs, SetKey(c), entry)
            /\ setting' = [setting EXCEPT ![c].step = "load", ![c].map = Len(entry.maps)]
<1> DEFINE expires == now + 2 * Speed(c)
           maps == Append(IF SetKey(c) \in DOMAIN cachedDs THEN cachedDs[SetKey(c)].maps ELSE <<>>, {})
           entry == [maps |-> maps, expires |-> expires]
<1>1. expires \in Nat
  <2>1. Speed(c) \in Nat
    BY CallAtKey DEF Make
  <2>2. PICK s \in Nat, t \in Nat : s = Speed(c) /\ t = now
    BY <2>1 DEF CurveOK, CurveClock
  <2>3. t + 2 * s \in Nat
    OBVIOUS
  <2> QED
    BY <2>2, <2>3
<1>2. entry = WithMap(cachedDs, SetKey(c), expires)
  BY DEF WithMap
<1>3. cachedDs' = With(cachedDs, SetKey(c), entry)
  BY DEF Make
<1>4. setting' = [setting EXCEPT ![c].step = "load", ![c].map = Len(maps)]
  BY DEF Make
<1>5. entry.maps = maps
  OBVIOUS
<1> HIDE DEF expires, entry, maps
<1>7. setting' = [setting EXCEPT ![c].step = "load", ![c].map = Len(entry.maps)]
  BY <1>4, <1>5
<1> QED
  BY <1>1, <1>2, <1>3, <1>7 DEF expires

(* It makes one, which has nothing in it yet.                               *)
LEMMA MakeOK ==
  ASSUME CurveOK, NEW c \in Setters, Make(c)
  PROVE  CurveOK'
<1>1. PICK call \in Calling, key \in Speeds \X Nat : call = setting[c] /\ key = SetKey(c)
        /\ CallOK(call, cachedDs, samples) /\ key = KeyOf(call, samples)
  BY CallAtKey DEF Make
<1>2. PICK expires \in Nat : expires = now + 2 * Speed(c)
  BY MakeMeans
<1>3. PICK entry : entry = WithMap(cachedDs, key, expires)
  OBVIOUS
<1>4. /\ cachedDs' = With(cachedDs, key, entry)
      /\ setting' = [setting EXCEPT ![c].step = "load", ![c].map = Len(entry.maps)]
  BY <1>1, <1>2, <1>3, MakeMeans
<1>5. CacheOK(cachedDs', samples) /\ Grows(cachedDs, cachedDs')
  BY <1>3, <1>4, CacheMake DEF CurveOK
<1>6. PICK n \in Nat \ {0} : n = Len(entry.maps)
  BY <1>3, CacheMake DEF CurveOK
<1>7. key \in DOMAIN cachedDs' /\ Len(cachedDs'[key].maps) = n
  BY <1>4, <1>6 DEF With
<1>8. PICK new : new = [call EXCEPT !.step = "load", !.map = n]
  OBVIOUS
<1>9. /\ new \in Calling
      /\ new.sample = call.sample /\ new.step = "load" /\ new.turn = call.turn /\ new.map = n
  BY <1>8 DEF Calling
<1>10. setting' = [o \in Setters |-> IF o = c THEN new ELSE setting[o]]
  BY <1>1, <1>4, <1>6, <1>8 DEF CurveOK, CallsOK
<1>11. UNCHANGED <<now, speedLabels, dHistory, disk, samples>>
  BY DEF Make
<1>12. CallOK(new, cachedDs', samples)
  <2>1. KeyOf(new, samples) = key
    BY <1>1, <1>9 DEF KeyOf
  <2>2. n \in 1 .. Len(cachedDs'[key].maps)
    BY <1>7
  <2> QED
    BY <1>1, <1>7, <1>9, <2>1, <2>2 DEF CallOK
<1>13. Extends(samples, samples')
  BY <1>11, Reflexive DEF CurveOK, CurveClock
<1>14. CallsOK'
  BY <1>5, <1>9, <1>10, <1>11, <1>12, <1>13, CallsNext DEF CurveOK
<1> QED
  BY <1>5, <1>11, <1>14, HistoriesSame DEF CurveOK

(* It loads what is in it by now.                                           *)
LEMMA LoadValueOK ==
  ASSUME CurveOK, NEW c \in Setters, LoadValue(c)
  PROVE  CurveOK'
<1>1. PICK call \in Calling, key \in Speeds \X Nat : call = setting[c] /\ key = SetKey(c)
        /\ CallOK(call, cachedDs, samples) /\ key = KeyOf(call, samples) /\ call.step = "load"
  BY CallAtKey DEF LoadValue
<1>2. key \in DOMAIN cachedDs /\ call.map \in 1 .. Len(cachedDs[key].maps)
  BY <1>1 DEF CallOK
<1>3. PICK value \in SUBSET Nat :
        value = cachedDs[key].maps[call.map] /\ value \subseteq OfKey(samples, key)
  <2>1. cachedDs[key].maps \in Seq(SUBSET Nat)
    BY <1>2 DEF CurveOK, CacheOK, CacheEntry
  <2>2. cachedDs[key].maps[call.map] \in SUBSET Nat
    BY <1>2, <2>1, ElementOfSeq
  <2> QED
    BY <1>2, <2>2 DEF CurveOK, CacheOK
<1>4. PICK new : new = [call EXCEPT !.step = "store", !.value = value]
  OBVIOUS
<1>5. /\ new \in Calling /\ new.sample = call.sample /\ new.step = "store"
      /\ new.turn = call.turn /\ new.map = call.map /\ new.value = value
  BY <1>4 DEF Calling
<1>6. setting' = [o \in Setters |-> IF o = c THEN new ELSE setting[o]]
  BY <1>1, <1>3, <1>4 DEF LoadValue, CurveOK, CallsOK
<1>7. UNCHANGED <<now, cachedDs, speedLabels, dHistory, disk, samples>>
  BY DEF LoadValue
<1>8. CallOK(new, cachedDs, samples)
  <2>1. KeyOf(new, samples) = key
    BY <1>1, <1>5 DEF KeyOf
  <2> QED
    BY <1>1, <1>2, <1>3, <1>5, <2>1 DEF CallOK
<1>9. CallsOK'
  BY <1>5, <1>6, <1>7, <1>8, NothingSet, CallsNext DEF CurveOK
<1> QED
  BY <1>7, <1>9, NothingSet, HistoriesSame DEF CurveOK

(* What StoreValue does to the cache and to the call.                       *)
LEMMA StoreMeans ==
  ASSUME CurveOK, NEW c \in Setters, StoreValue(c)
  PROVE  LET key == SetKey(c)
             m == setting[c].map
             v == setting[c].value \cup {setting[c].sample}
         IN /\ key \in DOMAIN cachedDs
            /\ m \in 1 .. Len(cachedDs[key].maps)
            /\ v \in SUBSET OfKey(samples, key)
            /\ cachedDs' = Stored(cachedDs, key, m, v)
<1>1. PICK call \in Calling, key \in Speeds \X Nat : call = setting[c] /\ key = SetKey(c)
        /\ CallOK(call, cachedDs, samples) /\ key = KeyOf(call, samples) /\ call.step = "store"
        /\ call.sample \in OfKey(samples, key)
  BY CallAtKey DEF StoreValue
<1>2. key \in DOMAIN cachedDs /\ call.map \in 1 .. Len(cachedDs[key].maps)
      /\ call.value \subseteq OfKey(samples, key)
  BY <1>1 DEF CallOK
<1>3. call.value \cup {call.sample} \in SUBSET OfKey(samples, key)
  BY <1>1, <1>2
<1> QED
  BY <1>1, <1>2, <1>3 DEF StoreValue, Stored

(* The same, with names.                                                    *)
LEMMA StoreNamed ==
  ASSUME CurveOK, NEW c \in Setters, StoreValue(c)
  PROVE  \E key, m, v :
           /\ key = SetKey(c) /\ m = setting[c].map /\ v = setting[c].value \cup {setting[c].sample}
           /\ key \in DOMAIN cachedDs
           /\ m \in 1 .. Len(cachedDs[key].maps)
           /\ v \in SUBSET OfKey(samples, key)
           /\ cachedDs' = Stored(cachedDs, key, m, v)
<1>1. PICK key, m, v :
        key = SetKey(c) /\ m = setting[c].map /\ v = setting[c].value \cup {setting[c].sample}
  OBVIOUS
<1>2. /\ key \in DOMAIN cachedDs
      /\ m \in 1 .. Len(cachedDs[key].maps)
      /\ v \in SUBSET OfKey(samples, key)
      /\ cachedDs' = Stored(cachedDs, key, m, v)
  BY <1>1, StoreMeans
<1> QED
  BY <1>1, <1>2

(* The call goes on to the next speed, or ends.                             *)
LEMMA StoreCallMeans ==
  ASSUME CurveOK, NEW c \in Setters, StoreValue(c)
  PROVE  \E new \in Calling \cup {NoCall} :
           /\ setting' = [o \in Setters |-> IF o = c THEN new ELSE setting[o]]
           /\ new = IF setting[c].turn = Len(speeds) THEN NoCall
                    ELSE [setting[c] EXCEPT !.step = "find", !.turn = @ + 1, !.map = 0, !.value = {}]
           /\ new # NoCall =>
                /\ new.step = "find" /\ new.sample = setting[c].sample /\ new.alone = setting[c].alone
                /\ new.turn = setting[c].turn + 1
<1>1. PICK call \in Calling : call = setting[c]
  BY CallAtKey DEF StoreValue
<1>2. CASE call.turn < Len(speeds)
  <2>1. PICK new : new = [call EXCEPT !.step = "find", !.turn = @ + 1, !.map = 0, !.value = {}]
    OBVIOUS
  <2>2. call.turn + 1 \in 1 .. Len(speeds) /\ call.turn # Len(speeds)
    <3>1. call.turn \in 1 .. Len(speeds) /\ Len(speeds) \in Nat
      BY SpeedTypes DEF Calling
    <3> QED
      BY <1>2, <3>1
  <2>3. /\ new \in Calling /\ new.step = "find" /\ new.sample = call.sample /\ new.alone = call.alone
        /\ new.turn = call.turn + 1
    BY <2>1, <2>2 DEF Calling
  <2>4. setting' = [setting EXCEPT ![c].step = "find", ![c].turn = @ + 1, ![c].map = 0, ![c].value = {}]
    BY <1>1, <2>2 DEF StoreValue
  <2>5. setting' = [o \in Setters |-> IF o = c THEN new ELSE setting[o]]
    BY <1>1, <2>1, <2>4 DEF CurveOK, CallsOK
  <2> QED
    BY <1>1, <2>1, <2>2, <2>3, <2>5
<1>3. CASE call.turn = Len(speeds)
  <2>1. setting' = [setting EXCEPT ![c] = NoCall]
    <3>1. ~(call.turn < Len(speeds))
      BY <1>3, SpeedTypes
    <3> QED
      BY <1>1, <3>1 DEF StoreValue
  <2>2. setting' = [o \in Setters |-> IF o = c THEN NoCall ELSE setting[o]]
    BY <2>1 DEF CurveOK, CallsOK
  <2> QED
    BY <1>1, <1>3, <2>2
<1> QED
  <2>1. call.turn \in 1 .. Len(speeds) /\ Len(speeds) \in Nat
    BY SpeedTypes DEF Calling
  <2>2. call.turn < Len(speeds) \/ call.turn = Len(speeds)
    BY <2>1
  <2> QED
    BY <1>2, <1>3, <2>2

(* It stores the value with its own sample, at the key the sample is of.    *)
LEMMA StoreValueOK ==
  ASSUME CurveOK, NEW c \in Setters, StoreValue(c)
  PROVE  CurveOK'
<1>1. PICK key, m, v :
        /\ key = SetKey(c) /\ m = setting[c].map /\ v = setting[c].value \cup {setting[c].sample}
        /\ key \in DOMAIN cachedDs
        /\ m \in 1 .. Len(cachedDs[key].maps)
        /\ v \in SUBSET OfKey(samples, key)
        /\ cachedDs' = Stored(cachedDs, key, m, v)
  BY StoreNamed
<1>2. CacheOK(cachedDs', samples) /\ Grows(cachedDs, cachedDs')
  BY <1>1, CacheStore DEF CurveOK, CurveClock
<1>3. PICK new \in Calling \cup {NoCall} :
        /\ setting' = [o \in Setters |-> IF o = c THEN new ELSE setting[o]]
        /\ new # NoCall => new.step = "find" /\ new.sample = setting[c].sample
  BY StoreCallMeans
<1>4. UNCHANGED <<now, speedLabels, dHistory, disk, samples>>
  BY DEF StoreValue
<1>5. new # NoCall => CallOK(new, cachedDs', samples)
  <2>1. CallOK(setting[c], cachedDs, samples)
    BY CallAtKey DEF StoreValue
  <2> QED
    BY <1>3, <2>1 DEF CallOK
<1>6. Extends(samples, samples')
  BY <1>4, Reflexive DEF CurveOK, CurveClock
<1>7. CallsOK'
  BY <1>2, <1>3, <1>4, <1>5, <1>6, CallsNext DEF CurveOK
<1> QED
  BY <1>2, <1>4, <1>7, HistoriesSame DEF CurveOK

(* A later label begins later.                                              *)
LEMMA LaterLabel ==
  ASSUME NEW s \in Nat \ {0}, NEW a \in Nat, NEW b \in Nat, a < b
  PROVE  LabelTime(s, a) < LabelTime(s, b)
<1>1. PICK x \in Int, y \in Int : x = LabelTime(s, a) /\ y = LabelTime(s, b)
  BY MultipleType
<1>2. x + s <= y
  BY <1>1, MultiplesOrdered
<1> QED
  BY <1>1, <1>2

(* The routine adds a point that is later than all there are.               *)
LEMMA PointAdded ==
  ASSUME NEW S \in Seq(Nat), NEW speed \in Nat \ {0}, NEW last \in Nat, NEW next \in Nat, last < next,
         NEW points, PointsOK(S, speed, last, points),
         NEW data \in SUBSET OfKey(S, <<speed, last>>), data # {},
         NEW p, p = [at |-> LabelTime(speed, last), data |-> data]
  PROVE  /\ PointsOK(S, speed, next, Append(points, p))
         /\ Append(points, p) # <<>>
         /\ Len(Append(points, p)) = Len(points) + 1
         /\ Append(points, p)[Len(points) + 1] = p
<1>1. points \in Seq(CurvePoint)
  BY DEF PointsOK
<1>2. PICK m \in Nat : m = Len(points)
  BY <1>1, LenProperties
<1>3. PICK time \in Int : time = LabelTime(speed, last)
  BY MultipleType
<1>4. p \in CurvePoint /\ p.at = time /\ p.data = data
  <2>1. data \in SUBSET Nat
    BY OfKeyType
  <2> QED
    BY <1>3, <2>1 DEF CurvePoint
<1>5. PICK t : t = Append(points, p)
  OBVIOUS
<1>6. /\ t \in Seq(CurvePoint) /\ t # <<>> /\ Len(t) = m + 1
      /\ t[m + 1] = p /\ \A i \in 1 .. m : t[i] = points[i]
  <2>1. PICK e \in CurvePoint : e = p
    BY <1>4
  <2>2. t = Append(points, e)
    BY <1>5, <2>1
  <2>3. /\ t \in Seq(CurvePoint) /\ t # <<>> /\ Len(t) = m + 1
        /\ t[m + 1] = e /\ \A i \in 1 .. m : t[i] = points[i]
    BY <1>1, <1>2, <2>2, AppendProperties
  <2> QED
    BY <2>1, <2>3
<1>7. ASSUME NEW i \in 1 .. m
      PROVE  PointOK(S, speed, next, points[i]) /\ points[i].at < time
  <2>1. PointOK(S, speed, last, points[i])
    BY <1>2 DEF PointsOK
  <2>2. PICK q \in Nat : /\ q < last /\ points[i].at = LabelTime(speed, q)
                         /\ points[i].data \subseteq OfKey(S, <<speed, q>>)
    BY <2>1 DEF PointOK
  <2>3. q < next
    BY <2>2
  <2>4. points[i].at < time
    BY <1>3, <2>2, LaterLabel
  <2> QED
    BY <2>1, <2>2, <2>3, <2>4 DEF PointOK
<1>8. PointOK(S, speed, next, p)
  BY <1>4 DEF PointOK
<1>9. \A i \in 1 .. (m + 1) : PointOK(S, speed, next, t[i])
  <2>1. ASSUME NEW i \in 1 .. (m + 1)
        PROVE  PointOK(S, speed, next, t[i])
    <3>1. CASE i \in 1 .. m
      BY <1>6, <1>7, <3>1
    <3>2. CASE i = m + 1
      BY <1>6, <1>8, <3>2
    <3> QED
      BY <3>1, <3>2
  <2> QED
    BY <2>1
<1>10. \A i, j \in 1 .. (m + 1) : i < j => t[i].at < t[j].at
  <2>1. ASSUME NEW i \in 1 .. (m + 1), NEW j \in 1 .. (m + 1), i < j
        PROVE  t[i].at < t[j].at
    <3>1. i \in 1 .. m
      BY <2>1
    <3>2. CASE j \in 1 .. m
      <4>1. points[i].at < points[j].at
        BY <1>2, <2>1, <3>1, <3>2 DEF PointsOK
      <4> QED
        BY <1>6, <3>1, <3>2, <4>1
    <3>3. CASE j = m + 1
      BY <1>4, <1>6, <1>7, <3>1, <3>3
    <3> QED
      BY <3>2, <3>3
  <2> QED
    BY <2>1
<1>11. PointsOK(S, speed, next, t)
  BY <1>6, <1>9, <1>10 DEF PointsOK
<1> QED
  BY <1>2, <1>5, <1>6, <1>11

(* And drops the oldest when there are too many.                            *)
LEMMA PointsTrimmed ==
  ASSUME NEW S, NEW speed, NEW last, NEW points, PointsOK(S, speed, last, points), points # <<>>
  PROVE  PointsOK(S, speed, last, Trimmed(points))
<1>1. points \in Seq(CurvePoint)
  BY DEF PointsOK
<1>2. PICK m \in Nat \ {0} : m = Len(points)
  BY <1>1, EmptySeq
<1>3. PICK t : t = Tail(points)
  OBVIOUS
<1>4. t \in Seq(CurvePoint) /\ Len(t) = m - 1 /\ \A i \in 1 .. (m - 1) : t[i] = points[i + 1]
  BY <1>1, <1>2, <1>3, HeadTailProperties
<1>5. \A i \in 1 .. (m - 1) : i + 1 \in 1 .. m
  OBVIOUS
<1>6. \A i \in 1 .. (m - 1) : PointOK(S, speed, last, t[i])
  BY <1>2, <1>4, <1>5 DEF PointsOK
<1>7. \A i, j \in 1 .. (m - 1) : i < j => t[i].at < t[j].at
  <2>1. ASSUME NEW i \in 1 .. (m - 1), NEW j \in 1 .. (m - 1), i < j
        PROVE  t[i].at < t[j].at
    <3>1. PICK k \in 1 .. m, l \in 1 .. m : k = i + 1 /\ l = j + 1 /\ k < l
      BY <1>5, <2>1
    <3>2. points[k].at < points[l].at
      BY <1>2, <3>1 DEF PointsOK
    <3> QED
      BY <1>4, <3>1, <3>2
  <2> QED
    BY <2>1
<1>8. PointsOK(S, speed, last, t)
  BY <1>4, <1>6, <1>7 DEF PointsOK
<1> QED
  BY <1>3, <1>8 DEF Trimmed

(* What a label has gathered is of the label.                               *)
LEMMA GatheredOfKey ==
  ASSUME CurveOK, NEW speed, NEW label
  PROVE  Gathered(speed, label) \subseteq OfKey(samples, <<speed, label>>)
<1>1. PICK key : key = <<speed, label>> /\ key = CachedKey(speed, label)
  BY DEF CachedKey
<1>2. CASE Cached(key)
  <2>1. key \in DOMAIN cachedDs
    BY <1>2 DEF Cached
  <2>2. /\ cachedDs[key].maps \in Seq(SUBSET Nat) /\ Len(cachedDs[key].maps) # 0
        /\ \A i \in 1 .. Len(cachedDs[key].maps) : cachedDs[key].maps[i] \subseteq OfKey(samples, key)
    BY <2>1 DEF CurveOK, CacheOK, CacheEntry
  <2>3. PICK n \in Nat : n = Len(cachedDs[key].maps) /\ n # 0
    BY <2>2, LenProperties
  <2>4. n \in 1 .. n /\ Last(cachedDs[key].maps) = cachedDs[key].maps[n]
    BY <2>3 DEF Last
  <2> QED
    BY <1>1, <1>2, <2>2, <2>3, <2>4 DEF Gathered
<1>3. CASE ~Cached(key)
  BY <1>1, <1>3 DEF Gathered
<1> QED
  BY <1>2, <1>3

(* The routine closes a label: the point has what was gathered for it.      *)
LEMMA CloseOK ==
  ASSUME CurveOK, NEW speed \in Speeds, Close(speed)
  PROVE  CurveOK'
<1>1. PICK s \in Nat \ {0} : s = speed /\ s \in Speeds
  BY SpeedTypes
<1>2. PICK last \in Nat, next \in Nat : last = speedLabels[s] /\ next = Label(s, now) /\ last < next
  <2>1. speedLabels[s] \in Nat /\ Label(s, now) \in Nat
    BY <1>1, InSpan DEF CurveOK, CurveClock
  <2>2. speedLabels[s] <= Label(s, now) /\ Label(s, now) # speedLabels[s]
    BY <1>1 DEF CurveOK, CurveClock, Close
  <2> QED
    BY <2>1, <2>2
<1>3. speedLabels' = [speedLabels EXCEPT ![s] = next] /\ UNCHANGED <<now, cachedDs, setting, samples>>
  BY <1>1, <1>2 DEF Close
<1>4. CurveClock'
  <2>1. speedLabels' \in [Speeds -> Nat]
    BY <1>1, <1>3 DEF CurveOK, CurveClock
  <2>2. \A x \in Speeds : speedLabels'[x] <= Label(x, now)
    <3>1. ASSUME NEW x \in Speeds
          PROVE  speedLabels'[x] <= Label(x, now)
      <4>1. CASE x = s
        BY <1>2, <1>3, <4>1 DEF CurveOK, CurveClock
      <4>2. CASE x # s
        BY <1>3, <4>2 DEF CurveOK, CurveClock
      <4> QED
        BY <4>1, <4>2
    <3> QED
      BY <3>1
  <2> QED
    BY <1>3, <2>1, <2>2 DEF CurveOK, CurveClock
<1>5. CallsOK' /\ CacheOK(cachedDs', samples')
  BY <1>3 DEF CurveOK, CallsOK
<1>6. PICK S \in Seq(Nat) : S = samples /\ Extends(S, S)
  BY Reflexive DEF CurveOK, CurveClock
<1>7. ASSUME NEW x \in Speeds
      PROVE  /\ PointsOK(S, x, speedLabels'[x], dHistory[x])
             /\ PointsOK(S, x, speedLabels'[x], disk[x])
  <2>1. PICK a \in Nat, b \in Nat : a = speedLabels[x] /\ b = speedLabels'[x] /\ a <= b
    <3>1. CASE x = s
      BY <1>2, <1>3, <3>1 DEF CurveOK, CurveClock
    <3>2. CASE x # s
      <4>1. speedLabels[x] \in Nat /\ speedLabels'[x] = speedLabels[x]
        BY <1>3, <3>2 DEF CurveOK, CurveClock
      <4> QED
        BY <4>1
    <3> QED
      BY <3>1, <3>2
  <2>2. PointsOK(S, x, a, dHistory[x]) /\ PointsOK(S, x, a, disk[x])
    BY <1>6, <2>1 DEF CurveOK, HistoriesOK
  <2> QED
    BY <1>6, <2>1, <2>2, PointsStay
<1>8. HistoriesOK'
  <2>1. CASE UNCHANGED <<dHistory, disk>>
    BY <1>3, <1>6, <1>7, <2>1 DEF CurveOK, HistoriesOK
  <2>2. CASE ~UNCHANGED <<dHistory, disk>>
    <3>1. PICK data : data = Gathered(s, last) /\ data # {} /\ data \in SUBSET OfKey(S, <<s, last>>)
      <4>1. Gathered(s, last) # {}
        BY <1>1, <1>2, <2>2 DEF Close
      <4> QED
        BY <1>6, <4>1, GatheredOfKey
    <3>2. PICK p : p = [at |-> LabelTime(s, last), data |-> data]
      OBVIOUS
    <3>3. PICK old : old = dHistory[s]
      OBVIOUS
    <3>4. PointsOK(S, s, last, old)
      BY <1>1, <1>2, <1>6, <3>3 DEF CurveOK, HistoriesOK
    <3>5. PICK points : points = Trimmed(Append(old, p))
      OBVIOUS
    <3>6. PointsOK(S, s, next, points)
      <4>1. PICK t : t = Append(old, p)
        OBVIOUS
      <4>2. PointsOK(S, s, next, t) /\ t # <<>>
        BY <1>2, <3>1, <3>2, <3>4, <4>1, PointAdded
      <4>3. PointsOK(S, s, next, Trimmed(t))
        BY <4>2, PointsTrimmed
      <4> QED
        BY <3>5, <4>1, <4>3
    <3>7. dHistory' = [dHistory EXCEPT ![s] = points]
      BY <1>1, <1>2, <2>2, <3>1, <3>2, <3>3, <3>5 DEF Close, PointTime
    <3>8. points \in Seq(CurvePoint)
      BY <3>6 DEF PointsOK
    <3>9. dHistory' \in [Speeds -> Seq(CurvePoint)] /\ dHistory'[s] = points
          /\ \A x \in Speeds : x # s => dHistory'[x] = dHistory[x]
      BY <1>1, <3>7, <3>8 DEF CurveOK, HistoriesOK
    <3>10. disk' = [disk EXCEPT ![s] = points] \/ disk' = disk
      BY <1>1, <2>2, <3>9 DEF Close
    <3>11. disk' \in [Speeds -> Seq(CurvePoint)]
          /\ \A x \in Speeds : disk'[x] = disk[x] \/ (x = s /\ disk'[x] = points)
      BY <1>1, <3>8, <3>10 DEF CurveOK, HistoriesOK
    <3>12. speedLabels'[s] = next
      BY <1>1, <1>3 DEF CurveOK, CurveClock
    <3>13. ASSUME NEW x \in Speeds
           PROVE  /\ PointsOK(S, x, speedLabels'[x], dHistory'[x])
                  /\ PointsOK(S, x, speedLabels'[x], disk'[x])
      <4>1. CASE x = s
        BY <1>7, <3>6, <3>9, <3>11, <3>12, <4>1
      <4>2. CASE x # s
        BY <1>7, <3>9, <3>11, <4>2
      <4> QED
        BY <4>1, <4>2
    <3> QED
      BY <1>3, <1>6, <3>9, <3>11, <3>13 DEF HistoriesOK
  <2> QED
    BY <2>1, <2>2
<1> QED
  BY <1>4, <1>5, <1>8 DEF CurveOK

(* Time goes on, and labels with it.                                        *)
LEMMA TickOK ==
  ASSUME CurveOK, Tick
  PROVE  CurveOK'
<1>1. PICK t \in Nat : t = now /\ now' = t + 1
  BY DEF CurveOK, CurveClock, Tick
<1>2. UNCHANGED <<cachedDs, setting, speedLabels, dHistory, disk, samples>>
  BY DEF Tick
<1>3. CurveClock'
  <2>1. \A x \in 1 .. Len(samples) : samples[x] <= t + 1
    <3>1. ASSUME NEW x \in 1 .. Len(samples)
          PROVE  samples[x] <= t + 1
      <4>1. samples[x] \in Nat /\ samples[x] <= t
        BY <1>1, ElementOfSeq DEF CurveOK, CurveClock
      <4> QED
        BY <4>1
    <3> QED
      BY <3>1
  <2>2. \A speed \in Speeds : speedLabels[speed] <= Label(speed, t + 1)
    <3>1. ASSUME NEW speed \in Speeds
          PROVE  speedLabels[speed] <= Label(speed, t + 1)
      <4>1. PICK s \in Nat \ {0} : s = speed
        BY SpeedTypes
      <4>2. PICK a \in Nat, b \in Nat : a = Label(s, t) /\ b = Label(s, t + 1)
        BY InSpan
      <4>3. a <= b
        BY <4>2, LabelsGoOn
      <4>4. speedLabels[speed] \in Nat /\ speedLabels[speed] <= a
        BY <1>1, <4>1, <4>2 DEF CurveOK, CurveClock
      <4> QED
        BY <4>1, <4>2, <4>3, <4>4
    <3> QED
      BY <3>1
  <2> QED
    BY <1>1, <1>2, <2>1, <2>2 DEF CurveOK, CurveClock
<1>4. CallsOK' /\ CacheOK(cachedDs', samples') /\ HistoriesOK'
  BY <1>2 DEF CurveOK, CallsOK, HistoriesOK
<1> QED
  BY <1>3, <1>4 DEF CurveOK

(* An empty history is as good as any.                                      *)
LEMMA NoPoints ==
  ASSUME NEW S, NEW speed, NEW last
  PROVE  PointsOK(S, speed, last, <<>>)
<1>1. <<>> \in Seq(CurvePoint) /\ Len(<<>>) = 0
  BY EmptySeq
<1> QED
  BY <1>1 DEF PointsOK

(* So is an empty cache.                                                    *)
LEMMA NoCache ==
  ASSUME NEW S
  PROVE  CacheOK(<<>>, S)
<1>1. DOMAIN <<>> = {}
  OBVIOUS
<1> QED
  BY <1>1 DEF CacheOK

(* After a restart there is what was saved, or nothing.                     *)
LEMMA RestartOK ==
  ASSUME CurveOK, Restart
  PROVE  CurveOK'
<1>1. UNCHANGED <<now, disk, samples>> /\ cachedDs' = <<>> /\ setting' = [c \in Setters |-> NoCall]
      /\ speedLabels' = [speed \in Speeds |-> Label(speed, now)]
  BY DEF Restart
<1>2. \A speed \in Speeds : speedLabels'[speed] = Label(speed, now) /\ Label(speed, now) \in Nat
  BY <1>1, SpeedTypes, InSpan DEF CurveOK, CurveClock
<1>3. CurveClock'
  BY <1>1, <1>2 DEF CurveOK, CurveClock
<1>4. CallsOK'
  BY <1>1 DEF CallsOK
<1>5. CacheOK(cachedDs', samples')
  BY <1>1, NoCache
<1>6. PICK S \in Seq(Nat) : S = samples /\ Extends(S, S)
  BY Reflexive DEF CurveOK, CurveClock
<1>7. ASSUME NEW x \in Speeds
      PROVE  /\ PointsOK(S, x, speedLabels'[x], dHistory[x])
             /\ PointsOK(S, x, speedLabels'[x], disk[x])
  <2>1. PICK a \in Nat, b \in Nat : a = speedLabels[x] /\ b = speedLabels'[x] /\ a <= b
    BY <1>2 DEF CurveOK, CurveClock
  <2>2. PointsOK(S, x, a, dHistory[x]) /\ PointsOK(S, x, a, disk[x])
    BY <1>6, <2>1 DEF CurveOK, HistoriesOK
  <2> QED
    BY <1>6, <2>1, <2>2, PointsStay
<1>8. HistoriesOK'
  <2>1. CASE dHistory' = disk
    BY <1>1, <1>6, <1>7, <2>1 DEF CurveOK, HistoriesOK
  <2>2. CASE dHistory' = [speed \in Speeds |-> <<>>]
    <3>1. PICK none \in Seq(CurvePoint) : none = <<>>
      BY EmptySeq
    <3>2. dHistory' \in [Speeds -> Seq(CurvePoint)] /\ \A x \in Speeds : dHistory'[x] = none
      BY <2>2, <3>1
    <3>3. \A x \in Speeds : PointsOK(S, x, speedLabels'[x], dHistory'[x])
      BY <3>1, <3>2, NoPoints
    <3> QED
      BY <1>1, <1>6, <1>7, <3>2, <3>3 DEF CurveOK, HistoriesOK
  <2> QED
    BY <2>1, <2>2 DEF Restart
<1> QED
  BY <1>3, <1>4, <1>5, <1>8 DEF CurveOK

(* It all holds at first,                                                   *)
LEMMA InitCurveOK == Init => CurveOK
<1> SUFFICES ASSUME Init
             PROVE  CurveOK
  OBVIOUS
<1>1. <<>> \in Seq(Nat) /\ Len(<<>>) = 0
  BY EmptySeq
<1>2. CurveClock
  <2>1. \A speed \in Speeds : 0 <= Label(speed, 0)
    <3>1. 0 \in Nat
      OBVIOUS
    <3> QED
      BY <3>1, SpeedTypes, InSpan
  <2>2. now = 0 /\ speedLabels \in [Speeds -> Nat] /\ \A speed \in Speeds : speedLabels[speed] = 0
    BY DEF Init
  <2>3. samples \in Seq(Nat) /\ Len(samples) = 0
    BY <1>1 DEF Init
  <2> QED
    BY <2>1, <2>2, <2>3 DEF CurveClock
<1>3. CallsOK
  BY DEF Init, CallsOK
<1>4. CacheOK(cachedDs, samples)
  BY NoCache DEF Init
<1>5. HistoriesOK
  <2>1. PICK none \in Seq(CurvePoint) : none = <<>>
    BY EmptySeq
  <2>2. /\ dHistory \in [Speeds -> Seq(CurvePoint)] /\ disk \in [Speeds -> Seq(CurvePoint)]
        /\ \A x \in Speeds : dHistory[x] = none /\ disk[x] = none
    BY <2>1 DEF Init
  <2> QED
    BY <2>1, <2>2, NoPoints DEF HistoriesOK
<1> QED
  BY <1>2, <1>3, <1>4, <1>5 DEF CurveOK

(* and whatever is done.                                                    *)
LEMMA NextCurveOK == CurveOK /\ [Next]_vars => CurveOK'
<1> SUFFICES ASSUME CurveOK, [Next]_vars
             PROVE  CurveOK'
  OBVIOUS
<1>1. ASSUME NEW c \in Setters,
             SetBegin(c) \/ FindHit(c) \/ FindMiss(c) \/ Make(c) \/ LoadValue(c) \/ StoreValue(c)
      PROVE  CurveOK'
  BY <1>1, SetBeginOK, FindHitOK, FindMissOK, MakeOK, LoadValueOK, StoreValueOK
<1>2. ASSUME NEW speed \in Speeds, Close(speed)
      PROVE  CurveOK'
  BY <1>2, CloseOK
<1>3. CASE Tick
  BY <1>3, TickOK
<1>4. CASE Restart
  BY <1>4, RestartOK
<1>5. CASE UNCHANGED vars
  <2>1. UNCHANGED <<now, cachedDs, setting, speedLabels, dHistory, disk, samples>>
    BY <1>5 DEF vars
  <2> QED
    BY <2>1 DEF CurveOK, CurveClock, CallsOK, HistoriesOK
<1> QED
  BY <1>1, <1>2, <1>3, <1>4, <1>5 DEF Next

(* The curves show what the history holds, each sample at the time it was   *)
(* set at.                                                                  *)
LEMMA CurveOKShows == CurveOK => CurvesShowHistory
<1> SUFFICES ASSUME CurveOK, NEW speed \in Speeds, dHistory[speed] # <<>>, NEW n \in {1, maxPointCount}
             PROVE  LET label == Label(speed, now)
                        curve == ToSet(GetCurves(speed, label, n))
                        asked == {p \in ToSet(Tail(dHistory[speed])) : p.at >= LabelTime(speed, label - n)}
                    IN /\ \A e \in curve : e.data = OfLabel(e.data, speed, Label(speed, e.at))
                       /\ asked \subseteq curve
  BY DEF CurvesShowHistory
<1>1. PICK s \in Nat \ {0} : s = speed /\ s \in Speeds
  BY SpeedTypes
<1>2. n \in Nat
  BY CurveAssumption
<1>3. PICK last \in Nat, label \in Nat : last = speedLabels[s] /\ label = Label(s, now) /\ last <= label
  <2>1. speedLabels[s] \in Nat /\ Label(s, now) \in Nat
    BY <1>1, InSpan DEF CurveOK, CurveClock
  <2> QED
    BY <1>1, <2>1 DEF CurveOK, CurveClock
<1>4. PointsOK(samples, s, last, dHistory[s])
  BY <1>1, <1>3 DEF CurveOK, HistoriesOK
<1>5. PICK curve : curve = ToSet(GetCurves(s, label, n))
  OBVIOUS
<1>6. /\ \A e \in curve : e.data = {} \/ e \in ToSet(dHistory[s])
      /\ \A p \in ToSet(Tail(dHistory[s])) : p.at >= LabelTime(s, label - n) => p \in curve
  BY <1>1, <1>2, <1>3, <1>4, <1>5, CurveOfHistory
<1>7. ASSUME NEW e \in ToSet(dHistory[s])
      PROVE  e.data = OfLabel(e.data, s, Label(s, e.at))
  <2>1. DOMAIN dHistory[s] = 1 .. Len(dHistory[s])
    BY <1>4, LenProperties DEF PointsOK
  <2>2. PointOK(samples, s, last, e)
    BY <1>4, <2>1 DEF PointsOK, ToSet
  <2>3. PICK q \in Nat : e.at = LabelTime(s, q) /\ e.data \subseteq OfKey(samples, <<s, q>>)
    BY <2>2 DEF PointOK
  <2>4. Label(s, e.at) = q
    BY <2>3, LabelOfTime
  <2>5. \A x \in e.data : Label(s, samples[x]) = q
    BY <2>3 DEF OfKey
  <2> QED
    BY <2>4, <2>5 DEF OfLabel
<1>8. \A e \in curve : e.data = OfLabel(e.data, s, Label(s, e.at))
  <2>1. ASSUME NEW e \in curve, e.data = {}
        PROVE  e.data = OfLabel(e.data, s, Label(s, e.at))
    BY <2>1 DEF OfLabel
  <2> QED
    BY <1>6, <1>7, <2>1
<1> QED
  BY <1>1, <1>3, <1>5, <1>6, <1>8

(* For any speeds, any goroutines that set samples and any length of the    *)
(* history, GetCurves shows at each time samples of that time only, and all *)
(* the points of the labels asked for but the oldest one.                   *)
THEOREM CurvesShow == Spec => []CurvesShowHistory
<1>1. Spec => []CurveOK
  BY InitCurveOK, NextCurveOK, PTL DEF Spec
<1> QED
  BY <1>1, CurveOKShows, PTL

-----------------------------------------------------------------------------
(* What was set with the cache to itself stays there until its label is     *)
(* closed.                                                                  *)

\* Where a sample of S is kept.
KeyAt(S, speed, x) == CachedKey(speed, Label(speed, S[x]))

\* The label after the key's has not ended.
FreshAt(t, key) == t < LabelTime(key[1], key[2] + 2)

Holds(cache, key, x) == key \in DOMAIN cache /\ x \in Last(cache[key].maps)

\* A call that will not take the sample away: it makes no map in the place of
\* that with the sample, nor stores a value without it.
Safe(call, S, key, x) ==
  KeyOf(call, S) = key => /\ call.step \notin {"make", "load"}
                          /\ call.step = "store" => x \in call.value

KeptAt(cache, calls, S, key, x) ==
  /\ Holds(cache, key, x)
  /\ \A c \in Setters : calls[c] # NoCall => Safe(calls[c], S, key, x)

AloneKept ==
  /\ alone \subseteq 1 .. Len(samples)
  /\ \A x \in alone, speed \in Speeds :
       LET key == KeyAt(samples, speed, x)
       IN FreshAt(now, key) => KeptAt(cachedDs, setting, samples, key, x)

\* A call that has had the cache to itself so far: its sample is kept at the
\* speeds it is done with, and the map it holds is the one in the cache.
Own(call, cache, S, t) ==
  /\ \A j \in 1 .. (call.turn - 1) :
       LET key == KeyAt(S, speeds[j], call.sample)
       IN FreshAt(t, key) =>
            /\ Holds(cache, key, call.sample)
            /\ key = KeyOf(call, S) => call.step \notin {"make", "load"}
  /\ call.step \in {"load", "store"} => call.map = Len(cache[KeyOf(call, S)].maps)

CallsAlone ==
  \A c \in Setters : setting[c] # NoCall /\ setting[c].alone =>
    /\ \A o \in Setters \ {c} : setting[o] = NoCall
    /\ Own(setting[c], cachedDs, samples, now)

\* A map is kept until the label after the next.
ExpiryOK == \A key \in DOMAIN cachedDs : LabelTime(key[1], key[2] + 2) <= cachedDs[key].expires

AloneOK == ExpiryOK /\ AloneKept /\ CallsAlone

(* Two labels on is two speeds later.                                       *)
LEMMA KeyTimes ==
  ASSUME NEW key \in Speeds \X Nat
  PROVE  /\ key[1] \in Nat \ {0} /\ key[2] \in Nat
         /\ LabelTime(key[1], key[2] + 2) \in Nat
         /\ LabelTime(key[1], key[2] + 2) = LabelTime(key[1], key[2]) + 2 * key[1]
<1>1. PICK s \in Nat \ {0}, q \in Nat : s = key[1] /\ q = key[2]
  BY SpeedTypes
<1>2. PICK r \in Nat : r = q + 2
  OBVIOUS
<1>3. LabelTime(s, r) \in Nat
  BY MultipleType
<1>4. r * s = q * s + 2 * s
  BY <1>2
<1> QED
  BY <1>1, <1>2, <1>3, <1>4 DEF LabelTime

(* A map outlives the label after its own.                                  *)
LEMMA FreshIsCached ==
  ASSUME CurveOK, ExpiryOK, NEW key \in DOMAIN cachedDs, FreshAt(now, key)
  PROVE  Cached(key)
<1>1. key \in Speeds \X Nat /\ cachedDs[key] \in CacheEntry
  BY DEF CurveOK, CacheOK
<1>2. PICK a \in Nat, e \in Nat, t \in Nat :
        a = LabelTime(key[1], key[2] + 2) /\ e = cachedDs[key].expires /\ t = now
  BY <1>1, KeyTimes DEF CurveOK, CurveClock, CacheEntry
<1>3. t < a /\ a <= e
  BY <1>2 DEF FreshAt, ExpiryOK
<1>4. t <= e
  BY <1>3
<1> QED
  BY <1>2, <1>4 DEF Cached

(* A sample's key is a key.                                                 *)
LEMMA KeyAtType ==
  ASSUME NEW S \in Seq(Nat), NEW speed \in Speeds, NEW x \in 1 .. Len(S)
  PROVE  KeyAt(S, speed, x) \in Speeds \X Nat
<1>1. PICK t \in Nat : t = S[x]
  BY ElementOfSeq
<1>2. Label(speed, t) \in Nat
  BY SpeedTypes, InSpan
<1> QED
  BY <1>1, <1>2 DEF KeyAt, CachedKey

(* A call that does not store, and an entry at another key, are no danger.  *)
LEMMA HoldsElsewhere ==
  ASSUME NEW cache, NEW key, NEW entry, NEW k, k # key, NEW x, Holds(cache, k, x)
  PROVE  Holds(With(cache, key, entry), k, x)
BY DEF Holds, With

(* A value is stored into the map of a call: what the value holds is held,  *)
(* and elsewhere nothing changes.                                           *)
LEMMA HoldsStored ==
  ASSUME NEW cache, NEW S \in Seq(Nat), CacheOK(cache, S), NEW key \in DOMAIN cache,
         NEW m \in 1 .. Len(cache[key].maps), NEW v \in SUBSET OfKey(S, key),
         NEW next, next = Stored(cache, key, m, v)
  PROVE  /\ \A k, x : Holds(cache, k, x) /\ (k = key => x \in v) => Holds(next, k, x)
         /\ \A x \in v : m = Len(cache[key].maps) => Holds(next, key, x)
<1>1. /\ DOMAIN next = DOMAIN cache
      /\ \A k \in DOMAIN cache : k # key => next[k] = cache[k]
      /\ next[key].maps = [cache[key].maps EXCEPT ![m] = v]
      /\ Len(next[key].maps) = Len(cache[key].maps)
  <2>1. /\ CacheOK(next, S) /\ Grows(cache, next)
        /\ DOMAIN next = DOMAIN cache
        /\ \A k \in DOMAIN cache : next[k].expires = cache[k].expires /\ (k # key => next[k] = cache[k])
        /\ next[key].maps = [cache[key].maps EXCEPT ![m] = v]
        /\ Len(next[key].maps) = Len(cache[key].maps)
    BY CacheStore
  <2> QED
    BY <2>1
<1>2. PICK old \in Seq(SUBSET Nat), n \in Nat : old = cache[key].maps /\ n = Len(old) /\ n # 0
  <2>1. cache[key].maps \in Seq(SUBSET Nat) /\ Len(cache[key].maps) # 0
    BY DEF CacheOK, CacheEntry
  <2> QED
    BY <2>1, LenProperties
<1>3. PICK new : new = [old EXCEPT ![m] = v]
  OBVIOUS
<1>4. Last(next[key].maps) = new[n] /\ Last(old) = old[n]
  BY <1>1, <1>2, <1>3 DEF Last
<1>5. new[n] = IF n = m THEN v ELSE old[n]
  <2>1. n \in DOMAIN old
    BY <1>2, LenProperties
  <2> QED
    BY <1>3, <2>1
<1>6. ASSUME NEW k, NEW x, Holds(cache, k, x), k = key => x \in v
      PROVE  Holds(next, k, x)
  <2>1. CASE k = key
    BY <1>1, <1>2, <1>4, <1>5, <1>6, <2>1 DEF Holds
  <2>2. CASE k # key
    BY <1>1, <1>6, <2>2 DEF Holds
  <2> QED
    BY <2>1, <2>2
<1>7. ASSUME NEW x \in v, m = n
      PROVE  Holds(next, key, x)
  BY <1>1, <1>4, <1>5, <1>7 DEF Holds
<1> QED
  BY <1>2, <1>6, <1>7

(* What was kept is kept if it is wherever it matters.                      *)
LEMMA KeptNext ==
  ASSUME CurveOK, AloneKept, Extends(samples, samples'), now' \in Nat, now <= now', alone' = alone,
         \A x \in alone, speed \in Speeds :
           LET key == KeyAt(samples, speed, x)
           IN FreshAt(now, key) /\ KeptAt(cachedDs, setting, samples, key, x)
                => KeptAt(cachedDs', setting', samples', key, x)
  PROVE  AloneKept'
<1>1. alone' \subseteq 1 .. Len(samples')
  BY ExtendsLengths DEF AloneKept
<1>2. ASSUME NEW x \in alone, NEW speed \in Speeds, FreshAt(now', KeyAt(samples', speed, x))
      PROVE  KeptAt(cachedDs', setting', samples', KeyAt(samples', speed, x), x)
  <2>1. x \in 1 .. Len(samples) /\ samples'[x] = samples[x]
    BY DEF AloneKept, Extends
  <2>2. PICK key : key = KeyAt(samples, speed, x) /\ key = KeyAt(samples', speed, x)
    BY <2>1 DEF KeyAt
  <2>3. key \in Speeds \X Nat
    BY <2>1, <2>2, KeyAtType DEF CurveOK, CurveClock
  <2>4. FreshAt(now, key)
    <3>1. PICK a \in Nat, t \in Nat, u \in Nat :
            a = LabelTime(key[1], key[2] + 2) /\ t = now /\ u = now' /\ t <= u
      BY <2>3, KeyTimes DEF CurveOK, CurveClock
    <3>2. u < a
      BY <1>2, <2>2, <3>1 DEF FreshAt
    <3>3. t < a
      BY <3>1, <3>2
    <3> QED
      BY <3>1, <3>3 DEF FreshAt
  <2>5. KeptAt(cachedDs, setting, samples, key, x)
    BY <2>2, <2>4 DEF AloneKept
  <2> QED
    BY <2>2, <2>4, <2>5
<1> QED
  BY <1>1, <1>2 DEF AloneKept

(* A step of one call: what is kept, and how the call that had the cache to *)
(* itself goes on.                                                          *)
LEMMA KeptByCall ==
  ASSUME CurveOK, AloneKept, UNCHANGED <<now, samples, alone>>,
         NEW c \in Setters, NEW new,
         setting' = [o \in Setters |-> IF o = c THEN new ELSE setting[o]],
         \A x \in alone, speed \in Speeds :
           LET key == KeyAt(samples, speed, x)
           IN FreshAt(now, key) /\ KeptAt(cachedDs, setting, samples, key, x)
                => Holds(cachedDs', key, x) /\ (new # NoCall => Safe(new, samples, key, x))
  PROVE  AloneKept'
<1>1. ASSUME NEW key, NEW x, KeptAt(cachedDs, setting, samples, key, x),
             Holds(cachedDs', key, x), new # NoCall => Safe(new, samples, key, x)
      PROVE  KeptAt(cachedDs', setting', samples', key, x)
  <2>1. ASSUME NEW o \in Setters, setting'[o] # NoCall
        PROVE  Safe(setting'[o], samples, key, x)
    <3>1. CASE o = c
      BY <1>1, <2>1, <3>1
    <3>2. CASE o # c
      <4>1. setting'[o] = setting[o]
        BY <3>2
      <4> QED
        BY <1>1, <2>1, <4>1 DEF KeptAt
    <3> QED
      BY <3>1, <3>2
  <2> QED
    BY <1>1, <2>1 DEF KeptAt
<1>2. Extends(samples, samples')
  BY Reflexive DEF CurveOK, CurveClock
<1>3. now' \in Nat /\ now <= now'
  <2>1. PICK t \in Nat : t = now
    BY DEF CurveOK, CurveClock
  <2> QED
    BY <2>1
<1>4. \A x \in alone, speed \in Speeds :
        LET key == KeyAt(samples, speed, x)
        IN FreshAt(now, key) /\ KeptAt(cachedDs, setting, samples, key, x)
             => KeptAt(cachedDs', setting', samples', key, x)
  BY <1>1
<1> QED
  BY <1>2, <1>3, <1>4, KeptNext

LEMMA AloneByCall ==
  ASSUME CallsAlone, UNCHANGED <<now, samples>>, NEW c \in Setters, setting[c] # NoCall, NEW new,
         setting' = [o \in Setters |-> IF o = c THEN new ELSE setting[o]],
         new # NoCall /\ new.alone =>
           setting[c].alone /\ (Own(setting[c], cachedDs, samples, now) => Own(new, cachedDs', samples, now))
  PROVE  CallsAlone'
<1> SUFFICES ASSUME NEW o \in Setters, setting'[o] # NoCall, setting'[o].alone
             PROVE  /\ \A k \in Setters \ {o} : setting'[k] = NoCall
                    /\ Own(setting'[o], cachedDs', samples, now)
  BY DEF CallsAlone
<1>1. CASE o = c
  <2>1. new # NoCall /\ new.alone /\ setting'[o] = new
    BY <1>1
  <2>2. \A k \in Setters \ {c} : setting[k] = NoCall
    BY <2>1 DEF CallsAlone
  <2>3. Own(new, cachedDs', samples, now)
    BY <2>1 DEF CallsAlone
  <2> QED
    BY <1>1, <2>1, <2>2, <2>3
<1>2. CASE o # c
  <2>1. setting'[o] = setting[o]
    BY <1>2
  <2>2. setting[c] = NoCall
    BY <1>2, <2>1 DEF CallsAlone
  <2> QED
    BY <2>2
<1> QED
  BY <1>1, <1>2

(* A call that begins takes nothing away, and has nothing to show yet.      *)
(* Those under way are alone no more.                                       *)
LEMMA SetBeginAlone ==
  ASSUME CurveOK, AloneOK, NEW c \in Setters, SetBegin(c)
  PROVE  AloneOK'
<1>1. PICK t \in Nat, S \in Seq(Nat), m \in Nat : t = now /\ S = samples /\ m = Len(S)
  BY LenProperties DEF CurveOK, CurveClock
<1>2. PICK T : T = samples'
  OBVIOUS
<1>3. T \in Seq(Nat) /\ Len(T) = m + 1 /\ T[m + 1] = t /\ \A x \in 1 .. m : T[x] = S[x]
  <2>1. T = Append(S, t)
    BY <1>1, <1>2 DEF SetBegin
  <2> QED
    BY <1>1, <2>1, AppendProperties
<1>4. Extends(samples, samples')
  BY <1>1, <1>2, <1>3 DEF Extends
<1>5. UNCHANGED <<now, cachedDs, alone>>
  BY DEF SetBegin
<1>6. Grows(cachedDs, cachedDs)
  BY Reflexive DEF CurveOK
<1>7. PICK b \in BOOLEAN : b = \A x \in Setters : setting[x] = NoCall
  OBVIOUS
<1>8. PICK new : new = [step |-> "find", turn |-> 1, sample |-> m + 1, map |-> 0, value |-> {}, alone |-> b]
  OBVIOUS
<1>9. setting' = [o \in Setters |->
        IF o = c THEN new ELSE IF setting[o] = NoCall THEN NoCall ELSE [setting[o] EXCEPT !.alone = FALSE]]
  BY <1>1, <1>2, <1>3, <1>7, <1>8 DEF SetBegin
<1>10. ASSUME NEW o \in Setters, o # c, setting[o] # NoCall
       PROVE  /\ setting[o] \in Calling
              /\ CallOK(setting[o], cachedDs, samples)
              /\ setting'[o].alone = FALSE /\ setting'[o].step = setting[o].step
              /\ setting'[o].value = setting[o].value
              /\ KeyOf(setting'[o], T) = KeyOf(setting[o], S)
  <2>1. PICK call \in Calling : call = setting[o] /\ CallOK(call, cachedDs, samples)
    BY <1>10 DEF CurveOK, CallsOK
  <2>2. PICK call2 : call2 = [call EXCEPT !.alone = FALSE]
    OBVIOUS
  <2>3. /\ call2.sample = call.sample /\ call2.step = call.step /\ call2.turn = call.turn
        /\ call2.value = call.value /\ call2.alone = FALSE
    BY <2>2 DEF Calling
  <2>4. setting'[o] = call2
    BY <1>9, <1>10, <2>1, <2>2
  <2>5. KeyOf(call2, T) = KeyOf(call, T)
    BY <2>3 DEF KeyOf
  <2>6. KeyOf(call, T) = KeyOf(call, S)
    BY <1>1, <1>2, <1>4, <1>6, <2>1, CallStays
  <2> QED
    BY <2>1, <2>3, <2>4, <2>5, <2>6
<1>11. ExpiryOK'
  BY <1>5 DEF AloneOK, ExpiryOK
<1>12. AloneKept'
  <2>1. ASSUME NEW key, NEW x, KeptAt(cachedDs, setting, samples, key, x)
        PROVE  KeptAt(cachedDs', setting', samples', key, x)
    <3>1. ASSUME NEW o \in Setters, setting'[o] # NoCall
          PROVE  Safe(setting'[o], T, key, x)
      <4>1. CASE o = c
        <5>1. setting'[o].step = "find"
          BY <1>8, <1>9, <4>1
        <5> QED
          BY <5>1 DEF Safe
      <4>2. CASE o # c
        <5>1. setting[o] # NoCall
          BY <1>9, <3>1, <4>2
        <5>2. Safe(setting[o], S, key, x)
          BY <1>1, <2>1, <5>1 DEF KeptAt
        <5> QED
          BY <1>10, <4>2, <5>1, <5>2 DEF Safe
      <4> QED
        BY <4>1, <4>2
    <3> QED
      BY <1>2, <1>5, <2>1, <3>1 DEF KeptAt
  <2>2. \A x \in alone, speed \in Speeds :
          LET key == KeyAt(samples, speed, x)
          IN FreshAt(now, key) /\ KeptAt(cachedDs, setting, samples, key, x)
               => KeptAt(cachedDs', setting', samples', key, x)
    BY <2>1
  <2>3. now' \in Nat /\ now <= now'
    BY <1>1, <1>5
  <2> QED
    BY <1>4, <1>5, <2>2, <2>3, KeptNext DEF AloneOK
<1>13. CallsAlone'
  <2> SUFFICES ASSUME NEW o \in Setters, setting'[o] # NoCall, setting'[o].alone
               PROVE  /\ \A k \in Setters \ {o} : setting'[k] = NoCall
                      /\ Own(setting'[o], cachedDs', samples', now')
    BY DEF CallsAlone
  <2>1. o = c
    <3> SUFFICES ASSUME o # c
                 PROVE  FALSE
      OBVIOUS
    <3>1. setting[o] # NoCall
      BY <1>9
    <3> QED
      BY <1>10, <3>1
  <2>2. setting'[o] = new
    BY <1>9, <2>1
  <2>3. \A k \in Setters : setting[k] = NoCall
    BY <1>7, <1>8, <2>2
  <2>4. \A k \in Setters \ {o} : setting'[k] = NoCall
    BY <1>9, <2>1, <2>3
  <2>5. new.turn = 1 /\ new.step = "find"
    BY <1>8
  <2>6. 1 .. (new.turn - 1) = {}
    BY <2>5
  <2>7. Own(new, cachedDs', samples', now')
    BY <2>5, <2>6 DEF Own
  <2> QED
    BY <2>2, <2>4, <2>7
<1> QED
  BY <1>11, <1>12, <1>13 DEF AloneOK

(* A call that finds a map has in its value what is kept in the map.        *)
LEMMA FindHitAlone ==
  ASSUME CurveOK, AloneOK, NEW c \in Setters, FindHit(c)
  PROVE  AloneOK'
<1>1. PICK call \in Calling, key \in Speeds \X Nat : call = setting[c] /\ key = SetKey(c) /\ call # NoCall
        /\ CallOK(call, cachedDs, samples) /\ key = KeyOf(call, samples)
  BY CallAtKey DEF FindHit
<1>2. PICK maps : maps = cachedDs[key].maps
  OBVIOUS
<1>3. PICK new : new = [call EXCEPT !.step = "store", !.map = Len(maps), !.value = Last(maps)]
  OBVIOUS
<1>4. /\ new.sample = call.sample /\ new.step = "store" /\ new.turn = call.turn
      /\ new.map = Len(maps) /\ new.value = Last(maps) /\ new.alone = call.alone
  BY <1>3 DEF Calling
<1>5. setting' = [o \in Setters |-> IF o = c THEN new ELSE setting[o]]
  <2>1. setting' = [setting EXCEPT ![c].step = "store", ![c].map = Len(maps), ![c].value = Last(maps)]
    BY <1>1, <1>2 DEF FindHit
  <2>2. setting' = [setting EXCEPT ![c] = new]
    BY <1>1, <1>3, <2>1 DEF CurveOK, CallsOK
  <2> QED
    BY <2>2 DEF CurveOK, CallsOK
<1>6. UNCHANGED <<now, cachedDs, samples, alone>>
  BY DEF FindHit
<1>7. KeyOf(new, samples) = key
  BY <1>1, <1>4 DEF KeyOf
<1>8. AloneKept'
  <2>1. ASSUME NEW k, NEW x, KeptAt(cachedDs, setting, samples, k, x)
        PROVE  Holds(cachedDs', k, x) /\ Safe(new, samples, k, x)
    BY <1>2, <1>4, <1>6, <1>7, <2>1 DEF KeptAt, Holds, Safe
  <2> QED
    BY <1>5, <1>6, <2>1, KeptByCall DEF AloneOK
<1>9. CallsAlone'
  <2>1. Own(call, cachedDs, samples, now) => Own(new, cachedDs', samples, now)
    BY <1>1, <1>2, <1>4, <1>6, <1>7 DEF Own
  <2> QED
    BY <1>1, <1>4, <1>5, <1>6, <2>1, AloneByCall DEF AloneOK
<1> QED
  BY <1>6, <1>8, <1>9 DEF AloneOK, ExpiryOK

(* A call finds no map only where none is kept that has not expired.        *)
LEMMA FindMissAlone ==
  ASSUME CurveOK, AloneOK, NEW c \in Setters, FindMiss(c)
  PROVE  AloneOK'
<1>1. PICK call \in Calling, key \in Speeds \X Nat : call = setting[c] /\ key = SetKey(c) /\ call # NoCall
        /\ CallOK(call, cachedDs, samples) /\ key = KeyOf(call, samples)
  BY CallAtKey DEF FindMiss
<1>2. PICK new : new = [call EXCEPT !.step = "make"]
  OBVIOUS
<1>3. /\ new.sample = call.sample /\ new.step = "make" /\ new.turn = call.turn /\ new.alone = call.alone
  BY <1>2 DEF Calling
<1>4. setting' = [o \in Setters |-> IF o = c THEN new ELSE setting[o]]
  BY <1>1, <1>2 DEF FindMiss, CurveOK, CallsOK
<1>5. UNCHANGED <<now, cachedDs, samples, alone>>
  BY DEF FindMiss
<1>6. KeyOf(new, samples) = key
  BY <1>1, <1>3 DEF KeyOf
<1>7. ASSUME NEW k, NEW x, FreshAt(now, k), Holds(cachedDs, k, x)
      PROVE  k # key
  <2>1. Cached(k)
    BY <1>7, FreshIsCached DEF AloneOK, Holds
  <2> QED
    BY <1>1, <2>1 DEF FindMiss
<1>8. AloneKept'
  <2>1. ASSUME NEW k, NEW x, FreshAt(now, k), KeptAt(cachedDs, setting, samples, k, x)
        PROVE  Holds(cachedDs', k, x) /\ Safe(new, samples, k, x)
    <3>1. Holds(cachedDs, k, x)
      BY <2>1 DEF KeptAt
    <3>2. k # key
      BY <1>7, <2>1, <3>1
    <3> QED
      BY <1>5, <1>6, <3>1, <3>2 DEF Safe
  <2> QED
    BY <1>4, <1>5, <2>1, KeptByCall DEF AloneOK
<1>9. CallsAlone'
  <2>1. ASSUME Own(call, cachedDs, samples, now)
        PROVE  Own(new, cachedDs', samples, now)
    <3>1. ASSUME NEW j \in 1 .. (call.turn - 1), FreshAt(now, KeyAt(samples, speeds[j], call.sample))
          PROVE  /\ Holds(cachedDs, KeyAt(samples, speeds[j], call.sample), call.sample)
                 /\ KeyAt(samples, speeds[j], call.sample) # key
      <4>1. Holds(cachedDs, KeyAt(samples, speeds[j], call.sample), call.sample)
        BY <2>1, <3>1 DEF Own
      <4> QED
        BY <1>7, <3>1, <4>1
    <3> QED
      BY <1>3, <1>5, <1>6, <3>1 DEF Own
  <2> QED
    BY <1>1, <1>3, <1>4, <1>5, <2>1, AloneByCall DEF AloneOK
<1> QED
  BY <1>5, <1>8, <1>9 DEF AloneOK, ExpiryOK

(* So that what it makes takes no other's place that matters.               *)
LEMMA MakeAlone ==
  ASSUME CurveOK, AloneOK, NEW c \in Setters, Make(c)
  PROVE  AloneOK'
<1>1. PICK call \in Calling, key \in Speeds \X Nat : call = setting[c] /\ key = SetKey(c) /\ call # NoCall
        /\ CallOK(call, cachedDs, samples) /\ key = KeyOf(call, samples)
        /\ key[1] = Speed(c) /\ call.sample \in OfKey(samples, key) /\ call.step = "make"
  BY CallAtKey DEF Make
<1>2. PICK expires \in Nat : expires = now + 2 * Speed(c)
  BY MakeMeans
<1>3. PICK entry : entry = WithMap(cachedDs, key, expires)
  OBVIOUS
<1>4. /\ cachedDs' = With(cachedDs, key, entry)
      /\ setting' = [setting EXCEPT ![c].step = "load", ![c].map = Len(entry.maps)]
  BY <1>1, <1>2, <1>3, MakeMeans
<1>5. PICK n \in Nat \ {0} : n = Len(entry.maps)
  BY <1>3, CacheMake DEF CurveOK
<1>6. cachedDs'[key] = entry /\ entry.expires = expires
  BY <1>3, <1>4 DEF With, WithMap
<1>7. PICK new : new = [call EXCEPT !.step = "load", !.map = n]
  OBVIOUS
<1>8. /\ new.sample = call.sample /\ new.step = "load" /\ new.turn = call.turn /\ new.map = n
      /\ new.alone = call.alone
  BY <1>7 DEF Calling
<1>9. setting' = [o \in Setters |-> IF o = c THEN new ELSE setting[o]]
  BY <1>1, <1>4, <1>5, <1>7 DEF CurveOK, CallsOK
<1>10. UNCHANGED <<now, samples, alone>>
  BY DEF Make
<1>11. KeyOf(new, samples) = key
  BY <1>1, <1>8 DEF KeyOf
<1>12. ExpiryOK'
  <2>1. LabelTime(key[1], key[2] + 2) <= expires
    <3>1. PICK s \in Nat \ {0}, q \in Nat, t \in Nat : s = key[1] /\ q = key[2] /\ t = now
      BY <1>1, KeyTimes DEF CurveOK, CurveClock
    <3>2. PICK u \in Nat : u = samples[call.sample] /\ Label(s, u) = q /\ u <= t
      <4>1. call.sample \in 1 .. Len(samples) /\ Label(s, samples[call.sample]) = q
        BY <1>1, <3>1 DEF OfKey
      <4>2. samples[call.sample] \in Nat /\ samples[call.sample] <= t
        BY <3>1, <4>1, ElementOfSeq DEF CurveOK, CurveClock
      <4> QED
        BY <4>1, <4>2
    <3>3. PICK a \in Nat, b \in Nat : a = LabelTime(s, q) /\ b = LabelTime(s, q + 2) /\ b = a + 2 * s
      <4>1. LabelTime(s, q) \in Nat
        BY MultipleType
      <4>2. LabelTime(s, q + 2) \in Nat /\ LabelTime(s, q + 2) = LabelTime(s, q) + 2 * s
        BY <1>1, <3>1, KeyTimes
      <4> QED
        BY <4>1, <4>2
    <3>4. a <= u
      BY <3>2, <3>3, InSpan
    <3>5. expires = t + 2 * s
      BY <1>1, <1>2, <3>1
    <3>6. b <= expires
      BY <3>2, <3>3, <3>4, <3>5
    <3> QED
      BY <3>1, <3>3, <3>6
  <2>2. ASSUME NEW k \in DOMAIN cachedDs'
        PROVE  LabelTime(k[1], k[2] + 2) <= cachedDs'[k].expires
    <3>1. CASE k = key
      BY <1>6, <2>1, <3>1
    <3>2. CASE k # key
      <4>1. k \in DOMAIN cachedDs /\ cachedDs'[k] = cachedDs[k]
        BY <1>4, <3>2 DEF With
      <4> QED
        BY <4>1 DEF AloneOK, ExpiryOK
    <3> QED
      BY <3>1, <3>2
  <2> QED
    BY <2>2 DEF ExpiryOK
<1>13. AloneKept'
  <2>1. ASSUME NEW k, NEW x, KeptAt(cachedDs, setting, samples, k, x)
        PROVE  Holds(cachedDs', k, x) /\ Safe(new, samples, k, x)
    <3>1. Safe(call, samples, k, x) /\ Holds(cachedDs, k, x)
      BY <1>1, <2>1 DEF KeptAt
    <3>2. k # key
      BY <1>1, <3>1 DEF Safe
    <3>3. Holds(cachedDs', k, x)
      BY <1>4, <3>1, <3>2, HoldsElsewhere
    <3> QED
      BY <1>11, <3>2, <3>3 DEF Safe
  <2> QED
    BY <1>9, <1>10, <2>1, KeptByCall DEF AloneOK
<1>14. CallsAlone'
  <2>1. ASSUME Own(call, cachedDs, samples, now)
        PROVE  Own(new, cachedDs', samples, now)
    <3>1. ASSUME NEW j \in 1 .. (call.turn - 1), FreshAt(now, KeyAt(samples, speeds[j], call.sample))
          PROVE  /\ Holds(cachedDs', KeyAt(samples, speeds[j], call.sample), call.sample)
                 /\ KeyAt(samples, speeds[j], call.sample) # key
      <4>1. Holds(cachedDs, KeyAt(samples, speeds[j], call.sample), call.sample)
            /\ KeyAt(samples, speeds[j], call.sample) # key
        BY <1>1, <2>1, <3>1 DEF Own
      <4> QED
        BY <1>4, <4>1, HoldsElsewhere
    <3>2. new.map = Len(cachedDs'[key].maps)
      BY <1>5, <1>6, <1>8
    <3> QED
      BY <1>8, <1>11, <3>1, <3>2 DEF Own
  <2> QED
    BY <1>1, <1>8, <1>9, <1>10, <2>1, AloneByCall DEF AloneOK
<1> QED
  BY <1>12, <1>13, <1>14 DEF AloneOK

(* Nor does what it loads then.                                             *)
LEMMA LoadValueAlone ==
  ASSUME CurveOK, AloneOK, NEW c \in Setters, LoadValue(c)
  PROVE  AloneOK'
<1>1. PICK call \in Calling, key \in Speeds \X Nat : call = setting[c] /\ key = SetKey(c) /\ call # NoCall
        /\ CallOK(call, cachedDs, samples) /\ key = KeyOf(call, samples) /\ call.step = "load"
  BY CallAtKey DEF LoadValue
<1>2. PICK value : value = cachedDs[key].maps[call.map]
  OBVIOUS
<1>3. PICK new : new = [call EXCEPT !.step = "store", !.value = value]
  OBVIOUS
<1>4. /\ new.sample = call.sample /\ new.step = "store" /\ new.alone = call.alone
      /\ new.turn = call.turn /\ new.map = call.map
  BY <1>3 DEF Calling
<1>5. setting' = [o \in Setters |-> IF o = c THEN new ELSE setting[o]]
  BY <1>1, <1>2, <1>3 DEF LoadValue, CurveOK, CallsOK
<1>6. UNCHANGED <<now, cachedDs, samples, alone>>
  BY DEF LoadValue
<1>7. KeyOf(new, samples) = key
  BY <1>1, <1>4 DEF KeyOf
<1>8. AloneKept'
  <2>1. ASSUME NEW k, NEW x, KeptAt(cachedDs, setting, samples, k, x)
        PROVE  Holds(cachedDs', k, x) /\ Safe(new, samples, k, x)
    <3>1. Safe(call, samples, k, x) /\ Holds(cachedDs, k, x)
      BY <1>1, <2>1 DEF KeptAt
    <3>2. k # key
      BY <1>1, <3>1 DEF Safe
    <3> QED
      BY <1>6, <1>7, <3>1, <3>2 DEF Safe
  <2> QED
    BY <1>5, <1>6, <2>1, KeptByCall DEF AloneOK
<1>9. CallsAlone'
  <2>1. Own(call, cachedDs, samples, now) => Own(new, cachedDs', samples, now)
    BY <1>1, <1>4, <1>6, <1>7 DEF Own
  <2> QED
    BY <1>1, <1>4, <1>5, <1>6, <2>1, AloneByCall DEF AloneOK
<1> QED
  BY <1>6, <1>8, <1>9 DEF AloneOK, ExpiryOK

(* A store changes no time of expiry.                                       *)
LEMMA ExpiryStored ==
  ASSUME NEW cache, NEW S \in Seq(Nat), CacheOK(cache, S), NEW key \in DOMAIN cache,
         NEW m \in 1 .. Len(cache[key].maps), NEW v \in SUBSET OfKey(S, key),
         NEW next, next = Stored(cache, key, m, v)
  PROVE  /\ DOMAIN next = DOMAIN cache
         /\ \A k \in DOMAIN cache : next[k].expires = cache[k].expires
<1>1. /\ CacheOK(next, S) /\ Grows(cache, next)
      /\ DOMAIN next = DOMAIN cache
      /\ \A k \in DOMAIN cache : next[k].expires = cache[k].expires /\ (k # key => next[k] = cache[k])
      /\ next[key].maps = [cache[key].maps EXCEPT ![m] = v]
      /\ Len(next[key].maps) = Len(cache[key].maps)
  BY CacheStore
<1> QED
  BY <1>1

(* A store adds the sample to what was in the map.  The last of a call that *)
(* had the cache to itself leaves its sample in the cache at every speed.   *)
LEMMA StoreValueAlone ==
  ASSUME CurveOK, AloneOK, NEW c \in Setters, StoreValue(c)
  PROVE  AloneOK'
<1>1. PICK call \in Calling : call = setting[c] /\ call # NoCall
        /\ CallOK(call, cachedDs, samples) /\ call.step = "store" /\ SetKey(c) = KeyOf(call, samples)
        /\ SetKey(c) \in Speeds \X Nat
  BY CallAtKey DEF StoreValue
<1>2. PICK key, m, v :
        /\ key = SetKey(c) /\ m = call.map /\ v = call.value \cup {call.sample}
        /\ key \in DOMAIN cachedDs
        /\ m \in 1 .. Len(cachedDs[key].maps)
        /\ v \in SUBSET OfKey(samples, key)
        /\ cachedDs' = Stored(cachedDs, key, m, v)
  BY <1>1, StoreNamed
<1>3. PICK new \in Calling \cup {NoCall} :
        /\ setting' = [o \in Setters |-> IF o = c THEN new ELSE setting[o]]
        /\ new # NoCall => new.step = "find" /\ new.sample = call.sample /\ new.alone = call.alone
                           /\ new.turn = call.turn + 1
        /\ call.turn = Len(speeds) => new = NoCall
  BY <1>1, StoreCallMeans
<1>4. UNCHANGED <<now, samples>>
  BY DEF StoreValue
<1>5. samples \in Seq(Nat) /\ CacheOK(cachedDs, samples)
  BY DEF CurveOK, CurveClock
<1>6. /\ \A k, x : Holds(cachedDs, k, x) /\ (k = key => x \in v) => Holds(cachedDs', k, x)
      /\ m = Len(cachedDs[key].maps) => Holds(cachedDs', key, call.sample)
  <2>1. PICK next : next = cachedDs'
    OBVIOUS
  <2>2. next = Stored(cachedDs, key, m, v) /\ call.sample \in v
    BY <1>2, <2>1
  <2>3. /\ \A k, x : Holds(cachedDs, k, x) /\ (k = key => x \in v) => Holds(next, k, x)
        /\ \A x \in v : m = Len(cachedDs[key].maps) => Holds(next, key, x)
    BY <1>2, <1>5, <2>2, HoldsStored
  <2> QED
    BY <2>1, <2>2, <2>3
<1>7. ExpiryOK'
  <2>1. /\ DOMAIN cachedDs' = DOMAIN cachedDs
        /\ \A k \in DOMAIN cachedDs : cachedDs'[k].expires = cachedDs[k].expires
    <3>1. PICK next : next = cachedDs'
      OBVIOUS
    <3>2. next = Stored(cachedDs, key, m, v)
      BY <1>2, <3>1
    <3>3. DOMAIN next = DOMAIN cachedDs /\ \A k \in DOMAIN cachedDs : next[k].expires = cachedDs[k].expires
      BY <1>2, <1>5, <3>2, ExpiryStored
    <3> QED
      BY <3>1, <3>3
  <2> QED
    BY <2>1 DEF AloneOK, ExpiryOK
\* What is kept stays, and the call is not in the way any more.
<1>8. ASSUME NEW k, NEW x, KeptAt(cachedDs, setting, samples, k, x)
      PROVE  Holds(cachedDs', k, x) /\ (new # NoCall => Safe(new, samples, k, x))
  <2>1. Safe(call, samples, k, x) /\ Holds(cachedDs, k, x)
    BY <1>1, <1>8 DEF KeptAt
  <2>2. k = key => x \in v
    BY <1>1, <1>2, <2>1 DEF Safe
  <2>3. Holds(cachedDs', k, x)
    BY <1>6, <2>1, <2>2
  <2> QED
    BY <1>3, <2>3 DEF Safe
\* The call's own sample is now kept at this speed too.
<1>9. ASSUME Own(call, cachedDs, samples, now),
             NEW j \in 1 .. call.turn, FreshAt(now, KeyAt(samples, speeds[j], call.sample))
      PROVE  Holds(cachedDs', KeyAt(samples, speeds[j], call.sample), call.sample)
  <2>1. PICK k : k = KeyAt(samples, speeds[j], call.sample)
    OBVIOUS
  <2>2. call.turn \in Nat
    BY SpeedTypes DEF Calling
  <2>3. CASE j = call.turn
    <3>1. k = key
      BY <1>1, <1>2, <2>1, <2>3 DEF KeyAt, KeyOf
    <3>2. m = Len(cachedDs[key].maps)
      BY <1>1, <1>2, <1>9 DEF Own
    <3> QED
      BY <1>6, <2>1, <3>1, <3>2
  <2>4. CASE j \in 1 .. (call.turn - 1)
    <3>1. Holds(cachedDs, k, call.sample)
      BY <1>9, <2>1, <2>4 DEF Own
    <3>2. call.sample \in v
      BY <1>2
    <3> QED
      BY <1>6, <2>1, <3>1, <3>2
  <2> QED
    BY <2>2, <2>3, <2>4
<1>10. CallsAlone'
  <2>1. ASSUME Own(call, cachedDs, samples, now), new # NoCall
        PROVE  Own(new, cachedDs', samples, now)
    <3>1. new.step = "find" /\ new.sample = call.sample /\ new.turn - 1 = call.turn
      <4>1. call.turn \in Nat
        BY SpeedTypes DEF Calling
      <4> QED
        BY <1>3, <2>1, <4>1
    <3> QED
      BY <1>9, <2>1, <3>1 DEF Own
  <2> QED
    BY <1>1, <1>3, <1>4, <2>1, AloneByCall DEF AloneOK
<1>11. AloneKept'
  <2>1. CASE alone' = alone
    BY <1>3, <1>4, <1>8, <2>1, KeptByCall DEF AloneOK
  <2>2. CASE alone' # alone
    <3>1. call.turn = Len(speeds) /\ call.alone /\ alone' = alone \cup {call.sample}
      BY <1>1, <2>2 DEF StoreValue
    <3>2. new = NoCall
      BY <1>3, <3>1
    <3>3. Own(call, cachedDs, samples, now) /\ \A o \in Setters \ {c} : setting[o] = NoCall
      BY <1>1, <3>1 DEF AloneOK, CallsAlone
    <3>4. \A o \in Setters : setting'[o] = NoCall
      BY <1>3, <3>2, <3>3
    <3>5. call.sample \in 1 .. Len(samples)
      BY <1>1 DEF CallOK
    <3>6. alone' \subseteq 1 .. Len(samples)
      BY <3>1, <3>5 DEF AloneOK, AloneKept
    <3>7. ASSUME NEW x \in alone', NEW speed \in Speeds, FreshAt(now, KeyAt(samples, speed, x))
          PROVE  Holds(cachedDs', KeyAt(samples, speed, x), x)
      <4>1. CASE x \in alone
        <5>1. KeptAt(cachedDs, setting, samples, KeyAt(samples, speed, x), x)
          BY <3>7, <4>1 DEF AloneOK, AloneKept
        <5> QED
          BY <1>8, <5>1
      <4>2. CASE x = call.sample
        <5>1. PICK j \in 1 .. call.turn : speed = speeds[j]
          <6>1. DOMAIN speeds = 1 .. Len(speeds)
            BY CurveAssumption, LenProperties
          <6> QED
            BY <3>1, <6>1 DEF Speeds, Range
        <5> QED
          BY <1>9, <3>3, <3>7, <4>2, <5>1
      <4> QED
        BY <3>1, <4>1, <4>2
    <3>8. \A x \in alone', speed \in Speeds :
            FreshAt(now, KeyAt(samples, speed, x))
              => KeptAt(cachedDs', setting', samples, KeyAt(samples, speed, x), x)
      BY <3>4, <3>7 DEF KeptAt
    <3> QED
      BY <1>4, <3>6, <3>8 DEF AloneKept
  <2> QED
    BY <2>1, <2>2
<1> QED
  BY <1>7, <1>10, <1>11 DEF AloneOK

(* As time goes on there is less to keep.                                   *)
LEMMA TickAlone ==
  ASSUME CurveOK, AloneOK, Tick
  PROVE  AloneOK'
<1>1. PICK t \in Nat : t = now /\ now' = t + 1
  BY DEF CurveOK, CurveClock, Tick
<1>2. UNCHANGED <<cachedDs, setting, samples, alone>>
  BY DEF Tick
<1>3. Extends(samples, samples')
  BY <1>2, Reflexive DEF CurveOK, CurveClock
<1>4. AloneKept'
  <2>1. now' \in Nat /\ now <= now'
    BY <1>1
  <2> QED
    BY <1>2, <1>3, <2>1, KeptNext DEF AloneOK
<1>5. ASSUME NEW key \in Speeds \X Nat, FreshAt(t + 1, key)
      PROVE  FreshAt(t, key)
  <2>1. PICK a \in Nat : a = LabelTime(key[1], key[2] + 2)
    BY KeyTimes
  <2>2. t + 1 < a
    BY <1>5, <2>1 DEF FreshAt
  <2>3. t < a
    BY <2>2
  <2> QED
    BY <2>1, <2>3 DEF FreshAt
<1>6. CallsAlone'
  <2> SUFFICES ASSUME NEW c \in Setters, setting[c] # NoCall, setting[c].alone
               PROVE  /\ \A o \in Setters \ {c} : setting[o] = NoCall
                      /\ Own(setting[c], cachedDs, samples, t + 1)
    BY <1>1, <1>2 DEF CallsAlone
  <2>1. /\ \A o \in Setters \ {c} : setting[o] = NoCall
        /\ Own(setting[c], cachedDs, samples, t)
    BY <1>1 DEF AloneOK, CallsAlone
  <2>2. PICK call \in Calling : call = setting[c] /\ call.sample \in 1 .. Len(samples)
    BY DEF CurveOK, CallsOK, CallOK
  <2>3. \A j \in 1 .. (call.turn - 1) : KeyAt(samples, speeds[j], call.sample) \in Speeds \X Nat
    <3>1. ASSUME NEW j \in 1 .. (call.turn - 1)
          PROVE  speeds[j] \in Speeds
      <4>1. j \in 1 .. Len(speeds)
        <5>1. call.turn \in 1 .. Len(speeds) /\ Len(speeds) \in Nat
          BY SpeedTypes DEF Calling
        <5> QED
          BY <5>1
      <4> QED
        BY <4>1, SpeedTypes
    <3> QED
      BY <2>2, <3>1, KeyAtType DEF CurveOK, CurveClock
  <2>4. Own(call, cachedDs, samples, t + 1)
    BY <1>5, <2>1, <2>2, <2>3 DEF Own
  <2> QED
    BY <2>1, <2>2, <2>4
<1> QED
  BY <1>2, <1>4, <1>6 DEF AloneOK, ExpiryOK

(* After a restart there is nothing to keep.                                *)
LEMMA RestartAlone ==
  ASSUME CurveOK, Restart
  PROVE  AloneOK'
<1>1. cachedDs' = <<>> /\ setting' = [c \in Setters |-> NoCall] /\ alone' = {}
  BY DEF Restart
<1>2. DOMAIN cachedDs' = {}
  BY <1>1
<1> QED
  BY <1>1, <1>2 DEF AloneOK, ExpiryOK, AloneKept, CallsAlone

(* It all holds at first,                                                   *)
LEMMA InitAlone == Init => AloneOK
<1> SUFFICES ASSUME Init
             PROVE  AloneOK
  OBVIOUS
<1>1. cachedDs = <<>> /\ setting = [c \in Setters |-> NoCall] /\ alone = {}
  BY DEF Init
<1>2. DOMAIN cachedDs = {}
  BY <1>1
<1> QED
  BY <1>1, <1>2 DEF AloneOK, ExpiryOK, AloneKept, CallsAlone

(* and whatever is done.                                                    *)
LEMMA NextAloneOK == CurveOK /\ AloneOK /\ [Next]_vars => AloneOK'
<1> SUFFICES ASSUME CurveOK, AloneOK, [Next]_vars
             PROVE  AloneOK'
  OBVIOUS
<1>1. ASSUME NEW c \in Setters,
             SetBegin(c) \/ FindHit(c) \/ FindMiss(c) \/ Make(c) \/ LoadValue(c) \/ StoreValue(c)
      PROVE  AloneOK'
  BY <1>1, SetBeginAlone, FindHitAlone, FindMissAlone, MakeAlone, LoadValueAlone, StoreValueAlone
<1>2. ASSUME UNCHANGED <<now, cachedDs, setting, samples, alone>>
      PROVE  AloneOK'
  BY <1>2 DEF AloneOK, ExpiryOK, AloneKept, CallsAlone
<1>3. ASSUME NEW speed \in Speeds, Close(speed)
      PROVE  AloneOK'
  BY <1>2, <1>3 DEF Close
<1>4. CASE Tick
  BY <1>4, TickAlone
<1>5. CASE Restart
  BY <1>5, RestartAlone
<1>6. CASE UNCHANGED vars
  BY <1>2, <1>6 DEF vars
<1> QED
  BY <1>1, <1>3, <1>4, <1>5, <1>6 DEF Next

(* The routine, coming while the next label runs, finds in the cache all    *)
(* the samples that had the cache to themselves.                            *)
LEMMA GatheredHasAlone ==
  ASSUME CurveOK, AloneOK, NEW speed \in Speeds, Label(speed, now) = speedLabels[speed] + 1
  PROVE  OfLabel(alone, speed, speedLabels[speed]) \subseteq Gathered(speed, speedLabels[speed])
<1>1. PICK s \in Nat \ {0} : s = speed /\ s \in Speeds
  BY SpeedTypes
<1>2. PICK last \in Nat, t \in Nat : last = speedLabels[s] /\ t = now
  BY <1>1 DEF CurveOK, CurveClock
<1> SUFFICES ASSUME NEW x \in alone, Label(s, samples[x]) = last
             PROVE  x \in Gathered(s, last)
  BY <1>1, <1>2 DEF OfLabel
<1>3. PICK key \in Speeds \X Nat : key = <<s, last>> /\ key = CachedKey(s, last)
  BY <1>1 DEF CachedKey
<1>4. key = KeyAt(samples, s, x)
  BY <1>3 DEF KeyAt
<1>5. FreshAt(now, key)
  <2>1. t < LabelTime(s, last + 1) + s
    <3>1. Label(s, t) = last + 1
      BY <1>1, <1>2
    <3> QED
      BY <3>1, InSpan
  <2>2. LabelTime(s, last + 2) = LabelTime(s, last + 1) + s
    BY DEF LabelTime
  <2>3. key[1] = s /\ key[2] = last
    BY <1>3
  <2> QED
    BY <1>2, <2>1, <2>2, <2>3 DEF FreshAt
<1>6. Holds(cachedDs, key, x)
  BY <1>1, <1>4, <1>5 DEF AloneOK, AloneKept, KeptAt
<1>7. Cached(key)
  BY <1>5, <1>6, FreshIsCached DEF AloneOK, Holds
<1> QED
  BY <1>3, <1>6, <1>7 DEF Gathered, Holds

(* A point that was added is the last of the history, unless the history is *)
(* allowed none.                                                            *)
LEMMA PointIsLast ==
  ASSUME maxPointCount >= 2, NEW S, NEW speed \in Nat \ {0}, NEW last \in Nat,
         NEW points, PointsOK(S, speed, last, points),
         NEW p \in CurvePoint, p.at = LabelTime(speed, last)
  PROVE  Last(Trimmed(Append(points, p))) = p /\ Trimmed(Append(points, p)) # points
<1>1. points \in Seq(CurvePoint)
  BY DEF PointsOK
<1>2. PICK m \in Nat : m = Len(points)
  BY <1>1, LenProperties
<1>3. PICK t : t = Append(points, p)
  OBVIOUS
<1>4. t \in Seq(CurvePoint) /\ t # <<>> /\ Len(t) = m + 1 /\ t[m + 1] = p
  BY <1>1, <1>2, <1>3, AppendProperties
<1>0. PICK u : u = Trimmed(t)
  OBVIOUS
<1>5. PICK n \in Nat \ {0} : u \in Seq(CurvePoint) /\ Len(u) = n /\ u[n] = p
  <2>1. CASE m + 1 >= maxPointCount
    <3>1. Trimmed(t) = Tail(t)
      BY <1>4, <2>1 DEF Trimmed
    <3>0. u = Tail(t)
      BY <1>0, <3>1
    <3>2. m \in Nat \ {0}
      BY <2>1, CurveAssumption
    <3>3. /\ Tail(t) \in Seq(CurvePoint) /\ Len(Tail(t)) = m
          /\ \A i \in 1 .. m : Tail(t)[i] = t[i + 1]
      BY <1>4, HeadTailProperties
    <3>4. Tail(t)[m] = p
      BY <1>4, <3>2, <3>3
    <3> QED
      BY <3>0, <3>2, <3>3, <3>4
  <2>2. CASE ~(m + 1 >= maxPointCount)
    <3>1. Trimmed(t) = t
      BY <1>4, <2>2 DEF Trimmed
    <3>2. m + 1 \in Nat \ {0} /\ u = t
      BY <1>0, <3>1
    <3> QED
      BY <1>4, <3>2
  <2> QED
    BY <2>1, <2>2
<1>6. u # points
  <2> SUFFICES ASSUME u = points
               PROVE  FALSE
    OBVIOUS
  <2>1. n = m /\ points[n] = p /\ n \in 1 .. Len(points)
    BY <1>2, <1>5
  <2>2. PointOK(S, speed, last, p)
    BY <2>1 DEF PointsOK
  <2>3. PICK q \in Nat : q < last /\ p.at = LabelTime(speed, q)
    BY <2>2 DEF PointOK
  <2>4. PICK a \in Int : a = p.at
    BY DEF CurvePoint
  <2>5. LabelTime(speed, q) < LabelTime(speed, last)
    BY <2>3, LaterLabel
  <2>6. a < a
    BY <2>3, <2>4, <2>5
  <2> QED
    BY <2>4, <2>6
<1> QED
  BY <1>3, <1>0, <1>5, <1>6 DEF Last

(* A step that closes a label on time adds a point that holds all of them.  *)
LEMMA ClosedComplete ==
  ASSUME maxPointCount >= 2, CurveOK, AloneOK, NEW speed \in Speeds, Close(speed),
         Label(speed, now) = speedLabels[speed] + 1
  PROVE  OfLabel(alone, speed, speedLabels[speed]) \subseteq
           IF dHistory'[speed] = dHistory[speed] THEN {} ELSE Last(dHistory'[speed]).data
<1>1. PICK s \in Nat \ {0}, last \in Nat : s = speed /\ s \in Speeds /\ last = speedLabels[s]
  <2>1. speedLabels[speed] \in Nat
    BY DEF CurveOK, CurveClock
  <2> QED
    BY <2>1, SpeedTypes
<1>2. PICK data : data = Gathered(s, last) /\ data \subseteq OfKey(samples, <<s, last>>)
  BY GatheredOfKey
<1>3. OfLabel(alone, speed, speedLabels[speed]) \subseteq data
  BY <1>1, <1>2, GatheredHasAlone
<1>4. CASE data = {}
  BY <1>3, <1>4
<1>5. CASE data # {}
  <2>1. PICK p \in CurvePoint : p = [at |-> LabelTime(s, last), data |-> data]
    <3>1. data \in SUBSET Nat
      BY <1>2, OfKeyType DEF CurveOK, CurveClock
    <3>2. LabelTime(s, last) \in Int
      BY MultipleType
    <3>3. [at |-> LabelTime(s, last), data |-> data] \in CurvePoint
      BY <3>1, <3>2 DEF CurvePoint
    <3> QED
      BY <3>3
  <2>2. p.at = LabelTime(s, last) /\ p.data = data
    BY <2>1
  <2>3. PICK old : old = dHistory[s]
    OBVIOUS
  <2>4. dHistory'[s] = Trimmed(Append(old, p))
    <3>1. PICK points : points = Trimmed(Append(old, p))
      OBVIOUS
    <3>2. dHistory' = [dHistory EXCEPT ![s] = points]
      BY <1>1, <1>2, <1>5, <2>1, <2>3, <3>1 DEF Close, PointTime
    <3> QED
      BY <1>1, <3>1, <3>2 DEF CurveOK, HistoriesOK
  <2>5. PointsOK(samples, s, last, old)
    BY <1>1, <2>3 DEF CurveOK, HistoriesOK
  <2>6. Last(dHistory'[s]) = p /\ dHistory'[s] # old
    BY <2>2, <2>4, <2>5, PointIsLast
  <2> QED
    BY <1>1, <1>3, <2>2, <2>3, <2>6
<1> QED
  BY <1>4, <1>5

(* A label's point holds all the samples whose SetData had the cache to     *)
(* itself and returned before the label was closed, whatever other calls    *)
(* overlap before and after, at every speed, if the routine comes while the *)
(* next label runs and the history is allowed a point at all: with          *)
(* maxPointCount 1 every point is dropped as soon as it is added.           *)
THEOREM PointsAreComplete == ASSUME maxPointCount >= 2 PROVE Spec => PointsComplete
<1>1. Spec => []CurveOK
  BY InitCurveOK, NextCurveOK, PTL DEF Spec
<1>2. Spec => [](CurveOK /\ AloneOK)
  BY <1>1, InitAlone, NextAloneOK, PTL DEF Spec
<1>3. CurveOK /\ AloneOK =>
        [\A speed \in Speeds :
           LET label == speedLabels[speed]
               data == IF dHistory'[speed] = dHistory[speed] THEN {} ELSE Last(dHistory'[speed]).data
           IN Close(speed) /\ Label(speed, now) = label + 1 => OfLabel(alone, speed, label) \subseteq data]_vars
  BY ClosedComplete
<1> QED
  BY <1>2, <1>3, PTL DEF PointsComplete
=============================================================================
