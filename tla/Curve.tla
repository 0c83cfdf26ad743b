------------------------------- MODULE Curve -------------------------------
(***************************************************************************)
(* curve/curve.go: samples are gathered in a cache per speed and label, a  *)
(* span of time as long as the speed; a routine turns the label that has   *)
(* ended into a point of the speed's history, and GetCurves reads the      *)
(* history.  SetData takes no lock: it is cut at each access to the cache  *)
(* and to the map it finds there.                                          *)
(*                                                                         *)
(* One key stands for all.  A value is the set of samples combined in it,  *)
(* and a point the set that ExplainDataAt was given.  What the observer is *)
(* told is left out.                                                       *)
(***************************************************************************)
EXTENDS Integers, SequencesExt

CONSTANTS
  speeds,        \* as NewCurve is given them, <<1>> if it is given none
  maxPointCount,
  Setters,       \* goroutines that call SetData
  MaxNow,        \* bound on the clock
  MaxSamples,    \* bound on the calls of SetData
  MaxRacing,     \* bound on the calls until which they may overlap
  MaxRestarts    \* bound on the restarts

ASSUME CurveAssumption ==
  /\ speeds \in Seq(Nat \ {0}) /\ speeds # <<>>
  /\ maxPointCount \in Nat \ {0}
  /\ {MaxNow, MaxSamples, MaxRacing, MaxRestarts} \subseteq Nat

VARIABLES
  now,
  cachedDs,    \* for a speed and label until when its map is kept, and the value
               \* in it, no samples for none: the last of those that were made,
               \* the others are only known to those who found them
  setting,     \* what each setter is at
  speedLabels, \* of each speed the label that the routine waits to end
  dHistory,    \* the points of each speed
  disk,        \* as they were saved last
  restarts,
  samples,     \* history: samples so far, with the time of each
  alone        \* history: those set since the start, to the end of the call
               \* and while no other call was under way

vars == <<now, cachedDs, setting, speedLabels, dHistory, disk, restarts, samples, alone>>

Speeds == Range(speeds)

\* timespan: labels are numbered, and begin at multiples of their length.
Label(speed, t) == t \div speed
LabelTime(speed, label) == label * speed

\* Mutant: the speed is not part of the key.
CachedKeyOfLabel(speed, label) == <<0, label>>

CachedKey(speed, label) == <<speed, label>>

\* A cache that has that entry at the key.
With(cache, key, entry) ==
  [k \in DOMAIN cache \cup {key} |-> IF k = key THEN entry ELSE cache[k]]

Cached(key) == key \in DOMAIN cachedDs /\ now <= cachedDs[key].expires
-----------------------------------------------------------------------------
\* SetData, one speed after the other, with the time it was called at.

NoCall == [step |-> "idle"]

SetBegin(c) ==
  /\ setting[c] = NoCall
  /\ Len(samples) < MaxSamples
  /\ Len(samples) < MaxRacing \/ \A x \in Setters : setting[x] = NoCall
  /\ samples' = Append(samples, now)
  /\ setting' = [o \in Setters |->
       IF o = c THEN [step |-> "find", turn |-> 1, sample |-> Len(samples'), map |-> 0,
                      value |-> {}, alone |-> \A x \in Setters : setting[x] = NoCall]
       ELSE IF setting[o] = NoCall THEN NoCall
       ELSE [setting[o] EXCEPT !.alone = FALSE]]
  /\ UNCHANGED <<now, cachedDs, speedLabels, dHistory, disk, restarts, alone>>

Speed(c) == speeds[setting[c].turn]
SetKey(c) == CachedKey(Speed(c), Label(Speed(c), samples[setting[c].sample]))

\* getCachedDsOnCurrent finds the map.  The value in it is loaded in the same
\* step: what others do in between either replaces the map in the cache or
\* stores into this one, and comes as well after or before both.
FindHit(c) ==
  /\ setting[c].step = "find" /\ Cached(SetKey(c))
  /\ LET maps == cachedDs[SetKey(c)].maps
     IN setting' = [setting EXCEPT ![c].step = "store", ![c].map = Len(maps), ![c].value = Last(maps)]
  /\ UNCHANGED <<now, cachedDs, speedLabels, dHistory, disk, restarts, samples, alone>>

\* It finds none, and makes one: which may take the place of another that was
\* made in the meantime.
FindMiss(c) ==
  /\ setting[c].step = "find" /\ ~Cached(SetKey(c))
  /\ setting' = [setting EXCEPT ![c].step = "make"]
  /\ UNCHANGED <<now, cachedDs, speedLabels, dHistory, disk, restarts, samples, alone>>

Make(c) ==
  /\ setting[c].step = "make"
  /\ LET maps == Append(IF SetKey(c) \in DOMAIN cachedDs THEN cachedDs[SetKey(c)].maps ELSE <<>>, {})
     IN /\ cachedDs' = With(cachedDs, SetKey(c), [maps |-> maps, expires |-> now + 2 * Speed(c)])
        /\ setting' = [setting EXCEPT ![c].step = "load", ![c].map = Len(maps)]
  /\ UNCHANGED <<now, speedLabels, dHistory, disk, restarts, samples, alone>>

LoadValue(c) ==
  /\ setting[c].step = "load"
  /\ setting' = [setting EXCEPT ![c].step = "store", ![c].value =
       cachedDs[SetKey(c)].maps[setting[c].map]]
  /\ UNCHANGED <<now, cachedDs, speedLabels, dHistory, disk, restarts, samples, alone>>

StoreValue(c) ==
  /\ setting[c].step = "store"
  /\ cachedDs' = [cachedDs EXCEPT ![SetKey(c)].maps[setting[c].map] =
       setting[c].value \cup {setting[c].sample}]
  /\ \/ /\ setting[c].turn < Len(speeds)
        /\ setting' = [setting EXCEPT ![c].step = "find", ![c].turn = @ + 1, ![c].map = 0, ![c].value = {}]
        /\ UNCHANGED alone
     \/ /\ setting[c].turn = Len(speeds)
        /\ setting' = [setting EXCEPT ![c] = NoCall]
        /\ alone' = IF setting[c].alone THEN alone \cup {setting[c].sample} ELSE alone
  /\ UNCHANGED <<now, speedLabels, dHistory, disk, restarts, samples>>
-----------------------------------------------------------------------------
\* What was gathered for a label that has ended; nothing if it was never set
\* or is kept no more.
Gathered(speed, label) ==
  IF Cached(CachedKey(speed, label)) THEN Last(cachedDs[CachedKey(speed, label)].maps) ELSE {}

\* Mutant: a point gets the time of the label that begins.
PointTimeNew(speed) == LabelTime(speed, Label(speed, now))

PointTime(speed) == LabelTime(speed, speedLabels[speed])

Trimmed(points) == IF Len(points) >= maxPointCount THEN Tail(points) ELSE points

\* statisticRoutine at one speed whose label has ended: it goes on to the
\* current label, whichever that is by now.  A history that cannot be saved
\* stays as it was on disk, as it does in a crash before the save (which is left
\* out when no restart is to come that would show it).  At a speed whose label
\* is still running the routine does nothing.
Close(speed) ==
  LET data == Gathered(speed, speedLabels[speed])
  IN
  /\ Label(speed, now) # speedLabels[speed]
  /\ speedLabels' = [speedLabels EXCEPT ![speed] = Label(speed, now)]
  /\ \/ data = {} /\ UNCHANGED <<dHistory, disk>>
     \/ /\ data # {}
        /\ dHistory' = [dHistory EXCEPT ![speed] =
             Trimmed(Append(@, [at |-> PointTime(speed), data |-> data]))]
        /\ \/ disk' = [disk EXCEPT ![speed] = dHistory'[speed]]
           \/ restarts < MaxRestarts /\ UNCHANGED disk
  /\ UNCHANGED <<now, cachedDs, setting, restarts, samples, alone>>
-----------------------------------------------------------------------------
Tick ==
  /\ now < MaxNow
  /\ now' = now + 1
  /\ UNCHANGED <<cachedDs, setting, speedLabels, dHistory, disk, restarts, samples, alone>>

\* Histories that cannot be loaded are begun anew: all or none of them, for
\* those of two speeds have nothing to do with one another.
Restart ==
  /\ restarts < MaxRestarts
  /\ restarts' = restarts + 1
  /\ cachedDs' = <<>>
  /\ setting' = [c \in Setters |-> NoCall]
  /\ speedLabels' = [speed \in Speeds |-> Label(speed, now)]
  /\ \/ dHistory' = disk
     \/ dHistory' = [speed \in Speeds |-> <<>>]
  /\ alone' = {}
  /\ UNCHANGED <<now, disk, samples>>

Init ==
  /\ now = 0 /\ restarts = 0
  /\ cachedDs = <<>>
  /\ setting = [c \in Setters |-> NoCall]
  /\ speedLabels = [speed \in Speeds |-> 0]
  /\ dHistory = [speed \in Speeds |-> <<>>]
  /\ disk = [speed \in Speeds |-> <<>>]
  /\ samples = <<>> /\ alone = {}

Next ==
  \/ \E c \in Setters :
       SetBegin(c) \/ FindHit(c) \/ FindMiss(c) \/ Make(c) \/ LoadValue(c) \/ StoreValue(c)
  \/ \E speed \in Speeds : Close(speed)
  \/ Tick \/ Restart

Spec == Init /\ [][Next]_vars
-----------------------------------------------------------------------------
\* What the loop of GetCurves has so far, and its next entry: the next point if
\* it is of that time, an empty one otherwise; the oldest point is never shown.
NextEntry(points, at, acc) ==
  IF acc.idx >= Len(points) \/ points[acc.idx].at # at
  THEN [curve |-> Append(acc.curve, [at |-> at, data |-> {}]), idx |-> acc.idx]
  ELSE [curve |-> Append(acc.curve, points[acc.idx]), idx |-> acc.idx + 1]

\* GetCurves: the pointCnt labels before the current one, newest first here,
\* a label without a point empty; the last entry of the list is dropped if it
\* is.
Shown(speed, label, pointCnt) ==
  LET points == Reverse(dHistory[speed])
      acc[i \in 0 .. pointCnt] ==
        IF i = 0 THEN [curve |-> <<>>, idx |-> 1]
        ELSE NextEntry(points, LabelTime(speed, label - i), acc[i - 1])
  IN acc[pointCnt].curve

GetCurves(speed, label, pointCnt) ==
  LET curve == Shown(speed, label, pointCnt)
  IN Reverse(IF curve # <<>> /\ Head(curve).data = {} THEN Tail(curve) ELSE curve)
-----------------------------------------------------------------------------
OfLabel(S, speed, label) == {x \in S : Label(speed, samples[x]) = label}

\* A label's point holds all the samples whose SetData had the cache to itself
\* and returned before the label was closed, provided the routine comes while
\* the next label runs (SetData, statisticRoutine).
PointsComplete ==
  [][\A speed \in Speeds :
       LET label == speedLabels[speed]
           data == IF dHistory'[speed] = dHistory[speed] THEN {} ELSE Last(dHistory'[speed]).data
       IN Close(speed) /\ Label(speed, now) = label + 1 => OfLabel(alone, speed, label) \subseteq data]_vars

\* GetCurves shows at each time samples of that time only, and all that the
\* history has among the labels asked for but the oldest point, with trims,
\* restarts, failed saves and labels without a point, provided that the routine
\* adds no point between the call's look at the clock and its look at the
\* history.
CurvesShowHistory ==
  \A speed \in {x \in Speeds : dHistory[x] # <<>>} : \A n \in {1, maxPointCount} :
    LET label == Label(speed, now)
        curve == ToSet(GetCurves(speed, label, n))
        asked == {p \in ToSet(Tail(dHistory[speed])) : p.at >= LabelTime(speed, label - n)}
    IN /\ \A e \in curve : e.data = OfLabel(e.data, speed, Label(speed, e.at))
       /\ asked \subseteq curve
=============================================================================
