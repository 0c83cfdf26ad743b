---------------------------- MODULE MCSmallParts ----------------------------
(***************************************************************************)
(* Three parts that have nothing to do with each other, in one run: a      *)
(* behaviour is one of the watch dog, of the usage times or of the         *)
(* statistics by date, and the other two stay as they began.               *)
(***************************************************************************)
EXTENDS WatchDog, TimeUsage, DateStatistics

VARIABLE part

vars == <<part, dogVars, usageVars, datesVars>>

DogAlone == part = "dog" /\ UNCHANGED <<part, usageVars, datesVars>>
UsageAlone == part = "usage" /\ UNCHANGED <<part, dogVars, datesVars>>
DatesAlone == part = "dates" /\ UNCHANGED <<part, dogVars, usageVars>>

Init ==
  /\ part \in {"dog", "usage", "dates"}
  /\ DogInit /\ UsageInit /\ DatesInit
  /\ part # "dates" => firstDay = 0 /\ longDay = {}

Next ==
  \/ DogNext /\ DogAlone
  \/ UsageNext /\ UsageAlone
  \/ DatesNext /\ DatesAlone

\* Time passes, the routine's sleeps end and Start gets to its end; nobody has
\* to call anything.
Fairness ==
  /\ WF_vars(Elapse /\ DogAlone)
  /\ WF_vars(MainRoutine /\ DogAlone)
  /\ WF_vars((StartTouch \/ StartCount) /\ DogAlone)

Spec == Init /\ [][Next]_vars /\ Fairness
=============================================================================
