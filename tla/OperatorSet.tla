----------------------------- MODULE OperatorSet -----------------------------
(***************************************************************************)
(* trafficpackage/operatorset.go over its two operators: under its own     *)
(* lock a set asks one operator after the other for what is still missing, *)
(* while others call the operators past the set.  The set is one of the    *)
(* callers of modules DailyBonus and TrafficPackage.                       *)
(***************************************************************************)
EXTENDS Integers, Sequences, FiniteSets, Functions

CONSTANTS
  Callers, Set,     \* the callers of the operators; the set is one of them
  Operators,        \* the operators of the set, in order: "bonus", "packages"
  NoData, InitBonus, InitDaily, MaxDay, MaxEarned, MaxGranted,
  PackageIDs, Sizes, Requests

ASSUME SetAssumption ==
  /\ IsFiniteSet(Callers) /\ Set \in Callers
  /\ Operators \in Seq({"bonus", "packages"}) /\ Operators # <<>>
  /\ NoData \notin [date : Nat, bonus : Nat, daily : Nat]
  /\ InitBonus \in Nat /\ InitDaily \in Nat
  /\ MaxDay \in Nat \ {0} /\ MaxEarned \in Nat /\ MaxGranted \in Nat
  /\ Sizes \subseteq Nat \ {0} /\ Requests \subseteq Nat \ {0}

VARIABLES
  dd, today, bonusCall, earned, bonusGranted, late, overshot,  \* DailyBonus
  packages, packageCall, packageGranted,       \* TrafficPackage
  set,       \* the call of the set that holds its lock
  events     \* history: the sum of the ConsumedCounts of the events

D == INSTANCE DailyBonus WITH call <- bonusCall, granted <- bonusGranted
P == INSTANCE TrafficPackage WITH call <- packageCall, granted <- packageGranted

bonusVars   == <<dd, today, bonusCall, earned, bonusGranted, late, overshot>>
packageVars == <<packages, packageCall, packageGranted>>
vars        == <<bonusVars, packageVars, set, events>>

-----------------------------------------------------------------------------
Operator == Operators[set.i]

\* The call of the set at its operator.
Answer == IF Operator = "bonus" THEN bonusCall[Set] ELSE packageCall[Set]

\* What the set's calls have taken from the operators.
Taken == bonusGranted[Set] + packageGranted[Set]

(* TryConsumeAmount of the set takes its lock.                              *)
Call(now, n) ==
  /\ set.pc \in {"idle", "done"}
  /\ set' = [pc |-> "ask", now |-> now, n |-> n, rn |-> 0, i |-> 1,
             refused |-> FALSE, before |-> Taken]
  /\ UNCHANGED <<bonusVars, packageVars, events>>

\* Mutant: every operator is asked for the whole amount.
AskWhole ==
  /\ set.pc = "ask"
  /\ \/ /\ Operator = "bonus"
        /\ D!BeginTry(Set, set.now, set.n)
        /\ UNCHANGED packageVars
     \/ /\ Operator = "packages"
        /\ P!BeginTry(Set, set.n)
        /\ UNCHANGED bonusVars
  /\ set' = [set EXCEPT !.pc = "wait"]
  /\ UNCHANGED events

(* The next operator is asked for what is missing.                          *)
Ask ==
  /\ set.pc = "ask"
  /\ \/ /\ Operator = "bonus"
        /\ D!BeginTry(Set, set.now, set.n - set.rn)
        /\ UNCHANGED packageVars
     \/ /\ Operator = "packages"
        /\ P!BeginTry(Set, set.n - set.rn)
        /\ UNCHANGED bonusVars
  /\ set' = [set EXCEPT !.pc = "wait"]
  /\ UNCHANGED events

(* The operator works on it.                                                *)
Work ==
  /\ set.pc = "wait"
  /\ \/ D!End(Set) /\ UNCHANGED packageVars
     \/ P!TryStep(Set) /\ UNCHANGED bonusVars
  /\ UNCHANGED <<set, events>>

(* The operator refuses: the set returns 0 and the error, whatever earlier  *)
(* operators have given.                                                    *)
Refused ==
  /\ set.pc = "wait"
  /\ Answer.pc = "done" /\ Answer.refused
  /\ set' = [set EXCEPT !.pc = "done", !.rn = 0, !.refused = TRUE]
  /\ UNCHANGED <<bonusVars, packageVars, events>>

\* Mutant: the event is left out when the operator gave less than asked for.
AnsweredQuietly ==
  LET cn == Answer.asked - Answer.n
      rn == set.rn + cn
  IN  /\ set.pc = "wait"
      /\ Answer.pc = "done" /\ ~Answer.refused
      /\ events' = IF Answer.n = 0 THEN events + cn ELSE events
      /\ set' = IF rn >= set.n \/ set.i = Len(Operators)
                THEN [set EXCEPT !.pc = "done", !.rn = rn]
                ELSE [set EXCEPT !.pc = "ask", !.rn = rn, !.i = set.i + 1]
      /\ UNCHANGED <<bonusVars, packageVars>>

(* It gives something: the event is sent, and the next operator is asked if *)
(* something is missing still.                                              *)
Answered ==
  LET cn == Answer.asked - Answer.n
      rn == set.rn + cn
  IN  /\ set.pc = "wait"
      /\ Answer.pc = "done" /\ ~Answer.refused
      /\ events' = events + cn
      /\ set' = IF rn >= set.n \/ set.i = Len(Operators)
                THEN [set EXCEPT !.pc = "done", !.rn = rn]
                ELSE [set EXCEPT !.pc = "ask", !.rn = rn, !.i = set.i + 1]
      /\ UNCHANGED <<bonusVars, packageVars>>

(* Others use the operators directly.                                       *)
OtherBonus ==
  /\ \/ D!Tick
     \/ \E now \in D!Nows :
          \/ D!Look(now) \/ D!Earn(now)
          \/ \E c \in Callers \ {Set}, n \in Requests :
               D!BeginConsume(c, now, n) \/ D!BeginTry(c, now, n)
     \/ \E c \in Callers \ {Set} : D!End(c)
  /\ UNCHANGED <<packageVars, set, events>>

OtherPackages ==
  /\ \/ \E id \in PackageIDs, amount \in Sizes : P!AddPackage(id, amount)
     \/ \E c \in Callers \ {Set} :
          \/ \E n \in Requests : P!BeginConsume(c, n) \/ P!BeginTry(c, n)
          \/ P!EndConsume(c) \/ P!TryStep(c)
  /\ UNCHANGED <<bonusVars, set, events>>

Init ==
  /\ D!BonusInit
  /\ P!TrafficInit
  /\ set = [pc |-> "idle", now |-> 1, n |-> 0, rn |-> 0, i |-> 1,
            refused |-> FALSE, before |-> 0]
  /\ events = 0

Next ==
  \/ \E now \in D!Nows, n \in Requests : Call(now, n)
  \/ Ask \/ Work \/ Refused \/ Answered
  \/ OtherBonus \/ OtherPackages

Spec == Init /\ [][Next]_vars

-----------------------------------------------------------------------------
\* What the operator has charged for the set, and the set has not yet heard of.
Unheard == IF set.pc = "wait" /\ Answer.pc = "done" THEN Answer.asked - Answer.n ELSE 0

(* The events account for everything the operators report to the set, even  *)
(* in calls that end with an error and in ones others get in the way of:    *)
(* they are the only account of a call that returns 0 and an error after an *)
(* earlier operator has given something.                                    *)
EventsExplainCharges == Taken = events + Unheard

(* A call of the set takes no more than it was asked for, and what it       *)
(* reports without an error is what it took.                                *)
ReportExact ==
  /\ Taken - set.before <= set.n
  /\ set.pc = "done" /\ ~set.refused => set.rn = Taken - set.before

(* Used by a set and past it, the daily bonus keeps what it promises by     *)
(* itself: balances add up and are never negative, a day is earned once.    *)
BalancesAddUp    == D!BalancesAddUp
EarnedOncePerDay == D!EarnedOncePerDay
=============================================================================
