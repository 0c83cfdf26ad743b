------------------------------ MODULE WatchDog ------------------------------
(***************************************************************************)
(* watchdog/watch_dog.go: a routine that wakes up now and then and gives   *)
(* notice when nobody has touched the dog for too long, several checks in  *)
(* a row.  Start, Stop and Touch run under a lock, of which the routine    *)
(* takes only that of its check: its other reads and writes of the same    *)
(* fields are steps of their own here, and so are the writes of Start.     *)
(* Fields that are read without the lock are taken to hold what was        *)
(* written last, as a sleep comes between two reads.                       *)
(***************************************************************************)
EXTENDS Naturals

CONSTANTS
  CheckMaxDuration, \* in units of time that pass between two steps
  CheckFailCount,
  MaxCalls          \* bound on calls of Start, Stop and Touch

ASSUME WatchDogAssumption ==
  /\ CheckMaxDuration \in Nat \ {0}
  /\ CheckFailCount \in Nat \ {0}
  /\ MaxCalls \in Nat

VARIABLES
  started,
  failCount,
  silence,  \* time since lastTouchAt, as far as CheckMaxDuration
  starting, \* what Start has left to write, in the lock
  pc,       \* where mainRoutine is
  loaded,   \* failCount as it has read it
  callsLeft,
  failed,   \* history: checks that failed in a row since Start or the last notice
  raced     \* history: Start came in between the steps of a round, and its
            \* count may have been lost

dogVars == <<started, failCount, silence, starting, pc, loaded, callsLeft, failed, raced>>

Unlocked == starting = "done"

DogInit ==
  /\ started = FALSE
  /\ failCount = 0
  /\ silence = 0
  /\ starting = "done"
  /\ pc = "sleep"
  /\ loaded = 0
  /\ callsLeft = MaxCalls
  /\ failed = 0
  /\ raced = FALSE
-----------------------------------------------------------------------------
\* Callers.

Call ==
  /\ callsLeft > 0
  /\ Unlocked
  /\ callsLeft' = callsLeft - 1

Touch ==
  /\ Call
  /\ silence' = 0
  /\ UNCHANGED <<started, failCount, starting, pc, loaded, failed, raced>>

Start ==
  /\ Call
  /\ started' = TRUE
  /\ starting' = "touch"
  /\ UNCHANGED <<failCount, silence, pc, loaded, failed, raced>>

StartTouch ==
  /\ starting = "touch"
  /\ silence' = 0
  /\ starting' = "count"
  /\ UNCHANGED <<started, failCount, pc, loaded, callsLeft, failed, raced>>

StartCount ==
  /\ starting = "count"
  /\ failCount' = 0
  /\ starting' = "done"
  /\ failed' = 0
  /\ raced' = (pc # "sleep")
  /\ UNCHANGED <<started, silence, pc, loaded, callsLeft>>

Stop ==
  /\ Call
  /\ started' = FALSE
  /\ UNCHANGED <<failCount, silence, starting, pc, loaded, failed, raced>>

Elapse ==
  /\ silence < CheckMaxDuration
  /\ silence' = silence + 1
  /\ UNCHANGED <<started, failCount, starting, pc, loaded, callsLeft, failed, raced>>
-----------------------------------------------------------------------------
\* mainRoutine.  A sleep that ends while the dog is stopped starts again.

Wake ==
  /\ pc = "sleep"
  /\ started
  /\ pc' = "check"
  /\ UNCHANGED <<started, failCount, silence, starting, loaded, callsLeft, failed, raced>>

Check ==
  /\ pc = "check"
  /\ Unlocked
  /\ pc' = IF silence < CheckMaxDuration THEN "forget" ELSE "load"
  /\ failed' = IF silence < CheckMaxDuration THEN 0
               ELSE IF failed < CheckFailCount THEN failed + 1 ELSE failed
  /\ UNCHANGED <<started, failCount, silence, starting, loaded, callsLeft, raced>>

\* Mutant: a check that succeeds does not forget the failed ones.
ForgetNot ==
  /\ pc = "forget"
  /\ pc' = "compare"
  /\ UNCHANGED <<started, failCount, silence, starting, loaded, callsLeft, failed, raced>>

Forget ==
  /\ pc = "forget"
  /\ failCount' = 0
  /\ raced' = FALSE
  /\ pc' = "compare"
  /\ UNCHANGED <<started, silence, starting, loaded, callsLeft, failed>>

\* Mutant: the count is a variable of the round.
LoadNoCount ==
  /\ pc = "load"
  /\ loaded' = 0
  /\ pc' = "store"
  /\ UNCHANGED <<started, failCount, silence, starting, callsLeft, failed, raced>>

LoadCount ==
  /\ pc = "load"
  /\ loaded' = failCount
  /\ pc' = "store"
  /\ UNCHANGED <<started, failCount, silence, starting, callsLeft, failed, raced>>

StoreCount ==
  /\ pc = "store"
  /\ failCount' = loaded + 1
  /\ pc' = "compare"
  /\ UNCHANGED <<started, silence, starting, loaded, callsLeft, failed, raced>>

Compare ==
  /\ pc = "compare"
  /\ pc' = IF failCount >= CheckFailCount THEN "notify" ELSE "sleep"
  /\ UNCHANGED <<started, failCount, silence, starting, loaded, callsLeft, failed, raced>>

NotifyTimeout ==
  /\ pc = "notify"
  /\ pc' = "reset"
  /\ UNCHANGED <<started, failCount, silence, starting, loaded, callsLeft, failed, raced>>

ResetCount ==
  /\ pc = "reset"
  /\ failCount' = 0
  /\ failed' = 0
  /\ raced' = FALSE
  /\ pc' = "touch"
  /\ UNCHANGED <<started, silence, starting, loaded, callsLeft>>

ResetTouch ==
  /\ pc = "touch"
  /\ silence' = 0
  /\ pc' = "sleep"
  /\ UNCHANGED <<started, failCount, starting, loaded, callsLeft, failed, raced>>

MainRoutine ==
  \/ Wake \/ Check \/ Forget \/ LoadCount \/ StoreCount \/ Compare
  \/ NotifyTimeout \/ ResetCount \/ ResetTouch

DogNext == Touch \/ Start \/ StartTouch \/ StartCount \/ Stop \/ Elapse \/ MainRoutine

DogSpec == DogInit /\ [][DogNext]_dogVars
-----------------------------------------------------------------------------
\* Notice is given only after CheckFailCount failed checks in a row since Start
\* or the notice before, so that a late touch never adds up with an earlier
\* one (mainRoutine); unless Start came in the middle of a round, when the
\* routine may put the count back that Start has just set to zero.
NoticeEarned == pc = "notify" => failed >= CheckFailCount \/ raced

\* A dog that stays started and is not touched any more gives notice again and
\* again, whatever calls came in between the steps of the routine before.
BarksAtSilence == <>[](started /\ Unlocked) => []<>(pc = "notify")
=============================================================================
