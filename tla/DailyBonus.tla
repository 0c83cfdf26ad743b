----------------------------- MODULE DailyBonus -----------------------------
(***************************************************************************)
(* The daily bonus of one id: trafficpackage/dailybonusoperator.go over    *)
(* trafficpackage/impl/fmstorage/dailybonusstorage.go.  Five can be earned *)
(* a day; what is left of them the next day is carried to the bonus that   *)
(* stays.  A call reads both balances and charges them later, beside other *)
(* calls and across midnight; each call brings its own idea of today.      *)
(***************************************************************************)
EXTENDS Integers, Functions, FiniteSetsExt

CONSTANTS
  Callers,     \* concurrent calls of ConsumeAmount and TryConsumeAmount
  NoData,      \* the id is not in the file yet
  InitBonus, InitDaily,  \* what fnBonusInitForNewID gives a new id
  MaxDay,      \* bound: days
  Requests,    \* bound: the amounts asked for
  MaxEarned,   \* bound: how often a bonus is earned
  MaxGranted   \* bound: ConsumeAmount is called up to this sum

VARIABLES
  dd,       \* daily-bonus.json: the dailyData of the id, or NoData
  today,    \* the calendar; day 0 is the empty date
  call,     \* the call each caller is in
  earned,   \* history: how often the bonus of a day was earned
  granted,  \* history: what each caller's calls reported as consumed
  late,     \* history: a bonus was earned for a day before the last one
  overshot  \* history: a ConsumeAmount took more than the day's five

bonusVars == <<dd, today, call, earned, granted, late, overshot>>

-----------------------------------------------------------------------------
Days == 1..MaxDay

\* The dates calls come with: a call may be a day behind when it is served.
Nows == {d \in Days : d \in {today, today - 1}}

\* initDataForNewID
Data == IF dd = NoData THEN [date |-> 0, bonus |-> InitBonus, daily |-> InitDaily]
        ELSE dd

\* Mutant: what is left of an old day is dropped.
RollOverDrops(d, now) ==
  IF d.daily > 0 /\ d.date # now THEN [d EXCEPT !.daily = 0] ELSE d

\* What is left of another day's five is added to the bonus that stays.
RollOver(d, now) ==
  IF d.daily > 0 /\ d.date # now
  THEN [d EXCEPT !.bonus = @ + d.daily, !.daily = 0]
  ELSE d

IdleCall == [pc |-> "idle", asked |-> 0, n |-> 0, bonus |-> 0, daily |-> 0,
             refused |-> FALSE]

-----------------------------------------------------------------------------
Tick ==
  /\ today < MaxDay
  /\ today' = today + 1
  /\ UNCHANGED <<dd, call, earned, granted, late, overshot>>

(* Get and HasDailyBonus only roll over.                                    *)
Look(now) ==
  /\ dd' = RollOver(Data, now)
  /\ UNCHANGED <<today, call, earned, granted, late, overshot>>

\* A day's five are earned, whatever day was the last.
Earned(d, now) ==
  /\ SumFunction(earned) < MaxEarned
  /\ dd' = [d EXCEPT !.daily = 5, !.date = now]
  /\ earned' = [earned EXCEPT ![now] = @ + 1]
  /\ late' = (late \/ now < d.date)

\* Mutant: only the daily balance is looked at, not the date.
EarnTwice(now) ==
  LET d == RollOver(Data, now)
  IN  /\ \/ d.daily = 0 /\ Earned(d, now)
         \/ d.daily # 0 /\ dd' = d /\ UNCHANGED <<earned, late>>
      /\ UNCHANGED <<today, call, granted, overshot>>

(* EarnDailyBonus; ErrAlreadyExists if the date is the last one earned on.  *)
Earn(now) ==
  LET d == RollOver(Data, now)
  IN  /\ \/ d.date # now /\ Earned(d, now)
         \/ d.date = now /\ dd' = d /\ UNCHANGED <<earned, late>>
      /\ UNCHANGED <<today, call, granted, overshot>>

\* GetAllBonus rolls over; the call goes on with what it has read.
Begin(c, now, next) ==
  /\ call[c].pc \in {"idle", "done"}
  /\ dd' = RollOver(Data, now)
  /\ call' = [call EXCEPT ![c] = next]
  /\ UNCHANGED <<today, earned, granted, late, overshot>>

\* A call that ends without charging anything.
Uncharged(n, refused) ==
  [pc |-> "done", asked |-> n, n |-> n, bonus |-> 0, daily |-> 0, refused |-> refused]

(* ConsumeAmount: ErrResourceExhausted, or it takes the day's five first.   *)
(* What is missing of them it subtracts from zero.                          *)
BeginConsume(c, now, n) ==
  LET d == RollOver(Data, now)
      day == Min({n, d.daily})
  IN  /\ SumFunction(granted) + n <= MaxGranted
      /\ Begin(c, now,
               IF n > d.daily + d.bonus THEN Uncharged(n, TRUE)
               ELSE [pc |-> "charge", asked |-> n, n |-> 0, bonus |-> -(n - day),
                     daily |-> day, refused |-> FALSE])

(* TryConsumeAmount: it takes the day's five first, then of the bonus what  *)
(* is missing, or what there is.                                            *)
BeginTry(c, now, n) ==
  LET d == RollOver(Data, now)
      day == Min({n, d.daily})
      stays == Min({n - day, d.bonus})
  IN  Begin(c, now,
            IF d.bonus + d.daily <= 0 THEN Uncharged(n, FALSE)
            ELSE [pc |-> "charge", asked |-> n, n |-> n - day - stays,
                  bonus |-> stays, daily |-> day, refused |-> FALSE])

(* ConsumeBonus: both balances must still hold what is taken, else          *)
(* ErrOutOfRange and nothing is.                                            *)
End(c) ==
  LET ok == Data.daily >= call[c].daily /\ Data.bonus >= call[c].bonus
  IN  /\ call[c].pc = "charge"
      /\ dd' = IF ok THEN [Data EXCEPT !.bonus = @ - call[c].bonus,
                                       !.daily = @ - call[c].daily]
               ELSE dd
      /\ granted' = IF ok THEN [granted EXCEPT ![c] = @ + call[c].asked - call[c].n] ELSE granted
      /\ call' = [call EXCEPT ![c] = IF ok THEN [@ EXCEPT !.pc = "done",
                                                   !.bonus = 0, !.daily = 0]
                                     ELSE Uncharged(call[c].asked, TRUE)]
      /\ overshot' = (overshot \/ (ok /\ call[c].bonus < 0))
      /\ UNCHANGED <<today, earned, late>>

BonusInit ==
  /\ dd = NoData
  /\ today = 1
  /\ call = [c \in Callers |-> IdleCall]
  /\ earned = [d \in Days |-> 0]
  /\ granted = [c \in Callers |-> 0]
  /\ late = FALSE
  /\ overshot = FALSE

BonusNext ==
  \/ Tick
  \/ \E now \in Nows :
       \/ Look(now)
       \/ Earn(now)
       \/ \E c \in Callers, n \in Requests :
            BeginConsume(c, now, n) \/ BeginTry(c, now, n)
  \/ \E c \in Callers : End(c)

Spec == BonusInit /\ [][BonusNext]_bonusVars

-----------------------------------------------------------------------------
\* The balances are what a new id starts with, and five for each day earned, less
\* what calls reported as consumed.
Balanced ==
  Data.bonus + Data.daily = InitBonus + InitDaily + 5 * SumFunction(earned)
                             - SumFunction(granted)

(* Nothing is lost or made up, whatever the dates calls come with and in    *)
(* whatever order they read and charge: no balance is ever negative, and    *)
(* balances add up as long as no ConsumeAmount has taken more than the      *)
(* day's five, which it adds to the bonus.  A roll-over between the two     *)
(* steps of a call changes nothing of that.                                 *)
BalancesAddUp ==
  /\ Data.bonus >= 0 /\ Data.daily >= 0
  /\ overshot \/ Balanced

(* Nobody earns the same day twice, unless a late call has earned for a day *)
(* before the last one, which makes the code forget that day.               *)
EarnedOncePerDay == late \/ \A d \in Days : earned[d] <= 1
=============================================================================
