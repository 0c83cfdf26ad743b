-------------------------- MODULE OperatorSetProofs --------------------------
(***************************************************************************)
(* What holds of an operator set, of the daily bonus and of the packages   *)
(* it asks, for any operators in any order, any callers beside it and any  *)
(* amounts.  The induction rests on the call the set has at an operator    *)
(* (SetFits): it is asked for what is missing, and no other operator has   *)
(* one running.                                                            *)
(***************************************************************************)
EXTENDS OperatorSet, Sums

PP == INSTANCE TrafficPackageProofs WITH call <- packageCall, granted <- packageGranted

Balances == [date : Nat, bonus : Nat, daily : Nat]

\* A call at the daily bonus reports what it takes, and nothing when it is refused.
BonusCallFits(x) ==
  /\ x \in [pc : {"idle", "charge", "done"}, asked : Nat, n : Nat, bonus : Int, daily : Nat,
            refused : BOOLEAN]
  /\ x.n <= x.asked
  /\ x.pc = "charge" /\ x.bonus >= 0 => x.asked - x.n = x.bonus + x.daily
  /\ x.refused => x.n = x.asked

BonusTyped ==
  /\ dd \in {NoData} \cup Balances
  /\ today \in D!Days
  /\ bonusCall = [c \in Callers |-> bonusCall[c]]
  /\ \A c \in Callers : BonusCallFits(bonusCall[c])
  /\ earned \in [D!Days -> Nat]
  /\ bonusGranted \in [Callers -> Nat]
  /\ late \in BOOLEAN /\ overshot \in BOOLEAN

\* A day after the last one a bonus was earned for has not been earned.
DaysEarned ==
  late \/ \A d \in D!Days : earned[d] <= 1 /\ (d > D!Data.date => earned[d] = 0)

BonusInv == BonusTyped /\ DaysEarned /\ (overshot \/ D!Balanced)

-----------------------------------------------------------------------------
LEMMA MinOfTwo ==
  ASSUME NEW a \in Int, NEW b \in Int
  PROVE  D!Min({a, b}) = IF a <= b THEN a ELSE b
<1>1. \E x \in {a, b} : \A y \in {a, b} : x <= y
  OBVIOUS
<1>2. D!Min({a, b}) \in {a, b} /\ \A y \in {a, b} : D!Min({a, b}) <= y
  BY <1>1 DEF D!Min
<1>. QED BY <1>2

LEMMA RollOverKeeps ==
  ASSUME NEW d \in Balances, NEW now
  PROVE  /\ D!RollOver(d, now) \in Balances
         /\ D!RollOver(d, now).date = d.date
         /\ D!RollOver(d, now).bonus + D!RollOver(d, now).daily = d.bonus + d.daily
<1>1. CASE d.daily > 0 /\ d.date # now
  <2>1. D!RollOver(d, now) = [date |-> d.date, bonus |-> d.bonus + d.daily, daily |-> 0]
    BY <1>1 DEF Balances, D!RollOver
  <2>. QED BY <2>1 DEF Balances
<1>2. CASE ~(d.daily > 0 /\ d.date # now)
  BY <1>2 DEF Balances, D!RollOver
<1>. QED BY <1>1, <1>2

LEMMA DataTyped ==
  ASSUME BonusTyped
  PROVE  D!Data \in Balances
BY SetAssumption DEF BonusTyped, D!Data, Balances

\* What is in the file, when something is.
LEMMA DataStored ==
  ASSUME dd' \in Balances
  PROVE  D!Data' = dd'
BY SetAssumption DEF D!Data, Balances

(* The modules of the operators sum alike.                                  *)
LEMMA SumsAgree ==
  ASSUME NEW f
  PROVE  /\ D!SumFunction(f) = SumFunction(f)
         /\ P!SumFunction(f) = SumFunction(f)
         /\ PP!SumFunction(f) = SumFunction(f)
BY DEF SumFunction, SumFunctionOnSet, FoldFunctionOnSet, MapThenFoldSet,
  D!SumFunction, D!SumFunctionOnSet, D!FoldFunctionOnSet, D!MapThenFoldSet,
  P!SumFunction, P!SumFunctionOnSet, P!FoldFunctionOnSet, P!MapThenFoldSet,
  PP!SumFunction, PP!SumFunctionOnSet, PP!FoldFunctionOnSet, PP!MapThenFoldSet

LEMMA BalancedMeans ==
  ASSUME NEW d, NEW s, NEW t, d = D!Data, s = SumFunction(earned), t = SumFunction(bonusGranted)
  PROVE  D!Balanced <=> d.bonus + d.daily = InitBonus + InitDaily + 5 * s - t
BY SumsAgree DEF D!Balanced

LEMMA EarnedSum ==
  ASSUME BonusTyped
  PROVE  /\ SumFunction(earned) \in Int
         /\ \A d \in D!Days : earned' = [earned EXCEPT ![d] = @ + 1] =>
              SumFunction(earned') = SumFunction(earned) + 1
<1>1. PICK S, f : S = D!Days /\ f = earned
  OBVIOUS
<1>2. IsFiniteSet(S)
  BY <1>1, SetAssumption, FS_Interval DEF D!Days
<1>3. f \in [S -> Int]
  BY <1>1 DEF BonusTyped
<1>4. PICK one \in Int : one = 1
  OBVIOUS
<1>5. SumFunction(f) \in Int
  <2>1. one \in S
    BY <1>1, <1>4, SetAssumption DEF D!Days
  <2>. QED BY <1>2, <1>3, <2>1, SumGrows
<1>6. \A d \in S, r \in Int : SumFunction([f EXCEPT ![d] = @ + r]) = SumFunction(f) + r
  BY <1>2, <1>3, SumGrows
<1>. QED BY <1>1, <1>4, <1>5, <1>6

LEMMA GrantedSum ==
  ASSUME BonusTyped
  PROVE  /\ SumFunction(bonusGranted) \in Int
         /\ \A c \in Callers, r \in Int : bonusGranted' = [bonusGranted EXCEPT ![c] = @ + r] =>
              SumFunction(bonusGranted') = SumFunction(bonusGranted) + r
<1>1. PICK f : f = bonusGranted
  OBVIOUS
<1>2. IsFiniteSet(Callers) /\ Set \in Callers
  BY SetAssumption
<1>3. f \in [Callers -> Int]
  BY <1>1 DEF BonusTyped
<1>4. PICK z \in Int : z = 0
  OBVIOUS
<1>5. SumFunction(f) \in Int
  BY <1>2, <1>3, <1>4, SumGrows
<1>6. \A c \in Callers, r \in Int : SumFunction([f EXCEPT ![c] = @ + r]) = SumFunction(f) + r
  BY <1>2, <1>3, SumGrows
<1>. QED BY <1>1, <1>5, <1>6

\* A call of c goes on as x.
CallMoves(c, x) == bonusCall' = [bonusCall EXCEPT ![c] = x] /\ BonusCallFits(x)

LEMMA CallMovesTyped ==
  ASSUME BonusTyped, NEW c \in Callers, NEW x, CallMoves(c, x)
  PROVE  /\ bonusCall' = [d \in Callers |-> bonusCall'[d]]
         /\ \A d \in Callers : BonusCallFits(bonusCall'[d])
<1>1. bonusCall = [d \in Callers |-> bonusCall[d]] /\ \A d \in Callers : BonusCallFits(bonusCall[d])
  BY DEF BonusTyped
<1>2. bonusCall' = [bonusCall EXCEPT ![c] = x] /\ BonusCallFits(x)
  BY DEF CallMoves
<1>3. \A d \in Callers : bonusCall'[d] = IF d = c THEN x ELSE bonusCall[d]
  BY <1>1, <1>2
<1>. QED BY <1>1, <1>2, <1>3

(* A call that only rolls over changes nothing that matters.                *)
LEMMA RollingStep ==
  ASSUME BonusInv, NEW now, dd' = D!RollOver(D!Data, now),
         UNCHANGED <<today, earned, bonusGranted, late, overshot>>,
         \/ UNCHANGED bonusCall
         \/ \E c \in Callers : \E x : CallMoves(c, x)
  PROVE  BonusInv'
<1>1. BonusTyped /\ D!Data \in Balances
  BY DataTyped DEF BonusInv
<1>2. PICK d, e : d = D!Data /\ e = D!RollOver(d, now)
  OBVIOUS
<1>3. e \in Balances /\ e.date = d.date /\ e.bonus + e.daily = d.bonus + d.daily
  BY <1>1, <1>2, RollOverKeeps
<1>4. dd' = e /\ D!Data' = e
  BY <1>2, <1>3, DataStored
<1>5. BonusTyped'
  <2>1. /\ bonusCall' = [c \in Callers |-> bonusCall'[c]]
        /\ \A c \in Callers : BonusCallFits(bonusCall'[c])
    BY <1>1, CallMovesTyped DEF BonusTyped
  <2>. QED BY <1>1, <1>3, <1>4, <2>1 DEF BonusTyped
<1>6. DaysEarned'
  <2>1. D!Data'.date = D!Data.date
    BY <1>2, <1>3, <1>4
  <2>. QED BY <2>1 DEF BonusInv, DaysEarned, D!Days
<1>7. (overshot \/ D!Balanced)'
  <2>1. D!Data'.bonus + D!Data'.daily = D!Data.bonus + D!Data.daily
    BY <1>2, <1>3, <1>4
  <2>. QED BY <2>1 DEF BonusInv, D!Balanced
<1>. QED BY <1>5, <1>6, <1>7 DEF BonusInv

LEMMA TickStep ==
  ASSUME BonusInv, D!Tick
  PROVE  BonusInv'
<1>1. /\ today < MaxDay /\ today' = today + 1
      /\ UNCHANGED <<dd, bonusCall, earned, bonusGranted, late, overshot>>
  BY DEF D!Tick
<1>2. D!Data' = D!Data
  BY <1>1 DEF D!Data
<1>3. today' \in D!Days
  BY <1>1, SetAssumption DEF BonusInv, BonusTyped, D!Days
<1>4. BonusTyped'
  BY <1>1, <1>3 DEF BonusInv, BonusTyped
<1>5. DaysEarned' /\ (overshot \/ D!Balanced)'
  BY <1>1, <1>2 DEF BonusInv, DaysEarned, D!Balanced
<1>. QED BY <1>4, <1>5 DEF BonusInv

LEMMA LookStep ==
  ASSUME BonusInv, NEW now, D!Look(now)
  PROVE  BonusInv'
BY RollingStep DEF D!Look

LEMMA EarnStep ==
  ASSUME BonusInv, NEW now \in D!Nows, D!Earn(now)
  PROVE  BonusInv'
<1>1. BonusTyped /\ D!Data \in Balances
  BY DataTyped DEF BonusInv
<1>2. PICK d, e : d = D!Data /\ e = D!RollOver(d, now)
  OBVIOUS
<1>3. d \in Balances /\ e \in Balances /\ e.date = d.date /\ e.bonus + e.daily = d.bonus + d.daily
  BY <1>1, <1>2, RollOverKeeps
<1>4. CASE e.date = now /\ dd' = e /\ UNCHANGED <<earned, late>>
  <2>1. UNCHANGED <<today, bonusCall, earned, bonusGranted, late, overshot>>
    BY <1>4 DEF D!Earn
  <2>. QED BY <1>2, <1>4, <2>1, RollingStep
<1>5. CASE e.date # now /\ D!Earned(e, now)
  <2>1. /\ dd' = [e EXCEPT !.daily = 5, !.date = now]
        /\ earned' = [earned EXCEPT ![now] = @ + 1]
        /\ late' = (late \/ now < e.date)
        /\ UNCHANGED <<today, bonusCall, bonusGranted, overshot>>
    BY <1>5 DEF D!Earn, D!Earned
  <2>2. now \in D!Days /\ now \in Nat
    BY DEF D!Nows, D!Days
  <2>3. /\ dd' \in Balances /\ dd'.date = now /\ dd'.bonus = e.bonus /\ dd'.daily = 5
        /\ e.date \in Nat /\ e.bonus \in Nat /\ e.daily \in Nat
    BY <1>3, <2>1, <2>2 DEF Balances
  <2>4. D!Data' = dd'
    BY <2>3, DataStored
  <2>5. e.daily = 0 \/ e.daily > 0
    BY <2>3
  <2>6. e.daily = 0
    BY <1>2, <1>3, <1>5, <2>5 DEF D!RollOver, Balances
  <2>7. BonusTyped'
    <3>1. earned' \in [D!Days -> Nat]
      <4>1. earned \in [D!Days -> Nat]
        BY <1>1 DEF BonusTyped
      <4>2. earned[now] + 1 \in Nat
        BY <2>2, <4>1
      <4>. QED BY <2>1, <4>1, <4>2
    <3>2. late' \in BOOLEAN
      BY <1>1, <2>1 DEF BonusTyped
    <3>. QED BY <1>1, <2>1, <2>3, <3>1, <3>2 DEF BonusTyped
  <2>8. DaysEarned'
    <3>1. CASE late'
      BY <3>1 DEF DaysEarned
    <3>2. CASE ~late'
      <4>1. ~late /\ ~(now < d.date) /\ now > d.date
        <5>1. late' = (late \/ now < e.date) /\ e.date = d.date /\ e.date # now
          BY <1>3, <1>5, <2>1
        <5>2. ~late /\ ~(now < e.date)
          BY <3>2, <5>1
        <5>. QED BY <2>2, <2>3, <5>1, <5>2
      <4>2. \A k \in D!Days : earned[k] \in Nat /\ k \in Nat
        BY <1>1 DEF BonusTyped, D!Days
      <4>3. \A k \in D!Days : earned[k] <= 1 /\ (k > d.date => earned[k] = 0)
        BY <1>2, <4>1 DEF BonusInv, DaysEarned
      <4>4. earned[now] = 0
        BY <2>2, <4>1, <4>3
      <4>5. \A k \in D!Days : earned'[k] = IF k = now THEN 1 ELSE earned[k]
        BY <1>1, <2>1, <4>4 DEF BonusTyped
      <4>6. d.date \in Nat
        BY <1>3 DEF Balances
      <4>7. \A k \in D!Days : earned'[k] <= 1 /\ (k > now => earned'[k] = 0)
        BY <2>2, <4>1, <4>2, <4>3, <4>5, <4>6
      <4>. QED BY <2>3, <2>4, <4>7 DEF DaysEarned, D!Days
    <3>. QED BY <3>1, <3>2
  <2>9. (overshot \/ D!Balanced)'
    <3>1. CASE overshot
      BY <2>1, <3>1
    <3>2. CASE ~overshot
      <4>1. e.bonus + e.daily = InitBonus + InitDaily + 5 * SumFunction(earned) - SumFunction(bonusGranted)
        <5>1. D!Balanced
          BY <3>2 DEF BonusInv
        <5>. QED BY <1>2, <1>3, <5>1, BalancedMeans
      <4>2. SumFunction(earned) \in Int /\ SumFunction(earned') = SumFunction(earned) + 1
        BY <1>1, <2>1, <2>2, EarnedSum
      <4>3. SumFunction(bonusGranted) \in Int /\ InitBonus \in Nat /\ InitDaily \in Nat
        BY <1>1, GrantedSum, SetAssumption
      <4>4. PICK s, t : s = SumFunction(earned) /\ t = SumFunction(bonusGranted)
        OBVIOUS
      <4>5. s \in Int /\ t \in Int /\ e.bonus + e.daily = InitBonus + InitDaily + 5 * s - t
        BY <4>1, <4>2, <4>3, <4>4
      <4>6. e.bonus + 5 = InitBonus + InitDaily + 5 * (s + 1) - t
        BY <2>3, <2>6, <4>3, <4>5
      <4>7. SumFunction(earned') = s + 1 /\ SumFunction(bonusGranted') = t
        BY <2>1, <4>2, <4>4
      <4>8. D!Data'.bonus + D!Data'.daily = e.bonus + 5
        BY <2>3, <2>4
      <4>9. D!Balanced'
        BY <4>6, <4>7, <4>8, SumsAgree DEF D!Balanced
      <4>. QED BY <4>9
    <3>. QED BY <3>1, <3>2 DEF BonusInv, BonusTyped
  <2>. QED BY <2>7, <2>8, <2>9 DEF BonusInv
<1>. QED BY <1>2, <1>4, <1>5 DEF D!Earn

(* A call at the bonus begins: what it would take fits what there is.       *)
LEMMA BeginConsumeStep ==
  ASSUME BonusInv, NEW c \in Callers, NEW now, NEW n \in Nat, D!BeginConsume(c, now, n)
  PROVE  BonusInv'
<1>1. BonusTyped /\ D!Data \in Balances
  BY DataTyped DEF BonusInv
<1>2. PICK e : e = D!RollOver(D!Data, now)
  OBVIOUS
<1>3. e \in Balances /\ e.bonus \in Nat /\ e.daily \in Nat
  BY <1>1, <1>2, RollOverKeeps DEF Balances
<1>4. PICK day : day = D!Min({n, e.daily})
  OBVIOUS
<1>5. day \in Nat /\ day <= n
  BY <1>3, <1>4, MinOfTwo
<1>6. PICK x : x = IF n > e.daily + e.bonus THEN D!Uncharged(n, TRUE)
                   ELSE [pc |-> "charge", asked |-> n, n |-> 0, bonus |-> -(n - day),
                         daily |-> day, refused |-> FALSE]
  OBVIOUS
<1>7. BonusCallFits(x)
  <2>1. CASE n > e.daily + e.bonus
    BY <1>6, <2>1 DEF BonusCallFits, D!Uncharged
  <2>2. CASE ~(n > e.daily + e.bonus)
    <3>1. -(n - day) \in Int /\ (-(n - day) >= 0 => n - 0 = -(n - day) + day)
      BY <1>5
    <3>. QED BY <1>5, <1>6, <2>2, <3>1 DEF BonusCallFits
  <2>. QED BY <2>1, <2>2
<1>8. D!Begin(c, now, x)
  BY <1>2, <1>4, <1>6 DEF D!BeginConsume
<1>. QED BY <1>7, <1>8, RollingStep DEF D!Begin, CallMoves

LEMMA BeginTryStep ==
  ASSUME BonusInv, NEW c \in Callers, NEW now, NEW n \in Nat, D!BeginTry(c, now, n)
  PROVE  BonusInv'
<1>1. BonusTyped /\ D!Data \in Balances
  BY DataTyped DEF BonusInv
<1>2. PICK e : e = D!RollOver(D!Data, now)
  OBVIOUS
<1>3. e \in Balances /\ e.bonus \in Nat /\ e.daily \in Nat
  BY <1>1, <1>2, RollOverKeeps DEF Balances
<1>4. PICK day, stays : day = D!Min({n, e.daily}) /\ stays = D!Min({n - day, e.bonus})
  OBVIOUS
<1>5. day \in Nat /\ day <= n
  BY <1>3, <1>4, MinOfTwo
<1>6. stays \in Nat /\ stays <= n - day
  <2>1. PICK m \in Int : m = n - day
    BY <1>5
  <2>2. stays = IF m <= e.bonus THEN m ELSE e.bonus
    BY <1>3, <1>4, <2>1, MinOfTwo
  <2>. QED BY <1>3, <1>5, <2>1, <2>2
<1>7. PICK x : x = IF e.bonus + e.daily <= 0 THEN D!Uncharged(n, FALSE)
                   ELSE [pc |-> "charge", asked |-> n, n |-> n - day - stays,
                         bonus |-> stays, daily |-> day, refused |-> FALSE]
  OBVIOUS
<1>8. BonusCallFits(x)
  <2>1. CASE e.bonus + e.daily <= 0
    BY <1>7, <2>1 DEF BonusCallFits, D!Uncharged
  <2>2. CASE ~(e.bonus + e.daily <= 0)
    <3>1. n - day - stays \in Nat /\ n - day - stays <= n /\ n - (n - day - stays) = stays + day
      BY <1>5, <1>6
    <3>. QED BY <1>5, <1>6, <1>7, <2>2, <3>1 DEF BonusCallFits
  <2>. QED BY <2>1, <2>2
<1>9. D!Begin(c, now, x)
  BY <1>2, <1>4, <1>7 DEF D!BeginTry
<1>. QED BY <1>8, <1>9, RollingStep DEF D!Begin, CallMoves

(* A call charges what it has read: all of it, or nothing.                  *)
LEMMA EndStep ==
  ASSUME BonusInv, NEW c \in Callers, D!End(c)
  PROVE  BonusInv'
<1>1. BonusTyped /\ D!Data \in Balances
  BY DataTyped DEF BonusInv
<1>2. PICK d, y : d = D!Data /\ y = bonusCall[c]
  OBVIOUS
<1>3. d \in Balances /\ d.date \in Nat /\ d.bonus \in Nat /\ d.daily \in Nat
  BY <1>1, <1>2 DEF Balances
<1>4. BonusCallFits(y) /\ y.pc = "charge"
  BY <1>1, <1>2 DEF BonusTyped, D!End
<1>5. /\ y.asked \in Nat /\ y.n \in Nat /\ y.bonus \in Int /\ y.daily \in Nat /\ y.n <= y.asked
      /\ y.bonus >= 0 => y.asked - y.n = y.bonus + y.daily
  BY <1>4 DEF BonusCallFits
<1>6. CASE d.daily >= y.daily /\ d.bonus >= y.bonus
  <2>1. /\ dd' = [d EXCEPT !.bonus = @ - y.bonus, !.daily = @ - y.daily]
        /\ bonusGranted' = [bonusGranted EXCEPT ![c] = @ + y.asked - y.n]
        /\ bonusCall' = [bonusCall EXCEPT ![c] = [@ EXCEPT !.pc = "done", !.bonus = 0, !.daily = 0]]
        /\ overshot' = (overshot \/ y.bonus < 0)
        /\ UNCHANGED <<today, earned, late>>
    BY <1>2, <1>6 DEF D!End
  <2>2. d.bonus - y.bonus \in Nat /\ d.daily - y.daily \in Nat
    BY <1>3, <1>5, <1>6
  <2>3. /\ dd' \in Balances /\ dd'.date = d.date
        /\ dd'.bonus = d.bonus - y.bonus /\ dd'.daily = d.daily - y.daily
    BY <1>3, <2>1, <2>2 DEF Balances
  <2>4. D!Data' = dd'
    BY <2>3, DataStored
  <2>5. PICK x : x = [y EXCEPT !.pc = "done", !.bonus = 0, !.daily = 0]
    OBVIOUS
  <2>6. CallMoves(c, x)
    <3>1. BonusCallFits(x)
      <4>1. y \in [pc : {"idle", "charge", "done"}, asked : Nat, n : Nat, bonus : Int,
                   daily : Nat, refused : BOOLEAN]
        BY <1>4 DEF BonusCallFits
      <4>2. /\ x \in [pc : {"idle", "charge", "done"}, asked : Nat, n : Nat, bonus : Int,
                      daily : Nat, refused : BOOLEAN]
            /\ x.pc = "done" /\ x.n = y.n /\ x.asked = y.asked /\ x.refused = y.refused
        <5>1. y = [pc |-> y.pc, asked |-> y.asked, n |-> y.n, bonus |-> y.bonus,
                   daily |-> y.daily, refused |-> y.refused]
          BY <4>1
        <5>2. y.asked \in Nat /\ y.n \in Nat /\ y.refused \in BOOLEAN
          BY <4>1
        <5>3. x = [pc |-> "done", asked |-> y.asked, n |-> y.n, bonus |-> 0, daily |-> 0,
                   refused |-> y.refused]
          BY <2>5, <5>1
        <5>. QED BY <5>2, <5>3
      <4>3. y.n <= y.asked /\ (y.refused => y.n = y.asked)
        BY <1>4 DEF BonusCallFits
      <4>. QED BY <4>2, <4>3 DEF BonusCallFits
    <3>. QED BY <1>1, <1>2, <2>1, <2>5, <3>1 DEF BonusTyped, CallMoves
  <2>7. PICK r \in Nat : r = y.asked - y.n
    BY <1>5
  <2>8. bonusGranted' = [bonusGranted EXCEPT ![c] = @ + r]
    <3>1. bonusGranted[c] \in Nat
      BY <1>1 DEF BonusTyped
    <3>2. bonusGranted[c] + y.asked - y.n = bonusGranted[c] + r
      BY <1>5, <2>7, <3>1
    <3>. QED BY <2>1, <3>2
  <2>9. BonusTyped'
    <3>1. bonusGranted' \in [Callers -> Nat]
      BY <1>1, <2>8 DEF BonusTyped
    <3>2. overshot' \in BOOLEAN
      BY <1>1, <2>1 DEF BonusTyped
    <3>3. /\ bonusCall' = [e \in Callers |-> bonusCall'[e]]
          /\ \A e \in Callers : BonusCallFits(bonusCall'[e])
      BY <1>1, <2>6, CallMovesTyped
    <3>. QED BY <1>1, <2>1, <2>3, <3>1, <3>2, <3>3 DEF BonusTyped
  <2>10. DaysEarned'
    <3>1. D!Data'.date = D!Data.date
      BY <1>2, <2>3, <2>4
    <3>. QED BY <2>1, <3>1 DEF BonusInv, DaysEarned, D!Days
  <2>11. (overshot \/ D!Balanced)'
    <3>1. CASE overshot \/ y.bonus < 0
      BY <2>1, <3>1
    <3>2. CASE ~overshot /\ ~(y.bonus < 0)
      <4>1. PICK s, t : s = SumFunction(earned) /\ t = SumFunction(bonusGranted)
        OBVIOUS
      <4>2. s \in Int /\ t \in Int
        BY <1>1, <4>1, EarnedSum, GrantedSum
      <4>3. d.bonus + d.daily = InitBonus + InitDaily + 5 * s - t
        <5>1. D!Balanced
          BY <3>2 DEF BonusInv
        <5>. QED BY <1>2, <4>1, <5>1, BalancedMeans
      <4>4. SumFunction(bonusGranted') = t + r
        <5>1. r \in Int
          BY <2>7
        <5>2. SumFunction(bonusGranted') = SumFunction(bonusGranted) + r
          BY <1>1, <2>8, <5>1, GrantedSum
        <5>. QED BY <4>1, <5>2
      <4>5. SumFunction(earned') = s
        BY <2>1, <4>1
      <4>6. r = y.bonus + y.daily
        BY <1>5, <2>7, <3>2
      <4>7. InitBonus \in Nat /\ InitDaily \in Nat
        BY SetAssumption
      <4>8. (d.bonus - y.bonus) + (d.daily - y.daily) = InitBonus + InitDaily + 5 * s - (t + r)
        BY <1>3, <1>5, <4>2, <4>3, <4>6, <4>7
      <4>9. D!Balanced'
        BY <2>3, <2>4, <4>4, <4>5, <4>8, SumsAgree DEF D!Balanced
      <4>. QED BY <4>9
    <3>. QED BY <3>1, <3>2, <1>5
  <2>. QED BY <2>9, <2>10, <2>11 DEF BonusInv
<1>7. CASE ~(d.daily >= y.daily /\ d.bonus >= y.bonus)
  <2>1. /\ UNCHANGED <<dd, today, earned, bonusGranted, late>>
        /\ bonusCall' = [bonusCall EXCEPT ![c] = D!Uncharged(y.asked, TRUE)]
        /\ overshot' = (overshot \/ FALSE)
    BY <1>2, <1>7 DEF D!End
  <2>2. overshot' = overshot
    BY <1>1, <2>1 DEF BonusTyped
  <2>3. D!Data' = D!Data
    BY <2>1 DEF D!Data
  <2>4. BonusTyped'
    <3>1. CallMoves(c, D!Uncharged(y.asked, TRUE))
      BY <1>5, <2>1 DEF CallMoves, BonusCallFits, D!Uncharged
    <3>2. /\ bonusCall' = [e \in Callers |-> bonusCall'[e]]
          /\ \A e \in Callers : BonusCallFits(bonusCall'[e])
      BY <1>1, <3>1, CallMovesTyped
    <3>. QED BY <1>1, <2>1, <2>2, <3>2 DEF BonusTyped
  <2>5. DaysEarned' /\ (overshot \/ D!Balanced)'
    BY <2>1, <2>2, <2>3 DEF BonusInv, DaysEarned, D!Balanced, D!Days
  <2>. QED BY <2>4, <2>5 DEF BonusInv
<1>. QED BY <1>6, <1>7

LEMMA BonusStarts ==
  ASSUME D!BonusInit
  PROVE  BonusInv
<1>1. /\ dd = NoData /\ today = 1 /\ bonusCall = [c \in Callers |-> D!IdleCall]
      /\ earned = [d \in D!Days |-> 0] /\ bonusGranted = [c \in Callers |-> 0]
      /\ late = FALSE /\ overshot = FALSE
  BY DEF D!BonusInit
<1>2. BonusTyped
  <2>1. today \in D!Days
    BY <1>1, SetAssumption DEF D!Days
  <2>2. BonusCallFits(D!IdleCall)
    BY DEF BonusCallFits, D!IdleCall
  <2>. QED BY <1>1, <2>1, <2>2 DEF BonusTyped
<1>3. DaysEarned
  BY <1>1 DEF DaysEarned
<1>4. D!Balanced
  <2>1. D!Data.bonus = InitBonus /\ D!Data.daily = InitDaily
    BY <1>1 DEF D!Data
  <2>2. SumFunction(earned) = 0 /\ SumFunction(bonusGranted) = 0
    <3>1. IsFiniteSet(D!Days) /\ IsFiniteSet(Callers)
      BY SetAssumption, FS_Interval DEF D!Days
    <3>2. PICK f : f = [d \in D!Days |-> 0]
      OBVIOUS
    <3>3. PICK g : g = [c \in Callers |-> 0]
      OBVIOUS
    <3>4. SumFunctionOnSet(f, D!Days) = 0
      BY <3>1, <3>2, SumZero
    <3>5. SumFunctionOnSet(g, Callers) = 0
      BY <3>1, <3>3, SumZero
    <3>. QED BY <1>1, <3>2, <3>3, <3>4, <3>5 DEF SumFunction
  <2>. QED BY <2>1, <2>2, SetAssumption, SumsAgree DEF D!Balanced
<1>. QED BY <1>2, <1>3, <1>4 DEF BonusInv

(* Whatever the set and others do at the bonus keeps what holds of it.      *)
LEMMA BonusStep ==
  ASSUME BonusInv, D!BonusNext
  PROVE  BonusInv'
<1>1. ASSUME NEW now \in D!Nows, NEW c \in Callers, NEW n \in Requests,
             D!BeginConsume(c, now, n) \/ D!BeginTry(c, now, n)
      PROVE  BonusInv'
  <2>1. n \in Nat
    BY SetAssumption
  <2>. QED BY <1>1, <2>1, BeginConsumeStep, BeginTryStep
<1>2. ASSUME NEW now \in D!Nows, D!Look(now) \/ D!Earn(now)
      PROVE  BonusInv'
  BY <1>2, LookStep, EarnStep
<1>3. ASSUME NEW c \in Callers, D!End(c)
      PROVE  BonusInv'
  BY <1>3, EndStep
<1>. QED BY <1>1, <1>2, <1>3, TickStep DEF D!BonusNext

-----------------------------------------------------------------------------
(* What module TrafficPackage calls a step, its proofs do.                  *)
LEMMA PackagesAgree ==
  /\ P!TrafficInit => PP!TrafficInit
  /\ \A id \in PackageIDs, amount \in Sizes : P!AddPackage(id, amount) => PP!AddPackage(id, amount)
  /\ \A c \in Callers : \A n : P!BeginConsume(c, n) => PP!BeginConsume(c, n)
  /\ \A c \in Callers : \A n : P!BeginTry(c, n) => PP!BeginTry(c, n)
<1>1. P!TrafficInit => PP!TrafficInit
  BY DEF P!TrafficInit, PP!TrafficInit, P!IdleCall, PP!IdleCall
<1>2. P!GetPackages = PP!GetPackages
  BY DEF P!GetPackages, PP!GetPackages
<1>3. ASSUME NEW infos
      PROVE  P!GetAmount(infos) = PP!GetAmount(infos)
  BY SumsAgree DEF P!GetAmount, PP!GetAmount
<1>4. ASSUME NEW id \in PackageIDs, NEW amount \in Sizes, P!AddPackage(id, amount)
      PROVE  PP!AddPackage(id, amount)
  BY <1>4 DEF P!AddPackage, PP!AddPackage, P!Range, PP!Range
<1>5. ASSUME NEW c \in Callers, NEW n, P!BeginConsume(c, n)
      PROVE  PP!BeginConsume(c, n)
  BY <1>2, <1>3, <1>5 DEF P!BeginConsume, PP!BeginConsume
<1>6. ASSUME NEW c \in Callers, NEW n, P!BeginTry(c, n)
      PROVE  PP!BeginTry(c, n)
  BY <1>2, <1>6 DEF P!BeginTry, PP!BeginTry
<1>. QED BY <1>1, <1>4, <1>5, <1>6

LEMMA ChargesAgree ==
  /\ \A c \in Callers : P!EndConsume(c) => PP!EndConsume(c)
  /\ \A c \in Callers : P!TryStep(c) => PP!TryStep(c)
<1>1. \A S : P!Min(S) = PP!Min(S)
  BY DEF P!Min, PP!Min
<1>2. ASSUME NEW cds
      PROVE  P!Accepts(cds) = PP!Accepts(cds) /\ P!Charge(cds) = PP!Charge(cds)
  BY DEF P!Accepts, PP!Accepts, P!Charge, PP!Charge, P!Range, PP!Range
<1>3. ASSUME NEW infos, NEW n
      PROVE  P!ConsumeData(infos, n) = PP!ConsumeData(infos, n)
  <2>1. \A s : P!GetAmount(s) = PP!GetAmount(s)
    BY SumsAgree DEF P!GetAmount, PP!GetAmount
  <2>. QED BY <1>1, <2>1 DEF P!ConsumeData, PP!ConsumeData
<1>4. ASSUME NEW c, NEW r, NEW refused
      PROVE  P!Return(c, r, refused) = PP!Return(c, r, refused)
  BY DEF P!Return, PP!Return
<1>5. ASSUME NEW c \in Callers, P!EndConsume(c)
      PROVE  PP!EndConsume(c)
  BY <1>2, <1>3, <1>4, <1>5 DEF P!EndConsume, PP!EndConsume
<1>6. ASSUME NEW c \in Callers
      PROVE  P!TryData(c) = PP!TryData(c)
  BY <1>1 DEF P!TryData, PP!TryData
<1>7. ASSUME NEW c \in Callers, P!TryStep(c)
      PROVE  PP!TryStep(c)
  <2>1. CASE P!TryConsume(c)
    BY <1>2, <1>4, <1>6, <2>1 DEF P!TryConsume, PP!TryConsume, PP!TryStep
  <2>2. CASE P!TryRefused(c)
    BY <1>2, <1>4, <1>6, <2>2 DEF P!TryRefused, PP!TryRefused, PP!TryStep
  <2>3. CASE P!TryShort(c)
    BY <1>4, <2>3 DEF P!TryShort, PP!TryShort, PP!TryStep
  <2>. QED BY <1>7, <2>1, <2>2, <2>3 DEF P!TryStep
<1>. QED BY <1>5, <1>7

(* Whatever the set and others do at the packages keeps what holds of them. *)
LEMMA PackagesStep ==
  ASSUME PP!TrafficInv,
         \/ \E id \in PackageIDs, amount \in Sizes : P!AddPackage(id, amount)
         \/ \E c \in Callers, n \in Nat \ {0} : P!BeginConsume(c, n) \/ P!BeginTry(c, n)
         \/ \E c \in Callers : P!EndConsume(c) \/ P!TryStep(c)
  PROVE  PP!TrafficInv'
<1>1. PP!WellFormed
  BY DEF PP!TrafficInv
<1>2. PP!TrafficAssumption
  BY SetAssumption DEF PP!TrafficAssumption, PP!IsFiniteSet, IsFiniteSet
<1>3. PP!Advances
  <2>1. ASSUME NEW id \in PackageIDs, NEW amount \in Sizes, P!AddPackage(id, amount)
        PROVE  PP!Advances
    BY <1>1, <1>2, <2>1, PackagesAgree, PP!AddPackageStep
  <2>2. ASSUME NEW c \in Callers, NEW n \in Nat \ {0}, P!BeginConsume(c, n)
        PROVE  PP!Advances
    BY <1>1, <1>2, <2>2, PackagesAgree, PP!BeginConsumeStep
  <2>3. ASSUME NEW c \in Callers, NEW n \in Nat \ {0}, P!BeginTry(c, n)
        PROVE  PP!Advances
    BY <1>1, <1>2, <2>3, PackagesAgree, PP!BeginTryStep
  <2>4. ASSUME NEW c \in Callers, P!EndConsume(c)
        PROVE  PP!Advances
    BY <1>1, <1>2, <2>4, ChargesAgree, PP!EndConsumeStep
  <2>5. ASSUME NEW c \in Callers, P!TryStep(c)
        PROVE  PP!Advances
    BY <1>1, <1>2, <2>5, ChargesAgree, PP!TryStepStep
  <2>. QED BY <2>1, <2>2, <2>3, <2>4, <2>5
<1>. QED BY <1>2, <1>3, PP!AdvanceKeeps

-----------------------------------------------------------------------------
SetCall == [pc : {"idle", "ask", "wait", "done"}, now : D!Days, n : Nat, rn : Nat,
            i : 1..Len(Operators), refused : BOOLEAN, before : Nat]

\* What a call at an operator reports: no more than it was asked for, nothing if refused.
Reports(z) ==
  /\ z.asked \in Nat /\ z.n \in Nat /\ z.n <= z.asked
  /\ z.refused => z.n = z.asked

\* The set's call at its operator, and what the set has not yet heard of, from the calls
\* x at the bonus and y at the packages.
Asked(s, x, y) == IF Operators[s.i] = "bonus" THEN x ELSE y
Open(s, x, y) ==
  IF s.pc = "wait" /\ Asked(s, x, y).pc = "done" THEN Asked(s, x, y).asked - Asked(s, x, y).n
  ELSE 0

\* The call s of the set and its calls x and y at the operators fit what it has taken and
\* what its events tell of.
Fits(s, x, y, taken, ev) ==
  /\ s \in SetCall /\ Reports(x) /\ Reports(y)
  /\ x.pc = "charge" => s.pc = "wait" /\ Operators[s.i] = "bonus"
  /\ y.pc # "consume"
  /\ y.pc = "try" => s.pc = "wait" /\ Operators[s.i] = "packages" /\ ~y.refused
  /\ s.rn <= s.n
  /\ s.pc \in {"ask", "wait"} => s.rn < s.n
  /\ s.pc = "wait" => Asked(s, x, y).asked = s.n - s.rn
  /\ taken \in Nat /\ taken = ev + Open(s, x, y) /\ ev \in Nat
  /\ IF s.pc = "done" /\ s.refused THEN taken <= s.before + s.n
     ELSE taken = s.before + s.rn + Open(s, x, y)

SetFits == Fits(set, bonusCall[Set], packageCall[Set], Taken, events)

SetInv == BonusInv /\ PP!TrafficInv /\ SetFits

LEMMA OpenTyped ==
  ASSUME NEW s, NEW x, NEW y, Reports(x), Reports(y)
  PROVE  Open(s, x, y) \in Nat /\ Open(s, x, y) <= Asked(s, x, y).asked
BY DEF Open, Asked, Reports

LEMMA SetCallFields ==
  ASSUME NEW s \in SetCall
  PROVE  /\ s.pc \in {"idle", "ask", "wait", "done"} /\ s.now \in D!Days /\ s.n \in Nat
         /\ s.rn \in Nat /\ s.i \in 1..Len(Operators) /\ s.i \in Nat
         /\ s.refused \in BOOLEAN /\ s.before \in Nat
BY DEF SetCall

(* What has been taken, by an operator's call that goes on, is what it now  *)
(* reports.                                                                 *)
LEMMA FitsWork ==
  ASSUME NEW s, NEW x, NEW y, NEW taken, NEW ev, Fits(s, x, y, taken, ev), s.pc = "wait",
         NEW u, NEW v, Reports(u), Reports(v), NEW more,
         u.pc = "charge" => x.pc = "charge", v.pc # "consume",
         v.pc = "try" => y.pc = "try" /\ ~v.refused,
         Asked(s, x, y).pc # "done", Asked(s, u, v).asked = Asked(s, x, y).asked,
         more = taken + Open(s, u, v)
  PROVE  Fits(s, u, v, more, ev)
<1>1. Open(s, x, y) = 0 /\ Open(s, u, v) \in Nat
  BY OpenTyped DEF Open
<1>2. taken \in Nat /\ ev \in Nat /\ taken = ev /\ taken = s.before + s.rn
      /\ s.before \in Nat /\ s.rn \in Nat
  BY <1>1, SetCallFields DEF Fits
<1>3. more \in Nat /\ more = ev + Open(s, u, v) /\ more = s.before + s.rn + Open(s, u, v)
  BY <1>1, <1>2
<1>. QED BY <1>2, <1>3 DEF Fits

(* The set asks its next operator.                                          *)
LEMMA FitsAsk ==
  ASSUME NEW s, NEW x, NEW y, NEW taken, NEW ev, Fits(s, x, y, taken, ev), s.pc = "ask",
         NEW u, NEW v, Reports(u), Reports(v),
         \/ Operators[s.i] = "bonus" /\ v = y
         \/ Operators[s.i] = "packages" /\ u = x,
         v.pc # "consume", v.pc = "try" => ~v.refused, NEW z, z = Asked(s, u, v),
         z.asked = s.n - s.rn, z.n = z.asked \/ z.pc # "done"
  PROVE  Fits([s EXCEPT !.pc = "wait"], u, v, taken, ev)
<1>1. PICK t : t = [s EXCEPT !.pc = "wait"]
  OBVIOUS
<1>2. s \in SetCall /\ s.n \in Nat /\ s.rn \in Nat /\ s.before \in Nat
  BY SetCallFields DEF Fits
<1>3. /\ t \in SetCall /\ t.pc = "wait" /\ t.n = s.n /\ t.rn = s.rn /\ t.before = s.before
      /\ t.i = s.i
  BY <1>1, <1>2 DEF SetCall
<1>4. Asked(t, u, v) = z
  BY <1>3 DEF Asked
<1>5. Open(t, u, v) = 0
  <2>1. Reports(z)
    BY DEF Asked
  <2>. QED BY <1>3, <1>4, <2>1 DEF Open, Reports
<1>6. Open(s, x, y) = 0
  BY DEF Open
<1>7. taken \in Nat /\ taken = ev + 0 /\ ev \in Nat /\ taken = s.before + s.rn + 0 /\ s.rn < s.n
  BY <1>6 DEF Fits
<1>8. x.pc # "charge" /\ y.pc # "try"
  BY DEF Fits
<1>9. Fits(t, u, v, taken, ev)
  BY <1>2, <1>3, <1>4, <1>5, <1>7, <1>8 DEF Fits
<1>. QED BY <1>1, <1>9

(* What the calls of the set at the operators report.                       *)
LEMMA CallsReport ==
  ASSUME SetInv
  PROVE  /\ BonusCallFits(bonusCall[Set]) /\ PP!CallTyped(packageCall[Set])
         /\ bonusGranted \in [Callers -> Nat] /\ packageGranted \in [Callers -> Nat]
         /\ bonusCall = [c \in Callers |-> bonusCall[c]]
         /\ packageCall = [c \in Callers |-> packageCall[c]]
         /\ Set \in Callers
BY SetAssumption DEF SetInv, BonusInv, BonusTyped, PP!TrafficInv, PP!WellFormed, PP!CallsOK

LEMMA CallStep ==
  ASSUME SetInv, NEW now \in D!Nows, NEW n \in Requests, Call(now, n)
  PROVE  SetFits'
<1>1. PICK s, x, y, taken, ev : /\ s = set /\ x = bonusCall[Set] /\ y = packageCall[Set]
                                /\ taken = Taken /\ ev = events
  OBVIOUS
<1>2. Fits(s, x, y, taken, ev) /\ s.pc \in {"idle", "done"}
  BY <1>1 DEF SetInv, SetFits, Call
<1>3. PICK t : t = [pc |-> "ask", now |-> now, n |-> n, rn |-> 0, i |-> 1, refused |-> FALSE,
                    before |-> taken]
  OBVIOUS
<1>4. n \in Nat \ {0} /\ now \in D!Days /\ Len(Operators) \in Nat \ {0}
  BY SetAssumption DEF D!Nows
<1>5. taken \in Nat /\ ev \in Nat /\ taken = ev
  <2>1. Open(s, x, y) = 0
    BY <1>2 DEF Open
  <2>. QED BY <1>2, <2>1 DEF Fits
<1>6. t \in SetCall
  BY <1>3, <1>4, <1>5 DEF SetCall
<1>7. Open(t, x, y) = 0
  BY <1>3 DEF Open
<1>8. Fits(t, x, y, taken, ev)
  BY <1>2, <1>3, <1>4, <1>5, <1>6, <1>7 DEF Fits
<1>9. /\ set' = t /\ bonusCall'[Set] = x /\ packageCall'[Set] = y /\ Taken' = taken
      /\ events' = ev
  BY <1>1, <1>3 DEF Call, bonusVars, packageVars, Taken
<1>. QED BY <1>8, <1>9 DEF SetFits

LEMMA RefusedStep ==
  ASSUME SetInv, Refused
  PROVE  SetFits'
<1>1. PICK s, x, y, taken, ev : /\ s = set /\ x = bonusCall[Set] /\ y = packageCall[Set]
                                /\ taken = Taken /\ ev = events
  OBVIOUS
<1>2. /\ Fits(s, x, y, taken, ev) /\ s.pc = "wait"
      /\ Asked(s, x, y).pc = "done" /\ Asked(s, x, y).refused
  BY <1>1 DEF SetInv, SetFits, Refused, Answer, Operator, Asked
<1>3. PICK t : t = [s EXCEPT !.pc = "done", !.rn = 0, !.refused = TRUE]
  OBVIOUS
<1>4. s \in SetCall /\ s.n \in Nat /\ s.rn \in Nat /\ s.before \in Nat /\ s.rn < s.n
  BY <1>2, SetCallFields DEF Fits
<1>5. t \in SetCall /\ t.pc = "done" /\ t.rn = 0 /\ t.refused /\ t.n = s.n /\ t.before = s.before
  BY <1>3, <1>4 DEF SetCall
<1>6. Open(s, x, y) = 0
  BY <1>2 DEF Open, Fits, Reports, Asked
<1>7. taken \in Nat /\ ev \in Nat /\ taken = ev /\ taken = s.before + s.rn
  BY <1>2, <1>4, <1>6 DEF Fits
<1>8. Open(t, x, y) = 0
  BY <1>5 DEF Open
<1>9. x.pc # "charge" /\ y.pc # "try"
  BY <1>2 DEF Fits, Asked
<1>10. Fits(t, x, y, taken, ev)
  <2>1. taken <= t.before + t.n
    BY <1>4, <1>5, <1>7
  <2>. QED BY <1>2, <1>4, <1>5, <1>7, <1>8, <1>9, <2>1 DEF Fits
<1>11. /\ set' = t /\ bonusCall'[Set] = x /\ packageCall'[Set] = y /\ Taken' = taken
       /\ events' = ev
  BY <1>1, <1>3 DEF Refused, bonusVars, packageVars, Taken
<1>. QED BY <1>10, <1>11 DEF SetFits

LEMMA AnsweredStep ==
  ASSUME SetInv, Answered
  PROVE  SetFits'
<1>1. PICK s, x, y, taken, ev : /\ s = set /\ x = bonusCall[Set] /\ y = packageCall[Set]
                                /\ taken = Taken /\ ev = events
  OBVIOUS
<1>2. PICK z, cn : z = Asked(s, x, y) /\ cn = z.asked - z.n
  OBVIOUS
<1>3. /\ Fits(s, x, y, taken, ev) /\ s.pc = "wait" /\ z.pc = "done"
      /\ events' = ev + cn
      /\ set' = IF s.rn + cn >= s.n \/ s.i = Len(Operators)
                THEN [s EXCEPT !.pc = "done", !.rn = s.rn + cn]
                ELSE [s EXCEPT !.pc = "ask", !.rn = s.rn + cn, !.i = s.i + 1]
  BY <1>1, <1>2 DEF SetInv, SetFits, Answered, Answer, Operator, Asked
<1>4. /\ s \in SetCall /\ s.n \in Nat /\ s.rn \in Nat /\ s.before \in Nat /\ s.rn < s.n
      /\ s.i \in 1..Len(Operators) /\ Len(Operators) \in Nat
  BY <1>3, SetCallFields, SetAssumption DEF Fits
<1>5. Reports(z) /\ z.asked = s.n - s.rn
  BY <1>2, <1>3 DEF Fits, Asked
<1>6. cn \in Nat /\ cn <= s.n - s.rn /\ Open(s, x, y) = cn
  BY <1>2, <1>3, <1>5 DEF Reports, Open
<1>7. taken \in Nat /\ ev \in Nat /\ taken = ev + cn /\ taken = s.before + s.rn + cn
  BY <1>3, <1>6 DEF Fits
<1>8. PICK rn \in Nat : rn = s.rn + cn
  BY <1>4, <1>6
<1>9. rn <= s.n /\ taken = s.before + rn
  <2>1. PICK n \in Nat, r \in Nat, b \in Nat : n = s.n /\ r = s.rn /\ b = s.before
    BY <1>4
  <2>2. cn \in Nat /\ cn <= n - r /\ rn = r + cn /\ taken = b + r + cn
    BY <1>6, <1>7, <1>8, <2>1, Zenon
  <2>3. rn <= n /\ taken = b + rn
    BY <2>2
  <2>. QED BY <2>1, <2>3, Zenon
<1>10. PICK t : t = set'
  OBVIOUS
<1>11. /\ t \in SetCall /\ t.pc \in {"ask", "done"} /\ t.rn = rn /\ t.n = s.n
       /\ t.before = s.before
       /\ t.pc = "ask" => rn < s.n
  <2>1. CASE s.rn + cn >= s.n \/ s.i = Len(Operators)
    <3>1. t = [s EXCEPT !.pc = "done", !.rn = rn]
      BY <1>3, <1>8, <1>10, <2>1
    <3>. QED BY <1>4, <1>8, <3>1 DEF SetCall
  <2>2. CASE ~(s.rn + cn >= s.n \/ s.i = Len(Operators))
    <3>1. t = [s EXCEPT !.pc = "ask", !.rn = rn, !.i = s.i + 1]
      BY <1>3, <1>8, <1>10, <2>2
    <3>2. s.i + 1 \in 1..Len(Operators) /\ rn < s.n
      BY <1>4, <1>8, <2>2
    <3>. QED BY <1>4, <1>8, <3>1, <3>2 DEF SetCall
  <2>. QED BY <2>1, <2>2
<1>12. Open(t, x, y) = 0
  BY <1>11 DEF Open
<1>13. x.pc # "charge" /\ y.pc # "try"
  BY <1>2, <1>3 DEF Fits, Asked
<1>14. Fits(t, x, y, taken, ev + cn)
  <2>1. ~(t.pc = "done" /\ t.refused) => taken = t.before + t.rn + Open(t, x, y)
    BY <1>4, <1>8, <1>9, <1>11, <1>12
  <2>2. taken <= t.before + t.n
    BY <1>4, <1>8, <1>9, <1>11
  <2>3. /\ t.rn <= t.n /\ (t.pc = "ask" => t.rn < t.n) /\ t.pc # "wait"
        /\ ev + cn \in Nat /\ taken = ev + cn + Open(t, x, y)
    BY <1>6, <1>7, <1>9, <1>11, <1>12
  <2>4. Reports(x) /\ Reports(y) /\ y.pc # "consume"
    BY <1>3 DEF Fits
  <2>. QED BY <1>7, <1>11, <1>13, <2>1, <2>2, <2>3, <2>4 DEF Fits
<1>15. /\ bonusCall'[Set] = x /\ packageCall'[Set] = y /\ Taken' = taken
       /\ events' = ev + cn
  BY <1>1, <1>3 DEF Answered, bonusVars, packageVars, Taken
<1>. QED BY <1>10, <1>14, <1>15 DEF SetFits

(* What a call at an operator goes on as, when it begins and when it works. *)
LEMMA BonusBegun ==
  ASSUME BonusInv, NEW c \in Callers, NEW now, NEW n, D!BeginTry(c, now, n),
         NEW u, u = bonusCall'[c]
  PROVE  u.asked = n /\ (u.n = n \/ u.pc = "charge") /\ bonusGranted' = bonusGranted
<1>1. bonusCall = [d \in Callers |-> bonusCall[d]]
  BY DEF BonusInv, BonusTyped
<1>2. PICK r : D!Begin(c, now, r) /\ r.asked = n /\ (r.n = n \/ r.pc = "charge")
  <2>1. D!Uncharged(n, FALSE).asked = n /\ D!Uncharged(n, FALSE).n = n
    BY DEF D!Uncharged
  <2>2. PICK e, left, stays, day :
          D!Begin(c, now, IF e.bonus + e.daily <= 0 THEN D!Uncharged(n, FALSE)
                          ELSE [pc |-> "charge", asked |-> n, n |-> left,
                                bonus |-> stays, daily |-> day, refused |-> FALSE])
    BY DEF D!BeginTry
  <2>3. PICK r : r = IF e.bonus + e.daily <= 0 THEN D!Uncharged(n, FALSE)
                     ELSE [pc |-> "charge", asked |-> n, n |-> left,
                           bonus |-> stays, daily |-> day, refused |-> FALSE]
    OBVIOUS
  <2>4. r.asked = n /\ (r.n = n \/ r.pc = "charge")
    BY <2>1, <2>3
  <2>. QED BY <2>2, <2>3, <2>4
<1>3. bonusCall' = [bonusCall EXCEPT ![c] = r] /\ bonusGranted' = bonusGranted
  BY <1>2 DEF D!Begin
<1>4. u = r
  BY <1>1, <1>3
<1>. QED BY <1>2, <1>3, <1>4

LEMMA BonusEnded ==
  ASSUME BonusInv, NEW c \in Callers, D!End(c), NEW x, x = bonusCall[c],
         NEW u, u = bonusCall'[c]
  PROVE  /\ x.pc = "charge" /\ u.pc = "done" /\ u.asked = x.asked
         /\ bonusGranted'[c] = bonusGranted[c] + (u.asked - u.n)
         /\ BonusCallFits(u)
<1>1. /\ bonusCall = [d \in Callers |-> bonusCall[d]] /\ bonusGranted \in [Callers -> Nat]
      /\ BonusCallFits(x)
  BY DEF BonusInv, BonusTyped
<1>2. PICK ok \in BOOLEAN :
        /\ x.pc = "charge"
        /\ bonusGranted' = IF ok THEN [bonusGranted EXCEPT ![c] = @ + x.asked - x.n]
                           ELSE bonusGranted
        /\ bonusCall' = [bonusCall EXCEPT ![c] =
             IF ok THEN [x EXCEPT !.pc = "done", !.bonus = 0, !.daily = 0]
             ELSE D!Uncharged(x.asked, TRUE)]
  BY <1>1 DEF D!End
<1>3. x.asked \in Nat /\ x.n \in Nat /\ bonusGranted[c] \in Nat
  BY <1>1 DEF BonusCallFits
<1>4. BonusCallFits(u)
  BY EndStep DEF BonusInv, BonusTyped
<1>5. CASE ok
  <2>1. u = [x EXCEPT !.pc = "done", !.bonus = 0, !.daily = 0]
    BY <1>1, <1>2, <1>5
  <2>2. u.pc = "done" /\ u.asked = x.asked /\ u.n = x.n
    BY <1>1, <2>1 DEF BonusCallFits
  <2>3. bonusGranted'[c] = bonusGranted[c] + x.asked - x.n
    BY <1>1, <1>2, <1>5
  <2>4. bonusGranted[c] + x.asked - x.n = bonusGranted[c] + (x.asked - x.n)
    BY <1>3
  <2>. QED BY <1>2, <1>4, <2>2, <2>3, <2>4
<1>6. CASE ~ok
  <2>1. u = D!Uncharged(x.asked, TRUE) /\ bonusGranted' = bonusGranted
    BY <1>1, <1>2, <1>6
  <2>2. u.pc = "done" /\ u.asked = x.asked /\ u.n = x.asked
    BY <2>1 DEF D!Uncharged
  <2>3. bonusGranted[c] = bonusGranted[c] + (x.asked - x.asked)
    BY <1>3
  <2>. QED BY <1>2, <1>4, <2>1, <2>2, <2>3
<1>. QED BY <1>5, <1>6

LEMMA PackagesBegun ==
  ASSUME PP!TrafficInv, NEW c \in Callers, NEW n, P!BeginTry(c, n), NEW v, v = packageCall'[c]
  PROVE  /\ v.asked = n /\ v.n = n /\ v.pc = "try" /\ ~v.refused
         /\ packageGranted' = packageGranted
<1>1. packageCall = [d \in Callers |-> packageCall[d]]
  BY DEF PP!TrafficInv, PP!WellFormed, PP!CallsOK
<1>2. PICK infos : infos = P!GetPackages
  OBVIOUS
<1>3. /\ packageCall' = [packageCall EXCEPT ![c] =
           [pc |-> "try", asked |-> n, n |-> n, infos |-> infos, refused |-> FALSE]]
      /\ packageGranted' = packageGranted
  BY <1>2 DEF P!BeginTry
<1>. QED BY <1>1, <1>3

LEMMA PackagesWorked ==
  ASSUME PP!TrafficInv, NEW c \in Callers, P!TryStep(c), NEW y, y = packageCall[c],
         NEW v, v = packageCall'[c], ~y.refused
  PROVE  /\ y.pc = "try" /\ v.pc \in {"try", "done"} /\ v.asked = y.asked
         /\ packageGranted'[c] = packageGranted[c] + (IF v.pc = "done" THEN v.asked - v.n ELSE 0)
         /\ v.refused => v.n = v.asked
         /\ v.pc = "try" => ~v.refused
<1>1. /\ packageCall = [d \in Callers |-> packageCall[d]] /\ packageGranted \in [Callers -> Nat]
      /\ PP!CallTyped(y)
  BY DEF PP!TrafficInv, PP!WellFormed, PP!CallsOK
<1>2. y.asked \in Nat /\ y.n \in Nat /\ y.n <= y.asked /\ packageGranted[c] \in Nat
  BY <1>1 DEF PP!CallTyped
<1>3. ASSUME NEW r \in Nat, NEW refused \in BOOLEAN, P!Return(c, r, refused),
             refused => r = 0, y.pc = "try"
      PROVE  /\ v.pc = "done" /\ v.asked = y.asked
             /\ packageGranted'[c] = packageGranted[c] + (v.asked - v.n)
             /\ v.refused => v.n = v.asked
  <2>1. /\ packageCall' = [packageCall EXCEPT ![c] = [pc |-> "done", asked |-> y.asked,
                             n |-> y.asked - r, infos |-> <<>>, refused |-> refused]]
        /\ packageGranted' = [packageGranted EXCEPT ![c] = @ + r]
    BY <1>3 DEF P!Return
  <2>2. v.pc = "done" /\ v.asked = y.asked /\ v.n = y.asked - r /\ v.refused = refused
    BY <1>1, <2>1
  <2>3. packageGranted'[c] = packageGranted[c] + r
    BY <1>1, <2>1
  <2>4. r = y.asked - (y.asked - r) /\ (r = 0 => y.asked - r = y.asked)
    BY <1>2
  <2>. QED BY <1>3, <2>2, <2>3, <2>4
<1>4. CASE P!TryRefused(c) \/ P!TryShort(c)
  <2>1. PICK refused \in BOOLEAN : /\ P!Return(c, y.asked - y.n, refused) /\ y.pc = "try"
                                   /\ refused => y.n = y.asked
    BY <1>4 DEF P!TryRefused, P!TryShort
  <2>2. PICK r \in Nat : r = y.asked - y.n
    BY <1>2
  <2>3. refused => r = 0
    BY <1>2, <2>1, <2>2
  <2>. QED BY <1>3, <2>1, <2>2, <2>3
<1>5. CASE P!TryConsume(c)
  <2>1. PICK left : /\ y.pc = "try"
                    /\ \/ P!Return(c, y.asked, FALSE)
                       \/ /\ packageCall' = [packageCall EXCEPT ![c].n = left,
                                                                ![c].infos = Tail(@)]
                          /\ packageGranted' = packageGranted
    BY <1>5 DEF P!TryConsume
  <2>2. CASE P!Return(c, y.asked, FALSE)
    BY <1>2, <1>3, <2>1, <2>2
  <2>3. CASE /\ packageCall' = [packageCall EXCEPT ![c].n = left, ![c].infos = Tail(@)]
             /\ packageGranted' = packageGranted
    <3>1. v = [y EXCEPT !.n = left, !.infos = Tail(@)]
      BY <1>1, <2>3
    <3>2. v.pc = "try" /\ v.asked = y.asked /\ v.refused = y.refused
      BY <1>1, <2>1, <3>1 DEF PP!CallTyped
    <3>3. packageGranted'[c] = packageGranted[c] + 0
      BY <1>2, <2>3
    <3>. QED BY <2>1, <3>2, <3>3
  <2>. QED BY <2>1, <2>2, <2>3
<1>. QED BY <1>4, <1>5 DEF P!TryStep

(* What one side leaves alone stays as it is.                               *)
LEMMA UntouchedPackages ==
  ASSUME PP!TrafficInv, UNCHANGED packageVars
  PROVE  PP!TrafficInv'
<1>1. PP!TrafficAssumption
  BY SetAssumption DEF PP!TrafficAssumption, PP!IsFiniteSet, IsFiniteSet
<1>2. UNCHANGED PP!trafficVars
  BY DEF packageVars, PP!trafficVars
<1>. QED BY <1>1, <1>2, PP!TrafficInvStep

LEMMA UntouchedBonus ==
  ASSUME BonusInv, UNCHANGED bonusVars
  PROVE  BonusInv'
BY DEF bonusVars, BonusInv, BonusTyped, DaysEarned, D!Balanced, D!Data, D!Days

LEMMA AskStep ==
  ASSUME SetInv, Ask
  PROVE  SetInv'
<1>1. PICK s, x, y, taken, ev : /\ s = set /\ x = bonusCall[Set] /\ y = packageCall[Set]
                                /\ taken = Taken /\ ev = events
  OBVIOUS
<1>2. PICK u, v : u = bonusCall'[Set] /\ v = packageCall'[Set]
  OBVIOUS
<1>3. /\ Fits(s, x, y, taken, ev) /\ s.pc = "ask"
      /\ events' = ev /\ set' = [s EXCEPT !.pc = "wait"]
  BY <1>1 DEF SetInv, SetFits, Ask
<1>4. s.n \in Nat /\ s.rn \in Nat /\ s.rn < s.n
  BY <1>3, SetCallFields DEF Fits
<1>5. PICK m \in Nat \ {0} : m = s.n - s.rn
  BY <1>4
<1>6. Reports(x) /\ Reports(y) /\ y.pc # "consume" /\ y.pc # "try" /\ x.pc # "charge"
  BY <1>3 DEF Fits
<1>7. Set \in Callers
  BY SetAssumption
<1>8. SUFFICES /\ BonusInv' /\ PP!TrafficInv' /\ Taken' = taken
               /\ Fits([s EXCEPT !.pc = "wait"], u, v, taken, ev)
  BY <1>2, <1>3 DEF SetInv, SetFits
<1>9. CASE Operators[s.i] = "bonus" /\ D!BeginTry(Set, s.now, m) /\ UNCHANGED packageVars
  <2>1. BonusInv'
    BY <1>5, <1>7, <1>9, BeginTryStep DEF SetInv
  <2>2. PP!TrafficInv'
    BY <1>9, UntouchedPackages DEF SetInv
  <2>3. u.asked = m /\ (u.n = m \/ u.pc = "charge") /\ bonusGranted' = bonusGranted
    BY <1>2, <1>7, <1>9, BonusBegun DEF SetInv
  <2>4. v = y /\ Taken' = taken
    BY <1>1, <1>2, <1>9, <2>3 DEF packageVars, Taken
  <2>5. Reports(u)
    BY <1>2, <1>7, <2>1 DEF BonusInv, BonusTyped, BonusCallFits, Reports
  <2>6. u = Asked(s, u, v)
    BY <1>9 DEF Asked
  <2>7. Fits([s EXCEPT !.pc = "wait"], u, v, taken, ev)
    <3>1. /\ Reports(v) /\ v.pc # "consume" /\ (v.pc = "try" => ~v.refused)
          /\ u.asked = s.n - s.rn /\ (u.n = u.asked \/ u.pc # "done")
      BY <1>5, <1>6, <2>3, <2>4
    <3>. QED BY <1>3, <1>9, <2>4, <2>5, <2>6, <3>1, FitsAsk
  <2>. QED BY <2>1, <2>2, <2>4, <2>7
<1>10. CASE Operators[s.i] = "packages" /\ P!BeginTry(Set, m) /\ UNCHANGED bonusVars
  <2>1. BonusInv'
    BY <1>10, UntouchedBonus DEF SetInv
  <2>2. PP!TrafficInv'
    BY <1>5, <1>7, <1>10, PackagesStep DEF SetInv
  <2>3. /\ v.asked = m /\ v.n = m /\ v.pc = "try" /\ ~v.refused
        /\ packageGranted' = packageGranted
    BY <1>2, <1>7, <1>10, PackagesBegun DEF SetInv
  <2>4. u = x /\ Taken' = taken
    BY <1>1, <1>2, <1>10, <2>3 DEF bonusVars, Taken
  <2>5. Reports(v)
    BY <1>5, <2>3 DEF Reports
  <2>6. v = Asked(s, u, v)
    BY <1>10 DEF Asked
  <2>7. Fits([s EXCEPT !.pc = "wait"], u, v, taken, ev)
    <3>1. /\ Reports(u) /\ v.pc # "consume" /\ (v.pc = "try" => ~v.refused)
          /\ v.asked = s.n - s.rn /\ (v.n = v.asked \/ v.pc # "done")
      BY <1>5, <1>6, <2>3, <2>4
    <3>. QED BY <1>3, <1>10, <2>4, <2>5, <2>6, <3>1, FitsAsk
  <2>. QED BY <2>1, <2>2, <2>4, <2>7
<1>11. \/ Operators[s.i] = "bonus" /\ D!BeginTry(Set, s.now, m) /\ UNCHANGED packageVars
       \/ Operators[s.i] = "packages" /\ P!BeginTry(Set, m) /\ UNCHANGED bonusVars
  BY <1>1, <1>5 DEF Ask, Operator
<1>. QED BY <1>9, <1>10, <1>11

LEMMA WorkStep ==
  ASSUME SetInv, Work
  PROVE  SetInv'
<1>1. PICK s, x, y, taken, ev : /\ s = set /\ x = bonusCall[Set] /\ y = packageCall[Set]
                                /\ taken = Taken /\ ev = events
  OBVIOUS
<1>2. PICK u, v : u = bonusCall'[Set] /\ v = packageCall'[Set]
  OBVIOUS
<1>3. Fits(s, x, y, taken, ev) /\ s.pc = "wait" /\ events' = ev /\ set' = s
  BY <1>1 DEF SetInv, SetFits, Work
<1>4. /\ Reports(x) /\ Reports(y) /\ y.pc # "consume"
      /\ x.pc = "charge" => Operators[s.i] = "bonus"
      /\ y.pc = "try" => Operators[s.i] = "packages" /\ ~y.refused
  BY <1>3 DEF Fits
<1>5. Set \in Callers /\ bonusGranted[Set] \in Nat /\ packageGranted[Set] \in Nat
  BY CallsReport
<1>6. PICK more : more = Taken'
  OBVIOUS
<1>7. SUFFICES BonusInv' /\ PP!TrafficInv' /\ Fits(s, u, v, more, ev)
  BY <1>2, <1>3, <1>6 DEF SetInv, SetFits
<1>8. CASE D!End(Set) /\ UNCHANGED packageVars
  <2>1. BonusInv'
    BY <1>5, <1>8, EndStep DEF SetInv
  <2>2. PP!TrafficInv'
    BY <1>8, UntouchedPackages DEF SetInv
  <2>3. /\ x.pc = "charge" /\ u.pc = "done" /\ u.asked = x.asked
        /\ bonusGranted'[Set] = bonusGranted[Set] + (u.asked - u.n)
        /\ BonusCallFits(u)
    BY <1>1, <1>2, <1>5, <1>8, BonusEnded DEF SetInv
  <2>4. v = y /\ packageGranted' = packageGranted
    BY <1>1, <1>2, <1>8 DEF packageVars
  <2>5. Asked(s, x, y) = x /\ Asked(s, u, v) = u /\ Open(s, u, v) = u.asked - u.n
    BY <1>3, <1>4, <2>3 DEF Asked, Open
  <2>6. Reports(u)
    BY <2>3 DEF BonusCallFits, Reports
  <2>7. more = taken + Open(s, u, v)
    <3>1. u.asked - u.n \in Int
      BY <2>6 DEF Reports
    <3>2. more = bonusGranted[Set] + (u.asked - u.n) + packageGranted[Set]
      BY <1>6, <2>3, <2>4 DEF Taken
    <3>. QED BY <1>1, <1>5, <2>5, <3>1, <3>2 DEF Taken
  <2>8. Fits(s, u, v, more, ev)
    <3>1. /\ (u.pc = "charge" => x.pc = "charge") /\ v.pc # "consume"
          /\ (v.pc = "try" => y.pc = "try" /\ ~v.refused) /\ Reports(v)
          /\ Asked(s, x, y).pc # "done" /\ Asked(s, u, v).asked = Asked(s, x, y).asked
      BY <1>4, <2>3, <2>4, <2>5
    <3>. QED BY <1>3, <2>6, <2>7, <3>1, FitsWork
  <2>. QED BY <2>1, <2>2, <2>8
<1>9. CASE P!TryStep(Set) /\ UNCHANGED bonusVars
  <2>1. BonusInv'
    BY <1>9, UntouchedBonus DEF SetInv
  <2>2. PP!TrafficInv'
    BY <1>5, <1>9, PackagesStep DEF SetInv
  <2>3. y.pc = "try" /\ ~y.refused
    <3>1. y.pc = "try"
      BY <1>1, <1>9 DEF P!TryStep, P!TryConsume, P!TryRefused, P!TryShort
    <3>. QED BY <1>4, <3>1
  <2>4. /\ v.pc \in {"try", "done"} /\ v.asked = y.asked
        /\ packageGranted'[Set] = packageGranted[Set]
                                    + (IF v.pc = "done" THEN v.asked - v.n ELSE 0)
        /\ v.refused => v.n = v.asked
        /\ v.pc = "try" => ~v.refused
    BY <1>1, <1>2, <1>5, <1>9, <2>3, PackagesWorked DEF SetInv
  <2>5. u = x /\ bonusGranted' = bonusGranted
    BY <1>1, <1>2, <1>9 DEF bonusVars
  <2>6. /\ Asked(s, x, y) = y /\ Asked(s, u, v) = v
        /\ Open(s, u, v) = IF v.pc = "done" THEN v.asked - v.n ELSE 0
    BY <1>3, <1>4, <2>3 DEF Asked, Open
  <2>7. Reports(v)
    <3>1. PP!CallTyped(v)
      BY <1>2, <1>5, <2>2 DEF PP!TrafficInv, PP!WellFormed, PP!CallsOK
    <3>. QED BY <2>4, <3>1 DEF PP!CallTyped, Reports
  <2>8. more = taken + Open(s, u, v)
    <3>1. PICK k \in Int : k = IF v.pc = "done" THEN v.asked - v.n ELSE 0
      BY <2>7 DEF Reports
    <3>2. more = bonusGranted[Set] + (packageGranted[Set] + k)
      BY <1>6, <2>4, <2>5, <3>1 DEF Taken
    <3>. QED BY <1>1, <1>5, <2>6, <3>1, <3>2 DEF Taken
  <2>9. Fits(s, u, v, more, ev)
    <3>1. /\ (u.pc = "charge" => x.pc = "charge") /\ v.pc # "consume"
          /\ (v.pc = "try" => y.pc = "try" /\ ~v.refused) /\ Reports(u)
          /\ Asked(s, x, y).pc # "done" /\ Asked(s, u, v).asked = Asked(s, x, y).asked
      BY <1>4, <2>3, <2>4, <2>5, <2>6
    <3>. QED BY <1>3, <2>7, <2>8, <3>1, FitsWork
  <2>. QED BY <2>1, <2>2, <2>9
<1>. QED BY <1>8, <1>9 DEF Work

(* What others do at the operators, the set does not see.                   *)
LEMMA OtherBonusStep ==
  ASSUME SetInv, OtherBonus
  PROVE  SetInv'
<1>1. /\ bonusCall = [c \in Callers |-> bonusCall[c]] /\ bonusGranted \in [Callers -> Nat]
      /\ Set \in Callers
  BY CallsReport
<1>2. UNCHANGED <<packageVars, set, events>>
  BY DEF OtherBonus
<1>3. BonusInv'
  <2>1. D!BonusNext
    BY DEF OtherBonus, D!BonusNext
  <2>. QED BY <2>1, BonusStep DEF SetInv
<1>4. bonusCall'[Set] = bonusCall[Set] /\ bonusGranted'[Set] = bonusGranted[Set]
  <2>1. ASSUME NEW now, D!Tick \/ D!Look(now) \/ D!Earn(now)
        PROVE  bonusCall' = bonusCall /\ bonusGranted' = bonusGranted
    BY <2>1 DEF D!Tick, D!Look, D!Earn
  <2>2. ASSUME NEW now, NEW c \in Callers \ {Set}, NEW n,
               D!BeginConsume(c, now, n) \/ D!BeginTry(c, now, n)
        PROVE  \E z : bonusCall' = [bonusCall EXCEPT ![c] = z] /\ bonusGranted' = bonusGranted
    BY <2>2 DEF D!BeginConsume, D!BeginTry, D!Begin
  <2>3. ASSUME NEW c \in Callers \ {Set}, D!End(c)
        PROVE  \E z, k : /\ bonusCall' = [bonusCall EXCEPT ![c] = z]
                         /\ \/ bonusGranted' = [bonusGranted EXCEPT ![c] = k]
                            \/ bonusGranted' = bonusGranted
    BY <2>3 DEF D!End
  <2>4. ASSUME NEW c \in Callers \ {Set}, NEW z, NEW k,
               bonusCall' = [bonusCall EXCEPT ![c] = z],
               \/ bonusGranted' = [bonusGranted EXCEPT ![c] = k]
               \/ bonusGranted' = bonusGranted
        PROVE  bonusCall'[Set] = bonusCall[Set] /\ bonusGranted'[Set] = bonusGranted[Set]
    BY <1>1, <2>4
  <2>. QED BY <2>1, <2>2, <2>3, <2>4 DEF OtherBonus
<1>5. PP!TrafficInv'
  BY <1>2, UntouchedPackages DEF SetInv
<1>6. packageCall'[Set] = packageCall[Set] /\ Taken' = Taken
  BY <1>2, <1>4 DEF packageVars, Taken
<1>. QED BY <1>2, <1>3, <1>4, <1>5, <1>6 DEF SetInv, SetFits

LEMMA OtherPackagesStep ==
  ASSUME SetInv, OtherPackages
  PROVE  SetInv'
<1>1. /\ packageCall = [c \in Callers |-> packageCall[c]] /\ packageGranted \in [Callers -> Nat]
      /\ Set \in Callers
  BY CallsReport
<1>2. UNCHANGED <<bonusVars, set, events>>
  BY DEF OtherPackages
<1>3. PP!TrafficInv'
  <2>1. Requests \subseteq Nat \ {0}
    BY SetAssumption
  <2>2. \/ \E id \in PackageIDs, amount \in Sizes : P!AddPackage(id, amount)
        \/ \E c \in Callers, n \in Nat \ {0} : P!BeginConsume(c, n) \/ P!BeginTry(c, n)
        \/ \E c \in Callers : P!EndConsume(c) \/ P!TryStep(c)
    BY <2>1 DEF OtherPackages
  <2>. QED BY <2>2, PackagesStep DEF SetInv
<1>4. packageCall'[Set] = packageCall[Set] /\ packageGranted'[Set] = packageGranted[Set]
  <2>1. ASSUME NEW id, NEW amount, P!AddPackage(id, amount)
        PROVE  packageCall' = packageCall /\ packageGranted' = packageGranted
    BY <2>1 DEF P!AddPackage
  <2>2. ASSUME NEW c \in Callers \ {Set}, NEW n, P!BeginConsume(c, n) \/ P!BeginTry(c, n)
        PROVE  \E z : /\ packageCall' = [packageCall EXCEPT ![c] = z]
                      /\ packageGranted' = packageGranted
    BY <2>2 DEF P!BeginConsume, P!BeginTry
  <2>3. ASSUME NEW c \in Callers \ {Set}, NEW r, NEW refused, P!Return(c, r, refused)
        PROVE  \E z, k : /\ packageCall' = [packageCall EXCEPT ![c] = z]
                         /\ packageGranted' = [packageGranted EXCEPT ![c] = k]
    BY <2>3 DEF P!Return
  <2>4. ASSUME NEW c \in Callers \ {Set}, NEW z, NEW k,
               packageCall' = [packageCall EXCEPT ![c] = z],
               \/ packageGranted' = [packageGranted EXCEPT ![c] = k]
               \/ packageGranted' = packageGranted
        PROVE  packageCall'[Set] = packageCall[Set] /\ packageGranted'[Set] = packageGranted[Set]
    BY <1>1, <2>4
  <2>5. ASSUME NEW c \in Callers \ {Set}, NEW left,
               packageCall' = [packageCall EXCEPT ![c].n = left, ![c].infos = Tail(@)],
               packageGranted' = packageGranted
        PROVE  packageCall'[Set] = packageCall[Set]
    BY <1>1, <2>5
  <2>6. ASSUME NEW c \in Callers \ {Set}, P!EndConsume(c) \/ P!TryStep(c)
        PROVE  \/ \E r, refused : P!Return(c, r, refused)
               \/ /\ \E left :
                       packageCall' = [packageCall EXCEPT ![c].n = left, ![c].infos = Tail(@)]
                  /\ packageGranted' = packageGranted
    BY <2>6 DEF P!EndConsume, P!TryStep, P!TryConsume, P!TryRefused, P!TryShort
  <2>7. ASSUME NEW c \in Callers \ {Set}, P!EndConsume(c) \/ P!TryStep(c)
        PROVE  packageCall'[Set] = packageCall[Set] /\ packageGranted'[Set] = packageGranted[Set]
    BY <2>3, <2>4, <2>5, <2>6, <2>7
  <2>. QED BY <2>1, <2>2, <2>4, <2>7 DEF OtherPackages
<1>5. BonusInv'
  BY <1>2, UntouchedBonus DEF SetInv
<1>6. bonusCall'[Set] = bonusCall[Set] /\ Taken' = Taken
  BY <1>2, <1>4 DEF bonusVars, Taken
<1>. QED BY <1>2, <1>3, <1>4, <1>5, <1>6 DEF SetInv, SetFits

-----------------------------------------------------------------------------
LEMMA SetStarts ==
  ASSUME Init
  PROVE  SetInv
<1>1. BonusInv
  BY BonusStarts DEF Init
<1>2. PP!TrafficInv
  <2>1. PP!TrafficAssumption
    BY SetAssumption DEF PP!TrafficAssumption, PP!IsFiniteSet, IsFiniteSet
  <2>. QED BY <2>1, PackagesAgree, PP!TrafficStarts DEF Init
<1>3. PICK s : s = [pc |-> "idle", now |-> 1, n |-> 0, rn |-> 0, i |-> 1,
                    refused |-> FALSE, before |-> 0]
  OBVIOUS
<1>4. s \in SetCall
  <2>1. 1 \in D!Days /\ 1 \in 1..Len(Operators)
    BY SetAssumption DEF D!Days
  <2>. QED BY <1>3, <2>1 DEF SetCall
<1>5. Set \in Callers
  BY SetAssumption
<1>6. PICK x, y : x = bonusCall[Set] /\ y = packageCall[Set]
  OBVIOUS
<1>7. Reports(x) /\ x.pc = "idle" /\ bonusGranted[Set] = 0
  BY <1>5, <1>6 DEF Init, D!BonusInit, D!IdleCall, Reports
<1>8. Reports(y) /\ y.pc = "idle" /\ packageGranted[Set] = 0
  BY <1>5, <1>6 DEF Init, P!TrafficInit, P!IdleCall, Reports
<1>9. Open(s, x, y) = 0
  BY <1>3 DEF Open
<1>10. Fits(s, x, y, 0, 0)
  BY <1>3, <1>4, <1>7, <1>8, <1>9 DEF Fits
<1>11. set = s /\ events = 0 /\ Taken = 0
  BY <1>3, <1>7, <1>8 DEF Init, Taken
<1>. QED BY <1>1, <1>2, <1>6, <1>10, <1>11 DEF SetInv, SetFits

LEMMA SetInvStep ==
  ASSUME SetInv, [Next]_vars
  PROVE  SetInv'
<1>1. ASSUME UNCHANGED <<bonusVars, packageVars>>
      PROVE  BonusInv' /\ PP!TrafficInv'
  BY <1>1, UntouchedBonus, UntouchedPackages DEF SetInv
<1>2. ASSUME NEW now \in D!Nows, NEW n \in Requests, Call(now, n)
      PROVE  SetInv'
  BY <1>1, <1>2, CallStep DEF SetInv, Call
<1>3. CASE Ask
  BY <1>3, AskStep
<1>4. CASE Work
  BY <1>4, WorkStep
<1>5. CASE Refused
  BY <1>1, <1>5, RefusedStep DEF SetInv, Refused
<1>6. CASE Answered
  <2>1. UNCHANGED <<bonusVars, packageVars>>
    BY <1>6 DEF Answered
  <2>. QED BY <1>1, <1>6, <2>1, AnsweredStep DEF SetInv
<1>7. CASE OtherBonus
  BY <1>7, OtherBonusStep
<1>8. CASE OtherPackages
  BY <1>8, OtherPackagesStep
<1>9. CASE UNCHANGED vars
  BY <1>1, <1>9 DEF vars, bonusVars, packageVars, SetInv, SetFits, Taken
<1>. QED BY <1>2, <1>3, <1>4, <1>5, <1>6, <1>7, <1>8, <1>9 DEF Next

(* What the theorems below follow from: the balances, the packages and the  *)
(* call of the set fit together after every step.                           *)
THEOREM SetInvariant == Spec => []SetInv
BY SetStarts, SetInvStep, PTL DEF Spec

(* Used by a set and past it, in any interleaving, no balance of the bonus  *)
(* is negative, and balances add up unless a ConsumeAmount has taken more   *)
(* than the day's five.                                                     *)
THEOREM BonusAddsUp == Spec => []BalancesAddUp
<1>1. SetInv => BalancesAddUp
  <2>1. SUFFICES ASSUME SetInv PROVE BalancesAddUp
    OBVIOUS
  <2>2. D!Data \in Balances /\ (overshot \/ D!Balanced)
    BY <2>1, DataTyped DEF SetInv, BonusInv
  <2>3. D!Data.bonus \in Nat /\ D!Data.daily \in Nat
    BY <2>2 DEF Balances
  <2>. QED BY <2>2, <2>3 DEF BalancesAddUp, D!BalancesAddUp
<1>. QED BY <1>1, SetInvariant, PTL

(* However often the bonus is asked for, of one day it is earned once, as   *)
(* long as no call comes with a day before the last one.                    *)
THEOREM DayEarnedOnce == Spec => []EarnedOncePerDay
<1>1. SetInv => EarnedOncePerDay
  BY DEF SetInv, BonusInv, DaysEarned, EarnedOncePerDay, D!EarnedOncePerDay
<1>. QED BY <1>1, SetInvariant, PTL

(* The events of a set tell of all it has taken, whatever operators it has, *)
(* even of what a call took that ends with an error and reports 0.          *)
THEOREM EventsTellAll == Spec => []EventsExplainCharges
<1>1. SetInv => EventsExplainCharges
  <2>1. Unheard = Open(set, bonusCall[Set], packageCall[Set])
    BY DEF Unheard, Open, Answer, Operator, Asked
  <2>. QED BY <2>1 DEF SetInv, SetFits, Fits, EventsExplainCharges
<1>. QED BY <1>1, SetInvariant, PTL

(* A call of the set never takes more than it was asked for, and what it    *)
(* reports without an error is exactly what it took.                        *)
THEOREM SetReportsExactly == Spec => []ReportExact
<1>1. SetInv => ReportExact
  <2>1. SUFFICES ASSUME SetInv PROVE ReportExact
    OBVIOUS
  <2>2. PICK s, x, y, taken : /\ s = set /\ x = bonusCall[Set] /\ y = packageCall[Set]
                              /\ taken = Taken /\ Fits(s, x, y, taken, events)
    BY <2>1 DEF SetInv, SetFits
  <2>3. s.n \in Nat /\ s.rn \in Nat /\ s.before \in Nat /\ taken \in Nat /\ s.rn <= s.n
    BY <2>2, SetCallFields DEF Fits
  <2>4. Open(s, x, y) \in Nat /\ (s.pc = "wait" => Open(s, x, y) <= s.n - s.rn)
    BY <2>2, OpenTyped DEF Fits
  <2>5. s.pc # "wait" => Open(s, x, y) = 0
    BY DEF Open
  <2>6. CASE s.pc = "done" /\ s.refused
    <3>1. taken <= s.before + s.n
      BY <2>2, <2>6 DEF Fits
    <3>2. taken - s.before <= s.n
      BY <2>3, <3>1
    <3>. QED BY <2>2, <2>6, <3>2 DEF ReportExact
  <2>7. CASE ~(s.pc = "done" /\ s.refused)
    <3>1. taken = s.before + s.rn + Open(s, x, y)
      BY <2>2, <2>7 DEF Fits
    <3>2. taken - s.before = s.rn + Open(s, x, y)
      BY <2>3, <2>4, <3>1
    <3>3. taken - s.before <= s.n /\ (s.pc = "done" => s.rn = taken - s.before)
      BY <2>3, <2>4, <2>5, <3>2
    <3>. QED BY <2>2, <3>3 DEF ReportExact
  <2>. QED BY <2>6, <2>7
<1>. QED BY <1>1, SetInvariant, PTL

(* The packages of a set keep what they promise by themselves.              *)
THEOREM PackagesOfSet == Spec => [](PP!ChargedIsReported /\ PP!OldestFirst)
<1>1. SetInv => PP!ChargedIsReported /\ PP!OldestFirst
  BY DEF SetInv, PP!TrafficInv
<1>. QED BY <1>1, SetInvariant, PTL
=============================================================================
