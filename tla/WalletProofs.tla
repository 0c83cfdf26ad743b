---------------------------- MODULE WalletProofs ----------------------------
(***************************************************************************)
(* Proofs about wallets and, from OneAtATime on, about the transfer of     *)
(* their histories.  For any accounts, keys and amounts the total of a     *)
(* locker is the sum of its locks, nothing is made or lost, nobody         *)
(* overdraws, and a wallet is the sum of its history.  A script changes at *)
(* most two lockers or two wallets; what is done to one hash is a lemma    *)
(* about hashes, and what that does to the sum over all accounts is        *)
(* HeldUpdate.                                                             *)
(***************************************************************************)
EXTENDS Wallet, HistoryTransfer, Sums, SequenceTheorems

\* A Redis hash of numbers.
Hash(h) == IsFiniteSet(DOMAIN h) /\ h \in [DOMAIN h -> Int]

Total(h) == HGet(h, TotalKey)
LockSum(h) == SumOver(h, DOMAIN h \ {TotalKey})

\* The total of a locker is the sum of its locks.
Fits(h) == Total(h) = LockSum(h)

\* No lock is negative, and the total is no less than their sum.
Covers(h) == /\ \A f \in DOMAIN h \ {TotalKey} : h[f] >= 0
             /\ Total(h) >= LockSum(h)

-----------------------------------------------------------------------------
\* g is h with the field f set to n, or deleted.
IsSet(g, h, f, n) ==
  /\ Hash(g)
  /\ DOMAIN g = DOMAIN h \cup {f}
  /\ g[f] = n
  /\ \A x \in DOMAIN h \ {f} : g[x] = h[x]

IsDel(g, h, f) ==
  /\ Hash(g)
  /\ DOMAIN g = DOMAIN h \ {f}
  /\ \A x \in DOMAIN h \ {f} : g[x] = h[x]

(* HSET and HDEL of numbers give hashes of numbers.                          *)
LEMMA HSetHash ==
  ASSUME NEW h, Hash(h), NEW f, NEW n \in Int
  PROVE  IsSet(HSet(h, f, n), h, f, n)
<1>1. IsFiniteSet(DOMAIN h \cup {f})
  BY FS_AddElement DEF Hash
<1>. QED BY <1>1 DEF Hash, HSet, IsSet

LEMMA HDelHash ==
  ASSUME NEW h, Hash(h), NEW f
  PROVE  IsDel(HDel(h, f), h, f)
<1>1. IsFiniteSet(DOMAIN h \ {f})
  BY FS_RemoveElement DEF Hash
<1>. QED BY <1>1 DEF Hash, HDel, IsDel

(* A field that is missing counts as zero.                                  *)
LEMMA HGetInt ==
  ASSUME NEW h, Hash(h), NEW f
  PROVE  HGet(h, f) \in Int
<1>1. CASE f \in DOMAIN h
  BY <1>1 DEF Hash, HGet, Has
<1>2. CASE f \notin DOMAIN h
  BY <1>2 DEF HGet, Has
<1>. QED BY <1>1, <1>2

LEMMA SumOverInt ==
  ASSUME NEW h, Hash(h), NEW F \in SUBSET DOMAIN h
  PROVE  SumOver(h, F) \in Int /\ IsFiniteSet(F)
<1>1. IsFiniteSet(F) /\ \A f \in F : h[f] \in Int
  BY FS_Subset DEF Hash
<1>. QED BY <1>1, SumInt DEF SumOver

(* A field set, of those that are summed: the sum changes by the difference. *)
LEMMA SumOverSet ==
  ASSUME NEW h, Hash(h), NEW f, NEW n \in Int, NEW X, f \notin X,
         NEW g, IsSet(g, h, f, n)
  PROVE  SumOver(g, DOMAIN g \ X) = SumOver(h, DOMAIN h \ X) - HGet(h, f) + n
<1>. DEFINE F == DOMAIN h \ X
<1>1. /\ Hash(g) /\ DOMAIN g = DOMAIN h \cup {f} /\ g[f] = n
      /\ \A x \in DOMAIN h \ {f} : g[x] = h[x]
  BY DEF IsSet
<1>2. IsFiniteSet(F) /\ \A x \in F : h[x] \in Int
  BY SumOverInt DEF Hash
<1>3. CASE f \in DOMAIN h
  <2>1. DOMAIN g \ X = F /\ f \in F /\ HGet(h, f) = h[f]
    BY <1>1, <1>3 DEF HGet, Has
  <2>2. \A x \in F : h[x] \in Int /\ g[x] \in Int
    BY <1>1, <1>2
  <2>3. \A x \in F \ {f} : h[x] = g[x]
    BY <1>1
  <2>4. SumOver(g, F) = SumOver(h, F) - h[f] + g[f]
    <3>. HIDE DEF F
    <3>. QED BY <1>2, <2>1, <2>2, <2>3, SumUpdate DEF SumOver
  <2>5. SumOver(g, DOMAIN g \ X) = SumOver(g, F)
    BY <2>1
  <2>. QED BY <1>1, <2>1, <2>4, <2>5
<1>4. CASE f \notin DOMAIN h
  <2>1. DOMAIN g \ X = F \cup {f} /\ f \notin F /\ HGet(h, f) = 0
    BY <1>1, <1>4 DEF HGet, Has
  <2>2. \A x \in F : h[x] = g[x]
    BY <1>1, <1>4
  <2>3. \A x \in F \cup {f} : g[x] \in Int
    BY <1>1, <1>2, <2>2
  <2>4. SumOver(h, F) \in Int
    BY SumOverInt
  <2>5. SumOver(g, F \cup {f}) = g[f] + SumOver(g, F)
    <3>. HIDE DEF F
    <3>. QED BY <1>2, <2>1, <2>3, SumAdd DEF SumOver
  <2>6. SumOver(h, F) = SumOver(g, F)
    <3>. HIDE DEF F
    <3>. QED BY <1>2, <2>2, SumSame DEF SumOver
  <2>7. SumOver(g, DOMAIN g \ X) = SumOver(g, F \cup {f})
    BY <2>1
  <2>. QED BY <1>1, <2>1, <2>4, <2>5, <2>6, <2>7
<1>. QED BY <1>3, <1>4

(* A field set, of those that are not summed.                               *)
LEMMA SumOverSetOther ==
  ASSUME NEW h, Hash(h), NEW f, NEW n, NEW g, IsSet(g, h, f, n)
  PROVE  SumOver(g, DOMAIN g \ {f}) = SumOver(h, DOMAIN h \ {f})
<1>. DEFINE F == DOMAIN h \ {f}
<1>1. /\ DOMAIN g = DOMAIN h \cup {f}
      /\ \A x \in DOMAIN h \ {f} : g[x] = h[x]
  BY DEF IsSet
<1>2. IsFiniteSet(F)
  BY SumOverInt
<1>3. DOMAIN g \ {f} = F
  BY <1>1
<1>4. SumOver(h, F) = SumOver(g, F)
  <2>1. \A x \in F : h[x] = g[x]
    BY <1>1
  <2>. HIDE DEF F
  <2>. QED BY <1>2, <2>1, SumSame DEF SumOver
<1>. QED BY <1>3, <1>4

(* A field deleted, of those that are summed.                               *)
LEMMA SumOverDel ==
  ASSUME NEW h, Hash(h), NEW X, NEW f \in DOMAIN h, f \notin X,
         NEW g, IsDel(g, h, f)
  PROVE  SumOver(g, DOMAIN g \ X) = SumOver(h, DOMAIN h \ X) - h[f]
<1>. DEFINE F == DOMAIN h \ X
<1>1. /\ DOMAIN g = DOMAIN h \ {f}
      /\ \A x \in DOMAIN h \ {f} : g[x] = h[x]
  BY DEF IsDel
<1>2. IsFiniteSet(F) /\ IsFiniteSet(F \ {f}) /\ \A x \in F : h[x] \in Int
  BY SumOverInt, FS_RemoveElement DEF Hash
<1>3. DOMAIN g \ X = F \ {f} /\ f \in F
  BY <1>1
<1>4. SumOver(h, F \ {f}) = SumOver(g, F \ {f})
  <2>1. \A x \in F \ {f} : h[x] = g[x]
    BY <1>1
  <2>. HIDE DEF F
  <2>. QED BY <1>2, <2>1, SumSame DEF SumOver
<1>5. SumOver(h, F) = h[f] + SumOver(h, F \ {f})
  <2>. HIDE DEF F
  <2>. QED BY <1>2, <1>3, SumRemove DEF SumOver
<1>6. SumOver(h, F \ {f}) \in Int /\ h[f] \in Int
  BY <1>2, <1>3, SumOverInt
<1>7. SumOver(g, DOMAIN g \ X) = SumOver(g, F \ {f})
  BY <1>3
<1>. QED BY <1>4, <1>5, <1>6, <1>7

-----------------------------------------------------------------------------
\* g is the locker h with the lock k set to m, or deleted and n taken off the
\* total.
LockIsSet(g, h, k, m) ==
  /\ Hash(g)
  /\ DOMAIN g = DOMAIN h \cup {k, TotalKey}
  /\ g[k] = m
  /\ \A x \in DOMAIN h \ {k, TotalKey} : g[x] = h[x]
  /\ LockSum(g) = LockSum(h) + m - HGet(h, k)
  /\ Total(g) = Total(h) + m - HGet(h, k)

LockIsTaken(g, h, k, n) ==
  /\ Hash(g)
  /\ DOMAIN g = (DOMAIN h \ {k}) \cup {TotalKey}
  /\ \A x \in DOMAIN h \ {k, TotalKey} : g[x] = h[x]
  /\ LockSum(g) = LockSum(h) - h[k]
  /\ Total(g) = Total(h) - n

(* The total increased by n: the locks stay.                                *)
LEMMA TotalIncreased ==
  ASSUME NEW h, Hash(h), NEW n \in Int
  PROVE  /\ IsSet(HIncrBy(h, TotalKey, n), h, TotalKey, Total(h) + n)
         /\ LockSum(HIncrBy(h, TotalKey, n)) = LockSum(h)
         /\ Total(HIncrBy(h, TotalKey, n)) = Total(h) + n
<1>1. PICK t \in Int : t = Total(h) + n
  BY HGetInt DEF Total
<1>2. PICK g : g = HSet(h, TotalKey, t)
  OBVIOUS
<1>3. HIncrBy(h, TotalKey, n) = g
  BY <1>1, <1>2 DEF HIncrBy, Total
<1>4. IsSet(g, h, TotalKey, t)
  BY <1>2, HSetHash
<1>5. LockSum(g) = LockSum(h)
  BY <1>4, SumOverSetOther DEF LockSum
<1>6. Total(g) = t
  BY <1>4 DEF IsSet, Total, HGet, Has
<1>. QED BY <1>1, <1>3, <1>4, <1>5, <1>6, Zenon

(* A lock set to m, and the total increased by as much as the lock.         *)
LEMMA SetsLock ==
  ASSUME NEW h, Hash(h), NEW k, k # TotalKey, NEW m \in Int
  PROVE  LockIsSet(HIncrBy(HSet(h, k, m), TotalKey, m - HGet(h, k)), h, k, m)
<1>1. PICK s : s = HSet(h, k, m)
  OBVIOUS
<1>2. IsSet(s, h, k, m)
  BY <1>1, HSetHash
<1>3. PICK n \in Int : n = m - HGet(h, k)
  <2>1. HGet(h, k) \in Int
    BY HGetInt
  <2>. QED BY <2>1
<1>4. PICK g : g = HIncrBy(s, TotalKey, n)
  OBVIOUS
<1>5. Hash(s) /\ Total(s) = Total(h)
  BY <1>2 DEF IsSet, Total, HGet, Has
<1>6. /\ IsSet(g, s, TotalKey, Total(s) + n)
      /\ LockSum(g) = LockSum(s)
      /\ Total(g) = Total(s) + n
  <2>1. /\ IsSet(HIncrBy(s, TotalKey, n), s, TotalKey, Total(s) + n)
        /\ LockSum(HIncrBy(s, TotalKey, n)) = LockSum(s)
        /\ Total(HIncrBy(s, TotalKey, n)) = Total(s) + n
    BY <1>5, TotalIncreased
  <2>. QED BY <1>4, <2>1, Zenon
<1>7. SumOver(s, DOMAIN s \ {TotalKey}) = SumOver(h, DOMAIN h \ {TotalKey}) - HGet(h, k) + m
  <2>1. PICK X : X = {TotalKey}
    OBVIOUS
  <2>2. k \notin X
    BY <2>1
  <2>3. SumOver(s, DOMAIN s \ X) = SumOver(h, DOMAIN h \ X) - HGet(h, k) + m
    BY <1>2, <2>2, SumOverSet
  <2>. QED BY <2>1, <2>3
<1>8. HGet(h, k) \in Int /\ Total(h) \in Int /\ LockSum(h) \in Int
  BY HGetInt, SumOverInt DEF Total, LockSum
<1>9. /\ LockSum(g) = LockSum(h) + m - HGet(h, k)
      /\ Total(g) = Total(h) + m - HGet(h, k)
  BY <1>3, <1>5, <1>6, <1>7, <1>8 DEF LockSum
<1>10. LockIsSet(g, h, k, m)
  BY <1>2, <1>6, <1>9 DEF IsSet, LockIsSet
<1>. QED BY <1>1, <1>3, <1>4, <1>10

(* n put on a lock, and on the total.                                       *)
LEMMA PutsOnLock ==
  ASSUME NEW h, Hash(h), NEW k, k # TotalKey, NEW n \in Int
  PROVE  /\ LockIsSet(HIncrBy(HIncrBy(h, k, n), TotalKey, n), h, k, HGet(h, k) + n)
         /\ HGet(h, k) + n \in Int
<1>0. HGet(h, k) \in Int
  BY HGetInt
<1>1. PICK m \in Int : m = HGet(h, k) + n
  BY <1>0
<1>2. n = m - HGet(h, k)
  BY <1>0, <1>1
<1>3. LockIsSet(HIncrBy(HSet(h, k, m), TotalKey, m - HGet(h, k)), h, k, m)
  BY SetsLock
<1>4. HIncrBy(h, k, n) = HSet(h, k, m)
  BY <1>1 DEF HIncrBy
<1>. QED BY <1>1, <1>2, <1>3, <1>4, Zenon

(* A lock deleted, and n taken off the total.                               *)
LEMMA TakesLock ==
  ASSUME NEW h, Hash(h), NEW k \in DOMAIN h, k # TotalKey, NEW n \in Int
  PROVE  LockIsTaken(HIncrBy(HDel(h, k), TotalKey, -n), h, k, n)
<1>1. PICK s : s = HDel(h, k)
  OBVIOUS
<1>2. IsDel(s, h, k)
  BY <1>1, HDelHash
<1>3. PICK m \in Int : m = -n
  OBVIOUS
<1>4. PICK g : g = HIncrBy(s, TotalKey, m)
  OBVIOUS
<1>5. Hash(s) /\ Total(s) = Total(h)
  BY <1>2 DEF IsDel, Total, HGet, Has
<1>6. /\ IsSet(g, s, TotalKey, Total(s) + m)
      /\ LockSum(g) = LockSum(s)
      /\ Total(g) = Total(s) + m
  <2>1. /\ IsSet(HIncrBy(s, TotalKey, m), s, TotalKey, Total(s) + m)
        /\ LockSum(HIncrBy(s, TotalKey, m)) = LockSum(s)
        /\ Total(HIncrBy(s, TotalKey, m)) = Total(s) + m
    BY <1>5, TotalIncreased
  <2>. QED BY <1>4, <2>1, Zenon
<1>7. LockSum(s) = LockSum(h) - h[k]
  BY <1>2, SumOverDel DEF LockSum
<1>8. Total(g) = Total(h) - n
  BY <1>3, <1>5, <1>6, HGetInt DEF Total
<1>9. LockIsTaken(g, h, k, n)
  BY <1>2, <1>6, <1>7, <1>8 DEF IsSet, IsDel, LockIsTaken
<1>. QED BY <1>1, <1>3, <1>4, <1>9

(* The same in the order of lockRemoveScript: the total first.              *)
LEMMA RemovedIsTaken ==
  ASSUME NEW h, NEW k, k # TotalKey, NEW n
  PROVE  HDel(HIncrBy(h, TotalKey, n), k) = HIncrBy(HDel(h, k), TotalKey, n)
<1>1. HGet(HDel(h, k), TotalKey) = HGet(h, TotalKey)
  BY DEF HDel, HGet, Has
<1>2. PICK t : t = HGet(h, TotalKey) + n
  OBVIOUS
<1>3. HDel(HSet(h, TotalKey, t), k) = HSet(HDel(h, k), TotalKey, t)
  BY DEF HDel, HSet
<1>. QED BY <1>1, <1>2, <1>3 DEF HIncrBy
-----------------------------------------------------------------------------
(* What is done to one locker keeps its total right.                        *)
LEMMA SetKeepsFit ==
  ASSUME NEW h, Hash(h), NEW k, k # TotalKey, NEW m \in Int,
         NEW g, LockIsSet(g, h, k, m)
  PROVE  /\ Fits(h) => Fits(g)
         /\ Covers(h) /\ m >= 0 => Covers(g)
<1>1. HGet(h, k) \in Int /\ Total(h) \in Int /\ LockSum(h) \in Int
  BY HGetInt, SumOverInt DEF Total, LockSum
<1>2. /\ LockSum(g) = LockSum(h) + m - HGet(h, k)
      /\ Total(g) = Total(h) + m - HGet(h, k)
  BY DEF LockIsSet
<1>3. Fits(h) => Fits(g)
  BY <1>1, <1>2 DEF Fits
<1>4. ASSUME Covers(h), m >= 0
      PROVE  Covers(g)
  <2>1. Total(g) >= LockSum(g)
    BY <1>1, <1>2, <1>4 DEF Covers
  <2>2. ASSUME NEW f \in DOMAIN g \ {TotalKey}
        PROVE  g[f] >= 0
    <3>1. CASE f = k
      BY <1>4, <3>1 DEF LockIsSet
    <3>2. CASE f # k
      <4>1. f \in DOMAIN h \ {k, TotalKey}
        BY <2>2, <3>2 DEF LockIsSet
      <4>2. g[f] = h[f] /\ h[f] >= 0
        BY <1>4, <4>1 DEF LockIsSet, Covers
      <4>. QED BY <4>2
    <3>. QED BY <3>1, <3>2
  <2>. QED BY <2>1, <2>2 DEF Covers
<1>. QED BY <1>3, <1>4

LEMMA TakeKeepsFit ==
  ASSUME NEW h, Hash(h), NEW k \in DOMAIN h, k # TotalKey, NEW n \in Int,
         NEW g, LockIsTaken(g, h, k, n)
  PROVE  /\ Fits(h) /\ h[k] = n => Fits(g)
         /\ Covers(h) /\ h[k] >= n => Covers(g)
<1>1. h[k] \in Int /\ Total(h) \in Int /\ LockSum(h) \in Int
  BY HGetInt, SumOverInt DEF Total, LockSum, Hash
<1>2. /\ LockSum(g) = LockSum(h) - h[k]
      /\ Total(g) = Total(h) - n
  BY DEF LockIsTaken
<1>3. Fits(h) /\ h[k] = n => Fits(g)
  BY <1>1, <1>2 DEF Fits
<1>4. ASSUME Covers(h), h[k] >= n
      PROVE  Covers(g)
  <2>1. Total(g) >= LockSum(g)
    BY <1>1, <1>2, <1>4 DEF Covers
  <2>2. ASSUME NEW f \in DOMAIN g \ {TotalKey}
        PROVE  g[f] >= 0
    <3>1. f \in DOMAIN h \ {k, TotalKey}
      BY <2>2 DEF LockIsTaken
    <3>2. g[f] = h[f] /\ h[f] >= 0
      BY <1>4, <3>1 DEF LockIsTaken, Covers
    <3>. QED BY <3>2
  <2>. QED BY <2>1, <2>2 DEF Covers
<1>. QED BY <1>3, <1>4

(* Under Covers the total is not negative, and so nothing in the hash is.   *)
LEMMA CoveredIsNotNegative ==
  ASSUME NEW h, Hash(h), Covers(h), NEW f \in DOMAIN h
  PROVE  h[f] >= 0
<1>1. CASE f # TotalKey
  BY <1>1 DEF Covers
<1>2. CASE f = TotalKey
  <2>. DEFINE F == DOMAIN h \ {TotalKey}
  <2>1. IsFiniteSet(F)
    BY SumOverInt
  <2>2. \A x \in F : h[x] \in Nat
    BY DEF Hash, Covers
  <2>3. SumOver(h, F) \in Nat
    <3>. HIDE DEF F
    <3>. QED BY <2>1, <2>2, SumNat DEF SumOver
  <2>4. Total(h) >= SumOver(h, F) /\ Total(h) = h[f] /\ h[f] \in Int
    BY <1>2 DEF Covers, LockSum, Total, HGet, Has, Hash
  <2>. QED BY <2>3, <2>4
<1>. QED BY <1>1, <1>2

-----------------------------------------------------------------------------
\* A locker for each account, and the sum of all locks.
AreLockers(L) == /\ L = [a \in Accounts |-> L[a]]
                 /\ \A a \in Accounts : Hash(L[a])

Held(L) == SumFunctionOnSet([a \in Accounts |-> LockSum(L[a])], Accounts)

\* M is L with the locker h at the account a.
Replaced(M, L, a, h) ==
  /\ AreLockers(M)
  /\ M[a] = h /\ \A b \in Accounts \ {a} : M[b] = L[b]
  /\ Held(M) = Held(L) - LockSum(L[a]) + LockSum(h)
  /\ Held(L) \in Int

(* One locker changed.                                                      *)
LEMMA HeldUpdate ==
  ASSUME NEW L, AreLockers(L), NEW a \in Accounts, NEW h, Hash(h)
  PROVE  Replaced([L EXCEPT ![a] = h], L, a, h)
<1>0. PICK M : M = [L EXCEPT ![a] = h]
  OBVIOUS
<1>1. M[a] = h /\ \A b \in Accounts \ {a} : M[b] = L[b]
  BY <1>0 DEF AreLockers
<1>2. AreLockers(M)
  BY <1>0, <1>1 DEF AreLockers
<1>. DEFINE l == [b \in Accounts |-> LockSum(L[b])]
            m == [b \in Accounts |-> LockSum(M[b])]
<1>3. \A b \in Accounts : LockSum(L[b]) \in Int /\ LockSum(M[b]) \in Int
  BY <1>2, SumOverInt DEF AreLockers, LockSum
<1>4. /\ \A b \in Accounts : l[b] \in Int /\ m[b] \in Int
      /\ \A b \in Accounts \ {a} : l[b] = m[b]
      /\ l[a] = LockSum(L[a]) /\ m[a] = LockSum(h)
  BY <1>1, <1>3
<1>5. IsFiniteSet(Accounts)
  BY WalletAssumption
<1>6. /\ SumFunctionOnSet(m, Accounts) = SumFunctionOnSet(l, Accounts) - l[a] + m[a]
      /\ SumFunctionOnSet(l, Accounts) \in Int
  <2>. HIDE DEF l, m
  <2>. QED BY <1>4, <1>5, SumUpdate, SumInt
<1>7. Held(M) = Held(L) - LockSum(L[a]) + LockSum(h) /\ Held(L) \in Int
  BY <1>4, <1>6 DEF Held
<1>8. Replaced(M, L, a, h)
  BY <1>1, <1>2, <1>7 DEF Replaced
<1>. QED BY <1>0, <1>8

\* Nothing is owed by any locker.
AllCover(L) == \A a \in Accounts : Covers(L[a])

\* M is L with the locks changed by d in all, and every total as right as it was.
Moved(M, L, d) ==
  /\ AreLockers(M)
  /\ Held(L) \in Int /\ Held(M) = Held(L) + d
  /\ \A a \in Accounts : Fits(L[a]) => Fits(M[a])

(* One lock set.                                                            *)
LEMMA SetMoves ==
  ASSUME NEW L, AreLockers(L), NEW a \in Accounts, NEW k, k # TotalKey,
         NEW m \in Int, NEW g, LockIsSet(g, L[a], k, m)
  PROVE  /\ Moved([L EXCEPT ![a] = g], L, m - HGet(L[a], k))
         /\ AllCover(L) /\ m >= 0 => AllCover([L EXCEPT ![a] = g])
<1>1. PICK M : M = [L EXCEPT ![a] = g]
  OBVIOUS
<1>2. Hash(L[a]) /\ Hash(g)
  BY DEF AreLockers, LockIsSet
<1>3. /\ AreLockers(M)
      /\ M[a] = g /\ \A b \in Accounts \ {a} : M[b] = L[b]
      /\ Held(M) = Held(L) - LockSum(L[a]) + LockSum(g)
      /\ Held(L) \in Int
  <2>1. Replaced(M, L, a, g)
    BY <1>1, <1>2, HeldUpdate
  <2>. QED BY <2>1 DEF Replaced
<1>4. /\ Fits(L[a]) => Fits(g)
      /\ Covers(L[a]) /\ m >= 0 => Covers(g)
  BY <1>2, SetKeepsFit
<1>5. HGet(L[a], k) \in Int /\ LockSum(L[a]) \in Int
  BY <1>2, HGetInt, SumOverInt DEF LockSum
<1>6. LockSum(g) = LockSum(L[a]) + m - HGet(L[a], k)
  BY DEF LockIsSet
<1>7. Held(M) = Held(L) + (m - HGet(L[a], k))
  BY <1>3, <1>5, <1>6
<1>8. \A b \in Accounts : Fits(L[b]) => Fits(M[b])
  BY <1>3, <1>4
<1>9. AllCover(L) /\ m >= 0 => AllCover(M)
  BY <1>3, <1>4 DEF AllCover
<1>10. Moved(M, L, m - HGet(L[a], k))
  BY <1>3, <1>7, <1>8 DEF Moved
<1>. QED BY <1>1, <1>9, <1>10, Zenon

(* One lock taken.                                                          *)
LEMMA TakeMoves ==
  ASSUME NEW L, AreLockers(L), NEW a \in Accounts, NEW k \in DOMAIN L[a],
         k # TotalKey, NEW n \in Int, NEW g, LockIsTaken(g, L[a], k, n)
  PROVE  /\ AreLockers([L EXCEPT ![a] = g])
         /\ \A b \in Accounts \ {a} : [L EXCEPT ![a] = g][b] = L[b]
         /\ L[a][k] = n => Moved([L EXCEPT ![a] = g], L, -n)
         /\ AllCover(L) /\ L[a][k] >= n => AllCover([L EXCEPT ![a] = g])
<1>1. PICK M : M = [L EXCEPT ![a] = g]
  OBVIOUS
<1>2. Hash(L[a]) /\ Hash(g)
  BY DEF AreLockers, LockIsTaken
<1>3. /\ AreLockers(M)
      /\ M[a] = g /\ \A b \in Accounts \ {a} : M[b] = L[b]
      /\ Held(M) = Held(L) - LockSum(L[a]) + LockSum(g)
      /\ Held(L) \in Int
  <2>1. Replaced(M, L, a, g)
    BY <1>1, <1>2, HeldUpdate
  <2>. QED BY <2>1 DEF Replaced
<1>4. /\ Fits(L[a]) /\ L[a][k] = n => Fits(g)
      /\ Covers(L[a]) /\ L[a][k] >= n => Covers(g)
  BY <1>2, TakeKeepsFit
<1>5. LockSum(L[a]) \in Int
  BY <1>2, SumOverInt DEF LockSum
<1>6. LockSum(g) = LockSum(L[a]) - L[a][k]
  BY DEF LockIsTaken
<1>7. ASSUME L[a][k] = n
      PROVE  Moved(M, L, -n)
  <2>1. Held(M) = Held(L) + (-n)
    BY <1>3, <1>5, <1>6, <1>7
  <2>2. \A b \in Accounts : Fits(L[b]) => Fits(M[b])
    BY <1>3, <1>4, <1>7
  <2>. QED BY <1>3, <2>1, <2>2 DEF Moved
<1>8. AllCover(L) /\ L[a][k] >= n => AllCover(M)
  BY <1>3, <1>4 DEF AllCover
<1>. QED BY <1>1, <1>3, <1>7, <1>8, Zenon

\* The wallet w after n was added to the account a, and the sum of a wallet.
Credited(g, w, a, n) ==
  /\ Hash(g)
  /\ SumOver(g, DOMAIN g) = SumOver(w, DOMAIN w) + n
  /\ HGet(g, a) = HGet(w, a) + n
  /\ \A b : b # a => HGet(g, b) = HGet(w, b)

Solvent(w) == \A a : HGet(w, a) >= 0

LEMMA Credits ==
  ASSUME NEW w, Hash(w), NEW a, NEW n \in Int
  PROVE  /\ Credited(HIncrBy(w, a, n), w, a, n)
         /\ Solvent(w) /\ HGet(w, a) + n >= 0 => Solvent(HIncrBy(w, a, n))
<1>1. HGet(w, a) \in Int /\ SumOver(w, DOMAIN w) \in Int
  BY HGetInt, SumOverInt
<1>2. PICK m \in Int : m = HGet(w, a) + n
  BY <1>1
<1>3. PICK g : g = HSet(w, a, m)
  OBVIOUS
<1>4. IsSet(g, w, a, m)
  BY <1>3, HSetHash
<1>5. SumOver(g, DOMAIN g) = SumOver(w, DOMAIN w) - HGet(w, a) + m
  <2>1. PICK X : X = {}
    OBVIOUS
  <2>2. a \notin X
    BY <2>1
  <2>3. SumOver(g, DOMAIN g \ X) = SumOver(w, DOMAIN w \ X) - HGet(w, a) + m
    BY <1>4, <2>2, SumOverSet
  <2>4. DOMAIN g \ X = DOMAIN g /\ DOMAIN w \ X = DOMAIN w
    BY <2>1
  <2>. QED BY <2>3, <2>4
<1>6. HGet(g, a) = m /\ \A b : b # a => HGet(g, b) = HGet(w, b)
  BY <1>4 DEF IsSet, HGet, Has
<1>7. Hash(g)
  BY <1>4 DEF IsSet
<1>8. HIncrBy(w, a, n) = g
  BY <1>2, <1>3 DEF HIncrBy
<1>9. SumOver(g, DOMAIN g) = SumOver(w, DOMAIN w) + n
  BY <1>1, <1>2, <1>5
<1>10. Credited(g, w, a, n)
  BY <1>2, <1>6, <1>7, <1>9 DEF Credited
<1>11. Solvent(w) /\ m >= 0 => Solvent(g)
  BY <1>6 DEF Solvent
<1>. QED BY <1>2, <1>8, <1>10, <1>11, Zenon

-----------------------------------------------------------------------------
\* What holds of wallets, lockers and histories after any number of scripts.
WalletTyped ==
  /\ Hash(wallet)
  /\ AreLockers(lockers)
  /\ booked \in [Accounts -> Int]
  /\ issued \in Int
  /\ strict \in BOOLEAN
  /\ looped \subseteq Accounts

TotalsFit == \A a \in Accounts \ looped : Fits(lockers[a])

Conserved == looped = {} => SumOver(wallet, DOMAIN wallet) + Held(lockers) = issued

NothingOwed == strict => Solvent(wallet) /\ AllCover(lockers)

WalletInv ==
  WalletTyped /\ TotalsFit /\ Conserved /\ HistoryExplainsWallet /\ NothingOwed

(* The invariants of the run, from the inductive one.                       *)
LEMMA InvImplies ==
  WalletInv => TotalIsSum /\ CoinsConserved /\ HistoryExplainsWallet /\ NoOverdraft
<1>. SUFFICES ASSUME WalletInv
              PROVE  TotalIsSum /\ CoinsConserved /\ HistoryExplainsWallet /\ NoOverdraft
  OBVIOUS
<1>1. TotalIsSum
  BY DEF WalletInv, TotalsFit, Fits, TotalIsSum, Total, LockSum, Locks
<1>2. CoinsConserved
  <2>1. SumFunction([a \in Accounts |-> SumOver(lockers[a], Locks(a))]) = Held(lockers)
    BY DEF SumFunction, Held, LockSum, Locks
  <2>. QED BY <2>1 DEF WalletInv, Conserved, CoinsConserved
<1>3. NoOverdraft
  <2>. SUFFICES ASSUME strict
                PROVE  /\ \A a \in DOMAIN wallet : wallet[a] >= 0
                       /\ \A a \in Accounts : \A f \in DOMAIN lockers[a] : lockers[a][f] >= 0
    BY DEF NoOverdraft
  <2>1. Solvent(wallet) /\ AllCover(lockers)
    BY DEF WalletInv, NothingOwed
  <2>2. \A a \in DOMAIN wallet : wallet[a] >= 0
    BY <2>1 DEF Solvent, HGet, Has
  <2>3. ASSUME NEW a \in Accounts, NEW f \in DOMAIN lockers[a]
        PROVE  lockers[a][f] >= 0
    <3>1. Hash(lockers[a]) /\ Covers(lockers[a])
      BY <2>1 DEF AllCover, WalletInv, WalletTyped, AreLockers
    <3>. QED BY <3>1, CoveredIsNotNegative
  <2>. QED BY <2>2, <2>3
<1>. QED BY <1>1, <1>2, <1>3 DEF WalletInv

LEMMA InvInit == Init => WalletInv
<1>. SUFFICES ASSUME Init PROVE WalletInv
  OBVIOUS
<1>0. PICK h : h = NoFields
  OBVIOUS
<1>1. DOMAIN h = {} /\ Hash(h)
  BY <1>0, FS_EmptySet DEF NoFields, Hash
<1>2. \A f : HGet(h, f) = 0
  BY <1>1 DEF HGet, Has
<1>3. SumOver(h, DOMAIN h) = 0
  BY <1>1, SumEmpty DEF SumOver
<1>4. LockSum(h) = 0
  <2>1. DOMAIN h \ {TotalKey} = {}
    BY <1>1
  <2>. QED BY <2>1, SumEmpty DEF SumOver, LockSum
<1>5. \A a \in Accounts : lockers[a] = h
  BY <1>0 DEF Init
<1>6. Fits(h) /\ Covers(h)
  BY <1>1, <1>2, <1>4 DEF Fits, Covers, Total
<1>7. WalletTyped
  BY <1>0, <1>1, <1>5 DEF Init, WalletTyped, AreLockers
<1>8. Held(lockers) = 0
  <2>. DEFINE l == [a \in Accounts |-> LockSum(lockers[a])]
              C == {X \in SUBSET Accounts : SumFunctionOnSet(l, X) # 0}
  <2>1. \A a \in Accounts : l[a] = 0
    BY <1>4, <1>5
  <2>2. IsFiniteSet(Accounts)
    BY WalletAssumption
  <2>3. SumFunctionOnSet(l, Accounts) = 0
    <3>. HIDE DEF l
    <3>. QED BY <2>1, <2>2, SumZero
  <2>. QED BY <2>3 DEF Held
<1>9. TotalsFit /\ NothingOwed /\ HistoryExplainsWallet
  BY <1>0, <1>2, <1>5, <1>6
     DEF Init, TotalsFit, NothingOwed, HistoryExplainsWallet, Solvent, AllCover
<1>10. Conserved
  BY <1>0, <1>3, <1>8 DEF Init, Conserved
<1>. QED BY <1>7, <1>9, <1>10 DEF WalletInv

(* A field of a covered locker, missing or not, is not negative.            *)
LEMMA CoveredHGet ==
  ASSUME NEW h, Hash(h), Covers(h), NEW k
  PROVE  HGet(h, k) \in Int /\ HGet(h, k) >= 0
<1>1. CASE k \in DOMAIN h
  BY <1>1, CoveredIsNotNegative, HGetInt DEF HGet, Has
<1>2. CASE k \notin DOMAIN h
  BY <1>2 DEF HGet, Has
<1>. QED BY <1>1, <1>2

LEMMA LockSetKeeps ==
  ASSUME WalletInv, NEW a \in Accounts, NEW k \in Keys, NEW coins \in Amounts,
         NEW flag \in Flags, LockSet(a, k, coins, flag)
  PROVE  WalletInv'
<1>0. k # TotalKey /\ coins \in Int
  BY WalletAssumption
<1>1. Hash(lockers[a]) /\ AreLockers(lockers) /\ HGet(lockers[a], k) \in Int
  BY HGetInt DEF WalletInv, WalletTyped, AreLockers
<1>2. PICK incr \in Int :
        /\ lockers' = [lockers EXCEPT ![a] =
             HIncrBy(HSet(lockers[a], k, HGet(lockers[a], k) + incr), TotalKey, incr)]
        /\ issued' = issued + incr
        /\ incr = coins \/ incr = coins - HGet(lockers[a], k)
  <2>1. PICK i : i = IF Has(lockers[a], k) /\ "accumulation" \in flag
                     THEN coins ELSE coins - HGet(lockers[a], k)
    OBVIOUS
  <2>2. i \in Int /\ (i = coins \/ i = coins - HGet(lockers[a], k))
    BY <1>0, <1>1, <2>1
  <2>3. /\ lockers' = [lockers EXCEPT ![a] =
             HIncrBy(HSet(lockers[a], k, HGet(lockers[a], k) + i), TotalKey, i)]
        /\ issued' = issued + i
    BY <2>1 DEF LockSet
  <2>. QED BY <2>2, <2>3, Zenon
<1>3. PICK m \in Int : m = HGet(lockers[a], k) + incr
  BY <1>1
<1>4. incr = m - HGet(lockers[a], k)
  BY <1>1, <1>3
<1>5. PICK g : g = HIncrBy(HSet(lockers[a], k, m), TotalKey, m - HGet(lockers[a], k))
  OBVIOUS
<1>6. LockIsSet(g, lockers[a], k, m)
  BY <1>0, <1>1, <1>5, SetsLock
<1>7. lockers' = [lockers EXCEPT ![a] = g]
  BY <1>2, <1>3, <1>4, <1>5, Zenon
<1>8. /\ Moved(lockers', lockers, m - HGet(lockers[a], k))
      /\ AllCover(lockers) /\ m >= 0 => AllCover(lockers')
  BY <1>0, <1>1, <1>6, <1>7, SetMoves
<1>9. Moved(lockers', lockers, incr)
  BY <1>4, <1>8
<1>10. UNCHANGED <<wallet, booked, foreign, looped>> /\ Strictly(coins, {})
  BY DEF LockSet
<1>11. WalletTyped'
  BY <1>2, <1>9, <1>10 DEF WalletInv, WalletTyped, Moved, Strictly
<1>12. TotalsFit'
  BY <1>9, <1>10 DEF WalletInv, TotalsFit, Moved
<1>13. Conserved'
  <2>1. SumOver(wallet, DOMAIN wallet) \in Int
    BY SumOverInt DEF WalletInv, WalletTyped
  <2>. QED BY <2>1, <1>2, <1>9, <1>10 DEF WalletInv, WalletTyped, Conserved, Moved
<1>14. HistoryExplainsWallet'
  BY <1>10 DEF WalletInv, HistoryExplainsWallet
<1>15. NothingOwed'
  <2>. SUFFICES ASSUME strict'
                PROVE  Solvent(wallet') /\ AllCover(lockers')
    BY DEF NothingOwed
  <2>1. Solvent(wallet) /\ AllCover(lockers) /\ coins >= 0
    BY <1>10 DEF Strictly, WalletInv, NothingOwed
  <2>2. HGet(lockers[a], k) >= 0
    BY <1>1, <2>1, CoveredHGet DEF AllCover
  <2>3. m >= 0
    BY <1>0, <1>1, <1>2, <1>3, <2>1, <2>2
  <2>. QED BY <1>8, <1>10, <2>1, <2>3
<1>. QED BY <1>11, <1>12, <1>13, <1>14, <1>15 DEF WalletInv

LEMMA LockRemoveKeeps ==
  ASSUME WalletInv, NEW a \in Accounts, NEW k \in Keys, LockRemove(a, k)
  PROVE  WalletInv'
<1>0. k # TotalKey
  BY WalletAssumption
<1>1. Hash(lockers[a]) /\ AreLockers(lockers) /\ k \in DOMAIN lockers[a]
  BY DEF WalletInv, WalletTyped, AreLockers, LockRemove, Has
<1>2. PICK n \in Int : n = lockers[a][k]
  BY <1>1 DEF Hash
<1>3. PICK g : g = HIncrBy(HDel(lockers[a], k), TotalKey, -n)
  OBVIOUS
<1>4. LockIsTaken(g, lockers[a], k, n)
  BY <1>0, <1>1, <1>3, TakesLock
<1>5. lockers' = [lockers EXCEPT ![a] = g] /\ issued' = issued - n
  <2>1. HDel(HIncrBy(lockers[a], TotalKey, -n), k) = g
    BY <1>0, <1>3, RemovedIsTaken
  <2>2. /\ lockers' = [lockers EXCEPT ![a] = HDel(HIncrBy(lockers[a], TotalKey, -n), k)]
        /\ issued' = issued - n
    BY <1>2 DEF LockRemove
  <2>. QED BY <2>1, <2>2, Zenon
<1>6. Moved(lockers', lockers, -n) /\ (AllCover(lockers) => AllCover(lockers'))
  <2>1. /\ lockers[a][k] = n => Moved([lockers EXCEPT ![a] = g], lockers, -n)
        /\ AllCover(lockers) /\ lockers[a][k] >= n => AllCover([lockers EXCEPT ![a] = g])
    BY <1>0, <1>1, <1>4, TakeMoves
  <2>2. n >= n
    OBVIOUS
  <2>. QED BY <1>2, <1>5, <2>1, <2>2, Zenon
<1>7. UNCHANGED <<wallet, booked, strict, foreign, looped>>
  BY DEF LockRemove
<1>8. WalletTyped'
  BY <1>5, <1>6, <1>7 DEF WalletInv, WalletTyped, Moved
<1>9. TotalsFit'
  BY <1>6, <1>7 DEF WalletInv, TotalsFit, Moved
<1>10. Conserved'
  <2>1. SumOver(wallet, DOMAIN wallet) \in Int
    BY SumOverInt DEF WalletInv, WalletTyped
  <2>. QED BY <2>1, <1>5, <1>6, <1>7 DEF WalletInv, WalletTyped, Conserved, Moved
<1>11. HistoryExplainsWallet' /\ NothingOwed'
  BY <1>6, <1>7 DEF WalletInv, HistoryExplainsWallet, NothingOwed
<1>. QED BY <1>8, <1>9, <1>10, <1>11 DEF WalletInv

(* Coins put on a lock of one account.                                      *)
LEMMA PutMoves ==
  ASSUME NEW L, AreLockers(L), NEW a \in Accounts, NEW k, k # TotalKey,
         NEW n \in Int, NEW g, g = HIncrBy(HIncrBy(L[a], k, n), TotalKey, n)
  PROVE  /\ LockIsSet(g, L[a], k, HGet(L[a], k) + n)
         /\ Moved([L EXCEPT ![a] = g], L, n)
         /\ AllCover(L) /\ HGet(L[a], k) + n >= 0 => AllCover([L EXCEPT ![a] = g])
<1>1. Hash(L[a]) /\ HGet(L[a], k) \in Int
  BY HGetInt DEF AreLockers
<1>2. PICK m \in Int : m = HGet(L[a], k) + n
  BY <1>1
<1>3. LockIsSet(g, L[a], k, m)
  <2>1. LockIsSet(HIncrBy(HIncrBy(L[a], k, n), TotalKey, n), L[a], k, HGet(L[a], k) + n)
    BY <1>1, PutsOnLock
  <2>. QED BY <1>2, <2>1, Zenon
<1>4. /\ Moved([L EXCEPT ![a] = g], L, m - HGet(L[a], k))
      /\ AllCover(L) /\ m >= 0 => AllCover([L EXCEPT ![a] = g])
  BY <1>3, SetMoves
<1>5. m - HGet(L[a], k) = n
  BY <1>1, <1>2
<1>. QED BY <1>2, <1>3, <1>4, <1>5, Zenon

LEMMA LockTransferKeeps ==
  ASSUME WalletInv, NEW from \in Accounts, NEW fromKey \in Keys,
         NEW to \in Accounts, NEW toKey \in Keys, NEW flag \in Flags,
         LockTransfer(from, fromKey, to, toKey, flag)
  PROVE  WalletInv'
<1>0. fromKey # TotalKey /\ toKey # TotalKey
  BY WalletAssumption
<1>1. /\ AreLockers(lockers) /\ fromKey \in DOMAIN lockers[from]
      /\ Hash(lockers[from]) /\ Hash(lockers[to])
  BY DEF WalletInv, WalletTyped, AreLockers, LockTransfer, Has
<1>2. PICK n \in Int : n = lockers[from][fromKey]
  BY <1>1 DEF Hash
<1>3. PICK g : g = HIncrBy(HIncrBy(lockers[to], toKey, n), TotalKey, n)
  OBVIOUS
<1>4. PICK given : given = [lockers EXCEPT ![to] = g]
  OBVIOUS
<1>5. PICK h : h = HIncrBy(HDel(given[from], fromKey), TotalKey, -n)
  OBVIOUS
<1>6. lockers' = [given EXCEPT ![from] = h]
  BY <1>2, <1>3, <1>4, <1>5 DEF LockTransfer
<1>7. /\ LockIsSet(g, lockers[to], toKey, HGet(lockers[to], toKey) + n)
      /\ Moved(given, lockers, n)
      /\ AllCover(lockers) /\ HGet(lockers[to], toKey) + n >= 0 => AllCover(given)
  BY <1>0, <1>1, <1>3, <1>4, PutMoves
<1>8. given[to] = g /\ \A b \in Accounts \ {to} : given[b] = lockers[b]
  BY <1>1, <1>4 DEF AreLockers
<1>9. /\ fromKey \in DOMAIN given[from]
      /\ <<from, fromKey>> # <<to, toKey>> => given[from][fromKey] = n
      /\ <<from, fromKey>> = <<to, toKey>> => given[from][fromKey] = n + n
  <2>1. CASE from # to
    <3>1. given[from] = lockers[from]
      BY <1>8, <2>1
    <3>. QED BY <1>1, <1>2, <2>1, <3>1
  <2>2. CASE from = to /\ fromKey # toKey
    <3>1. /\ DOMAIN g = DOMAIN lockers[to] \cup {toKey, TotalKey}
          /\ \A x \in DOMAIN lockers[to] \ {toKey, TotalKey} : g[x] = lockers[to][x]
      BY <1>7 DEF LockIsSet
    <3>2. fromKey \in DOMAIN lockers[to] \ {toKey, TotalKey}
      BY <1>0, <1>1, <2>2
    <3>. QED BY <1>2, <1>8, <2>2, <3>1, <3>2
  <2>3. CASE from = to /\ fromKey = toKey
    <3>1. /\ DOMAIN g = DOMAIN lockers[to] \cup {toKey, TotalKey}
          /\ g[toKey] = HGet(lockers[to], toKey) + n
      BY <1>7 DEF LockIsSet
    <3>2. HGet(lockers[to], toKey) = n
      BY <1>1, <1>2, <2>3 DEF HGet, Has
    <3>. QED BY <1>8, <2>3, <3>1, <3>2
  <2>. QED BY <2>1, <2>2, <2>3
<1>10. AreLockers(given) /\ Hash(given[from])
  BY <1>7 DEF Moved, AreLockers
<1>11. LockIsTaken(h, given[from], fromKey, n)
  BY <1>0, <1>5, <1>9, <1>10, TakesLock
<1>12. /\ AreLockers(lockers')
       /\ \A b \in Accounts \ {from} : lockers'[b] = given[b]
       /\ given[from][fromKey] = n => Moved(lockers', given, -n)
       /\ AllCover(given) /\ given[from][fromKey] >= n => AllCover(lockers')
  <2>1. /\ AreLockers([given EXCEPT ![from] = h])
        /\ \A b \in Accounts \ {from} : [given EXCEPT ![from] = h][b] = given[b]
        /\ given[from][fromKey] = n => Moved([given EXCEPT ![from] = h], given, -n)
        /\ AllCover(given) /\ given[from][fromKey] >= n
             => AllCover([given EXCEPT ![from] = h])
    BY <1>0, <1>9, <1>10, <1>11, TakeMoves
  <2>. QED BY <1>6, <2>1, Zenon
<1>13. /\ looped' = IF <<from, fromKey>> = <<to, toKey>> THEN looped \cup {from} ELSE looped
       /\ UNCHANGED <<wallet, booked, issued, strict, foreign>>
  BY DEF LockTransfer
<1>14. WalletTyped'
  BY <1>12, <1>13 DEF WalletInv, WalletTyped
<1>15. TotalsFit' /\ Conserved'
  <2>1. CASE <<from, fromKey>> = <<to, toKey>>
    <3>1. looped' = looped \cup {from}
      BY <1>13, <2>1
    <3>2. ASSUME NEW b \in Accounts \ looped'
          PROVE  Fits(lockers'[b])
      <4>1. b # from /\ b \notin looped
        BY <3>1
      <4>2. Fits(given[b])
        BY <1>7, <4>1 DEF WalletInv, TotalsFit, Moved
      <4>. QED BY <1>12, <4>1, <4>2
    <3>. QED BY <3>1, <3>2 DEF TotalsFit, Conserved
  <2>2. CASE <<from, fromKey>> # <<to, toKey>>
    <3>1. Moved(lockers', given, -n) /\ looped' = looped
      BY <1>9, <1>12, <1>13, <2>2
    <3>2. Held(lockers') = Held(lockers)
      BY <1>7, <3>1 DEF Moved
    <3>3. TotalsFit'
      BY <1>7, <3>1 DEF WalletInv, TotalsFit, Moved
    <3>4. Conserved'
      BY <1>13, <3>1, <3>2 DEF WalletInv, Conserved
    <3>. QED BY <3>3, <3>4
  <2>. QED BY <2>1, <2>2
<1>16. HistoryExplainsWallet'
  BY <1>13 DEF WalletInv, HistoryExplainsWallet
<1>17. NothingOwed'
  <2>. SUFFICES ASSUME strict'
                PROVE  Solvent(wallet') /\ AllCover(lockers')
    BY DEF NothingOwed
  <2>1. Solvent(wallet) /\ AllCover(lockers)
    BY <1>13 DEF WalletInv, NothingOwed
  <2>2. n >= 0
    BY <1>0, <1>1, <1>2, <2>1, CoveredIsNotNegative DEF AllCover
  <2>3. HGet(lockers[to], toKey) \in Int /\ HGet(lockers[to], toKey) >= 0
    BY <1>1, <2>1, CoveredHGet DEF AllCover
  <2>4. AllCover(given)
    <3>1. HGet(lockers[to], toKey) + n >= 0
      BY <2>2, <2>3
    <3>. QED BY <1>7, <2>1, <3>1
  <2>5. given[from][fromKey] >= n
    BY <1>9, <2>2
  <2>. QED BY <1>12, <1>13, <2>1, <2>4, <2>5
<1>. QED BY <1>14, <1>15, <1>16, <1>17 DEF WalletInv

\* Who affords the coins without AllowNegativeOption has them.
LEMMA AffordsCovered ==
  ASSUME Hash(wallet), NEW a, NEW coins \in Int, NEW flag,
         Affords(a, coins, flag), "negative" \notin flag
  PROVE  HGet(wallet, a) \in Int /\ HGet(wallet, a) >= coins
  BY HGetInt DEF Affords, HGet, Has

LEMMA WalletToLockerKeeps ==
  ASSUME WalletInv, NEW a \in Accounts, NEW coins \in Amounts, NEW to \in Accounts,
         NEW key \in Keys, NEW flag \in Flags, WalletToLocker(a, coins, to, key, flag)
  PROVE  WalletInv'
<1>0. key # TotalKey /\ coins \in Int
  BY WalletAssumption
<1>1. AreLockers(lockers) /\ Hash(lockers[to]) /\ Hash(wallet)
  BY DEF WalletInv, WalletTyped, AreLockers
<1>2. PICK g : g = HIncrBy(HIncrBy(lockers[to], key, coins), TotalKey, coins)
  OBVIOUS
<1>3. /\ lockers' = [lockers EXCEPT ![to] = g]
      /\ wallet' = HIncrBy(wallet, a, -coins)
      /\ booked' = [booked EXCEPT ![a] = @ - coins]
      /\ Strictly(coins, flag) /\ Affords(a, coins, flag)
      /\ UNCHANGED <<issued, foreign, looped>>
  BY <1>2 DEF WalletToLocker
<1>4. /\ Moved(lockers', lockers, coins)
      /\ AllCover(lockers) /\ HGet(lockers[to], key) + coins >= 0 => AllCover(lockers')
  BY <1>0, <1>1, <1>2, <1>3, PutMoves
<1>5. PICK d \in Int : d = -coins
  BY <1>0
<1>6. /\ Credited(wallet', wallet, a, d)
      /\ Solvent(wallet) /\ HGet(wallet, a) + d >= 0 => Solvent(wallet')
  <2>1. wallet' = HIncrBy(wallet, a, d)
    BY <1>3, <1>5
  <2>2. /\ Credited(HIncrBy(wallet, a, d), wallet, a, d)
        /\ Solvent(wallet) /\ HGet(wallet, a) + d >= 0 => Solvent(HIncrBy(wallet, a, d))
    BY <1>1, Credits
  <2>. QED BY <2>1, <2>2, Zenon
<1>7. WalletTyped'
  BY <1>0, <1>3, <1>4, <1>6 DEF WalletInv, WalletTyped, Moved, Credited, Strictly
<1>8. TotalsFit'
  BY <1>3, <1>4 DEF WalletInv, TotalsFit, Moved
<1>9. Conserved'
  <2>1. SumOver(wallet, DOMAIN wallet) \in Int
    BY <1>1, SumOverInt
  <2>2. /\ SumOver(wallet', DOMAIN wallet') = SumOver(wallet, DOMAIN wallet) + d
        /\ Held(lockers') = Held(lockers) + coins /\ Held(lockers) \in Int
    BY <1>4, <1>6 DEF Credited, Moved
  <2>3. SumOver(wallet', DOMAIN wallet') + Held(lockers')
          = SumOver(wallet, DOMAIN wallet) + Held(lockers)
    BY <1>0, <1>5, <2>1, <2>2
  <2>. QED BY <1>3, <2>3 DEF WalletInv, Conserved
<1>10. HistoryExplainsWallet'
  <2>. SUFFICES ASSUME NEW b \in Accounts \ foreign
                PROVE  HGet(wallet', b) = booked'[b]
    BY <1>3 DEF HistoryExplainsWallet
  <2>1. HGet(wallet, b) = booked[b] /\ booked[b] \in Int /\ booked \in [Accounts -> Int]
    BY DEF WalletInv, WalletTyped, HistoryExplainsWallet
  <2>2. CASE b = a
    BY <1>0, <1>3, <1>5, <1>6, <2>1, <2>2 DEF Credited
  <2>3. CASE b # a
    BY <1>3, <1>6, <2>1, <2>3 DEF Credited
  <2>. QED BY <2>2, <2>3
<1>11. NothingOwed'
  <2>. SUFFICES ASSUME strict'
                PROVE  Solvent(wallet') /\ AllCover(lockers')
    BY DEF NothingOwed
  <2>1. Solvent(wallet) /\ AllCover(lockers) /\ coins >= 0 /\ "negative" \notin flag
    BY <1>3 DEF Strictly, WalletInv, NothingOwed
  <2>2. HGet(lockers[to], key) + coins >= 0
    <3>1. HGet(lockers[to], key) \in Int /\ HGet(lockers[to], key) >= 0
      BY <1>1, <2>1, CoveredHGet DEF AllCover
    <3>. QED BY <1>0, <2>1, <3>1
  <2>3. HGet(wallet, a) + d >= 0
    <3>1. HGet(wallet, a) \in Int /\ HGet(wallet, a) >= coins
      BY <1>0, <1>1, <1>3, <2>1, AffordsCovered
    <3>. QED BY <1>0, <1>5, <3>1
  <2>. QED BY <1>4, <1>6, <2>1, <2>2, <2>3
<1>. QED BY <1>7, <1>8, <1>9, <1>10, <1>11 DEF WalletInv

LEMMA WalletToWalletKeeps ==
  ASSUME WalletInv, NEW a \in Accounts, NEW coins \in Amounts, NEW to \in Accounts,
         NEW flag \in Flags, WalletToWallet(a, coins, to, flag)
  PROVE  WalletInv'
<1>0. coins \in Int /\ coins > 0
  BY WalletAssumption DEF WalletToWallet
<1>1. Hash(wallet) /\ booked \in [Accounts -> Int]
  BY DEF WalletInv, WalletTyped
<1>2. PICK d \in Int : d = -coins
  BY <1>0
<1>3. PICK w : w = HIncrBy(wallet, a, d)
  OBVIOUS
<1>4. PICK b : b = [booked EXCEPT ![a] = @ - coins]
  OBVIOUS
<1>5. /\ wallet' = HIncrBy(w, to, coins)
      /\ booked' = [b EXCEPT ![to] = @ + coins]
      /\ Strictly(coins, flag) /\ Affords(a, coins, flag)
      /\ UNCHANGED <<lockers, issued, foreign, looped>>
  BY <1>2, <1>3, <1>4 DEF WalletToWallet
<1>6. /\ Credited(w, wallet, a, d)
      /\ Solvent(wallet) /\ HGet(wallet, a) + d >= 0 => Solvent(w)
  <2>1. /\ Credited(HIncrBy(wallet, a, d), wallet, a, d)
        /\ Solvent(wallet) /\ HGet(wallet, a) + d >= 0 => Solvent(HIncrBy(wallet, a, d))
    BY <1>1, Credits
  <2>. QED BY <1>3, <2>1, Zenon
<1>7. /\ Credited(wallet', w, to, coins)
      /\ Solvent(w) /\ HGet(w, to) + coins >= 0 => Solvent(wallet')
  <2>1. Hash(w)
    BY <1>6 DEF Credited
  <2>2. /\ Credited(HIncrBy(w, to, coins), w, to, coins)
        /\ Solvent(w) /\ HGet(w, to) + coins >= 0 => Solvent(HIncrBy(w, to, coins))
    BY <1>0, <2>1, Credits
  <2>. QED BY <1>5, <2>2, Zenon
<1>8. WalletTyped'
  BY <1>0, <1>1, <1>4, <1>5, <1>7 DEF WalletInv, WalletTyped, Credited, Strictly
<1>9. TotalsFit'
  BY <1>5 DEF WalletInv, TotalsFit
<1>10. Conserved'
  <2>1. SumOver(wallet, DOMAIN wallet) \in Int
    BY <1>1, SumOverInt
  <2>2. /\ SumOver(w, DOMAIN w) = SumOver(wallet, DOMAIN wallet) + d
        /\ SumOver(wallet', DOMAIN wallet') = SumOver(w, DOMAIN w) + coins
    BY <1>6, <1>7 DEF Credited
  <2>3. SumOver(wallet', DOMAIN wallet') = SumOver(wallet, DOMAIN wallet)
    BY <1>0, <1>2, <2>1, <2>2
  <2>. QED BY <1>5, <2>3 DEF WalletInv, Conserved
<1>11. HistoryExplainsWallet'
  <2>. SUFFICES ASSUME NEW c \in Accounts \ foreign
                PROVE  HGet(wallet', c) = booked'[c]
    BY <1>5 DEF HistoryExplainsWallet
  <2>1. HGet(wallet, c) = booked[c] /\ booked[c] \in Int
    BY <1>1 DEF WalletInv, HistoryExplainsWallet
  <2>2. HGet(w, c) = b[c] /\ b[c] \in Int /\ b \in [Accounts -> Int]
    <3>1. CASE c = a
      BY <1>0, <1>1, <1>2, <1>4, <1>6, <2>1, <3>1 DEF Credited
    <3>2. CASE c # a
      BY <1>0, <1>1, <1>4, <1>6, <2>1, <3>2 DEF Credited
    <3>. QED BY <3>1, <3>2
  <2>3. CASE c = to
    BY <1>5, <1>7, <2>2, <2>3 DEF Credited
  <2>4. CASE c # to
    BY <1>5, <1>7, <2>2, <2>4 DEF Credited
  <2>. QED BY <2>3, <2>4
<1>12. NothingOwed'
  <2>. SUFFICES ASSUME strict'
                PROVE  Solvent(wallet') /\ AllCover(lockers')
    BY DEF NothingOwed
  <2>1. Solvent(wallet) /\ AllCover(lockers) /\ "negative" \notin flag
    BY <1>5 DEF Strictly, WalletInv, NothingOwed
  <2>2. Solvent(w)
    <3>1. HGet(wallet, a) \in Int /\ HGet(wallet, a) >= coins
      BY <1>0, <1>1, <1>5, <2>1, AffordsCovered
    <3>2. HGet(wallet, a) + d >= 0
      BY <1>0, <1>2, <3>1
    <3>. QED BY <1>6, <2>1, <3>2
  <2>3. HGet(w, to) + coins >= 0
    <3>1. HGet(w, to) \in Int
      BY <1>6, HGetInt DEF Credited
    <3>. QED BY <1>0, <2>2, <3>1 DEF Solvent
  <2>. QED BY <1>5, <1>7, <2>1, <2>2, <2>3
<1>. QED BY <1>8, <1>9, <1>10, <1>11, <1>12 DEF WalletInv

LEMMA LockerToWalletKeeps ==
  ASSUME WalletInv, NEW a \in Accounts, NEW key \in Keys, NEW to \in Accounts,
         LockerToWallet(a, key, to)
  PROVE  WalletInv'
<1>0. key # TotalKey
  BY WalletAssumption
<1>1. /\ AreLockers(lockers) /\ Hash(lockers[a]) /\ key \in DOMAIN lockers[a]
      /\ Hash(wallet) /\ booked \in [Accounts -> Int]
  BY DEF WalletInv, WalletTyped, AreLockers, LockerToWallet, Has
<1>2. PICK n \in Int : n = lockers[a][key]
  BY <1>1 DEF Hash
<1>3. PICK g : g = HIncrBy(HDel(lockers[a], key), TotalKey, -n)
  OBVIOUS
<1>4. /\ lockers' = [lockers EXCEPT ![a] = g]
      /\ wallet' = HIncrBy(wallet, to, n)
      /\ booked' = [booked EXCEPT ![a] = @ + n]
      /\ foreign' = IF to = a THEN foreign ELSE foreign \cup {a, to}
      /\ UNCHANGED <<issued, strict, looped>>
  BY <1>2, <1>3 DEF LockerToWallet
<1>5. LockIsTaken(g, lockers[a], key, n)
  BY <1>0, <1>1, <1>3, TakesLock
<1>6. Moved(lockers', lockers, -n) /\ (AllCover(lockers) => AllCover(lockers'))
  <2>1. /\ lockers[a][key] = n => Moved([lockers EXCEPT ![a] = g], lockers, -n)
        /\ AllCover(lockers) /\ lockers[a][key] >= n => AllCover([lockers EXCEPT ![a] = g])
    BY <1>0, <1>1, <1>5, TakeMoves
  <2>2. n >= n
    OBVIOUS
  <2>. QED BY <1>2, <1>4, <2>1, <2>2, Zenon
<1>7. /\ Credited(wallet', wallet, to, n)
      /\ Solvent(wallet) /\ HGet(wallet, to) + n >= 0 => Solvent(wallet')
  <2>1. /\ Credited(HIncrBy(wallet, to, n), wallet, to, n)
        /\ Solvent(wallet) /\ HGet(wallet, to) + n >= 0 => Solvent(HIncrBy(wallet, to, n))
    BY <1>1, Credits
  <2>. QED BY <1>4, <2>1, Zenon
<1>8. WalletTyped'
  BY <1>1, <1>4, <1>6, <1>7 DEF WalletInv, WalletTyped, Moved, Credited
<1>9. TotalsFit'
  BY <1>4, <1>6 DEF WalletInv, TotalsFit, Moved
<1>10. Conserved'
  <2>1. SumOver(wallet, DOMAIN wallet) \in Int
    BY <1>1, SumOverInt
  <2>2. /\ SumOver(wallet', DOMAIN wallet') = SumOver(wallet, DOMAIN wallet) + n
        /\ Held(lockers') = Held(lockers) + (-n) /\ Held(lockers) \in Int
    BY <1>6, <1>7 DEF Credited, Moved
  <2>3. SumOver(wallet', DOMAIN wallet') + Held(lockers')
          = SumOver(wallet, DOMAIN wallet) + Held(lockers)
    BY <2>1, <2>2
  <2>. QED BY <1>4, <2>3 DEF WalletInv, Conserved
<1>11. HistoryExplainsWallet'
  <2>. SUFFICES ASSUME NEW b \in Accounts \ foreign'
                PROVE  HGet(wallet', b) = booked'[b]
    BY DEF HistoryExplainsWallet
  <2>1. b \notin foreign /\ (to = a \/ (b # a /\ b # to))
    BY <1>4
  <2>2. HGet(wallet, b) = booked[b]
    BY <2>1 DEF WalletInv, HistoryExplainsWallet
  <2>3. CASE b = a
    BY <1>1, <1>4, <1>7, <2>1, <2>2, <2>3 DEF Credited
  <2>4. CASE b # a
    <3>1. b # to
      BY <2>1, <2>4
    <3>. QED BY <1>1, <1>4, <1>7, <2>2, <2>4, <3>1 DEF Credited
  <2>. QED BY <2>3, <2>4
<1>12. NothingOwed'
  <2>. SUFFICES ASSUME strict'
                PROVE  Solvent(wallet') /\ AllCover(lockers')
    BY DEF NothingOwed
  <2>1. Solvent(wallet) /\ AllCover(lockers)
    BY <1>4 DEF WalletInv, NothingOwed
  <2>2. n >= 0
    BY <1>1, <1>2, <2>1, CoveredIsNotNegative DEF AllCover
  <2>3. HGet(wallet, to) + n >= 0
    <3>1. HGet(wallet, to) \in Int
      BY <1>1, HGetInt
    <3>. QED BY <2>1, <2>2, <3>1 DEF Solvent
  <2>. QED BY <1>6, <1>7, <2>1, <2>3
<1>. QED BY <1>8, <1>9, <1>10, <1>11, <1>12 DEF WalletInv

-----------------------------------------------------------------------------
LEMMA StutterKeeps == WalletInv /\ UNCHANGED vars => WalletInv'
  BY DEF WalletInv, WalletTyped, TotalsFit, Conserved, HistoryExplainsWallet,
         NothingOwed, vars

LEMMA InvStep == WalletInv /\ [Next]_vars => WalletInv'
<1>. SUFFICES ASSUME WalletInv, [Next]_vars PROVE WalletInv'
  OBVIOUS
<1>1. ASSUME NEW a \in Accounts, WalletStep(a)
      PROVE  WalletInv'
  BY <1>1, WalletToLockerKeeps, WalletToWalletKeeps DEF WalletStep
<1>2. ASSUME NEW a \in Accounts, NEW k \in Keys, LockerStep(a, k)
      PROVE  WalletInv'
  BY <1>2, LockSetKeeps, LockRemoveKeeps, LockTransferKeeps, LockerToWalletKeeps
     DEF LockerStep
<1>. QED BY <1>1, <1>2, StutterKeeps DEF Next

LEMMA WalletInvHolds == Spec => []WalletInv
  BY InvInit, InvStep, PTL DEF Spec

(* GetTotal is the sum of an account's locks: TotalIsSum, of the scripts    *)
(* that keep the total beside the locks.                                    *)
THEOREM TotalsAreSums == Spec => []TotalIsSum
  BY WalletInvHolds, InvImplies, PTL

(* Transfers between wallets and lockers neither make nor lose coins.       *)
THEOREM CoinsAreConserved == Spec => []CoinsConserved
  BY WalletInvHolds, InvImplies, PTL

(* A wallet is the sum of its history, unless a lock was paid past it.      *)
THEOREM HistoriesExplainWallets == Spec => []HistoryExplainsWallet
  BY WalletInvHolds, InvImplies, PTL

(* Nobody overdraws while amounts are not negative and nobody is allowed to. *)
THEOREM NobodyOverdraws == Spec => []NoOverdraft
  BY WalletInvHolds, InvImplies, PTL

(***************************************************************************)
(* Proofs about one transfer at a time, for every length of a page and any *)
(* number of items: nothing is lost, the storage sees the oldest first,    *)
(* and nothing twice unless a call was given up.                           *)
(***************************************************************************)

\* What the code leaves to its callers: an account has one transfer at a time.
OneAtATime == \A r, s \in Runners : r = s

-----------------------------------------------------------------------------
\* A stretch of the history, newest first, above the item with number base.
Stretch(l, base) ==
  /\ l \in Seq(Int)
  /\ \A i \in 1 .. Len(l) : l[i] = base + Len(l) - i + 1

\* The number of items that were trimmed.
Trimmed == pushed - Len(list)

\* The number of items of a page that were stored.
Done(c) == Len(c.page) - c.idx

ListOK ==
  /\ pushed \in Nat
  /\ Stretch(list, Trimmed)

StoredOK ==
  /\ stored \in Seq(Int)
  /\ \A i \in 1 .. Len(stored) : stored[i] = i
  /\ 0 <= Trimmed /\ Trimmed <= Len(stored) /\ Len(stored) <= pushed

\* The page of a call is the end of the list, and what it has done of it stored.
CallOK(c) ==
  /\ c.pc \in {"idle", "fetch", "store", "trim"}
  /\ c.idx \in Nat
  /\ c.pc \in {"idle", "fetch"} /\ ~failed => Len(stored) = Trimmed
  /\ c.pc \in {"store", "trim"} =>
       /\ Stretch(c.page, Trimmed)
       /\ Len(c.page) <= Len(list)
       /\ c.idx <= Len(c.page)
       /\ c.pc = "store" => c.idx > 0
       /\ Trimmed + Done(c) <= Len(stored)
       /\ ~failed => Len(stored) = Trimmed + Done(c)

CallRecord == [pc : {"idle", "fetch", "store", "trim"}, page : Seq(Int), idx : Nat,
               err : {"none", "stop", "failed"}]

IInv ==
  /\ ListOK
  /\ StoredOK
  /\ run \in [Runners -> CallRecord]
  /\ \A r \in Runners : CallOK(run[r])
  /\ failed \in BOOLEAN
  /\ NothingTwice

-----------------------------------------------------------------------------
(* The items of a sequence that counts up from 1 are the numbers up to its length. *)
LEMMA CountedItems ==
  ASSUME NEW s \in Seq(Int), \A i \in 1 .. Len(s) : s[i] = i
  PROVE  ToSet(s) = 1 .. Len(s)
<1>1. Len(s) \in Nat /\ ToSet(s) = {s[i] : i \in 1 .. Len(s)}
  BY DEF ToSet
<1> QED
  BY <1>1

(* Those of a stretch are the numbers above its base. *)
LEMMA StretchItems ==
  ASSUME NEW l, NEW base \in Int, Stretch(l, base)
  PROVE  ToSet(l) = (base + 1) .. (base + Len(l))
<1>1. Len(l) \in Nat /\ ToSet(l) = {l[i] : i \in 1 .. Len(l)}
  <2>1. PICK s \in Seq(Int) : s = l
    BY DEF Stretch
  <2>2. Len(s) \in Nat /\ ToSet(s) = {s[i] : i \in 1 .. Len(s)}
    BY DEF ToSet
  <2> QED
    BY <2>1, <2>2
<1>2. ASSUME NEW x \in (base + 1) .. (base + Len(l)) PROVE x \in ToSet(l)
  <2>1. base + Len(l) - x + 1 \in 1 .. Len(l)
    BY <1>1
  <2>2. l[base + Len(l) - x + 1] = x
    BY <1>1, <2>1 DEF Stretch
  <2> QED
    BY <1>1, <2>1, <2>2
<1>3. \A i \in 1 .. Len(l) : l[i] \in (base + 1) .. (base + Len(l))
  BY <1>1 DEF Stretch
<1> QED
  BY <1>1, <1>2, <1>3

(* The invariant says what the properties say. *)
LEMMA InvariantSuffices == IInv => NothingLost /\ OldestFirst /\ NothingTwice
<1> SUFFICES ASSUME IInv PROVE NothingLost /\ OldestFirst
  BY DEF IInv
<1>1. ToSet(stored) = 1 .. Len(stored) /\ Len(stored) \in Nat
  BY CountedItems DEF IInv, StoredOK
<1>2. Len(list) \in Nat /\ Trimmed \in Int /\ pushed \in Nat
  BY DEF IInv, ListOK, Stretch, Trimmed
<1>3. ToSet(list) = (Trimmed + 1) .. (Trimmed + Len(list))
  BY <1>2, StretchItems DEF IInv, ListOK
<1>4. ToSet(list) = (Trimmed + 1) .. pushed
  BY <1>2, <1>3 DEF Trimmed
<1>5. 0 <= Trimmed /\ Trimmed <= Len(stored) /\ Len(stored) <= pushed
  BY DEF IInv, StoredOK
<1>6. NothingLost
  BY <1>1, <1>2, <1>4, <1>5 DEF NothingLost
<1> QED
  BY <1>6 DEF OldestFirst, IInv, StoredOK

(* At first there is nothing. *)
LEMMA InitHolds == TransferInit => IInv
<1> SUFFICES ASSUME TransferInit PROVE IInv
  OBVIOUS
<1>1. /\ Len(list) = 0 /\ list \in Seq(Int) /\ Len(stored) = 0 /\ stored \in Seq(Int)
      /\ pushed = 0 /\ failed = FALSE /\ twice = {}
  BY DEF TransferInit
<1>2. ListOK /\ StoredOK
  BY <1>1 DEF ListOK, StoredOK, Stretch, Trimmed
<1>3. \A r \in Runners : run[r] = Idle
  BY DEF TransferInit
<1>4. run \in [Runners -> CallRecord]
  BY DEF TransferInit, Idle, CallRecord
<1>5. CallOK(Idle)
  BY <1>1 DEF CallOK, Idle, Trimmed
<1>6. \A r \in Runners : CallOK(run[r])
  BY <1>3, <1>5, Zenon
<1> QED
  BY <1>1, <1>2, <1>4, <1>6 DEF IInv, NothingTwice

-----------------------------------------------------------------------------
(* What LTRIM leaves is a stretch that begins above what it took.           *)
LEMMA TrimLeaves ==
  ASSUME NEW l, NEW base \in Int, Stretch(l, base), NEW k \in Nat, k <= Len(l)
  PROVE  /\ Stretch(SubSeq(l, 1, Len(l) - k), base + k)
         /\ Len(SubSeq(l, 1, Len(l) - k)) = Len(l) - k
<1>0. PICK s \in Seq(Int) : s = l
  BY DEF Stretch
<1>1. PICK n \in Nat : s = l /\ n = Len(s) - k /\ n <= Len(s)
  <2>1. Len(s) - k \in Nat /\ Len(s) - k <= Len(s)
    BY <1>0
  <2> QED
    BY <1>0, <2>1
<1>2. /\ SubSeq(s, 1, n) \in Seq(Int) /\ Len(SubSeq(s, 1, n)) = n
      /\ \A i \in 1 .. n : SubSeq(s, 1, n)[i] = s[i]
  BY <1>1
<1>3. \A i \in 1 .. n : s[i] = base + Len(s) - i + 1
  BY <1>1 DEF Stretch
<1>4. \A i \in 1 .. n : SubSeq(s, 1, n)[i] = (base + k) + n - i + 1
  BY <1>1, <1>2, <1>3
<1> QED
  BY <1>1, <1>2, <1>4 DEF Stretch

\* A page that ends offset items before the end of the list.
Within(items, offset, l) == items = <<>> \/ Len(items) + offset <= Len(l)

(* What LRANGE gives for count items before the last offset ones is the     *)
(* stretch above these, or what there is of it.                             *)
LEMMA PageIsStretch ==
  ASSUME NEW l, NEW base \in Int, Stretch(l, base),
         NEW offset \in Nat, NEW count \in Nat, count > 0,
         NEW items, items = LRange(l, -offset - count, -offset - 1)
  PROVE  /\ Stretch(items, base + offset) /\ Len(items) <= count
         /\ Within(items, offset, l)
         /\ items = <<>> <=> Len(items) = 0
<1>1. PICK s \in Seq(Int), n \in Nat : s = l /\ n = Len(s)
  BY DEF Stretch
<1>2. PICK first \in Int, last \in Int : first = -offset - count /\ last = -offset - 1
  <2>1. -offset - count \in Int /\ -offset - 1 \in Int
    OBVIOUS
  <2> QED
    BY <2>1, Zenon
<1>3. /\ Index(s, first) = n + first /\ Index(s, last) = n + last
      /\ n + last < n /\ ~(Index(s, last) >= Len(s))
  BY <1>1, <1>2 DEF Index
<1>4. PICK a \in Nat, e \in Int :
        /\ items = SubSeq(s, a + 1, e)
        /\ e = n - offset /\ e <= n /\ e - a <= count
        /\ a <= e \/ (a = 0 /\ e <= 0)
  <2>1. PICK e \in Int : e = n - offset /\ e <= n /\ e = n + last + 1
    BY <1>2
  <2>2. CASE n + first < 0
    <3>1. items = SubSeq(s, 0 + 1, (n + last) + 1)
      <4>1. Index(s, first) < 0
        BY <1>3, <2>2, Zenon
      <4>2. items = SubSeq(s, 0 + 1, Index(s, last) + 1)
        BY <1>1, <1>2, <1>3, <4>1, Zenon DEF LRange
      <4> QED
        BY <1>3, <4>2, Zenon
    <3>2. PICK a \in Nat : a = 0
      OBVIOUS
    <3>3. e - a <= count /\ e = (n + last) + 1 /\ (a <= e \/ (a = 0 /\ e <= 0))
      BY <1>2, <2>1, <2>2, <3>2
    <3>4. items = SubSeq(s, a + 1, e)
      BY <3>1, <3>2, <3>3, Zenon
    <3> QED
      BY <2>1, <3>3, <3>4
  <2>3. CASE ~(n + first < 0)
    <3>1. items = SubSeq(s, (n + first) + 1, (n + last) + 1)
      <4>1. ~(Index(s, first) < 0)
        BY <1>3, <2>3, Zenon
      <4>2. items = SubSeq(s, Index(s, first) + 1, Index(s, last) + 1)
        BY <1>1, <1>2, <1>3, <4>1, Zenon DEF LRange
      <4> QED
        BY <1>3, <4>2, Zenon
    <3>2. PICK a \in Nat : a = n + first
      BY <1>1, <1>2, <2>3
    <3>3. e - a <= count /\ a <= e /\ e = (n + last) + 1
      BY <1>2, <2>1, <3>2
    <3>4. items = SubSeq(s, a + 1, e)
      BY <3>1, <3>2, <3>3, Zenon
    <3> QED
      BY <2>1, <3>3, <3>4
  <2> QED
    BY <2>2, <2>3
<1>5. CASE e <= a
  <2>1. items = <<>>
    BY <1>1, <1>4, <1>5
  <2>2. <<>> \in Seq(Int) /\ Len(<<>>) = 0
    OBVIOUS
  <2>3. items \in Seq(Int) /\ Len(items) = 0
    BY <2>1, <2>2, Zenon
  <2> QED
    BY <2>1, <2>3 DEF Stretch, Within
<1>6. CASE e > a
  <2>1. PICK m \in Nat : m = a + 1 /\ m <= e
    BY <1>4, <1>6
  <2>2. \A i \in m .. e : s[i] \in Int
    BY <1>1, <1>4, <2>1
  <2>3. /\ SubSeq(s, m, e) \in Seq(Int)
        /\ Len(SubSeq(s, m, e)) = IF m <= e THEN e - m + 1 ELSE 0
        /\ \A i \in 1 .. (e - m + 1) : SubSeq(s, m, e)[i] = s[m + i - 1]
    BY <1>4, <2>1, <2>2, SubSeqProperties
  <2>4. /\ items \in Seq(Int) /\ Len(items) = e - a
        /\ \A i \in 1 .. (e - a) : items[i] = s[a + i]
    <3>1. items = SubSeq(s, m, e) /\ e - m + 1 = e - a
      BY <1>4, <2>1
    <3>2. \A i \in 1 .. (e - a) : m + i - 1 = a + i
      BY <1>4, <2>1
    <3> QED
      BY <2>1, <2>3, <3>1, <3>2
  <2>5. \A i \in 1 .. n : s[i] = base + n - i + 1
    BY <1>1 DEF Stretch
  <2>6. ASSUME NEW i \in 1 .. (e - a)
        PROVE  items[i] = (base + offset) + (e - a) - i + 1
    <3>1. a + i \in 1 .. n
      BY <1>4
    <3>2. items[i] = base + n - (a + i) + 1
      BY <2>4, <2>5, <3>1
    <3> QED
      BY <1>4, <3>2
  <2>7. PICK q \in Nat : q = e - a /\ q > 0 /\ q <= count /\ q + offset <= n
    <3>1. PICK q \in Nat : q = e - a
      BY <1>6
    <3>2. q > 0 /\ q <= count /\ q + offset <= n
      BY <1>4, <1>6, <3>1
    <3> QED
      BY <3>1, <3>2
  <2>8. Len(items) = q /\ items # <<>>
    BY <2>4, <2>7
  <2>9. \A i \in 1 .. q : items[i] = (base + offset) + q - i + 1
    BY <2>6, <2>7
  <2> QED
    <3>1. Stretch(items, base + offset)
      BY <2>4, <2>8, <2>9, Zenon DEF Stretch
    <3>2. Len(items) <= count /\ Len(items) + offset <= Len(l)
      BY <1>1, <2>7, <2>8, Zenon
    <3>3. Len(items) # 0
      BY <2>7, <2>8
    <3> QED
      BY <2>8, <3>1, <3>2, <3>3, Zenon DEF Within
<1> QED
  BY <1>4, <1>5, <1>6

(* What LRANGE with -Page and -1 gives is the end of the list.              *)
LEMMA PageIsEnd ==
  ASSUME NEW l, NEW base \in Int, Stretch(l, base),
         NEW items, items = LRange(l, -Page, -1)
  PROVE  /\ Stretch(items, base) /\ Len(items) <= Len(l)
         /\ items = <<>> <=> Len(items) = 0
<1>1. PICK offset \in Nat, page \in Nat :
        offset = 0 /\ page = Page /\ page > 0 /\ -offset - page = -Page /\ -offset - 1 = -1
  BY HistoryAssumption
<1>2. items = LRange(l, -offset - page, -offset - 1)
  BY <1>1, Zenon
<1>3. /\ Stretch(items, base + offset)
      /\ Within(items, offset, l)
      /\ items = <<>> <=> Len(items) = 0
  <2>1. page > 0
    BY <1>1
  <2> HIDE DEF Stretch, LRange
  <2> QED
    BY <1>2, <2>1, PageIsStretch, Zenon
<1>4. base + offset = base
  BY <1>1
<1>5. Len(items) \in Nat /\ Len(l) \in Nat
  BY <1>3 DEF Stretch
<1> QED
  BY <1>1, <1>3, <1>4, <1>5 DEF Within

(* A step of a call, there being no other, keeps the invariant if it keeps  *)
(* list and stored items, and leaves that call right.                       *)
LEMMA OneCallMoves ==
  ASSUME IInv, OneAtATime, NEW r \in Runners, NEW c \in CallRecord,
         run' = [run EXCEPT ![r] = c],
         ListOK', StoredOK', CallOK(c)', failed' \in BOOLEAN, NothingTwice'
  PROVE  IInv'
<1>1. run' \in [Runners -> CallRecord] /\ run'[r] = c
  BY DEF IInv
<1>2. \A q \in Runners : q = r
  BY DEF OneAtATime
<1>3. \A q \in Runners : CallOK(run[q])'
  BY <1>1, <1>2, Zenon
<1> QED
  BY <1>1, <1>3, Zenon DEF IInv

(* The record of a call that is not running. *)
LEMMA IdleIsCall == Idle \in CallRecord
BY DEF Idle, CallRecord

(* What a call that stores or trims has before it. *)
LEMMA CallFacts ==
  ASSUME IInv, NEW r \in Runners, NEW c, c = run[r], c.pc \in {"store", "trim"}
  PROVE  /\ c \in CallRecord /\ Len(c.page) \in Nat /\ c.idx \in 0 .. Len(c.page)
         /\ Done(c) \in 0 .. Len(list) /\ Done(c) \in Nat
         /\ Trimmed \in Int /\ Len(list) \in Nat /\ Len(stored) \in Nat /\ pushed \in Nat
         /\ Trimmed + Len(list) = pushed
         /\ CallOK(c)
<1>1. c \in CallRecord /\ CallOK(c)
  BY DEF IInv
<1>2. /\ Len(c.page) \in Nat /\ c.idx \in Nat /\ c.idx <= Len(c.page)
      /\ Len(c.page) <= Len(list)
  BY <1>1 DEF CallOK, Stretch
<1>3. Len(list) \in Nat /\ Len(stored) \in Nat /\ pushed \in Nat
  BY DEF IInv, ListOK, StoredOK, Stretch
<1> QED
  BY <1>1, <1>2, <1>3 DEF Done, Trimmed

(* A stretch that an item is pushed on is one with the same base. *)
LEMMA PushedStretch ==
  ASSUME ListOK, Push
  PROVE  /\ ListOK' /\ Trimmed' = Trimmed /\ Trimmed \in Int
         /\ Len(list) \in Nat /\ Len(list') = Len(list) + 1 /\ pushed' = pushed + 1
<1>1. /\ pushed \in Nat /\ pushed' = pushed + 1 /\ list' = <<pushed + 1>> \o list
      /\ UNCHANGED <<run, stored, twice, failed>>
  BY DEF Push, ListOK
<1>2. PICK s \in Seq(Int), n \in Nat : s = list /\ n = Len(s)
  BY DEF ListOK, Stretch
<1>3. /\ list' \in Seq(Int) /\ Len(list') = n + 1 /\ list'[1] = pushed + 1
      /\ \A i \in 1 .. n : list'[i + 1] = s[i]
  BY <1>1, <1>2
<1>4. Trimmed = pushed - n /\ Trimmed' = Trimmed /\ Trimmed \in Int
  BY <1>1, <1>2, <1>3 DEF Trimmed
<1>5. \A i \in 1 .. n : s[i] = Trimmed + n - i + 1
  BY <1>2 DEF ListOK, Stretch
<1>6. ASSUME NEW i \in 1 .. (n + 1)
      PROVE  list'[i] = Trimmed + (n + 1) - i + 1
  <2>1. CASE i = 1
    BY <1>1, <1>2, <1>3, <1>4, <2>1
  <2>2. CASE i # 1
    <3>1. PICK j \in 1 .. n : i = j + 1
      BY <1>2, <2>2
    <3>2. list'[i] = s[j] /\ s[j] = Trimmed + n - j + 1
      BY <1>3, <1>5, <3>1
    <3>3. Trimmed + n - j + 1 = Trimmed + (n + 1) - i + 1
      BY <1>4, <3>1
    <3> QED
      BY <3>2, <3>3
  <2> QED
    BY <2>1, <2>2
<1>7. ListOK'
  BY <1>1, <1>3, <1>4, <1>6 DEF ListOK, Stretch
<1> QED
  BY <1>1, <1>2, <1>3, <1>4, <1>7

(* An item is pushed before those that a call has in its page. *)
LEMMA PushKeeps == IInv /\ Push => IInv'
<1> SUFFICES ASSUME IInv, Push PROVE IInv'
  OBVIOUS
<1>1. /\ ListOK' /\ Trimmed' = Trimmed /\ Trimmed \in Int
      /\ Len(list) \in Nat /\ Len(list') = Len(list) + 1 /\ pushed' = pushed + 1
  BY PushedStretch DEF IInv
<1>2. UNCHANGED <<run, stored, twice, failed>> /\ pushed \in Nat
  BY DEF Push, IInv, ListOK
<1>3. StoredOK'
  BY <1>1, <1>2 DEF IInv, StoredOK
<1>4. ASSUME NEW r \in Runners PROVE CallOK(run[r])'
  <2>1. PICK c : c = run[r] /\ CallOK(c)
    BY DEF IInv
  <2>2. CallOK(c)'
    BY <1>1, <1>2, <2>1 DEF CallOK, Stretch, Done
  <2> QED
    BY <1>2, <2>1, <2>2, Zenon
<1> QED
  BY <1>1, <1>2, <1>3, <1>4 DEF IInv, NothingTwice

(* Fetching takes the end of the list for a page, or ends the call.         *)
LEMMA FetchKeeps ==
  ASSUME IInv, OneAtATime, NEW r \in Runners, Fetch(r)
  PROVE  IInv'
<1>1. PICK items : items = LRange(list, -Page, -1)
  OBVIOUS
<1>2. PICK c : c = IF items = <<>> THEN Idle
                   ELSE [Idle EXCEPT !.pc = "store", !.page = items, !.idx = Len(items)]
  OBVIOUS
<1>3. /\ run[r].pc = "fetch" /\ run' = [run EXCEPT ![r] = c]
      /\ UNCHANGED <<list, stored, twice, pushed, failed>>
  BY <1>1, <1>2 DEF Fetch
<1>4. Trimmed \in Int /\ Trimmed' = Trimmed
  BY <1>3 DEF IInv, ListOK, Stretch, Trimmed
<1>5. ListOK' /\ StoredOK' /\ NothingTwice' /\ failed' \in BOOLEAN
  BY <1>3, <1>4 DEF IInv, ListOK, StoredOK, NothingTwice
<1>6. /\ Stretch(items, Trimmed) /\ Len(items) <= Len(list)
      /\ items = <<>> <=> Len(items) = 0
  BY <1>1, <1>4, PageIsEnd DEF IInv, ListOK
<1>7. ~failed => Len(stored) = Trimmed
  BY <1>3 DEF IInv, CallOK
<1>8. CASE items = <<>>
  <2>1. c = Idle
    BY <1>2, <1>8
  <2>2. CallOK(c)'
    BY <1>3, <1>4, <1>7, <2>1 DEF CallOK, Idle
  <2> QED
    BY <1>3, <1>5, <2>1, <2>2, IdleIsCall, OneCallMoves
<1>9. CASE items # <<>>
  <2>1. items \in Seq(Int) /\ Len(items) \in Nat /\ Len(items) > 0
    BY <1>6, <1>9 DEF Stretch
  <2>2. c = [pc |-> "store", page |-> items, idx |-> Len(items), err |-> "none"]
    BY <1>2, <1>9 DEF Idle
  <2>3. c \in CallRecord
    BY <2>1, <2>2 DEF CallRecord
  <2>4. Done(c) = 0 /\ Trimmed <= Len(stored)
    BY <2>1, <2>2 DEF Done, IInv, StoredOK
  <2>5. Stretch(items, Trimmed)' /\ (Len(items) <= Len(list))' /\ (~failed => Len(stored) = Trimmed)'
    BY <1>3, <1>4, <1>6, <1>7
  <2>6. CallOK(c)'
    BY <1>3, <1>4, <2>1, <2>2, <2>4, <2>5 DEF CallOK, Done
  <2> QED
    BY <1>3, <1>5, <2>3, <2>6, OneCallMoves
<1> QED
  BY <1>8, <1>9

(* An item that is stored is the next one, or was stored before by a call   *)
(* that was given up.                                                       *)
LEMMA StoreKeeps ==
  ASSUME IInv, OneAtATime, NEW r \in Runners, Store(r)
  PROVE  IInv'
<1>1. PICK c \in CallRecord : c = run[r] /\ c.pc = "store"
  BY DEF Store, IInv
<1>2. /\ Len(c.page) \in Nat /\ c.idx \in Nat /\ CallOK(c)
      /\ Trimmed \in Int /\ Len(list) \in Nat /\ Len(stored) \in Nat /\ pushed \in Nat
      /\ Trimmed + Len(list) = pushed
  BY <1>1, CallFacts
<1>3. PICK t \in Int, n \in Nat, k \in Nat, p \in Nat, x \in Nat :
        /\ t = Trimmed /\ n = Len(list) /\ k = Len(stored) /\ p = Len(c.page) /\ x = c.idx
        /\ Done(c) = p - x
  BY <1>2, Zenon DEF Done
<1>4. /\ Stretch(c.page, t) /\ x > 0 /\ x <= p /\ p <= n
      /\ t + (p - x) <= k
      /\ ~failed => k = t + (p - x)
  BY <1>1, <1>2, <1>3 DEF CallOK
<1>5. t + n = pushed /\ 0 <= t /\ t <= k /\ k <= pushed
  BY <1>2, <1>3 DEF IInv, StoredOK
<1>6. PICK item \in Int : item = c.page[x] /\ item = t + p - x + 1
  <2>1. x \in 1 .. p /\ t + p - x + 1 \in Int
    BY <1>4
  <2> QED
    BY <1>3, <1>4, <2>1 DEF Stretch
<1>7. /\ item <= k + 1 /\ item <= pushed /\ item >= 1
      /\ ~failed => item = k + 1
  BY <1>4, <1>5, <1>6
<1>8. PICK d : d = [c EXCEPT !.idx = x - 1, !.pc = IF x = 1 THEN "trim" ELSE "store"]
  OBVIOUS
<1>9. /\ run' = [run EXCEPT ![r] = d] /\ UNCHANGED <<list, pushed, failed>>
      /\ stored' = IF item \notin ToSet(stored) THEN Append(stored, item) ELSE stored
      /\ twice' = IF item \notin ToSet(stored) THEN twice ELSE twice \cup {item}
  BY <1>1, <1>3, <1>6, <1>8 DEF Store, IInv, CallRecord
<1>10. PICK y \in Nat : y = x - 1 /\ (x # 1 => y > 0) /\ y <= p
  BY <1>4
<1>11. d \in CallRecord /\ d.page = c.page /\ d.idx = y /\ d.pc \in {"store", "trim"}
       /\ (d.pc = "store" => d.idx > 0)
  BY <1>8, <1>10 DEF CallRecord
<1>12. Trimmed' = t
  BY <1>3, <1>9 DEF Trimmed
<1>13. stored \in Seq(Int) /\ \A i \in 1 .. k : stored[i] = i
  BY <1>3 DEF IInv, StoredOK
<1>14. ToSet(stored) = 1 .. k
  BY <1>3, <1>13, CountedItems
<1>15. /\ stored' \in Seq(Int) /\ \A i \in 1 .. Len(stored') : stored'[i] = i
       /\ item <= Len(stored') /\ Len(stored') <= pushed /\ k <= Len(stored')
       /\ ~failed => Len(stored') = item /\ twice' = twice
  <2>1. CASE item \in ToSet(stored)
    <3>1. item <= k /\ failed
      BY <1>7, <1>14, <2>1
    <3> QED
      BY <1>3, <1>5, <1>9, <1>13, <2>1, <3>1
  <2>2. CASE item \notin ToSet(stored)
    <3>1. item = k + 1
      BY <1>7, <1>14, <2>2
    <3>2. /\ stored' \in Seq(Int) /\ Len(stored') = k + 1
          /\ \A i \in 1 .. k : stored'[i] = stored[i]
          /\ stored'[k + 1] = item
      BY <1>3, <1>9, <1>13, <2>2, AppendProperties
    <3>3. \A i \in 1 .. (k + 1) : stored'[i] = i
      BY <1>13, <3>1, <3>2
    <3> QED
      BY <1>7, <1>9, <2>2, <3>1, <3>2, <3>3
  <2> QED
    BY <2>1, <2>2
<1>16. ListOK'
  BY <1>3, <1>9, <1>12 DEF IInv, ListOK
<1>17. StoredOK'
  BY <1>5, <1>9, <1>12, <1>15 DEF StoredOK
<1>18. NothingTwice' /\ failed' \in BOOLEAN
  BY <1>9, <1>15 DEF IInv, NothingTwice
<1>19. CallOK(d)'
  <2>1. Stretch(d.page, Trimmed)' /\ (Len(d.page) <= Len(list))'
    BY <1>3, <1>4, <1>9, <1>11, <1>12
  <2>2. Len(d.page) = p /\ Done(d) = p - y /\ d.idx \in Nat /\ d.idx <= Len(d.page)
    BY <1>3, <1>10, <1>11 DEF Done
  <2>3. t + (p - y) = item
    BY <1>6, <1>10
  <2>4. /\ Trimmed' + Done(d) <= Len(stored')
        /\ ~failed' => Len(stored') = Trimmed' + Done(d)
    BY <1>9, <1>12, <1>15, <2>2, <2>3
  <2> QED
    BY <1>11, <2>1, <2>2, <2>4 DEF CallOK, Done
<1> QED
  BY <1>9, <1>11, <1>16, <1>17, <1>18, <1>19, OneCallMoves

(* An item that the storage refuses stays on the page.                      *)
LEMMA StoreRefusedKeeps ==
  ASSUME IInv, OneAtATime, NEW r \in Runners, StoreRefused(r)
  PROVE  IInv'
<1>1. PICK err \in {"stop", "failed"} : run' = [run EXCEPT ![r].pc = "trim", ![r].err = err]
  BY DEF StoreRefused
<1>2. PICK c : c = run[r] /\ c.pc = "store"
  BY DEF StoreRefused
<1>3. PICK d : d = [c EXCEPT !.pc = "trim", !.err = err]
  OBVIOUS
<1>4. c \in CallRecord /\ CallOK(c)
  BY <1>2 DEF IInv
<1>5. run' = [run EXCEPT ![r] = d] /\ UNCHANGED <<list, stored, twice, pushed, failed>>
  BY <1>1, <1>2, <1>3, <1>4 DEF StoreRefused, IInv, CallRecord
<1>6. d \in CallRecord /\ d.page = c.page /\ d.idx = c.idx /\ d.pc = "trim"
  BY <1>3, <1>4 DEF CallRecord
<1>7. Trimmed' = Trimmed
  BY <1>5 DEF Trimmed
<1>8. ListOK' /\ StoredOK' /\ NothingTwice' /\ failed' \in BOOLEAN
  BY <1>5, <1>7 DEF IInv, ListOK, StoredOK, NothingTwice
<1>9. CallOK(d)'
  BY <1>2, <1>4, <1>5, <1>6, <1>7 DEF CallOK, Done
<1> QED
  BY <1>5, <1>6, <1>8, <1>9, OneCallMoves

(* LTRIM drops what the call has stored of its page, and no more.           *)
LEMMA TrimKeepsItems ==
  ASSUME IInv, NEW r \in Runners, NEW c \in CallRecord, c = run[r], c.pc = "trim",
         list' = LTrim(list, c.idx - 1 - Len(c.page)), UNCHANGED <<stored, pushed>>
  PROVE  ListOK' /\ StoredOK' /\ (~failed => Len(stored) = Trimmed')
<1>1. /\ Len(c.page) \in Nat /\ c.idx \in Nat /\ c.idx <= Len(c.page) /\ CallOK(c)
      /\ Trimmed \in Int /\ Len(list) \in Nat /\ Len(stored) \in Nat /\ pushed \in Nat
      /\ Trimmed + Len(list) = pushed
  BY CallFacts
<1>2. PICK t \in Int, n \in Nat, k \in Nat, p \in Nat, x \in Nat :
        /\ t = Trimmed /\ n = Len(list) /\ k = Len(stored) /\ p = Len(c.page) /\ x = c.idx
        /\ Done(c) = p - x
  BY <1>1, Zenon DEF Done
<1>3. /\ x <= p /\ p <= n
      /\ t + (p - x) <= k
      /\ ~failed => k = t + (p - x)
  BY <1>1, <1>2 DEF CallOK
<1>4. PICK m \in Nat : m = p - x /\ m <= n /\ t + m <= k /\ (~failed => k = t + m)
  BY <1>3
<1>5. t + n = pushed /\ pushed \in Nat /\ 0 <= t /\ k <= pushed
  BY <1>1, <1>2 DEF IInv, StoredOK
<1>6. list' = SubSeq(list, 1, n - m)
  <2>1. x - 1 - p < 0 /\ n + (x - 1 - p) + 1 = n - m
    BY <1>3, <1>4
  <2>2. Index(list, x - 1 - p) = n + (x - 1 - p)
    BY <1>2, <2>1, Zenon DEF Index
  <2>3. list' = SubSeq(list, 1, Index(list, x - 1 - p) + 1)
    BY <1>2, Zenon DEF LTrim
  <2> QED
    BY <2>1, <2>2, <2>3, Zenon
<1>7. PICK l : l = SubSeq(list, 1, n - m) /\ Stretch(l, t + m) /\ Len(l) = n - m
  <2>1. Stretch(list, t)
    BY <1>2 DEF IInv, ListOK
  <2> QED
    BY <1>2, <1>4, <2>1, TrimLeaves
<1>8. Trimmed' = t + m
  <2>1. pushed - (n - m) = t + m
    BY <1>5, <1>4
  <2>2. Trimmed' = pushed - (n - m)
    BY <1>6, <1>7, Zenon DEF Trimmed
  <2> QED
    BY <2>1, <2>2
<1>9. ListOK'
  <2>1. Stretch(list', Trimmed')
    BY <1>6, <1>7, <1>8, Zenon
  <2> QED
    BY <1>5, <2>1 DEF ListOK, Stretch
<1>10. StoredOK'
  BY <1>2, <1>4, <1>5, <1>8 DEF IInv, StoredOK
<1> QED
  BY <1>2, <1>4, <1>8, <1>9, <1>10

(* A trim ends a round, with the items of the page stored and gone. *)
LEMMA TrimKeeps ==
  ASSUME IInv, OneAtATime, NEW r \in Runners, Trim(r)
  PROVE  IInv'
<1>1. PICK c \in CallRecord : c = run[r] /\ c.pc = "trim"
  BY DEF Trim, IInv
<1>2. PICK d \in CallRecord :
        /\ run' = [run EXCEPT ![r] = d]
        /\ d.pc \in {"idle", "fetch"} /\ d.idx = 0
  <2>1. Idle \in CallRecord /\ [Idle EXCEPT !.pc = "fetch"] \in CallRecord
    <3>1. [Idle EXCEPT !.pc = "fetch"]
             = [pc |-> "fetch", page |-> <<>>, idx |-> 0, err |-> "none"]
      BY DEF Idle
    <3> QED
      BY <3>1, IdleIsCall DEF CallRecord
  <2> QED
    BY <2>1 DEF Trim, Idle
<1>3. UNCHANGED <<stored, twice, pushed, failed>> /\ list' = LTrim(list, c.idx - 1 - Len(c.page))
  BY <1>1 DEF Trim
<1>4. ListOK' /\ StoredOK' /\ (~failed => Len(stored) = Trimmed')
  BY <1>1, <1>3, TrimKeepsItems
<1>5. NothingTwice' /\ failed' \in BOOLEAN
  BY <1>3 DEF IInv, NothingTwice
<1>6. CallOK(d)'
  BY <1>2, <1>3, <1>4 DEF CallOK
<1> QED
  BY <1>2, <1>4, <1>5, <1>6, OneCallMoves

(* A call that is given up has trimmed or not; what it stored may come again. *)
LEMMA GiveUpKeeps ==
  ASSUME IInv, OneAtATime, NEW r \in Runners, GiveUp(r)
  PROVE  IInv'
<1>1. PICK c \in CallRecord : c = run[r]
  BY DEF IInv
<1>2. /\ run' = [run EXCEPT ![r] = Idle] /\ failed' = TRUE /\ UNCHANGED <<stored, twice, pushed>>
  BY DEF GiveUp
<1>3. ListOK' /\ StoredOK'
  <2>1. CASE UNCHANGED list
    BY <1>2, <2>1 DEF IInv, ListOK, StoredOK, Trimmed
  <2>2. CASE c.pc = "trim" /\ list' = LTrim(list, c.idx - 1 - Len(c.page))
    BY <1>1, <1>2, <2>2, TrimKeepsItems
  <2> QED
    BY <1>1, <2>1, <2>2 DEF GiveUp
<1>4. NothingTwice' /\ failed' \in BOOLEAN /\ CallOK(Idle)'
  BY <1>2 DEF NothingTwice, CallOK, Idle
<1> QED
  BY <1>2, <1>3, <1>4, IdleIsCall, OneCallMoves

(* A call that begins has stored nothing. *)
LEMMA BeginKeeps ==
  ASSUME IInv, OneAtATime, NEW r \in Runners, Begin(r)
  PROVE  IInv'
<1>1. PICK c \in CallRecord : c = run[r] /\ c.pc = "idle" /\ CallOK(c)
  BY DEF IInv, Begin
<1>2. PICK d : d = [c EXCEPT !.pc = "fetch"]
  OBVIOUS
<1>3. /\ run' = [run EXCEPT ![r] = d] /\ UNCHANGED <<list, stored, twice, pushed, failed>>
      /\ d \in CallRecord /\ d.pc = "fetch" /\ d.idx = c.idx
  BY <1>1, <1>2 DEF Begin, CallRecord
<1>4. Trimmed' = Trimmed
  BY <1>3 DEF Trimmed
<1>5. ListOK' /\ StoredOK' /\ NothingTwice' /\ failed' \in BOOLEAN
  BY <1>3, <1>4 DEF IInv, ListOK, StoredOK, NothingTwice
<1>6. CallOK(d)'
  BY <1>1, <1>3, <1>4 DEF CallOK
<1> QED
  BY <1>3, <1>5, <1>6, OneCallMoves

(* Every step keeps the invariant, if no two calls run at once.             *)
LEMMA NextHolds == IInv /\ OneAtATime /\ [TransferNext]_transferVars => IInv'
<1> SUFFICES ASSUME IInv, OneAtATime, [TransferNext]_transferVars PROVE IInv'
  OBVIOUS
<1>1. CASE UNCHANGED transferVars
  <2>1. UNCHANGED <<list, run, stored, twice, pushed, failed>>
    BY <1>1 DEF transferVars
  <2>2. Trimmed' = Trimmed
    BY <2>1 DEF Trimmed
  <2>3. ASSUME NEW r \in Runners PROVE CallOK(run[r])'
    <3>1. PICK c : c = run[r] /\ CallOK(c)
      BY DEF IInv
    <3>2. CallOK(c)' /\ run'[r] = c
      BY <2>1, <2>2, <3>1 DEF CallOK
    <3> QED
      BY <3>2, Zenon
  <2>4. ListOK' /\ StoredOK' /\ NothingTwice'
    BY <2>1, <2>2 DEF IInv, ListOK, StoredOK, NothingTwice
  <2> QED
    BY <2>1, <2>3, <2>4, Zenon DEF IInv
<1>2. CASE Push
  BY <1>2, PushKeeps
<1>3. ASSUME NEW r \in Runners, Begin(r) \/ RunnerStep(r) \/ GiveUp(r)
      PROVE  IInv'
  BY <1>3, BeginKeeps, FetchKeeps, StoreKeeps, StoreRefusedKeeps, TrimKeeps, GiveUpKeeps
     DEF RunnerStep
<1> QED
  BY <1>1, <1>2, <1>3 DEF TransferNext

(* The inductive invariant is an invariant.                                 *)
LEMMA TransferInvariant ==
  ASSUME OneAtATime
  PROVE  TransferSpec => []IInv
<1>1. IInv /\ [TransferNext]_transferVars => IInv'
  BY NextHolds
<1> QED
  BY <1>1, InitHolds, PTL DEF TransferSpec

(* Trans2CodeStorage: whatever fails between fetching, storing and trimming *)
(* and whatever is pushed meanwhile, no item is lost, for any page.         *)
THEOREM TransferLosesNothing == ASSUME OneAtATime PROVE TransferSpec => []NothingLost
BY TransferInvariant, InvariantSuffices, PTL

(* Trans2CodeStorage: the storage is given the items in the order in which  *)
(* they were pushed, with no gap.                                           *)
THEOREM StorageSeesOldestFirst == ASSUME OneAtATime PROVE TransferSpec => []OldestFirst
BY TransferInvariant, InvariantSuffices, PTL

(* Trans2CodeStorage: nothing is stored twice unless a call was given up    *)
(* between storing and trimming.                                            *)
THEOREM StoredOnceUnlessGivenUp == ASSUME OneAtATime PROVE TransferSpec => []NothingTwice
BY TransferInvariant, InvariantSuffices, PTL

-----------------------------------------------------------------------------
(***************************************************************************)
(* The pages of GetItemsASC, with any number of transfers at once: what is *)
(* left of the history is a stretch of it at any time, for a trim leaves   *)
(* the head, whatever else was trimmed meanwhile.                          *)
(***************************************************************************)
InPage(c) == c.idx <= Len(c.page) /\ (c.pc = "store" => c.idx > 0)

PagesInv ==
  /\ ListOK
  /\ run \in [Runners -> CallRecord]
  /\ \A r \in Runners : InPage(run[r])

(* A trim that goes by an old page takes more or less than the items that   *)
(* page had in the list, but from its end.                                  *)
LEMMA TrimLeavesStretch ==
  ASSUME ListOK, NEW c \in CallRecord, InPage(c),
         list' = LTrim(list, c.idx - 1 - Len(c.page)), UNCHANGED pushed
  PROVE  ListOK'
<1>1. PICK s \in Seq(Int), n \in Nat : s = list /\ n = Len(s)
  BY DEF ListOK, Stretch
<1>2. PICK k \in Nat : c.idx - 1 - Len(c.page) = -k - 1
  <2>1. c.idx \in Nat /\ Len(c.page) \in Nat /\ c.idx <= Len(c.page)
    BY DEF CallRecord, InPage
  <2>2. PICK k \in Nat : k = Len(c.page) - c.idx
    BY <2>1
  <2>3. c.idx - 1 - Len(c.page) = -k - 1
    BY <2>1, <2>2
  <2> QED
    BY <2>3, Zenon
<1>3. list' = SubSeq(s, 1, n - k)
  <2>1. -k - 1 < 0 /\ n + (-k - 1) + 1 = n - k
    BY <1>1, <1>2
  <2>2. list' = SubSeq(s, 1, Index(s, -k - 1) + 1)
    BY <1>1, <1>2, Zenon DEF LTrim
  <2>3. Index(s, -k - 1) = n + (-k - 1)
    BY <1>1, <2>1, Zenon DEF Index
  <2> QED
    BY <2>1, <2>2, <2>3, Zenon
<1>4. PICK t \in Int : t = Trimmed /\ pushed \in Nat /\ t = pushed - n /\ Stretch(s, t)
  BY <1>1 DEF ListOK, Trimmed
<1>5. CASE k <= n
  <2>1. PICK l : l = SubSeq(s, 1, n - k) /\ Stretch(l, t + k) /\ Len(l) = n - k
    BY <1>1, <1>4, <1>5, TrimLeaves
  <2>2. Trimmed' = t + k
    <3>1. pushed - (n - k) = t + k
      BY <1>1, <1>2, <1>4
    <3> QED
      BY <1>3, <2>1, <3>1, Zenon DEF Trimmed
  <2> QED
    BY <1>3, <1>4, <2>1, <2>2, Zenon DEF ListOK
<1>6. CASE k > n
  <2>1. list' = <<>>
    BY <1>1, <1>2, <1>3, <1>6
  <2>2. <<>> \in Seq(Int) /\ Len(<<>>) = 0
    OBVIOUS
  <2>3. list' \in Seq(Int) /\ Len(list') = 0
    BY <2>1, <2>2, Zenon
  <2> QED
    BY <1>4, <2>3 DEF ListOK, Stretch
<1> QED
  BY <1>1, <1>2, <1>5, <1>6

(* A step of a call that leaves the call in its page.                       *)
LEMMA CallStaysInPage ==
  ASSUME PagesInv, NEW r \in Runners, NEW d \in CallRecord, InPage(d),
         run' = [run EXCEPT ![r] = d], ListOK'
  PROVE  PagesInv'
<1>1. run' \in [Runners -> CallRecord]
  BY DEF PagesInv
<1>2. ASSUME NEW q \in Runners PROVE InPage(run'[q])
  <2>1. run'[q] = IF q = r THEN d ELSE run[q]
    BY DEF PagesInv
  <2>2. InPage(run[q])
    BY DEF PagesInv
  <2> QED
    BY <2>1, <2>2, Zenon
<1> QED
  BY <1>1, <1>2, Zenon DEF PagesInv, InPage

LEMMA IdleInPage ==
  /\ Idle \in CallRecord /\ InPage(Idle)
  /\ [Idle EXCEPT !.pc = "fetch"] \in CallRecord /\ InPage([Idle EXCEPT !.pc = "fetch"])
<1>1. [Idle EXCEPT !.pc = "fetch"] = [pc |-> "fetch", page |-> <<>>, idx |-> 0, err |-> "none"]
  BY DEF Idle
<1>2. PICK e \in Seq(Int) : e = <<>> /\ Len(e) = 0
  <2>1. <<>> \in Seq(Int) /\ Len(<<>>) = 0
    OBVIOUS
  <2> QED
    BY <2>1, Zenon
<1>3. ASSUME NEW d, NEW pc \in {"idle", "fetch"},
             d = [pc |-> pc, page |-> e, idx |-> 0, err |-> "none"]
      PROVE  d \in CallRecord /\ InPage(d)
  BY <1>2, <1>3 DEF CallRecord, InPage
<1>4. Idle = [pc |-> "idle", page |-> <<>>, idx |-> 0, err |-> "none"]
  BY DEF Idle
<1> QED
  BY <1>1, <1>2, <1>3, <1>4, Zenon

(* Every step keeps it.                                                     *)
LEMMA PagesStep == PagesInv /\ [TransferNext]_transferVars => PagesInv'
<1> SUFFICES ASSUME PagesInv, [TransferNext]_transferVars PROVE PagesInv'
  OBVIOUS
<1>1. CASE UNCHANGED transferVars
  BY <1>1 DEF PagesInv, ListOK, Trimmed, InPage, Stretch, transferVars
<1>2. CASE Push
  <2>1. ListOK' /\ run' = run
    BY <1>2, PushedStretch DEF PagesInv, Push
  <2> QED
    BY <2>1 DEF PagesInv
<1>3. ASSUME NEW r \in Runners, Begin(r) \/ RunnerStep(r) \/ GiveUp(r)
      PROVE  PagesInv'
  <2>1. PICK c \in CallRecord : c = run[r] /\ InPage(c)
    BY DEF PagesInv
  <2>2. UNCHANGED <<list, pushed>> => ListOK'
    BY DEF PagesInv, ListOK, Trimmed, Stretch
  <2>3. UNCHANGED pushed /\ list' = LTrim(list, c.idx - 1 - Len(c.page)) => ListOK'
    BY <2>1, TrimLeavesStretch DEF PagesInv
  <2>4. CASE Begin(r)
    <3>1. PICK d : d = [c EXCEPT !.pc = "fetch"]
      OBVIOUS
    <3>2. d \in CallRecord /\ InPage(d)
      BY <2>1, <3>1 DEF CallRecord, InPage
    <3>3. run' = [run EXCEPT ![r] = d] /\ UNCHANGED <<list, pushed>>
      BY <2>1, <2>4, <3>1 DEF Begin, PagesInv
    <3> QED
      BY <2>2, <3>2, <3>3, CallStaysInPage
  <2>5. CASE Fetch(r)
    <3>1. PICK items : items = LRange(list, -Page, -1)
      OBVIOUS
    <3>2. PICK d : d = IF items = <<>> THEN Idle
                       ELSE [Idle EXCEPT !.pc = "store", !.page = items, !.idx = Len(items)]
      OBVIOUS
    <3>3. run' = [run EXCEPT ![r] = d] /\ UNCHANGED <<list, pushed>>
      BY <2>5, <3>1, <3>2 DEF Fetch
    <3>4. items \in Seq(Int) /\ (items = <<>> <=> Len(items) = 0)
      <4>1. Trimmed \in Int
        BY DEF PagesInv, ListOK, Stretch, Trimmed
      <4>2. Stretch(items, Trimmed) /\ (items = <<>> <=> Len(items) = 0)
        BY <3>1, <4>1, PageIsEnd DEF PagesInv, ListOK
      <4> QED
        BY <4>2 DEF Stretch
    <3>5. d \in CallRecord /\ InPage(d)
      <4>1. CASE items = <<>>
        BY <3>2, <4>1, IdleInPage
      <4>2. CASE items # <<>>
        <5>1. d = [pc |-> "store", page |-> items, idx |-> Len(items), err |-> "none"]
          BY <3>2, <4>2 DEF Idle
        <5>2. Len(items) \in Nat /\ Len(items) > 0
          BY <3>4, <4>2
        <5> QED
          BY <3>4, <5>1, <5>2 DEF CallRecord, InPage
      <4> QED
        BY <4>1, <4>2
    <3> QED
      BY <2>2, <3>3, <3>5, CallStaysInPage
  <2>6. CASE Store(r)
    <3>1. PICK d : d = [c EXCEPT !.idx = c.idx - 1,
                                 !.pc = IF c.idx = 1 THEN "trim" ELSE "store"]
      OBVIOUS
    <3>2. run' = [run EXCEPT ![r] = d] /\ UNCHANGED <<list, pushed>> /\ c.pc = "store"
      BY <2>1, <2>6, <3>1 DEF Store, PagesInv
    <3>3. PICK x \in Nat, y \in Nat : x = c.idx - 1 /\ y = Len(c.page) /\ x <= y /\ c.idx = x + 1
      <4>1. c.idx \in Nat /\ c.idx > 0 /\ Len(c.page) \in Nat /\ c.idx <= Len(c.page)
        BY <2>1, <3>2 DEF CallRecord, InPage
      <4>2. c.idx - 1 \in Nat /\ c.idx - 1 <= Len(c.page) /\ c.idx = (c.idx - 1) + 1
        BY <4>1
      <4> QED
        BY <4>1, <4>2, Zenon
    <3>4. /\ d.pc = (IF x = 0 THEN "trim" ELSE "store")
          /\ d.page = c.page /\ d.idx = x /\ d \in CallRecord
      <4>1. PICK w \in {"trim", "store"} :
              /\ w = IF c.idx = 1 THEN "trim" ELSE "store"
              /\ w = IF x = 0 THEN "trim" ELSE "store"
        BY <3>3
      <4>2. d = [pc |-> w, page |-> c.page, idx |-> x, err |-> c.err]
        BY <2>1, <3>1, <3>3, <4>1 DEF CallRecord
      <4> QED
        BY <2>1, <4>1, <4>2 DEF CallRecord
    <3>5. InPage(d)
      <4>1. d.idx <= Len(d.page)
        BY <3>3, <3>4, Zenon
      <4>2. x = 0 \/ x > 0
        BY <3>3
      <4>3. d.pc = "store" => x # 0
        BY <3>4
      <4>4. d.pc = "store" => d.idx > 0
        BY <3>4, <4>2, <4>3, Zenon
      <4> QED
        BY <4>1, <4>4 DEF InPage
    <3> QED
      BY <2>2, <3>2, <3>4, <3>5, CallStaysInPage
  <2>7. CASE StoreRefused(r)
    <3>1. PICK e \in {"stop", "failed"} :
            run' = [run EXCEPT ![r].pc = "trim", ![r].err = e] /\ UNCHANGED <<list, pushed>>
      BY <2>7 DEF StoreRefused
    <3>2. PICK d : d = [c EXCEPT !.pc = "trim", !.err = e]
      OBVIOUS
    <3>3. run' = [run EXCEPT ![r] = d]
      BY <2>1, <3>1, <3>2 DEF PagesInv
    <3>4. d \in CallRecord /\ InPage(d)
      BY <2>1, <3>2 DEF CallRecord, InPage
    <3> QED
      BY <2>2, <3>1, <3>3, <3>4, CallStaysInPage
  <2>8. CASE Trim(r)
    <3>1. PICK d \in CallRecord : InPage(d) /\ run' = [run EXCEPT ![r] = d]
      BY <2>8, IdleInPage DEF Trim
    <3>2. ListOK'
      BY <2>1, <2>3, <2>8 DEF Trim
    <3> QED
      BY <3>1, <3>2, CallStaysInPage
  <2>9. CASE GiveUp(r)
    <3>1. run' = [run EXCEPT ![r] = Idle] /\ ListOK'
      BY <2>1, <2>2, <2>3, <2>9 DEF GiveUp
    <3> QED
      BY <3>1, IdleInPage, CallStaysInPage
  <2> QED
    BY <1>3, <2>4, <2>5, <2>6, <2>7, <2>8, <2>9 DEF RunnerStep
<1> QED
  BY <1>1, <1>2, <1>3 DEF TransferNext

LEMMA PagesInit == TransferInit => PagesInv
<1> SUFFICES ASSUME TransferInit PROVE PagesInv
  OBVIOUS
<1>1. <<>> \in Seq(Int) /\ Len(<<>>) = 0
  OBVIOUS
<1>2. ListOK
  BY <1>1 DEF TransferInit, ListOK, Stretch, Trimmed
<1>3. run = [r \in Runners |-> Idle]
  BY DEF TransferInit
<1> QED
  BY <1>2, <1>3, IdleInPage, Zenon DEF PagesInv

-----------------------------------------------------------------------------
\* g is the loop of getItems over its rounds.
LOCAL Swaps(s, g) ==
  g = [i \in 0 .. (Len(s) - 1) |-> IF i = 0 THEN s ELSE Swap(g[i - 1], i, Len(s) + 1 - i)]

(* A swap of two items swaps them.                                          *)
LEMMA Swapped ==
  ASSUME NEW s \in Seq(Int), NEW i \in 1 .. Len(s), NEW j \in 1 .. Len(s)
  PROVE  /\ Swap(s, i, j) \in Seq(Int) /\ Len(Swap(s, i, j)) = Len(s)
         /\ \A k \in 1 .. Len(s) :
              Swap(s, i, j)[k] = IF k = j THEN s[i] ELSE IF k = i THEN s[j] ELSE s[k]
<1>1. PICK u \in Int, v \in Int : u = s[i] /\ v = s[j]
  BY ElementOfSeq
<1>2. PICK m : m = [s EXCEPT ![i] = v]
  OBVIOUS
<1>3. /\ m \in Seq(Int) /\ Len(m) = Len(s)
      /\ \A k \in 1 .. Len(s) : m[k] = IF k = i THEN v ELSE s[k]
  BY <1>1, <1>2, ExceptSeq
<1>4. PICK h : h = [m EXCEPT ![j] = u]
  OBVIOUS
<1>5. /\ h \in Seq(Int) /\ Len(h) = Len(m)
      /\ \A k \in 1 .. Len(m) : h[k] = IF k = j THEN u ELSE m[k]
  BY <1>1, <1>3, <1>4, ExceptSeq
<1>6. Swap(s, i, j) = h
  BY <1>1, <1>2, <1>4, Zenon DEF Swap
<1> QED
  BY <1>1, <1>3, <1>5, <1>6

(* What the loop comes to on up to three items is their reverse.            *)
LEMMA ReversedShort ==
  ASSUME NEW s \in Seq(Int), Len(s) <= 3
  PROVE  /\ Len(Reversed(s)) = Len(s)
         /\ \A i \in 1 .. Len(s) : Reversed(s)[i] = s[Len(s) + 1 - i]
<1>1. Len(s) \in 0 .. 3
  <2>1. PICK n \in Nat : n = Len(s) /\ n <= 3
    BY LenProperties
  <2> QED
    BY <2>1
<1>2. CASE s = <<>>
  <2>1. Reversed(s) = s /\ Len(s) = 0
    BY <1>2 DEF Reversed
  <2> QED
    BY <2>1
<1>3. CASE s # <<>>
  <2>1. PICK n \in 1 .. 3 : n = Len(s)
    BY <1>1, <1>3
  <2>2. PICK a, b : a = Swap(s, 1, n) /\ b = Swap(a, 2, n - 1)
    OBVIOUS
  <2>3. \E g : Swaps(s, g)
    <3>1. PICK g : g = [i \in 0 .. (n - 1) |-> IF i = 0 THEN s ELSE IF i = 1 THEN a ELSE b]
      OBVIOUS
    <3>2. ASSUME NEW i \in 0 .. (n - 1)
          PROVE  g[i] = IF i = 0 THEN s ELSE Swap(g[i - 1], i, n + 1 - i)
      <4>1. CASE i = 0
        BY <3>1, <4>1
      <4>2. CASE i = 1
        <5>1. g[i] = a /\ g[i - 1] = s /\ n + 1 - i = n
          BY <2>1, <3>1, <4>2
        <5> QED
          BY <2>2, <4>2, <5>1
      <4>3. CASE i = 2
        <5>1. g[i] = b /\ g[i - 1] = a /\ n + 1 - i = n - 1
          BY <2>1, <3>1, <4>3
        <5> QED
          BY <2>2, <4>3, <5>1
      <4> QED
        BY <2>1, <4>1, <4>2, <4>3
    <3>3. g = [i \in 0 .. (n - 1) |-> IF i = 0 THEN s ELSE Swap(g[i - 1], i, n + 1 - i)]
      BY <3>1, <3>2, Zenon
    <3> QED
      BY <2>1, <3>3 DEF Swaps
  <2>4. PICK g : Swaps(s, g) /\ Reversed(s) = g[n - 1]
    <3>1. PICK g : g = CHOOSE h : Swaps(s, h)
      OBVIOUS
    <3>2. Swaps(s, g)
      BY <2>3, <3>1, Zenon
    <3>3. Reversed(s) = (CHOOSE h : Swaps(s, h))[Len(s) - 1]
      BY <1>3 DEF Reversed, Swaps
    <3> QED
      BY <2>1, <3>1, <3>2, <3>3
  <2>5. g = [i \in 0 .. (n - 1) |-> IF i = 0 THEN s ELSE Swap(g[i - 1], i, n + 1 - i)]
    BY <2>1, <2>4 DEF Swaps
  <2>6. CASE n = 1
    <3>1. Reversed(s) = s
      BY <2>4, <2>5, <2>6
    <3>2. Len(s) = 1 /\ \A i \in 1 .. 1 : s[1 + 1 - i] = s[i]
      BY <2>1, <2>6
    <3> QED
      BY <3>1, <3>2, Zenon
  <2>7. CASE n = 2
    <3>1. g[0] = s /\ g[1] = Swap(g[0], 1, 2)
      BY <2>5, <2>7
    <3>2. Reversed(s) = Swap(s, 1, 2)
      BY <2>4, <2>7, <3>1
    <3>3. PICK i \in 1 .. Len(s), j \in 1 .. Len(s) : i = 1 /\ j = 2
      BY <2>1, <2>7
    <3>4. /\ Len(Swap(s, i, j)) = Len(s)
          /\ \A k \in 1 .. Len(s) :
               Swap(s, i, j)[k] = IF k = j THEN s[i] ELSE IF k = i THEN s[j] ELSE s[k]
      BY Swapped
    <3>5. Reversed(s) = Swap(s, i, j)
      BY <3>2, <3>3, Zenon
    <3>6. /\ Len(Reversed(s)) = 2
          /\ \A k \in 1 .. 2 :
               Reversed(s)[k] = IF k = j THEN s[i] ELSE IF k = i THEN s[j] ELSE s[k]
      BY <2>1, <2>7, <3>4, <3>5
    <3>7. \A k \in 1 .. 2 : Reversed(s)[k] = s[2 + 1 - k]
      BY <3>3, <3>6
    <3> QED
      BY <2>1, <2>7, <3>6, <3>7
  <2>8. CASE n = 3
    <3>1. g[0] = s /\ g[1] = Swap(g[0], 1, 3) /\ g[2] = Swap(g[1], 2, 2)
      BY <2>5, <2>8
    <3>2. PICK i \in 1 .. Len(s), j \in 1 .. Len(s), h \in 1 .. Len(s) :
            i = 1 /\ j = 3 /\ h = 2
      BY <2>1, <2>8
    <3>3. PICK m : m = Swap(s, i, j)
      OBVIOUS
    <3>4. Reversed(s) = Swap(m, h, h)
      <4>1. Reversed(s) = Swap(Swap(s, 1, 3), 2, 2)
        BY <2>4, <2>8, <3>1
      <4> QED
        BY <3>2, <3>3, <4>1, Zenon
    <3>5. /\ m \in Seq(Int) /\ Len(m) = Len(s)
          /\ \A k \in 1 .. Len(s) : m[k] = IF k = j THEN s[i] ELSE IF k = i THEN s[j] ELSE s[k]
      <4>1. /\ Swap(s, i, j) \in Seq(Int) /\ Len(Swap(s, i, j)) = Len(s)
            /\ \A k \in 1 .. Len(s) :
                 Swap(s, i, j)[k] = IF k = j THEN s[i] ELSE IF k = i THEN s[j] ELSE s[k]
        BY Swapped
      <4> QED
        BY <3>3, <4>1, Zenon
    <3>6. /\ Len(Reversed(s)) = Len(m)
          /\ \A k \in 1 .. Len(m) : Reversed(s)[k] = m[k]
      <4>1. h \in 1 .. Len(m)
        BY <3>5
      <4>2. /\ Len(Swap(m, h, h)) = Len(m)
            /\ \A k \in 1 .. Len(m) :
                 Swap(m, h, h)[k] = IF k = h THEN m[h] ELSE IF k = h THEN m[h] ELSE m[k]
        BY <3>5, <4>1, Swapped
      <4>3. \A k \in 1 .. Len(m) : Swap(m, h, h)[k] = m[k]
        BY <4>2
      <4> QED
        BY <3>4, <4>2, <4>3, Zenon
    <3>7. /\ Len(Reversed(s)) = 3
          /\ \A k \in 1 .. 3 : Reversed(s)[k] = m[k]
      BY <2>1, <2>8, <3>5, <3>6
    <3>8. \A k \in 1 .. 3 : m[k] = s[3 + 1 - k]
      BY <2>1, <2>8, <3>2, <3>5
    <3> QED
      BY <2>1, <2>8, <3>7, <3>8
  <2> QED
    BY <2>1, <2>6, <2>7, <2>8
<1> QED
  BY <1>2, <1>3

(* A short page of a stretch goes up from its oldest item.                  *)
LEMMA ShortPages == ListOK => ShortPagesAscend
<1> SUFFICES ASSUME ListOK, NEW offset \in 0 .. MaxItems, NEW count \in 1 .. 3,
                    NEW items, items = GetItemsASC(offset, count),
                    NEW i \in 1 .. Len(items)
             PROVE  items[i] = list[Len(list) - offset] + (i - 1)
  BY DEF ShortPagesAscend
<1>1. PICK t \in Int, n \in Nat :
        /\ t = Trimmed /\ n = Len(list) /\ Stretch(list, t)
        /\ \A j \in 1 .. n : list[j] = t + n - j + 1
  <2>1. Trimmed \in Int /\ Len(list) \in Nat
    BY DEF ListOK, Stretch, Trimmed
  <2> QED
    BY <2>1 DEF ListOK, Stretch
<1>2. offset \in Nat /\ count \in Nat /\ count > 0 /\ count <= 3
  BY HistoryAssumption
<1>3. PICK page : page = LRange(list, -offset - count, -offset - 1)
  OBVIOUS
<1>4. /\ Stretch(page, t + offset) /\ Len(page) <= count
      /\ Within(page, offset, list)
  <2>1. PICK o \in Nat, c \in Nat : o = offset /\ c = count /\ c > 0
    BY <1>2
  <2>2. PICK l : l = list /\ Stretch(l, t)
    BY <1>1
  <2>3. page = LRange(l, -o - c, -o - 1)
    BY <1>3, <2>1, <2>2, Zenon
  <2>4. /\ Stretch(page, t + o) /\ Len(page) <= c
        /\ Within(page, o, l)
    <3>1. t \in Int /\ o \in Nat /\ c \in Nat /\ c > 0 /\ Stretch(l, t)
      BY <1>1, <2>1, <2>2
    <3>2. Stretch(page, t + o)
      BY <2>3, <3>1, PageIsStretch, Zenon
    <3>3. Len(page) <= c
      BY <2>3, <3>1, PageIsStretch, Zenon
    <3>4. Within(page, o, l)
      BY <2>3, <3>1, PageIsStretch, Zenon
    <3> QED
      BY <3>2, <3>3, <3>4, Zenon
  <2> QED
    BY <2>1, <2>2, <2>4, Zenon
<1>5. PICK p \in Seq(Int), m \in Nat :
        /\ p = page /\ m = Len(p) /\ m <= 3
        /\ \A j \in 1 .. m : p[j] = (t + offset) + m - j + 1
        /\ m # 0 => m + offset <= n
  BY <1>1, <1>2, <1>4 DEF Stretch, Within
<1>6. items = Reversed(p)
  BY <1>3, <1>5 DEF GetItemsASC
<1>7. Len(items) = m /\ \A j \in 1 .. m : items[j] = p[m + 1 - j]
  BY <1>5, <1>6, ReversedShort
<1>8. i \in 1 .. m /\ n - offset \in 1 .. n /\ m + 1 - i \in 1 .. m
  <2>1. i \in 1 .. m
    BY <1>7, Zenon
  <2>2. m > 0 /\ m + offset <= n
    BY <1>5, <2>1
  <2> QED
    BY <1>2, <2>1, <2>2
<1>9. items[i] = (t + offset) + m - (m + 1 - i) + 1
  BY <1>5, <1>7, <1>8
<1>10. list[n - offset] = t + n - (n - offset) + 1
  BY <1>1, <1>8
<1> QED
  BY <1>1, <1>2, <1>5, <1>8, <1>9, <1>10

(* GetItemsASC: a page of three items at most is a stretch of the history,  *)
(* oldest first, while items are pushed and any number of transfers trim.   *)
THEOREM ShortPagesInOrder == TransferSpec => []ShortPagesAscend
<1>1. PagesInv => ShortPagesAscend
  BY ShortPages DEF PagesInv
<1> QED
  BY PagesInit, PagesStep, <1>1, PTL DEF TransferSpec
=============================================================================
