------------------------------- MODULE Wallet -------------------------------
(***************************************************************************)
(* Coins in wallets and lockers: wallet/wallet.go, wallet/locker.go and    *)
(* the Redis scripts of wallet/lua.go.  A script runs in Redis at one      *)
(* stroke, so that an operation is one action; one that is refused changes *)
(* nothing and has no action.                                              *)
(*                                                                         *)
(* An account stands for a name under a key prefix, so that one wallet and *)
(* one locker stand for any number of them.  Of a history only the sum of  *)
(* its amounts is kept; how it is read and moved is module HistoryTransfer.*)
(***************************************************************************)
EXTENDS Integers, FiniteSets, Functions

CONSTANTS
  Accounts,
  Keys,          \* keys of locks
  TotalKey,      \* totalKey, the field of a locker's hash that holds its total
  Amounts,       \* what callers pass for coins
  MaxCoins,      \* bound on the coins there are, and on those owed
  MaxLooped      \* bound on them once a lock was transferred onto itself

ASSUME WalletAssumption ==
  /\ IsFiniteSet(Accounts)
  /\ TotalKey \notin Keys
  /\ Amounts \subseteq Int
  /\ MaxCoins \in Nat /\ MaxLooped \in Nat

VARIABLES
  wallet,  \* the wallet's hash
  lockers, \* the hash of each account's locker
  booked,  \* history: for each account the sum of its history's amounts
  issued,  \* history: coins set on locks minus coins removed with them
  strict,  \* history: no negative amount, no AllowNegativeOption so far
  foreign, \* history: accounts one of whose locks was paid into the wallet of
           \* another, and those others
  looped   \* history: accounts one of whose locks was transferred onto itself

vars == <<wallet, lockers, booked, issued, strict, foreign, looped>>

-----------------------------------------------------------------------------
\* Redis hashes.
Has(h, f) == f \in DOMAIN h
HGet(h, f) == IF Has(h, f) THEN h[f] ELSE 0
HSet(h, f, n) == [x \in DOMAIN h \cup {f} |-> IF x = f THEN n ELSE h[x]]
HIncrBy(h, f, n) == HSet(h, f, HGet(h, f) + n)
HDel(h, f) == [x \in DOMAIN h \ {f} |-> h[x]]

NoFields == [f \in {} |-> 0]

\* ConflictFlag: accumulation (1) and overflow (2) exclude each other.
Flags ==
  {flag \in SUBSET {"accumulation", "overflow", "negative"} :
     ~({"accumulation", "overflow"} \subseteq flag)}

\* The caller asks for nothing that could put a balance below zero.
Strictly(coins, flag) == strict' = (strict /\ coins >= 0 /\ "negative" \notin flag)

\* No more than the bound are issued, held or owed.
Bounded ==
  LET most  == IF looped = {} THEN MaxCoins ELSE MaxLooped
      range == -most..most
  IN  /\ issued \in range
      /\ \A a \in DOMAIN wallet : wallet[a] \in range
      /\ \A a \in Accounts :
           /\ booked[a] \in range
           /\ \A f \in DOMAIN lockers[a] : lockers[a][f] \in range

-----------------------------------------------------------------------------
\* Mutant: the lock's old amount stays in the total.
LockSetKeepsOld(a, k, coins, flag) ==
  LET h == lockers[a]
  IN  /\ Has(h, k) => flag # {}
      /\ lockers' = [lockers EXCEPT ![a] = HIncrBy(HSet(h, k, coins), TotalKey, coins)]
      /\ issued' = issued + coins
      /\ Strictly(coins, {})
      /\ UNCHANGED <<wallet, booked, foreign, looped>>
      /\ Bounded'

(* lockSetScript.  Every flag but accumulation overwrites the lock.         *)
LockSet(a, k, coins, flag) ==
  LET h    == lockers[a]
      adds == Has(h, k) /\ "accumulation" \in flag
      incr == IF adds THEN coins ELSE coins - HGet(h, k)
  IN  /\ Has(h, k) => flag # {}
      /\ lockers' = [lockers EXCEPT ![a] =
                       HIncrBy(HSet(h, k, HGet(h, k) + incr), TotalKey, incr)]
      /\ issued' = issued + incr
      /\ Strictly(coins, {})
      /\ UNCHANGED <<wallet, booked, foreign, looped>>
      /\ Bounded'

(* lockRemoveScript *)
LockRemove(a, k) ==
  LET h == lockers[a]
  IN  /\ Has(h, k)
      /\ lockers' = [lockers EXCEPT ![a] = HDel(HIncrBy(h, TotalKey, -h[k]), k)]
      /\ issued' = issued - h[k]
      /\ UNCHANGED <<wallet, booked, strict, foreign, looped>>
      /\ Bounded'

(* lockTransferScript: first everything of the receiver's, then everything  *)
(* of the giver's, which may be the same hash and the same field.           *)
LockTransfer(from, fromKey, to, toKey, flag) ==
  LET n     == lockers[from][fromKey]
      given == [lockers EXCEPT ![to] = HIncrBy(HIncrBy(@, toKey, n), TotalKey, n)]
  IN  /\ Has(lockers[from], fromKey)
      /\ Has(lockers[to], toKey) => flag = {"accumulation"}
      /\ lockers' = [given EXCEPT ![from] = HIncrBy(HDel(@, fromKey), TotalKey, -n)]
      /\ looped' = IF <<from, fromKey>> = <<to, toKey>> THEN looped \cup {from} ELSE looped
      /\ UNCHANGED <<wallet, booked, issued, strict, foreign>>
      /\ Bounded'

\* Mutant: any account is good for any amount.
AffordsAny(a, coins, flag) == TRUE

\* The wallet has the coins, or may go below zero.
Affords(a, coins, flag) ==
  \/ Has(wallet, a) /\ wallet[a] >= coins
  \/ "negative" \in flag

\* walletTrans2LockerScript; coins may be negative.
WalletToLocker(a, coins, to, key, flag) ==
  /\ Affords(a, coins, flag)
  /\ Has(lockers[to], key) => "accumulation" \in flag
  /\ lockers' = [lockers EXCEPT ![to] = HIncrBy(HIncrBy(@, key, coins), TotalKey, coins)]
  /\ wallet' = HIncrBy(wallet, a, -coins)
  /\ booked' = [booked EXCEPT ![a] = @ - coins]
  /\ Strictly(coins, flag)
  /\ UNCHANGED <<issued, foreign, looped>>
  /\ Bounded'

\* Mutant: the receiver's balance is computed before the giver's is written.
WalletToWalletStale(a, coins, to, flag) ==
  /\ coins > 0
  /\ Affords(a, coins, flag)
  /\ wallet' = [HIncrBy(HIncrBy(wallet, a, -coins), to, 0) EXCEPT
                  ![to] = HGet(wallet, to) + coins]
  /\ booked' = [[booked EXCEPT ![a] = @ - coins] EXCEPT ![to] = @ + coins]
  /\ Strictly(coins, flag)
  /\ UNCHANGED <<lockers, issued, foreign, looped>>
  /\ Bounded'

\* walletTrans2WalletScript
WalletToWallet(a, coins, to, flag) ==
  /\ coins > 0
  /\ Affords(a, coins, flag)
  /\ wallet' = HIncrBy(HIncrBy(wallet, a, -coins), to, coins)
  /\ booked' = [[booked EXCEPT ![a] = @ - coins] EXCEPT ![to] = @ + coins]
  /\ Strictly(coins, flag)
  /\ UNCHANGED <<lockers, issued, foreign, looped>>
  /\ Bounded'

\* Mutant: the script pays out what the locker holds, not the lock.
LockerToWalletTotal(a, key, to) ==
  /\ Has(lockers[a], key)
  /\ wallet' = HIncrBy(wallet, to, HGet(lockers[a], TotalKey))
  /\ lockers' = [lockers EXCEPT ![a] = HIncrBy(HDel(@, key), TotalKey, -lockers[a][key])]
  /\ booked' = [booked EXCEPT ![a] = @ + lockers[a][key]]
  /\ foreign' = IF to = a THEN foreign ELSE foreign \cup {a, to}
  /\ UNCHANGED <<issued, strict, looped>>
  /\ Bounded'

(* lockerTrans2WalletScript: the wallet of "to" gets the coins, the history *)
(* of the locker's account gets the entry.                                  *)
LockerToWallet(a, key, to) ==
  LET n == lockers[a][key]
  IN  /\ Has(lockers[a], key)
      /\ wallet' = HIncrBy(wallet, to, n)
      /\ lockers' = [lockers EXCEPT ![a] = HIncrBy(HDel(@, key), TotalKey, -n)]
      /\ booked' = [booked EXCEPT ![a] = @ + n]
      /\ foreign' = IF to = a THEN foreign ELSE foreign \cup {a, to}
      /\ UNCHANGED <<issued, strict, looped>>
      /\ Bounded'

-----------------------------------------------------------------------------
Init ==
  /\ wallet = NoFields
  /\ lockers = [a \in Accounts |-> NoFields]
  /\ booked = [a \in Accounts |-> 0]
  /\ issued = 0
  /\ strict = TRUE
  /\ foreign = {}
  /\ looped = {}

LockerStep(a, k) ==
  \/ \E coins \in Amounts, flag \in Flags : LockSet(a, k, coins, flag)
  \/ LockRemove(a, k)
  \/ \E to \in Accounts, toKey \in Keys, flag \in Flags :
       LockTransfer(a, k, to, toKey, flag)
  \/ \E to \in Accounts : LockerToWallet(a, k, to)

WalletStep(a) ==
  \E to \in Accounts, coins \in Amounts, flag \in Flags :
    \/ \E key \in Keys : WalletToLocker(a, coins, to, key, flag)
    \/ WalletToWallet(a, coins, to, flag)

Next ==
  \E a \in Accounts : WalletStep(a) \/ (\E k \in Keys : LockerStep(a, k))

Spec == Init /\ [][Next]_vars

-----------------------------------------------------------------------------
Locks(a) == DOMAIN lockers[a] \ {TotalKey}

\* The sum of the fields F of hash h.
SumOver(h, F) == SumFunctionOnSet(h, F)

(* GetTotal is the sum of the account's locks, whatever was set, removed,   *)
(* overwritten, accumulated and transferred, to the same account too,       *)
(* unless a lock was transferred onto itself: the script deletes it after   *)
(* it has added to it, and takes only half of that off the total.           *)
TotalIsSum ==
  \A a \in Accounts \ looped : HGet(lockers[a], TotalKey) = SumOver(lockers[a], Locks(a))

(* Transfers neither make nor lose coins: what wallets and locks hold is    *)
(* what was set on locks less what was removed with them, unless a lock was *)
(* transferred onto itself.                                                 *)
CoinsConserved ==
  \/ looped # {}
  \/ SumOver(wallet, DOMAIN wallet)
       + SumFunction([a \in Accounts |-> SumOver(lockers[a], Locks(a))]) = issued

(* An account's wallet is the sum of the amounts in its history, unless a   *)
(* lock was paid past it: the script credits one account and writes the     *)
(* history of another.                                                      *)
HistoryExplainsWallet ==
  \A a \in Accounts \ foreign : HGet(wallet, a) = booked[a]

(* As long as amounts are not negative and nobody allows negative balances, *)
(* nobody has spent what he did not have, and no lock holds less than       *)
(* nothing, whatever was moved between wallets and locks.                   *)
NoOverdraft ==
  strict =>
    /\ \A a \in DOMAIN wallet : wallet[a] >= 0
    /\ \A a \in Accounts : \A f \in DOMAIN lockers[a] : lockers[a][f] >= 0
=============================================================================
