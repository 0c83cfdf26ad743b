--------------------------- MODULE AccountStorage ---------------------------
(***************************************************************************)
(* What is kept of accounts, and the operations on it: the storage in      *)
(* files, account/impls/fmaccountstorage/storage.go, and the one in Redis, *)
(* account/impls/redisimpls, which have the same interface.  A behaviour   *)
(* has one of the two kinds.                                               *)
(*                                                                         *)
(* A change of the file storage runs under the lock of its map and is in   *)
(* the file when the lock is given back; a script runs in Redis at one     *)
(* stroke.  The index of names of the file storage is a map of its own,    *)
(* which lookups read without the lock.                                    *)
(***************************************************************************)
EXTENDS Integers, FiniteSets, Functions

CONSTANTS
  None,              \* nothing: no account, no configuration, nobody
  Uids,
  Names,
  Lives,             \* values for AdvanceConfig.TokenExpiresAfter
  TokenExpiresAfter,
  AutoRenewDuration,
  CleanEvery,        \* the hour between two cleanings of a check
  MaxNow             \* bound on the clock

\* Of a password only whether there is one is kept.
Accounts == [name : Names, pass : BOOLEAN, cfg : Lives \cup {None}]

\* A token signs these; at is the second in which it is issued.
Token == [uid : Uids, name : Names, at : 0 .. MaxNow]

ASSUME AccountStorageAssumption ==
  /\ None \notin Uids \cup Accounts \cup Token
  /\ Lives \subseteq Nat
  /\ TokenExpiresAfter \in Nat \ {0}
  /\ AutoRenewDuration \in Nat
  /\ CleanEvery \in Nat \ {0}
  /\ MaxNow \in Nat

VARIABLES
  kind,      \* "file" or "redis"
  accounts,  \* accountStorage, the hashes uid:*
  ids,       \* accountName2UserID, the keys un:*
  tokens,    \* tokenStorage, the keys utk:* : when each token expires
  lastClean, \* lastCleanExpiredTokenAt
  props,     \* accountPropertyStorage, property_data: whose data it is
  now

InFile == kind = "file"
InRedis == kind = "redis"

\* The zero time, longer ago than any cleaning.
Never == 0 - CleanEvery - 1

\* Times beyond the clock's bound are not told apart.
Later(t, d) == IF t + d > MaxNow THEN MaxNow + 1 ELSE t + d

Known(u) == accounts[u] # None
-----------------------------------------------------------------------------
\* Accounts and names.

\* Mutant: does not look whether the name is taken.
AddAccountExAnyName(u, n, pass) ==
  /\ ~Known(u)
  /\ accounts' = [accounts EXCEPT ![u] = [name |-> n, pass |-> pass, cfg |-> None]]
  /\ ids' = [ids EXCEPT ![n] = u]

AddAccountEx(u, n, pass) ==
  /\ ids[n] = None /\ ~Known(u)
  /\ accounts' = [accounts EXCEPT ![u] = [name |-> n, pass |-> pass, cfg |-> None]]
  /\ ids' = [ids EXCEPT ![n] = u]

SetHashedPassword(u) ==
  /\ Known(u)
  /\ accounts' = [accounts EXCEPT ![u].pass = TRUE]

SetAdvanceConfig(u, c) ==
  /\ Known(u)
  /\ accounts' = [accounts EXCEPT ![u].cfg = c]

\* Redis has no field adv_cfg, or an empty one, where none was set.
ConfigMissing(u) == InRedis /\ accounts[u].cfg = None

LifeOfToken(u) == IF accounts[u].cfg \in Lives \ {0} THEN accounts[u].cfg ELSE TokenExpiresAfter

\* Mutant: the old name stays on the index.
RenameDeleteNothing(u, n) ==
  /\ Known(u)
  /\ accounts[u].name # n
  /\ ids[n] = None
  /\ UNCHANGED ids

\* In files a rename takes the old name off the index, and then puts the new one on.
RenameDelete(u, n) ==
  /\ Known(u)
  /\ accounts[u].name # n
  /\ ids[n] = None
  /\ ids' = [ids EXCEPT ![accounts[u].name] = None]

RenameStore(u, n) ==
  /\ ids' = [ids EXCEPT ![n] = u]
  /\ accounts' = [accounts EXCEPT ![u].name = n]

\* In Redis only the account's field is set.
RenameField(u, n) ==
  /\ Known(u)
  /\ accounts' = [accounts EXCEPT ![u].name = n]

\* The index that init makes of the accounts.
Index ==
  [n \in Names |-> IF \E u \in Uids : Known(u) /\ accounts[u].name = n
                   THEN CHOOSE u \in Uids : Known(u) /\ accounts[u].name = n
                   ELSE None]
-----------------------------------------------------------------------------
\* Tokens.

Put(f, x, y) == [z \in DOMAIN f \cup {x} |-> IF z = x THEN y ELSE f[z]]

Cleaned == Restrict(tokens, {t \in DOMAIN tokens : now <= tokens[t]})

AddToken(t, expiredAt) ==
  \/ /\ InFile
     /\ t \notin DOMAIN tokens
     /\ tokens' = Put(Cleaned, t, expiredAt)
     /\ lastClean' = now
  \/ /\ InRedis
     /\ tokens' = Put(tokens, t, expiredAt)
     /\ UNCHANGED lastClean

DelToken(t) ==
  /\ t \in DOMAIN tokens
  /\ \/ /\ InFile
        /\ tokens' = Restrict(Cleaned, DOMAIN Cleaned \ {t})
        /\ lastClean' = now
     \/ /\ InRedis
        /\ tokens' = Restrict(tokens, DOMAIN tokens \ {t})
        /\ UNCHANGED lastClean

\* Mutant: cleans only once.
CleanIfNever ==
  \/ /\ lastClean = Never
     /\ tokens' = Cleaned
     /\ lastClean' = now
  \/ /\ lastClean # Never
     /\ UNCHANGED <<tokens, lastClean>>

\* TokenExists of the file storage, after it has looked the token up: the
\* time of the last cleaning is read without the lock.  The renewal before it
\* asserts another type than the map holds, and changes nothing.
CleanIfDue ==
  \/ /\ now - lastClean > CleanEvery
     /\ tokens' = Cleaned
     /\ lastClean' = now
  \/ /\ now - lastClean <= CleanEvery
     /\ UNCHANGED <<tokens, lastClean>>

\* Mutant: the renewal takes the place of what is left.
RenewFromNow(t) ==
  /\ t \in DOMAIN tokens
  /\ tokens' = [tokens EXCEPT ![t] = Later(now, AutoRenewDuration)]
  /\ UNCHANGED lastClean

\* TokenExists of Redis: every call adds to what is left.
Renew(t) ==
  /\ t \in DOMAIN tokens
  /\ tokens' = [tokens EXCEPT ![t] = Later(@, AutoRenewDuration)]
  /\ UNCHANGED lastClean

\* Redis drops a key when its time is up.
Expire == tokens' = IF InRedis THEN Restrict(tokens, {t \in DOMAIN tokens : tokens[t] > now'}) ELSE tokens
-----------------------------------------------------------------------------
\* Properties.  Redis looks for the account first.

SetPropertyDataByUserID(u, d) ==
  /\ InRedis => Known(u)
  /\ props' = [props EXCEPT ![u] = d]

SetPropertyData(n, d) ==
  /\ ids[n] # None
  /\ SetPropertyDataByUserID(ids[n], d)
-----------------------------------------------------------------------------
StorageInit ==
  /\ kind \in {"file", "redis"}
  /\ accounts = [u \in Uids |-> None]
  /\ ids = [n \in Names |-> None]
  /\ tokens = <<>>
  /\ lastClean = Never
  /\ props = [u \in Uids |-> u]
  /\ now = 0
=============================================================================
