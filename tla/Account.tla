------------------------------ MODULE Account ------------------------------
(***************************************************************************)
(* The account service, account/account.go and token.go, over one of its   *)
(* storages.  Callers log in, look who a token belongs to and write        *)
(* properties with it at the same time; these calls, and a rename in       *)
(* files, are cut where another call can come between two accesses to the  *)
(* storage.  The process may be restarted, which loses the calls under way *)
(* and, of the file storage, what is only in memory.                       *)
(***************************************************************************)
EXTENDS AccountStorage

CONSTANTS
  Callers,
  MaxTokens \* bound on the tokens there are

ASSUME AccountAssumption == MaxTokens \in Nat

VARIABLES
  calls,   \* what each caller is at
  granted, \* history: tokens that were handed out and not logged out, and
           \* until when they were to be good
  renamed  \* history: accounts that had another name before

storage == <<kind, accounts, ids, tokens, lastClean, props, now>>
vars == <<storage, calls, granted, renamed>>

Idle == [op |-> "idle"]
Logins == [op : {"find", "set", "token"}, uid : Uids, name : Names]
Renames == [op : {"rename"}, uid : Uids, name : Names]
Uses == [op : {"check", "write"}, token : Token]

\* A rename holds the lock of the accounts between its two steps.
Unlocked == \A c \in Callers : calls[c].op # "rename"

Goes(c, call) == calls' = [calls EXCEPT ![c] = call]

TypeOK ==
  /\ kind \in {"file", "redis"}
  /\ accounts \in [Uids -> Accounts \cup {None}]
  /\ ids \in [Names -> Uids \cup {None}]
  /\ tokens \in [DOMAIN tokens -> 0 .. (MaxNow + 1)] /\ DOMAIN tokens \subseteq Token
  /\ lastClean \in {Never} \cup 0 .. MaxNow
  /\ props \in [Uids -> Uids]
  /\ now \in 0 .. MaxNow
  /\ calls \in [Callers -> {Idle} \cup Logins \cup Renames \cup Uses]
  /\ \A c \in Callers : calls[c].op = "rename" => Known(calls[c].uid)
  /\ granted \in [DOMAIN granted -> 0 .. (MaxNow + 1)] /\ DOMAIN granted \subseteq Token
  /\ renamed \subseteq Uids

Init ==
  /\ StorageInit
  /\ calls = [c \in Callers |-> Idle]
  /\ granted = <<>>
  /\ renamed = {}
-----------------------------------------------------------------------------
\* Calls of one step.

\* An account with no password can only be added through the storage.
Register(u, n, pass) ==
  /\ Unlocked
  /\ AddAccountEx(u, n, pass)
  /\ UNCHANGED <<kind, tokens, lastClean, props, now, calls, granted, renamed>>

\* ChangePassword, and ResetPassword, which finds u by its name.
ChangePassword(u) ==
  /\ Unlocked
  /\ SetHashedPassword(u)
  /\ UNCHANGED <<kind, ids, tokens, lastClean, props, now, calls, granted, renamed>>

ChangeConfig(u, c) ==
  /\ Unlocked
  /\ SetAdvanceConfig(u, c)
  /\ UNCHANGED <<kind, ids, tokens, lastClean, props, now, calls, granted, renamed>>

WriteByUserID(u) ==
  /\ SetPropertyDataByUserID(u, u)
  /\ UNCHANGED <<kind, accounts, ids, tokens, lastClean, now, calls, granted, renamed>>

Logout(t) ==
  /\ DelToken(t)
  /\ granted' = Restrict(granted, DOMAIN granted \ {t})
  /\ UNCHANGED <<kind, accounts, ids, props, now, calls, renamed>>
-----------------------------------------------------------------------------
\* RenameAccountName.

RenameBegin(c, u, n) ==
  /\ InFile
  /\ Unlocked /\ calls[c] = Idle
  /\ RenameDelete(u, n)
  /\ Goes(c, [op |-> "rename", uid |-> u, name |-> n])
  /\ UNCHANGED <<kind, accounts, tokens, lastClean, props, now, granted, renamed>>

RenameEnd(c) ==
  /\ calls[c].op = "rename"
  /\ RenameStore(calls[c].uid, calls[c].name)
  /\ renamed' = renamed \cup {calls[c].uid}
  /\ Goes(c, Idle)
  /\ UNCHANGED <<kind, tokens, lastClean, props, now, granted>>

RenameInRedis(u, n) ==
  /\ InRedis
  /\ RenameField(u, n)
  /\ renamed' = IF accounts[u].name = n THEN renamed ELSE renamed \cup {u}
  /\ UNCHANGED <<kind, ids, tokens, lastClean, props, now, calls, granted>>
-----------------------------------------------------------------------------
\* Login.

LoginFind(c, n) ==
  /\ calls[c] = Idle
  /\ ids[n] # None
  /\ Cardinality(DOMAIN tokens \cup DOMAIN granted) < MaxTokens \* no login in vain
  /\ Goes(c, [op |-> "find", uid |-> ids[n], name |-> n])
  /\ UNCHANGED <<storage, granted, renamed>>

\* Where there is no password the one given becomes it; a given one is right
\* or wrong.
LoginRead(c) ==
  LET call == calls[c] IN
  /\ call.op = "find"
  /\ Unlocked
  /\ \/ /\ ~accounts[call.uid].pass
        /\ Goes(c, [call EXCEPT !.op = "set"])
     \/ /\ accounts[call.uid].pass
        /\ Goes(c, [call EXCEPT !.op = "token"])
     \/ /\ accounts[call.uid].pass
        /\ Goes(c, Idle)
  /\ UNCHANGED <<storage, granted, renamed>>

LoginSet(c) ==
  /\ calls[c].op = "set"
  /\ Unlocked
  /\ SetHashedPassword(calls[c].uid)
  /\ Goes(c, [calls[c] EXCEPT !.op = "token"])
  /\ UNCHANGED <<kind, ids, tokens, lastClean, props, now, granted, renamed>>

TokenNew(c) == [uid |-> calls[c].uid, name |-> calls[c].name, at |-> now]

LoginToken(c) ==
  LET token == TokenNew(c)
      expiredAt == Later(now, LifeOfToken(token.uid))
  IN
  /\ calls[c].op = "token"
  /\ Unlocked
  /\ ~ConfigMissing(token.uid)
  /\ Cardinality(DOMAIN tokens \cup DOMAIN granted \cup {token}) <= MaxTokens
  /\ AddToken(token, expiredAt)
  /\ granted' = Put(granted, token, expiredAt)
  /\ Goes(c, Idle)
  /\ UNCHANGED <<kind, accounts, ids, props, now, renamed>>

\* Without a configuration in Redis, or for the second token of one second
\* in files, the login fails.
LoginFails(c) ==
  /\ calls[c].op = "token"
  /\ Unlocked
  /\ ConfigMissing(calls[c].uid) \/ (InFile /\ TokenNew(c) \in DOMAIN tokens)
  /\ Goes(c, Idle)
  /\ UNCHANGED <<storage, granted, renamed>>
-----------------------------------------------------------------------------
\* Who, and SetPropertyData, which asks who first and goes on to write if the
\* token was found.

\* In files a check that only answers, or finds nothing, does no more than clean.
CheckOnly ==
  /\ InFile
  /\ CleanIfDue
  /\ UNCHANGED <<kind, accounts, ids, props, now, calls, granted, renamed>>

CheckBegin(c, t) ==
  /\ InFile
  /\ calls[c] = Idle
  /\ Goes(c, [op |-> "check", token |-> t])
  /\ UNCHANGED <<storage, granted, renamed>>

CheckEnd(c) ==
  /\ calls[c].op = "check"
  /\ CleanIfDue
  /\ Goes(c, [calls[c] EXCEPT !.op = "write"])
  /\ UNCHANGED <<kind, accounts, ids, props, now, granted, renamed>>

CheckInRedis(c, t, write) ==
  /\ InRedis
  /\ calls[c] = Idle
  /\ Renew(t)
  /\ Goes(c, IF write THEN [op |-> "write", token |-> t] ELSE Idle)
  /\ UNCHANGED <<kind, accounts, ids, props, now, granted, renamed>>

\* The name in the token is looked up, which may be somebody else's by now.
Write(c) ==
  /\ calls[c].op = "write"
  /\ LET token == calls[c].token IN
       \/ SetPropertyData(token.name, token.uid)
       \/ ids[token.name] = None /\ UNCHANGED props
  /\ Goes(c, Idle)
  /\ UNCHANGED <<kind, accounts, ids, tokens, lastClean, now, granted, renamed>>
-----------------------------------------------------------------------------
\* Time, and restarts.

Tick ==
  /\ now < MaxNow
  /\ now' = now + 1
  /\ Expire
  /\ granted' = Restrict(granted, {t \in DOMAIN granted : now' < granted[t]})
  /\ UNCHANGED <<kind, accounts, ids, lastClean, props, calls, renamed>>

Restart ==
  /\ calls' = [c \in Callers |-> Idle]
  /\ ids' = IF InFile THEN Index ELSE ids
  /\ lastClean' = Never
  /\ UNCHANGED <<kind, accounts, tokens, props, now, granted, renamed>>

Next ==
  \/ \E u \in Uids, n \in Names, pass \in BOOLEAN : Register(u, n, pass)
  \/ \E u \in Uids, c \in Lives \cup {None} : ChangeConfig(u, c)
  \/ \E u \in Uids : ChangePassword(u) \/ WriteByUserID(u)
  \/ \E t \in DOMAIN tokens : Logout(t)
  \/ \E c \in Callers, u \in Uids, n \in Names : RenameBegin(c, u, n)
  \/ \E u \in Uids, n \in Names : RenameInRedis(u, n)
  \/ \E c \in Callers, n \in Names : LoginFind(c, n)
  \/ CheckOnly
  \/ \E c \in Callers, t \in DOMAIN tokens : CheckBegin(c, t)
  \/ \E c \in Callers, t \in DOMAIN tokens, write \in BOOLEAN : CheckInRedis(c, t, write)
  \/ \E c \in Callers :
       \/ RenameEnd(c)
       \/ LoginRead(c) \/ LoginSet(c) \/ LoginToken(c) \/ LoginFails(c)
       \/ CheckEnd(c) \/ Write(c)
  \/ Tick
  \/ Restart

Spec == Init /\ [][Next]_vars
-----------------------------------------------------------------------------
\* Correctness.

\* Names and accounts lead to each other: an account is found by its name, and
\* a name leads to an account, which in files is the one that bears it; never
\* to two, in whatever order registrations, renames, lookups and restarts come
\* (AddAccountEx, RenameAccountName, init).  In Redis a renamed account is not
\* found by its new name; the old name still leads to it.
NamesLeadBack ==
  Unlocked =>
    /\ \A u \in Uids : Known(u) /\ (InRedis => u \notin renamed) => ids[accounts[u].name] = u
    /\ \A n \in Names : ids[n] # None =>
         Known(ids[n]) /\ (InFile => accounts[ids[n]].name = n)

\* What is written with a token is written to the account that logged in,
\* though the service goes by the name in the token (SetPropertyData); only in
\* files, and only of an account that gave its name up, may it end elsewhere.
PropertyStays ==
  \A u \in Uids : props[u] \in {u} \cup (IF InFile THEN renamed ELSE {})

\* Until its time is up a token is accepted, whatever other sessions do:
\* logins and logouts that clean, checks that renew, restarts (AddToken,
\* DelToken, TokenExists).
TokensLive == \A t \in DOMAIN granted : now < granted[t] => t \in DOMAIN tokens

\* When a check returns, no token is left whose time was up an hour ago: what
\* earlier ones have not cleaned this one has (TokenExists).
LateTokensEnd ==
  [][CheckOnly \/ (\E c \in Callers : CheckEnd(c)) =>
       \A t \in DOMAIN tokens' : tokens'[t] >= now - CleanEvery]_vars
=============================================================================
