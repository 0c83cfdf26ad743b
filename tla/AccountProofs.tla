--------------------------- MODULE AccountProofs ---------------------------
(***************************************************************************)
(* Proofs about the account service, for every set of accounts, names and  *)
(* callers, all durations and every bound.                                 *)
(***************************************************************************)
EXTENDS Account, TLAPS

(* A time that is put off stays within the bound and is not earlier. *)
LEMMA LaterOn ==
  ASSUME NEW t \in 0 .. (MaxNow + 1), NEW d \in Nat
  PROVE  /\ Later(t, d) \in 0 .. (MaxNow + 1)
         /\ t <= Later(t, d)
         /\ t <= MaxNow /\ d > 0 => t < Later(t, d)
BY AccountStorageAssumption DEF Later

(* Tokens live for some time. *)
LEMMA LifeOfTokenPositive == ASSUME NEW u \in Uids PROVE LifeOfToken(u) \in Nat \ {0}
BY AccountStorageAssumption DEF LifeOfToken

(* What the map of tokens is after a cleaning, by its old self. *)
LEMMA CleanedMap ==
  ASSUME TypeOK
  PROVE  /\ DOMAIN Cleaned = {t \in DOMAIN tokens : now <= tokens[t]}
         /\ Cleaned \in [DOMAIN Cleaned -> 0 .. (MaxNow + 1)]
         /\ \A t \in DOMAIN Cleaned : Cleaned[t] = tokens[t]
BY DEF Cleaned, Restrict, TypeOK

(* And after an addition. *)
LEMMA AddTokenMap ==
  ASSUME TypeOK, NEW t \in Token, NEW e \in 0 .. (MaxNow + 1), AddToken(t, e)
  PROVE  /\ DOMAIN tokens' \subseteq DOMAIN tokens \cup {t}
         /\ tokens' \in [DOMAIN tokens' -> 0 .. (MaxNow + 1)]
         /\ t \in DOMAIN tokens' /\ tokens'[t] = e
         /\ \A x \in DOMAIN tokens' \ {t} : tokens'[x] = tokens[x]
         /\ \A x \in DOMAIN tokens : now <= tokens[x] => x \in DOMAIN tokens'
         /\ \/ lastClean' = now /\ InFile /\ \A x \in DOMAIN tokens' \ {t} : now <= tokens'[x]
            \/ lastClean' = lastClean /\ InRedis
<1>1. CASE InFile /\ t \notin DOMAIN tokens /\ tokens' = Put(Cleaned, t, e) /\ lastClean' = now
  <2>1. /\ DOMAIN tokens' = DOMAIN Cleaned \cup {t}
        /\ tokens' \in [DOMAIN Cleaned \cup {t} -> 0 .. (MaxNow + 1)]
        /\ tokens'[t] = e
        /\ \A z \in DOMAIN Cleaned \ {t} : tokens'[z] = Cleaned[z]
    BY <1>1, CleanedMap DEF Put
  <2> QED BY <1>1, <2>1, CleanedMap
<1>2. CASE InRedis /\ tokens' = Put(tokens, t, e) /\ UNCHANGED lastClean
  <2>1. /\ DOMAIN tokens' = DOMAIN tokens \cup {t}
        /\ tokens' \in [DOMAIN tokens \cup {t} -> 0 .. (MaxNow + 1)]
        /\ tokens'[t] = e
        /\ \A z \in DOMAIN tokens \ {t} : tokens'[z] = tokens[z]
    BY <1>2 DEF Put, TypeOK
  <2> QED BY <1>2, <2>1
<1> QED BY <1>1, <1>2 DEF AddToken

(* And after a deletion. *)
LEMMA DelTokenMap ==
  ASSUME TypeOK, NEW t, DelToken(t)
  PROVE  /\ DOMAIN tokens' \subseteq DOMAIN tokens
         /\ tokens' \in [DOMAIN tokens' -> 0 .. (MaxNow + 1)]
         /\ \A x \in DOMAIN tokens' : tokens'[x] = tokens[x]
         /\ \A x \in DOMAIN tokens \ {t} : now <= tokens[x] => x \in DOMAIN tokens'
         /\ \/ lastClean' = now /\ \A x \in DOMAIN tokens' : now <= tokens'[x]
            \/ lastClean' = lastClean
<1>1. CASE tokens' = Restrict(Cleaned, DOMAIN Cleaned \ {t}) /\ lastClean' = now
  <2>1. /\ DOMAIN tokens' = DOMAIN Cleaned \ {t}
        /\ tokens' \in [DOMAIN Cleaned \ {t} -> 0 .. (MaxNow + 1)]
        /\ \A z \in DOMAIN Cleaned \ {t} : tokens'[z] = Cleaned[z]
    BY <1>1, CleanedMap DEF Restrict
  <2> QED BY <1>1, <2>1, CleanedMap
<1>2. CASE tokens' = Restrict(tokens, DOMAIN tokens \ {t}) /\ UNCHANGED lastClean
  <2>1. /\ DOMAIN tokens' = DOMAIN tokens \ {t}
        /\ tokens' \in [DOMAIN tokens \ {t} -> 0 .. (MaxNow + 1)]
        /\ \A z \in DOMAIN tokens \ {t} : tokens'[z] = tokens[z]
    BY <1>2 DEF Restrict, TypeOK
  <2> QED BY <1>2, <2>1
<1> QED BY <1>1, <1>2 DEF DelToken

(* A cleaning that may be due takes away late tokens only. *)
LEMMA CleanIfDueMap ==
  ASSUME TypeOK, CleanIfDue
  PROVE  /\ DOMAIN tokens' \subseteq DOMAIN tokens
         /\ tokens' \in [DOMAIN tokens' -> 0 .. (MaxNow + 1)]
         /\ \A x \in DOMAIN tokens' : tokens'[x] = tokens[x]
         /\ \A x \in DOMAIN tokens : now <= tokens[x] => x \in DOMAIN tokens'
         /\ \/ lastClean' = now /\ \A x \in DOMAIN tokens' : now <= tokens'[x]
            \/ UNCHANGED <<tokens, lastClean>> /\ now - lastClean <= CleanEvery
BY CleanedMap DEF CleanIfDue, TypeOK

(* Time in Redis takes away the tokens whose end has come. *)
LEMMA ExpireMap ==
  ASSUME TypeOK, now' \in Nat, Expire
  PROVE  /\ DOMAIN tokens' \subseteq DOMAIN tokens
         /\ tokens' \in [DOMAIN tokens' -> 0 .. (MaxNow + 1)]
         /\ \A x \in DOMAIN tokens' : tokens'[x] = tokens[x]
         /\ \A x \in DOMAIN tokens : now' < tokens[x] => x \in DOMAIN tokens'
<1> DEFINE R == {t \in DOMAIN tokens : tokens[t] > now'}
<1>1. CASE InRedis
  <2>1. tokens' = Restrict(tokens, R) BY <1>1 DEF Expire
  <2>2. /\ DOMAIN tokens' = R
        /\ tokens' \in [R -> 0 .. (MaxNow + 1)]
        /\ \A z \in R : tokens'[z] = tokens[z]
    BY <2>1 DEF Restrict, TypeOK
  <2> QED BY <2>2, AccountStorageAssumption DEF TypeOK
<1>2. CASE ~InRedis BY <1>2 DEF Expire, TypeOK
<1> QED BY <1>1, <1>2

(* What a call in each of its steps remembers. *)
LEMMA CallTypes ==
  ASSUME TypeOK, NEW c \in Callers
  PROVE  /\ calls[c].op = "rename" => calls[c] \in Renames /\ calls[c].uid \in Uids /\ calls[c].name \in Names
         /\ calls[c].op \in {"find", "set", "token"} =>
              calls[c] \in Logins /\ calls[c].uid \in Uids /\ calls[c].name \in Names
         /\ calls[c].op \in {"check", "write"} => calls[c] \in Uses /\ calls[c].token \in Token
BY DEF TypeOK, Idle, Logins, Renames, Uses

-----------------------------------------------------------------------------
(* The types are kept. *)
LEMMA TypesKept == TypeOK /\ [Next]_vars => TypeOK'
<1> SUFFICES ASSUME TypeOK, [Next]_vars PROVE TypeOK'
  OBVIOUS
<1> USE AccountStorageAssumption DEF Known
<1>1. ASSUME NEW u \in Uids, NEW n \in Names, NEW pass \in BOOLEAN, Register(u, n, pass)
      PROVE  TypeOK'
  BY <1>1 DEF Register, AddAccountEx, TypeOK, Accounts
<1>2. ASSUME NEW u \in Uids, NEW c \in Lives \cup {None}, ChangeConfig(u, c) PROVE TypeOK'
  BY <1>2 DEF ChangeConfig, SetAdvanceConfig, TypeOK, Accounts
<1>3. ASSUME NEW u \in Uids, ChangePassword(u) PROVE TypeOK'
  <2>1. /\ accounts' \in [Uids -> Accounts \cup {None}]
        /\ \A x \in Uids : Known(x) => accounts'[x] # None
    BY <1>3 DEF ChangePassword, SetHashedPassword, TypeOK, Accounts
  <2> QED BY <1>3, <2>1, CallTypes DEF ChangePassword, TypeOK
<1>4. ASSUME NEW u \in Uids, WriteByUserID(u) PROVE TypeOK'
  BY <1>4 DEF WriteByUserID, SetPropertyDataByUserID, TypeOK
<1>5. ASSUME NEW t \in DOMAIN tokens, Logout(t) PROVE TypeOK'
  <2>1. granted' \in [DOMAIN granted' -> 0 .. (MaxNow + 1)] /\ DOMAIN granted' \subseteq Token
    BY <1>5 DEF Logout, Restrict, TypeOK
  <2>2. /\ tokens' \in [DOMAIN tokens' -> 0 .. (MaxNow + 1)]
        /\ DOMAIN tokens' \subseteq Token
        /\ lastClean' \in {Never} \cup 0 .. MaxNow
    BY <1>5, DelTokenMap DEF Logout, TypeOK
  <2> QED BY <1>5, <2>1, <2>2 DEF Logout, TypeOK
<1>6. ASSUME NEW c \in Callers, NEW u \in Uids, NEW n \in Names, RenameBegin(c, u, n)
      PROVE  TypeOK'
  BY <1>6 DEF RenameBegin, RenameDelete, Goes, Renames, TypeOK
<1>7. ASSUME NEW u \in Uids, NEW n \in Names, RenameInRedis(u, n) PROVE TypeOK'
  BY <1>7 DEF RenameInRedis, RenameField, TypeOK, Accounts
<1>8. ASSUME NEW c \in Callers, NEW n \in Names, LoginFind(c, n) PROVE TypeOK'
  BY <1>8 DEF LoginFind, Goes, Logins, storage, TypeOK
<1>9. ASSUME NEW c \in Callers, NEW t \in DOMAIN tokens, CheckBegin(c, t)
      PROVE  TypeOK'
  BY <1>9 DEF CheckBegin, Goes, Uses, storage, TypeOK
<1>10. ASSUME NEW c \in Callers, NEW t \in DOMAIN tokens, NEW write \in BOOLEAN,
              CheckInRedis(c, t, write)
       PROVE  TypeOK'
  <2>1. tokens' \in [DOMAIN tokens' -> 0 .. (MaxNow + 1)] /\ DOMAIN tokens' = DOMAIN tokens
    BY <1>10, LaterOn DEF CheckInRedis, Renew, TypeOK
  <2>2. /\ calls' \in [Callers -> {Idle} \cup Logins \cup Renames \cup Uses]
        /\ \A x \in Callers : calls'[x].op = "rename" => calls'[x] = calls[x]
    BY <1>10 DEF CheckInRedis, Goes, Idle, Uses, TypeOK
  <2> QED BY <1>10, <2>1, <2>2 DEF CheckInRedis, Renew, TypeOK
<1>11. ASSUME NEW c \in Callers, RenameEnd(c) PROVE TypeOK'
  <2>1. calls[c].uid \in Uids /\ calls[c].name \in Names /\ accounts[calls[c].uid] \in Accounts
    BY <1>11, CallTypes DEF RenameEnd, TypeOK
  <2>2. /\ accounts' \in [Uids -> Accounts \cup {None}]
        /\ \A u \in Uids : Known(u) => accounts'[u] # None
    BY <1>11, <2>1 DEF RenameEnd, RenameStore, TypeOK, Accounts
  <2>3. /\ calls' \in [Callers -> {Idle} \cup Logins \cup Renames \cup Uses]
        /\ \A x \in Callers : calls'[x].op = "rename" => calls'[x] = calls[x]
    BY <1>11 DEF RenameEnd, Goes, Idle, TypeOK
  <2>4. \A x \in Callers : calls'[x].op = "rename" => accounts'[calls'[x].uid] # None
    BY <2>2, <2>3, CallTypes DEF TypeOK
  <2> QED BY <1>11, <2>1, <2>2, <2>3, <2>4 DEF RenameEnd, RenameStore, TypeOK
<1>12. ASSUME NEW c \in Callers, LoginRead(c) PROVE TypeOK'
  <2>1. /\ calls' \in [Callers -> {Idle} \cup Logins \cup Renames \cup Uses]
        /\ \A x \in Callers : calls'[x].op = "rename" => calls'[x] = calls[x]
    BY <1>12, CallTypes DEF LoginRead, Goes, Idle, Logins, TypeOK
  <2> QED BY <1>12, <2>1 DEF LoginRead, storage, TypeOK
<1>13. ASSUME NEW c \in Callers, LoginSet(c) PROVE TypeOK'
  <2>1. calls[c] \in Logins /\ calls[c].uid \in Uids
    BY <1>13, CallTypes DEF LoginSet
  <2>2. /\ calls' \in [Callers -> {Idle} \cup Logins \cup Renames \cup Uses]
        /\ \A x \in Callers : calls'[x].op = "rename" => calls'[x] = calls[x]
    BY <1>13, <2>1 DEF LoginSet, Goes, Logins, TypeOK
  <2>3. /\ accounts' \in [Uids -> Accounts \cup {None}]
        /\ \A u \in Uids : Known(u) => accounts'[u] # None
    <3>1. PICK u \in Uids : u = calls[c].uid
      BY <2>1
    <3>2. /\ accounts[u] \in Accounts
          /\ accounts' = [accounts EXCEPT ![u] = [accounts[u] EXCEPT !.pass = TRUE]]
      BY <1>13, <3>1 DEF LoginSet, SetHashedPassword, Known, TypeOK
    <3>3. [accounts[u] EXCEPT !.pass = TRUE] \in Accounts
      BY <3>2 DEF Accounts
    <3>4. [accounts[u] EXCEPT !.pass = TRUE] # None
      BY <3>3, AccountStorageAssumption
    <3> HIDE DEF Accounts
    <3>5. PICK a \in Accounts : a # None /\ accounts' = [accounts EXCEPT ![u] = a]
      BY <3>2, <3>3, <3>4
    <3> QED
      BY <3>1, <3>5 DEF Known, TypeOK
  <2>4. \A x \in Callers : calls'[x].op = "rename" => accounts'[calls'[x].uid] # None
    BY <2>2, <2>3, CallTypes DEF TypeOK
  <2> QED BY <1>13, <2>2, <2>3, <2>4 DEF LoginSet, TypeOK
<1>14. ASSUME NEW c \in Callers, LoginToken(c) PROVE TypeOK'
  <2>1. /\ TokenNew(c) \in Token
        /\ Later(now, LifeOfToken(calls[c].uid)) \in 0 .. (MaxNow + 1)
    BY <1>14, CallTypes, LaterOn, LifeOfTokenPositive DEF LoginToken, TokenNew, Token, TypeOK
  <2>2. AddToken(TokenNew(c), Later(now, LifeOfToken(calls[c].uid)))
    BY <1>14 DEF LoginToken, TokenNew
  <2>3. /\ tokens' \in [DOMAIN tokens' -> 0 .. (MaxNow + 1)]
        /\ DOMAIN tokens' \subseteq Token
        /\ lastClean' \in {Never} \cup 0 .. MaxNow
    BY <2>1, <2>2, AddTokenMap DEF TypeOK
  <2>4. granted' \in [DOMAIN granted' -> 0 .. (MaxNow + 1)] /\ DOMAIN granted' \subseteq Token
    BY <1>14, <2>1 DEF LoginToken, TokenNew, Put, TypeOK
  <2>5. /\ calls' \in [Callers -> {Idle} \cup Logins \cup Renames \cup Uses]
        /\ \A x \in Callers : calls'[x].op = "rename" => calls'[x] = calls[x]
    BY <1>14 DEF LoginToken, Goes, Idle, TypeOK
  <2> QED BY <1>14, <2>3, <2>4, <2>5 DEF LoginToken, TypeOK
<1>15. ASSUME NEW c \in Callers, LoginFails(c) PROVE TypeOK'
  BY <1>15 DEF LoginFails, Goes, Idle, storage, TypeOK
<1>16. ASSUME NEW c \in Callers, CheckEnd(c) PROVE TypeOK'
  <2>1. /\ tokens' \in [DOMAIN tokens' -> 0 .. (MaxNow + 1)]
        /\ DOMAIN tokens' \subseteq Token
        /\ lastClean' \in {Never} \cup 0 .. MaxNow
    BY <1>16, CleanIfDueMap DEF CheckEnd, TypeOK
  <2>2. /\ calls' \in [Callers -> {Idle} \cup Logins \cup Renames \cup Uses]
        /\ \A x \in Callers : calls'[x].op = "rename" => calls'[x] = calls[x]
    BY <1>16, CallTypes DEF CheckEnd, Goes, Idle, Uses, TypeOK
  <2> QED BY <1>16, <2>1, <2>2 DEF CheckEnd, TypeOK
<1>17. ASSUME NEW c \in Callers, Write(c) PROVE TypeOK'
  <2>1. props' \in [Uids -> Uids]
    BY <1>17, CallTypes DEF Write, Token, SetPropertyData, SetPropertyDataByUserID, TypeOK
  <2> QED BY <1>17, <2>1 DEF Write, Goes, Idle, TypeOK
<1>18. CASE Tick
  <2>1. granted' \in [DOMAIN granted' -> 0 .. (MaxNow + 1)] /\ DOMAIN granted' \subseteq Token
    BY <1>18 DEF Tick, Restrict, TypeOK
  <2>2. now' \in 0 .. MaxNow
    BY <1>18 DEF Tick, TypeOK
  <2>3. tokens' \in [DOMAIN tokens' -> 0 .. (MaxNow + 1)] /\ DOMAIN tokens' \subseteq Token
    BY <1>18, <2>2, ExpireMap DEF Tick, TypeOK
  <2> QED BY <1>18, <2>1, <2>2, <2>3 DEF Tick, TypeOK
<1>19. CASE Restart
  <2>1. ids' \in [Names -> Uids \cup {None}]
    BY <1>19 DEF Restart, Index, TypeOK
  <2> QED BY <1>19, <2>1 DEF Restart, Idle, TypeOK
<1>20. CASE CheckOnly
  BY <1>20, CleanIfDueMap DEF CheckOnly, TypeOK
<1>21. CASE UNCHANGED vars BY <1>21 DEF vars, storage, TypeOK
<1> QED
  BY <1>1, <1>2, <1>3, <1>4, <1>5, <1>6, <1>7, <1>8, <1>9, <1>10, <1>11, <1>12, <1>13,
     <1>14, <1>15, <1>16, <1>17, <1>18, <1>19, <1>20, <1>21 DEF Next
-----------------------------------------------------------------------------
Renaming(u) == \E c \in Callers : calls[c].op = "rename" /\ calls[c].uid = u

\* A rename of the file storage that is under way has taken its account off
\* the index, and nobody has the name it will put there.
RenamesAlone ==
  \A c \in Callers : calls[c].op = "rename" =>
    /\ InFile
    /\ \A d \in Callers : calls[d].op = "rename" => d = c
    /\ ids[accounts[calls[c].uid].name] = None
    /\ ids[calls[c].name] = None
    /\ \A u \in Uids : Known(u) => accounts[u].name # calls[c].name

\* The accounts of the file storage have different names, and are on the index
\* with them but for the one that is renamed.
NamesDiffer ==
  InFile =>
    /\ \A u, v \in Uids : Known(u) /\ Known(v) /\ accounts[u].name = accounts[v].name => u = v
    /\ \A u \in Uids : Known(u) /\ ~Renaming(u) => ids[accounts[u].name] = u

\* In Redis an account that was not renamed is on the index.
NamesStay == InRedis => \A u \in Uids : Known(u) /\ u \notin renamed => ids[accounts[u].name] = u

\* What is on the index is an account, which in files has the name.
IndexLeads ==
  \A n \in Names : ids[n] # None => Known(ids[n]) /\ (InFile => accounts[ids[n]].name = n)

NamesInv == RenamesAlone /\ NamesDiffer /\ NamesStay /\ IndexLeads

\* Who logged in, or is logging in, under a name has it or had it once; in
\* Redis the name leads to the account for good.
Bears(u, n) == IF InRedis THEN ids[n] = u
               ELSE Known(u) /\ (accounts[u].name = n \/ u \in renamed)

BearersInv ==
  /\ \A t \in DOMAIN tokens : Bears(t.uid, t.name)
  /\ \A c \in Callers :
       /\ calls[c].op \in {"find", "set", "token"} => Bears(calls[c].uid, calls[c].name)
       /\ calls[c].op \in {"check", "write"} =>
            Bears(calls[c].token.uid, calls[c].token.name)

\* A token that was handed out is kept as long as it is to be good, and what
\* the last cleaning left is not older than it.
TokensInv ==
  /\ \A t \in DOMAIN granted : t \in DOMAIN tokens /\ granted[t] <= tokens[t] /\ now < granted[t]
  /\ \A t \in DOMAIN tokens : lastClean <= tokens[t]
  /\ lastClean <= now
-----------------------------------------------------------------------------
NamesUntouched ==
  /\ UNCHANGED <<kind, ids, renamed>>
  /\ \A u \in Uids : /\ Known(u)' <=> Known(u)
                     /\ Known(u) => accounts'[u].name = accounts[u].name
  /\ \A c \in Callers : /\ calls'[c].op = "rename" <=> calls[c].op = "rename"
                        /\ calls[c].op = "rename" => calls'[c] = calls[c]

(* Most steps leave names alone. *)
LEMMA NamesChange ==
  ASSUME TypeOK, [Next]_vars
  PROVE  \/ \E u \in Uids, n \in Names, pass \in BOOLEAN : Register(u, n, pass)
         \/ \E c \in Callers, u \in Uids, n \in Names : RenameBegin(c, u, n)
         \/ \E u \in Uids, n \in Names : RenameInRedis(u, n)
         \/ \E c \in Callers : RenameEnd(c)
         \/ Restart
         \/ NamesUntouched
<1> USE DEF NamesUntouched, Known
<1>1. ASSUME NEW u \in Uids, NEW c \in Lives \cup {None}, ChangeConfig(u, c)
      PROVE  NamesUntouched
  BY <1>1, AccountStorageAssumption DEF ChangeConfig, SetAdvanceConfig, TypeOK, Accounts
<1>2. ASSUME NEW u \in Uids, ChangePassword(u) PROVE NamesUntouched
  BY <1>2, AccountStorageAssumption DEF ChangePassword, SetHashedPassword, TypeOK, Accounts
<1>3. ASSUME NEW u \in Uids, WriteByUserID(u) PROVE NamesUntouched
  BY <1>3 DEF WriteByUserID
<1>4. ASSUME NEW t \in DOMAIN tokens, Logout(t) PROVE NamesUntouched
  BY <1>4 DEF Logout
<1>5. ASSUME NEW c \in Callers, NEW n \in Names, LoginFind(c, n) PROVE NamesUntouched
  BY <1>5 DEF LoginFind, Goes, Idle, storage, TypeOK
<1>6. ASSUME NEW c \in Callers, NEW t \in DOMAIN tokens, CheckBegin(c, t)
      PROVE  NamesUntouched
  BY <1>6 DEF CheckBegin, Goes, Idle, storage, TypeOK
<1>7. ASSUME NEW c \in Callers, NEW t \in DOMAIN tokens, NEW write \in BOOLEAN,
             CheckInRedis(c, t, write)
      PROVE  NamesUntouched
  BY <1>7 DEF CheckInRedis, Goes, Idle, TypeOK
<1>8. ASSUME NEW c \in Callers, LoginRead(c) PROVE NamesUntouched
  <2>1. calls[c] \in Logins BY <1>8, CallTypes DEF LoginRead
  <2>2. \A x \in Callers \ {c} : calls'[x] = calls[x] BY <1>8 DEF LoginRead, Goes, TypeOK
  <2>3. calls'[c].op # "rename" BY <1>8, <2>1 DEF LoginRead, Goes, Idle, Logins, TypeOK
  <2> QED BY <1>8, <2>2, <2>3 DEF LoginRead, storage
<1>9. ASSUME NEW c \in Callers, LoginSet(c) PROVE NamesUntouched
  <2>1. calls[c] \in Logins /\ calls[c].uid \in Uids BY <1>9, CallTypes DEF LoginSet
  <2>2. /\ \A x \in Callers \ {c} : calls'[x] = calls[x]
        /\ calls'[c].op # "rename"
    BY <1>9, <2>1 DEF LoginSet, Goes, Logins, TypeOK
  <2>3. \A u \in Uids : /\ Known(u)' <=> Known(u)
                        /\ Known(u) => accounts'[u].name = accounts[u].name
    BY <1>9, <2>1, AccountStorageAssumption DEF LoginSet, SetHashedPassword, TypeOK, Accounts
  <2> QED BY <1>9, <2>2, <2>3 DEF LoginSet
<1>10. ASSUME NEW c \in Callers, LoginToken(c) PROVE NamesUntouched
  BY <1>10 DEF LoginToken, Goes, Idle, TypeOK
<1>11. ASSUME NEW c \in Callers, LoginFails(c) PROVE NamesUntouched
  BY <1>11 DEF LoginFails, Goes, Idle, storage, TypeOK
<1>12. ASSUME NEW c \in Callers, CheckEnd(c) PROVE NamesUntouched
  <2>1. /\ \A x \in Callers \ {c} : calls'[x] = calls[x]
        /\ calls'[c].op # "rename"
    BY <1>12, CallTypes DEF CheckEnd, Goes, Idle, Uses, TypeOK
  <2> QED BY <1>12, <2>1 DEF CheckEnd
<1>13. ASSUME NEW c \in Callers, Write(c) PROVE NamesUntouched
  BY <1>13 DEF Write, Goes, Idle, TypeOK
<1>14. CASE Tick BY <1>14 DEF Tick
<1>15. CASE CheckOnly BY <1>15 DEF CheckOnly
<1>16. CASE UNCHANGED vars BY <1>16 DEF vars, storage
<1> HIDE DEF NamesUntouched
<1> QED
  BY <1>1, <1>2, <1>3, <1>4, <1>5, <1>6, <1>7, <1>8, <1>9, <1>10, <1>11, <1>12, <1>13,
     <1>14, <1>15, <1>16 DEF Next

(* The index made of accounts with different names. *)
LEMMA IndexMade ==
  ASSUME TypeOK, NamesInv, InFile
  PROVE  /\ \A u \in Uids : Known(u) => Index[accounts[u].name] = u
         /\ \A n \in Names : Index[n] # None => Known(Index[n]) /\ accounts[Index[n]].name = n
<1> DEFINE Of(n) == {u \in Uids : Known(u) /\ accounts[u].name = n}
<1>1. ASSUME NEW n \in Names, NEW u \in Uids, Known(u), accounts[u].name = n
      PROVE  Index[n] = u
  <2>1. Index[n] = CHOOSE v \in Uids : Known(v) /\ accounts[v].name = n
    BY <1>1 DEF Index
  <2>2. \A v \in Uids : Known(v) /\ accounts[v].name = n => v = u
    BY <1>1 DEF NamesInv, NamesDiffer
  <2> QED BY <1>1, <2>1, <2>2
<1>2. \A u \in Uids : Known(u) => accounts[u].name \in Names
  BY DEF TypeOK, Accounts, Known
<1>3. ASSUME NEW n \in Names, Index[n] # None
      PROVE  Known(Index[n]) /\ accounts[Index[n]].name = n
  <2>1. \E u \in Uids : Known(u) /\ accounts[u].name = n
    BY <1>3 DEF Index
  <2> QED BY <1>1, <2>1
<1> QED BY <1>1, <1>2, <1>3

(* A registration puts a new account and its name on the index. *)
LEMMA RegisterKeepsNames ==
  ASSUME TypeOK, NamesInv, NEW u \in Uids, NEW n \in Names, NEW pass \in BOOLEAN, Register(u, n, pass)
  PROVE  NamesInv'
<1>1. /\ ~Known(u) /\ ids[n] = None
      /\ accounts' = [accounts EXCEPT ![u] = [name |-> n, pass |-> pass, cfg |-> None]]
      /\ ids' = [ids EXCEPT ![n] = u]
      /\ UNCHANGED <<kind, calls, renamed>>
      /\ \A c \in Callers : calls[c].op # "rename"
  BY DEF Register, AddAccountEx, Unlocked
<1>2. /\ accounts'[u].name = n /\ Known(u)' /\ ids'[n] = u /\ \A v \in Uids : v # None
      /\ \A v \in Uids \ {u} : accounts'[v] = accounts[v] /\ (Known(v)' <=> Known(v))
      /\ \A m \in Names \ {n} : ids'[m] = ids[m]
      /\ \A v \in Uids : Known(v) => accounts[v].name \in Names
      /\ \A m \in Names : ids[m] \in Uids \cup {None}
  BY <1>1, AccountStorageAssumption DEF TypeOK, Known, Accounts
<1>3. RenamesAlone' BY <1>1 DEF RenamesAlone
<1>4. NamesDiffer'
  BY <1>1, <1>2 DEF NamesInv, NamesDiffer, IndexLeads, Renaming, InFile
<1>5. NamesStay'
  BY <1>1, <1>2 DEF NamesInv, NamesStay, IndexLeads, InRedis
<1>6. IndexLeads'
  BY <1>1, <1>2 DEF NamesInv, IndexLeads, InFile
<1> QED BY <1>3, <1>4, <1>5, <1>6 DEF NamesInv

(* A rename's first step takes one account off the index. *)
LEMMA RenameBeginKeepsNames ==
  ASSUME TypeOK, NamesInv, NEW c \in Callers, NEW u \in Uids, NEW n \in Names, RenameBegin(c, u, n)
  PROVE  NamesInv'
<1>1. /\ InFile /\ Known(u) /\ accounts[u].name # n /\ ids[n] = None
      /\ ids' = [ids EXCEPT ![accounts[u].name] = None]
      /\ UNCHANGED <<kind, accounts, renamed>>
      /\ \A d \in Callers : calls[d].op # "rename"
      /\ calls' = [calls EXCEPT ![c] = [op |-> "rename", uid |-> u, name |-> n]]
  BY DEF RenameBegin, RenameDelete, Unlocked, Goes
<1>2. /\ calls'[c].op = "rename" /\ calls'[c].uid = u /\ calls'[c].name = n
      /\ \A d \in Callers \ {c} : calls'[d] = calls[d]
  BY <1>1 DEF TypeOK
<1>3. /\ ids'[accounts[u].name] = None
      /\ \A m \in Names \ {accounts[u].name} : ids'[m] = ids[m]
      /\ \A v \in Uids : Known(v) => accounts[v].name \in Names
  BY <1>1 DEF TypeOK, Known, Accounts
<1>4. /\ \A v, w \in Uids : Known(v) /\ Known(w) /\ accounts[v].name = accounts[w].name => v = w
      /\ \A v \in Uids : Known(v) => ids[accounts[v].name] = v
  BY <1>1 DEF NamesInv, NamesDiffer, Renaming
<1>5. RenamesAlone'
  BY <1>1, <1>2, <1>3, <1>4, AccountStorageAssumption DEF RenamesAlone, InFile, Known
<1>6. NamesDiffer'
  <2>1. Renaming(u)' BY <1>2 DEF Renaming
  <2>2. \A v \in Uids : Known(v) /\ v # u => ids'[accounts[v].name] = v
    BY <1>1, <1>3, <1>4
  <2> QED BY <1>1, <1>4, <2>1, <2>2 DEF NamesDiffer, Known
<1>7. NamesStay' BY <1>1 DEF NamesStay, InFile, InRedis
<1>8. IndexLeads'
  BY <1>1, <1>3 DEF NamesInv, IndexLeads, InFile, Known
<1> QED BY <1>5, <1>6, <1>7, <1>8 DEF NamesInv

(* Its second step puts the account back under the new name. *)
LEMMA RenameEndKeepsNames ==
  ASSUME TypeOK, NamesInv, NEW c \in Callers, RenameEnd(c)
  PROVE  NamesInv'
<1> DEFINE u == calls[c].uid
           n == calls[c].name
<1>1. /\ calls[c].op = "rename" /\ u \in Uids /\ n \in Names /\ Known(u)
      /\ ids' = [ids EXCEPT ![n] = u]
      /\ accounts' = [accounts EXCEPT ![u].name = n]
      /\ calls' = [calls EXCEPT ![c] = Idle]
      /\ UNCHANGED kind /\ renamed' = renamed \cup {u}
  BY CallTypes DEF RenameEnd, RenameStore, Goes, TypeOK
<1>2. /\ InFile
      /\ \A d \in Callers : calls[d].op = "rename" => d = c
      /\ ids[accounts[u].name] = None /\ ids[n] = None
      /\ \A v \in Uids : Known(v) => accounts[v].name # n
  BY <1>1 DEF NamesInv, RenamesAlone
<1> HIDE DEF u, n
<1>3. /\ accounts'[u].name = n /\ accounts'[u] # None /\ ids'[n] = u
      /\ \A v \in Uids \ {u} : accounts'[v] = accounts[v] /\ (Known(v)' <=> Known(v))
      /\ \A m \in Names \ {n} : ids'[m] = ids[m]
      /\ \A v \in Uids : Known(v) => accounts[v].name \in Names
      /\ \A m \in Names : ids[m] \in Uids \cup {None}
  <2>1. accounts[u] \in Accounts BY <1>1 DEF Known, TypeOK
  <2>2. [accounts[u] EXCEPT !.name = n] \in Accounts BY <1>1, <2>1 DEF Accounts
  <2>3. accounts'[u] = [accounts[u] EXCEPT !.name = n] BY <1>1 DEF TypeOK
  <2>4. accounts'[u].name = n BY <2>1, <2>3 DEF Accounts
  <2>5. accounts'[u] # None BY <2>2, <2>3, AccountStorageAssumption
  <2> QED BY <1>1, <2>4, <2>5 DEF TypeOK, Known, Accounts
<1>4. \A d \in Callers : calls'[d].op # "rename"
  BY <1>1, <1>2 DEF TypeOK, Idle
<1>5. \A v \in Uids \ {u} : Known(v) => ids[accounts[v].name] = v
  BY <1>1, <1>2 DEF NamesInv, NamesDiffer, Renaming, u
<1>6. \A v, w \in Uids : Known(v) /\ Known(w) /\ accounts[v].name = accounts[w].name => v = w
  BY <1>2 DEF NamesInv, NamesDiffer
<1>7. RenamesAlone' BY <1>4 DEF RenamesAlone
<1>8. NamesDiffer'
  <2>1. \A v, w \in Uids : Known(v)' /\ Known(w)' /\ accounts'[v].name = accounts'[w].name => v = w
    BY <1>2, <1>3, <1>6
  <2>2. \A v \in Uids : Known(v)' => ids'[accounts'[v].name] = v
    BY <1>2, <1>3, <1>5
  <2> QED BY <2>1, <2>2 DEF NamesDiffer
<1>9. NamesStay' BY <1>1, <1>2 DEF NamesStay, InFile, InRedis
<1>10. IndexLeads'
  <2>1. ASSUME NEW m \in Names, ids'[m] # None
        PROVE  Known(ids[m])' /\ accounts'[ids'[m]].name = m
    <3>1. CASE m = n
      <4>1. ids'[m] = u BY <3>1, <1>3
      <4> QED BY <3>1, <4>1, <1>3 DEF Known
    <3>2. CASE m # n
      <4>1. ids'[m] = ids[m] /\ ids[m] \in Uids BY <3>2, <2>1, <1>3
      <4>2. Known(ids[m]) /\ accounts[ids[m]].name = m
        BY <2>1, <4>1, <1>2 DEF NamesInv, IndexLeads
      <4>3. ids[m] # u BY <4>1, <4>2, <1>2, <2>1
      <4> QED BY <4>1, <4>2, <4>3, <1>3 DEF Known
    <3> QED BY <3>1, <3>2
  <2> QED BY <2>1 DEF IndexLeads
<1> QED BY <1>7, <1>8, <1>9, <1>10 DEF NamesInv

(* Names and index stay in step. *)
LEMMA NamesKept == TypeOK /\ NamesInv /\ [Next]_vars => NamesInv'
<1> SUFFICES ASSUME TypeOK, NamesInv, [Next]_vars PROVE NamesInv'
  OBVIOUS
<1>1. ASSUME NEW u \in Uids, NEW n \in Names, RenameInRedis(u, n) PROVE NamesInv'
  <2>1. /\ InRedis /\ Known(u)
        /\ UNCHANGED <<kind, ids, calls>>
        /\ accounts'[u].name = n /\ Known(u)'
        /\ \A v \in Uids \ {u} : accounts'[v] = accounts[v] /\ (Known(v)' <=> Known(v))
        /\ accounts[u].name # n => u \in renamed'
        /\ renamed \subseteq renamed'
        /\ \A c \in Callers : calls[c].op # "rename"
    BY <1>1, AccountStorageAssumption
    DEF RenameInRedis, RenameField, TypeOK, Known, Accounts, NamesInv, RenamesAlone, InFile, InRedis
  <2>2. RenamesAlone' /\ NamesDiffer'
    BY <2>1 DEF RenamesAlone, NamesDiffer, InFile, InRedis
  <2>3. NamesStay' BY <2>1 DEF NamesInv, NamesStay, InRedis
  <2>4. IndexLeads'
    BY <2>1 DEF NamesInv, IndexLeads, InFile, InRedis, TypeOK
  <2> QED BY <2>2, <2>3, <2>4 DEF NamesInv
<1>2. CASE Restart
  <2>1. /\ UNCHANGED <<kind, accounts, renamed>>
        /\ ids' = IF InFile THEN Index ELSE ids
        /\ \A c \in Callers : calls'[c].op # "rename"
    BY <1>2 DEF Restart, Idle
  <2>2. RenamesAlone' BY <2>1 DEF RenamesAlone
  <2>3. CASE InFile
    <3>1. NamesDiffer' /\ IndexLeads'
      BY <2>1, <2>3, IndexMade DEF NamesInv, NamesDiffer, IndexLeads, InFile, Known
    <3> QED BY <2>1, <2>2, <2>3, <3>1 DEF NamesInv, NamesStay, InFile, InRedis
  <2>4. CASE ~InFile
    BY <2>1, <2>2, <2>4 DEF NamesInv, NamesDiffer, NamesStay, IndexLeads, InFile, InRedis, Known
  <2> QED BY <2>3, <2>4
<1>3. CASE NamesUntouched
  <2>1. RenamesAlone'
    BY <1>3, CallTypes DEF NamesUntouched, NamesInv, RenamesAlone, InFile, TypeOK
  <2>2. NamesDiffer'
    BY <1>3 DEF NamesUntouched, NamesInv, NamesDiffer, InFile, Renaming
  <2>3. NamesStay'
    BY <1>3 DEF NamesUntouched, NamesInv, NamesStay, InRedis
  <2>4. IndexLeads'
    BY <1>3 DEF NamesUntouched, NamesInv, IndexLeads, InFile, TypeOK
  <2> QED BY <2>1, <2>2, <2>3, <2>4 DEF NamesInv
<1> QED
  BY <1>1, <1>2, <1>3, NamesChange, RegisterKeepsNames, RenameBeginKeepsNames, RenameEndKeepsNames
-----------------------------------------------------------------------------
(* Who bears a name, or bore it, does so from then on. *)
LEMMA BearsForGood ==
  ASSUME TypeOK, NamesInv, [Next]_vars, NEW x \in Uids, NEW m \in Names, Bears(x, m)
  PROVE  Bears(x, m)'
<1>1. ASSUME NEW u \in Uids, NEW n \in Names, NEW pass \in BOOLEAN, Register(u, n, pass)
      PROVE  Bears(x, m)'
  BY <1>1, AccountStorageAssumption
  DEF Register, AddAccountEx, Bears, Known, InRedis, TypeOK, Accounts
<1>2. ASSUME NEW c \in Callers, NEW u \in Uids, NEW n \in Names, RenameBegin(c, u, n)
      PROVE  Bears(x, m)'
  BY <1>2 DEF RenameBegin, Bears, Known, InRedis, InFile
<1>3. ASSUME NEW u \in Uids, NEW n \in Names, RenameInRedis(u, n) PROVE Bears(x, m)'
  BY <1>3 DEF RenameInRedis, Bears, InRedis
<1>4. ASSUME NEW c \in Callers, RenameEnd(c) PROVE Bears(x, m)'
  <2>1. InFile /\ UNCHANGED kind /\ calls[c].uid \in Uids /\ calls[c].name \in Names
    BY <1>4, CallTypes DEF RenameEnd, NamesInv, RenamesAlone
  <2>2. CASE x = calls[c].uid
    <3>1. x \in renamed' BY <1>4, <2>2 DEF RenameEnd
    <3>2. Known(x)' BY <1>4, <2>1, <2>2, TypesKept, AccountStorageAssumption
                    DEF RenameEnd, RenameStore, Bears, Known, InFile, InRedis, TypeOK, Accounts
    <3> QED BY <2>1, <3>1, <3>2 DEF Bears, InFile, InRedis
  <2>3. CASE x # calls[c].uid
    <3>1. accounts'[x] = accounts[x] /\ renamed \subseteq renamed'
      BY <1>4, <2>3 DEF RenameEnd, RenameStore, TypeOK
    <3> QED BY <2>1, <3>1 DEF Bears, Known, InFile, InRedis
  <2> QED BY <2>2, <2>3
<1>5. CASE Restart BY <1>5 DEF Restart, Bears, Known, InFile, InRedis
<1>6. CASE NamesUntouched BY <1>6 DEF NamesUntouched, Bears, InRedis
<1> QED BY <1>1, <1>2, <1>3, <1>4, <1>5, <1>6, NamesChange

(* Tokens and calls after a step are those of bearers before it. *)
SessionsOfBearers ==
  /\ \A t \in DOMAIN tokens' : Bears(t.uid, t.name)
  /\ \A c \in Callers :
       /\ calls'[c].op \in {"find", "set", "token"} => Bears(calls'[c].uid, calls'[c].name)
       /\ calls'[c].op \in {"check", "write"} =>
            Bears(calls'[c].token.uid, calls'[c].token.name)

(* A session that begins belongs to who bears the name in it. *)
LEMMA SessionsComeFromBearers ==
  TypeOK /\ NamesInv /\ BearersInv /\ [Next]_vars => SessionsOfBearers
<1> SUFFICES ASSUME TypeOK, NamesInv, BearersInv, [Next]_vars PROVE SessionsOfBearers
  OBVIOUS
<1> USE DEF BearersInv, SessionsOfBearers
<1>1. ASSUME NEW u \in Uids, NEW n \in Names, NEW pass \in BOOLEAN, Register(u, n, pass)
      PROVE  SessionsOfBearers
  BY <1>1 DEF Register
<1>2. ASSUME NEW u \in Uids, NEW c \in Lives \cup {None}, ChangeConfig(u, c)
      PROVE  SessionsOfBearers
  BY <1>2 DEF ChangeConfig
<1>3. ASSUME NEW u \in Uids, ChangePassword(u) \/ WriteByUserID(u) PROVE SessionsOfBearers
  BY <1>3 DEF ChangePassword, WriteByUserID
<1>4. ASSUME NEW t \in DOMAIN tokens, Logout(t) PROVE SessionsOfBearers
  BY <1>4, DelTokenMap DEF Logout
<1>5. ASSUME NEW c \in Callers, NEW u \in Uids, NEW n \in Names, RenameBegin(c, u, n)
      PROVE  SessionsOfBearers
  BY <1>5 DEF RenameBegin, Goes, TypeOK
<1>6. ASSUME NEW u \in Uids, NEW n \in Names, RenameInRedis(u, n) PROVE SessionsOfBearers
  BY <1>6 DEF RenameInRedis
<1>7. ASSUME NEW c \in Callers, NEW n \in Names, LoginFind(c, n) PROVE SessionsOfBearers
  <2>1. Bears(ids[n], n)
    BY <1>7 DEF LoginFind, Bears, NamesInv, IndexLeads, InFile, InRedis, TypeOK
  <2> QED BY <1>7, <2>1 DEF LoginFind, storage, Goes, TypeOK
<1>8. ASSUME NEW c \in Callers, NEW t \in DOMAIN tokens, CheckBegin(c, t)
      PROVE  SessionsOfBearers
  BY <1>8 DEF CheckBegin, storage, Goes, TypeOK
<1>9. ASSUME NEW c \in Callers, NEW t \in DOMAIN tokens, NEW write \in BOOLEAN,
             CheckInRedis(c, t, write)
      PROVE  SessionsOfBearers
  <2>1. DOMAIN tokens' = DOMAIN tokens BY <1>9 DEF CheckInRedis, Renew
  <2> QED BY <1>9, <2>1 DEF CheckInRedis, Goes, Idle, TypeOK
<1>10. ASSUME NEW c \in Callers, RenameEnd(c) PROVE SessionsOfBearers
  BY <1>10 DEF RenameEnd, Goes, Idle, TypeOK
<1>11. ASSUME NEW c \in Callers, LoginRead(c) PROVE SessionsOfBearers
  <2>1. calls[c] \in Logins BY <1>11, CallTypes DEF LoginRead
  <2>2. \A x \in Callers \ {c} : calls'[x] = calls[x] BY <1>11 DEF LoginRead, Goes, TypeOK
  <2>3. \/ calls'[c] = Idle
        \/ /\ calls'[c].op \in {"set", "token"}
           /\ calls'[c].uid = calls[c].uid /\ calls'[c].name = calls[c].name
    BY <1>11, <2>1 DEF LoginRead, Goes, Logins, TypeOK
  <2>4. Bears(calls[c].uid, calls[c].name) BY <1>11 DEF LoginRead
  <2> QED BY <1>11, <2>2, <2>3, <2>4 DEF LoginRead, storage, Idle
<1>12. ASSUME NEW c \in Callers, LoginSet(c) PROVE SessionsOfBearers
  <2>1. calls[c] \in Logins BY <1>12, CallTypes DEF LoginSet
  <2>2. /\ \A x \in Callers \ {c} : calls'[x] = calls[x]
        /\ calls'[c].op = "token"
        /\ calls'[c].uid = calls[c].uid /\ calls'[c].name = calls[c].name
    BY <1>12, <2>1 DEF LoginSet, Goes, Logins, TypeOK
  <2>3. Bears(calls[c].uid, calls[c].name) BY <1>12 DEF LoginSet
  <2> QED BY <1>12, <2>2, <2>3 DEF LoginSet
<1>13. ASSUME NEW c \in Callers, LoginToken(c) PROVE SessionsOfBearers
  <2>1. /\ TokenNew(c) \in Token
        /\ TokenNew(c).uid = calls[c].uid /\ TokenNew(c).name = calls[c].name
        /\ Later(now, LifeOfToken(calls[c].uid)) \in 0 .. (MaxNow + 1)
    BY <1>13, CallTypes, LaterOn, LifeOfTokenPositive, AccountStorageAssumption
    DEF LoginToken, TokenNew, Token, TypeOK
  <2>2. AddToken(TokenNew(c), Later(now, LifeOfToken(calls[c].uid)))
    BY <1>13 DEF LoginToken, TokenNew
  <2>3. DOMAIN tokens' \subseteq DOMAIN tokens \cup {TokenNew(c)} BY <2>1, <2>2, AddTokenMap
  <2>4. Bears(calls[c].uid, calls[c].name) BY <1>13 DEF LoginToken
  <2> QED BY <1>13, <2>1, <2>3, <2>4 DEF LoginToken, Goes, Idle, TypeOK
<1>14. ASSUME NEW c \in Callers, LoginFails(c) PROVE SessionsOfBearers
  BY <1>14 DEF LoginFails, storage, Goes, Idle, TypeOK
<1>15. ASSUME NEW c \in Callers, CheckEnd(c) PROVE SessionsOfBearers
  <2>1. DOMAIN tokens' \subseteq DOMAIN tokens BY <1>15, CleanIfDueMap DEF CheckEnd
  <2>2. calls[c] \in Uses BY <1>15, CallTypes DEF CheckEnd
  <2>3. /\ \A x \in Callers \ {c} : calls'[x] = calls[x]
        /\ \/ calls'[c] = Idle
           \/ calls'[c].op = "write" /\ calls'[c].token = calls[c].token /\ calls[c].op = "check"
    BY <1>15, <2>2 DEF CheckEnd, Goes, Uses, TypeOK
  <2> QED BY <2>1, <2>3 DEF Idle
<1>16. ASSUME NEW c \in Callers, Write(c) PROVE SessionsOfBearers
  BY <1>16 DEF Write, Goes, Idle, TypeOK
<1>17. CASE Tick
  <2>1. DOMAIN tokens' \subseteq DOMAIN tokens
    BY <1>17, ExpireMap DEF Tick, TypeOK
  <2> QED BY <1>17, <2>1 DEF Tick
<1>18. CASE Restart BY <1>18 DEF Restart, Idle
<1>19. CASE CheckOnly
  BY <1>19, CleanIfDueMap DEF CheckOnly
<1>20. CASE UNCHANGED vars BY <1>20 DEF vars, storage
<1> HIDE DEF BearersInv, SessionsOfBearers
<1> QED
  BY <1>1, <1>2, <1>3, <1>4, <1>5, <1>6, <1>7, <1>8, <1>9, <1>10, <1>11, <1>12, <1>13,
     <1>14, <1>15, <1>16, <1>17, <1>18, <1>19, <1>20 DEF Next

(* Sessions stay those of bearers. *)
LEMMA BearersKept == TypeOK /\ NamesInv /\ BearersInv /\ [Next]_vars => BearersInv'
<1> SUFFICES ASSUME TypeOK, NamesInv, BearersInv, [Next]_vars PROVE BearersInv'
  OBVIOUS
<1>1. TypeOK' BY TypesKept
<1>2. \A u \in Uids, n \in Names : Bears(u, n) => Bears(u, n)' BY BearsForGood
<1>3. SessionsOfBearers BY SessionsComeFromBearers
<1>4. \A t \in DOMAIN tokens' : Bears(t.uid, t.name)'
  BY <1>1, <1>2, <1>3 DEF SessionsOfBearers, TypeOK, Token
<1>5. ASSUME NEW c \in Callers, NEW u \in Uids, NEW n \in Names, calls'[c].uid = u, calls'[c].name = n,
             calls'[c].op \in {"find", "set", "token"}
      PROVE  Bears(u, n)'
  BY <1>2, <1>3, <1>5 DEF SessionsOfBearers
<1>6. ASSUME NEW c \in Callers, NEW t \in Token, calls'[c].token = t,
             calls'[c].op \in {"check", "write"}
      PROVE  Bears(t.uid, t.name)'
  BY <1>2, <1>3, <1>6 DEF SessionsOfBearers, Token
<1>7. ASSUME NEW c \in Callers
      PROVE  /\ calls'[c].op \in {"find", "set", "token"} =>
                  calls'[c].uid \in Uids /\ calls'[c].name \in Names
             /\ calls'[c].op \in {"check", "write"} => calls'[c].token \in Token
  BY <1>1 DEF TypeOK, Idle, Logins, Renames, Uses
<1> QED BY <1>4, <1>5, <1>6, <1>7 DEF BearersInv

(* What is written with a token stays with who logged in. *)
LEMMA PropertiesKept ==
  TypeOK /\ NamesInv /\ BearersInv /\ PropertyStays /\ [Next]_vars => PropertyStays'
<1> SUFFICES ASSUME TypeOK, NamesInv, BearersInv, PropertyStays, [Next]_vars
             PROVE  PropertyStays'
  OBVIOUS
<1>1. UNCHANGED kind /\ renamed \subseteq renamed'
  BY DEF Next, vars, storage, Register, ChangeConfig, ChangePassword, WriteByUserID, Logout,
         RenameBegin, RenameInRedis, RenameEnd, LoginFind, CheckBegin, CheckInRedis, LoginRead,
         LoginSet, LoginToken, LoginFails, CheckOnly, CheckEnd, Write, Tick, Restart
<1>2. CASE UNCHANGED props
  BY <1>1, <1>2 DEF PropertyStays, InFile
<1>3. ASSUME NEW u \in Uids, WriteByUserID(u) PROVE PropertyStays'
  BY <1>1, <1>3 DEF WriteByUserID, SetPropertyDataByUserID, PropertyStays, InFile, TypeOK
<1>4. ASSUME NEW c \in Callers, Write(c) PROVE PropertyStays'
  <2> DEFINE u == calls[c].token.uid
             n == calls[c].token.name
             w == ids[n]
  <2>1. calls[c].token \in Token /\ u \in Uids /\ n \in Names
    BY <1>4, CallTypes DEF Write, Token
  <2>2. CASE SetPropertyData(n, u)
    <3>1. w \in Uids /\ w # None /\ props' = [props EXCEPT ![w] = u]
      BY <2>1, <2>2 DEF SetPropertyData, SetPropertyDataByUserID, TypeOK
    <3>2. Bears(u, n)
      BY <1>4, <2>1, AccountStorageAssumption DEF Write, BearersInv
    <3>3. u = w \/ (InFile /\ u \in renamed)
      <4>1. CASE InRedis BY <3>2, <4>1 DEF Bears
      <4>2. CASE InFile
        <5>1. Known(w) /\ accounts[w].name = n
          BY <2>1, <3>1, <4>2 DEF NamesInv, IndexLeads
        <5>2. Known(u) /\ (accounts[u].name = n \/ u \in renamed)
          BY <3>2, <4>2 DEF Bears, InFile, InRedis
        <5> QED BY <2>1, <3>1, <4>2, <5>1, <5>2 DEF NamesInv, NamesDiffer
      <4> QED BY <4>1, <4>2 DEF TypeOK, InFile, InRedis
    <3> QED BY <1>1, <3>1, <3>3 DEF PropertyStays, InFile, TypeOK
  <2>3. CASE UNCHANGED props BY <1>2, <2>3
  <2> QED BY <1>4, <2>2, <2>3 DEF Write
<1> QED
  BY <1>2, <1>3, <1>4
  DEF Next, vars, storage, Register, ChangeConfig, ChangePassword, Logout,
      RenameBegin, RenameInRedis, RenameEnd, LoginFind, CheckBegin, CheckInRedis, LoginRead,
      LoginSet, LoginToken, LoginFails, CheckOnly, CheckEnd, Tick, Restart
-----------------------------------------------------------------------------
(* Tokens outlive what was promised when they were handed out. *)
LEMMA TokensKept == TypeOK /\ TokensInv /\ [Next]_vars => TokensInv'
<1> SUFFICES ASSUME TypeOK, TokensInv, [Next]_vars PROVE TokensInv'
  OBVIOUS
<1> USE AccountStorageAssumption
<1>0. /\ now \in Nat /\ now <= MaxNow /\ lastClean \in Int
      /\ \A t \in DOMAIN tokens : tokens[t] \in 0 .. (MaxNow + 1)
      /\ \A t \in DOMAIN granted : granted[t] \in 0 .. (MaxNow + 1)
  BY DEF TypeOK, Never
<1>1. CASE UNCHANGED <<tokens, granted, now, lastClean>>
  BY <1>1 DEF TokensInv
<1>2. ASSUME NEW t \in DOMAIN tokens, Logout(t) PROVE TokensInv'
  <2>1. /\ DOMAIN granted' = DOMAIN granted \ {t}
        /\ \A x \in DOMAIN granted' : granted'[x] = granted[x]
        /\ UNCHANGED now
    BY <1>2 DEF Logout, Restrict
  <2>2. DelToken(t) BY <1>2 DEF Logout
  <2> QED BY <1>0, <2>1, <2>2, DelTokenMap DEF TokensInv
<1>3. ASSUME NEW c \in Callers, NEW t \in DOMAIN tokens, NEW write \in BOOLEAN,
             CheckInRedis(c, t, write)
      PROVE  TokensInv'
  <2>1. /\ DOMAIN tokens' = DOMAIN tokens /\ UNCHANGED <<granted, now, lastClean>>
        /\ \A x \in DOMAIN tokens : tokens[x] <= tokens'[x] /\ tokens'[x] \in Int
    BY <1>0, <1>3, LaterOn DEF CheckInRedis, Renew, TypeOK
  <2> QED BY <1>0, <2>1 DEF TokensInv
<1>4. ASSUME NEW c \in Callers, LoginToken(c) PROVE TokensInv'
  <2> DEFINE e == Later(now, LifeOfToken(calls[c].uid))
             t == TokenNew(c)
  <2>1. t \in Token /\ e \in 0 .. (MaxNow + 1) /\ now < e
    <3>1. calls[c].uid \in Uids /\ calls[c].name \in Names
      BY <1>4, CallTypes DEF LoginToken
    <3>2. t \in Token /\ now \in 0 .. (MaxNow + 1)
      BY <3>1 DEF TokenNew, Token, TypeOK
    <3>3. LifeOfToken(calls[c].uid) \in Nat \ {0} BY <3>1, LifeOfTokenPositive
    <3> QED BY <1>0, <3>2, <3>3, LaterOn
  <2>2. AddToken(t, e) /\ granted' = Put(granted, t, e) /\ UNCHANGED now
    BY <1>4 DEF LoginToken, TokenNew
  <2> HIDE DEF e, t
  <2>3. /\ DOMAIN granted' = DOMAIN granted \cup {t} /\ granted'[t] = e
        /\ \A x \in DOMAIN granted \ {t} : granted'[x] = granted[x]
    BY <2>2 DEF Put
  <2>4. /\ DOMAIN tokens' \subseteq DOMAIN tokens \cup {t}
        /\ t \in DOMAIN tokens' /\ tokens'[t] = e
        /\ \A x \in DOMAIN tokens' \ {t} : tokens'[x] = tokens[x]
        /\ \A x \in DOMAIN tokens : now <= tokens[x] => x \in DOMAIN tokens'
        /\ \/ lastClean' = now /\ InFile /\ \A x \in DOMAIN tokens' \ {t} : now <= tokens'[x]
           \/ lastClean' = lastClean /\ InRedis
    BY <2>1, <2>2, AddTokenMap
  <2>5. \A x \in DOMAIN granted' :
          x \in DOMAIN tokens' /\ granted'[x] <= tokens'[x] /\ now' < granted'[x]
    BY <1>0, <2>1, <2>2, <2>3, <2>4 DEF TokensInv
  <2>6. \A x \in DOMAIN tokens' : lastClean' <= tokens'[x]
    BY <1>0, <2>1, <2>4 DEF TokensInv
  <2> QED BY <1>0, <2>2, <2>4, <2>5, <2>6 DEF TokensInv
<1>5. CASE CheckOnly \/ \E c \in Callers : CheckEnd(c)
  <2>1. CleanIfDue /\ UNCHANGED <<now, granted>> BY <1>5 DEF CheckOnly, CheckEnd
  <2> QED BY <1>0, <2>1, CleanIfDueMap DEF TokensInv
<1>6. CASE Tick
  <2>1. /\ DOMAIN granted' = {t \in DOMAIN granted : now' < granted[t]}
        /\ \A x \in DOMAIN granted' : granted'[x] = granted[x]
        /\ now' = now + 1 /\ UNCHANGED lastClean /\ Expire
    BY <1>6 DEF Tick, Restrict
  <2>2. now' \in Nat BY <1>0, <2>1
  <2> QED BY <1>0, <2>1, <2>2, ExpireMap DEF TokensInv
<1>7. CASE Restart
  BY <1>0, <1>7 DEF Restart, Never, TokensInv
<1> QED
  BY <1>1, <1>2, <1>3, <1>4, <1>5, <1>6, <1>7
  DEF Next, vars, storage, Register, ChangeConfig, ChangePassword, WriteByUserID, RenameBegin,
      RenameInRedis, RenameEnd, LoginFind, CheckBegin, LoginRead, LoginSet, LoginFails, Write

(* A check leaves no token that was late by the time between two cleanings. *)
LEMMA ChecksClean ==
  ASSUME TypeOK, TokensInv, CheckOnly \/ \E c \in Callers : CheckEnd(c)
  PROVE  \A t \in DOMAIN tokens' : tokens'[t] >= now - CleanEvery
<1>1. CleanIfDue BY DEF CheckOnly, CheckEnd
<1>2. /\ now \in Int /\ lastClean \in Int /\ CleanEvery \in Nat
      /\ \A t \in DOMAIN tokens : tokens[t] \in 0 .. (MaxNow + 1)
  BY AccountStorageAssumption DEF TypeOK, Never
<1>3. \A t \in DOMAIN tokens' : t \in DOMAIN tokens /\ tokens'[t] = tokens[t]
  BY <1>1, CleanIfDueMap
<1>4. CASE \A x \in DOMAIN tokens' : now <= tokens'[x]
  BY <1>2, <1>3, <1>4, AccountStorageAssumption
<1>5. CASE UNCHANGED tokens /\ now - lastClean <= CleanEvery
  BY <1>2, <1>3, <1>5, AccountStorageAssumption DEF TokensInv
<1> QED BY <1>1, <1>4, <1>5, CleanIfDueMap
-----------------------------------------------------------------------------
IInv == TypeOK /\ NamesInv /\ BearersInv /\ PropertyStays /\ TokensInv

(* The invariant holds at first. *)
LEMMA InitHolds == Init => IInv
<1> SUFFICES ASSUME Init PROVE IInv
  OBVIOUS
<1> USE AccountStorageAssumption DEF Init, StorageInit
<1>1. DOMAIN <<>> = {}
  OBVIOUS
<1>2. TypeOK
  <2>1. tokens \in [DOMAIN tokens -> 0 .. (MaxNow + 1)] /\ DOMAIN tokens \subseteq Token
    BY <1>1
  <2>2. granted \in [DOMAIN granted -> 0 .. (MaxNow + 1)] /\ DOMAIN granted \subseteq Token
    BY <1>1
  <2> QED BY <2>1, <2>2 DEF TypeOK, Idle
<1>3. NamesInv
  BY DEF NamesInv, RenamesAlone, NamesDiffer, NamesStay, IndexLeads, Known, Idle
<1>4. BearersInv BY <1>1 DEF BearersInv, Idle
<1>5. PropertyStays BY DEF PropertyStays
<1>6. TokensInv BY <1>1 DEF TokensInv, Never
<1> QED BY <1>2, <1>3, <1>4, <1>5, <1>6 DEF IInv

(* The inductive invariant is an invariant. *)
LEMMA InvariantHolds == Spec => []IInv
<1>1. IInv /\ [Next]_vars => IInv'
  BY TypesKept, NamesKept, BearersKept, PropertiesKept, TokensKept DEF IInv
<1> QED BY InitHolds, <1>1, PTL DEF Spec

(* TypeOK: every variable of the service and its storages keeps its type.    *)
THEOREM AccountTyped == Spec => []TypeOK
<1>1. IInv => TypeOK BY DEF IInv
<1> QED BY <1>1, InvariantHolds, PTL

(* NamesLeadBack: whatever registrations, renames, lookups and restarts come *)
(* in between (AddAccountEx, RenameAccountName, init), accounts and names    *)
(* lead to each other; in Redis only until an account is renamed.            *)
THEOREM NamesAndAccountsAgree == Spec => []NamesLeadBack
<1>1. IInv => NamesLeadBack
  BY DEF IInv, NamesInv, NamesDiffer, NamesStay, IndexLeads, NamesLeadBack, Renaming, Unlocked,
         TypeOK, InFile, InRedis
<1> QED BY <1>1, InvariantHolds, PTL

(* PropertyStays: what SetPropertyData writes with a token is the property   *)
(* of the account that logged in, unless that account was renamed in files.  *)
THEOREM PropertiesStay == Spec => []PropertyStays
<1>1. IInv => PropertyStays BY DEF IInv
<1> QED BY <1>1, InvariantHolds, PTL

(* TokensLive: no cleaning, renewal, logout of another session or restart    *)
(* takes a token away before its time (AddToken, DelToken, TokenExists).     *)
THEOREM TokensStayAlive == Spec => []TokensLive
<1>1. IInv => TokensLive BY DEF IInv, TokensInv, TokensLive
<1> QED BY <1>1, InvariantHolds, PTL

(* LateTokensEnd: a check that returns has left no token that was late by    *)
(* more than the time between two cleanings (TokenExists of the file         *)
(* storage), though it reads the time of the last one without a lock.        *)
THEOREM ChecksLeaveNoLateToken == Spec => LateTokensEnd
<1>1. IInv /\ [Next]_vars =>
        [CheckOnly \/ (\E c \in Callers : CheckEnd(c)) =>
           \A t \in DOMAIN tokens' : tokens'[t] >= now - CleanEvery]_vars
  BY ChecksClean DEF IInv
<1> QED BY <1>1, InvariantHolds, PTL DEF Spec, LateTokensEnd
=============================================================================
