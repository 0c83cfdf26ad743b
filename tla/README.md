# libcomponents in TLA+

A specification of the parts of `libcomponents` that keep state others rely on:
what each promises, the TLC runs that check it on small instances, and proofs,
checked by TLAPS, of the facts that matter most for every instance.

## 1. The system

`libcomponents` is a Go library of components that are used one by one. Most
keep a map in memory that a file library (`mwf`, not part of the repository)
writes out with each change; the wallets, and one of the two account storages,
keep theirs in Redis and change it with Lua scripts.

| Component | Source | State | Operations | What must hold |
|---|---|---|---|---|
| Log syncer | `syncer/syncer.go`, `snapshot.go`, `impls/mf/logpool.go`, `impls/*/storage.go` | log pools (files of `snapshotLogCount` logs), a saved cursor, an interrupted-log record, snapshots, a queue of snapshot requests | `AppendAddRecordLog` and the other appends, `GetAllLogs`, the snapshot routine, `NewSyncer` | cursor and files agree whatever crash or error cuts an append; acknowledged logs stay; readers get the right logs under the right numbers; snapshots stand for all the logs before them |
| Snapshot contents | `syncer/impls/snapshot*.go`, `impls/bookkeeping/synctypetablesnapshotcache.go` | records with versions, contents of plugins | applying logs, building on the last snapshot | a snapshot built on snapshots equals one built from all logs; one change per version |
| Type table | `syncer/impls/bookkeeping/typetable.go` | rows (id, label, parent, deleted, transfer), a cache of parents | `Add`, `Del`, `Change`, `Reset`, load | usable rows have usable parents, the cache misses none of them, transfers end |
| Wallet, locker | `wallet/wallet.go`, `locker.go`, `lua.go`, `option.go` | balances, locks with a total, histories, in Redis | locks set, removed, moved; coins to locks, to wallets and back | the total is the sum, coins are conserved, no overdraft, histories explain balances |
| History transfer | `wallet/history.go`, `codec.go` | a Redis list, a cold storage | `GetItemsASC`, `Trans2CodeStorage` | nothing lost, oldest first, nothing twice |
| Traffic packages | `trafficpackage/trafficpackage.go`, `impl/fmstorage/storage.go` | packages with what is left on them | `AddPackage`, `ConsumeAmount`, `TryConsumeAmount` | what is charged is what is reported; oldest first |
| Daily bonus | `trafficpackage/dailybonusoperator.go`, `impl/fmstorage/dailybonusstorage.go` | a date, today's bonus and the one that stays | earning, looking, consuming | balances add up, a day is earned once |
| Operator set | `trafficpackage/operatorset.go` | a lock | `TryConsumeAmount` over several operators | events account for what is taken |
| Account service | `account/account.go`, `token.go`, `impls/fmaccountstorage`, `impls/redisimpls` | accounts, an index of names, tokens, the time of the last cleaning, properties | registration, rename, login, passwords, configuration, `Who`, logout, properties, cleaning, renewal | names and accounts lead to each other; data written with a token stays with its account; a token lives as long as it was given and not much longer |
| Curves | `curve/` | per speed and label a cached map of values, per speed a history of points, on disk too | `SetData`, the routine that closes labels, `GetCurves` | a point holds the samples of its label; curves show points at their time |
| Statistics by date | `statistic/memdate/` | amounts per day, totals per week, month, season, year | `SetDayData`, load, getters | every date has a cell of its own; totals are sums |
| Watch dog | `watchdog/` | started, last touch, count of failed checks | `Start`, `Stop`, `Touch`, the main routine | notice after enough silent checks, and always in the end |
| Usage time | `usage/time.go` | status events | `Update`, `DoStatistics`, `DoStatisticsAndClean` | a span is divided into how long each status lasted, whatever was cleaned before |

**How they interact.** An append of the syncer holds `poolLock` for all its
writes; leaving a pool sends its number to the snapshot routine through a
bounded channel and drops it when that is full; `GetAllLogs` takes the lock only
to read the cursor and then reads pools and snapshots beside everybody else.
Snapshots apply record logs themselves and hand plugin logs to plugin storages,
one of which is the bookkeeping type table's. The type table itself is used
directly by the application. A wallet script runs in Redis as one step; a
history transfer is a loop of separate commands with a storage of the caller's
in between. An operator set calls the daily bonus and the packages under its own
lock, which does not keep others from calling them directly. The account service
makes several calls of its storage for one of its own, with those of other
sessions in between. The other parts stand alone.

**What is hard.** Crashes and failed writes between the writes of an append
(`syncer.go:205-237`) and their recovery (`144-194`); requests that exist only in
memory (`snapshot.go:13`); reads beside appends (`syncer.go:353`); caches kept in
step by hand (`typetable.go:297, 452`) or outside the lock (`:85`); values read in
one step and charged in another (`trafficpackage.go:64/99`,
`dailybonusoperator.go:39/60`); pushes beside a trim (`history.go:112`); tokens that
go by a name (`account.go:204`) and are only looked at by a cleaning
(`fmaccountstorage/storage.go:423`); maps that are made, read and replaced without a
lock (`curve.go:181`, `watch_dog.go:106`); months walked in steps of 24 hours
(`date_data.go:47`). The complete list, line by line, is under `hazards` in
`PROJECT.json`.

## 2. Modules

| Module | What it is |
|---|---|
| `Syncer` | appends, recovery, snapshot routine, readers, restarts and I/O errors over the pool files |
| `AppendLog`, `SyncerRefinement` | what a log syncer promises to its clients, and the mapping under which `Syncer` implements it |
| `SyncerProofs` | proofs about the appends, about `GetAllLogs`, about clients that start from a snapshot, and of the refinement |
| `RecordSnapshot` | what logs do to a snapshot: records, versions, the type-table plugin |
| `TypeTable` | the type table |
| `BookkeepingProofs` | proofs about the type table and about snapshots |
| `Wallet` | the Lua scripts of wallets and lockers |
| `HistoryTransfer` | the history list, its pages and its transfer |
| `WalletProofs` | proofs about wallets and lockers, and about the history |
| `TrafficPackage`, `TrafficPackageProofs` | the operator of the packages and proofs about it |
| `DailyBonus` | the operator of the daily bonus |
| `OperatorSet`, `OperatorSetProofs` | the set, composed with instances of the two operators, and proofs about the whole |
| `Sums` | lemmas about sums over finite sets, and induction over indexes |
| `AccountStorage` | what is kept of accounts, in files or in Redis |
| `Account`, `AccountProofs` | the service over one of the two storages, and proofs about it |
| `Curve` | samples, labels, histories and what `GetCurves` shows |
| `WatchDog`, `SmallPartsProofs` | the watch dog, cut at its unlocked reads and writes, and proofs about it, `TimeUsage`, `DateStatistics` and `Curve` |
| `TimeUsage`, `DateStatistics` | counting of spans, totals of a calendar |
| `MC*` | symmetry sets and values of constants for TLC; `MCSmallParts` puts the last three parts side by side in one run |

`Syncer` and `RecordSnapshot` divide the syncer: the first treats the body of a
log as a number and a snapshot as the sequence of the bodies it was built from,
the second treats the log as given and models what applying bodies means. Where
`Syncer` says a snapshot is the right sequence of bodies (`SnapshotExact`, in
`FreshReaderMissesNothing`), `RecordSnapshot` says that folding that sequence over
a snapshot composes (`SnapshotsCompose`).

### From code to model

*Syncer.* `kv` is the key-value file with the two cursor keys, `pools` and
`snaps` the `log-pool_<k>.dat` files and their `.snapshot` files, `recover` the
`:recover-log` key; `cursor`, `openPool`, `queue` are `currentLogPoolIndex` and
`nextLogIDOnCurrentPool`, `logPool`, `chSnapshotBuild`. `stage` says how far the
append that holds `poolLock` is; there is one action per write of `tryNewLog`
(`PreLog`, `AddRecordLog`, `SaveIndex`, `EndAppend`) and per outcome of
`processUnexpectedLogsOnLock` (`RecoverNothing`, `RecoverOtherPool`,
`RecoverDiscard`, `RecoverCommit` then `RecoverClear`, `RecoverFail`).
`AddRecordLog` stamps the index as `logpool.go:58` does, so that recovery compares
a stamped log with one that is not. A call of `GetAllLogs` is `ReadBegin` (under
the lock), `ReadSnapshot`, then one `ReadPool` per pool; a sequence number is a
pool and an index by division, as in the code, and `from = 0` stands for the empty
number. `Restart` may be taken at any state: it keeps `disk` and loads the rest
again. `issued`, `acked` and `rejected` are history variables.

*AppendLog.* One log that is written at its end and committed, with at most one
written log not yet committed. Under the mapping of `SyncerRefinement` the log is the
bodies of all pools up to the next slot's in the order of their numbers, and what
is committed is the position of the saved cursor.

*RecordSnapshot.* `ApplyRecordLog` is the three `Apply...RecordLog` functions with
their version checks, a refused log changing nothing; `ApplyPluginLog` the
type-table cache; `Loaded` and `Build` what `NewSnapshot` makes of stored data.

*TypeTable.* `rows` is the file, `parents` is `validParentIDs`; `...Accepted` are the
conditions of an operation in the order of the code, and the operation does the
rest. `Reset` is two actions, because the cache is cleared outside the lock;
`disturbed` is a history variable: an operation got between the two.

*Wallet.* One operator per Lua script over hashes `wallets` and `locks` with Redis'
own operations beside them (external); `LockerStep` and `WalletStep` are the Go
methods that call them. The history variables: `strict` and `foreign` remember
whether no negative amount and no `AllowNegativeOption` was used, and which accounts
had a lock paid into another account's wallet, or theirs credited from one;
`looped` is the set of accounts one of whose locks was transferred onto itself.

*HistoryTransfer.* The list is newest first, as `LPUSH` leaves it. A call is
`Begin`, `Fetch` (LRANGE), `Store`, `Trim` (LTRIM) in a loop, with a failure at each
and a storage that may ask to stop; pushes come in between. `failed` is a history
variable: a call was given up.

*TrafficPackage, DailyBonus, OperatorSet.* A call is cut between reading and
charging: `BeginConsume`/`EndConsume`, `BeginTry` and one `TryConsume` per package.
`dd` is the `dailyData` of one id, made on first use; the date of a call is the
caller's, `today` is the calendar. `granted` is a history variable: what each
caller's calls reported; `late` remembers an earning for a day before the last one,
and `overshot` that a `ConsumeAmount` beyond the day's five made the bonus grow. The set is one of the callers of both modules and moves them with their
own actions.

*AccountStorage, Account.* `kind` says which storage a behaviour has; the two have
one interface, and where they differ an operation has a disjunct for each.
`accounts` and `ids` are the account map and the index of names
(`accountName2UserID`, the keys `un:*`), `tokens` maps a token - who, under which
name, in which second - to its end. Calls that make several accesses to the storage
are cut between them: `LoginFind`, `LoginRead`, `LoginSet`, `LoginToken`; `CheckBegin`,
`CheckEnd`, `Write` for `SetPropertyData`, whose last step goes by the name in the
token; `RenameBegin`, `RenameEnd`, because lookups read the index without the lock the
rename holds. A check that does not go on to a write is `CheckOnly`: to the rest of the
system it is no more than its cleaning. `Restart` makes the index of a file storage
anew from the accounts. `granted` and `renamed` are history variables: until when a
token was to be good, and who gave up a name.

*Curve.* `cachedDs` has for each speed and label the maps that were made under it, of
which the last is in the cache; a value is the set of samples combined into it, so
that a sample lost or counted under another label shows. `SetData` is
`SetBegin`, then per speed `FindHit` or `FindMiss` and `Make` and `LoadValue`, then
`StoreValue`. `Close` is the routine at one speed whose label has ended. `GetCurves` is
an operator, as it changes nothing.

*WatchDog.* `pc` is where `mainRoutine` is, with one action for each of its reads and
writes of `started`, `failCount` and `lastTouchAt` that are made without the lock; what
`Start` writes in the lock is cut likewise. `failed` and `raced` are history variables.

*TimeUsage, DateStatistics.* `ds` are the events kept; `Counted` is the loop of
`DoStatistics` as a recursive function over the events, of which `Event` is one round,
and `Cleaned` what is left after it. `totals` is the year's data,
`Walk` the way through a month in steps of 24 hours, on which a day of 25 hours is met
twice; `Cells` are the cells `NewMonthData` makes on it and `keys` what
`GetKeysForAt` answers.

### Assumptions about what is not in the repository

* The file library writes a file as a whole or not at all, and a write that
  fails leaves file and memory of the pool as they were. Nothing is assumed of a
  failed write of the traffic and account files, whose contents are changed in
  place: those failures are left out. The statistics ignore the error of their write:
  there the file keeps what it held.
* Redis runs a script as one step, and `LRANGE`, `LTRIM`, `LPUSH`, `HSET`, `EXPIRE` and
  the like do what their documentation says.
* Labels of `timespan` are multiples of their length; `go-cache` drops a value when its
  time is up.
* Amounts are integers (Lua's doubles are exact below 2^53). A field that is read
  without its lock holds what was written last: the watch dog sleeps between two
  rounds.

## 3. Runs

| Run | Bounds and why they are enough | Shows |
|---|---|---|
| `syncer_crash` | 2 logs per pool, 5 logs: two full pools and one begun; a queue of 1, so that it overflows (the code's holds 10); one reader; the SeqID handed in is empty or the last index of a pool, so that recovery finds logs it recognises and logs it does not | type, dense files, acknowledged logs stay, nothing written changes, reads are right and complete, and `AppendLog` is implemented, with restarts and I/O errors at any step |
| `syncer_live` | 5 logs, two pools to close and a snapshot built on a snapshot; a queue with a place for each, so that no request is lost; no crashes; under `FairSpec` | snapshots are exact, a client that starts from one misses nothing, closed pools get snapshots, calls return |
| `record_snapshot` | 2 records, 4 logs (enough for an add, two changes of one version and a delete), cut into pools anywhere | snapshots compose, one writer per version |
| `type_table` | 4 ids, 4 labels: a parent, two children and a transfer target | rows, cache and transfers |
| `wallet` | 2 accounts, 2 locks each, signed amounts, at most 2 coins put in, 1 once a lock was transferred onto itself | totals, conservation, histories, no overdraft |
| `history_transfer` | pages of 2, 6 items: three pages, or two with a rest; failures everywhere; under `FairSpec` | nothing lost, oldest first, nothing twice, the transfer ends, short pages ascend |
| `traffic_package` | 2 callers, 3 packages of 1 or 2, requests up to 3 (over two packages) | no overdraft, charged is reported, oldest first |
| `operator_set` | a set and one caller past it, 2 days, 2 earnings, one package, a request that needs the day's five, the bonus and the package | no balance is negative, balances add up, a day is earned once, events and reports are exact |
| `account` | 2 accounts, 2 names, 2 callers, 3 units of time with tokens of 1 or 2 units and a cleaning after 1, so that a token ends, is renewed and is cleaned while a call uses it; 2 tokens, and no login begins when there are two, for it could not end; both storages, restarts anywhere | names and accounts lead to each other, properties stay, tokens live and end |
| `curve` | speeds 1 and 2, histories of 3 points, 2 goroutines of which the first 2 calls may overlap, 3 samples, 3 units of time, 1 restart: a point of two samples, a label without one, a trim and a map made twice | points are complete, curves show the history |
| `small_parts` | watch dog: 3 failed checks of 2 units, 4 calls; usage: 4 units of time, 3 events of 2 statuses, every span; statistics: two months of two seasons, 9 days each (a week and its ends), all first weekdays, a long day anywhere or nowhere; watch dog under fairness | notices are earned and come, spans are exact, totals add up |

One run shows where the code does not do what its tests say (the lines are quoted
under `findings`):

| Run | Shows |
|---|---|
| `syncer_wedge` | After a restart between `AddRecordLog` and the saving of the cursor recovery compares a stamped log with an unstamped one, drops the record, and every later append is refused. |

Other places where the code keeps a promise only under a condition are in the
properties as that condition, with a history variable for it, so that a run checks
both that the rest holds and that nothing else breaks it:

| Property | Condition | What the code does without it |
|---|---|---|
| `FreshReaderMissesNothing`, `ClosedPoolsGetSnapshots` | `NoRequestLost` in the theorem; checked where it holds: a queue with a place for each pool, no restart | `snapshot.go:61`: a request that is lost is not made again, and the next snapshot is built on nothing. |
| `ParentsUsable`, `CacheCoversParents` | `~disturbed` | `typetable.go:85`: a `Reset` clears the cache after giving the lock back; the parent of a child added in between is forgotten and can be deleted. |
| `TotalIsSum`, `CoinsConserved` | accounts not in `looped`, and `looped = {}` | `lua.go:78`: a lock transferred onto itself is added to the key that is deleted next. |
| `HistoryExplainsWallet` | accounts not in `foreign` | `locker.go:103`: a lock paid into another account's wallet is entered in the history of the locker's account. |
| `NoOverdraft` | `strict` | negative amounts pass every test against overdrafts, and `AllowNegativeOption` switches the tests off. |
| `NothingTwice` | `~failed` | `history.go:112`: a failure between storing and trimming stores items again. |
| `ShortPagesAscend` | up to 3 items | `history.go:65`: from four items on the loop swaps the inner ones back. |
| `EarnedOncePerDay` | `~late` | `dailybonusstorage.go:200`: a call with yesterday's date earns that day, and today, again. |
| `BalancesAddUp` | `~overshot` | `dailybonusoperator.go:57`: what the day's five do not cover is added to the bonus. |
| `NamesLeadBack` | in Redis accounts not in `renamed` | `redisimpls/lua.go:51`: a rename sets the account's field; the key of the old name stays and there is none for the new one. |
| `PropertyStays` | in files accounts not in `renamed` | `account.go:204`: data is written under the name in the token, which may be somebody else's by then. |
| `NoticeEarned` | `~raced` | `watch_dog.go:113`: the count that `Start` sets to zero may be put back by a round under way. |
| `TotalsAddUp` | `~replaced` | `statistics.go:70`: replacing a day's amount replaces its week, month, season and year as well. |
| `PointsComplete` | samples in `alone`, a routine that comes while the next label runs; in the theorem also histories of two points or more | `curve.go:181`: calls at once replace each other's values or maps; a late routine finds the map dropped; where one point is allowed, `:279` drops each as soon as it is added. |
| `CurvesShowHistory` | no point added between the look at the clock and the look at the history, the oldest point apart | `curve.go:307-334`: a point added in between makes every label miss its point; the oldest is never shown. |

Met while reading and in no run:

* `TestDel` says yes for a type with children (`typetable.go:227` reuses a flag), which
  `Del` refuses; a parent whose children were deleted one by one stays in the cache, and
  cannot be deleted, until the table is loaded again (`:297` counts deleted rows,
  `AfterLoad` does not).
* `snapshotLogCount` is not stored: opening pools with another value moves every
  sequence number. A restart in the middle of `logInit` leaves the log begun, and
  `logInit` is not called again.
* A lock whose key is that of the total overwrites the total.
* A login of an account without a configuration fails in Redis (an empty field is
  decoded). A second login of one account in the same second fails in files, and
  shares its token in Redis. In files a renewal asserts that the map holds a
  `time.Time`, which it does not (`fmaccountstorage/storage.go:408`), so that no token is
  ever renewed, and an expired one is accepted until the next cleaning.
* Keys of the statistics are made in the location of the date given, the cells in the
  one of the statistics. A history of a curve that cannot be loaded is begun anew and
  overwritten by the next save.

`record_snapshot`, `curve` and `small_parts` have `CHECK_DEADLOCK FALSE`: their logs,
samples, calls and clocks are bounded and no other operation goes on for ever. Bounds
are CONSTANTS with "bound" in their comment, in guards.

**Fairness.** Safety runs assume none. `Syncer!FairSpec` asks for weak fairness
of the append that holds the lock (a goroutine that runs on; nobody has to begin
one), of the snapshot routine, and of a call of `GetAllLogs` once it has begun.
Weak fairness is enough since nothing takes these steps away once they are
possible: the holder of a lock is not preempted by another. For the syncer fairness is
used only where `CanCrash` and `CanFail` are FALSE, as a process that may be restarted for
ever makes no progress. `HistoryTransfer!FairSpec` asks for weak fairness of a
transfer that has begun, failures included, since a failure ends the call; pushes are
bounded, as a transfer that is overtaken by pushes for ever need not end. For the
watch dog (`MCSmallParts`) time passes, the routine's sleeps end and a `Start` that has
the lock gets to its end; nobody has to start, stop or touch the dog, and how many
checks come in a row is up to the routine.

## 4. Proofs

All proofs hold for every value of the constants that the named assumption of their
module allows.

`SyncerProofs`, from `SyncerAssumption` (any pool size, 0 included, any queue, any
readers, with crashes and failures allowed or not): `TypeCorrect`
(`Spec => []TypeOK`), `FilesDense` (`PoolsDense`), `AcknowledgedLogsStay`
(`AckedDurable`), `LogsNeverChange` (`AppendOnly`). The inductive invariant is

    IInv == TypeOK /\ PendingOK /\ CursorOK /\ PoolsDense /\ StageOK /\ AckedDurable

`PoolsDense` alone is not inductive. A step of an append relies on where the
pending log is: `PendingOK` says there is one at the stages that use it, `StageOK`
that its slot is the next slot of the cursor before `SaveIndex` and the one just
left after it, and that the pool holds it once it is added. `CursorOK` says the
cursor in memory is the saved one, which makes `Restart` harmless and lets a slot
computed from memory speak of the files. `RecoverCommit` moves the cursor past a log
found in the pool; that it is the slot's own is what `Landed` has looked at. The proof
goes action by action (`AppendKeeps`), with `Frame` for the many that leave files and
cursor alone, `Advance` for the two that move the cursor and `AddKeeps` for the one
that writes a pool. `PoolsGrow` gives `AppendOnly`.

Of the readers: `ReadsExact` (`Spec => []ReadExact`). To `IInv` it adds for each
call `CallOK`: what it has is right (`Faithful`), enough if it has ended (`Complete`),
and `OnItsWay`: the number it reads next is the one after those it has, its pool is
within those up to the last, and the last pool holds what was committed when it
began. The first half of the proof shows that nobody else can disturb a call, because
pools only grow and slots only advance (`CallsUndisturbed`); the second that each of its
own steps keeps `CallOK` (`CallBegins`, `CallTakesSnapshot`, `CallReadsPool`), where the
arithmetic of pools and indexes is in `Split` and `Join`.

Of the refinement: `SyncerRefines` (`Spec => ImplementsAppendLog`).
`WriteMaps` shows that `AddRecordLog` is the abstract write, and finds everything before
it committed; `CommitMaps` that a step that moves the saved cursor - `SaveIndex`, or
`RecoverCommit` after a restart - is the abstract commit, also where it crosses into the
next pool; every other step is none (`StutterMaps`). `IssuedOK` bounds the bodies.

Of clients that start from a snapshot: `FreshReaders`
(`Spec /\ []NoRequestLost => []FreshReaderMissesNothing`), also with restarts and
failures, and with `NoneAssumption`, by which a snapshot is told from none.
`NoRequestLost` says that every pool that was left has its snapshot or a request for
it. Without it the property is false: the snapshot of a pool whose predecessor has none is
built on nothing (`snapshot.go:61`). The theorem shows that this is all that can go wrong. Its
invariant is

    IInv /\ RequestsOK /\ ContentOK

`RequestsOK` says that requests are for pools that were left and in the order they were
left, the one in the builder first, so that the last snapshot below the pool being built is
the one of the pool before it; and that all of them lie before the pool of the next slot,
which a build reads whole for that reason. `ContentOK` says that the builder's snapshot, the
stored ones and a reader's are the logs up to their pool, in order. `QuietRequestsKept` shows
where the hypothesis holds: without restarts and failures, as long as the logs that may be
issued do not leave more pools than the queue has places (`QuietRun`, which covers the run
`syncer_live`). `PoolInUse` counts the logs that are issued before a pool is left,
`FewRequests` says that the i-th request is for pool i - 1 or a later one.
`QuietFreshReaders` puts the two together.

`BookkeepingProofs`, from `TableAssumption` (any ids, any labels):

* `TypeTableTyped`: `TableSpec => []TypeOK`.
* `TransfersWellFounded`: `TableSpec => []TransfersEnd`. The invariant is inductive by itself:
  a transfer's target can be used when it is named, so a set of deleted rows closed
  under transfers would have been closed before.
* `ParentsStayUsable` and `CacheCovers`: `TableSpec => []ParentsUsable` and
  `TableSpec => []CacheCoversParents`. Neither is inductive alone: deleting looks only at the
  cache, so that without its cover a parent could go; and the cover speaks of the parents
  of usable rows. `ParentInv` is the conjunction, with the fact that during a `Reset` that is
  not disturbed there are no rows.

and from `SnapshotAssumption` (any records, generators and number of logs):

* `WritersExclude`: `Spec => []OneWriterPerVersion`. The invariant adds that the contents
  are a snapshot and `VersionsGoUp`: every version is a number of logs so far, and what an
  accepted change was made against is older than the row it changed.
* `SnapshotsAddUp`: `Spec => []SnapshotsCompose`. `ComposeInv` says that the last snapshot
  with the logs of the pools after it applied is `Alike` what all logs have made. That is
  less than equal: a plugin's cache may be there and hold nothing, or not be there, and
  what is stored does not tell. `Applied` is a recursive function over the logs;
  `AppliedOneMore` says what one more log does to it, and the rest is that `Apply` keeps
  snapshots alike, and that storing and loading does.

`SmallPartsProofs`, from `WatchDogAssumption` (any count and duration): `DogTyped` and
`NoticesEarned` (`DogSpec => []NoticeEarned`). The invariant says, at each point of the
round, how the count and what was read of it relate to the checks that failed, unless
the round was raced by `Start`.
From `TimeUsageAssumption` (any statuses and bounds), `SpansExact`
(`UsageSpec => []UsageExact`). The inductive invariant, `UsageInv`, says that the events
kept are all but the first of the events there were, in the order of time, and that if
any were thrown away, the first one kept is no later than the end of the spans cleaned.
From it the loop is proved exact event by event (`EventExact`): `Exact` says that the
durations so far are those up to the last event counted, that the events before it are
behind and the others at the span's end or later. `LoopBounded` shows which event a
cleaning keeps.
From `DateStatisticsAssumption` (any months, length of month and amounts, in
every calendar), `CalendarAddsUp` (`DatesSpec => []TotalsAddUp`). Its first half is
about the calendar alone: `WalkInOrder` says in which order the walk meets the days of a
month that may have a long one, `WeeksMeet` that the number of the week goes up exactly
where a Sunday is left behind, and `SameWeekMeans` that so does the calendar's week; by
which each date has a cell of its own (`WellKeyed`). Its second half is that a change adds
the same to a day and to each total it is part of (`More`), in memory and in the file.

Of the curves, from `CurveAssumption` (any speeds, any length of a history, any number of
goroutines): `CurvesShow` (`Spec => []CurvesShowHistory`) and `PointsAreComplete`
(`Spec => PointsComplete`, where `maxPointCount >= 2`; with 1 a point is dropped as
soon as it is added and there is nothing to be complete). The first rests on

    CurveOK == CurveClock /\ CacheOK /\ CallsOK /\ HistoriesOK

What a map gathered is of its label (`CacheOK`), a call holds a map of the key it is at
(`CallsOK`), and the points of a history, in memory and on disk, are at the times of labels,
one after the other, all before the label that runs (`HistoriesOK`). From there it is the
loop of `GetCurves`: `LoopAt` says after each label which points were shown and where the
search in the history has come to, and `CurveOfHistory` is the result, for any number of labels
asked for. The second adds

    AloneOK == ExpiryOK /\ AloneKept /\ CallsAlone

A map does not leave the cache before the label after its own has ended (`ExpiryOK`). Until
then the last map of a key has the samples whose calls had the cache to themselves, and no
call under way can put back a value that was read before them (`AloneKept`); a call that has
had the cache to itself so far has left its sample at every speed it has passed
(`CallsAlone`). Closing adds what the map has gathered as the last point (`GatheredHasAlone`,
`PointIsLast`).

`WalletProofs`, from `WalletAssumption` (any finite set of accounts, any keys, any
amounts, negative ones included): `TotalsAreSums` (`TotalIsSum`), `CoinsAreConserved`
(`CoinsConserved`), `HistoriesExplainWallets` (`HistoryExplainsWallet`) and
`NobodyOverdraws` (`NoOverdraft`). The inductive invariant is

    WalletInv == WalletTyped /\ TotalsFit /\ Conserved /\ HistoryExplainsWallet /\ NothingOwed

The four properties need each other's types and little more: each says of all accounts
what a script keeps of the one or two it touches. So the proof is in two halves. The first is
about single hashes: what setting, raising and deleting a field do to the sum of a hash and
to its total (`SetKeepsFit`, `TakeKeepsFit`, `SetMoves`, `TakeMoves`). The second takes that
to the sum over all accounts (`HeldUpdate`), and goes script by script
(`LockTransferKeeps`, `WalletToLockerKeeps` and so on).

Of the history, from `HistoryAssumption` (pages of any length, any number of
items, failures or not) and `OneAtATime`, that an account has one transfer at a time:
`TransferLosesNothing` (`NothingLost`), `StorageSeesOldestFirst` (`OldestFirst`) and
`StoredOnceUnlessGivenUp` (`NothingTwice`). The invariant says that the list is the
stretch of items above the `Trimmed` ones (`ListOK`), that the stored items are those from
1 on, the trimmed ones among them (`StoredOK`), and that the page of a call is the end of
the list with what it has done of it stored (`CallOK`), to the item unless a call was given
up. `PageIsEnd` and `TrimLeaves` say what LRANGE and LTRIM do to a stretch; pushes come
in at the other end. `ShortPagesInOrder` (`ShortPagesAscend`) needs no `OneAtATime`:
however many transfers trim by pages that are out of date, what they leave is a stretch
(`PagesInv`), any page of it is one (`PageIsStretch`), and the loop that turns it round is
right on three items (`ReversedShort`).

`TrafficPackageProofs`, from `TrafficAssumption` (any finite set of callers, any sizes and
amounts): `PackagesTyped` (`TypeOK`, which says that no package is overdrawn),
`ChargesAreReported` (`ChargedIsReported`) and `OldestUsedFirst` (`OldestFirst`). The
inductive invariant is

    TrafficInv == WellFormed /\ ChargedIsReported /\ OldestFirst

`WellFormed` says of each call that charges that what it has read is `InOrder`: those it
has yet to ask are in the order in which they were added, and there is nothing left on
those it has passed. `OldestFirst` relies on that. `ChargedIsReported` is a sum over packages on one
side and over callers on the other; a charge moves both by the same amount.

`OperatorSetProofs`, from `SetAssumption`: `BonusAddsUp` (`BalancesAddUp`),
`DayEarnedOnce` (`EarnedOncePerDay`), `EventsTellAll` (`EventsExplainCharges`),
`SetReportsExactly` (`ReportExact`), `PackagesOfSet`. The inductive invariant is

    SetInv == BonusInv /\ PP!TrafficInv /\ SetFits

The set moves the two operators with their own actions, being one of their callers, so
that `TrafficInv` is taken over as it stands, from an instance of `TrafficPackageProofs`.
`BonusInv` is the same for the bonus: days are earned in order (`DaysEarned`), and balances
add up unless `overshot`. `SetFits` says what a call of the set has taken so far, its
events and what it may still ask for, at each point of its loop, also while one of the
operators is in the middle of its own call.

`Sums` has what these proofs need of `SumFunctionOnSet`, whose definition is recursive:
that it has one solution, that an element can be taken out (`SumRemove`), and what an update
does (`SumUpdate`). Induction is by a smallest counterexample (`MinimalSubset`, and
`IndexInduction` over `0..n`), since the induction theorems of the library take an operator
as a parameter.

`AccountProofs`, from the assumptions of the two modules (any accounts, names, callers,
durations; both storages): `AccountTyped`, `NamesAndAccountsAgree` (`NamesLeadBack`),
`PropertiesStay` (`PropertyStays`), `TokensStayAlive` (`TokensLive`) and
`ChecksLeaveNoLateToken` (`LateTokensEnd`). The inductive invariant is

    IInv == TypeOK /\ NamesInv /\ BearersInv /\ PropertyStays /\ TokensInv

`NamesInv` is about the index during a rename: the name that was taken off is nobody's,
nobody else can take the new one, and no other rename is under way. `BearersInv` says
that who a token or a call names bore that name when it was issued, and bears it still
unless renamed: `PropertyStays` relies on it, as the write goes by name. `TokensInv`
relates a token's end to what was promised, and the tokens that are left to the time of
the last cleaning.

**Only model-checked.** Liveness (`ClosedPoolsGetSnapshots`, `CallsReturn`,
`TransferReturns`, `BarksAtSilence`), which is out of the prover's reach. Every invariant and
every action property of a passing run is stated by a theorem, `FreshReaderMissesNothing` and
`PointsComplete` under the hypotheses above. That `SyncerAssumption` and the others can be
met is what the runs show, which evaluate them.

## 5. Not modelled

* `logInit` of `NewSyncer`, which appends before anyone else can; the end of routines at
  shutdown; getters that change nothing.
* Failed writes of the traffic and account files and failed commands of the account
  storage in Redis (see the assumptions above); two transfers of one account's history at
  once, which the code leaves to its callers to avoid; locks whose key is that of the total.
* What a curve's observer is told, and the arithmetic and encoding of its points; the data
  and the time of creation of an account; the data beside a status; three of the four
  amounts of a day.
* Encodings, logging, the test client.

What would add most next: failed writes of data
changed in place as a CONSTANT assumption, and the histories of curves under a routine
that is late by several labels.
