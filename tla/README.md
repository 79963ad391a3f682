# TLA+ models of the Trashscanner API

Specifications of the server in `src/` (Go): its predictor and the API before
it, its tokens, its accounts, its avatars, its lists and its life cycle, model-checked with TLC on small instances and
proved with TLAPS for instances of any size. `PROJECT.json` lists the
components, the runs, the slips each property catches, the source lines of
every definition, the findings, the hazards and the theorems.

## 1. The system

A single Go process serves HTTP. It keeps a few words of state in memory
(package `predictor`); everything else is in PostgreSQL (through
`internal/store`, over queries generated by sqlc) and in a MinIO bucket
(`internal/filestore`). It calls an external prediction service over HTTP.

| Component | State | Operations | Talks to |
|---|---|---|---|
| Predictor (`predictor/predictor.go`) | `limiter` (atomic counter), `scansInProcessing` (set behind a mutex), one goroutine per accepted scan | `Predict`, `processPrediction`, `tryPutScanInProcessing`, `deleteScanFromProcessing` | store, prediction client, statistics |
| Prediction client (`predictor/client.go`) | none | `RequestPredict` | prediction service |
| Prediction store (`store/predictions.go`, `store/store.go`) | table `predictions` (`trash_scan` UNIQUE) | `StartPrediction`, `CompletePrediction`, two reads, `ExecTx` | PostgreSQL |
| Statistics (`stats.go`, `store/stats.go`) | table `stats`, one row a user | `UpdateStats`: read, change in memory, write back | store |
| Sessions (`auth/manager.go`, `store/tokens.go`) | table `refresh_tokens` | `CreateNewPair`, `Refresh`, `RevokeAllUserTokens` | store, JWT generator |
| JWT generator (`auth/jwt.go`) | key pair | `newPair`, `parseAccess`, `parseRefresh` | - |
| Accounts (`api/auth.go`, `api/user.go`, `store/user.go`) | table `users` | register, login, refresh, logout, update, change of password, deletion, avatar | store, sessions, file store |
| File store (`filestore/filestore.go`) | bucket | `UploadScan`, `UpdateAvatar`, `DeleteAvatar` | MinIO |
| Predictions API (`api/predict.go`) | none, but the struct it shares with the goroutine | start, get, list | file store, predictor, store |
| Administration (`api/admin.go`, `store/admin.go`) | none | list, detail, create | store |
| Login history (`api/login_history.go`, `store/login_history.go`) | table `login_history` | insert, paged read | store |
| Life cycle (`cmd/trashscanner/main.go`, `api/server.go`, `database/migrations.go`) | `healthy`, the listener, three channels; schema and bucket outlive the process | boot and migrations, start, shutdown on a signal | everything |
| Router, middleware, RBAC (`api/router.go`, `api/common.go`, `rbac/rbac.go`, `api/cookies.go`) | static tables; the tokens are with the client | preflight, authentication, the user's lookup, the role | JWT generator, store |
| Values: trash types, status ladder, errors, query parameters, DTOs, configuration, logging | none | conversions | - |

How they interact: a handler runs in a goroutine of its own and makes a handful
of calls to store, bucket or predictor. `userMiddleware` and `loginMiddleware`
read the user into the request's context before the handler runs, and handlers
act on that copy. `Predict` leaves behind a goroutine that outlives the request.
Only `processPrediction` uses a transaction (`ExecTx`); every other pair of
calls in the code is two statements between which anything may run.

What is hard, and what makes each component correct:

* **Predictor.** Two pieces of memory with two disciplines (an atomic counter
  tested and taken in two operations; a set behind a mutex), given back on five
  paths by two goroutines; a row written before the goroutine that resolves it
  exists; a transaction that may fail at any statement, commit without
  an answer, or meet a deleted account; a fallback whose error is ignored; a
  restart that forgets the memory and keeps the rows. Correct: slots and scans
  are given back exactly once, one row a scan, a row resolved once and in step
  with the statistics, final statuses final, nothing left `processing` without
  a reason, statistics never inflated, every accepted scan resolved.
* **Predictions API.** The scan is uploaded before anyone knows whether it will be
  admitted; the answer is encoded from a struct the goroutine writes to with no
  lock; a client polls a row that a fallback may take back; an administrator
  reads statistics and list in two statements; the status and the counts by type
  are written back over what others wrote. Correct: an accepted scan is stored,
  what the answer shows is not taken back without a cause, polling never goes
  backwards, list and statistics, and the columns of the statistics, agree.
* **Sessions.** Revocation of the old tokens and insertion of the new one are
  two statements, and a refresh decides on a row it read before. Correct: a
  token revoked or expired when it is presented makes no pair in any
  interleaving, one active token a user, nobody is left without a session,
  users are isolated.
* **Access control.** Access tokens are valid by signature; a logout or a deletion
  is never looked up, and half of the routes do not load the user. Correct: a
  logout or a deletion ends all access within the life of an access token.
* **Accounts.** Look up, then insert; load the user, then write. Correct: one
  account a login, a confirmed password stays, an answered change outlasts what
  was over when it began, a deleted account stays deleted, a confirmed password
  can be used.
* **Avatars.** Bucket and column share no transaction and the client chooses the
  file name. Correct: no objects left behind, the column resolves.
* **Login history and lists.** Pages by OFFSET while rows are inserted, ordered
  by the time their transactions began and visible when they commit; a list and
  its count from two snapshots. Correct: none missing, none twice without a
  cause, never more listed than counted.
* **Life cycle.** Two goroutines and three channels; the server returns before
  the shutdown is over; `healthy` is a plain bool; migrations may be killed
  half-way. Correct: what was accepted is answered before a graceful end, nobody
  is told "unhealthy" without a signal, a signal ends the process, a start is
  refused only for a cause.

## 2. Modules

| Module | Models | Extends |
|---|---|---|
| `PredictionLedger` | what becomes of the rows: an abstract specification | - |
| `PredictionView` | what a client that polls may see: an abstract specification | - |
| `SessionSlots` | what the server promises about sessions: an abstract specification | - |
| `AccountBook` | what it promises the owner of an account: an abstract specification | - |
| `Predictor` | `predictor.go` with the store, transaction and statistics calls it makes | instance of `PredictionLedger` |
| `PredictorProofs` | theorems about `Predictor` | `Predictor` |
| `Errlocal` | the kinds of error and the status of each | - |
| `Predictions`, `PredictionsProofs` | `predict.go` (upload, `Predict`, the answer, polling), `getAdminUser`, status and counts by type, composed with `Predictor` | `Predictor`, `Errlocal`; instance of `PredictionView` |
| `Sessions`, `SessionsProofs` | `manager.go`, `tokens.go` and the handlers login, refresh, logout, deletion | instance of `SessionSlots` |
| `Access`, `AccessProofs` | time, access tokens and the routes behind `authMiddleware`, composed with `Sessions` | `Sessions`, `Errlocal` |
| `Accounts`, `AccountsProofs` | register, createUser, changePassword, updateUser, deleteUser over `store/user.go` | instance of `AccountBook` |
| `Avatars`, `AvatarsProofs` | setAvatar, deleteAvatar over `filestore.go` and the column | - |
| `Paging`, `PagingProofs` | the lists of logins, predictions and users, read page by page while rows are written | - |
| `Lifecycle`, `LifecycleProofs` | `main.go` with Start, Shutdown and `RunMigrations`, over several starts | - |
| `MC*` | the instances TLC checks | the module of that name |

In every module a *request* is one call of a handler (or of `Predict`), `pc[r]`
names the store, bucket or memory operation it makes next, and each such
operation is one action, so that requests interleave exactly where the code lets
them. What a handler keeps in local variables is a variable indexed by the
request (`seen`, `had`, `presents`). Variables marked *history* are never read
by an action; they let a property name what happened before.

**Predictor.** `limiter` and `inProcess` are the fields of the struct; `row`,
`stats` and `deleted` are committed database state; `lock` is the row lock an
UPDATE of `stats` holds until the transaction ends. `LoadLimiter` is
`predictor.go:46`, `AddLimiter` `:49`, `TryPut` the critical section `:102-111`,
`Undo` `:51-55`, `StartPrediction`/`StartConflict`/`StartFails` the INSERT and
its outcomes `:59-66`, `Release` and `DeleteScan` the last two statements of both
the failed `Predict` and `processPrediction`, in their order. Inside `ExecTx`,
`BeginTx`, `CompleteInTx`, `GetUser`, `UpdateStats` and `Commit` are the
statements at READ COMMITTED: what the transaction wrote is applied at `Commit`
(the writes to the request's own row are read by nobody before that), what it
reads is read at `GetUser`. Any of them may fail, which rolls back and leads to
the `Fallback`, whose failure is ignored as in the code. `CommitAnswerLost` and
`StartAnswerLost` are statements that took effect although the caller saw an
error (a timeout of the context, a broken connection). `Crash` is a stop of the
process and a new start: memory and open transactions are gone, rows stay.
`faults` records which call of which request failed, so that a request can be
excused by its own failures only; `RolledBack(r)` says that the transaction of
`r` cannot have succeeded.

**PredictionLedger.** Three actions: a row is accepted for a scan that has none,
resolved once together with its credit, or withdrawn (marked failed). `Predictor`
refines it with the identity on `row` and `committed`.

**Predictions.** Every action of `Predictor` is an action here, with what it does to
the new variables, so `ApiSpec` implements the specification of `Predictor`.
`handler[r]` is the statement of `startPrediction`: `BadForm`, `Upload` and
`UploadFails` come before `Predict`, `RunPredict` is a statement of `Predict` with
what the handler makes of its end, `Encode` is `WriteResponse`. The struct is
shared: `Encoded` is the set of what the encoder can read of `Error` and `Result`
while the goroutine writes them, half a string, on which it panics, included.
`AskService` chooses the types of the answer; `ReadScore` and `WriteScore` carry
status and counts by type along with the statistics of `Predictor`, over the
ladder `StatusOf` and the names `TrashName`. `Look` is `getPrediction`, `Detail`
the two statements of `getAdminUser`. A scan has a key of its own, because its
name is a fresh UUID.

**PredictionView.** A status is seen; what has been seen as final is seen for ever,
unless the prediction was withdrawn. The withdrawn are those whose COMMIT went
unheard (`unheard` of `Predictor`).

**Sessions.** A pair is named by the request that made it, as every JWT has an
ID of its own. `token[r]` is the state of the row, `delivered` the pairs clients
hold. `FindLogin`/`FindClient`/`FindOwner` are the lookups of the user,
`GetToken` is `GetRefreshTokenByHash` (neither revoked nor expired), `Revoke` and
`Insert` are `manager.go:55` and `:59`. Here a client that was once given a pair may
call logout or delete the account whatever became of its refresh token.

**SessionSlots.** A user has a slot: it is cleared as a whole, which revokes for good and
touches nobody else, and a token is opened in it once, when it is empty or
*crowded*. `Sessions` refines it with `token`, `delivered` and, for the crowded
slots, `overlap`, the users of whom two pairs were made at once. Everything
else a handler does, its reads, its failures and the expiry of rows included,
is a stutter or clears or opens a slot.

**Access.** `clock` counts ticks; both tokens of a pair carry `issuedAt` and live
`AccessTTL` and `RefreshTTL`. Every action of `Sessions` is an action here:
logout and deletion must pass `ParseAccess`, a pair is stamped when it is made
(`Renew`), a refresh token expires in its tick (`ExpireOnTime`). A call `c` is a
request on any route, made once: `Preflight`, `CallCleared` (a cookie that is gone, or left
empty: then `authMiddleware` takes the message of a nil error and panics),
`Authenticate`, with `RequireRole` on the routes of administration, `FindUser` on
those of the user, `Serve`. `ended[u]` is when the user last logged out or was
deleted, `heirs[u]` the pairs that need not have ended then: those in the making
at that moment, of later logins, and renewed from such.

**Accounts.** An account is named by the request that inserted it. A hash is
named by the password it matches; `HashOf` returns the empty string for what
bcrypt refuses (more than 72 bytes) because `ToModel` and `changePassword`
ignore the error. `SaveName` writes only the name, as the query does. Each query
of `users.sql` is an operator (`CreateUser`, `GetUserByID`, `GetUserByLogin`,
`UpdateUser`, `UpdateUserPassword`, `SoftDelete`) that the actions are made of.
The history `follows[r]` is what was over about the account when the change `r`
began, `overruled` what an answered change has followed: changes of one password
that overlap may land in either order, but not the overruled.

**AccountBook.** An account is opened once, under a free or contested login, its
secret is changed, confirmed as it is stored, and it is closed for good. In
`Accounts` the contested logins are `raced`, and what an owner knows (`Known`) is
the hash of the password last confirmed, or nothing while another is about to be
confirmed and after changes that ran at once or were never answered.

**Avatars.** A request reads the column in the middleware (`had`), removes that
object, puts its own, writes the column: three calls, each of which may fail
without effect (`CallFails`) or with it (`AnswerLost`). The history `beside[r]` is
the requests that were running when `r` began: `Together` says of two requests
that they ran at once.

**Paging.** A table holds the rows of one of the three lists (`Lists`). `stamp`
is the column it is ordered by, `begun` the time of an open transaction that
will write it: `now()` is when the transaction began. A page is the rows whose
rank is within LIMIT and OFFSET. `ReadLogins` is one turn of the loop of
`GetLoginHistory`; for predictions and users the loop is the client's, who asks
for the next page as long as pages are full. `ReadUsers` and `ReadCount` are the
two statements of `getUsersList`. No two transactions begin at the same time:
with equal times the order of PostgreSQL is arbitrary, for want of a second
column in ORDER BY, and nothing below would hold.

**Lifecycle.** `main` names the next step of `main()`: the boot sequence
(`LoadConfig` to `GoServe`), then the select loop with `Shutdown`, which runs in
the same goroutine. `serve` is the goroutine that calls `Start`. Of
`http.Server` only what the two rely on is kept (section 5). `schema` and
`bucket` outlive the process: `Kill` may strike between any two steps, and
`RunMigrations` and `Migrated` are the two ends of a migration. A boot that fails
after the store was opened ends with code 0, as `main` returns.

## 3. Runs

| Run | Instance | Shows |
|---|---|---|
| `predictor_safety` | three requests: two of one user (they meet in `stats`), two with one scan (they meet in `scansInProcessing` and in the UNIQUE index), limit 2, every kind of store failure (two in all), one restart | slot and scan accounting, stranded rows explained, statistics never inflated, rows where their requests left them, credit and row agree, final rows stable, refinement of `PredictionLedger` |
| `predictor_live` | the same requests, limit 1, one failure of any kind but the fallback's, no restart, fairness | every accepted prediction is resolved; limiter and scan set return to empty |
| `predictor_limit` | two requests, limit 1 | **violation** of `LimitRespected` |
| `predictor_stats` | two requests of one user | **violation** of `StatsExact` |
| `predictions_api` | two requests of one user, who is one classified scan short of a status, limit 1, an answer of one known type and two without a name, one failure (of BEGIN, COMMIT or the fallback), one restart, a deletion, one client that polls, one administrator | no accepted scan is lost; what the 202 shows is not taken back; the columns of the statistics, and the statistics and the list, agree; refinement of `PredictionView` |
| `sessions_safety` | three requests about one user, one about another (an administrator), one store failure, a client that calls the routes, an access token that lives one tick and a refresh token that lives two | hopeless requests make no token; one active token unless two pairs were made at once; nobody left without a session; refinement of `SessionSlots`; a logout or a deletion ends all access in time |
| `accounts_safety` | four requests, two logins, two good passwords and one too long | one account a login unless raced; a confirmed password stays; an answered change is not undone by an earlier one, also when changes overlap, fail or lose their answers; refinement of `AccountBook` |
| `accounts_unique` | two registrations | **violation** of `UniqueLogin` |
| `accounts_usable` | two requests, one password too long | **violation** of `PasswordUsable` |
| `avatars_safety` | four requests, one file name that all may use and one of its own for each | strays and dangling columns are explained, under shared file names too; requests one after another resolve |
| `paging_safety` | four rows in pages of two, six transactions, all three lists | nothing missed, doubles explained, never more users listed than counted |
| `process_life` | two starts, two requests and two signals for each, one failure, kills, fairness | graceful ends answer everything, no false alarm of health, refused starts explained; a signal ends the process |

The bounds. A race in this code is between the read and the write of one
request and a step of another, so two requests per contended thing (a user's
row, a scan, a login, an avatar) are what a race needs. The instances have a
third, so that something happened before the race or comes after it (a session
to be replaced, an account to change, an avatar to remove), and one of another
user where isolation matters. Two failures are what it takes to strand a row
(the transaction and the fallback); one restart is enough since a restart resets
all memory and rows are the only thing a second one could see differently.
Four rows in pages of two give a second full page behind a first, or a part of
one, and six transactions write every row and move two again. In
`predictions_api` what differs between the requests is only where they are, so
one client that polls and one reading of the detail are enough; the answer of
the service has two types without a name because that is what makes results and
counts collide. In `sessions_safety` two ticks let every token live and expire
and leave one for a pair that was renewed. Two signals are
one more than `signCh` holds; two starts are a first and one that finds what it
left.
`MaxFaults`, `MaxCrashes`, `MaxTime`, `MaxStarts` and `MaxSignals` are the only
bounds on behaviours, with `Watched`, the requests whose prediction a client
polls: everything else ends by itself, because a request is
served once. Deadlock is checked in every
run; the action `Quiet` (`AllOver` in `Predictions` and `Access`) lets a behaviour end only
when all requests are over. `MCPredictions` also evaluates the steps of the
ladder that the comments of `models/stats.go` give.

Symmetry is used where requests (with the file names of their own), rows or
passwords are interchangeable and no temporal property with fairness is checked.

**Fairness.** In `predictor_live`, `Fairness` is weak fairness of the next
step of each request that has arrived. The code justifies it step by step: a
goroutine that can run is eventually scheduled; the mutex is held for two map
operations; `RequestPredict` ends because the HTTP client has a timeout of ten
seconds; store calls end because each derives a context with a timeout of five
seconds; BEGIN and COMMIT use the context as it is and end when the server or the
connection does. The wait for a row lock ends because its holder commits, rolls
back or times out. No fairness is assumed of arrivals, deletions, failures or
restarts. `AcceptedResolves` needs a fallback that reaches the database and no
restart: `StrandedExplained` says exactly what happens otherwise. In
`process_life` it is weak fairness of the loop of `main` and of the goroutine
that serves, which covers the timer of `Shutdown` (`ForceClose`); handlers,
clients and signals may stop at any point. Were signals without end, `select`
might choose them for ever; with finitely many it cannot.

### What the violations show

* `predictor_limit`: two requests load the limiter at `predictor.go:46` before
  either adds at `:49`; both are admitted under a limit of one.
* `predictor_stats`: two transactions of one user both read the statistics
  (`stats.go:16`) before either commits; `files_scanned` ends one short.
* `accounts_unique`: two registrations both find the login free
  (`store/user.go:18`); the migrated table has only a plain index on `login`
  (`000001_init.up.sql:12`), while `schema.sql:3` says UNIQUE.
* `accounts_usable`: a password of at most 64 characters can take more than 72
  bytes; the empty string is stored as its hash and the client is told success.

The theorems `LimitInTurn`, `StatsExactAlone`, `LoginsUniqueInTurn` and
`PasswordsUsable` (section 4) say what each of the four claims lacks: it holds
of requests that pass the two steps in question one at a time, or of passwords
bcrypt accepts, and nothing else in the code can break it.

More weaknesses need no run of their own: they are the excused cases of
properties that hold.

* `SingleUnlessOverlap`: two pairs made at once leave two active tokens.
* `FadesOut`: a login or refresh past its revocation (`manager.go:55`) inserts its
  token after a logout revoked (`user.go:188`); it is an heir, and so is whatever
  is renewed with it. Within the life of an access token, a client that logged
  out or was deleted still passes `authMiddleware`, and the routes of predictions
  and administration serve it, as they do not load the user.
* `DanglingExplained`: under a shared file name, a removal between another
  request's upload and its column leaves a column that names nothing. It takes
  a request that set out from this avatar beside the upload of the same name.
* `StrandedExplained`: a restart leaves the row of every request it strikes
  `processing`, since nothing resumes it, and so does a shutdown, which does not
  wait for `processPrediction` (`main.go:83`). The property says that a restart
  strands no other row; it cannot say that it strands none.
* `LaterChangeStands`: of two changes made at once from one old password both are
  answered with success, and the one that is written last stays.
* `ScansStored`: a refused or failed request leaves its scan in the bucket.
* `ShownAgrees`: the answer may be cut short by the race with the goroutine, or
  show a result whose row then fails.
* `PredictionView`: a client sees `completed` and later `failed` if a COMMIT took
  effect whose answer was lost (`Withdraw`).

### Slips the properties catch

Beside some definitions stands a variant nobody uses: the code with a plausible
slip. Each property is violated when the variant takes the definition's place.

| Slip | in place of | caught by |
|---|---|---|
| `CreditPenalty`: ten points off for a failed scan | `Credit` | `TypeOK` |
| `CreditAlways`: ten points for every scan | `Credit` | `StatsNeverInflated` |
| `UndoForgotten`: the refused request keeps its slot | `Undo` | `SlotAccounting`, `Drains` |
| `TryPutBlind`: no test before the insertion | `TryPut` | `ScanAccounting` |
| `TxFailsQuietly`: no fallback after a failed transaction | `TxFails` | `StrandedExplained`, `AcceptedResolves` |
| `CompleteOutsideTx`: the row updated outside the transaction | `CompleteInTx` | `RowFollowsRequest`, `LedgerSpec` |
| `FallbackCompletes` | `Fallback` | `CreditMatchesRow`, `ShownAgrees` |
| `CommitReportsRollback`: the fallback after a commit that succeeded | `Commit` | `FinalStable`, `ViewSpec` |
| `CodeForgotten`: an error of no known kind answered with status 0 | `CodeOf` | `ApiTypeOK` |
| `UploadErrorIgnored`: `Predict` although the upload failed | `UploadFails` | `ScansStored` |
| `CountEachType`: types counted one by one instead of names | `CountTypes` | `ScoreConsistent` |
| `ListBeforeUser`: the order of the two reads swapped | `Detail` | `DetailConsistent` |
| `RevokeNobody`, `RevokeEverybody` | `Revoked` | `SingleUnlessOverlap`, `SlotSpec` |
| `ParseAnyAge`: expiry not looked at | `ParseAccess` | `FadesOut` |
| `CallClearedGoesOn`: no `return` after the 401, the handler runs for nobody | `CallCleared` | `AccessTypeOK` |
| `GetTokenAny`: revoked rows found too | `GetToken` | `LateNeverIssues` |
| `InsertThenRevoke`: the order swapped | `Insert` | `SessionSurvives` |
| `HashReportsError` | `HashOf` | `TypeOK` |
| `CheckForgotten`: no lookup before the insert | `CheckLogin` | `UniqueUnlessRaced` |
| `SaveWholeUser`: the stale user written back whole | `SaveName` | `PasswordKept`, `BookSpec` |
| `CallFailsRestores`: the hash read before written back when a change fails | `CallFails` | `LaterChangeStands` |
| `SaveEmpty`: an empty string for no avatar | `SaveColumn` | `TypeOK` |
| `RemoveForgotten`; `RemoveCurrent`: the avatar of now, not the one read | `RemoveObject` | `StrayExplained`; `DanglingExplained` |
| `PageOldestFirst`: ascending order | `Page` | `NoneMissed` |
| `AdvanceShort`: the offset one short | `Advance` | `TypeOK`, `TwiceExplained` |
| `CountBefore`: the count of an earlier snapshot | `CountUsers` | `ListWithinCount` |
| `SignalCounted`: a second signal kept | `Deliver` | `TypeOK` |
| `CloseAtOnce`: Close without Shutdown | `BeginDrain` | `AnswersKept` |
| `StartUnwell`: `healthy` not set before listening | `SetHealthy` | `UnhealthyAsked` |
| `MakeBucketStrict`: an existing bucket taken for an error | `MakeBucket` | `RefusalExplained` |
| `NoDeadline`: Shutdown without a timeout | `TimeIsUp` | `SignalEnds` |

## 4. Proofs

Most theorems are of the form `Spec => []Inv` or `Spec => [][A]_vars`; those of a
refinement are `Spec => Abstract!Spec`. A few are `Spec /\ []H => []Inv`, where
`H` restricts which requests run beside each other, or which passwords are chosen:
they say under what circumstances a claim holds that does not hold in general, and
behaviours with failures, restarts and other users' requests satisfy `H`. All hold
for any sets of requests, users, scans, logins and keys and any bounds. The
assumptions are those on the constants: owners and scans of requests are
functions, the requests of `Predictor` and `Sessions` are finitely many (needed
for cardinalities), so are the rows of `Paging`, whose pages have a positive size,
the limit is positive, bcrypt's refused passwords are passwords, every request of
`Predictions` has a scan of its own, types are bytes, ratings and lifetimes are
numbers, a user has one of two roles.

* **Predictor.** `TypeCorrect`. `SlotsCounted` counts `SlotHolders` with the
  lemmas `SlotTaken` and `SlotReturned` (one element enters or leaves a finite
  set) and is inductive with the types. `ScansExclusive` is inductive as it
  stands: its second part (no two holders of one scan) is what makes removing the
  entry right for its first. `RowsFollowRequests` ties the row to the program
  counter; it is the invariant under which every step maps to a step of the ledger
  or stutters (`ImplementsLedger`, with the refinement mapping of the instance
  `Ledger`); `LedgerHolds` adds that no two rows carry one scan and that credit
  and row agree. `FinalRowsStable` is an action property from the same invariant.
  `StrandedRowsExplained` adds `TroubleExplained`: whoever runs the fallback was
  rolled back itself, or has committed unheard and so has no row to strand. `StatsBounded` adds `SeenBounded`: what a
  transaction has read was bounded by the counts when it read it, and counts only
  grow, so writing it back plus one stays bounded.
* **Predictor, why it comes to rest.** `NeverDeadlocked` by `LocksHeld` (the lock
  of a user is held exactly by a transaction of that user about to commit):
  whoever waits for a row waits for a transaction about to commit.
  `EveryStepForward`: each step raises the `Rank` of its request, at most fourteen
  times. `RestLeavesNothing` combines the accounts of slots, scans and locks.
  `AcceptedEndsFinal` (when the fallback reaches the database) by `AcceptedInv`.
  With fairness, which TLC adds, these four are why `Drains` and
  `AcceptedResolves` hold.
* **Predictor, what the refuted claims lack.** The *gate* is the set of requests
  that read the limiter below the limit and have not added to it.
  `OvershootBounded`: if never more than n stand in it, the limit is overshot by
  at most n - 1, by `GateInv`: slots taken plus those that will be taken without
  another test are at most the limit plus n - 1. `LimitInTurn` is the case n = 1.
  `StatsExactAlone`, for each user: files and rating equal what is committed as
  long as no two transactions of that user overlap, by `ExactInv`: what a
  transaction has read is still there when it writes.
* **Predictions.** `ApiIsPredictor`: every step of the API is a step of
  `Predictor` or leaves it alone, so the theorems above hold behind the API
  (`Inherited`) and the new invariants rest on them. `ImplementsView` is a
  refinement: the row moves only forward, except from `completed` to `failed` for
  a COMMIT that went unheard (`RowMoves`), and what is seen is a row of some
  earlier moment. `ScansKept` by `HandlerInv`, which ties the handler to the
  program counter of its request; `ShownHolds` by `ShownInv` with `OutcomeInv`
  (what the goroutine was answered decides what it may write). `ScoresConsistent`
  by `ScoreInv`: what a transaction has read fits the statistics *it* read, so
  what it writes fits what it writes; `StatusExists` says the ladder has a status
  for every rating. `DetailsConsistent` by `DetailInv`: the statistics read count
  no more than the requests resolved by then (`StatsNeverInflated`), which only
  grow and whose rows are final. `TalliesExactAlone` extends `StatsExactAlone` to
  the counts by type (`TallyInv`). `PromisesKept` collects the guarantees of
  `Predictor` that hold behind the API.
* **Sessions.** `TokensFollowRequests` (a row exists only once its request
  inserted). `TokensIsolated` is an action property. `LateRefused` needs the
  invariant that a late request is *still* hopeless: deletion, expiry and
  revocation are final. `OneSession` needs, for a user whose pairs never
  overlapped, that a request about to insert is alone and that nothing is active
  then. `NobodyLockedOut` needs that whoever is about to revoke inserts afterwards
  unless a call fails. `ImplementsSlots`: under the invariant of `OneSession` an
  insertion finds the slot empty or crowded, a revocation clears one slot, and all
  other steps stutter; `SlotsHold` is what the slots promise.
* **Access.** `AccessIsSessions`: time and calls disturb no behaviour of
  `Sessions`, hence `AccessImplementsSlots`. `AccessFades` by `Outsiders`: a pair
  that is not an heir of its user was made before the end, is not in the making,
  and cannot be renewed unless the account is gone, in which case nobody finds its
  owner; the step that needs the lookup of the owner in `Refresh` is `FindOwner`,
  and it would fail without it.
* **Accounts.** `LoginsUnique` by `UniqueInv`: a request about to insert an
  unraced login is alone in doing so and the login is not taken.
  `ConfirmedPasswordKept` by `KeptInv` with `Ownership` (accounts and their
  requests match). `AnsweredChangeStands` by `StandsInv`: whoever stored the hash is
  not overruled and is followed by nobody about to answer; `Followed` says that
  what a change follows is over, so a request that writes is followed by none.
  `DeletionFinal` is an action property. `ImplementsBook` is the
  refinement under the three invariants: an insertion is `Open`, the write of a
  hash `Change`, an answer `Confirm` or `Doubt`, a look-up that finds a login free
  beside another request `Contest`; `BookHolds` is what the book promises.
  `LoginsUniqueInTurn`, for each login whose registrations come one after another,
  since it is then never raced; `PasswordsUsable` by `UsableInv`: no account has
  an empty hash, and only accounts are confirmed.
* **Avatars.** `NoStrayObjects` by `StrayInv`: for every running request the
  object the column names is the one it will remove, its own, or that of an
  excused request. `DanglingAccounted` by `DanglingInv`: what a request has
  uploaded waits in the bucket until its name is in the column, unless it was
  snatched by a request that ran together with it and had set out from an avatar
  of that name. `SerialAvatarResolves` is its corollary for requests one after
  another that succeed.
* **Paging.** About pages: a row ahead of another has the smaller rank, so a page
  has as many rows as it asks for whenever a row lies behind it (`FullPage`) and
  never reaches beyond the table (`PageWithinTable`); `Stamped` says that times
  are distinct and that an update is later than what it replaces. `NothingMissed`
  by `MissInv`: a row still awaited lies behind the pages read, since ranks of
  unwritten rows only grow, and so the page before it was full and another
  follows. `DoubleHasCause` by `TwiceInv`: a row alone in being written only comes
  nearer to the front, behind the reader. `CountCoversList` by `ListInv`.
  `QuietListsExact` adds `QuietInv` (only a commit changes the table) and
  `ShortPage` (a page that is short ends where the table does): a list nobody
  disturbs shows each row once, and as many users as its count.
* **Lifecycle.** `GracefulStop` by `KeptInv`: `doneCh` is closed only once the
  server is stopping, and `main` is in `select` then only with nothing open.
  `HealthySinceStart` by `HealthInv`: the field is set before a request can get
  through. `RefusalsHaveCauses` by `RefusalInv`: a dirty schema outside a
  migration means an interrupted start. `SignalNotLost` by `WakeInv`: once a
  signal was sent it is in `signCh`, or `main` is shutting the server down, or the
  server is stopping; and where it has stopped, one of the channels that end
  `main` is ready. `ExitCodes` by `ExitInv`: what the two channels report has
  happened.

Only model-checked: the liveness properties (`AcceptedResolves`, `Drains`,
`SignalEnds`), as they rest on fairness and so on ENABLED, beyond the safety
theorems named above that carry them, and the violations.

## 5. Not modelled, and why

* Cryptography (JWT signatures, keys, bcrypt beyond its limit), encoding of JSON
  and multipart forms, validation of bodies: data no property tells apart.
* Request IDs, logging, the headers of answers, configuration and documentation:
  static tables or pure output. The texts of errors: only their status is kept.
* `GetQueryParam` and the `int32` conversions of limit and offset (`admin.go:35`): a
  wrapped number makes one request fail or read another page and changes
  nothing; the pages of `Paging` have any positive size.
* `total_weight` and `achievements` of the statistics, and the name of a user. The
  weight is written back as it was read; the achievements are not passed on
  (`store/stats.go:23`), so each update stores NULL, and nothing ever fills them.
* The HTTP exchange with the prediction service and with MinIO is one step with
  its outcomes.
* `RevokeRefreshToken` of the store, `NewTrashType` and `StringPtr` of the models have
  no caller outside the tests.
* The login history of a login that was cut off (`auth.go:103`) and a registration
  whose tokens could not be made (`auth.go:75`): the code drops the first error by
  design, and the account of the second can log in.
* Of `net/http` only: `ListenAndServe` returns `ErrServerClosed` as soon as a
  shutdown begins, or at once if one has begun; `Shutdown` waits for open
  requests, `Close` cuts them. A handler that goes on after its connection was
  cut is not followed.
* What a client does between two pages, and the detail of a user with more
  predictions than a page holds.

## 6. Plan

Done, in this order: `PredictionLedger` and `Predictor`, `Sessions`, `Avatars`,
`Accounts`, `Paging`, `Lifecycle`, then `Predictions` with `PredictionView` on top of
`Predictor` and `Access` on top of `Sessions`, with their runs and theorems. Left:

1. **Composition.** Deletion of an account across `Access`, `Accounts` and
   `Predictions` in one state; the shutdown of `Lifecycle` against running
   predictions, which is `Crash` in `Predictor` today.
2. **Query parameters.** `GetQueryParam` and the 32-bit conversion in front of
   `Page`, with what PostgreSQL refuses.
