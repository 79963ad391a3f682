------------------------------- MODULE Predictor -------------------------------
(***************************************************************************)
(* internal/predictor: admission of a scan, the goroutine that asks the    *)
(* prediction service about it, and the transaction that resolves the row  *)
(* and credits the owner's statistics.                                     *)
(*                                                                         *)
(* A request is one call of Predict and, when it is accepted, the          *)
(* goroutine the call leaves behind.  pc[r] names the statement the        *)
(* request executes next; every read or write of shared state is a step of *)
(* its own, because every one of them may interleave with other requests.  *)
(* Store calls may fail: FaultKinds says which, MaxFaults how many in all. *)
(*                                                                         *)
(* A few operators are never used: each is a plausible slip in the         *)
(* operator it precedes (TryPutBlind, UndoForgotten,                       *)
(* CompleteOutsideTx, TxFailsQuietly, CreditPenalty, CreditAlways,         *)
(* CommitReportsRollback, FallbackCompletes), and README.md names the      *)
(* property that tells it from the code.                                   *)
(***************************************************************************)
EXTENDS Integers, FiniteSets

CONSTANTS Requests,    \* calls of Predict
          Users,       \* accounts, each with a row of stats
          Scans,       \* scan URLs
          UserOf,      \* the account a request runs for
          ScanOf,      \* the scan URL a request carries
          Nobody,      \* no request: the holder of a free row lock
          LimitRate,   \* max_predictions_in_processing
          FaultKinds,  \* the store calls that may fail
          MaxFaults,   \* bound: store failures in a behaviour
          MaxCrashes   \* bound: restarts of the process in a behaviour

ASSUME RequestsAssumption == IsFiniteSet(Requests) /\ Nobody \notin Requests
ASSUME OwnersAssumption == /\ UserOf \in [Requests -> Users]
                           /\ ScanOf \in [Requests -> Scans]
ASSUME LimitAssumption == LimitRate \in Nat \ {0}
ASSUME BoundsAssumption == MaxFaults \in Nat /\ MaxCrashes \in Nat

VARIABLES pc,         \* statement a request executes next
          limiter,    \* Predictor.limiter
          inProcess,  \* Predictor.scansInProcessing
          answer,     \* what Predict returned
          outcome,    \* what the prediction service answered
          row,        \* committed status of the request's row of predictions
          stats,      \* committed row of stats of each user
          lock,       \* request whose transaction wrote the stats row, or Nobody
          seen,       \* stats the request's transaction has read
          deleted,    \* soft-deleted users
          committed,  \* history: requests whose transaction took effect
          unheard,    \* history: those of them whose COMMIT got no answer
          faults,     \* store failures so far: <<request, kind>>
          crashes     \* restarts so far

vars == <<pc, limiter, inProcess, answer, outcome, row, stats, lock, seen,
          deleted, committed, unheard, faults, crashes>>
memory == <<limiter, inProcess>>
database == <<row, stats, lock, deleted, committed, unheard>>
worker == <<outcome, seen>>
budget == <<faults, crashes>>

Final == {"completed", "failed"}
RowStatus == {"none", "processing"} \cup Final

\* Where a request is: in Predict, in processPrediction, or over.
Entering == {"load", "add", "tryPut", "undo", "start"}
Working == {"requestPredict", "begin", "complete", "getUser", "updateStats",
            "commit", "fallback"}
Leaving == {"release", "unscan"}
Over == {"done", "dead"}
PC == {"idle"} \cup Entering \cup Working \cup Leaving \cup Over

\* Owners of one unit of the limiter: between Add(1) and Add(-1).
SlotLabels == {"tryPut", "undo", "start", "release"} \cup Working
SlotHolders == {r \in Requests : pc[r] \in SlotLabels}

\* Owners of an entry of scansInProcessing.
ScanLabels == {"start", "release", "unscan"} \cup Working
ScanHolders == {r \in Requests : pc[r] \in ScanLabels}

\* Requests of u whose transaction took effect, and those of them that the
\* service had classified.
Resolved(u) == {r \in committed : UserOf[r] = u}
Classified(u) == {r \in Resolved(u) : outcome[r] = "result"}

-----------------------------------------------------------------------------
NoStats == [files |-> 0, rating |-> 0]

Init == /\ pc = [r \in Requests |-> "idle"]
        /\ limiter = 0
        /\ inProcess = {}
        /\ answer = [r \in Requests |-> "none"]
        /\ outcome = [r \in Requests |-> "none"]
        /\ row = [r \in Requests |-> "none"]
        /\ stats = [u \in Users |-> NoStats]
        /\ lock = [u \in Users |-> Nobody]
        /\ seen = [r \in Requests |-> NoStats]
        /\ deleted = {}
        /\ committed = {}
        /\ unheard = {}
        /\ faults = {}
        /\ crashes = 0

Goto(r, label) == pc' = [pc EXCEPT ![r] = label]
Answer(r, code) == answer' = [answer EXCEPT ![r] = code]

\* A store call of this kind, made by r, fails.
Fails(r, kind) == /\ kind \in FaultKinds
                  /\ Cardinality(faults) < MaxFaults
                  /\ faults' = faults \cup {<<r, kind>>}
                  /\ UNCHANGED crashes

-----------------------------------------------------------------------------
(* Predict *)

Arrive(r) == /\ pc[r] = "idle"
             /\ Goto(r, "load")
             /\ UNCHANGED <<memory, answer, worker, database, budget>>

LoadLimiter(r) ==
    /\ pc[r] = "load"
    /\ IF limiter >= LimitRate
       THEN Goto(r, "done") /\ Answer(r, "tooMany")
       ELSE Goto(r, "add") /\ UNCHANGED answer
    /\ UNCHANGED <<memory, worker, database, budget>>

AddLimiter(r) == /\ pc[r] = "add"
                 /\ limiter' = limiter + 1
                 /\ Goto(r, "tryPut")
                 /\ UNCHANGED <<inProcess, answer, worker, database, budget>>

TryPutBlind(r) == /\ pc[r] = "tryPut"
                  /\ inProcess' = inProcess \cup {ScanOf[r]}
                  /\ Goto(r, "start")
                  /\ UNCHANGED <<limiter, answer, worker, database, budget>>

\* tryPutScanInProcessing holds the mutex for the test and the insertion.
TryPut(r) == /\ pc[r] = "tryPut"
             /\ IF ScanOf[r] \in inProcess
                THEN Goto(r, "undo") /\ UNCHANGED inProcess
                ELSE /\ inProcess' = inProcess \cup {ScanOf[r]}
                     /\ Goto(r, "start")
             /\ UNCHANGED <<limiter, answer, worker, database, budget>>

UndoForgotten(r) == /\ pc[r] = "undo"
                    /\ Goto(r, "done")
                    /\ Answer(r, "conflict")
                    /\ UNCHANGED <<memory, worker, database, budget>>

Undo(r) == /\ pc[r] = "undo"
           /\ limiter' = limiter - 1
           /\ Goto(r, "done")
           /\ Answer(r, "conflict")
           /\ UNCHANGED <<inProcess, worker, database, budget>>

\* trash_scan is UNIQUE in predictions.
ScanHasRow(r) == \E s \in Requests : ScanOf[s] = ScanOf[r] /\ row[s] # "none"

\* INSERT, and the launch of the goroutine when it succeeds.
StartPrediction(r) ==
    /\ pc[r] = "start"
    /\ ~ScanHasRow(r)
    /\ row' = [row EXCEPT ![r] = "processing"]
    /\ Answer(r, "accepted")
    /\ Goto(r, "requestPredict")
    /\ UNCHANGED <<memory, worker, stats, lock, deleted, committed, unheard,
                   budget>>

StartConflict(r) == /\ pc[r] = "start"
                    /\ ScanHasRow(r)
                    /\ Answer(r, "conflict")
                    /\ Goto(r, "release")
                    /\ UNCHANGED <<memory, worker, database, budget>>

StartFails(r) == /\ pc[r] = "start"
                 /\ Fails(r, "start")
                 /\ Answer(r, "internal")
                 /\ Goto(r, "release")
                 /\ UNCHANGED <<memory, worker, database>>

\* The server inserted the row, its answer never reached the caller.
StartAnswerLost(r) ==
    /\ pc[r] = "start"
    /\ ~ScanHasRow(r)
    /\ Fails(r, "startLost")
    /\ row' = [row EXCEPT ![r] = "processing"]
    /\ Answer(r, "internal")
    /\ Goto(r, "release")
    /\ UNCHANGED <<memory, worker, stats, lock, deleted, committed, unheard>>

Predict(r) == \/ Arrive(r)
              \/ LoadLimiter(r)
              \/ AddLimiter(r)
              \/ TryPut(r)
              \/ Undo(r)
              \/ StartPrediction(r)
              \/ StartConflict(r)
              \/ StartFails(r)
              \/ StartAnswerLost(r)

-----------------------------------------------------------------------------
(* processPrediction *)

\* The client gives an answer or an error within its timeout (client.go).
RequestPredict(r) == /\ pc[r] = "requestPredict"
                     /\ \E o \in {"result", "error"} :
                            outcome' = [outcome EXCEPT ![r] = o]
                     /\ Goto(r, "begin")
                     /\ UNCHANGED <<memory, answer, seen, database, budget>>

BeginTx(r) == /\ pc[r] = "begin"
              /\ Goto(r, "complete")
              /\ UNCHANGED <<memory, answer, worker, database, budget>>

CompleteOutsideTx(r) ==
    /\ pc[r] = "complete"
    /\ row' = [row EXCEPT ![r] = IF outcome[r] = "result" THEN "completed"
                                                          ELSE "failed"]
    /\ Goto(r, "getUser")
    /\ UNCHANGED <<memory, answer, worker, stats, lock, deleted, committed,
                   unheard, budget>>

\* The UPDATE of the row stays in the transaction until it commits.
CompleteInTx(r) == /\ pc[r] = "complete"
                   /\ Goto(r, "getUser")
                   /\ UNCHANGED <<memory, answer, worker, database, budget>>

\* Reads what is committed now (READ COMMITTED); a deleted user is not found.
GetUser(r) == /\ pc[r] = "getUser"
              /\ IF UserOf[r] \in deleted
                 THEN Goto(r, "fallback") /\ UNCHANGED seen
                 ELSE /\ seen' = [seen EXCEPT ![r] = stats[UserOf[r]]]
                      /\ Goto(r, "updateStats")
              /\ UNCHANGED <<memory, answer, outcome, database, budget>>

\* Waits for another transaction that has updated the same row of stats.
UpdateStats(r) == /\ pc[r] = "updateStats"
                  /\ lock[UserOf[r]] = Nobody
                  /\ lock' = [lock EXCEPT ![UserOf[r]] = r]
                  /\ Goto(r, "commit")
                  /\ UNCHANGED <<memory, answer, worker, row, stats, deleted,
                                 committed, unheard, budget>>

TxFailsQuietly(r) == /\ pc[r] \in {"begin", "complete", "getUser", "updateStats"}
                     /\ Fails(r, pc[r])
                     /\ Goto(r, "release")
                     /\ UNCHANGED <<memory, answer, worker, database>>

\* A statement of the transaction fails: rolled back.
TxFails(r) == /\ pc[r] \in {"begin", "complete", "getUser", "updateStats"}
              /\ Fails(r, pc[r])
              /\ Goto(r, "fallback")
              /\ UNCHANGED <<memory, answer, worker, database>>

CreditPenalty(s, o) == [files |-> s.files + 1,
                        rating |-> IF o = "result" THEN s.rating + 10
                                                   ELSE s.rating - 10]
CreditAlways(s, o) == [files |-> s.files + 1, rating |-> s.rating + 10]

\* stats.UpdateStats: the values it computes from the stats it has read.
Credit(s, o) == [files |-> s.files + 1,
                 rating |-> IF o = "result" THEN s.rating + 10 ELSE s.rating]

ResolvedAs(o) == IF o = "result" THEN "completed" ELSE "failed"

\* The server applies everything the transaction wrote.
ApplyTx(r) ==
    /\ row' = [row EXCEPT ![r] = ResolvedAs(outcome[r])]
    /\ stats' = [stats EXCEPT ![UserOf[r]] = Credit(seen[r], outcome[r])]
    /\ committed' = committed \cup {r}

Unlock(r) == lock' = [lock EXCEPT ![UserOf[r]] = Nobody]

CommitReportsRollback(r) == /\ pc[r] = "commit"
                            /\ ApplyTx(r)
                            /\ Unlock(r)
                            /\ Goto(r, "fallback")
                            /\ UNCHANGED <<memory, answer, worker, deleted,
                                           unheard, budget>>

Commit(r) == /\ pc[r] = "commit"
             /\ ApplyTx(r)
             /\ Unlock(r)
             /\ Goto(r, "release")
             /\ UNCHANGED <<memory, answer, worker, deleted, unheard,
                            budget>>

CommitFails(r) == /\ pc[r] = "commit"
                  /\ Fails(r, "commit")
                  /\ Unlock(r)
                  /\ Goto(r, "fallback")
                  /\ UNCHANGED <<memory, answer, worker, row, stats, deleted,
                                 committed, unheard>>

\* The server committed, its answer never reached the caller.
CommitAnswerLost(r) == /\ pc[r] = "commit"
                       /\ Fails(r, "commitLost")
                       /\ ApplyTx(r)
                       /\ Unlock(r)
                       /\ unheard' = unheard \cup {r}
                       /\ Goto(r, "fallback")
                       /\ UNCHANGED <<memory, answer, worker, deleted>>

FallbackCompletes(r) == /\ pc[r] = "fallback"
                        /\ row' = [row EXCEPT ![r] = "completed"]
                        /\ Goto(r, "release")
                        /\ UNCHANGED <<memory, answer, worker, stats, lock,
                                       deleted, committed, unheard, budget>>

\* CompletePrediction outside the transaction, its own error ignored.
Fallback(r) == /\ pc[r] = "fallback"
               /\ row' = [row EXCEPT ![r] = "failed"]
               /\ Goto(r, "release")
               /\ UNCHANGED <<memory, answer, worker, stats, lock, deleted,
                              committed, unheard, budget>>

FallbackFails(r) == /\ pc[r] = "fallback"
                    /\ Fails(r, "fallback")
                    /\ Goto(r, "release")
                    /\ UNCHANGED <<memory, answer, worker, database>>

\* The two statements that end both a failed Predict and processPrediction.
Release(r) == /\ pc[r] = "release"
              /\ limiter' = limiter - 1
              /\ Goto(r, "unscan")
              /\ UNCHANGED <<inProcess, answer, worker, database, budget>>

DeleteScan(r) == /\ pc[r] = "unscan"
                 /\ inProcess' = inProcess \ {ScanOf[r]}
                 /\ Goto(r, "done")
                 /\ UNCHANGED <<limiter, answer, worker, database, budget>>

ProcessPrediction(r) == \/ RequestPredict(r)
                        \/ BeginTx(r)
                        \/ CompleteInTx(r)
                        \/ GetUser(r)
                        \/ UpdateStats(r)
                        \/ TxFails(r)
                        \/ Commit(r)
                        \/ CommitFails(r)
                        \/ CommitAnswerLost(r)
                        \/ Fallback(r)
                        \/ FallbackFails(r)
                        \/ Release(r)
                        \/ DeleteScan(r)

-----------------------------------------------------------------------------
\* Another request soft-deletes the account (store.DeleteUser).
DeleteUser(u) == /\ u \notin deleted
                 /\ deleted' = deleted \cup {u}
                 /\ UNCHANGED <<pc, memory, answer, worker, row, stats, lock,
                                committed, unheard, budget>>

\* The process stops and starts again: memory is lost, open transactions are
\* rolled back by the server, committed rows stay as they are.
Crash == /\ crashes < MaxCrashes
         /\ crashes' = crashes + 1
         /\ pc' = [r \in Requests |-> IF pc[r] \in {"idle", "done"}
                                      THEN pc[r] ELSE "dead"]
         /\ limiter' = 0
         /\ inProcess' = {}
         /\ lock' = [u \in Users |-> Nobody]
         /\ UNCHANGED <<answer, worker, row, stats, deleted, committed, unheard,
                        faults>>

\* Every request is over.
Quiet == /\ \A r \in Requests : pc[r] \in Over
         /\ UNCHANGED vars

Step(r) == Predict(r) \/ ProcessPrediction(r)

Next == \/ \E r \in Requests : Step(r)
        \/ \E u \in Users : DeleteUser(u)
        \/ Crash
        \/ Quiet

Spec == Init /\ [][Next]_vars

\* A goroutine that can run eventually does; a request need never arrive.
Fairness == \A r \in Requests : WF_vars(pc[r] # "idle" /\ Step(r))

FairSpec == Spec /\ Fairness

-----------------------------------------------------------------------------
(* Safety *)

Stats == [files : Nat, rating : Nat]

TypeOK == /\ pc \in [Requests -> PC]
          /\ limiter \in Int
          /\ inProcess \subseteq Scans
          /\ answer \in [Requests -> {"none", "accepted", "tooMany", "conflict",
                                      "internal"}]
          /\ outcome \in [Requests -> {"none", "result", "error"}]
          /\ row \in [Requests -> RowStatus]
          /\ stats \in [Users -> Stats]
          /\ lock \in [Users -> Requests \cup {Nobody}]
          /\ seen \in [Requests -> Stats]
          /\ deleted \subseteq Users
          /\ committed \subseteq Requests
          /\ unheard \subseteq Requests
          /\ faults \subseteq Requests \X FaultKinds
          /\ crashes \in Nat

\* Whatever path a request leaves by, the limiter counts exactly the requests
\* that are between their Add(1) and their Add(-1): no slot leaks, none is
\* given back twice.
SlotAccounting == limiter = Cardinality(SlotHolders)

\* scansInProcessing holds exactly the scans of the requests that put them
\* there, and no two of them work on the same scan, although the entry is
\* removed after the slot is given back and by a different goroutine than the
\* one that put it.
ScanAccounting ==
    /\ inProcess = {ScanOf[r] : r \in ScanHolders}
    /\ \A r, s \in ScanHolders : ScanOf[r] = ScanOf[s] => r = s

\* The transaction of r was rolled back: its account was deleted meanwhile, or a
\* statement of its own failed.
RolledBack(r) ==
    \/ UserOf[r] \in deleted
    \/ \E kind \in {"begin", "complete", "getUser", "updateStats", "commit"} :
           <<r, kind>> \in faults

\* A row left "processing" by a request that is over needs a restart that struck
\* this request, an INSERT of its own whose answer was lost, or two things to go
\* wrong for it: the transaction and then the fallback.  What happens to other
\* requests strands no row.
StrandedExplained ==
    \A r \in Requests :
        row[r] = "processing" /\ pc[r] \in Leaving \cup Over =>
            \/ pc[r] = "dead" /\ crashes > 0
            \/ answer[r] = "internal" /\ <<r, "startLost">> \in faults
            \/ RolledBack(r) /\ <<r, "fallback">> \in faults

\* Concurrent transactions may lose an update of the statistics but never
\* invent one: files_scanned is at most the number of the owner's scans that
\* were resolved, positive as soon as there is one, and the rating is at most
\* ten points for each of them that was classified.
StatsNeverInflated ==
    \A u \in Users : /\ stats[u].files <= Cardinality(Resolved(u))
                     /\ stats[u].rating <= 10 * Cardinality(Classified(u))
                     /\ Resolved(u) # {} => stats[u].files > 0

\* Where a request is decides what its row may read: no row before the INSERT,
\* one that is "processing" until the transaction commits, and one to withdraw
\* whenever the fallback runs, unresolved unless the COMMIT went unheard; an
\* unresolved row is not credited.
RowFollowsRequest ==
    \A r \in Requests :
        /\ pc[r] \in {"idle"} \cup Entering => row[r] = "none"
        /\ pc[r] \in Working \ {"fallback"} => row[r] = "processing"
        /\ pc[r] = "fallback" => row[r] # "none"
        /\ pc[r] = "fallback" /\ r \notin unheard => row[r] = "processing"
        /\ row[r] \notin Final => r \notin committed

\* The abstract promise: Predictor implements PredictionLedger.  The rows of the
\* ledger are the committed rows; a scan is credited when its transaction takes
\* effect, whether or not the predictor hears of it.
Ledger == INSTANCE PredictionLedger WITH row <- row, committed <- committed
LedgerSpec == Ledger!Spec

\* Across restarts, when scansInProcessing is forgotten, two rows still never
\* carry the same scan.
OneRowPerScan == Ledger!OneRowPerScan

\* The row and the statistics agree whatever fails: a row reads "completed"
\* only if its scan was credited, and a credited scan is no longer processing.
CreditMatchesRow == Ledger!CreditMatchesRow

\* What a client has read as the final status of its prediction stays so, except
\* for a request whose COMMIT took effect and was never answered.
FinalStable ==
    [][\A r \in Requests \ unheard : row[r] \in Final => row'[r] = row[r]]_vars

-----------------------------------------------------------------------------
(* Liveness, under FairSpec *)

\* An accepted prediction is resolved, provided the process is not restarted
\* and the fallback does not fail.
AcceptedResolves ==
    \A r \in Requests : answer[r] = "accepted" ~> row[r] \in Final

\* The predictor returns to empty: every slot and every scan is given back.
Drains == <>[](limiter = 0 /\ inProcess = {})

-----------------------------------------------------------------------------
(* What the tests and the configuration say, and concurrency refutes *)

\* "max_predictions_in_processing": no more predictions are processed at once.
LimitRespected ==
    Cardinality({r \in Requests : pc[r] \in Working}) <= LimitRate

\* Every resolved scan adds one to files_scanned of its owner.
StatsExact ==
    \A u \in Users : stats[u].files = Cardinality(Resolved(u))
=============================================================================
