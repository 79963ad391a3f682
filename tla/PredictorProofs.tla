---------------------------- MODULE PredictorProofs ----------------------------
(***************************************************************************)
(* Theorems about Predictor for any set of requests, users and scans, any  *)
(* limit and any number of store failures and restarts.                    *)
(***************************************************************************)
EXTENDS Predictor, FiniteSetTheorems, TLAPS

\* The groups of variables are transparent in every proof below.
USE DEF memory, database, worker, budget

-----------------------------------------------------------------------------
(* Type correctness *)

LEMMA TypeInit == Init => TypeOK
BY RequestsAssumption, OwnersAssumption
   DEF Init, TypeOK, PC, RowStatus, Stats, NoStats

LEMMA TypePredict ==
    ASSUME TypeOK, NEW r \in Requests, Predict(r)
    PROVE  TypeOK'
<1> USE DEF TypeOK, Goto, Answer, Fails, PC, Entering, Working, Leaving
<1>1. CASE Arrive(r)
  BY <1>1 DEF Arrive
<1>2. CASE LoadLimiter(r)
  BY <1>2 DEF LoadLimiter, Over
<1>3. CASE AddLimiter(r)
  BY <1>3 DEF AddLimiter
<1>4. CASE TryPut(r)
  BY <1>4, OwnersAssumption DEF TryPut
<1>5. CASE Undo(r)
  BY <1>5 DEF Undo, Over
<1>6. CASE StartPrediction(r)
  BY <1>6 DEF StartPrediction, RowStatus
<1>7. CASE StartConflict(r)
  BY <1>7 DEF StartConflict
<1>8. CASE StartFails(r)
  BY <1>8 DEF StartFails
<1>9. CASE StartAnswerLost(r)
  BY <1>9 DEF StartAnswerLost, RowStatus
<1> QED
  BY <1>1, <1>2, <1>3, <1>4, <1>5, <1>6, <1>7, <1>8, <1>9 DEF Predict

LEMMA TypeApplyTx ==
    ASSUME TypeOK, NEW r \in Requests, ApplyTx(r)
    PROVE  /\ row' \in [Requests -> RowStatus]
           /\ stats' \in [Users -> Stats]
           /\ committed' \subseteq Requests
<1>1. ResolvedAs(outcome[r]) \in RowStatus
  BY DEF ResolvedAs, RowStatus, Final
<1>2. Credit(seen[r], outcome[r]) \in Stats
  BY DEF TypeOK, Credit, Stats
<1> QED
  BY <1>1, <1>2 DEF ApplyTx, TypeOK

LEMMA TypeProcess ==
    ASSUME TypeOK, NEW r \in Requests, ProcessPrediction(r)
    PROVE  TypeOK'
<1> USE OwnersAssumption
    DEF TypeOK, Goto, Fails, PC, Working, Leaving
<1>1. CASE RequestPredict(r)
  BY <1>1 DEF RequestPredict
<1>2. CASE BeginTx(r)
  BY <1>2 DEF BeginTx
<1>3. CASE CompleteInTx(r)
  BY <1>3 DEF CompleteInTx
<1>4. CASE GetUser(r)
  BY <1>4 DEF GetUser
<1>5. CASE UpdateStats(r)
  BY <1>5 DEF UpdateStats
<1>6. CASE TxFails(r)
  BY <1>6 DEF TxFails
<1>7. CASE Commit(r)
  BY <1>7, TypeApplyTx DEF Commit, Unlock
<1>8. CASE CommitFails(r)
  BY <1>8 DEF CommitFails, Unlock
<1>9. CASE CommitAnswerLost(r)
  BY <1>9, TypeApplyTx DEF CommitAnswerLost, Unlock
<1>10. CASE Fallback(r)
  BY <1>10 DEF Fallback, RowStatus, Final
<1>11. CASE FallbackFails(r)
  BY <1>11 DEF FallbackFails
<1>12. CASE Release(r)
  BY <1>12 DEF Release
<1>13. CASE DeleteScan(r)
  BY <1>13 DEF DeleteScan, Over
<1> QED
  BY <1>1, <1>2, <1>3, <1>4, <1>5, <1>6, <1>7, <1>8, <1>9, <1>10, <1>11,
     <1>12, <1>13 DEF ProcessPrediction

LEMMA TypeStep == TypeOK /\ [Next]_vars => TypeOK'
<1> SUFFICES ASSUME TypeOK, [Next]_vars
             PROVE  TypeOK'
  OBVIOUS
<1>1. CASE \E r \in Requests : Step(r)
  BY <1>1, TypePredict, TypeProcess DEF Step
<1>2. CASE \E u \in Users : DeleteUser(u)
  BY <1>2 DEF DeleteUser, TypeOK
<1>3. CASE Crash
  BY <1>3, RequestsAssumption DEF Crash, TypeOK, PC, Over
<1>4. CASE UNCHANGED vars
  BY <1>4 DEF TypeOK, vars
<1> QED
  BY <1>1, <1>2, <1>3, <1>4 DEF Next, Quiet

\* The variables keep their types: rows, answers and labels are the known ones,
\* and the statistics are never negative.
THEOREM TypeCorrect == Spec => []TypeOK
BY TypeInit, TypeStep, PTL DEF Spec

-----------------------------------------------------------------------------
(* The limiter *)

LEMMA HoldersFinite == /\ IsFiniteSet(SlotHolders)
                       /\ Cardinality(SlotHolders) \in Nat
BY RequestsAssumption, FS_Subset, FS_CardinalityType DEF SlotHolders

\* A step of r that moves it to a label changes its membership alone.
LEMMA HoldersMove ==
    ASSUME TypeOK, NEW r \in Requests, NEW label, Goto(r, label)
    PROVE  /\ label \in SlotLabels => SlotHolders' = SlotHolders \cup {r}
           /\ label \notin SlotLabels => SlotHolders' = SlotHolders \ {r}
BY DEF TypeOK, Goto, SlotHolders

\* r keeps or lacks a slot across the step.
LEMMA SlotKept ==
    ASSUME TypeOK, SlotAccounting, NEW r \in Requests, NEW label,
           Goto(r, label), pc[r] \in SlotLabels <=> label \in SlotLabels,
           limiter' = limiter
    PROVE  SlotAccounting'
<1>1. SlotHolders' = SlotHolders
  BY HoldersMove DEF SlotHolders
<1> QED
  BY <1>1 DEF SlotAccounting

LEMMA SlotTaken ==
    ASSUME TypeOK, SlotAccounting, NEW r \in Requests, NEW label,
           Goto(r, label), pc[r] \notin SlotLabels, label \in SlotLabels,
           limiter' = limiter + 1
    PROVE  SlotAccounting'
<1>1. SlotHolders' = SlotHolders \cup {r} /\ r \notin SlotHolders
  BY HoldersMove DEF SlotHolders
<1> QED
  BY <1>1, HoldersFinite, FS_AddElement DEF SlotAccounting

LEMMA SlotReturned ==
    ASSUME TypeOK, SlotAccounting, NEW r \in Requests, NEW label,
           Goto(r, label), pc[r] \in SlotLabels, label \notin SlotLabels,
           limiter' = limiter - 1
    PROVE  SlotAccounting'
<1>1. SlotHolders' = SlotHolders \ {r} /\ r \in SlotHolders
  BY HoldersMove DEF SlotHolders
<1> QED
  BY <1>1, HoldersFinite, FS_RemoveElement DEF SlotAccounting

LEMMA SlotsPredict ==
    ASSUME TypeOK, SlotAccounting, NEW r \in Requests, Predict(r)
    PROVE  SlotAccounting'
<1> USE DEF SlotLabels, Working
<1>1. CASE Arrive(r)
  BY <1>1, SlotKept DEF Arrive
<1>2. CASE LoadLimiter(r)
  BY <1>2, SlotKept DEF LoadLimiter
<1>3. CASE AddLimiter(r)
  BY <1>3, SlotTaken DEF AddLimiter
<1>4. CASE TryPut(r)
  BY <1>4, SlotKept DEF TryPut
<1>5. CASE Undo(r)
  BY <1>5, SlotReturned DEF Undo
<1>6. CASE StartPrediction(r)
  BY <1>6, SlotKept DEF StartPrediction
<1>7. CASE StartConflict(r)
  BY <1>7, SlotKept DEF StartConflict
<1>8. CASE StartFails(r)
  BY <1>8, SlotKept DEF StartFails
<1>9. CASE StartAnswerLost(r)
  BY <1>9, SlotKept DEF StartAnswerLost
<1> QED
  BY <1>1, <1>2, <1>3, <1>4, <1>5, <1>6, <1>7, <1>8, <1>9 DEF Predict

LEMMA SlotsProcess ==
    ASSUME TypeOK, SlotAccounting, NEW r \in Requests, ProcessPrediction(r)
    PROVE  SlotAccounting'
<1> USE DEF SlotLabels, Working
<1>1. CASE RequestPredict(r)
  BY <1>1, SlotKept DEF RequestPredict
<1>2. CASE BeginTx(r)
  BY <1>2, SlotKept DEF BeginTx
<1>3. CASE CompleteInTx(r)
  BY <1>3, SlotKept DEF CompleteInTx
<1>4. CASE GetUser(r)
  BY <1>4, SlotKept DEF GetUser
<1>5. CASE UpdateStats(r)
  BY <1>5, SlotKept DEF UpdateStats
<1>6. CASE TxFails(r)
  BY <1>6, SlotKept DEF TxFails
<1>7. CASE Commit(r)
  BY <1>7, SlotKept DEF Commit
<1>8. CASE CommitFails(r)
  BY <1>8, SlotKept DEF CommitFails
<1>9. CASE CommitAnswerLost(r)
  BY <1>9, SlotKept DEF CommitAnswerLost
<1>10. CASE Fallback(r)
  BY <1>10, SlotKept DEF Fallback
<1>11. CASE FallbackFails(r)
  BY <1>11, SlotKept DEF FallbackFails
<1>12. CASE Release(r)
  BY <1>12, SlotReturned DEF Release
<1>13. CASE DeleteScan(r)
  BY <1>13, SlotKept DEF DeleteScan
<1> QED
  BY <1>1, <1>2, <1>3, <1>4, <1>5, <1>6, <1>7, <1>8, <1>9, <1>10, <1>11,
     <1>12, <1>13 DEF ProcessPrediction

LEMMA SlotsStep == TypeOK /\ SlotAccounting /\ [Next]_vars => SlotAccounting'
<1> SUFFICES ASSUME TypeOK, SlotAccounting, [Next]_vars
             PROVE  SlotAccounting'
  OBVIOUS
<1>1. CASE \E r \in Requests : Step(r)
  BY <1>1, SlotsPredict, SlotsProcess DEF Step
<1>2. CASE \E u \in Users : DeleteUser(u)
  BY <1>2 DEF DeleteUser, SlotAccounting, SlotHolders
<1>3. CASE Crash
  <2>1. SlotHolders' = {}
    BY <1>3 DEF Crash, TypeOK, SlotHolders, SlotLabels, Working
  <2> QED
    BY <1>3, <2>1, FS_EmptySet DEF Crash, SlotAccounting
<1>4. CASE UNCHANGED vars
  BY <1>4 DEF vars, SlotAccounting, SlotHolders
<1> QED
  BY <1>1, <1>2, <1>3, <1>4 DEF Next, Quiet

LEMMA SlotsInit == Init => SlotAccounting
<1> SUFFICES ASSUME Init PROVE SlotAccounting
  OBVIOUS
<1>1. SlotHolders = {}
  BY DEF Init, SlotHolders, SlotLabels, Working
<1> QED
  BY <1>1, FS_EmptySet DEF Init, SlotAccounting

\* The limiter always equals the number of requests between Add(1) and Add(-1):
\* no path through Predict or processPrediction leaks a slot or returns it twice.
THEOREM SlotsCounted == Spec => []SlotAccounting
BY TypeInit, TypeStep, SlotsInit, SlotsStep, PTL DEF Spec

-----------------------------------------------------------------------------
(* The scans in process *)

LEMMA ScanKept ==
    ASSUME TypeOK, ScanAccounting, NEW r \in Requests, NEW label,
           Goto(r, label), pc[r] \in ScanLabels <=> label \in ScanLabels,
           inProcess' = inProcess
    PROVE  ScanAccounting'
<1>1. ScanHolders' = ScanHolders
  BY DEF TypeOK, Goto, ScanHolders
<1> QED
  BY <1>1 DEF ScanAccounting

LEMMA ScansPredict ==
    ASSUME TypeOK, ScanAccounting, NEW r \in Requests, Predict(r)
    PROVE  ScanAccounting'
<1> USE DEF ScanLabels, Working
<1>1. CASE Arrive(r)
  BY <1>1, ScanKept DEF Arrive
<1>2. CASE LoadLimiter(r)
  BY <1>2, ScanKept DEF LoadLimiter
<1>3. CASE AddLimiter(r)
  BY <1>3, ScanKept DEF AddLimiter
<1>4. CASE TryPut(r)
  <2>1. CASE ScanOf[r] \in inProcess
    BY <1>4, <2>1, ScanKept DEF TryPut
  <2>2. CASE ScanOf[r] \notin inProcess
    <3>1. ScanHolders' = ScanHolders \cup {r}
      BY <1>4, <2>2 DEF TryPut, Goto, TypeOK, ScanHolders
    <3>2. inProcess' = inProcess \cup {ScanOf[r]}
      BY <1>4, <2>2 DEF TryPut
    <3> QED
      BY <2>2, <3>1, <3>2 DEF ScanAccounting
  <2> QED
    BY <2>1, <2>2
<1>5. CASE Undo(r)
  BY <1>5, ScanKept DEF Undo
<1>6. CASE StartPrediction(r)
  BY <1>6, ScanKept DEF StartPrediction
<1>7. CASE StartConflict(r)
  BY <1>7, ScanKept DEF StartConflict
<1>8. CASE StartFails(r)
  BY <1>8, ScanKept DEF StartFails
<1>9. CASE StartAnswerLost(r)
  BY <1>9, ScanKept DEF StartAnswerLost
<1> QED
  BY <1>1, <1>2, <1>3, <1>4, <1>5, <1>6, <1>7, <1>8, <1>9 DEF Predict

LEMMA ScansProcess ==
    ASSUME TypeOK, ScanAccounting, NEW r \in Requests, ProcessPrediction(r)
    PROVE  ScanAccounting'
<1> USE DEF ScanLabels, Working
<1>1. CASE RequestPredict(r)
  BY <1>1, ScanKept DEF RequestPredict
<1>2. CASE BeginTx(r)
  BY <1>2, ScanKept DEF BeginTx
<1>3. CASE CompleteInTx(r)
  BY <1>3, ScanKept DEF CompleteInTx
<1>4. CASE GetUser(r)
  BY <1>4, ScanKept DEF GetUser
<1>5. CASE UpdateStats(r)
  BY <1>5, ScanKept DEF UpdateStats
<1>6. CASE TxFails(r)
  BY <1>6, ScanKept DEF TxFails
<1>7. CASE Commit(r)
  BY <1>7, ScanKept DEF Commit
<1>8. CASE CommitFails(r)
  BY <1>8, ScanKept DEF CommitFails
<1>9. CASE CommitAnswerLost(r)
  BY <1>9, ScanKept DEF CommitAnswerLost
<1>10. CASE Fallback(r)
  BY <1>10, ScanKept DEF Fallback
<1>11. CASE FallbackFails(r)
  BY <1>11, ScanKept DEF FallbackFails
<1>12. CASE Release(r)
  BY <1>12, ScanKept DEF Release
<1>13. CASE DeleteScan(r)
  <2>1. ScanHolders' = ScanHolders \ {r} /\ r \in ScanHolders
    BY <1>13 DEF DeleteScan, Goto, TypeOK, ScanHolders
  <2>2. \A s \in ScanHolders' : ScanOf[s] # ScanOf[r]
    BY <2>1 DEF ScanAccounting
  <2>3. inProcess' = inProcess \ {ScanOf[r]}
    BY <1>13 DEF DeleteScan
  <2> QED
    BY <2>1, <2>2, <2>3 DEF ScanAccounting
<1> QED
  BY <1>1, <1>2, <1>3, <1>4, <1>5, <1>6, <1>7, <1>8, <1>9, <1>10, <1>11,
     <1>12, <1>13 DEF ProcessPrediction

LEMMA ScansStep == TypeOK /\ ScanAccounting /\ [Next]_vars => ScanAccounting'
<1> SUFFICES ASSUME TypeOK, ScanAccounting, [Next]_vars
             PROVE  ScanAccounting'
  OBVIOUS
<1>1. CASE \E r \in Requests : Step(r)
  BY <1>1, ScansPredict, ScansProcess DEF Step
<1>2. CASE \E u \in Users : DeleteUser(u)
  BY <1>2 DEF DeleteUser, ScanAccounting, ScanHolders
<1>3. CASE Crash
  BY <1>3 DEF Crash, TypeOK, ScanAccounting, ScanHolders, ScanLabels, Working
<1>4. CASE UNCHANGED vars
  BY <1>4 DEF vars, ScanAccounting, ScanHolders
<1> QED
  BY <1>1, <1>2, <1>3, <1>4 DEF Next, Quiet

LEMMA ScansInit == Init => ScanAccounting
BY DEF Init, ScanAccounting, ScanHolders, ScanLabels, Working

\* scansInProcessing is exactly the scans of the requests that put them there,
\* and no two requests are ever past tryPutScanInProcessing with the same scan.
THEOREM ScansExclusive == Spec => []ScanAccounting
BY TypeInit, TypeStep, ScansInit, ScansStep, PTL DEF Spec

-----------------------------------------------------------------------------
(* Predictor implements PredictionLedger *)

LEMMA RowsInit == Init => RowFollowsRequest
BY DEF Init, RowFollowsRequest, Working, Final

LEMMA RowsPredict ==
    ASSUME TypeOK, RowFollowsRequest, NEW r \in Requests, Predict(r)
    PROVE  RowFollowsRequest'
<1> USE DEF TypeOK, RowFollowsRequest, Goto, Fails, Entering, Working, Final
<1>1. CASE Arrive(r)
  BY <1>1 DEF Arrive
<1>2. CASE LoadLimiter(r)
  BY <1>2 DEF LoadLimiter
<1>3. CASE AddLimiter(r)
  BY <1>3 DEF AddLimiter
<1>4. CASE TryPut(r)
  BY <1>4 DEF TryPut
<1>5. CASE Undo(r)
  BY <1>5 DEF Undo
<1>6. CASE StartPrediction(r) \/ StartAnswerLost(r)
  BY <1>6 DEF StartPrediction, StartAnswerLost
<1>7. CASE StartConflict(r) \/ StartFails(r)
  BY <1>7 DEF StartConflict, StartFails
<1> QED
  BY <1>1, <1>2, <1>3, <1>4, <1>5, <1>6, <1>7 DEF Predict

LEMMA RowsProcess ==
    ASSUME TypeOK, RowFollowsRequest, NEW r \in Requests, ProcessPrediction(r)
    PROVE  RowFollowsRequest'
<1> USE DEF TypeOK, RowFollowsRequest, Goto, Fails, Entering, Working, Final
<1>1. CASE RequestPredict(r) \/ BeginTx(r) \/ CompleteInTx(r)
  BY <1>1 DEF RequestPredict, BeginTx, CompleteInTx
<1>2. CASE GetUser(r) \/ UpdateStats(r) \/ TxFails(r)
  BY <1>2 DEF GetUser, UpdateStats, TxFails
<1>3. CASE Commit(r)
  BY <1>3 DEF Commit, ApplyTx, ResolvedAs
<1>4. CASE CommitFails(r)
  BY <1>4 DEF CommitFails
<1>5. CASE CommitAnswerLost(r)
  BY <1>5 DEF CommitAnswerLost, ApplyTx, ResolvedAs
<1>6. CASE Fallback(r) \/ FallbackFails(r)
  BY <1>6 DEF Fallback, FallbackFails
<1>7. CASE Release(r) \/ DeleteScan(r)
  BY <1>7 DEF Release, DeleteScan
<1> QED
  BY <1>1, <1>2, <1>3, <1>4, <1>5, <1>6, <1>7 DEF ProcessPrediction

LEMMA RowsStep ==
    TypeOK /\ RowFollowsRequest /\ [Next]_vars => RowFollowsRequest'
<1> SUFFICES ASSUME TypeOK, RowFollowsRequest, [Next]_vars
             PROVE  RowFollowsRequest'
  OBVIOUS
<1>1. CASE \E r \in Requests : Step(r)
  BY <1>1, RowsPredict, RowsProcess DEF Step
<1>2. CASE \E u \in Users : DeleteUser(u)
  BY <1>2 DEF DeleteUser, RowFollowsRequest
<1>3. CASE Crash
  BY <1>3 DEF Crash, TypeOK, RowFollowsRequest, Entering, Working, Final
<1>4. CASE UNCHANGED vars
  BY <1>4 DEF vars, RowFollowsRequest
<1> QED
  BY <1>1, <1>2, <1>3, <1>4 DEF Next, Quiet

LEMMA LedgerStart == Init => Ledger!Init
BY DEF Init, Ledger!Init

LEMMA LedgerStep ==
    TypeOK /\ RowFollowsRequest /\ [Next]_vars
        => [Ledger!Next]_(Ledger!ledgerVars)
<1> SUFFICES ASSUME TypeOK, RowFollowsRequest, [Next]_vars
             PROVE  Ledger!Next \/ UNCHANGED <<row, committed>>
  BY DEF Ledger!ledgerVars
<1>1. ASSUME NEW r \in Requests, StartPrediction(r) \/ StartAnswerLost(r)
      PROVE  Ledger!Next
  <2>1. Ledger!Accept(r)
    BY <1>1 DEF StartPrediction, StartAnswerLost, ScanHasRow, Ledger!Accept,
                Ledger!ScanIsNew
  <2> QED
    BY <2>1 DEF Ledger!Next
<1>2. ASSUME NEW r \in Requests, Commit(r) \/ CommitAnswerLost(r)
      PROVE  Ledger!Next
  <2>1. ResolvedAs(outcome[r]) \in Ledger!Final
    BY DEF ResolvedAs, Ledger!Final
  <2>2. Ledger!Resolve(r, ResolvedAs(outcome[r]))
    BY <1>2 DEF Commit, CommitAnswerLost, ApplyTx, RowFollowsRequest, Working,
                Final, Ledger!Resolve
  <2> QED
    BY <2>1, <2>2 DEF Ledger!Next
<1>3. ASSUME NEW r \in Requests, Fallback(r)
      PROVE  Ledger!Next
  <2>1. Ledger!Withdraw(r)
    BY <1>3 DEF Fallback, RowFollowsRequest, Ledger!Withdraw
  <2> QED
    BY <2>1 DEF Ledger!Next
<1>4. ASSUME NEW r \in Requests, Predict(r),
             ~(StartPrediction(r) \/ StartAnswerLost(r))
      PROVE  UNCHANGED <<row, committed>>
  BY <1>4 DEF Predict, Arrive, LoadLimiter, AddLimiter, TryPut, Undo,
              StartConflict, StartFails
<1>5. ASSUME NEW r \in Requests, ProcessPrediction(r),
             ~(Commit(r) \/ CommitAnswerLost(r) \/ Fallback(r))
      PROVE  UNCHANGED <<row, committed>>
  BY <1>5 DEF ProcessPrediction, RequestPredict, BeginTx, CompleteInTx, GetUser,
              UpdateStats, TxFails, CommitFails, FallbackFails, Release,
              DeleteScan
<1>6. ASSUME \/ \E u \in Users : DeleteUser(u)
             \/ Crash
             \/ UNCHANGED vars
      PROVE  UNCHANGED <<row, committed>>
  BY <1>6 DEF DeleteUser, Crash, vars
<1> QED
  BY <1>1, <1>2, <1>3, <1>4, <1>5, <1>6 DEF Next, Step, Quiet

\* Rows are found where the request that owns them left them.
THEOREM RowsFollowRequests == Spec => []RowFollowsRequest
BY TypeInit, TypeStep, RowsInit, RowsStep, PTL DEF Spec

\* The predictor implements the ledger: a row is written for a new scan only,
\* resolved at most once and in the step that credits it, and afterwards only
\* withdrawn, whatever fails and whenever the process restarts.
THEOREM ImplementsLedger == Spec => LedgerSpec
<1>1. Init => Ledger!Init
  BY LedgerStart
<1>2. TypeOK /\ RowFollowsRequest /\ [Next]_vars
          => [Ledger!Next]_(Ledger!ledgerVars)
  BY LedgerStep
<1> QED
  BY <1>1, <1>2, TypeCorrect, RowsFollowRequests, PTL
     DEF Spec, LedgerSpec, Ledger!Spec

LEMMA LedgerInvariants ==
    ASSUME TypeOK, OneRowPerScan, CreditMatchesRow,
           [Ledger!Next]_(Ledger!ledgerVars)
    PROVE  OneRowPerScan' /\ CreditMatchesRow'
<1> USE DEF TypeOK, OneRowPerScan, CreditMatchesRow, Ledger!OneRowPerScan,
            Ledger!CreditMatchesRow, Ledger!Final
<1>1. ASSUME NEW r \in Requests, Ledger!Accept(r)
      PROVE  OneRowPerScan' /\ CreditMatchesRow'
  BY <1>1 DEF Ledger!Accept, Ledger!ScanIsNew
<1>2. ASSUME NEW r \in Requests, NEW status \in Ledger!Final,
             Ledger!Resolve(r, status)
      PROVE  OneRowPerScan' /\ CreditMatchesRow'
  BY <1>2 DEF Ledger!Resolve
<1>3. ASSUME NEW r \in Requests, Ledger!Withdraw(r)
      PROVE  OneRowPerScan' /\ CreditMatchesRow'
  BY <1>3 DEF Ledger!Withdraw
<1>4. CASE UNCHANGED Ledger!ledgerVars
  BY <1>4 DEF Ledger!ledgerVars
<1> QED
  BY <1>1, <1>2, <1>3, <1>4 DEF Ledger!Next

\* Inherited from the ledger: two rows never carry one scan, even after a
\* restart emptied scansInProcessing, and a row reads "completed" only when its
\* scan was credited.
THEOREM LedgerHolds == Spec => [](OneRowPerScan /\ CreditMatchesRow)
<1>1. Init => OneRowPerScan /\ CreditMatchesRow
  BY DEF Init, OneRowPerScan, CreditMatchesRow, Ledger!OneRowPerScan,
         Ledger!CreditMatchesRow
<1>2. TypeOK /\ RowFollowsRequest /\ OneRowPerScan /\ CreditMatchesRow
          /\ [Next]_vars => OneRowPerScan' /\ CreditMatchesRow'
  BY LedgerStep, LedgerInvariants
<1> QED
  BY <1>1, <1>2, TypeCorrect, RowsFollowRequests, PTL DEF Spec

-----------------------------------------------------------------------------
(* Final rows *)

\* Every step that writes a row finds it unresolved, or withdraws it after a
\* COMMIT that went unheard.
LEMMA FinalStep ==
    TypeOK /\ RowFollowsRequest /\ [Next]_vars
        => \A r \in Requests \ unheard : row[r] \in Final => row'[r] = row[r]
<1> SUFFICES ASSUME TypeOK, RowFollowsRequest, [Next]_vars,
                    NEW r \in Requests \ unheard, row[r] \in Final
             PROVE  row'[r] = row[r]
  OBVIOUS
<1> USE DEF TypeOK, RowFollowsRequest, Final
<1>1. ASSUME NEW s \in Requests, StartPrediction(s) \/ StartAnswerLost(s)
      PROVE  row'[r] = row[r]
  BY <1>1 DEF StartPrediction, StartAnswerLost, Entering
<1>2. ASSUME NEW s \in Requests, Commit(s) \/ CommitAnswerLost(s)
      PROVE  row'[r] = row[r]
  BY <1>2 DEF Commit, CommitAnswerLost, ApplyTx, Working
<1>3. ASSUME NEW s \in Requests, Fallback(s)
      PROVE  row'[r] = row[r]
  BY <1>3 DEF Fallback
<1>4. ASSUME NEW s \in Requests, Predict(s),
             ~(StartPrediction(s) \/ StartAnswerLost(s))
      PROVE  row'[r] = row[r]
  BY <1>4 DEF Predict, Arrive, LoadLimiter, AddLimiter, TryPut, Undo,
              StartConflict, StartFails
<1>5. ASSUME NEW s \in Requests, ProcessPrediction(s),
             ~(Commit(s) \/ CommitAnswerLost(s) \/ Fallback(s))
      PROVE  row'[r] = row[r]
  BY <1>5 DEF ProcessPrediction, RequestPredict, BeginTx, CompleteInTx, GetUser,
              UpdateStats, TxFails, CommitFails, FallbackFails, Release,
              DeleteScan
<1>6. ASSUME \/ \E u \in Users : DeleteUser(u)
             \/ Crash
             \/ UNCHANGED vars
      PROVE  row'[r] = row[r]
  BY <1>6 DEF DeleteUser, Crash, vars
<1> QED
  BY <1>1, <1>2, <1>3, <1>4, <1>5, <1>6 DEF Next, Step, Quiet

\* A final status never changes again unless the COMMIT that wrote it went
\* unheard, whatever else fails, restarts and deletions included.
THEOREM FinalRowsStable == Spec => FinalStable
<1>1. TypeOK /\ RowFollowsRequest /\ [Next]_vars
          => [\A r \in Requests \ unheard :
                  row[r] \in Final => row'[r] = row[r]]_vars
  BY FinalStep
<1> QED
  BY <1>1, TypeCorrect, RowsFollowRequests, PTL DEF Spec, FinalStable

-----------------------------------------------------------------------------
(* Stranded rows *)

\* A request is dead only after a restart, and runs the fallback only after its
\* own transaction was rolled back, or committed unheard.
TroubleExplained ==
    \A r \in Requests :
        /\ pc[r] = "dead" => crashes > 0
        /\ pc[r] = "fallback" =>
               \/ RolledBack(r)
               \/ row[r] \in Final /\ <<r, "commitLost">> \in faults

StrandedInv == StrandedExplained /\ TroubleExplained

\* Failures and deletions are not forgotten.
LEMMA TroubleStays ==
    ASSUME [Next]_vars
    PROVE  /\ faults \subseteq faults'
           /\ \A r \in Requests : RolledBack(r) => RolledBack(r)'
<1>1. faults \subseteq faults' /\ deleted \subseteq deleted'
  <2>1. ASSUME NEW r \in Requests, Predict(r)
        PROVE  faults \subseteq faults' /\ deleted \subseteq deleted'
    BY <2>1 DEF Predict, Arrive, LoadLimiter, AddLimiter, TryPut, Undo,
       StartPrediction, StartConflict, StartFails, StartAnswerLost, Fails
  <2>2. ASSUME NEW r \in Requests, ProcessPrediction(r)
        PROVE  faults \subseteq faults' /\ deleted \subseteq deleted'
    BY <2>2 DEF ProcessPrediction, RequestPredict, BeginTx, CompleteInTx, GetUser,
       UpdateStats, TxFails, Commit, CommitFails, CommitAnswerLost, Fallback,
       FallbackFails, Release, DeleteScan, Fails
  <2> QED
    BY <2>1, <2>2 DEF Next, Step, DeleteUser, Crash, Quiet, vars
<1> QED
  BY <1>1 DEF RolledBack

LEMMA StrandedPredict ==
    ASSUME TypeOK, RowFollowsRequest, StrandedInv, NEW r \in Requests, Predict(r)
    PROVE  StrandedInv'
<1> USE DEF TypeOK, RowFollowsRequest, StrandedInv, StrandedExplained,
            TroubleExplained, Goto, Answer, Entering, Working, Leaving, Over, Final
<1>0. /\ faults \subseteq faults'
      /\ \A s \in Requests : RolledBack(s) => RolledBack(s)'
  BY TroubleStays DEF Next, Step
<1>1. CASE Arrive(r)
  BY <1>0, <1>1 DEF Arrive
<1>2. CASE LoadLimiter(r)
  BY <1>0, <1>2 DEF LoadLimiter
<1>3. CASE AddLimiter(r)
  BY <1>0, <1>3 DEF AddLimiter
<1>4. CASE TryPut(r)
  BY <1>0, <1>4 DEF TryPut
<1>5. CASE Undo(r)
  BY <1>0, <1>5 DEF Undo
<1>6. CASE StartPrediction(r)
  BY <1>0, <1>6 DEF StartPrediction
<1>7. CASE StartConflict(r)
  BY <1>0, <1>7 DEF StartConflict
<1>8. CASE StartFails(r)
  BY <1>0, <1>8 DEF StartFails, Fails
<1>9. CASE StartAnswerLost(r)
  BY <1>0, <1>9 DEF StartAnswerLost, Fails
<1> QED
  BY <1>1, <1>2, <1>3, <1>4, <1>5, <1>6, <1>7, <1>8, <1>9 DEF Predict

LEMMA StrandedProcess ==
    ASSUME TypeOK, RowFollowsRequest, StrandedInv, NEW r \in Requests,
           ProcessPrediction(r)
    PROVE  StrandedInv'
<1> USE DEF TypeOK, StrandedInv, StrandedExplained, TroubleExplained, Goto,
            Leaving, Over, Final
<1>0. /\ faults \subseteq faults'
      /\ \A s \in Requests : RolledBack(s) => RolledBack(s)'
  BY TroubleStays DEF Next, Step
<1>1. CASE RequestPredict(r) \/ BeginTx(r) \/ CompleteInTx(r)
  BY <1>0, <1>1 DEF RequestPredict, BeginTx, CompleteInTx
<1>2. CASE GetUser(r) \/ UpdateStats(r)
  <2>1. GetUser(r) => UserOf[r] \notin deleted \/ RolledBack(r)'
    BY DEF GetUser, RolledBack
  <2> QED
    BY <1>0, <1>2, <2>1 DEF GetUser, UpdateStats
<1>3. CASE TxFails(r) \/ CommitFails(r)
  BY <1>0, <1>3 DEF TxFails, CommitFails, Fails, RolledBack
<1>4. CASE Commit(r) \/ CommitAnswerLost(r)
  BY <1>0, <1>4 DEF Commit, CommitAnswerLost, ApplyTx, ResolvedAs, Fails
<1>5. CASE Fallback(r)
  BY <1>0, <1>5 DEF Fallback
<1>6. CASE FallbackFails(r)
  BY <1>0, <1>6 DEF FallbackFails, Fails
<1>7. CASE Release(r) \/ DeleteScan(r)
  BY <1>0, <1>7 DEF Release, DeleteScan
<1> QED
  BY <1>1, <1>2, <1>3, <1>4, <1>5, <1>6, <1>7 DEF ProcessPrediction

LEMMA StrandedStep ==
    TypeOK /\ RowFollowsRequest /\ StrandedInv /\ [Next]_vars => StrandedInv'
<1> SUFFICES ASSUME TypeOK, RowFollowsRequest, StrandedInv, [Next]_vars
             PROVE  StrandedInv'
  OBVIOUS
<1> USE DEF StrandedInv, StrandedExplained, TroubleExplained
<1>0. /\ faults \subseteq faults'
      /\ \A s \in Requests : RolledBack(s) => RolledBack(s)'
  BY TroubleStays
<1>1. CASE \E r \in Requests : Step(r)
  BY <1>1, StrandedPredict, StrandedProcess DEF Step
<1>2. CASE \E u \in Users : DeleteUser(u)
  BY <1>0, <1>2 DEF DeleteUser
<1>3. CASE Crash
  BY <1>0, <1>3 DEF Crash, TypeOK, Leaving, Over
<1>4. CASE UNCHANGED vars
  BY <1>0, <1>4 DEF vars
<1> QED
  BY <1>1, <1>2, <1>3, <1>4 DEF Next, Quiet

\* A row is left "processing" for good only by a restart, a lost answer of the
\* INSERT, or two troubles in a row.
THEOREM StrandedRowsExplained == Spec => []StrandedExplained
<1>1. Init => StrandedInv
  BY DEF Init, StrandedInv, StrandedExplained, TroubleExplained
<1>2. TypeOK /\ RowFollowsRequest /\ StrandedInv /\ [Next]_vars => StrandedInv'
  BY StrandedStep
<1>3. StrandedInv => StrandedExplained
  BY DEF StrandedInv
<1> QED
  BY <1>1, <1>2, <1>3, TypeCorrect, RowsFollowRequests, PTL DEF Spec

-----------------------------------------------------------------------------
(* The statistics *)

\* What a transaction is about to write is computed from counts that were true
\* when it read them, and the counts only grow.
SeenBounded ==
    \A r \in Requests : pc[r] \in {"updateStats", "commit"} =>
        /\ seen[r].files <= Cardinality(Resolved(UserOf[r]))
        /\ seen[r].rating <= 10 * Cardinality(Classified(UserOf[r]))

StatsInv == StatsNeverInflated /\ SeenBounded

LEMMA CountsFinite ==
    ASSUME TypeOK, NEW u
    PROVE  /\ IsFiniteSet(Resolved(u)) /\ IsFiniteSet(Classified(u))
           /\ Cardinality(Resolved(u)) \in Nat
           /\ Cardinality(Classified(u)) \in Nat
<1>1. Resolved(u) \in SUBSET Requests /\ Classified(u) \in SUBSET Requests
  BY DEF TypeOK, Resolved, Classified
<1>2. IsFiniteSet(Resolved(u)) /\ IsFiniteSet(Classified(u))
  BY <1>1, RequestsAssumption, FS_Subset
<1> QED
  BY <1>2, FS_CardinalityType

LEMMA CountsKept ==
    ASSUME TypeOK, committed' = committed,
           \A s \in committed : outcome'[s] = outcome[s]
    PROVE  \A u : Resolved(u)' = Resolved(u) /\ Classified(u)' = Classified(u)
BY DEF Resolved, Classified

\* Nothing the invariant speaks of moves.
LEMMA StatsKept ==
    ASSUME TypeOK, StatsInv, committed' = committed, stats' = stats,
           \A s \in committed : outcome'[s] = outcome[s],
           \A s \in Requests : pc'[s] \in {"updateStats", "commit"} =>
               pc[s] \in {"updateStats", "commit"} /\ seen'[s] = seen[s]
    PROVE  StatsInv'
<1>1. \A u : Resolved(u)' = Resolved(u) /\ Classified(u)' = Classified(u)
  BY CountsKept
<1>2. StatsNeverInflated'
  BY <1>1 DEF StatsInv, StatsNeverInflated
<1>3. SeenBounded'
  BY <1>1 DEF StatsInv, SeenBounded
<1> QED
  BY <1>2, <1>3 DEF StatsInv

\* One more resolved scan of r's owner, and of nobody else.
LEMMA CountsGrow ==
    ASSUME TypeOK, NEW r \in Requests, r \notin committed,
           committed' = committed \cup {r}, outcome' = outcome
    PROVE  /\ Cardinality(Resolved(UserOf[r])') = Cardinality(Resolved(UserOf[r])) + 1
           /\ Cardinality(Classified(UserOf[r])') =
                  IF outcome[r] = "result"
                  THEN Cardinality(Classified(UserOf[r])) + 1
                  ELSE Cardinality(Classified(UserOf[r]))
           /\ Resolved(UserOf[r])' # {}
           /\ \A u : u # UserOf[r] => /\ Resolved(u)' = Resolved(u)
                                     /\ Classified(u)' = Classified(u)
<1> DEFINE u == UserOf[r]
<1>1. Resolved(u)' = Resolved(u) \cup {r} /\ r \notin Resolved(u)
  BY DEF Resolved
<1>2. Classified(u)' = IF outcome[r] = "result"
                       THEN Classified(u) \cup {r} ELSE Classified(u)
  BY <1>1 DEF Classified
<1>3. r \notin Classified(u)
  BY <1>1 DEF Classified
<1>4. \A v : v # UserOf[r] => /\ Resolved(v)' = Resolved(v)
                              /\ Classified(v)' = Classified(v)
  BY DEF Resolved, Classified
<1>5. /\ Cardinality(Resolved(u) \cup {r}) = Cardinality(Resolved(u)) + 1
      /\ Cardinality(Classified(u) \cup {r}) = Cardinality(Classified(u)) + 1
  BY <1>1, <1>3, CountsFinite, FS_AddElement
<1> QED
  BY <1>1, <1>2, <1>4, <1>5

LEMMA StatsCommit ==
    ASSUME TypeOK, RowFollowsRequest, StatsInv, NEW r \in Requests,
           pc[r] = "commit", ApplyTx(r), outcome' = outcome, seen' = seen,
           NEW label \in {"release", "fallback"}, Goto(r, label)
    PROVE  StatsInv'
<1> DEFINE u == UserOf[r]
           R(v) == Cardinality(Resolved(v))
           K(v) == Cardinality(Classified(v))
<1>1. r \notin committed /\ u \in Users
  BY OwnersAssumption DEF RowFollowsRequest, Working, Final
<1>2. /\ R(u)' = R(u) + 1
      /\ K(u)' = IF outcome[r] = "result" THEN K(u) + 1 ELSE K(u)
      /\ Resolved(u)' # {}
      /\ \A v : v # u => Resolved(v)' = Resolved(v) /\ Classified(v)' = Classified(v)
  BY <1>1, CountsGrow DEF ApplyTx
<1>3. \A v : R(v) \in Nat /\ K(v) \in Nat
  BY CountsFinite
<1>4. seen[r] \in Stats /\ seen[r].files <= R(u) /\ seen[r].rating <= 10 * K(u)
  BY DEF StatsInv, SeenBounded, TypeOK
<1>5. /\ stats'[u] = Credit(seen[r], outcome[r])
      /\ \A v \in Users : v # u => stats'[v] = stats[v]
  BY <1>1 DEF ApplyTx, TypeOK
<1>6. StatsNeverInflated'
  <2>1. /\ stats'[u].files = seen[r].files + 1
        /\ stats'[u].rating = IF outcome[r] = "result" THEN seen[r].rating + 10
                                                       ELSE seen[r].rating
    BY <1>5 DEF Credit
  <2>2. /\ stats'[u].files <= R(u)'
        /\ stats'[u].rating <= 10 * K(u)'
        /\ stats'[u].files > 0
    <3> HIDE DEF u, R, K
    <3> QED
      BY <2>1, <1>2, <1>3, <1>4 DEF Stats
  <2>3. \A v \in Users : v # u => /\ stats'[v].files <= R(v)'
                                  /\ stats'[v].rating <= 10 * K(v)'
                                  /\ Resolved(v)' # {} => stats'[v].files > 0
    BY <1>2, <1>5 DEF StatsInv, StatsNeverInflated
  <2> QED
    BY <2>2, <2>3 DEF StatsNeverInflated
<1>7. SeenBounded'
  <2> SUFFICES ASSUME NEW s \in Requests, pc'[s] \in {"updateStats", "commit"}
               PROVE  /\ seen[s].files <= R(UserOf[s])'
                      /\ seen[s].rating <= 10 * K(UserOf[s])'
    BY DEF SeenBounded
  <2>1. s # r /\ pc[s] \in {"updateStats", "commit"}
    BY DEF Goto, TypeOK
  <2>2. /\ seen[s].files <= R(UserOf[s]) /\ seen[s].rating <= 10 * K(UserOf[s])
        /\ seen[s] \in Stats
    BY <2>1 DEF StatsInv, SeenBounded, TypeOK
  <2>3. CASE UserOf[s] = u
    <3>1. /\ R(UserOf[s])' = R(UserOf[s]) + 1
          /\ K(UserOf[s])' = K(UserOf[s]) \/ K(UserOf[s])' = K(UserOf[s]) + 1
      BY <2>3, <1>2
    <3> HIDE DEF R, K
    <3> QED
      BY <2>2, <3>1, <1>3 DEF Stats
  <2>4. CASE UserOf[s] # u
    BY <2>2, <2>4, <1>2
  <2> QED
    BY <2>3, <2>4
<1> QED
  BY <1>6, <1>7 DEF StatsInv

LEMMA StatsRead ==
    ASSUME TypeOK, StatsInv, NEW r \in Requests, GetUser(r)
    PROVE  StatsInv'
<1>1. \A u : Resolved(u)' = Resolved(u) /\ Classified(u)' = Classified(u)
  BY CountsKept DEF GetUser
<1>2. StatsNeverInflated'
  BY <1>1 DEF GetUser, StatsInv, StatsNeverInflated
<1>3. SeenBounded'
  <2> SUFFICES ASSUME NEW s \in Requests, pc'[s] \in {"updateStats", "commit"}
               PROVE  /\ seen'[s].files <= Cardinality(Resolved(UserOf[s]))
                      /\ seen'[s].rating <= 10 * Cardinality(Classified(UserOf[s]))
    BY <1>1 DEF SeenBounded
  <2>1. CASE s = r
    <3>1. UserOf[r] \in Users /\ seen'[r] = stats[UserOf[r]]
      BY <2>1, OwnersAssumption DEF GetUser, Goto, TypeOK
    <3> QED
      BY <2>1, <3>1 DEF StatsInv, StatsNeverInflated
  <2>2. CASE s # r
    <3>1. pc[s] = pc'[s] /\ seen'[s] = seen[s]
      BY <2>2 DEF GetUser, Goto, TypeOK
    <3> QED
      BY <3>1 DEF StatsInv, SeenBounded
  <2> QED
    BY <2>1, <2>2
<1> QED
  BY <1>2, <1>3 DEF StatsInv

LEMMA StatsProcess ==
    ASSUME TypeOK, RowFollowsRequest, StatsInv, NEW r \in Requests,
           ProcessPrediction(r)
    PROVE  StatsInv'
<1> USE DEF TypeOK, Goto
<1>1. CASE RequestPredict(r)
  <2>1. r \notin committed
    BY <1>1 DEF RequestPredict, RowFollowsRequest, Working, Final
  <2> QED
    BY <1>1, <2>1, StatsKept DEF RequestPredict
<1>2. CASE BeginTx(r) \/ CompleteInTx(r)
  BY <1>2, StatsKept DEF BeginTx, CompleteInTx
<1>3. CASE GetUser(r)
  BY <1>3, StatsRead
<1>4. CASE UpdateStats(r)
  BY <1>4, StatsKept DEF UpdateStats
<1>5. CASE TxFails(r) \/ CommitFails(r)
  BY <1>5, StatsKept DEF TxFails, CommitFails
<1>6. CASE Commit(r) \/ CommitAnswerLost(r)
  BY <1>6, StatsCommit DEF Commit, CommitAnswerLost
<1>7. CASE Fallback(r) \/ FallbackFails(r)
  BY <1>7, StatsKept DEF Fallback, FallbackFails
<1>8. CASE Release(r) \/ DeleteScan(r)
  BY <1>8, StatsKept DEF Release, DeleteScan
<1> QED
  BY <1>1, <1>2, <1>3, <1>4, <1>5, <1>6, <1>7, <1>8 DEF ProcessPrediction

LEMMA StatsPredict ==
    ASSUME TypeOK, StatsInv, NEW r \in Requests, Predict(r)
    PROVE  StatsInv'
<1>1. /\ committed' = committed /\ stats' = stats
      /\ outcome' = outcome /\ seen' = seen
      /\ \E label \in PC \ {"updateStats", "commit"} : Goto(r, label)
  BY DEF Predict, Arrive, LoadLimiter, AddLimiter, TryPut, Undo,
         StartPrediction, StartConflict, StartFails, StartAnswerLost,
         PC, Entering, Working, Leaving, Over
<1> QED
  BY <1>1, StatsKept DEF TypeOK, Goto

LEMMA StatsStep ==
    TypeOK /\ RowFollowsRequest /\ StatsInv /\ [Next]_vars => StatsInv'
<1> SUFFICES ASSUME TypeOK, RowFollowsRequest, StatsInv, [Next]_vars
             PROVE  StatsInv'
  OBVIOUS
<1>1. CASE \E r \in Requests : Step(r)
  BY <1>1, StatsPredict, StatsProcess DEF Step
<1>2. CASE \E u \in Users : DeleteUser(u)
  BY <1>2, StatsKept DEF DeleteUser
<1>3. CASE Crash
  BY <1>3, StatsKept DEF Crash, TypeOK
<1>4. CASE UNCHANGED vars
  BY <1>4, StatsKept DEF vars
<1> QED
  BY <1>1, <1>2, <1>3, <1>4 DEF Next, Quiet

LEMMA StatsInit == Init => StatsInv
<1> SUFFICES ASSUME Init PROVE StatsInv
  OBVIOUS
<1>1. \A u : Resolved(u) = {} /\ Classified(u) = {}
  BY DEF Init, Resolved, Classified
<1>2. Cardinality({}) = 0
  BY FS_EmptySet
<1> QED
  BY <1>1, <1>2 DEF Init, StatsInv, StatsNeverInflated, SeenBounded, NoStats

\* Lost updates only ever lose: the statistics never count a scan that was not
\* resolved, nor ten points for a scan that was not classified.
THEOREM StatsBounded == Spec => []StatsNeverInflated
<1>1. StatsInv => StatsNeverInflated
  BY DEF StatsInv
<1> QED
  BY <1>1, StatsInit, StatsStep, TypeCorrect, RowsFollowRequests, PTL DEF Spec

-----------------------------------------------------------------------------
(* Why the predictor comes to rest: what liveness rests on besides fairness *)

\* The row lock of a user's statistics is held exactly by the request that is
\* about to commit them.
LocksHeld ==
    /\ \A u \in Users : lock[u] # Nobody =>
           pc[lock[u]] = "commit" /\ UserOf[lock[u]] = u
    /\ \A r \in Requests : pc[r] = "commit" => lock[UserOf[r]] = r

\* Only the UPDATE of the statistics ever waits.
Waiting(r) == pc[r] = "updateStats" /\ lock[UserOf[r]] # Nobody

\* Whoever waits does so for a request that does not wait itself.
NoWaitForWaiters ==
    \A r \in Requests : Waiting(r) =>
        lock[UserOf[r]] \in Requests /\ pc[lock[UserOf[r]]] = "commit"

LEMMA LocksPredict ==
    ASSUME TypeOK, LocksHeld, NEW r \in Requests, Predict(r)
    PROVE  LocksHeld'
<1>1. /\ lock' = lock /\ pc[r] \notin {"updateStats", "commit"}
      /\ \E label \in PC \ {"commit"} : Goto(r, label)
  BY DEF Predict, Arrive, LoadLimiter, AddLimiter, TryPut, Undo,
         StartPrediction, StartConflict, StartFails, StartAnswerLost,
         PC, Entering, Working, Leaving, Over
<1> QED
  BY <1>1 DEF TypeOK, LocksHeld, Goto

LEMMA LocksProcess ==
    ASSUME TypeOK, LocksHeld, NEW r \in Requests, ProcessPrediction(r)
    PROVE  LocksHeld'
<1> USE RequestsAssumption, OwnersAssumption DEF TypeOK, LocksHeld, Goto
<1>1. CASE UpdateStats(r)
  BY <1>1 DEF UpdateStats
<1>2. CASE Commit(r) \/ CommitFails(r) \/ CommitAnswerLost(r)
  <2>1. /\ pc[r] = "commit" /\ Unlock(r)
        /\ \E label \in {"release", "fallback"} : Goto(r, label)
    BY <1>2 DEF Commit, CommitFails, CommitAnswerLost
  <2> QED
    BY <2>1 DEF Unlock
<1>3. CASE ~(UpdateStats(r) \/ Commit(r) \/ CommitFails(r) \/ CommitAnswerLost(r))
  <2>1. /\ lock' = lock /\ pc[r] # "commit"
        /\ \E label \in PC \ {"commit"} : Goto(r, label)
    BY <1>3 DEF ProcessPrediction, RequestPredict, BeginTx, CompleteInTx,
                GetUser, TxFails, Fallback, FallbackFails, Release, DeleteScan,
                PC, Working, Leaving, Over
  <2> QED
    BY <2>1
<1> QED
  BY <1>1, <1>2, <1>3

LEMMA LocksStep == TypeOK /\ LocksHeld /\ [Next]_vars => LocksHeld'
<1> SUFFICES ASSUME TypeOK, LocksHeld, [Next]_vars
             PROVE  LocksHeld'
  OBVIOUS
<1>1. CASE \E r \in Requests : Step(r)
  BY <1>1, LocksPredict, LocksProcess DEF Step
<1>2. CASE \E u \in Users : DeleteUser(u)
  BY <1>2 DEF DeleteUser, LocksHeld
<1>3. CASE Crash
  BY <1>3 DEF Crash, TypeOK, LocksHeld
<1>4. CASE UNCHANGED vars
  BY <1>4 DEF vars, LocksHeld
<1> QED
  BY <1>1, <1>2, <1>3, <1>4 DEF Next, Quiet

LEMMA LocksWaits ==
    ASSUME TypeOK, LocksHeld PROVE NoWaitForWaiters
BY OwnersAssumption DEF TypeOK, LocksHeld, NoWaitForWaiters, Waiting

LEMMA AlwaysLocks == Spec => []LocksHeld
<1>1. Init => LocksHeld
  BY DEF Init, LocksHeld
<1> QED
  BY <1>1, LocksStep, TypeCorrect, PTL DEF Spec

\* The predictor never deadlocks: a transaction that waits for the statistics of
\* its user waits for one that is about to commit and waits for nothing.
THEOREM NeverDeadlocked == Spec => []NoWaitForWaiters
BY AlwaysLocks, LocksWaits, TypeCorrect, PTL

-----------------------------------------------------------------------------
\* How far a request has come.
Rank == [label \in PC |->
            CASE label = "idle"           -> 0
              [] label = "load"           -> 1
              [] label = "add"            -> 2
              [] label = "tryPut"         -> 3
              [] label = "undo"           -> 4
              [] label = "start"          -> 4
              [] label = "requestPredict" -> 5
              [] label = "begin"          -> 6
              [] label = "complete"       -> 7
              [] label = "getUser"        -> 8
              [] label = "updateStats"    -> 9
              [] label = "commit"         -> 10
              [] label = "fallback"       -> 11
              [] label = "release"        -> 12
              [] label = "unscan"         -> 13
              [] label \in Over           -> 14]

\* A step of a request brings it forward, and nothing brings a request back.
Forward ==
    \A r \in Requests : /\ Rank[pc[r]] <= Rank[pc'[r]]
                        /\ Step(r) => Rank[pc[r]] < Rank[pc'[r]]

RunsForward == [][Forward]_vars

LEMMA RankValues ==
    /\ Rank["idle"] = 0 /\ Rank["load"] = 1 /\ Rank["add"] = 2
    /\ Rank["tryPut"] = 3 /\ Rank["undo"] = 4 /\ Rank["start"] = 4
    /\ Rank["requestPredict"] = 5 /\ Rank["begin"] = 6 /\ Rank["complete"] = 7
    /\ Rank["getUser"] = 8 /\ Rank["updateStats"] = 9 /\ Rank["commit"] = 10
    /\ Rank["fallback"] = 11 /\ Rank["release"] = 12 /\ Rank["unscan"] = 13
    /\ Rank["done"] = 14 /\ Rank["dead"] = 14
<1> USE DEF Rank, PC, Entering, Working, Leaving, Over
<1>1. Rank["idle"] = 0 /\ Rank["load"] = 1 /\ Rank["add"] = 2
  OBVIOUS
<1>2. Rank["tryPut"] = 3 /\ Rank["undo"] = 4 /\ Rank["start"] = 4
  OBVIOUS
<1>3. Rank["requestPredict"] = 5 /\ Rank["begin"] = 6 /\ Rank["complete"] = 7
  OBVIOUS
<1>4. Rank["getUser"] = 8 /\ Rank["updateStats"] = 9 /\ Rank["commit"] = 10
  OBVIOUS
<1>5. Rank["fallback"] = 11 /\ Rank["release"] = 12 /\ Rank["unscan"] = 13
  OBVIOUS
<1>6. Rank["done"] = 14 /\ Rank["dead"] = 14
  OBVIOUS
<1> QED
  BY <1>1, <1>2, <1>3, <1>4, <1>5, <1>6

LEMMA RankAbove ==
    ASSUME TypeOK, NEW r \in Requests, Step(r)
    PROVE  \E label \in PC : Goto(r, label) /\ Rank[pc[r]] < Rank[label]
<1> USE RankValues DEF TypeOK, PC, Entering, Working, Leaving, Over
<1>1. CASE Arrive(r) \/ LoadLimiter(r) \/ AddLimiter(r) \/ TryPut(r) \/ Undo(r)
  BY <1>1 DEF Arrive, LoadLimiter, AddLimiter, TryPut, Undo
<1>2. CASE \/ StartPrediction(r) \/ StartConflict(r) \/ StartFails(r)
           \/ StartAnswerLost(r)
  BY <1>2 DEF StartPrediction, StartConflict, StartFails, StartAnswerLost
<1>3. CASE \/ RequestPredict(r) \/ BeginTx(r) \/ CompleteInTx(r) \/ GetUser(r)
           \/ UpdateStats(r)
  BY <1>3 DEF RequestPredict, BeginTx, CompleteInTx, GetUser, UpdateStats
<1>4. CASE TxFails(r)
  BY <1>4 DEF TxFails
<1>5. CASE Commit(r) \/ CommitFails(r) \/ CommitAnswerLost(r)
  BY <1>5 DEF Commit, CommitFails, CommitAnswerLost
<1>6. CASE Fallback(r) \/ FallbackFails(r) \/ Release(r) \/ DeleteScan(r)
  BY <1>6 DEF Fallback, FallbackFails, Release, DeleteScan
<1> QED
  BY <1>1, <1>2, <1>3, <1>4, <1>5, <1>6 DEF Step, Predict, ProcessPrediction

LEMMA ForwardStep == TypeOK /\ [Next]_vars => Forward
<1> SUFFICES ASSUME TypeOK, [Next]_vars, NEW r \in Requests
             PROVE  /\ Rank[pc[r]] <= Rank[pc'[r]]
                    /\ Step(r) => Rank[pc[r]] < Rank[pc'[r]]
  BY DEF Forward
<1>1. \A label \in PC : Rank[label] \in 0 .. 14
  BY RankValues DEF PC, Entering, Working, Leaving, Over
<1>2. pc[r] \in PC /\ pc'[r] \in PC
  BY TypeStep DEF TypeOK
<1>3. Step(r) => Rank[pc[r]] < Rank[pc'[r]]
  BY RankAbove DEF TypeOK, Goto
<1>4. ASSUME NEW s \in Requests, Step(s), s # r
      PROVE  pc'[r] = pc[r]
  BY <1>4, RankAbove DEF TypeOK, Goto
<1>5. ASSUME Crash
      PROVE  pc'[r] = pc[r] \/ Rank[pc'[r]] = 14
  BY <1>5, RankValues DEF Crash, TypeOK
<1>6. ASSUME (\E u \in Users : DeleteUser(u)) \/ UNCHANGED vars
      PROVE  pc'[r] = pc[r]
  BY <1>6 DEF DeleteUser, vars
<1>7. Rank[pc[r]] <= Rank[pc'[r]]
  BY <1>1, <1>2, <1>3, <1>4, <1>5, <1>6 DEF Next, Quiet
<1> QED
  BY <1>3, <1>7

\* Every step of a request is a step towards its end and none leads back, so
\* fourteen of them are all a request can take: with a scheduler that lets it
\* run and a lock that is not kept for ever, it ends.
THEOREM EveryStepForward == Spec => RunsForward
<1>1. TypeOK /\ [Next]_vars => [Forward]_vars
  BY ForwardStep
<1> QED
  BY <1>1, TypeCorrect, PTL DEF Spec, RunsForward

-----------------------------------------------------------------------------
\* No request is under way.
AtRest == \A r \in Requests : pc[r] \in {"idle"} \cup Over

\* At rest, nothing is left in memory and no row is locked.
RestIsEmpty == AtRest => /\ limiter = 0
                         /\ inProcess = {}
                         /\ \A u \in Users : lock[u] = Nobody

LEMMA RestEmpty ==
    ASSUME TypeOK, SlotAccounting, ScanAccounting, LocksHeld
    PROVE  RestIsEmpty
<1> SUFFICES ASSUME AtRest
             PROVE  /\ limiter = 0
                    /\ inProcess = {}
                    /\ \A u \in Users : lock[u] = Nobody
  BY DEF RestIsEmpty
<1>1. SlotHolders = {} /\ ScanHolders = {}
  BY DEF AtRest, Over, SlotHolders, SlotLabels, ScanHolders, ScanLabels, Working
<1>2. limiter = 0
  BY <1>1, FS_EmptySet DEF SlotAccounting
<1>3. inProcess = {}
  BY <1>1 DEF ScanAccounting
<1>4. \A u \in Users : lock[u] = Nobody
  BY DEF AtRest, Over, TypeOK, LocksHeld
<1> QED
  BY <1>2, <1>3, <1>4

\* When the last request is over, every slot, every scan and every lock has been
\* given back: whatever failed on the way, nothing is left to restart for.
THEOREM RestLeavesNothing == Spec => []RestIsEmpty
BY RestEmpty, TypeCorrect, SlotsCounted, ScansExclusive, AlwaysLocks, PTL

-----------------------------------------------------------------------------
\* An accepted prediction is resolved by the time its request gives its slot
\* back; a restart leaves it "dead", not "done".
AcceptedFinal ==
    \A r \in Requests :
        answer[r] = "accepted" /\ pc[r] \in Leaving \cup {"done"} => row[r] \in Final

\* Nobody is told "accepted" before the row is written.
AcceptedLate ==
    \A r \in Requests :
        answer[r] = "accepted" => pc[r] \notin {"idle"} \cup Entering

AcceptedInv == AcceptedFinal /\ AcceptedLate

LEMMA AcceptedPredict ==
    ASSUME TypeOK, AcceptedInv, NEW r \in Requests, Predict(r)
    PROVE  AcceptedInv'
<1> USE DEF TypeOK, AcceptedInv, AcceptedFinal, AcceptedLate, Goto, Answer, Fails,
            Entering, Leaving, Final
<1>1. CASE Arrive(r) \/ LoadLimiter(r) \/ AddLimiter(r)
  BY <1>1 DEF Arrive, LoadLimiter, AddLimiter
<1>2. CASE TryPut(r) \/ Undo(r)
  BY <1>2 DEF TryPut, Undo
<1>3. CASE StartPrediction(r)
  BY <1>3 DEF StartPrediction
<1>4. CASE StartConflict(r) \/ StartFails(r)
  BY <1>4 DEF StartConflict, StartFails
<1>5. CASE StartAnswerLost(r)
  BY <1>5 DEF StartAnswerLost
<1> QED
  BY <1>1, <1>2, <1>3, <1>4, <1>5 DEF Predict

LEMMA AcceptedProcess ==
    ASSUME TypeOK, AcceptedInv, "fallback" \notin FaultKinds,
           NEW r \in Requests, ProcessPrediction(r)
    PROVE  AcceptedInv'
<1> USE DEF TypeOK, AcceptedInv, AcceptedFinal, AcceptedLate, Goto, Fails,
            Entering, Leaving, Final
<1>1. CASE RequestPredict(r) \/ BeginTx(r) \/ CompleteInTx(r)
  BY <1>1 DEF RequestPredict, BeginTx, CompleteInTx
<1>2. CASE GetUser(r) \/ UpdateStats(r)
  BY <1>2 DEF GetUser, UpdateStats
<1>3. CASE TxFails(r) \/ CommitFails(r)
  BY <1>3 DEF TxFails, CommitFails
<1>4. CASE Commit(r) \/ CommitAnswerLost(r)
  BY <1>4 DEF Commit, CommitAnswerLost, ApplyTx, ResolvedAs
<1>5. CASE Fallback(r)
  BY <1>5 DEF Fallback
<1>6. CASE FallbackFails(r)
  BY <1>6 DEF FallbackFails
<1>7. CASE Release(r) \/ DeleteScan(r)
  BY <1>7 DEF Release, DeleteScan
<1> QED
  BY <1>1, <1>2, <1>3, <1>4, <1>5, <1>6, <1>7 DEF ProcessPrediction

LEMMA AcceptedStep ==
    ASSUME "fallback" \notin FaultKinds
    PROVE  TypeOK /\ AcceptedInv /\ [Next]_vars => AcceptedInv'
<1> SUFFICES ASSUME TypeOK, AcceptedInv, [Next]_vars
             PROVE  AcceptedInv'
  OBVIOUS
<1> USE DEF AcceptedInv, AcceptedFinal, AcceptedLate
<1>1. CASE \E r \in Requests : Step(r)
  BY <1>1, AcceptedPredict, AcceptedProcess DEF Step
<1>2. CASE \E u \in Users : DeleteUser(u)
  BY <1>2 DEF DeleteUser
<1>3. CASE Crash
  BY <1>3 DEF Crash, TypeOK, Leaving, Entering
<1>4. CASE UNCHANGED vars
  BY <1>4 DEF vars
<1> QED
  BY <1>1, <1>2, <1>3, <1>4 DEF Next, Quiet

\* As long as the fallback reaches the database, every accepted prediction is
\* final when its goroutine ends, although BEGIN, any statement and COMMIT may
\* fail and the account may be deleted meanwhile: what AcceptedResolves promises
\* in the end, no run can end without.
THEOREM AcceptedEndsFinal ==
    ASSUME "fallback" \notin FaultKinds
    PROVE  Spec => []AcceptedFinal
<1>1. Init => AcceptedInv
  BY DEF Init, AcceptedInv, AcceptedFinal, AcceptedLate
<1>2. TypeOK /\ AcceptedInv /\ [Next]_vars => AcceptedInv'
  BY AcceptedStep
<1>3. AcceptedInv => AcceptedFinal
  BY DEF AcceptedInv
<1> QED
  BY <1>1, <1>2, <1>3, TypeCorrect, PTL DEF Spec

-----------------------------------------------------------------------------
(* What LimitRespected lacks: the test and the increment are two steps *)

\* Requests that have passed the test and not yet counted themselves.
Gate == {r \in Requests : pc[r] = "add"}
GateAtMost(n) == Cardinality(Gate) <= n

\* Predictions in processing, with at most n requests in the gate at once.
InProcessing == {r \in Requests : pc[r] \in Working}
Overshoot(n) == Cardinality(InProcessing) <= LimitRate + n - 1

\* Slots taken, and slots that will be taken without another test.
GateInv(n) == limiter + Cardinality(Gate) <= LimitRate + n - 1

LEMMA GateFinite ==
    ASSUME TypeOK
    PROVE  /\ IsFiniteSet(Gate) /\ Cardinality(Gate) \in Nat
           /\ Cardinality(Gate)' \in Nat
BY RequestsAssumption, FS_Subset, FS_CardinalityType DEF Gate

\* A request that neither enters nor leaves the gate.
LEMMA GateKept ==
    ASSUME TypeOK, TypeOK', NEW n \in Nat, GateInv(n), NEW r \in Requests,
           NEW label \in PC \ {"add"}, pc[r] # "add", Goto(r, label),
           limiter' <= limiter
    PROVE  GateInv(n)'
<1>1. Gate' = Gate
  BY DEF Gate, Goto, TypeOK
<1> QED
  BY <1>1, GateFinite, LimitAssumption DEF GateInv, TypeOK

LEMMA GatePredict ==
    ASSUME TypeOK, TypeOK', NEW n \in Nat, GateInv(n), GateAtMost(n)',
           NEW r \in Requests, Predict(r)
    PROVE  GateInv(n)'
<1> USE DEF PC, Entering, Working, Leaving, Over
<1>1. CASE LoadLimiter(r)
  <2>1. CASE limiter >= LimitRate
    BY <1>1, <2>1, GateKept DEF LoadLimiter, TypeOK
  <2>2. CASE ~(limiter >= LimitRate)
    <3>1. limiter' = limiter /\ limiter <= LimitRate - 1
      BY <1>1, <2>2, LimitAssumption DEF LoadLimiter, TypeOK
    <3> QED
      BY <3>1, GateFinite, LimitAssumption DEF GateInv, GateAtMost, TypeOK
  <2> QED
    BY <2>1, <2>2
<1>2. CASE AddLimiter(r)
  <2>1. Gate' = Gate \ {r} /\ r \in Gate /\ limiter' = limiter + 1
    BY <1>2 DEF AddLimiter, Gate, Goto, TypeOK
  <2>2. Cardinality(Gate') = Cardinality(Gate) - 1
    BY <2>1, GateFinite, FS_RemoveElement
  <2> QED
    BY <2>1, <2>2, GateFinite, LimitAssumption DEF GateInv, TypeOK
<1>3. CASE Arrive(r) \/ TryPut(r) \/ Undo(r)
  BY <1>3, GateKept DEF Arrive, TryPut, Undo, TypeOK
<1>4. CASE \/ StartPrediction(r) \/ StartConflict(r)
           \/ StartFails(r) \/ StartAnswerLost(r)
  BY <1>4, GateKept
     DEF StartPrediction, StartConflict, StartFails, StartAnswerLost, TypeOK
<1> QED
  BY <1>1, <1>2, <1>3, <1>4 DEF Predict

LEMMA GateProcess ==
    ASSUME TypeOK, TypeOK', NEW n \in Nat, GateInv(n),
           NEW r \in Requests, ProcessPrediction(r)
    PROVE  GateInv(n)'
<1>1. /\ pc[r] # "add" /\ limiter' <= limiter
      /\ \E label \in PC \ {"add"} : Goto(r, label)
  BY DEF ProcessPrediction, RequestPredict, BeginTx, CompleteInTx, GetUser,
         UpdateStats, TxFails, Commit, CommitFails, CommitAnswerLost, Fallback,
         FallbackFails, Release, DeleteScan, TypeOK, PC, Working, Leaving, Over
<1> QED
  BY <1>1, GateKept

LEMMA GateStep ==
    ASSUME NEW n \in Nat
    PROVE  TypeOK /\ TypeOK' /\ GateInv(n) /\ GateAtMost(n)' /\ [Next]_vars
               => GateInv(n)'
<1> SUFFICES ASSUME TypeOK, TypeOK', GateInv(n), GateAtMost(n)', [Next]_vars
             PROVE  GateInv(n)'
  OBVIOUS
<1>1. CASE \E r \in Requests : Step(r)
  BY <1>1, GatePredict, GateProcess DEF Step
<1>2. CASE Crash
  <2>1. Gate' = {} /\ limiter' = 0
    BY <1>2 DEF Crash, Gate, TypeOK
  <2> QED
    BY <2>1, FS_EmptySet, LimitAssumption DEF GateInv
<1>3. CASE UNCHANGED <<pc, limiter>>
  BY <1>3 DEF GateInv, Gate
<1> QED
  BY <1>1, <1>2, <1>3 DEF Next, DeleteUser, Quiet, vars

LEMMA GateBounds ==
    ASSUME NEW n \in Nat
    PROVE  TypeOK /\ SlotAccounting /\ GateInv(n) => Overshoot(n)
<1> SUFFICES ASSUME TypeOK, SlotAccounting, GateInv(n) PROVE Overshoot(n)
  OBVIOUS
<1>1. InProcessing \subseteq SlotHolders
  BY DEF InProcessing, SlotHolders, SlotLabels
<1>2. /\ Cardinality(InProcessing) <= Cardinality(SlotHolders)
      /\ Cardinality(InProcessing) \in Nat /\ Cardinality(SlotHolders) \in Nat
  BY <1>1, HoldersFinite, FS_Subset, FS_CardinalityType
<1> QED
  BY <1>2, GateFinite, LimitAssumption
     DEF SlotAccounting, GateInv, Overshoot, TypeOK

LEMMA GateInit == ASSUME NEW n \in Nat PROVE Init => GateInv(n)
<1> SUFFICES ASSUME Init PROVE GateInv(n)
  OBVIOUS
<1>1. Gate = {} /\ limiter = 0
  BY DEF Init, Gate
<1> QED
  BY <1>1, FS_EmptySet, LimitAssumption DEF GateInv

\* The limit is overshot by as many requests as ever stand in the gate behind the
\* first, never by more, over whatever failures, conflicts and restarts.
THEOREM OvershootBounded ==
    ASSUME NEW n \in Nat
    PROVE  Spec /\ []GateAtMost(n) => []Overshoot(n)
BY GateInit, GateStep, GateBounds, TypeCorrect, SlotsCounted, PTL DEF Spec

\* What the configuration says of the limit holds of requests that pass the
\* gate one at a time.
THEOREM LimitInTurn == Spec /\ []GateAtMost(1) => []LimitRespected
<1>1. Init => GateInv(1)
  BY GateInit
<1>2. TypeOK /\ TypeOK' /\ GateInv(1) /\ GateAtMost(1)' /\ [Next]_vars
          => GateInv(1)'
  BY GateStep
<1>3. TypeOK /\ SlotAccounting /\ GateInv(1) => LimitRespected
  BY GateBounds, LimitAssumption DEF Overshoot, InProcessing, LimitRespected
<1> QED
  BY <1>1, <1>2, <1>3, TypeCorrect, SlotsCounted, PTL DEF Spec

-----------------------------------------------------------------------------
(* What StatsExact lacks: the read and the write are two statements *)

\* No two transactions of u are between them at once.
NoOverlap(u) ==
    \A r, s \in Requests :
        /\ UserOf[r] = u /\ UserOf[s] = u
        /\ pc[r] \in {"updateStats", "commit"}
        /\ pc[s] \in {"updateStats", "commit"}
        => r = s

\* The statistics of u count what was resolved, and ten points for each scan of
\* it that was classified.
ExactFor(u) == /\ stats[u].files = Cardinality(Resolved(u))
               /\ stats[u].rating = 10 * Cardinality(Classified(u))

\* What a transaction of u has read is still there.
ExactInv(u) ==
    /\ ExactFor(u)
    /\ \A r \in Requests :
           UserOf[r] = u /\ pc[r] \in {"updateStats", "commit"} =>
               seen[r] = stats[u]

\* Nothing the invariant speaks of moves.
StatsUntouched ==
    /\ committed' = committed /\ stats' = stats
    /\ \A s \in committed : outcome'[s] = outcome[s]
    /\ \A s \in Requests : pc'[s] \in {"updateStats", "commit"} =>
           pc[s] \in {"updateStats", "commit"} /\ seen'[s] = seen[s]

\* The transaction of r takes effect, heard or unheard.
TakesEffect(r) == /\ pc[r] = "commit"
                  /\ ApplyTx(r)
                  /\ outcome' = outcome /\ seen' = seen
                  /\ \E label \in {"release", "fallback"} : Goto(r, label)

\* Every step of a request but two leaves it so.
LEMMA QuietSteps ==
    ASSUME TypeOK, RowFollowsRequest, NEW r \in Requests,
           \/ Predict(r) \/ RequestPredict(r) \/ BeginTx(r) \/ CompleteInTx(r)
           \/ UpdateStats(r) \/ TxFails(r) \/ CommitFails(r) \/ Fallback(r)
           \/ FallbackFails(r) \/ Release(r) \/ DeleteScan(r)
    PROVE  StatsUntouched
<1> USE DEF TypeOK, Goto, StatsUntouched
<1>1. CASE Predict(r)
  <2>1. /\ committed' = committed /\ stats' = stats
        /\ outcome' = outcome /\ seen' = seen
        /\ \E label \in PC \ {"updateStats", "commit"} : Goto(r, label)
    BY <1>1 DEF Predict, Arrive, LoadLimiter, AddLimiter, TryPut, Undo,
                StartPrediction, StartConflict, StartFails, StartAnswerLost,
                PC, Entering, Working, Leaving, Over
  <2> QED
    BY <2>1
<1>2. CASE RequestPredict(r)
  <2>1. r \notin committed
    BY <1>2 DEF RequestPredict, RowFollowsRequest, Working, Final
  <2> QED
    BY <1>2, <2>1 DEF RequestPredict
<1>3. CASE BeginTx(r) \/ CompleteInTx(r) \/ UpdateStats(r)
  BY <1>3 DEF BeginTx, CompleteInTx, UpdateStats
<1>4. CASE TxFails(r) \/ CommitFails(r)
  BY <1>4 DEF TxFails, CommitFails
<1>5. CASE Fallback(r) \/ FallbackFails(r) \/ Release(r) \/ DeleteScan(r)
  BY <1>5 DEF Fallback, FallbackFails, Release, DeleteScan
<1> QED
  BY <1>1, <1>2, <1>3, <1>4, <1>5

LEMMA StatsMoves ==
    ASSUME TypeOK, RowFollowsRequest, [Next]_vars
    PROVE  \/ StatsUntouched
           \/ \E r \in Requests : GetUser(r) \/ TakesEffect(r)
<1>1. ASSUME NEW r \in Requests, Commit(r) \/ CommitAnswerLost(r)
      PROVE  TakesEffect(r)
  BY <1>1 DEF Commit, CommitAnswerLost, TakesEffect
<1>2. ASSUME NEW u \in Users, DeleteUser(u) PROVE StatsUntouched
  BY <1>2 DEF DeleteUser, StatsUntouched
<1>3. CASE Crash \/ UNCHANGED vars
  BY <1>3 DEF Crash, vars, StatsUntouched, TypeOK
<1> QED
  BY <1>1, <1>2, <1>3, QuietSteps DEF Next, Step, ProcessPrediction, Quiet

LEMMA ExactStep ==
    ASSUME NEW u \in Users
    PROVE  TypeOK /\ RowFollowsRequest /\ NoOverlap(u) /\ ExactInv(u) /\ [Next]_vars
               => ExactInv(u)'
<1> SUFFICES ASSUME TypeOK, RowFollowsRequest, NoOverlap(u), ExactInv(u), [Next]_vars
             PROVE  ExactInv(u)'
  OBVIOUS
<1>1. CASE StatsUntouched
  <2>1. Resolved(u)' = Resolved(u) /\ Classified(u)' = Classified(u)
    BY <1>1, CountsKept DEF StatsUntouched
  <2> QED
    BY <1>1, <2>1 DEF StatsUntouched, ExactInv, ExactFor
<1>2. ASSUME NEW r \in Requests, GetUser(r) PROVE ExactInv(u)'
  <2>1. Resolved(u)' = Resolved(u) /\ Classified(u)' = Classified(u)
    BY <1>2, CountsKept DEF GetUser
  <2>2. ASSUME NEW s \in Requests, UserOf[s] = u,
               pc'[s] \in {"updateStats", "commit"}
        PROVE  seen'[s] = stats[u]
    BY <1>2, <2>2 DEF GetUser, Goto, TypeOK, ExactInv
  <2> QED
    BY <1>2, <2>1, <2>2 DEF GetUser, ExactInv, ExactFor
<1>3. ASSUME NEW r \in Requests, TakesEffect(r) PROVE ExactInv(u)'
  <2>1. r \notin committed /\ UserOf[r] \in Users
    BY <1>3, OwnersAssumption DEF TakesEffect, RowFollowsRequest, Working, Final
  <2>2. CASE UserOf[r] = u
    <3>1. /\ Cardinality(Resolved(u)') = Cardinality(Resolved(u)) + 1
          /\ Cardinality(Classified(u)') =
                 IF outcome[r] = "result" THEN Cardinality(Classified(u)) + 1
                                          ELSE Cardinality(Classified(u))
      BY <1>3, <2>1, <2>2, CountsGrow DEF TakesEffect, ApplyTx
    <3>2. seen[r] = stats[u] /\ stats[u] \in Stats
      BY <1>3, <2>2 DEF TakesEffect, ExactInv, TypeOK
    <3>3. stats'[u] = Credit(stats[u], outcome[r])
      BY <1>3, <2>2, <3>2 DEF TakesEffect, ApplyTx, TypeOK
    <3>4. /\ Cardinality(Resolved(u)) \in Nat /\ Cardinality(Classified(u)) \in Nat
          /\ ExactFor(u)
      BY CountsFinite DEF ExactInv
    <3>5. ExactFor(u)'
      BY <3>1, <3>3, <3>4 DEF ExactFor, Credit
    <3>6. ASSUME NEW s \in Requests, UserOf[s] = u,
                 pc'[s] \in {"updateStats", "commit"}
          PROVE  FALSE
      BY <1>3, <2>2, <3>6 DEF TakesEffect, NoOverlap, Goto, TypeOK
    <3> QED
      BY <3>5, <3>6 DEF ExactInv
  <2>3. CASE UserOf[r] # u
    <3>1. Resolved(u)' = Resolved(u) /\ Classified(u)' = Classified(u)
      BY <1>3, <2>1, <2>3, CountsGrow DEF TakesEffect, ApplyTx
    <3>2. stats'[u] = stats[u]
      BY <1>3, <2>3 DEF TakesEffect, ApplyTx, TypeOK
    <3>3. ASSUME NEW s \in Requests, UserOf[s] = u,
                 pc'[s] \in {"updateStats", "commit"}
          PROVE  pc[s] = pc'[s] /\ seen'[s] = seen[s]
      BY <1>3, <2>3, <3>3 DEF TakesEffect, Goto, TypeOK
    <3> QED
      BY <3>1, <3>2, <3>3 DEF ExactInv, ExactFor
  <2> QED
    BY <2>2, <2>3
<1> QED
  BY <1>1, <1>2, <1>3, StatsMoves

LEMMA ExactInit == ASSUME NEW u \in Users PROVE Init => ExactInv(u)
<1> SUFFICES ASSUME Init PROVE ExactInv(u)
  OBVIOUS
<1>1. Resolved(u) = {} /\ Classified(u) = {}
  BY DEF Init, Resolved, Classified
<1> QED
  BY <1>1, FS_EmptySet DEF Init, ExactInv, ExactFor, NoStats

\* The statistics of a user are exact, files and rating, as long as no two
\* transactions of the same user overlap between the read and the commit:
\* neither failures nor restarts, nor anything other users do, cost a scan.
THEOREM StatsExactAlone ==
    ASSUME NEW u \in Users
    PROVE  Spec /\ []NoOverlap(u) => []ExactFor(u)
<1>1. ExactInv(u) => ExactFor(u)
  BY DEF ExactInv
<1> QED
  BY <1>1, ExactInit, ExactStep, TypeCorrect, RowsFollowRequests, PTL DEF Spec
=============================================================================
