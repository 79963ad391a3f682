--------------------------- MODULE PredictionsProofs ---------------------------
(***************************************************************************)
(* Theorems about Predictions for any sets of requests and users, any      *)
(* answers of the service and any number of failures and restarts.         *)
(***************************************************************************)
EXTENDS Predictions, PredictorProofs

\* The groups of variables are transparent in every proof below.
USE DEF memory, database, worker, budget, client, scores, readers

-----------------------------------------------------------------------------
(* Predictions implements Predictor *)

\* What the handlers, the goroutine and the readers do to Predictor.
LEMMA PostIsPredict ==
    ASSUME NEW r \in Requests, Post(r)
    PROVE  Step(r) \/ UNCHANGED vars
BY DEF Post, BadForm, Upload, UploadFails, RunPredict, Encode, Step, Predict,
       ProcessPrediction

LEMMA ProcessIsGoroutine ==
    ASSUME NEW r \in Requests, Process(r)
    PROVE  ProcessPrediction(r)
BY DEF Process, AskService, ReadScore, WriteScore, Work, ProcessPrediction

LEMMA ApiStepIsStep == [ApiNext]_apiVars => [Next]_vars
<1> SUFFICES ASSUME [ApiNext]_apiVars
             PROVE  [Next]_vars
  OBVIOUS
<1>1. ASSUME NEW r \in Requests, Post(r) PROVE Step(r) \/ UNCHANGED vars
  BY <1>1, PostIsPredict
<1>2. ASSUME NEW r \in Requests, Process(r) PROVE Step(r)
  BY <1>2, ProcessIsGoroutine DEF Step
<1>3. ASSUME NEW r \in Watched, Look(r) PROVE UNCHANGED vars
  BY <1>3 DEF Look
<1>4. ASSUME NEW u \in Users, Detail(u) PROVE UNCHANGED vars
  BY <1>4 DEF Detail
<1>5. ASSUME NEW u \in Users, EndUser(u) PROVE DeleteUser(u)
  BY <1>5 DEF EndUser
<1>6. CASE Restart
  BY <1>6 DEF Restart, Next
<1>7. CASE AllOver \/ UNCHANGED apiVars
  BY <1>7 DEF AllOver, apiVars
<1> QED
  BY <1>1, <1>2, <1>3, <1>4, <1>5, <1>6, <1>7 DEF ApiNext, Next

\* Whatever is proved of Predictor holds behind its API too.
THEOREM ApiIsPredictor == ApiSpec => Spec
<1>1. ApiInit => Init
  BY DEF ApiInit
<1> QED
  BY <1>1, ApiStepIsStep, PTL DEF ApiSpec, Spec

\* The invariants of Predictor the proofs below rest on.
Inherited == /\ TypeOK
             /\ RowFollowsRequest
             /\ StatsInv
             /\ StrandedInv
             /\ CreditMatchesRow

LEMMA PredictorHolds == ApiSpec => []Inherited
<1>1. Init => StatsInv /\ StrandedInv
  BY StatsInit DEF Init, StrandedInv, StrandedExplained, TroubleExplained
<1>2. TypeOK /\ RowFollowsRequest /\ StatsInv /\ [Next]_vars => StatsInv'
  BY StatsStep
<1>3. TypeOK /\ RowFollowsRequest /\ StrandedInv /\ [Next]_vars => StrandedInv'
  BY StrandedStep
<1>4. Inherited <=> /\ TypeOK
                    /\ RowFollowsRequest
                    /\ StatsInv
                    /\ StrandedInv
                    /\ CreditMatchesRow
  BY DEF Inherited
<1> QED
  BY <1>1, <1>2, <1>3, <1>4, ApiIsPredictor, TypeCorrect, RowsFollowRequests,
     LedgerHolds, PTL DEF Spec

-----------------------------------------------------------------------------
(* What a client may see *)

\* The client has seen what the row once was.
ViewInv ==
    \A r \in Requests :
        /\ view[r] \in RowStatus
        /\ view[r] # "none" => row[r] # "none"
        /\ view[r] = "completed" => \/ row[r] = "completed"
                                    \/ row[r] = "failed" /\ r \in unheard
        /\ view[r] = "failed" => row[r] = "failed"

\* A row once written stays, a failed one stays failed, and a completed one
\* fails only if its COMMIT went unheard.
RowMoves ==
    \A r \in Requests :
        /\ row[r] # "none" => row'[r] # "none"
        /\ row[r] = "failed" => row'[r] = "failed"
        /\ row[r] = "completed" => \/ row'[r] = "completed"
                                   \/ row'[r] = "failed" /\ r \in unheard

LEMMA RowMovesStep ==
    ASSUME TypeOK, RowFollowsRequest, [Next]_vars
    PROVE  RowMoves
<1> USE DEF TypeOK, RowFollowsRequest, RowMoves, RowStatus, Final, Entering,
            Working, Goto, Fails
<1>1. CASE row' = row
  BY <1>1
<1>2. ASSUME NEW r \in Requests,
             StartPrediction(r) \/ StartAnswerLost(r)
      PROVE  RowMoves
  BY <1>2 DEF StartPrediction, StartAnswerLost
<1>3. ASSUME NEW r \in Requests, Commit(r) \/ CommitAnswerLost(r)
      PROVE  RowMoves
  BY <1>3 DEF Commit, CommitAnswerLost, ApplyTx, ResolvedAs
<1>4. ASSUME NEW r \in Requests, Fallback(r)
      PROVE  RowMoves
  BY <1>4 DEF Fallback
<1>5. ASSUME NEW r \in Requests, Step(r)
      PROVE  \/ row' = row
             \/ StartPrediction(r) \/ StartAnswerLost(r)
             \/ Commit(r) \/ CommitAnswerLost(r)
             \/ Fallback(r)
  BY <1>5 DEF Step, Predict, ProcessPrediction, Arrive, LoadLimiter, AddLimiter,
              TryPut, Undo, StartConflict, StartFails, RequestPredict, BeginTx,
              CompleteInTx, GetUser, UpdateStats, TxFails, CommitFails,
              FallbackFails, Release, DeleteScan
<1>6. \/ row' = row
      \/ \E r \in Requests : Step(r)
  BY DEF Next, DeleteUser, Crash, Quiet, vars
<1> QED
  BY <1>1, <1>2, <1>3, <1>4, <1>5, <1>6

LEMMA UnheardGrows ==
    ASSUME TypeOK, [Next]_vars
    PROVE  \/ unheard' = unheard
           \/ \E r \in Requests : unheard' = unheard \cup {r}
<1>1. ASSUME NEW r \in Requests, Step(r)
      PROVE  unheard' = unheard \/ unheard' = unheard \cup {r}
  BY <1>1 DEF Step, Predict, ProcessPrediction, Arrive, LoadLimiter, AddLimiter,
              TryPut, Undo, StartPrediction, StartConflict, StartFails,
              StartAnswerLost, RequestPredict, BeginTx, CompleteInTx, GetUser,
              UpdateStats, TxFails, Commit, CommitFails, CommitAnswerLost,
              Fallback, FallbackFails, Release, DeleteScan
<1> QED
  BY <1>1 DEF Next, DeleteUser, Crash, Quiet, vars

\* Only Look moves a view, and it moves nothing else.
LEMMA ViewMoves ==
    ASSUME [ApiNext]_apiVars
    PROVE  \/ view' = view
           \/ \E r \in Watched : Look(r)
BY DEF ApiNext, Post, BadForm, Upload, UploadFails, RunPredict, Encode, Process,
       AskService, ReadScore, WriteScore, Work, Detail, EndUser, Restart,
       AllOver, apiVars

LEMMA ViewStep ==
    ASSUME Inherited, ViewInv, [ApiNext]_apiVars
    PROVE  ViewInv' /\ [PromisedView!Next]_(PromisedView!viewVars)
<1>1. [Next]_vars /\ TypeOK /\ RowFollowsRequest
  BY ApiStepIsStep DEF Inherited
<1>2. RowMoves /\ (\/ unheard' = unheard
                  \/ \E r \in Requests : unheard' = unheard \cup {r})
  BY <1>1, RowMovesStep, UnheardGrows
<1>3. CASE view' = view
  <2>1. ViewInv'
    BY <1>2, <1>3 DEF ViewInv, RowMoves
  <2>2. CASE unheard' = unheard
    BY <1>3, <2>2, <2>1 DEF PromisedView!viewVars
  <2>3. ASSUME NEW r \in Requests, unheard' = unheard \cup {r}
        PROVE  PromisedView!Next
    BY <1>3, <2>3 DEF PromisedView!Next, PromisedView!Withdraw
  <2> QED
    BY <1>2, <2>1, <2>2, <2>3
<1>4. ASSUME NEW r \in Watched, Look(r)
      PROVE  ViewInv' /\ PromisedView!Next
  <2>1. /\ r \in Requests /\ row[r] \in RowStatus /\ row[r] # "none"
        /\ view' = [view EXCEPT ![r] = row[r]]
        /\ row' = row /\ unheard' = unheard
    BY <1>1, <1>4, WatchedAssumption DEF Look, vars, TypeOK
  <2>2. row[r] \in PromisedView!Later(r)
    BY <2>1 DEF ViewInv, PromisedView!Later, RowStatus, Final
  <2>3. ViewInv'
    BY <2>1 DEF ViewInv
  <2> QED
    BY <2>1, <2>2, <2>3 DEF PromisedView!Next, PromisedView!See
<1> QED
  BY <1>3, <1>4, ViewMoves

\* The API implements the promise to a polling client: a status once seen never
\* goes back, but for a prediction whose COMMIT went unheard.
THEOREM ImplementsView == ApiSpec => ViewSpec
<1>1. ApiInit => ViewInv /\ PromisedView!Init
  BY DEF ApiInit, Init, ViewInv, PromisedView!Init, RowStatus
<1>2. Inherited /\ ViewInv /\ [ApiNext]_apiVars
          => ViewInv' /\ [PromisedView!Next]_(PromisedView!viewVars)
  BY ViewStep
<1> QED
  BY <1>1, <1>2, PredictorHolds, PTL DEF ApiSpec, ViewSpec, PromisedView!Spec

-----------------------------------------------------------------------------
(* The score of a user *)

\* Every rating has a status.
LEMMA StatusExists ==
    ASSUME NEW n \in Nat
    PROVE  StatusOf(n) \in UserStatus
<1> DEFINE Reached(s) == /\ Threshold[s] <= n
                        /\ \A t \in UserStatus :
                              Threshold[t] <= n => Threshold[t] <= Threshold[s]
<1>1. \E s \in UserStatus : Reached(s)
  <2> USE DEF UserStatus, Threshold
  <2>1. CASE n < 100
    <3>1. Reached("newbie")
      BY <2>1
    <3> QED
      BY <3>1
  <2>2. CASE n >= 100 /\ n < 300
    <3>1. Reached("eco_scout")
      BY <2>2
    <3> QED
      BY <3>1
  <2>3. CASE n >= 300 /\ n < 500
    <3>1. Reached("green_guard")
      BY <2>3
    <3> QED
      BY <3>1
  <2>4. CASE n >= 500 /\ n < 1000
    <3>1. Reached("eco_warrior")
      BY <2>4
    <3> QED
      BY <3>1
  <2>5. CASE n >= 1000 /\ n < 1500
    <3>1. Reached("nature_hero")
      BY <2>5
    <3> QED
      BY <3>1
  <2>6. CASE n >= 1500 /\ n < 3000
    <3>1. Reached("earth_defender")
      BY <2>6
    <3> QED
      BY <3>1
  <2>7. CASE n >= 3000 /\ n < 5000
    <3>1. Reached("eco_champion")
      BY <2>7
    <3> QED
      BY <3>1
  <2>8. CASE n >= 5000 /\ n < 10000
    <3>1. Reached("planet_guardian")
      BY <2>8
    <3> QED
      BY <3>1
  <2>9. CASE n >= 10000
    <3>1. Reached("eco_legend")
      BY <2>9
    <3> QED
      BY <3>1
  <2> QED
    BY <2>1, <2>2, <2>3, <2>4, <2>5, <2>6, <2>7, <2>8, <2>9
<1> QED
  BY <1>1 DEF StatusOf

\* The score fits the statistics it was written with.
Fits(sc, u, s) == /\ sc.status = StatusOf(Earned[u] + s.rating)
                  /\ \A n \in Names : sc.tally[n] <= s.files

ScoreTypes == /\ types \in [Requests -> {{}} \cup Answers]
              /\ score \in [Users -> Scores]
              /\ seenScore \in [Requests -> Scores]

ScoreInv == /\ ScoreTypes
            /\ \A u \in Users : Fits(score[u], u, stats[u])
            /\ \A r \in Requests : Fits(seenScore[r], UserOf[r], seen[r])

LEMMA NoScoreFits ==
    ASSUME NEW u \in Users
    PROVE  NoScore(u) \in Scores /\ Fits(NoScore(u), u, NoStats)
<1>1. Earned[u] \in Nat
  BY EarnedAssumption
<1>2. StatusOf(Earned[u]) \in UserStatus
  BY <1>1, StatusExists
<1> QED
  BY <1>1, <1>2 DEF NoScore, NoStats, Scores, Fits

\* What a transaction writes fits the statistics it writes.
LEMMA ScoreFits ==
    ASSUME TypeOK, ScoreInv, NEW r \in Requests
    PROVE  /\ Score(r) \in Scores
           /\ Fits(Score(r), UserOf[r], Credit(seen[r], outcome[r]))
<1> DEFINE u == UserOf[r]
           s == seen[r]
           q == seenScore[r]
           new == Credit(s, "result")
<1>1. /\ u \in Users /\ Earned[u] \in Nat
      /\ s \in Stats /\ q \in Scores /\ Fits(q, u, s)
  BY OwnersAssumption, EarnedAssumption DEF TypeOK, ScoreInv, ScoreTypes
<1>2. CASE outcome[r] = "result"
  <2>1. new.rating \in Nat /\ new.files = s.files + 1
    BY <1>1 DEF Credit, Stats
  <2>2. StatusOf(Earned[u] + new.rating) \in UserStatus
    BY <1>1, <2>1, StatusExists
  <2>3. \A n \in Names : q.tally[n] \in Nat /\ q.tally[n] <= s.files
    BY <1>1 DEF Scores, Fits
  <2>4. /\ CountTypes(q.tally, types[r]) \in [Names -> Nat]
        /\ \A n \in Names : CountTypes(q.tally, types[r])[n] <= s.files + 1
    BY <2>3, <1>1 DEF CountTypes, Stats
  <2>5. Score(r) = [status |-> StatusOf(Earned[u] + new.rating),
                    tally |-> CountTypes(q.tally, types[r])]
    BY <1>2 DEF Score
  <2> HIDE DEF u, s, q, new
  <2>6. Score(r) \in Scores
    BY <2>2, <2>4, <2>5 DEF Scores
  <2>7. Fits(Score(r), u, new)
    BY <2>1, <2>4, <2>5 DEF Fits
  <2> QED
    BY <1>2, <2>6, <2>7 DEF new, u, s
<1>3. CASE outcome[r] # "result"
  <2>1. Score(r) = q
    BY <1>3 DEF Score
  <2>2. Credit(s, outcome[r]) = [files |-> s.files + 1, rating |-> s.rating]
    BY <1>3 DEF Credit
  <2>3. \A n \in Names : q.tally[n] \in Nat /\ q.tally[n] <= s.files
    BY <1>1 DEF Scores, Fits
  <2> HIDE DEF u, s, q
  <2>4. Fits(q, u, [files |-> s.files + 1, rating |-> s.rating])
    BY <1>1, <2>3 DEF Fits, Stats
  <2> QED
    BY <1>1, <2>1, <2>2, <2>4 DEF u, s, q
<1> QED
  BY <1>2, <1>3

\* Three steps of the goroutine move the score or what it must fit.
LEMMA ScoreMoves ==
    ASSUME [ApiNext]_apiVars
    PROVE  \/ UNCHANGED <<scores, stats, seen>>
           \/ \E r \in Requests : AskService(r) \/ ReadScore(r) \/ WriteScore(r)
<1>1. ASSUME NEW r \in Requests, Post(r)
      PROVE  UNCHANGED <<scores, stats, seen>>
  BY <1>1 DEF Post, BadForm, Upload, UploadFails, RunPredict, Encode, Predict,
              Arrive, LoadLimiter, AddLimiter, TryPut, Undo, StartPrediction,
              StartConflict, StartFails, StartAnswerLost, Release, DeleteScan,
              vars
<1>2. ASSUME NEW r \in Requests, Work(r)
      PROVE  UNCHANGED <<scores, stats, seen>>
  BY <1>2 DEF Work, BeginTx, CompleteInTx, UpdateStats, TxFails, CommitFails,
              Fallback, FallbackFails, Release, DeleteScan
<1>3. ASSUME NEW r \in Watched, Look(r)
      PROVE  UNCHANGED <<scores, stats, seen>>
  BY <1>3 DEF Look, vars
<1>4. ASSUME NEW u \in Users, Detail(u) \/ EndUser(u)
      PROVE  UNCHANGED <<scores, stats, seen>>
  BY <1>4 DEF Detail, EndUser, DeleteUser, vars
<1>5. CASE Restart \/ AllOver \/ UNCHANGED apiVars
  BY <1>5 DEF Restart, Crash, AllOver, apiVars, vars
<1> QED
  BY <1>1, <1>2, <1>3, <1>4, <1>5 DEF ApiNext, Process

LEMMA ScoreStep ==
    ASSUME TypeOK, ScoreInv, [ApiNext]_apiVars
    PROVE  ScoreInv'
<1>1. CASE UNCHANGED <<scores, stats, seen>>
  BY <1>1 DEF ScoreInv, ScoreTypes, Fits
<1>2. ASSUME NEW r \in Requests, AskService(r)
      PROVE  ScoreInv'
  <2>1. /\ stats' = stats /\ seen' = seen
        /\ score' = score /\ seenScore' = seenScore
    BY <1>2 DEF AskService, RequestPredict
  <2>2. types' \in [Requests -> {{}} \cup Answers]
    BY <1>2 DEF AskService, ScoreInv, ScoreTypes
  <2> QED
    BY <2>1, <2>2 DEF ScoreInv, ScoreTypes, Fits
<1>3. ASSUME NEW r \in Requests, ReadScore(r)
      PROVE  ScoreInv'
  <2>1. /\ stats' = stats /\ types' = types /\ score' = score
        /\ UserOf[r] \in Users
    BY <1>3, OwnersAssumption DEF ReadScore, GetUser
  <2>2. \/ seen' = seen /\ seenScore' = seenScore
        \/ /\ seen' = [seen EXCEPT ![r] = stats[UserOf[r]]]
           /\ seenScore' = [seenScore EXCEPT ![r] = score[UserOf[r]]]
    BY <1>3 DEF ReadScore, GetUser, Goto, TypeOK
  <2> QED
    BY <2>1, <2>2 DEF ScoreInv, ScoreTypes, TypeOK, Fits
<1>4. ASSUME NEW r \in Requests, WriteScore(r)
      PROVE  ScoreInv'
  <2> DEFINE u == UserOf[r]
             new == Credit(seen[r], outcome[r])
  <2>1. u \in Users /\ Score(r) \in Scores /\ Fits(Score(r), u, new)
    BY ScoreFits, OwnersAssumption
  <2>2. /\ stats' = [stats EXCEPT ![u] = new]
        /\ score' = [score EXCEPT ![u] = Score(r)]
        /\ types' = types /\ seen' = seen /\ seenScore' = seenScore
    BY <1>4 DEF WriteScore, Commit, CommitAnswerLost, ApplyTx
  <2> HIDE DEF u, new
  <2>3. \A v \in Users : IF v = u THEN score'[v] = Score(r) /\ stats'[v] = new
                          ELSE score'[v] = score[v] /\ stats'[v] = stats[v]
    BY <2>2 DEF ScoreInv, ScoreTypes, TypeOK
  <2>4. \A v \in Users : Fits(score'[v], v, stats'[v])
    BY <2>1, <2>3 DEF ScoreInv
  <2>5. \A q \in Requests : Fits(seenScore'[q], UserOf[q], seen'[q])
    BY <2>2 DEF ScoreInv
  <2>6. ScoreTypes'
    BY <2>1, <2>2 DEF ScoreInv, ScoreTypes
  <2> QED
    BY <2>4, <2>5, <2>6 DEF ScoreInv, Fits
<1> QED
  BY <1>1, <1>2, <1>3, <1>4, ScoreMoves

LEMMA ScoreHolds == ApiSpec => []ScoreInv
<1>1. ApiInit => ScoreInv
  <2> SUFFICES ASSUME ApiInit PROVE ScoreInv
    OBVIOUS
  <2>1. /\ stats = [u \in Users |-> NoStats]
        /\ seen = [r \in Requests |-> NoStats]
        /\ types = [r \in Requests |-> {}]
        /\ score = [u \in Users |-> NoScore(u)]
        /\ seenScore = [r \in Requests |-> NoScore(UserOf[r])]
    BY DEF ApiInit, Init
  <2>2. /\ \A u \in Users : NoScore(u) \in Scores /\ Fits(NoScore(u), u, NoStats)
        /\ \A r \in Requests : UserOf[r] \in Users
    BY NoScoreFits, OwnersAssumption
  <2> QED
    BY <2>1, <2>2 DEF ScoreInv, ScoreTypes
<1>2. Inherited /\ ScoreInv /\ [ApiNext]_apiVars => ScoreInv'
  BY ScoreStep DEF Inherited
<1> QED
  BY <1>1, <1>2, PredictorHolds, PTL DEF ApiSpec

\* The columns of a row of statistics agree with each other, whichever updates
\* are lost and whatever types the service answers with.
THEOREM ScoresConsistent == ApiSpec => []ScoreConsistent
<1>1. ScoreInv => ScoreConsistent
  BY DEF ScoreInv, Fits, ScoreConsistent
<1> QED
  BY <1>1, ScoreHolds, PTL

-----------------------------------------------------------------------------
(* The handler, its scan and its answer *)

HandlerTypes ==
    /\ handler \in [Requests -> {"idle", "predict", "encode", "over"}]
    /\ reply \in [Requests -> {"none"} \cup Errors \cup Shown]
    /\ bucket \subseteq Scans

\* The handler waits in Predict until the prediction is accepted or refused, and
\* the scan of every request that came so far is in the bucket.
Handled(r) ==
    /\ handler[r] = "idle" => pc[r] = "idle"
    /\ pc[r] = "idle" => handler[r] \in {"idle", "over"} /\ answer[r] # "accepted"
    /\ handler[r] = "predict" => /\ pc[r] \in Entering \cup Leaving
                                /\ answer[r] # "accepted"
    /\ pc[r] # "idle" => ScanOf[r] \in bucket
    /\ handler[r] = "encode" => row[r] # "none"
    /\ reply[r] \in Shown => row[r] # "none"
    /\ pc[r] = "dead" => crashes > 0
    /\ ScanOf[r] \in bucket /\ row[r] = "none" =>
           \/ handler[r] = "predict"
           \/ reply[r] \in Errors
           \/ pc[r] = "dead" /\ crashes > 0

HandlerInv == HandlerTypes /\ \A r \in Requests : Handled(r)

LEMMA ReplyKinds ==
    /\ \A code : CodeOf(code) \in Errors
    /\ \A r : Encoded(r) \subseteq Shown
    /\ Errors \cap Shown = {}
    /\ "none" \notin Errors \cup Shown
    /\ BadRequest \in Errors /\ Internal \in Errors
BY DEF CodeOf, Errors, Encoded, Shown, BadRequest, Unauthorized, Forbidden,
       NotFound, Conflict, TooManyRequests, Internal

\* Nothing moves but request r.
Alone(r) ==
    /\ \A s \in Requests : s # r =>
          /\ pc'[s] = pc[s] /\ handler'[s] = handler[s]
          /\ reply'[s] = reply[s] /\ answer'[s] = answer[s]
          /\ row'[s] = row[s]
    /\ bucket' = bucket \/ bucket' = bucket \cup {ScanOf[r]}
    /\ crashes' = crashes

LEMMA HandledAlone ==
    ASSUME HandlerInv, NEW r \in Requests, Alone(r), HandlerTypes', Handled(r)'
    PROVE  HandlerInv'
<1> SUFFICES ASSUME NEW s \in Requests PROVE Handled(s)'
  BY DEF HandlerInv
<1>1. CASE s = r
  BY <1>1
<1>2. CASE s # r
  <2>1. ScanOf[s] \in bucket' <=> ScanOf[s] \in bucket
    BY <1>2, ScanKeysAssumption DEF Alone
  <2> QED
    BY <1>2, <2>1 DEF Alone, HandlerInv, Handled
<1> QED
  BY <1>1, <1>2

\* What one statement of Predict does to its own request.
LEMMA PredictAlone ==
    ASSUME TypeOK, RowFollowsRequest, HandlerInv, NEW r \in Requests,
           RunPredict(r)
    PROVE  HandlerInv'
<1> USE DEF TypeOK, Goto, Answer, Fails
<1>1. /\ handler[r] = "predict" /\ pc[r] \in Entering \cup Leaving
      /\ answer[r] # "accepted" /\ ScanOf[r] \in bucket
      /\ bucket' = bucket
  BY DEF RunPredict, HandlerInv, Handled, Entering, Leaving
<1>2. Predict(r) \/ Release(r) \/ DeleteScan(r)
  BY DEF RunPredict
<1>3. /\ \A s \in Requests : s # r => /\ pc'[s] = pc[s]
                                      /\ answer'[s] = answer[s]
                                      /\ row'[s] = row[s]
      /\ crashes' = crashes
  BY <1>1, <1>2 DEF Predict, Arrive, LoadLimiter, AddLimiter, TryPut, Undo,
     StartPrediction, StartConflict, StartFails, StartAnswerLost, Release,
     DeleteScan
<1>4. /\ \/ answer'[r] = "accepted" /\ row'[r] = "processing"
                                    /\ pc'[r] = "requestPredict"
         \/ answer'[r] # "accepted" /\ pc'[r] = "done"
         \/ answer'[r] # "accepted" /\ pc'[r] \in Entering \cup Leaving
      /\ row[r] # "none" => row'[r] # "none"
  BY <1>1, <1>2 DEF Predict, Arrive, LoadLimiter, AddLimiter, TryPut, Undo,
     StartPrediction, StartConflict, StartFails, StartAnswerLost, Release,
     DeleteScan, Entering, Leaving
<1>5. \/ /\ answer'[r] = "accepted"
         /\ handler' = [handler EXCEPT ![r] = "encode"]
         /\ reply' = reply
      \/ /\ answer'[r] # "accepted" /\ pc'[r] = "done"
         /\ handler' = [handler EXCEPT ![r] = "over"]
         /\ reply' = [reply EXCEPT ![r] = CodeOf(answer'[r])]
      \/ /\ answer'[r] # "accepted" /\ pc'[r] # "done"
         /\ handler' = handler /\ reply' = reply
  BY DEF RunPredict, Handle, Return, Reply
<1>6. HandlerTypes /\ Handled(r)
  BY DEF HandlerInv
<1>7. HandlerTypes' /\ Alone(r)
  BY <1>1, <1>3, <1>5, <1>6, ReplyKinds DEF HandlerTypes, Alone
<1>8. Handled(r)'
  BY <1>1, <1>3, <1>4, <1>5, <1>6, ReplyKinds
     DEF HandlerTypes, Handled, Entering, Leaving
<1> QED
  BY <1>7, <1>8, HandledAlone

LEMMA PostHandler ==
    ASSUME TypeOK, RowFollowsRequest, HandlerInv, NEW r \in Requests, Post(r)
    PROVE  HandlerInv'
<1> USE OwnersAssumption, ReplyKinds DEF TypeOK, Handle, Return, Reply
<1>1. HandlerTypes /\ Handled(r)
  BY DEF HandlerInv
<1>2. CASE BadForm(r) \/ UploadFails(r)
  <2>1. HandlerTypes' /\ Alone(r) /\ Handled(r)'
    BY <1>1, <1>2 DEF BadForm, UploadFails, vars, HandlerTypes, Alone, Handled,
                      Entering
  <2> QED
    BY <2>1, HandledAlone
<1>3. CASE Upload(r)
  <2>1. /\ pc[r] = "idle" /\ pc' = [pc EXCEPT ![r] = "load"]
        /\ handler' = [handler EXCEPT ![r] = "predict"]
        /\ bucket' = bucket \cup {ScanOf[r]} /\ ScanOf[r] \in Scans
        /\ reply' = reply /\ row' = row /\ answer' = answer
        /\ crashes' = crashes
    BY <1>3 DEF Upload, Arrive, Goto
  <2>2. HandlerTypes' /\ Alone(r)
    BY <1>1, <2>1 DEF HandlerTypes, Alone
  <2>3. Handled(r)'
    BY <1>1, <2>1 DEF HandlerTypes, Handled, Entering
  <2> QED
    BY <2>2, <2>3, HandledAlone
<1>4. CASE Encode(r)
  <2>1. PICK shown \in Shown : Return(r, shown)
    BY <1>4 DEF Encode
  <2>2. HandlerTypes' /\ Alone(r) /\ Handled(r)'
    BY <1>1, <1>4, <2>1 DEF Encode, vars, HandlerTypes, Alone, Handled,
                            Entering
  <2> QED
    BY <2>2, HandledAlone
<1>5. CASE RunPredict(r)
  BY <1>5, PredictAlone
<1> QED
  BY <1>2, <1>3, <1>4, <1>5 DEF Post

\* The goroutine runs once the handler has its answer.
LEMMA ProcessHandler ==
    ASSUME TypeOK, RowFollowsRequest, HandlerInv, NEW r \in Requests, Process(r)
    PROVE  HandlerInv'
<1> USE DEF TypeOK, Goto, Fails
<1>1. HandlerTypes /\ Handled(r)
  BY DEF HandlerInv
<1>2. /\ handler' = handler /\ reply' = reply /\ bucket' = bucket
      /\ answer' = answer /\ crashes' = crashes
      /\ \A s \in Requests : s # r => pc'[s] = pc[s] /\ row'[s] = row[s]
  BY DEF Process, AskService, ReadScore, WriteScore, Work, RequestPredict,
         GetUser, Commit, CommitAnswerLost, ApplyTx, BeginTx, CompleteInTx,
         UpdateStats, TxFails, CommitFails, Fallback, FallbackFails, Release,
         DeleteScan
<1>3. /\ pc[r] \in Working \/ (answer[r] = "accepted" /\ pc[r] \in Leaving)
      /\ pc'[r] \in Working \cup Leaving \cup {"done"}
      /\ row[r] # "none" => row'[r] # "none"
  BY DEF Process, AskService, ReadScore, WriteScore, Work, RequestPredict,
         GetUser, Commit, CommitAnswerLost, ApplyTx, BeginTx, CompleteInTx,
         UpdateStats, TxFails, CommitFails, Fallback, FallbackFails, Release,
         DeleteScan, ResolvedAs, Working, Leaving
<1>4. HandlerTypes' /\ Alone(r)
  BY <1>1, <1>2 DEF HandlerTypes, Alone
<1>5. Handled(r)'
  <2>1. pc[r] # "idle" /\ pc[r] # "dead" /\ handler[r] # "predict"
    BY <1>1, <1>3 DEF Handled, Working, Leaving, Entering
  <2>2. pc'[r] # "idle" /\ pc'[r] # "dead"
    BY <1>3 DEF Working, Leaving
  <2> QED
    BY <1>1, <1>2, <1>3, <2>1, <2>2 DEF Handled
<1> QED
  BY <1>4, <1>5, HandledAlone

LEMMA RestartHandler ==
    ASSUME TypeOK, HandlerInv, Restart
    PROVE  HandlerInv'
<1>1. /\ HandlerTypes
      /\ reply' = reply /\ bucket' = bucket /\ row' = row /\ answer' = answer
      /\ crashes' = crashes + 1 /\ crashes \in Nat
      /\ handler' = [r \in Requests |-> IF handler[r] \in {"predict", "encode"}
                                        THEN "over" ELSE handler[r]]
      /\ pc' = [r \in Requests |-> IF pc[r] \in {"idle", "done"}
                                   THEN pc[r] ELSE "dead"]
  BY DEF Restart, Crash, HandlerInv, TypeOK
<1>2. HandlerTypes'
  BY <1>1 DEF HandlerTypes
<1>3. ASSUME NEW r \in Requests PROVE Handled(r)'
  <2>1. Handled(r)
    BY DEF HandlerInv
  <2> QED
    BY <1>1, <2>1 DEF Handled, HandlerTypes, Entering, Leaving
<1> QED
  BY <1>2, <1>3 DEF HandlerInv

LEMMA HandlerStep ==
    ASSUME Inherited, HandlerInv, [ApiNext]_apiVars
    PROVE  HandlerInv'
<1> USE DEF Inherited
<1>1. CASE UNCHANGED <<client, pc, answer, row, crashes>>
  BY <1>1 DEF HandlerInv, HandlerTypes, Handled
<1>2. ASSUME NEW r \in Watched, Look(r)
      PROVE  UNCHANGED <<client, pc, answer, row, crashes>>
  BY <1>2 DEF Look, vars
<1>3. ASSUME NEW u \in Users, Detail(u) \/ EndUser(u)
      PROVE  UNCHANGED <<client, pc, answer, row, crashes>>
  BY <1>3 DEF Detail, EndUser, DeleteUser, vars
<1>4. CASE AllOver \/ UNCHANGED apiVars
  BY <1>1, <1>4 DEF AllOver, apiVars, vars
<1> QED
  BY <1>1, <1>2, <1>3, <1>4, PostHandler, ProcessHandler, RestartHandler
     DEF ApiNext

LEMMA HandlerHolds == ApiSpec => []HandlerInv
<1>1. ApiInit => HandlerInv
  BY ReplyKinds DEF ApiInit, Init, HandlerInv, HandlerTypes, Handled, Entering
<1>2. Inherited /\ HandlerInv /\ [ApiNext]_apiVars => HandlerInv'
  BY HandlerStep
<1> QED
  BY <1>1, <1>2, PredictorHolds, PTL DEF ApiSpec

\* A row names a scan that is stored, and a stored scan with no row was never
\* reported as accepted.
THEOREM ScansKept == ApiSpec => []ScansStored
<1>1. Inherited /\ HandlerInv => ScansStored
  BY DEF Inherited, RowFollowsRequest, HandlerInv, Handled, ScansStored
<1> QED
  BY <1>1, PredictorHolds, HandlerHolds, PTL

-----------------------------------------------------------------------------
(* The answer of the service and the answer of the handler *)

\* The service answers once, and the row follows what it said unless something
\* went wrong.
Answered(r) ==
    /\ outcome[r] # "none" => pc[r] \notin {"idle", "requestPredict"} \cup Entering
    /\ outcome[r] = "error" => row[r] # "completed"
    /\ outcome[r] = "result" /\ row[r] = "failed" =>
           RolledBack(r) \/ <<r, "commitLost">> \in faults

OutcomeInv == \A r \in Requests : Answered(r)

LEMMA OutcomeOfStep ==
    ASSUME TypeOK, RowFollowsRequest, StrandedInv, OutcomeInv,
           NEW r \in Requests, Step(r)
    PROVE  OutcomeInv' /\ (outcome[r] # "none" => outcome'[r] = outcome[r])
                       /\ \A s \in Requests \ {r} : outcome'[s] = outcome[s]
<1> USE DEF TypeOK, OutcomeInv, Answered, Goto, Answer, Fails, Entering
<1>0. faults \subseteq faults' /\ \A s \in Requests : RolledBack(s) => RolledBack(s)'
  BY TroubleStays DEF Next, Step
<1>1. CASE Arrive(r) \/ LoadLimiter(r) \/ AddLimiter(r) \/ TryPut(r) \/ Undo(r)
  BY <1>0, <1>1 DEF Arrive, LoadLimiter, AddLimiter, TryPut, Undo
<1>2. CASE \/ StartPrediction(r) \/ StartConflict(r) \/ StartFails(r)
           \/ StartAnswerLost(r)
  BY <1>0, <1>2 DEF StartPrediction, StartConflict, StartFails, StartAnswerLost
<1>3. CASE RequestPredict(r)
  BY <1>0, <1>3 DEF RequestPredict, RowFollowsRequest, Working
<1>4. CASE BeginTx(r) \/ CompleteInTx(r) \/ GetUser(r) \/ UpdateStats(r)
  BY <1>0, <1>4 DEF BeginTx, CompleteInTx, GetUser, UpdateStats
<1>5. CASE TxFails(r) \/ CommitFails(r) \/ FallbackFails(r)
  BY <1>0, <1>5 DEF TxFails, CommitFails, FallbackFails
<1>6. CASE Commit(r) \/ CommitAnswerLost(r)
  BY <1>0, <1>6 DEF Commit, CommitAnswerLost, ApplyTx, ResolvedAs
<1>7. CASE Fallback(r)
  BY <1>0, <1>7 DEF Fallback, StrandedInv, TroubleExplained, Final
<1>8. CASE Release(r) \/ DeleteScan(r)
  BY <1>0, <1>8 DEF Release, DeleteScan
<1> QED
  BY <1>1, <1>2, <1>3, <1>4, <1>5, <1>6, <1>7, <1>8
     DEF Step, Predict, ProcessPrediction

LEMMA OutcomeStep ==
    ASSUME TypeOK, RowFollowsRequest, StrandedInv, OutcomeInv, [Next]_vars
    PROVE  /\ OutcomeInv'
           /\ \A r \in Requests : outcome[r] # "none" => outcome'[r] = outcome[r]
<1>0. faults \subseteq faults' /\ \A s \in Requests : RolledBack(s) => RolledBack(s)'
  BY TroubleStays
<1>1. ASSUME NEW r \in Requests, Step(r)
      PROVE  /\ OutcomeInv'
             /\ \A s \in Requests : outcome[s] # "none" => outcome'[s] = outcome[s]
  BY <1>1, OutcomeOfStep
<1>2. CASE \E u \in Users : DeleteUser(u)
  BY <1>0, <1>2 DEF DeleteUser, OutcomeInv, Answered
<1>3. CASE Crash
  BY <1>0, <1>3 DEF Crash, OutcomeInv, Answered, TypeOK, Entering
<1>4. CASE UNCHANGED vars
  BY <1>0, <1>4 DEF vars, OutcomeInv, Answered
<1> QED
  BY <1>1, <1>2, <1>3, <1>4 DEF Next, Quiet

\* What was shown is what the service had said.
ShownInv ==
    /\ OutcomeInv
    /\ \A r \in Requests :
          /\ reply[r] \in {"error", "cut"} => outcome[r] = "error"
          /\ reply[r] = "result" => outcome[r] = "result"

\* A reply changes to an error, or to what the struct shows.
LEMMA ReplyMoves ==
    ASSUME HandlerInv, [ApiNext]_apiVars
    PROVE  \/ reply' = reply
           \/ \E r \in Requests, code \in Errors : Reply(r, code)
           \/ \E r \in Requests : Encode(r)
<1>1. ASSUME NEW r \in Requests, BadForm(r) \/ UploadFails(r) \/ RunPredict(r)
      PROVE  reply' = reply \/ \E code \in Errors : Reply(r, code)
  BY <1>1, ReplyKinds DEF BadForm, UploadFails, RunPredict, Return
<1>2. ASSUME NEW r \in Requests, Upload(r) \/ Process(r)
      PROVE  reply' = reply
  BY <1>2 DEF Upload, Process, AskService, ReadScore, WriteScore, Work
<1> QED
  BY <1>1, <1>2 DEF ApiNext, Post, Look, Detail, EndUser, Restart, AllOver, apiVars

LEMMA ShownStep ==
    ASSUME Inherited, HandlerInv, ShownInv, [ApiNext]_apiVars
    PROVE  ShownInv'
<1>1. /\ OutcomeInv'
      /\ \A r \in Requests : outcome[r] # "none" => outcome'[r] = outcome[r]
  BY ApiStepIsStep, OutcomeStep DEF Inherited, ShownInv
<1>2. reply \in [Requests -> {"none"} \cup Errors \cup Shown]
  BY DEF HandlerInv, HandlerTypes
<1>3. CASE reply' = reply
  BY <1>1, <1>3 DEF ShownInv
<1>4. ASSUME NEW r \in Requests, NEW code \in Errors, Reply(r, code)
      PROVE  ShownInv'
  <2>1. code \notin {"error", "cut", "result"}
    BY ReplyKinds DEF Shown
  <2> QED
    BY <1>1, <1>2, <1>4, <2>1 DEF ShownInv, Reply
<1>5. ASSUME NEW r \in Requests, Encode(r)
      PROVE  ShownInv'
  <2>1. PICK shown \in Encoded(r) : reply' = [reply EXCEPT ![r] = shown]
    BY <1>5 DEF Encode, Return, Reply
  <2>2. /\ shown \in {"error", "cut"} => outcome[r] = "error"
        /\ shown = "result" => outcome[r] = "result"
    BY <2>1 DEF Encoded, Inherited, TypeOK
  <2> QED
    BY <1>1, <1>2, <2>1, <2>2 DEF ShownInv
<1> QED
  BY <1>3, <1>4, <1>5, ReplyMoves

\* Whatever the race with the goroutine lets the 202 show, the row does not take
\* it back but for a reason.
THEOREM ShownHolds == ApiSpec => []ShownAgrees
<1>1. ApiInit => ShownInv
  BY DEF ApiInit, Init, ShownInv, OutcomeInv, Answered
<1>2. Inherited /\ HandlerInv /\ ShownInv /\ [ApiNext]_apiVars => ShownInv'
  BY ShownStep
<1>3. HandlerInv /\ ShownInv => ShownAgrees
  BY DEF HandlerInv, Handled, ShownInv, OutcomeInv, Answered, ShownAgrees
<1> QED
  BY <1>1, <1>2, <1>3, PredictorHolds, HandlerHolds, PTL DEF ApiSpec

-----------------------------------------------------------------------------
(* The detail of a user *)

DetailTypes == detail \in [Users -> [step : {"user", "list", "done"}, files : Nat,
                                    finals : Nat]]

\* What an administrator has read of the statistics counts scans that have been
\* resolved by now.
DetailInv ==
    /\ DetailTypes
    /\ \A u \in Users :
          /\ detail[u].step = "list" => detail[u].files <= Cardinality(Resolved(u))
          /\ detail[u].step = "done" => detail[u].files <= detail[u].finals

LEMMA ResolvedGrows ==
    ASSUME TypeOK, TypeOK', [Next]_vars, NEW u \in Users
    PROVE  Cardinality(Resolved(u)) <= Cardinality(Resolved(u)')
<1>1. committed \subseteq committed'
  <2>1. ASSUME NEW r \in Requests, Step(r) PROVE committed \subseteq committed'
    BY <2>1 DEF Step, Predict, ProcessPrediction, Arrive, LoadLimiter,
                AddLimiter, TryPut, Undo, StartPrediction, StartConflict,
                StartFails, StartAnswerLost, RequestPredict, BeginTx,
                CompleteInTx, GetUser, UpdateStats, TxFails, Commit,
                CommitFails, CommitAnswerLost, ApplyTx, Fallback, FallbackFails,
                Release, DeleteScan
  <2> QED
    BY <2>1 DEF Next, DeleteUser, Crash, Quiet, vars
<1>2. /\ Resolved(u) \subseteq Resolved(u)'
      /\ Resolved(u)' \in SUBSET Requests
  BY <1>1 DEF Resolved, TypeOK
<1>3. IsFiniteSet(Resolved(u)')
  BY <1>2, RequestsAssumption, FS_Subset
<1> QED
  BY <1>2, <1>3, FS_Subset

LEMMA ResolvedAreFinal ==
    ASSUME TypeOK, CreditMatchesRow, NEW u \in Users
    PROVE  /\ Cardinality(Resolved(u)) <= Cardinality(FinalRows(u))
           /\ Cardinality(FinalRows(u)) \in Nat
<1>1. Resolved(u) \subseteq FinalRows(u)
  BY DEF Resolved, FinalRows, CreditMatchesRow, Ledger!CreditMatchesRow,
         Ledger!Final, Final, TypeOK
<1>2. FinalRows(u) \in SUBSET Requests
  BY DEF FinalRows
<1>3. IsFiniteSet(FinalRows(u))
  BY <1>2, RequestsAssumption, FS_Subset
<1> QED
  BY <1>1, <1>3, FS_Subset, FS_CardinalityType

LEMMA DetailStep ==
    ASSUME Inherited, Inherited', DetailInv, [ApiNext]_apiVars
    PROVE  DetailInv'
<1>1. /\ TypeOK /\ TypeOK' /\ [Next]_vars
      /\ StatsNeverInflated /\ CreditMatchesRow
  BY ApiStepIsStep DEF Inherited, StatsInv
<1>2. /\ \A u \in Users : Cardinality(Resolved(u)) <= Cardinality(Resolved(u)')
      /\ \A u \in Users : /\ Cardinality(Resolved(u)) \in Nat
                          /\ Cardinality(Resolved(u)') \in Nat
  <2>1. \A u : Cardinality(Resolved(u)) \in Nat
    BY <1>1, CountsFinite
  <2>2. ASSUME NEW u \in Users PROVE Cardinality(Resolved(u)') \in Nat
    <3>1. Resolved(u)' \in SUBSET Requests
      BY <1>1 DEF Resolved, TypeOK
    <3> QED
      BY <3>1, RequestsAssumption, FS_Subset, FS_CardinalityType
  <2> QED
    BY <1>1, <2>1, <2>2, ResolvedGrows
<1>3. CASE detail' = detail
  BY <1>2, <1>3 DEF DetailInv, DetailTypes
<1>4. ASSUME NEW u \in Users, Detail(u)
      PROVE  DetailInv'
  <2> DEFINE R(v) == Cardinality(Resolved(v))
             F == Cardinality(FinalRows(u))
  <2>1. /\ R(u) <= F /\ F \in Nat /\ R(u) \in Nat
        /\ stats[u].files \in Nat /\ stats[u].files <= R(u)
    BY <1>1, <1>2, ResolvedAreFinal DEF TypeOK, Stats, StatsNeverInflated
  <2>2. \A v \in Users : R(v)' = R(v)
    BY <1>4 DEF Detail, vars, Resolved
  <2>3. \/ /\ detail[u].step = "user"
           /\ detail' = [detail EXCEPT ![u].step = "list",
                                       ![u].files = stats[u].files]
        \/ /\ detail[u].step = "list"
           /\ detail' = [detail EXCEPT ![u].step = "done", ![u].finals = F]
    BY <1>4 DEF Detail, GetAdminUserByID, GetPredictionsByUserID
  <2> HIDE DEF R, F
  <2>4. DetailTypes'
    BY <2>1, <2>3 DEF DetailInv, DetailTypes
  <2>5. ASSUME NEW v \in Users
        PROVE  /\ detail'[v].step = "list" => detail'[v].files <= R(v)'
               /\ detail'[v].step = "done" => detail'[v].files <= detail'[v].finals
    <3>0. /\ detail[v].step = "list" => detail[v].files <= R(v)
          /\ detail[v].step = "done" => detail[v].files <= detail[v].finals
      BY DEF DetailInv, R
    <3>1. CASE v # u
      BY <2>2, <2>3, <3>0, <3>1 DEF DetailInv, DetailTypes
    <3>2. CASE v = u /\ detail[u].step = "user"
      BY <2>1, <2>2, <2>3, <3>2 DEF DetailInv, DetailTypes
    <3>3. CASE v = u /\ detail[u].step = "list"
      BY <2>1, <2>2, <2>3, <3>0, <3>3 DEF DetailInv, DetailTypes
    <3> QED
      BY <2>3, <3>1, <3>2, <3>3
  <2> QED
    BY <2>4, <2>5 DEF DetailInv, R
<1>5. detail' = detail \/ \E u \in Users : Detail(u)
  BY DEF ApiNext, Post, BadForm, Upload, UploadFails, RunPredict, Encode, Process,
         AskService, ReadScore, WriteScore, Work, Look, EndUser, Restart,
         AllOver, apiVars
<1> QED
  BY <1>3, <1>4, <1>5

LEMMA DetailHolds == ApiSpec => []DetailInv
<1>1. ApiInit => DetailInv
  BY DEF ApiInit, DetailInv, DetailTypes, NoDetail
<1>2. Inherited /\ Inherited' /\ DetailInv /\ [ApiNext]_apiVars => DetailInv'
  BY DetailStep
<1> QED
  BY <1>1, <1>2, PredictorHolds, PTL DEF ApiSpec

\* The two statements behind the detail of a user never show fewer resolved
\* predictions than the statistics count.
THEOREM DetailsConsistent == ApiSpec => []DetailConsistent
<1>1. DetailInv => DetailConsistent
  BY DEF DetailInv, DetailConsistent
<1> QED
  BY <1>1, DetailHolds, PTL

-----------------------------------------------------------------------------
(* Type correctness *)

ViewTypes == view \in [Requests -> RowStatus]

\* The variables of Predictions keep their types.
THEOREM ApiTypeCorrect == ApiSpec => []ApiTypeOK
<1>1. ApiInit => ViewTypes
  BY DEF ApiInit, RowStatus, ViewTypes
<1>2. Inherited /\ ViewTypes /\ [ApiNext]_apiVars => ViewTypes'
  BY ViewMoves, WatchedAssumption DEF Look, Inherited, TypeOK, ViewTypes
<1>3. Inherited /\ HandlerInv /\ ScoreInv /\ DetailInv /\ ViewTypes => ApiTypeOK
  BY DEF Inherited, HandlerInv, HandlerTypes, ScoreInv, ScoreTypes, DetailInv,
         DetailTypes, ViewTypes, ApiTypeOK
<1> QED
  BY <1>1, <1>2, <1>3, PredictorHolds, HandlerHolds, ScoreHolds, DetailHolds,
     PTL DEF ApiSpec

-----------------------------------------------------------------------------
(* Exact counts of types, for a user whose transactions do not overlap *)

\* Scans of u that were classified and show something named n.
Found(u, n) == {r \in Classified(u) : n \in Named(types[r])}

TallyExact(u) ==
    \A n \in Names : score[u].tally[n] = Cardinality(Found(u, n))

\* What a transaction of u has read is still there.
TallyInv(u) ==
    /\ TallyExact(u)
    /\ \A r \in Requests :
           UserOf[r] = u /\ pc[r] \in {"updateStats", "commit"} =>
               seenScore[r] = score[u]

\* Nothing the invariant speaks of moves.
TallyUntouched == /\ StatsUntouched
                  /\ score' = score /\ seenScore' = seenScore
                  /\ \A s \in committed : types'[s] = types[s]

LEMMA TallyMoves ==
    ASSUME TypeOK, RowFollowsRequest, ScoreTypes, [ApiNext]_apiVars
    PROVE  \/ TallyUntouched
           \/ \E r \in Requests : ReadScore(r) \/ WriteScore(r)
<1> USE DEF TallyUntouched
<1>1. ASSUME NEW r \in Requests, Post(r) PROVE TallyUntouched
  <2>1. UNCHANGED scores
    BY <1>1 DEF Post, BadForm, Upload, UploadFails, RunPredict, Encode
  <2>2. Predict(r) \/ Release(r) \/ DeleteScan(r) \/ UNCHANGED vars
    BY <1>1 DEF Post, BadForm, Upload, UploadFails, RunPredict, Encode, Predict
  <2>3. StatsUntouched
    BY <2>2, QuietSteps DEF StatsUntouched, vars
  <2> QED
    BY <2>1, <2>3
<1>2. ASSUME NEW r \in Requests, AskService(r) PROVE TallyUntouched
  <2>1. StatsUntouched /\ r \notin committed
    BY <1>2, QuietSteps DEF AskService, RequestPredict, RowFollowsRequest,
                            Working, Final
  <2>2. \A s \in committed : types'[s] = types[s]
    BY <1>2, <2>1 DEF AskService, ScoreTypes, TypeOK
  <2> QED
    BY <1>2, <2>1, <2>2 DEF AskService
<1>3. ASSUME NEW r \in Requests, Work(r) PROVE TallyUntouched
  BY <1>3, QuietSteps DEF Work
<1>4. ASSUME NEW r \in Watched, Look(r) PROVE TallyUntouched
  BY <1>4 DEF Look, vars, StatsUntouched
<1>5. ASSUME NEW u \in Users, Detail(u) \/ EndUser(u) PROVE TallyUntouched
  BY <1>5 DEF Detail, EndUser, DeleteUser, vars, StatsUntouched
<1>6. CASE Restart \/ AllOver \/ UNCHANGED apiVars
  BY <1>6 DEF Restart, Crash, AllOver, apiVars, vars, StatsUntouched, TypeOK
<1> QED
  BY <1>1, <1>2, <1>3, <1>4, <1>5, <1>6 DEF ApiNext, Process

\* What a commit of u adds to the scans that show n.
LEMMA FoundGrows ==
    ASSUME TypeOK, NEW r \in Requests, r \notin committed, NEW n,
           committed' = committed \cup {r}, outcome' = outcome, types' = types
    PROVE  Cardinality(Found(UserOf[r], n))' =
               IF outcome[r] = "result" /\ n \in Named(types[r])
               THEN Cardinality(Found(UserOf[r], n)) + 1
               ELSE Cardinality(Found(UserOf[r], n))
<1> DEFINE F == Found(UserOf[r], n)
<1>1. r \notin F /\ F \in SUBSET Requests
  BY DEF Found, Classified, Resolved, TypeOK
<1>2. F' = IF outcome[r] = "result" /\ n \in Named(types[r]) THEN F \cup {r} ELSE F
  BY DEF Found, Classified, Resolved
<1> HIDE DEF F
<1>3. IsFiniteSet(F)
  BY <1>1, RequestsAssumption, FS_Subset
<1>4. Cardinality(F \cup {r}) = Cardinality(F) + 1
  BY <1>1, <1>3, FS_AddElement
<1>5. Cardinality(F') = IF outcome[r] = "result" /\ n \in Named(types[r])
                        THEN Cardinality(F) + 1 ELSE Cardinality(F)
  BY <1>2, <1>4
<1> QED
  BY <1>5 DEF F

LEMMA TallyStep ==
    ASSUME NEW u \in Users
    PROVE  Inherited /\ ScoreInv /\ NoOverlap(u) /\ TallyInv(u) /\ [ApiNext]_apiVars
               => TallyInv(u)'
<1> SUFFICES ASSUME Inherited, ScoreInv, NoOverlap(u), TallyInv(u), [ApiNext]_apiVars
             PROVE  TallyInv(u)'
  OBVIOUS
<1>0. TypeOK /\ RowFollowsRequest /\ ScoreTypes
  BY DEF Inherited, ScoreInv
<1>1. CASE TallyUntouched
  <2>1. \A n : Found(u, n)' = Found(u, n)
    BY <1>1 DEF TallyUntouched, StatsUntouched, Found, Classified, Resolved
  <2> QED
    BY <1>1, <2>1 DEF TallyUntouched, StatsUntouched, TallyInv, TallyExact
<1>2. ASSUME NEW r \in Requests, ReadScore(r) PROVE TallyInv(u)'
  <2>1. \A n : Found(u, n)' = Found(u, n)
    BY <1>2 DEF ReadScore, GetUser, Found, Classified, Resolved
  <2>2. ASSUME NEW s \in Requests, UserOf[s] = u,
               pc'[s] \in {"updateStats", "commit"}
        PROVE  seenScore'[s] = score[u]
    <3>1. CASE s = r
      <4>1. pc'[r] = "updateStats"
        BY <1>0, <1>2, <2>2, <3>1 DEF ReadScore, GetUser, Goto, TypeOK
      <4> QED
        BY <1>0, <1>2, <2>2, <3>1, <4>1 DEF ReadScore, ScoreTypes
    <3>2. CASE s # r
      BY <1>0, <1>2, <2>2, <3>2
         DEF ReadScore, GetUser, Goto, TypeOK, ScoreTypes, TallyInv
    <3> QED
      BY <3>1, <3>2
  <2> QED
    BY <1>2, <2>1, <2>2 DEF ReadScore, TallyInv, TallyExact
<1>3. ASSUME NEW r \in Requests, WriteScore(r) PROVE TallyInv(u)'
  <2>1. /\ pc[r] = "commit" /\ r \notin committed /\ UserOf[r] \in Users
        /\ committed' = committed \cup {r} /\ outcome' = outcome
        /\ types' = types /\ seenScore' = seenScore
        /\ score' = [score EXCEPT ![UserOf[r]] = Score(r)]
        /\ \E label \in {"release", "fallback"} : Goto(r, label)
    BY <1>0, <1>3, OwnersAssumption
       DEF WriteScore, Commit, CommitAnswerLost, ApplyTx, RowFollowsRequest,
           Working, Final
  <2>2. CASE UserOf[r] = u
    <3>1. seenScore[r] = score[u] /\ score'[u] = Score(r)
      BY <1>0, <2>1, <2>2 DEF TallyInv, ScoreTypes
    <3>2. ASSUME NEW n \in Names
          PROVE  score'[u].tally[n] = Cardinality(Found(u, n))'
      <4>1. /\ score[u].tally[n] = Cardinality(Found(u, n))
            /\ Score(r).tally[n] =
                   IF outcome[r] = "result" /\ n \in Named(types[r])
                   THEN score[u].tally[n] + 1 ELSE score[u].tally[n]
        BY <3>1, <3>2 DEF TallyInv, TallyExact, Score, CountTypes
      <4> QED
        BY <1>0, <2>1, <2>2, <3>1, <4>1, FoundGrows
    <3>3. ASSUME NEW s \in Requests, UserOf[s] = u,
                 pc'[s] \in {"updateStats", "commit"}
          PROVE  FALSE
      <4>1. s # r /\ pc[s] = pc'[s]
        BY <1>0, <2>1, <3>3 DEF Goto, TypeOK
      <4> QED
        BY <2>1, <2>2, <3>3, <4>1 DEF NoOverlap
    <3> QED
      BY <3>2, <3>3 DEF TallyInv, TallyExact
  <2>3. CASE UserOf[r] # u
    <3>1. \A n : Found(u, n)' = Found(u, n)
      BY <2>1, <2>3 DEF Found, Classified, Resolved
    <3>2. score'[u] = score[u]
      BY <1>0, <2>1, <2>3 DEF ScoreTypes
    <3>3. ASSUME NEW s \in Requests, UserOf[s] = u,
                 pc'[s] \in {"updateStats", "commit"}
          PROVE  pc[s] = pc'[s]
      BY <1>0, <2>1, <2>3, <3>3 DEF Goto, TypeOK
    <3> QED
      BY <2>1, <3>1, <3>2, <3>3 DEF TallyInv, TallyExact
  <2> QED
    BY <2>2, <2>3
<1> QED
  BY <1>0, <1>1, <1>2, <1>3, TallyMoves

LEMMA TallyInit == ASSUME NEW u \in Users PROVE ApiInit => TallyInv(u)
<1> SUFFICES ASSUME ApiInit PROVE TallyInv(u)
  OBVIOUS
<1>1. \A n : Found(u, n) = {}
  BY DEF ApiInit, Init, Found, Classified, Resolved
<1> QED
  BY <1>1, FS_EmptySet DEF ApiInit, Init, TallyInv, TallyExact, NoScore

\* Behind the API the statistics of a user are exact in every column that
\* counts, files, rating and types, as long as no two transactions of that user
\* overlap between their read and their commit.
THEOREM TalliesExactAlone ==
    ASSUME NEW u \in Users
    PROVE  ApiSpec /\ []NoOverlap(u) => [](ExactFor(u) /\ TallyExact(u))
<1>1. TallyInv(u) => TallyExact(u)
  BY DEF TallyInv
<1> QED
  BY <1>1, TallyInit, TallyStep, PredictorHolds, ScoreHolds, ApiIsPredictor,
     StatsExactAlone, PTL DEF ApiSpec

-----------------------------------------------------------------------------
(* What Predictor promises, behind its API *)

\* Slots and scans are accounted for, nothing deadlocks, what is stranded is
\* explained and the ledger is kept, whatever the handlers and readers do.
THEOREM PromisesKept ==
    ApiSpec => /\ [](SlotAccounting /\ ScanAccounting)
               /\ [](StrandedExplained /\ NoWaitForWaiters)
               /\ FinalStable
               /\ LedgerSpec
BY ApiIsPredictor, SlotsCounted, ScansExclusive, StrandedRowsExplained,
   NeverDeadlocked, FinalRowsStable, ImplementsLedger, PTL
=============================================================================
