------------------------------ MODULE Predictions ------------------------------
(***************************************************************************)
(* Predictor behind its API: the handlers of internal/api/predict.go and   *)
(* the detail of a user in internal/api/admin.go, with the bucket, the     *)
(* answers clients read and the rest of the statistics.                    *)
(*                                                                         *)
(* Every action of Predictor is an action here, with what it does to the   *)
(* new variables.  The handler uploads the scan before it calls Predict    *)
(* and encodes the prediction it was given while the goroutine of          *)
(* Predictor writes to the same struct; clients and administrators read    *)
(* rows and statistics in statements of their own.                         *)
(*                                                                         *)
(* Never used, each a slip in the operator that follows it:                *)
(* UploadErrorIgnored, CodeForgotten, CountEachType, ListBeforeUser.       *)
(***************************************************************************)
EXTENDS Predictor, Errlocal

CONSTANTS Answers,   \* results of the service: the types with a probability
          Earned,    \* rating of a user before the behaviour
          Watched    \* bound: requests whose prediction a client polls

ASSUME ScanKeysAssumption ==
    \A r, s \in Requests : ScanOf[r] = ScanOf[s] => r = s
ASSUME AnswersAssumption == Answers \subseteq SUBSET (0 .. 255)
ASSUME WatchedAssumption == Watched \subseteq Requests
ASSUME EarnedAssumption == Earned \in [Users -> Nat]

VARIABLES handler,    \* statement a handler of POST /predictions is at
          reply,      \* what its client read
          bucket,     \* scans stored in the bucket
          types,      \* the types in the result of the service
          score,      \* committed status and counts by type of each user
          seenScore,  \* what the request's transaction has read of them
          view,       \* status a client last read with GET /predictions/{id}
          detail      \* an administrator's GET /admin/users/{id}

client == <<handler, reply, bucket>>
scores == <<types, score, seenScore>>
readers == <<view, detail>>
apiVars == <<vars, client, scores, readers>>

-----------------------------------------------------------------------------
(* Models *)

\* TrashType.String: a type the code does not know has the empty name.
TrashName(k) == CASE k = 0 -> "cardboard"
                  [] k = 1 -> "glass"
                  [] k = 2 -> "metal"
                  [] k = 3 -> "paper"
                  [] k = 4 -> "plastic"
                  [] k = 5 -> "trash"
                  [] OTHER -> ""

\* NewPredictionResult: a map from names, one entry for all unknown types.
Named(kinds) == {TrashName(k) : k \in kinds}
Names == UNION {Named(kinds) : kinds \in Answers}

Threshold == [newbie |-> 0, eco_scout |-> 100, green_guard |-> 300,
              eco_warrior |-> 500, nature_hero |-> 1000,
              earth_defender |-> 1500, eco_champion |-> 3000,
              planet_guardian |-> 5000, eco_legend |-> 10000]
UserStatus == DOMAIN Threshold

\* calculateUserStatus: the highest status the rating reaches.
StatusOf(rating) ==
    CHOOSE s \in UserStatus :
        /\ Threshold[s] <= rating
        /\ \A t \in UserStatus :
              Threshold[t] <= rating => Threshold[t] <= Threshold[s]

NoScore(u) == [status |-> StatusOf(Earned[u]), tally |-> [n \in Names |-> 0]]

CountEachType(tally, kinds) ==
    [n \in Names |-> tally[n] + Cardinality({k \in kinds : TrashName(k) = n})]
\* One for each entry of the result.
CountTypes(tally, kinds) ==
    [n \in Names |-> IF n \in Named(kinds) THEN tally[n] + 1 ELSE tally[n]]

\* The rest of stats.UpdateStats; only a classified scan changes it.
Score(r) ==
    IF outcome[r] = "result"
    THEN [status |-> StatusOf(Earned[UserOf[r]] + Credit(seen[r], "result").rating),
          tally |-> CountTypes(seenScore[r].tally, types[r])]
    ELSE seenScore[r]

-----------------------------------------------------------------------------
NoDetail == [step |-> "user", files |-> 0, finals |-> 0]

ApiInit == /\ Init
           /\ handler = [r \in Requests |-> "idle"]
           /\ reply = [r \in Requests |-> "none"]
           /\ bucket = {}
           /\ types = [r \in Requests |-> {}]
           /\ score = [u \in Users |-> NoScore(u)]
           /\ seenScore = [r \in Requests |-> NoScore(UserOf[r])]
           /\ view = [r \in Requests |-> "none"]
           /\ detail = [u \in Users |-> NoDetail]

Handle(r, label) == handler' = [handler EXCEPT ![r] = label]
Reply(r, code) == reply' = [reply EXCEPT ![r] = code]
Return(r, code) == Handle(r, "over") /\ Reply(r, code)

-----------------------------------------------------------------------------
(* POST /predictions *)

\* getFileFromMultipartForm refuses the form.
BadForm(r) == /\ handler[r] = "idle"
              /\ Return(r, BadRequest)
              /\ UNCHANGED <<vars, bucket, scores, readers>>

\* UploadScan stores the scan under a key of its own.
Upload(r) == /\ handler[r] = "idle"
             /\ Arrive(r)
             /\ Handle(r, "predict")
             /\ bucket' = bucket \cup {ScanOf[r]}
             /\ UNCHANGED <<reply, scores, readers>>

UploadErrorIgnored(r) == /\ handler[r] = "idle"
                         /\ Arrive(r)
                         /\ Handle(r, "predict")
                         /\ UNCHANGED <<reply, bucket, scores, readers>>
\* Refused, or stored with the answer lost or late.
UploadFails(r) == /\ handler[r] = "idle"
                  /\ Return(r, Internal)
                  /\ bucket' \in {bucket, bucket \cup {ScanOf[r]}}
                  /\ UNCHANGED <<vars, scores, readers>>

CodeForgotten(code) == CASE code = "tooMany" -> TooManyRequests
                         [] code = "conflict" -> Conflict
                         [] OTHER -> "0"
\* WriteError: the status of the error, or 500.
CodeOf(code) == CASE code = "tooMany" -> TooManyRequests
                  [] code = "conflict" -> Conflict
                  [] OTHER -> Internal

\* A statement of Predict: the handler has its error once Predict is over, and
\* the prediction as soon as the goroutine is launched.
RunPredict(r) ==
    /\ handler[r] = "predict"
    /\ Predict(r) \/ Release(r) \/ DeleteScan(r)
    /\ IF answer'[r] = "accepted"
       THEN Handle(r, "encode") /\ UNCHANGED reply
       ELSE IF pc'[r] = "done"
            THEN Return(r, CodeOf(answer'[r]))
            ELSE UNCHANGED <<handler, reply>>
    /\ UNCHANGED <<bucket, scores, readers>>

\* The 202 carries the struct the goroutine writes to: Status stays what it was,
\* Error and Result are read with no lock.  A read may miss the write however
\* late it comes; a read during the write may find half of the string, on
\* which the encoder panics and the connection is cut.
Encoded(r) == CASE outcome[r] = "none" -> {"processing"}
                [] outcome[r] = "result" -> {"processing", "result"}
                [] OTHER -> IF pc[r] = "begin" THEN {"processing", "error", "cut"}
                                               ELSE {"processing", "error"}

Encode(r) == /\ handler[r] = "encode"
             /\ \E shown \in Encoded(r) : Return(r, shown)
             /\ UNCHANGED <<vars, bucket, scores, readers>>

Post(r) == BadForm(r) \/ Upload(r) \/ UploadFails(r) \/ RunPredict(r) \/ Encode(r)

-----------------------------------------------------------------------------
(* The goroutine *)

AskService(r) == /\ RequestPredict(r)
                 /\ \E a \in Answers :
                       types' = IF outcome'[r] = "result"
                                THEN [types EXCEPT ![r] = a] ELSE types
                 /\ UNCHANGED <<client, score, seenScore, readers>>

ReadScore(r) == /\ GetUser(r)
                /\ seenScore' = IF pc'[r] = "updateStats"
                                THEN [seenScore EXCEPT ![r] = score[UserOf[r]]]
                                ELSE seenScore
                /\ UNCHANGED <<client, types, score, readers>>

\* The UPDATE writes every column of the row of stats.
WriteScore(r) == /\ Commit(r) \/ CommitAnswerLost(r)
                 /\ score' = [score EXCEPT ![UserOf[r]] = Score(r)]
                 /\ UNCHANGED <<client, types, seenScore, readers>>

Work(r) ==
    /\ \/ BeginTx(r)
       \/ CompleteInTx(r)
       \/ UpdateStats(r)
       \/ TxFails(r)
       \/ CommitFails(r)
       \/ Fallback(r)
       \/ FallbackFails(r)
       \/ answer[r] = "accepted" /\ (Release(r) \/ DeleteScan(r))
    /\ UNCHANGED <<client, scores, readers>>

Process(r) == AskService(r) \/ ReadScore(r) \/ WriteScore(r) \/ Work(r)

-----------------------------------------------------------------------------
(* Readers *)

\* GET /predictions/{id}: Prediction.Model of the committed row.
Look(r) == /\ row[r] # "none"
           /\ view' = [view EXCEPT ![r] = row[r]]
           /\ UNCHANGED <<vars, client, scores, detail>>

FinalRows(u) == {r \in Requests : UserOf[r] = u /\ row[r] \in Final}

\* The two statements of getAdminUser: the user with its statistics, deleted or
\* not, and a page that holds all its predictions.
GetAdminUserByID(u, now, next) ==
    /\ detail[u].step = now
    /\ detail' = [detail EXCEPT ![u].step = next, ![u].files = stats[u].files]

GetPredictionsByUserID(u, now, next) ==
    /\ detail[u].step = now
    /\ detail' = [detail EXCEPT ![u].step = next,
                                ![u].finals = Cardinality(FinalRows(u))]

ListBeforeUser(u) == /\ \/ GetPredictionsByUserID(u, "user", "list")
                        \/ GetAdminUserByID(u, "list", "done")
                     /\ UNCHANGED <<vars, client, scores, view>>
\* GET /admin/users/{id}: the user first.
Detail(u) == /\ \/ GetAdminUserByID(u, "user", "list")
                \/ GetPredictionsByUserID(u, "list", "done")
             /\ UNCHANGED <<vars, client, scores, view>>

EndUser(u) == DeleteUser(u) /\ UNCHANGED <<client, scores, readers>>

\* The clients of running handlers read nothing.
Restart == /\ Crash
           /\ handler' = [r \in Requests |-> IF handler[r] \in {"predict", "encode"}
                                             THEN "over" ELSE handler[r]]
           /\ UNCHANGED <<reply, bucket, scores, readers>>

AllOver == /\ \A r \in Requests : handler[r] = "over" /\ pc[r] \in Over \cup {"idle"}
           /\ UNCHANGED apiVars

ApiNext == \/ \E r \in Requests : Post(r) \/ Process(r)
           \/ \E r \in Watched : Look(r)
           \/ \E u \in Users : Detail(u) \/ EndUser(u)
           \/ Restart
           \/ AllOver

ApiSpec == ApiInit /\ [][ApiNext]_apiVars

-----------------------------------------------------------------------------
Shown == {"processing", "result", "error", "cut"}
Scores == [status : UserStatus, tally : [Names -> Nat]]

ApiTypeOK ==
    /\ TypeOK
    /\ handler \in [Requests -> {"idle", "predict", "encode", "over"}]
    /\ reply \in [Requests -> {"none"} \cup Errors \cup Shown]
    /\ bucket \subseteq Scans
    /\ types \in [Requests -> {{}} \cup Answers]
    /\ score \in [Users -> Scores]
    /\ seenScore \in [Requests -> Scores]
    /\ view \in [Requests -> RowStatus]
    /\ detail \in [Users -> [step : {"user", "list", "done"}, files : Nat,
                             finals : Nat]]

\* A row names a scan that is in the bucket.  A scan no row names belongs to a
\* request that is still on its way or was answered with an error, unless a
\* restart cut its handler short: nothing the client believes accepted is lost.
ScansStored ==
    \A r \in Requests :
        /\ row[r] # "none" => ScanOf[r] \in bucket
        /\ ScanOf[r] \in bucket /\ row[r] = "none" =>
               \/ handler[r] = "predict"
               \/ reply[r] \in Errors
               \/ pc[r] = "dead" /\ crashes > 0

\* What the 202 happens to show of the race with the goroutine is never taken
\* back by the row: an error is of a prediction that never completes, a result
\* is of one that fails only if its own transaction was rolled back or committed
\* unheard, and an answer cut short is of one the service refused.
ShownAgrees ==
    \A r \in Requests :
        /\ reply[r] \in {"error", "cut"} => row[r] # "completed"
        /\ reply[r] = "result" /\ row[r] = "failed" =>
               RolledBack(r) \/ <<r, "commitLost">> \in faults
        /\ reply[r] \in Shown => row[r] # "none"

\* Columns of one row of stats agree although whole rows overwrite each other:
\* the status is the one of the rating, and no type is counted more often than
\* scans, also when the service answers with types that have no name.
ScoreConsistent ==
    \A u \in Users :
        /\ score[u].status = StatusOf(Earned[u] + stats[u].rating)
        /\ \A n \in Names : score[u].tally[n] <= stats[u].files

\* The detail of a user is read in two statements, between which predictions
\* are resolved: the list has a resolved prediction for every scan counted.
DetailConsistent ==
    \A u \in Users : detail[u].step = "done" => detail[u].files <= detail[u].finals

\* The abstract promise to a client that polls.  A prediction is withdrawn when
\* its COMMIT took effect unheard.
PromisedView == INSTANCE PredictionView WITH view <- view, withdrawn <- unheard
ViewSpec == PromisedView!Spec
=============================================================================
