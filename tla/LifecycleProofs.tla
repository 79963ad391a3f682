---------------------------- MODULE LifecycleProofs ----------------------------
(***************************************************************************)
(* Theorems about Lifecycle for any number of requests, starts, signals    *)
(* and failures.                                                           *)
(***************************************************************************)
EXTENDS Lifecycle, TLAPS

USE DEF state, channels, server, clients, durable, history, bounds

-----------------------------------------------------------------------------
(* Type correctness *)

\* What a new process sets anew.
Flags == /\ errCh \in BOOLEAN /\ doneCh \in BOOLEAN
         /\ healthy \in BOOLEAN /\ stopping \in BOOLEAN
         /\ forced \in BOOLEAN /\ trouble \in BOOLEAN /\ refused \in BOOLEAN

LEMMA CutType ==
    ASSUME request \in [Requests -> {"none", "open", "answered", "cut"}]
    PROVE  Cut \in [Requests -> {"none", "open", "answered", "cut"}]
BY DEF Cut, Open

LEMMA TypeStep == TypeOK /\ [Next]_vars => TypeOK'
<1> SUFFICES ASSUME TypeOK, [Next]_vars PROVE TypeOK'
  OBVIOUS
<1> USE DEF TypeOK, Boot, Loop, Ended, Schemas
<1>1. CASE BootStep
  <2>1. CASE LoadConfig
    BY <2>1 DEF LoadConfig
  <2>2. CASE CreatePgStore
    BY <2>2 DEF CreatePgStore
  <2>3. CASE RunMigrations
    <3>1. CASE schema = "new"
      BY <2>3, <3>1 DEF RunMigrations
    <3>2. CASE schema = "old"
      BY <2>3, <3>2 DEF RunMigrations
    <3>3. CASE schema = "dirty"
      BY <2>3, <3>3 DEF RunMigrations
    <3> QED
      BY <3>1, <3>2, <3>3
  <2>4. CASE Migrated
    BY <2>4 DEF Migrated
  <2>5. CASE NewMinioStore
    BY <2>5 DEF NewMinioStore, MakeBucket
  <2>6. CASE GoServe
    BY <2>6 DEF GoServe
  <2>7. CASE BootFails
    <3>1. CASE UNCHANGED bucket
      BY <2>7, <3>1 DEF BootFails
    <3>2. CASE bucket' = TRUE
      BY <2>7, <3>2 DEF BootFails
    <3> QED
      BY <2>7, <3>1, <3>2 DEF BootFails
  <2> QED
    BY <1>1, <2>1, <2>2, <2>3, <2>4, <2>5, <2>6, <2>7 DEF BootStep
<1>2. CASE ServeStep
  <2>1. CASE Start
    BY <2>1 DEF Start, SetHealthy
  <2>2. CASE Listen \/ ServerClosed
    BY <2>2 DEF Listen, ServerClosed
  <2>3. CASE ListenFails
    BY <2>3 DEF ListenFails
  <2>4. CASE Report
    BY <2>4 DEF Report
  <2> QED
    BY <1>2, <2>1, <2>2, <2>3, <2>4 DEF ServeStep
<1>3. CASE LoopStep
  <2>1. CASE SelectErr \/ SelectDone
    BY <2>1, CutType DEF SelectErr, SelectDone, Exit
  <2>2. CASE SelectSignal
    BY <2>2 DEF SelectSignal
  <2>3. CASE Shutdown
    <3>1. healthy' \in BOOLEAN
      BY <2>3, Zenon DEF Shutdown
    <3> QED
      BY <2>3, <3>1 DEF Shutdown
  <2>4. CASE CloseListener
    BY <2>4 DEF CloseListener, BeginDrain
  <2>5. CASE Drained
    BY <2>5 DEF Drained
  <2>6. CASE ForceClose
    BY <2>6, CutType DEF ForceClose
  <2> QED
    BY <1>3, <2>1, <2>2, <2>3, <2>4, <2>5, <2>6 DEF LoopStep
<1>4. ASSUME NEW r \in Requests, Client(r) PROVE TypeOK'
  <2>1. CASE Arrive(r)
    BY <2>1 DEF Arrive
  <2>2. CASE Answer(r)
    BY <2>2 DEF Answer, HealthCheck
  <2> QED
    BY <1>4, <2>1, <2>2 DEF Client
<1>5. CASE Signal
  BY <1>5, LifecycleBounds DEF Signal, Deliver
<1>6. CASE Kill
  BY <1>6, CutType DEF Kill
<1>7. CASE Restart
  <2>1. Flags'
    BY <1>7, Zenon DEF Restart, Flags
  <2>2. asked' \in 0 .. MaxSignals /\ starts' \in Nat /\ pending' \in 0 .. 1
    BY <1>7, LifecycleBounds DEF Restart
  <2>3. /\ request' \in [Requests -> {"none", "open", "answered", "cut"}]
        /\ told' \in [Requests -> {"nothing", "true", "false"}]
    BY <1>7 DEF Restart
  <2>4. /\ main' = "config" /\ serve' = "none"
        /\ UNCHANGED <<schema, bucket, interrupted, faults>>
    BY <1>7 DEF Restart
  <2> QED
    BY <2>1, <2>2, <2>3, <2>4 DEF Flags
<1>8. CASE UNCHANGED vars
  BY <1>8 DEF vars
<1> QED
  BY <1>1, <1>2, <1>3, <1>4, <1>5, <1>6, <1>7, <1>8 DEF Next, Quiet

\* The variables keep their types; in particular signCh never holds more than
\* the one signal it has room for.
THEOREM TypeCorrect == Spec => []TypeOK
<1>1. ASSUME Init PROVE TypeOK
  <2>1. Flags /\ bucket \in BOOLEAN /\ interrupted \in BOOLEAN
    BY <1>1, Zenon DEF Init, Flags
  <2>2. asked \in 0 .. MaxSignals /\ pending \in 0 .. 1
    BY <1>1, LifecycleBounds DEF Init
  <2>3. /\ request \in [Requests -> {"none", "open", "answered", "cut"}]
        /\ told \in [Requests -> {"nothing", "true", "false"}]
        /\ starts \in Nat /\ faults \in Nat
    BY <1>1 DEF Init
  <2>4. main = "config" /\ serve = "none" /\ schema = "old"
    BY <1>1 DEF Init
  <2> QED
    BY <2>1, <2>2, <2>3, <2>4 DEF TypeOK, Flags, Boot, Schemas
<1> QED
  BY <1>1, TypeStep, PTL DEF Spec

-----------------------------------------------------------------------------
(* A graceful stop answers what was accepted *)

\* The channel main ends by is closed only once the listener is, and main looks
\* at it only when nothing is open any more.
KeptInv ==
    /\ main \in Boot => ~stopping
    /\ serve = "closed" \/ doneCh => stopping
    /\ stopping /\ main \in {"select", "shutdown", "close"} => Open = {}
    /\ \A r \in Requests :
           request[r] = "cut" => forced \/ main \in {"exit1", "killed"}

LEMMA KeptStep == TypeOK /\ KeptInv /\ [Next]_vars => KeptInv'
<1> SUFFICES ASSUME TypeOK, KeptInv, [Next]_vars PROVE KeptInv'
  OBVIOUS
<1> USE DEF KeptInv, TypeOK, Open, Boot
<1>1. CASE BootStep
  <2>1. CASE LoadConfig \/ CreatePgStore
    BY <2>1 DEF LoadConfig, CreatePgStore
  <2>2. CASE RunMigrations \/ Migrated
    BY <2>2 DEF RunMigrations, Migrated
  <2>3. CASE NewMinioStore \/ GoServe
    BY <2>3 DEF NewMinioStore, MakeBucket, GoServe
  <2>4. CASE BootFails
    BY <2>4 DEF BootFails, Boot
  <2> QED
    BY <1>1, <2>1, <2>2, <2>3, <2>4 DEF BootStep
<1>2. CASE ServeStep
  <2>1. CASE Start \/ Listen \/ ServerClosed
    BY <2>1 DEF Start, SetHealthy, Listen, ServerClosed
  <2>2. CASE ListenFails
    BY <2>2 DEF ListenFails
  <2>3. CASE Report
    BY <2>3 DEF Report
  <2> QED
    BY <1>2, <2>1, <2>2, <2>3 DEF ServeStep
<1>3. CASE SelectErr
  BY <1>3 DEF SelectErr, Exit, Cut
<1>4. CASE SelectDone
  BY <1>4 DEF SelectDone, Exit, Cut
<1>5. CASE SelectSignal \/ Shutdown \/ CloseListener \/ Drained
  BY <1>5 DEF SelectSignal, Shutdown, CloseListener, BeginDrain, Drained
<1>6. CASE ForceClose
  BY <1>6 DEF ForceClose, Cut
<1>7. ASSUME NEW r \in Requests, Client(r) PROVE KeptInv'
  BY <1>7 DEF Client, Arrive, Answer
<1>8. CASE Signal
  BY <1>8 DEF Signal
<1>9. CASE Kill
  BY <1>9 DEF Kill, Cut
<1>10. CASE Restart
  BY <1>10 DEF Restart
<1>11. CASE UNCHANGED vars
  BY <1>11 DEF vars
<1> QED
  BY <1>1, <1>2, <1>3, <1>4, <1>5, <1>6, <1>7, <1>8, <1>9, <1>10, <1>11
     DEF Next, LoopStep, Quiet

\* A process that ends with code 0 without having run out of time has answered
\* all it accepted.
THEOREM GracefulStop == Spec => []AnswersKept
<1>1. Init => KeptInv
  BY DEF Init, KeptInv, Open
<1>2. KeptInv => AnswersKept
  BY DEF KeptInv, AnswersKept
<1> QED
  BY <1>1, <1>2, TypeCorrect, KeptStep, PTL DEF Spec

-----------------------------------------------------------------------------
(* Nobody is told "false" without a signal *)

\* The field is set before the listener exists, and only Shutdown resets it.
HealthInv ==
    /\ UnhealthyAsked
    /\ pending > 0 \/ main \in {"shutdown", "close", "drain"} => asked > 0
    /\ asked > 0 \/ serve \in {"none", "start"} \/ healthy
    /\ main \in Boot => serve = "none"
    /\ serve \in {"none", "start"} => Open = {}

LEMMA HealthStep == TypeOK /\ HealthInv /\ [Next]_vars => HealthInv'
<1> SUFFICES ASSUME TypeOK, HealthInv, [Next]_vars PROVE HealthInv'
  OBVIOUS
<1> USE DEF HealthInv, TypeOK, UnhealthyAsked, Open, Boot
<1>1. CASE BootStep
  <2>1. CASE LoadConfig \/ CreatePgStore
    BY <2>1 DEF LoadConfig, CreatePgStore
  <2>2. CASE RunMigrations \/ Migrated
    BY <2>2 DEF RunMigrations, Migrated
  <2>3. CASE NewMinioStore \/ GoServe
    BY <2>3 DEF NewMinioStore, MakeBucket, GoServe
  <2>4. CASE BootFails
    BY <2>4 DEF BootFails, Boot
  <2> QED
    BY <1>1, <2>1, <2>2, <2>3, <2>4 DEF BootStep
<1>2. CASE ServeStep
  <2>1. CASE Start \/ Listen \/ ServerClosed
    BY <2>1 DEF Start, SetHealthy, Listen, ServerClosed
  <2>2. CASE ListenFails
    BY <2>2 DEF ListenFails
  <2>3. CASE Report
    BY <2>3 DEF Report
  <2> QED
    BY <1>2, <2>1, <2>2, <2>3 DEF ServeStep
<1>3. CASE SelectErr \/ SelectDone \/ ForceClose \/ Kill
  BY <1>3 DEF SelectErr, SelectDone, Exit, ForceClose, Kill, Cut
<1>4. CASE SelectSignal \/ Shutdown \/ CloseListener \/ Drained
  BY <1>4 DEF SelectSignal, Shutdown, CloseListener, BeginDrain, Drained
<1>5. ASSUME NEW r \in Requests, Arrive(r) PROVE HealthInv'
  BY <1>5 DEF Arrive
<1>6. ASSUME NEW r \in Requests, Answer(r) PROVE HealthInv'
  <2>1. serve \notin {"none", "start"}
    BY <1>6 DEF Answer
  <2>2. told'[r] = "false" => asked > 0
    BY <1>6, <2>1 DEF Answer, HealthCheck
  <2>3. \A s \in Requests \ {r} : told'[s] = told[s]
    BY <1>6 DEF Answer, HealthCheck
  <2> QED
    BY <1>6, <2>1, <2>2, <2>3 DEF Answer
<1>7. CASE Signal
  BY <1>7 DEF Signal
<1>8. CASE Restart
  BY <1>8 DEF Restart
<1>9. CASE UNCHANGED vars
  BY <1>9 DEF vars
<1> QED
  BY <1>1, <1>2, <1>3, <1>4, <1>5, <1>6, <1>7, <1>8, <1>9
     DEF Next, LoopStep, Client, Quiet

\* Only a process that received a signal calls itself unhealthy, although the
\* field is read and written without a lock.
THEOREM HealthySinceStart == Spec => []UnhealthyAsked
<1>1. Init => HealthInv
  BY DEF Init, HealthInv, UnhealthyAsked, Open
<1>2. HealthInv => UnhealthyAsked
  BY DEF HealthInv
<1> QED
  BY <1>1, <1>2, TypeCorrect, HealthStep, PTL DEF Spec

-----------------------------------------------------------------------------
(* What earlier starts completed is not in the way of the next *)

RefusalInv ==
    /\ RefusalExplained
    /\ refused => main \in Ended
    /\ schema = "dirty" => interrupted \/ main = "migrating"

LEMMA RefusalStep == RefusalInv /\ [Next]_vars => RefusalInv'
<1> SUFFICES ASSUME RefusalInv, [Next]_vars PROVE RefusalInv'
  OBVIOUS
<1> USE DEF RefusalInv, RefusalExplained, Ended
<1>1. CASE LoadConfig \/ CreatePgStore \/ RunMigrations \/ Migrated
  BY <1>1 DEF LoadConfig, CreatePgStore, RunMigrations, Migrated
<1>2. CASE NewMinioStore \/ GoServe \/ BootFails
  BY <1>2 DEF NewMinioStore, MakeBucket, GoServe, BootFails, Boot
<1>3. CASE ServeStep
  BY <1>3 DEF ServeStep, Start, Listen, ServerClosed, ListenFails, Report
<1>4. CASE LoopStep
  BY <1>4 DEF LoopStep, SelectErr, SelectDone, Exit, SelectSignal, Shutdown,
              CloseListener, BeginDrain, Drained, ForceClose, TimeIsUp
<1>5. ASSUME NEW r \in Requests, Client(r) PROVE RefusalInv'
  BY <1>5 DEF Client, Arrive, Answer
<1>6. CASE Signal \/ Kill \/ Restart
  BY <1>6 DEF Signal, Kill, Restart, Running
<1>7. CASE UNCHANGED vars
  BY <1>7 DEF vars
<1> QED
  BY <1>1, <1>2, <1>3, <1>4, <1>5, <1>6, <1>7 DEF Next, BootStep, Quiet

\* A start is given up only when something it depends on fails or an earlier
\* start was broken off half-way through the migrations.
THEOREM RefusalsHaveCauses == Spec => []RefusalExplained
<1>1. Init => RefusalInv
  BY DEF Init, RefusalInv, RefusalExplained
<1>2. RefusalInv => RefusalExplained
  BY DEF RefusalInv
<1> QED
  BY <1>1, <1>2, RefusalStep, PTL DEF Spec

-----------------------------------------------------------------------------
(* A signal is not lost, and an exit has a cause *)

\* A process that was asked to stop and waits in its select has something to
\* wake it: the signal, an answer of the goroutine that serves, or that
\* goroutine on its way to answer, because its listener is closed.
NoSignalLost ==
    asked > 0 /\ main = "select" =>
        \/ pending > 0 \/ errCh \/ doneCh
        \/ serve \in {"start", "listen", "closed", "broken"}
        \/ serve = "serving" /\ stopping

\* A signal taken from the channel is followed by a closed listener, and the
\* goroutine does not end without an answer.
WakeInv ==
    /\ main \in Loop => serve # "none"
    /\ serve = "over" => errCh \/ doneCh
    /\ asked > 0 /\ Running =>
           pending > 0 \/ main \in {"shutdown", "close"} \/ stopping
    /\ main \in Boot => asked = 0

LEMMA WakeStep == TypeOK /\ WakeInv /\ [Next]_vars => WakeInv'
<1> SUFFICES ASSUME TypeOK, WakeInv, [Next]_vars PROVE WakeInv'
  OBVIOUS
<1> USE DEF WakeInv, TypeOK, Boot, Loop, Ended, Running
<1>1. CASE LoadConfig \/ CreatePgStore
  BY <1>1 DEF LoadConfig, CreatePgStore
<1>2. CASE RunMigrations \/ Migrated
  BY <1>2 DEF RunMigrations, Migrated
<1>3. CASE NewMinioStore \/ GoServe
  BY <1>3 DEF NewMinioStore, MakeBucket, GoServe
<1>4. CASE BootFails
  BY <1>4 DEF BootFails
<1>5. CASE Start \/ Listen \/ ServerClosed
  BY <1>5 DEF Start, SetHealthy, Listen, ServerClosed
<1>6. CASE ListenFails
  BY <1>6 DEF ListenFails
<1>7. CASE Report
  BY <1>7 DEF Report
<1>8. CASE SelectErr \/ SelectDone \/ Kill
  BY <1>8 DEF SelectErr, SelectDone, Exit, Kill
<1>9. CASE SelectSignal \/ Shutdown \/ CloseListener
  BY <1>9 DEF SelectSignal, Shutdown, CloseListener, BeginDrain
<1>10. CASE Drained \/ ForceClose
  BY <1>10 DEF Drained, ForceClose, TimeIsUp
<1>11. ASSUME NEW r \in Requests, Client(r) PROVE WakeInv'
  BY <1>11 DEF Client, Arrive, Answer
<1>12. CASE Signal
  BY <1>12 DEF Signal, Deliver
<1>13. CASE Restart
  BY <1>13 DEF Restart
<1>14. CASE UNCHANGED vars
  BY <1>14 DEF vars
<1> QED
  BY <1>1, <1>2, <1>3, <1>4, <1>5, <1>6, <1>7, <1>8, <1>9, <1>10, <1>11, <1>12,
     <1>13, <1>14 DEF Next, BootStep, ServeStep, LoopStep, Quiet

\* What SignalEnds says, as far as it is about states: main is never left
\* waiting in its select after a signal, although signCh drops what it has no
\* room for, a second signal may start Shutdown again, and a signal may arrive
\* before the server listens.
THEOREM SignalNotLost == Spec => []NoSignalLost
<1>1. Init => WakeInv
  BY DEF Init, WakeInv, Loop
<1>2. TypeOK /\ WakeInv => NoSignalLost
  BY DEF TypeOK, WakeInv, NoSignalLost, Loop, Running, Ended
<1> QED
  BY <1>1, <1>2, TypeCorrect, WakeStep, PTL DEF Spec

\* Code 1 tells the supervisor of a failure, and code 0 of a stop it asked for
\* or of a start that was given up.
ExitsExplained ==
    /\ main = "exit1" => trouble
    /\ main = "exit0" => refused \/ asked > 0

\* What the goroutine reports has happened.
ExitInv ==
    /\ ExitsExplained
    /\ errCh \/ serve = "broken" => trouble
    /\ doneCh \/ serve = "closed" => stopping
    /\ stopping /\ Running => asked > 0
    /\ main \in Boot => ~stopping

LEMMA ExitStep == TypeOK /\ HealthInv /\ ExitInv /\ [Next]_vars => ExitInv'
<1> SUFFICES ASSUME TypeOK, HealthInv, ExitInv, [Next]_vars PROVE ExitInv'
  OBVIOUS
<1> USE DEF ExitInv, ExitsExplained, TypeOK, Boot, Loop, Ended, Running
<1>1. CASE LoadConfig \/ CreatePgStore
  BY <1>1 DEF LoadConfig, CreatePgStore
<1>2. CASE RunMigrations \/ Migrated
  BY <1>2 DEF RunMigrations, Migrated
<1>3. CASE NewMinioStore \/ GoServe
  BY <1>3 DEF NewMinioStore, MakeBucket, GoServe
<1>4. CASE BootFails
  BY <1>4 DEF BootFails
<1>5. CASE Start \/ Listen \/ ServerClosed
  BY <1>5 DEF Start, SetHealthy, Listen, ServerClosed
<1>6. CASE ListenFails
  BY <1>6 DEF ListenFails
<1>7. CASE Report
  BY <1>7 DEF Report
<1>8. CASE SelectErr \/ SelectDone \/ Kill
  BY <1>8 DEF SelectErr, SelectDone, Exit, Kill
<1>9. CASE SelectSignal \/ Shutdown \/ CloseListener
  BY <1>9 DEF SelectSignal, Shutdown, CloseListener, BeginDrain, HealthInv
<1>10. CASE Drained \/ ForceClose
  BY <1>10 DEF Drained, ForceClose, TimeIsUp
<1>11. ASSUME NEW r \in Requests, Client(r) PROVE ExitInv'
  BY <1>11 DEF Client, Arrive, Answer
<1>12. CASE Signal
  BY <1>12 DEF Signal, Deliver
<1>13. CASE Restart
  BY <1>13 DEF Restart
<1>14. CASE UNCHANGED vars
  BY <1>14 DEF vars
<1> QED
  BY <1>1, <1>2, <1>3, <1>4, <1>5, <1>6, <1>7, <1>8, <1>9, <1>10, <1>11, <1>12,
     <1>13, <1>14 DEF Next, BootStep, ServeStep, LoopStep, Quiet

\* The exit code the supervisor sees has the cause it stands for.
THEOREM ExitCodes == Spec => []ExitsExplained
<1>1. Init => HealthInv /\ ExitInv
  BY DEF Init, HealthInv, UnhealthyAsked, Open, ExitInv, ExitsExplained
<1>2. ExitInv => ExitsExplained
  BY DEF ExitInv
<1> QED
  BY <1>1, <1>2, TypeCorrect, HealthStep, ExitStep, PTL DEF Spec
=============================================================================
