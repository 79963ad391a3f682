------------------------------- MODULE Lifecycle -------------------------------
(***************************************************************************)
(* The life of the process: main of cmd/trashscanner/main.go with Start    *)
(* and Shutdown of internal/api/server.go, over as many starts as the      *)
(* supervisor makes.  Migrations and bucket outlive a process.             *)
(*                                                                         *)
(* Two goroutines: main, which loops over three channels, and the one that *)
(* calls Start.  Shutdown runs in main.  Of http.Server the model keeps    *)
(* that ListenAndServe returns as soon as a shutdown begins, or never      *)
(* listens if one has begun; that Shutdown waits for open requests; that   *)
(* Close cuts them.  A migration that is interrupted leaves the schema     *)
(* dirty, which setupMigrations refuses from then on.                      *)
(*                                                                         *)
(* Never used, each a slip in the operator that follows it:                *)
(* MakeBucketStrict, StartUnwell, SignalCounted, CloseAtOnce, NoDeadline.  *)
(***************************************************************************)
EXTENDS Naturals

CONSTANTS Requests,    \* requests that may reach one process
          MaxStarts,   \* bound: starts of the process
          MaxSignals,  \* bound: signals sent to one process
          MaxFaults    \* bound: failures of what a process depends on

ASSUME LifecycleBounds ==
    MaxStarts \in Nat /\ MaxSignals \in Nat /\ MaxFaults \in Nat

VARIABLES main,         \* where main is
          serve,        \* where the goroutine that serves is
          pending,      \* signals in signCh, which holds one
          errCh,        \* errCh holds the error of the server
          doneCh,       \* doneCh is closed
          healthy,      \* the field of Server
          stopping,     \* the http.Server is shutting down
          request,      \* what became of each request
          told,         \* what healthCheck answered to it
          schema,       \* of the database
          bucket,       \* the bucket exists
          forced,       \* history: Shutdown ran out of time and closed
          asked,        \* history: signals this process received
          trouble,      \* history: something this process depends on failed
          refused,      \* history: main gave up before serving
          interrupted,  \* history: a start was broken off by a kill or failure
          starts,       \* starts so far
          faults        \* failures so far

state == <<main, serve>>
channels == <<pending, errCh, doneCh>>
server == <<healthy, stopping>>
clients == <<request, told>>
durable == <<schema, bucket>>
history == <<forced, asked, trouble, refused, interrupted>>
bounds == <<starts, faults>>
vars == <<state, channels, server, clients, durable, history, bounds>>

Boot == {"config", "store", "migrate", "migrating", "files", "auth"}
Loop == {"select", "shutdown", "close", "drain"}
Ended == {"exit0", "exit1", "killed"}
Schemas == {"old", "dirty", "new"}

Running == main \notin Ended
Open == {r \in Requests : request[r] = "open"}

\* The connections are gone: what is open is never answered.
Cut == [r \in Requests |-> IF r \in Open THEN "cut" ELSE request[r]]

Init == /\ main = "config" /\ serve = "none"
        /\ pending = 0 /\ errCh = FALSE /\ doneCh = FALSE
        /\ healthy = FALSE /\ stopping = FALSE
        /\ request = [r \in Requests |-> "none"]
        /\ told = [r \in Requests |-> "nothing"]
        /\ forced = FALSE /\ asked = 0 /\ trouble = FALSE /\ refused = FALSE
        /\ schema = "old" /\ bucket = FALSE
        /\ interrupted = FALSE
        /\ starts = 1 /\ faults = 0

-----------------------------------------------------------------------------
(* main, before it serves *)

LoadConfig == /\ main = "config"
              /\ main' = "store"
              /\ UNCHANGED <<serve, channels, server, clients, durable, history, bounds>>

CreatePgStore == /\ main = "store"
                 /\ main' = "migrate"
                 /\ UNCHANGED <<serve, channels, server, clients, durable, history, bounds>>

\* "No change" is a success, a dirty schema an error; main then closes the
\* store and returns, which is code 0.
RunMigrations ==
    /\ main = "migrate"
    /\ \/ /\ schema = "new" /\ main' = "files"
          /\ UNCHANGED <<schema, refused>>
       \/ /\ schema = "old" /\ main' = "migrating" /\ schema' = "dirty"
          /\ UNCHANGED refused
       \/ /\ schema = "dirty" /\ main' = "exit0" /\ refused' = TRUE
          /\ UNCHANGED schema
    /\ UNCHANGED <<serve, channels, server, clients, bucket, forced, asked,
                   trouble, interrupted, bounds>>

Migrated == /\ main = "migrating"
            /\ main' = "files"
            /\ schema' = "new"
            /\ UNCHANGED <<serve, channels, server, clients, bucket, history, bounds>>

MakeBucketStrict == IF bucket THEN main' = "exit0" /\ refused' = TRUE
                              ELSE main' = "auth" /\ UNCHANGED refused
\* An error of MakeBucket is none when the bucket exists.
MakeBucket == main' = "auth" /\ UNCHANGED refused

NewMinioStore == /\ main = "files"
                 /\ MakeBucket
                 /\ bucket' = TRUE
                 /\ UNCHANGED <<serve, channels, server, clients, schema, forced,
                                asked, trouble, interrupted, bounds>>

\* The keys are loaded and the goroutine that serves is started.
GoServe == /\ main = "auth"
           /\ main' = "select"
           /\ serve' = "start"
           /\ UNCHANGED <<channels, server, clients, durable, history, bounds>>

\* A step of main fails: log.Fatalf, or an error and a return.  The bucket may
\* have been made although the answer was lost.
BootFails ==
    /\ main \in Boot
    /\ faults < MaxFaults
    /\ faults' = faults + 1
    /\ main' = IF main \in {"config", "store"} THEN "exit1" ELSE "exit0"
    /\ UNCHANGED bucket \/ (main = "files" /\ bucket' = TRUE)
    /\ trouble' = TRUE
    /\ refused' = TRUE
    /\ interrupted' = TRUE
    /\ UNCHANGED <<serve, channels, server, clients, schema, forced, asked, starts>>

BootStep == \/ LoadConfig \/ CreatePgStore \/ RunMigrations \/ Migrated
            \/ NewMinioStore \/ GoServe \/ BootFails

-----------------------------------------------------------------------------
(* The goroutine that serves *)

StartUnwell == UNCHANGED healthy
\* Start, before it listens.
SetHealthy == healthy' = TRUE

Start == /\ Running /\ serve = "start"
         /\ serve' = "listen"
         /\ SetHealthy
         /\ UNCHANGED <<main, channels, stopping, clients, durable, history, bounds>>

\* ListenAndServe returns http.ErrServerClosed if a shutdown has begun.
Listen == /\ Running /\ serve = "listen"
          /\ serve' = IF stopping THEN "closed" ELSE "serving"
          /\ UNCHANGED <<main, channels, server, clients, durable, history, bounds>>

ServerClosed == /\ Running /\ serve = "serving" /\ stopping
                /\ serve' = "closed"
                /\ UNCHANGED <<main, channels, server, clients, durable, history, bounds>>

\* The address is taken, or the listener fails.
ListenFails == /\ Running /\ serve \in {"listen", "serving"} /\ ~stopping
               /\ faults < MaxFaults
               /\ faults' = faults + 1
               /\ serve' = "broken"
               /\ trouble' = TRUE
               /\ UNCHANGED <<main, channels, server, clients, durable, forced,
                              asked, refused, interrupted, starts>>

Report == /\ Running /\ serve \in {"closed", "broken"}
          /\ serve' = "over"
          /\ errCh' = (errCh \/ serve = "broken")
          /\ doneCh' = (doneCh \/ serve = "closed")
          /\ UNCHANGED <<main, pending, server, clients, durable, history, bounds>>

ServeStep == Start \/ Listen \/ ServerClosed \/ ListenFails \/ Report

-----------------------------------------------------------------------------
(* main, in its loop *)

\* os.Exit, whatever is open.
Exit(code) == /\ main' = code
              /\ request' = Cut
              /\ UNCHANGED <<serve, channels, server, told, durable, history, bounds>>

SelectErr == main = "select" /\ errCh /\ Exit("exit1")
SelectDone == main = "select" /\ doneCh /\ Exit("exit0")

SelectSignal == /\ main = "select" /\ pending > 0
                /\ pending' = pending - 1
                /\ main' = "shutdown"
                /\ UNCHANGED <<serve, errCh, doneCh, server, clients, durable,
                               history, bounds>>

Shutdown == /\ main = "shutdown"
            /\ main' = "close"
            /\ healthy' = FALSE
            /\ UNCHANGED <<serve, channels, stopping, clients, durable, history, bounds>>

CloseAtOnce == main' = "select" /\ request' = Cut
\* http.Server.Shutdown closes the listener and begins to wait.
BeginDrain == main' = "drain" /\ UNCHANGED request

CloseListener == /\ main = "close"
                 /\ stopping' = TRUE
                 /\ BeginDrain
                 /\ UNCHANGED <<serve, channels, healthy, told, durable, history, bounds>>

Drained == /\ main = "drain" /\ Open = {}
           /\ main' = "select"
           /\ UNCHANGED <<serve, channels, server, clients, durable, history, bounds>>

NoDeadline == main = "drain" /\ Open = {}
\* The three seconds are over.
TimeIsUp == main = "drain"

\* Shutdown gives up waiting and calls Close.
ForceClose == /\ TimeIsUp
              /\ main' = "select"
              /\ forced' = TRUE
              /\ request' = Cut
              /\ UNCHANGED <<serve, channels, server, told, durable, asked,
                             trouble, refused, interrupted, bounds>>

LoopStep == \/ SelectErr \/ SelectDone \/ SelectSignal
            \/ Shutdown \/ CloseListener \/ Drained \/ ForceClose

-----------------------------------------------------------------------------
(* Outside: clients, signals, the supervisor *)

SignalCounted == pending' = pending + 1
\* signCh has room for one signal; another is dropped.
Deliver == pending' = 1

\* os.Interrupt or SIGTERM, once signal.Notify was called.
Signal == /\ main \in Loop
          /\ asked < MaxSignals
          /\ asked' = asked + 1
          /\ Deliver
          /\ UNCHANGED <<state, errCh, doneCh, server, clients, durable, forced,
                         trouble, refused, interrupted, bounds>>

Arrive(r) == /\ Running /\ serve = "serving" /\ ~stopping
             /\ request[r] = "none"
             /\ request' = [request EXCEPT ![r] = "open"]
             /\ UNCHANGED <<state, channels, server, told, durable, history, bounds>>

\* healthCheck reads a field that Shutdown writes without a lock: after the
\* write it may still see the value Start wrote.
HealthCheck(r) == \/ told' = [told EXCEPT ![r] = IF healthy THEN "true" ELSE "false"]
                  \/ asked > 0 /\ told' = [told EXCEPT ![r] = "true"]

\* The handler is done; it may have been healthCheck.
Answer(r) == /\ Running /\ request[r] = "open"
             /\ request' = [request EXCEPT ![r] = "answered"]
             /\ HealthCheck(r)
             /\ UNCHANGED <<state, channels, server, durable, history, bounds>>

\* SIGKILL, a panic, the machine; before signal.Notify also SIGTERM.
Kill == /\ Running
        /\ main' = "killed"
        /\ request' = Cut
        /\ interrupted' = TRUE
        /\ UNCHANGED <<serve, channels, server, told, durable, forced, asked,
                       trouble, refused, bounds>>

Restart == /\ ~Running
           /\ starts < MaxStarts
           /\ starts' = starts + 1
           /\ main' = "config" /\ serve' = "none"
           /\ pending' = 0 /\ errCh' = FALSE /\ doneCh' = FALSE
           /\ healthy' = FALSE /\ stopping' = FALSE
           /\ request' = [r \in Requests |-> "none"]
           /\ told' = [r \in Requests |-> "nothing"]
           /\ forced' = FALSE /\ asked' = 0 /\ trouble' = FALSE /\ refused' = FALSE
           /\ UNCHANGED <<durable, interrupted, faults>>

Quiet == ~Running /\ starts = MaxStarts /\ UNCHANGED vars

Client(r) == Arrive(r) \/ Answer(r)

Next == \/ BootStep
        \/ ServeStep
        \/ LoopStep
        \/ \E r \in Requests : Client(r)
        \/ Signal
        \/ Kill
        \/ Restart
        \/ Quiet

\* main and the goroutine that serves go on, and the timer of Shutdown fires.
\* Nothing is assumed of handlers, which may hang.
Fairness == WF_vars(LoopStep) /\ WF_vars(ServeStep)

Spec == Init /\ [][Next]_vars
LiveSpec == Spec /\ Fairness

-----------------------------------------------------------------------------
TypeOK == /\ main \in Boot \cup Loop \cup Ended
          /\ serve \in {"none", "start", "listen", "serving", "closed", "broken", "over"}
          /\ pending \in 0 .. 1
          /\ errCh \in BOOLEAN /\ doneCh \in BOOLEAN
          /\ healthy \in BOOLEAN /\ stopping \in BOOLEAN
          /\ request \in [Requests -> {"none", "open", "answered", "cut"}]
          /\ told \in [Requests -> {"nothing", "true", "false"}]
          /\ schema \in Schemas /\ bucket \in BOOLEAN
          /\ forced \in BOOLEAN /\ trouble \in BOOLEAN
          /\ refused \in BOOLEAN /\ interrupted \in BOOLEAN
          /\ asked \in 0 .. MaxSignals
          /\ starts \in Nat /\ faults \in Nat

\* A process that ends with code 0 has answered every request it accepted,
\* unless the three seconds of Shutdown ran out: neither the channel that main
\* is woken by nor a second signal makes it leave early.
AnswersKept ==
    main = "exit0" /\ ~forced => \A r \in Requests : request[r] # "cut"

\* Only a process that was asked to stop calls itself unhealthy: a request that
\* gets through to a new process is never told "false" (the deployment waits
\* for "true", .github/workflows/deploy.yaml:141, and fails on anything else).
UnhealthyAsked ==
    \A r \in Requests : told[r] = "false" => asked > 0

\* A start that is given up met a failure, or a schema that an earlier start
\* left half migrated; what earlier starts completed is never in the way.
RefusalExplained ==
    refused => trouble \/ (interrupted /\ schema = "dirty")

\* A process that receives a signal ends, although handlers may hang.
SignalEnds == asked > 0 ~> ~Running
=============================================================================
