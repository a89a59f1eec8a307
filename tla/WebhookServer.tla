--------------------------- MODULE WebhookServer ----------------------------
(***************************************************************************)
(* The life of a webhook controller's process: Controller.Run, the webhook *)
(* and the health server with their Serve goroutines, the requests they    *)
(* serve and the counters of /metrics, from start to exit.                 *)
(*                                                                         *)
(* The TSC and the JVM controller have the same servers; their Run differs *)
(* in what it makes of errors.  Channels have capacity one each (the JVM   *)
(* controller's Run has one of capacity two for both servers), so a send   *)
(* never blocks.                                                           *)
(***************************************************************************)
EXTENDS Naturals, FiniteSets, Sequences

CONSTANTS
  Nil,
  Request,         \* requests to /mutate/pods
  ClassesOf,       \* request -> the classes it may be in
  MaxFailures,     \* bound: Listen and Serve calls that fail
  MaxStops         \* bound: calls of Stop

Servers == {"webhook", "health"}
Classes == {"error", "bypass", "mutation", "allowed"}
Results == {"ok", "error"}

Handler == [at : {"handler", "written", "finished"}, class : Classes]

ASSUME ConstantsAssumption ==
  /\ IsFiniteSet(Request)
  /\ ClassesOf \in [Request -> SUBSET Classes]
  /\ MaxFailures \in Nat /\ MaxStops \in Nat

ASSUME NilAssumption == Nil \notin Results \cup Handler

VARIABLES
  controller,      \* "tsc" or "jvm"
  cancelled,       \* the signal handler cancelled main's context
  runCancelled,    \* Run cancelled the context it derived
  run,             \* where Run is
  awaited,         \* servers whose result Run has not received
  received,        \* what it received, in order
  result,          \* what Run returned
  start,           \* server -> where Start is
  startResult,     \* server -> Nil or what Start sent to Run
  serve,           \* server -> where its Serve goroutine is
  serveErr,        \* server -> Nil or what is in the channel serveErr
  closed,          \* servers on which Shutdown was called
  request,         \* request -> Nil or where its handler is, and its class
  counters,        \* requests, mutations, bypasses, errors
  timedOut,        \* servers whose Shutdown ran into its time limit
  failures, stops

process  == <<controller, cancelled>>
runVars  == <<runCancelled, run, awaited, received, result>>
srvVars  == <<start, startResult, serve, serveErr, closed, timedOut>>
reqVars  == <<request, counters>>
bounds   == <<failures, stops>>
vars     == <<process, runVars, srvVars, reqVars, bounds>>

Done == cancelled \/ runCancelled
Up   == run # "returned"       \* main exits when Run returns

Failure == failures < MaxFailures /\ failures' = failures + 1

(***************************************************************************)
(* Start and its Serve goroutine, the same for both servers.               *)
(***************************************************************************)
Return(s, v) ==
  /\ start' = [start EXCEPT ![s] = "returned"]
  /\ startResult' = [startResult EXCEPT ![s] = v]

Listen(s) ==
  /\ start[s] = "listen"
  /\ \/ /\ start' = [start EXCEPT ![s] = "select"]
        /\ serve' = [serve EXCEPT ![s] = "starting"]
        /\ UNCHANGED <<startResult, failures>>
     \/ /\ Failure
        /\ Return(s, "error")
        /\ UNCHANGED serve
  /\ UNCHANGED <<process, runVars, serveErr, closed, timedOut, reqVars, stops>>

ServeEnds(s, v) ==
  /\ serve'    = [serve EXCEPT ![s] = "ended"]
  /\ serveErr' = [serveErr EXCEPT ![s] = v]

\* Serve on a server that is already shut down returns ErrServerClosed.
Serve(s) ==
  /\ serve[s] = "starting"
  /\ IF s \in closed
     THEN ServeEnds(s, "ok")
     ELSE /\ serve' = [serve EXCEPT ![s] = "serving"]
          /\ UNCHANGED serveErr
  /\ UNCHANGED <<process, runVars, start, startResult, closed, timedOut,
                 reqVars, bounds>>

ServeClosed(s) ==
  /\ serve[s] = "serving"
  /\ s \in closed
  /\ ServeEnds(s, "ok")
  /\ UNCHANGED <<process, runVars, start, startResult, closed, timedOut,
                 reqVars, bounds>>

\* A certificate that cannot be read, an Accept that fails.
ServeFails(s) ==
  /\ Failure
  /\ serve[s] \in {"starting", "serving"}
  /\ s \notin closed
  /\ ServeEnds(s, "error")
  /\ UNCHANGED <<process, runVars, start, startResult, closed, timedOut,
                 reqVars, stops>>

\* select: ctx.Done(), then Shutdown closes the listener ...
BeginShutdown(s) ==
  /\ start[s] = "select"
  /\ Done
  /\ start'  = [start EXCEPT ![s] = "shutdown"]
  /\ closed' = closed \cup {s}
  /\ UNCHANGED <<process, runVars, startResult, serve, serveErr, timedOut,
                 reqVars, bounds>>

Active(q) == request[q] # Nil /\ request[q].at # "finished"

\* A mutated form: Close instead of Shutdown.
IdleAtOnce(s) == TRUE

Idle(s) == s = "webhook" => \A q \in Request : ~Active(q)

\* ... and waits for the handlers, up to webhookShutdownTimeout.
EndShutdown(s) ==
  /\ start[s] = "shutdown"
  /\ IF Idle(s)
     THEN /\ start' = [start EXCEPT ![s] = "drain"]
          /\ UNCHANGED timedOut
     ELSE /\ start' = [start EXCEPT ![s] = "drainFailed"]
          /\ timedOut' = timedOut \cup {s}
  /\ UNCHANGED <<process, runVars, startResult, serve, serveErr, closed,
                 reqVars, bounds>>

\* A mutated form: Start does not wait for its goroutine.
ServeEndedOrNot(s) == TRUE

ServeEnded(s) == serveErr[s] # Nil

\* <-serveErr after Shutdown: what Serve returned is dropped.
Drain(s) ==
  /\ start[s] \in {"drain", "drainFailed"}
  /\ ServeEnded(s)
  /\ serveErr' = [serveErr EXCEPT ![s] = Nil]
  /\ Return(s, IF start[s] = "drain" THEN "ok" ELSE "error")
  /\ UNCHANGED <<process, runVars, serve, closed, timedOut, reqVars, bounds>>

\* select: serveErr.
ServeReturned(s) ==
  /\ start[s] = "select"
  /\ serveErr[s] # Nil
  /\ serveErr' = [serveErr EXCEPT ![s] = Nil]
  /\ Return(s, serveErr[s])
  /\ UNCHANGED <<process, runVars, serve, closed, timedOut, reqVars, bounds>>

Start(s) ==
  \/ Listen(s) \/ BeginShutdown(s) \/ EndShutdown(s) \/ Drain(s)
  \/ ServeReturned(s)

\* Nobody in the program calls it; the TSC health server has none.
Stop(s) ==
  /\ stops < MaxStops
  /\ stops' = stops + 1
  /\ s = "webhook" \/ controller = "jvm"
  /\ start[s] \notin {"idle", "listen"}
  /\ serve[s] # "none"
  /\ closed' = closed \cup {s}
  /\ UNCHANGED <<process, runVars, start, startResult, serve, serveErr,
                 timedOut, reqVars, failures>>

(***************************************************************************)
(* Controller.Run.                                                         *)
(***************************************************************************)
WaitForCacheSync ==
  /\ run = "sync"
  /\ \/ /\ run' = "select"
        /\ start' = [s \in Servers |-> "listen"]
        /\ UNCHANGED result
     \/ /\ cancelled
        /\ run' = "returned"
        /\ result' = "error"
        /\ UNCHANGED start
  /\ UNCHANGED <<process, runCancelled, awaited, received, startResult, serve,
                 serveErr, closed, timedOut, reqVars, bounds>>

SeeCancel ==
  /\ run = "select"
  /\ cancelled
  /\ run' = "cancelled"
  /\ UNCHANGED <<process, runCancelled, awaited, received, result, srvVars,
                 reqVars, bounds>>

\* A mutated form: a result can be received again.
ReceiveAgain(s) ==
  /\ startResult[s] # Nil
  /\ awaited'  = awaited \ {s}
  /\ received' = Append(received, startResult[s])

Receive(s) ==
  /\ s \in awaited
  /\ startResult[s] # Nil
  /\ awaited'  = awaited \ {s}
  /\ received' = Append(received, startResult[s])

\* A mutated form: the other server is left running.
SeeServerAlone(s) ==
  /\ run = "select"
  /\ Receive(s)
  /\ run' = "failed"
  /\ UNCHANGED <<process, runCancelled, result, srvVars, reqVars, bounds>>

\* "One of the servers failed; cancel the other so it tears down."
SeeServer(s) ==
  /\ run = "select"
  /\ Receive(s)
  /\ run' = "failed"
  /\ runCancelled' = TRUE
  /\ UNCHANGED <<process, result, srvVars, reqVars, bounds>>

Await(s) ==
  /\ run \in {"cancelled", "failed"}
  /\ Receive(s)
  /\ UNCHANGED <<process, run, runCancelled, result, srvVars, reqVars, bounds>>

\* A mutated form: the JVM controller's last result wins.
ResultOfLast(cause) ==
  IF controller = "jvm" THEN received[2]
  ELSE IF cause = "failed" THEN received[1] ELSE "ok"

\* TSC: nil after a cancellation, else what came first.  JVM: the first error.
ResultOf(cause) ==
  IF controller = "jvm"
  THEN IF "error" \in {received[1], received[2]} THEN "error" ELSE "ok"
  ELSE IF cause = "failed" THEN received[1] ELSE "ok"

RunReturns ==
  /\ run \in {"cancelled", "failed"}
  /\ awaited = {}
  /\ run' = "returned"
  /\ result' = ResultOf(run)
  /\ UNCHANGED <<process, runCancelled, awaited, received, srvVars, reqVars,
                 bounds>>

Run ==
  \/ WaitForCacheSync \/ SeeCancel \/ RunReturns
  \/ \E s \in Servers : SeeServer(s) \/ Await(s)

\* SIGINT or SIGTERM.
Cancel ==
  /\ ~cancelled
  /\ cancelled' = TRUE
  /\ UNCHANGED <<controller, runVars, srvVars, reqVars, bounds>>

(***************************************************************************)
(* Requests, through instrument.                                           *)
(***************************************************************************)
Accept(q, class) ==
  /\ request[q] = Nil
  /\ serve["webhook"] = "serving"
  /\ "webhook" \notin closed
  /\ request'  = [request EXCEPT ![q] = [at |-> "handler", class |-> class]]
  /\ counters' = [counters EXCEPT !.requests = @ + 1]
  /\ UNCHANGED <<process, runVars, srvVars, bounds>>

Write(q) ==
  /\ request[q] # Nil
  /\ request[q].at = "handler"
  /\ request' = [request EXCEPT ![q].at = "written"]
  /\ UNCHANGED <<process, runVars, srvVars, counters, bounds>>

Count(q) ==
  /\ request[q] # Nil
  /\ request[q].at = "written"
  /\ request' = [request EXCEPT ![q].at = "finished"]
  /\ counters' =
       CASE request[q].class = "error"    -> [counters EXCEPT !.errors = @ + 1]
         [] request[q].class = "bypass"   -> [counters EXCEPT !.bypasses = @ + 1]
         [] request[q].class = "mutation" -> [counters EXCEPT !.mutations = @ + 1]
         [] OTHER                         -> counters
  /\ UNCHANGED <<process, runVars, srvVars, bounds>>

(***************************************************************************)
(* The specification.                                                      *)
(***************************************************************************)
Init ==
  /\ controller \in {"tsc", "jvm"}
  /\ cancelled = FALSE /\ runCancelled = FALSE
  /\ run = "sync"
  /\ awaited = Servers
  /\ received = <<>>
  /\ result = Nil
  /\ start = [s \in Servers |-> "idle"]
  /\ startResult = [s \in Servers |-> Nil]
  /\ serve = [s \in Servers |-> "none"]
  /\ serveErr = [s \in Servers |-> Nil]
  /\ closed = {} /\ timedOut = {}
  /\ request = [q \in Request |-> Nil]
  /\ counters = [requests |-> 0, mutations |-> 0, bypasses |-> 0, errors |-> 0]
  /\ failures = 0 /\ stops = 0

Next ==
  /\ Up
  /\ \/ Run
     \/ Cancel
     \/ \E s \in Servers :
          Start(s) \/ Serve(s) \/ ServeClosed(s) \/ ServeFails(s) \/ Stop(s)
     \/ \E q \in Request :
          (\E class \in ClassesOf[q] : Accept(q, class)) \/ Write(q) \/ Count(q)

Spec == Init /\ [][Next]_vars

\* Every goroutine of the process runs on and time passes.  Nothing is assumed
\* of the handlers, of failures, or of signals.
Fairness ==
  /\ WF_vars(Up /\ Run)
  /\ \A s \in Servers : /\ WF_vars(Up /\ Start(s))
                        /\ WF_vars(Up /\ (Serve(s) \/ ServeClosed(s)))

FairSpec == Spec /\ Fairness

(***************************************************************************)
(* Properties.                                                             *)
(***************************************************************************)
\* What each variable holds; Run receives one result per server.
TypeOK ==
  /\ controller \in {"tsc", "jvm"}
  /\ {cancelled, runCancelled} \subseteq BOOLEAN
  /\ run \in {"sync", "select", "cancelled", "failed", "returned"}
  /\ awaited \subseteq Servers
  /\ received \in Seq(Results) /\ Len(received) + Cardinality(awaited) = 2
  /\ result \in {Nil} \cup Results
  /\ start \in [Servers -> {"idle", "listen", "select", "shutdown", "drain",
                            "drainFailed", "returned"}]
  /\ startResult \in [Servers -> {Nil} \cup Results]
  /\ serve \in [Servers -> {"none", "starting", "serving", "ended"}]
  /\ serveErr \in [Servers -> {Nil} \cup Results]
  /\ closed \subseteq Servers /\ timedOut \subseteq Servers
  /\ request \in [Request -> {Nil} \cup Handler]
  /\ counters \in [{"requests", "mutations", "bypasses", "errors"}
                     -> 0..Cardinality(Request)]
  /\ failures \in 0..MaxFailures
  /\ stops \in 0..MaxStops

Returned == run = "returned"
Stopped  == stops > 0

\* "the function does not return until the listeners are fully released":
\* when Run returns, no Start and no Serve goroutine is left, and no result
\* is left unread.
NothingLeftRunning ==
  Returned =>
    \/ \A s \in Servers : start[s] = "idle"
    \/ /\ \A s \in Servers : start[s] = "returned" /\ serve[s] \in {"none", "ended"}
       /\ \A s \in Servers : serveErr[s] = Nil
       /\ awaited = {}

Numbered(class) ==
  Cardinality({q \in Request : request[q] # Nil /\ request[q].class = class})

\* When Run returns, every request that was accepted has been answered and
\* counted, once and in its class, unless the shutdown of the webhook server
\* timed out, its Serve failed, or Stop was called beside Run.
RequestsDrained ==
  Returned /\ "webhook" \notin timedOut /\ ~Stopped /\ "webhook" \in closed =>
    /\ \A q \in Request : ~Active(q)
    /\ counters.requests = Cardinality({q \in Request : request[q] # Nil})
    /\ counters.mutations = Numbered("mutation")
    /\ counters.bypasses = Numbered("bypass")
    /\ counters.errors = Numbered("error")

\* Run returns nil only after a cancellation or Stop, never because a server
\* gave up; the JVM controller also reports an error met during shutdown.
FailureReported ==
  result = "ok" =>
    /\ cancelled \/ Stopped
    /\ controller = "jvm" => \A s \in Servers : startResult[s] = "ok"

\* A signal or the failure of either server ends the process, whatever the
\* handlers do.
Exits ==
  cancelled \/ (\E s \in Servers : startResult[s] # Nil) ~> Returned

(***************************************************************************)
(* Why they hold, whatever the order of the selects.                       *)
(***************************************************************************)
\* A server's goroutine, its channel and its shutdown, by where Start is.
ServerOK(s) ==
  /\ start[s] \in {"idle", "listen"} =>
       serve[s] = "none" /\ s \notin closed
  /\ start[s] \in {"select", "shutdown", "drain", "drainFailed"} =>
       serve[s] # "none"
  /\ start[s] \in {"shutdown", "drain", "drainFailed"} => s \in closed
  /\ start[s] = "drainFailed" => s \in timedOut
  /\ start[s] = "returned" => serve[s] \in {"none", "ended"}
  /\ startResult[s] # Nil <=> start[s] = "returned"
  /\ serveErr[s] # Nil <=> serve[s] = "ended" /\ start[s] # "returned"
  /\ "ok" \in {serveErr[s], startResult[s]} => s \in closed
  /\ s \in closed => Done \/ Stopped
  /\ s \in closed /\ ~Stopped =>
       start[s] \in {"shutdown", "drain", "drainFailed", "returned"}

\* Run received the result of every server it no longer awaits, once.
ReceivedOK ==
  \/ awaited = Servers /\ received = <<>>
  \/ \E s \in Servers : /\ awaited = Servers \ {s}
                        /\ received = <<startResult[s]>>
                        /\ start[s] = "returned"
  \/ \E s, o \in Servers : /\ s # o
                           /\ awaited = {}
                           /\ received = <<startResult[s], startResult[o]>>
                           /\ start[s] = "returned" /\ start[o] = "returned"

RunOK ==
  /\ run = "sync" => (\A s \in Servers : start[s] = "idle") /\ result = Nil
  /\ run \in {"select", "cancelled", "failed"} =>
       (\A s \in Servers : start[s] # "idle") /\ result = Nil
  /\ run \in {"sync", "select"} => awaited = Servers
  /\ run \in {"sync", "select", "cancelled"} => ~runCancelled
  /\ run = "cancelled" => cancelled
  \* the first result was not the consequence of another
  /\ run = "failed" =>
       awaited # Servers /\ (received[1] = "ok" => cancelled \/ Stopped)

Accepted        == {q \in Request : request[q] # Nil}
Finished(class) ==
  {q \in Accepted : request[q].at = "finished" /\ request[q].class = class}

CountersOK ==
  /\ counters.requests  = Cardinality(Accepted)
  /\ counters.mutations = Cardinality(Finished("mutation"))
  /\ counters.bypasses  = Cardinality(Finished("bypass"))
  /\ counters.errors    = Cardinality(Finished("error"))

\* Once a shutdown has seen the webhook server idle, it stays idle.
DrainedOK ==
  /\ "webhook" \in closed \ timedOut /\ ~Stopped
  /\ start["webhook"] \in {"drain", "returned"}
  => \A q \in Request : ~Active(q)

IInv ==
  /\ TypeOK
  /\ \A s \in Servers : ServerOK(s)
  /\ ReceivedOK /\ RunOK /\ CountersOK /\ DrainedOK
  /\ NothingLeftRunning /\ FailureReported
=============================================================================
