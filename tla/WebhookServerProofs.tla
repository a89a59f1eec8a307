------------------------ MODULE WebhookServerProofs -------------------------
(***************************************************************************)
(* Proofs about WebhookServer for every set of requests and every bound:   *)
(* the invariant IInv is inductive, so the types are kept, Run never       *)
(* leaves a goroutine behind, never swallows a failure, and never returns  *)
(* from a shutdown in time with a request unanswered or uncounted.         *)
(***************************************************************************)
EXTENDS WebhookServer, FiniteSetTheorems, SequenceTheorems,
        TLAPS

(***************************************************************************)
(* Lemmas about the data.                                                  *)
(***************************************************************************)
\* Nil is neither a result nor the record of a request.
LEMMA NilIsApart == Nil # "ok" /\ Nil # "error" /\ Nil \notin Handler
  BY NilAssumption DEF Results

\* There are two servers.
LEMMA TwoServers == IsFiniteSet(Servers) /\ Cardinality(Servers) = 2
  <1>1. IsFiniteSet({"health"}) /\ Cardinality({"health"}) = 1
    BY FS_Singleton
  <1>2. Servers = {"health"} \cup {"webhook"}
    BY DEF Servers
  <1>. QED
    BY <1>1, <1>2, FS_AddElement

\* A set of requests is finite and no larger than Request.
LEMMA FewRequests ==
  ASSUME NEW S \in SUBSET Request
  PROVE  IsFiniteSet(S) /\ Cardinality(S) \in 0..Cardinality(Request)
  <1>1. IsFiniteSet(S) /\ Cardinality(S) <= Cardinality(Request)
    BY ConstantsAssumption, FS_Subset
  <1>2. Cardinality(S) \in Nat /\ Cardinality(Request) \in Nat
    BY <1>1, ConstantsAssumption, FS_CardinalityType
  <1>. QED
    BY <1>1, <1>2

(***************************************************************************)
(* The initial states.                                                     *)
(***************************************************************************)
\* The process starts with nothing running and nothing counted.
LEMMA InitIInv == Init => IInv
  <1>. SUFFICES ASSUME Init
                PROVE  IInv
    OBVIOUS
  <1>1. TypeOK
    <2>1. received \in Seq(Results) /\ Len(received) + Cardinality(awaited) = 2
      BY TwoServers DEF Init
    <2>2. 0 \in 0..Cardinality(Request)
      BY ConstantsAssumption, FS_CardinalityType
    <2>3. counters \in [{"requests", "mutations", "bypasses", "errors"}
                          -> 0..Cardinality(Request)]
      BY <2>2 DEF Init
    <2>4. failures \in 0..MaxFailures /\ stops \in 0..MaxStops
      BY ConstantsAssumption DEF Init
    <2>5. /\ controller \in {"tsc", "jvm"} /\ {cancelled, runCancelled} \subseteq BOOLEAN
          /\ awaited \subseteq Servers
          /\ closed \subseteq Servers /\ timedOut \subseteq Servers
          /\ run = "sync" /\ result = Nil
      BY DEF Init
    <2>6. /\ start = [s \in Servers |-> "idle"]
          /\ startResult = [s \in Servers |-> Nil]
          /\ serve = [s \in Servers |-> "none"]
          /\ serveErr = [s \in Servers |-> Nil]
          /\ request = [q \in Request |-> Nil]
      BY DEF Init
    <2>. QED
      BY <2>1, <2>3, <2>4, <2>5, <2>6 DEF TypeOK
  <1>2. \A s \in Servers : ServerOK(s)
    BY NilIsApart DEF Init, ServerOK
  <1>3. ReceivedOK /\ RunOK
    BY DEF Init, ReceivedOK, RunOK
  <1>4. CountersOK
    <2>1. Accepted = {} /\ \A class \in Classes : Finished(class) = {}
      BY DEF Init, Accepted, Finished
    <2>2. Cardinality(Accepted) = 0
          /\ \A class \in Classes : Cardinality(Finished(class)) = 0
      BY <2>1, FS_EmptySet
    <2>. QED
      BY <2>2 DEF Init, CountersOK, Classes
  <1>5. DrainedOK /\ NothingLeftRunning /\ FailureReported
    BY NilIsApart DEF Init, DrainedOK, NothingLeftRunning, FailureReported,
                      Returned
  <1>. QED
    BY <1>1, <1>2, <1>3, <1>4, <1>5 DEF IInv

(***************************************************************************)
(* The steps of the servers.  They touch no variable of Run and no         *)
(* request, and Run has returned nothing yet.                              *)
(***************************************************************************)
Places == {"idle", "listen", "select", "shutdown", "drain", "drainFailed",
           "returned"}

ServerStep ==
  /\ Up
  /\ UNCHANGED <<process, runVars, reqVars>>
  /\ failures' \in 0..MaxFailures /\ stops' \in 0..MaxStops
  /\ stops <= stops'
  /\ \A s \in Servers : start[s] = "idle" <=> start'[s] = "idle"
  /\ \A s \in Servers : start[s] = "returned" =>
       start'[s] = "returned" /\ startResult'[s] = startResult[s]

\* While Run has not returned it has no result.
LEMMA NoResultYet == IInv /\ Up => result = Nil
  BY DEF IInv, TypeOK, RunOK, Up

\* A step of a server keeps the invariant when it keeps what is said of that
\* server's own state.
LEMMA ServerStepOK ==
  ASSUME IInv, ServerStep,
         start' \in [Servers -> Places],
         startResult' \in [Servers -> {Nil} \cup Results],
         serve' \in [Servers -> {"none", "starting", "serving", "ended"}],
         serveErr' \in [Servers -> {Nil} \cup Results],
         closed' \subseteq Servers, timedOut' \subseteq Servers,
         \A s \in Servers : ServerOK(s)',
         DrainedOK'
  PROVE  IInv'
  <1>1. /\ UNCHANGED <<process, runVars, reqVars>>
        /\ UNCHANGED <<controller, cancelled, runCancelled, run, awaited,
                       received, result, request, counters>>
    BY DEF ServerStep, process, runVars, reqVars
  <1>2. TypeOK'
    BY <1>1 DEF IInv, TypeOK, ServerStep, Places
  <1>3. ReceivedOK'
    BY <1>1 DEF IInv, ReceivedOK, ServerStep
  <1>4. stops > 0 => stops' > 0
    BY DEF IInv, TypeOK, ServerStep
  <1>5. RunOK'
    BY <1>1, <1>4 DEF IInv, RunOK, ServerStep, Stopped
  <1>6. CountersOK'
    BY <1>1 DEF IInv, CountersOK, Accepted, Finished
  <1>7. NothingLeftRunning' /\ FailureReported'
    BY <1>1, NoResultYet, NilIsApart
       DEF ServerStep, Up, NothingLeftRunning, Returned, FailureReported
  <1>. QED
    BY <1>2, <1>3, <1>5, <1>6, <1>7 DEF IInv

\* Listen starts the goroutine or fails.
LEMMA ListenOK ==
  ASSUME IInv, Up, NEW s \in Servers, Listen(s)
  PROVE  IInv'
  <1>. USE DEF Listen, Return, Failure, bounds, process, runVars, reqVars
  <1>1. failures' \in 0..MaxFailures /\ stops' \in 0..MaxStops /\ stops <= stops'
    BY ConstantsAssumption DEF IInv, TypeOK
  <1>2. ServerStep
    BY <1>1 DEF ServerStep, IInv, TypeOK, ServerOK
  <1>3. /\ start' \in [Servers -> Places]
        /\ startResult' \in [Servers -> {Nil} \cup Results]
        /\ serve' \in [Servers -> {"none", "starting", "serving", "ended"}]
        /\ serveErr' \in [Servers -> {Nil} \cup Results]
        /\ closed' \subseteq Servers /\ timedOut' \subseteq Servers
    BY DEF IInv, TypeOK, Results, Places
  <1>4. \A o \in Servers : ServerOK(o)'
    BY NilIsApart DEF IInv, TypeOK, ServerOK, Done, Stopped, Results
  <1>5. DrainedOK'
    BY DEF IInv, TypeOK, DrainedOK, ServerOK, Stopped, Active, Servers
  <1>. QED
    BY <1>2, <1>3, <1>4, <1>5, ServerStepOK

\* Serve begins, or finds its server shut down.
LEMMA ServeOK ==
  ASSUME IInv, Up, NEW s \in Servers, Serve(s)
  PROVE  IInv'
  <1>. USE DEF Serve, ServeEnds, bounds, process, runVars, reqVars
  <1>1. failures' \in 0..MaxFailures /\ stops' \in 0..MaxStops /\ stops <= stops'
    BY ConstantsAssumption DEF IInv, TypeOK
  <1>2. ServerStep
    BY <1>1 DEF ServerStep, IInv, TypeOK, ServerOK
  <1>3. /\ start' \in [Servers -> Places]
        /\ startResult' \in [Servers -> {Nil} \cup Results]
        /\ serve' \in [Servers -> {"none", "starting", "serving", "ended"}]
        /\ serveErr' \in [Servers -> {Nil} \cup Results]
        /\ closed' \subseteq Servers /\ timedOut' \subseteq Servers
    BY DEF IInv, TypeOK, Results, Places
  <1>4. \A o \in Servers : ServerOK(o)'
    BY NilIsApart DEF IInv, TypeOK, ServerOK, Done, Stopped, Results
  <1>5. DrainedOK'
    BY DEF IInv, TypeOK, DrainedOK, ServerOK, Stopped, Active, Servers
  <1>. QED
    BY <1>2, <1>3, <1>4, <1>5, ServerStepOK

\* Serve returns because its server was shut down.
LEMMA ServeClosedOK ==
  ASSUME IInv, Up, NEW s \in Servers, ServeClosed(s)
  PROVE  IInv'
  <1>. USE DEF ServeClosed, ServeEnds, bounds, process, runVars, reqVars
  <1>1. failures' \in 0..MaxFailures /\ stops' \in 0..MaxStops /\ stops <= stops'
    BY ConstantsAssumption DEF IInv, TypeOK
  <1>2. ServerStep
    BY <1>1 DEF ServerStep, IInv, TypeOK, ServerOK
  <1>3. /\ start' \in [Servers -> Places]
        /\ startResult' \in [Servers -> {Nil} \cup Results]
        /\ serve' \in [Servers -> {"none", "starting", "serving", "ended"}]
        /\ serveErr' \in [Servers -> {Nil} \cup Results]
        /\ closed' \subseteq Servers /\ timedOut' \subseteq Servers
    BY DEF IInv, TypeOK, Results, Places
  <1>4. \A o \in Servers : ServerOK(o)'
    BY NilIsApart DEF IInv, TypeOK, ServerOK, Done, Stopped, Results
  <1>5. DrainedOK'
    BY DEF IInv, TypeOK, DrainedOK, ServerOK, Stopped, Active, Servers
  <1>. QED
    BY <1>2, <1>3, <1>4, <1>5, ServerStepOK

\* Serve fails.
LEMMA ServeFailsOK ==
  ASSUME IInv, Up, NEW s \in Servers, ServeFails(s)
  PROVE  IInv'
  <1>. USE DEF ServeFails, ServeEnds, Failure, bounds, process, runVars, reqVars
  <1>1. failures' \in 0..MaxFailures /\ stops' \in 0..MaxStops /\ stops <= stops'
    BY ConstantsAssumption DEF IInv, TypeOK
  <1>2. ServerStep
    BY <1>1 DEF ServerStep, IInv, TypeOK, ServerOK
  <1>3. /\ start' \in [Servers -> Places]
        /\ startResult' \in [Servers -> {Nil} \cup Results]
        /\ serve' \in [Servers -> {"none", "starting", "serving", "ended"}]
        /\ serveErr' \in [Servers -> {Nil} \cup Results]
        /\ closed' \subseteq Servers /\ timedOut' \subseteq Servers
    BY DEF IInv, TypeOK, Results, Places
  <1>4. \A o \in Servers : ServerOK(o)'
    BY NilIsApart DEF IInv, TypeOK, ServerOK, Done, Stopped, Results
  <1>5. DrainedOK'
    BY DEF IInv, TypeOK, DrainedOK, ServerOK, Stopped, Active, Servers
  <1>. QED
    BY <1>2, <1>3, <1>4, <1>5, ServerStepOK

\* Start sees the context done and shuts its server down.
LEMMA BeginShutdownOK ==
  ASSUME IInv, Up, NEW s \in Servers, BeginShutdown(s)
  PROVE  IInv'
  <1>. USE DEF BeginShutdown, Done, bounds, process, runVars, reqVars
  <1>1. failures' \in 0..MaxFailures /\ stops' \in 0..MaxStops /\ stops <= stops'
    BY ConstantsAssumption DEF IInv, TypeOK
  <1>2. ServerStep
    BY <1>1 DEF ServerStep, IInv, TypeOK, ServerOK
  <1>3. /\ start' \in [Servers -> Places]
        /\ startResult' \in [Servers -> {Nil} \cup Results]
        /\ serve' \in [Servers -> {"none", "starting", "serving", "ended"}]
        /\ serveErr' \in [Servers -> {Nil} \cup Results]
        /\ closed' \subseteq Servers /\ timedOut' \subseteq Servers
    BY DEF IInv, TypeOK, Results, Places
  <1>4. \A o \in Servers : ServerOK(o)'
    BY NilIsApart DEF IInv, TypeOK, ServerOK, Done, Stopped, Results
  <1>5. DrainedOK'
    BY DEF IInv, TypeOK, DrainedOK, ServerOK, Stopped, Active, Servers
  <1>. QED
    BY <1>2, <1>3, <1>4, <1>5, ServerStepOK

\* Shutdown returns, with or without handlers left.
LEMMA EndShutdownOK ==
  ASSUME IInv, Up, NEW s \in Servers, EndShutdown(s)
  PROVE  IInv'
  <1>. USE DEF EndShutdown, Idle, bounds, process, runVars, reqVars
  <1>1. failures' \in 0..MaxFailures /\ stops' \in 0..MaxStops /\ stops <= stops'
    BY ConstantsAssumption DEF IInv, TypeOK
  <1>2. ServerStep
    BY <1>1 DEF ServerStep, IInv, TypeOK, ServerOK
  <1>3. /\ start' \in [Servers -> Places]
        /\ startResult' \in [Servers -> {Nil} \cup Results]
        /\ serve' \in [Servers -> {"none", "starting", "serving", "ended"}]
        /\ serveErr' \in [Servers -> {Nil} \cup Results]
        /\ closed' \subseteq Servers /\ timedOut' \subseteq Servers
    BY DEF IInv, TypeOK, Results, Places
  <1>4. \A o \in Servers : ServerOK(o)'
    BY NilIsApart DEF IInv, TypeOK, ServerOK, Done, Stopped, Results
  <1>5. DrainedOK'
    BY DEF IInv, TypeOK, DrainedOK, ServerOK, Stopped, Active, Servers
  <1>. QED
    BY <1>2, <1>3, <1>4, <1>5, ServerStepOK

\* Start takes what Serve left in the channel.
LEMMA DrainOK ==
  ASSUME IInv, Up, NEW s \in Servers, Drain(s)
  PROVE  IInv'
  <1>. USE DEF Drain, Return, ServeEnded, bounds, process, runVars, reqVars
  <1>1. failures' \in 0..MaxFailures /\ stops' \in 0..MaxStops /\ stops <= stops'
    BY ConstantsAssumption DEF IInv, TypeOK
  <1>2. ServerStep
    BY <1>1 DEF ServerStep, IInv, TypeOK, ServerOK
  <1>3. /\ start' \in [Servers -> Places]
        /\ startResult' \in [Servers -> {Nil} \cup Results]
        /\ serve' \in [Servers -> {"none", "starting", "serving", "ended"}]
        /\ serveErr' \in [Servers -> {Nil} \cup Results]
        /\ closed' \subseteq Servers /\ timedOut' \subseteq Servers
    BY DEF IInv, TypeOK, Results, Places
  <1>4. \A o \in Servers : ServerOK(o)'
    BY NilIsApart DEF IInv, TypeOK, ServerOK, Done, Stopped, Results
  <1>5. DrainedOK'
    BY DEF IInv, TypeOK, DrainedOK, ServerOK, Stopped, Active, Servers
  <1>. QED
    BY <1>2, <1>3, <1>4, <1>5, ServerStepOK

\* Start is told that Serve has returned.
LEMMA ServeReturnedOK ==
  ASSUME IInv, Up, NEW s \in Servers, ServeReturned(s)
  PROVE  IInv'
  <1>. USE DEF ServeReturned, Return, bounds, process, runVars, reqVars
  <1>1. failures' \in 0..MaxFailures /\ stops' \in 0..MaxStops /\ stops <= stops'
    BY ConstantsAssumption DEF IInv, TypeOK
  <1>2. ServerStep
    BY <1>1 DEF ServerStep, IInv, TypeOK, ServerOK
  <1>3. /\ start' \in [Servers -> Places]
        /\ startResult' \in [Servers -> {Nil} \cup Results]
        /\ serve' \in [Servers -> {"none", "starting", "serving", "ended"}]
        /\ serveErr' \in [Servers -> {Nil} \cup Results]
        /\ closed' \subseteq Servers /\ timedOut' \subseteq Servers
    BY DEF IInv, TypeOK, Results, Places
  <1>4. \A o \in Servers : ServerOK(o)'
    BY NilIsApart DEF IInv, TypeOK, ServerOK, Done, Stopped, Results
  <1>5. DrainedOK'
    BY DEF IInv, TypeOK, DrainedOK, ServerOK, Stopped, Active, Servers
  <1>. QED
    BY <1>2, <1>3, <1>4, <1>5, ServerStepOK

\* Stop shuts a server down beside Run.
LEMMA StopOK ==
  ASSUME IInv, Up, NEW s \in Servers, Stop(s)
  PROVE  IInv'
  <1>. USE DEF Stop, bounds, process, runVars, reqVars
  <1>1. failures' \in 0..MaxFailures /\ stops' \in 0..MaxStops /\ stops <= stops'
    BY ConstantsAssumption DEF IInv, TypeOK
  <1>2. ServerStep
    BY <1>1 DEF ServerStep, IInv, TypeOK, ServerOK
  <1>3. /\ start' \in [Servers -> Places]
        /\ startResult' \in [Servers -> {Nil} \cup Results]
        /\ serve' \in [Servers -> {"none", "starting", "serving", "ended"}]
        /\ serveErr' \in [Servers -> {Nil} \cup Results]
        /\ closed' \subseteq Servers /\ timedOut' \subseteq Servers
    BY DEF IInv, TypeOK, Results, Places
  <1>4. \A o \in Servers : ServerOK(o)'
    BY NilIsApart DEF IInv, TypeOK, ServerOK, Done, Stopped, Results
  <1>5. DrainedOK'
    BY DEF IInv, TypeOK, DrainedOK, ServerOK, Stopped, Active, Servers
  <1>. QED
    BY <1>2, <1>3, <1>4, <1>5, ServerStepOK

(***************************************************************************)
(* The steps of Run.  They touch no server that has been started, and no   *)
(* request.                                                                *)
(***************************************************************************)
\* Run starts both servers, or gives up because it is cancelled.
LEMMA WaitForCacheSyncOK ==
  ASSUME IInv, WaitForCacheSync
  PROVE  IInv'
  <1>. USE DEF WaitForCacheSync, process, reqVars, bounds
  <1>1. TypeOK'
    BY DEF IInv, TypeOK, Results
  <1>2. \A s \in Servers : ServerOK(s)'
    BY DEF IInv, TypeOK, RunOK, ServerOK, Done, Stopped
  <1>3. awaited = Servers /\ received = <<>>
    BY DEF IInv, ReceivedOK, RunOK
  <1>4. ReceivedOK' /\ RunOK'
    BY <1>3 DEF IInv, TypeOK, ReceivedOK, RunOK
  <1>5. CountersOK'
    BY DEF IInv, CountersOK, Accepted, Finished
  <1>6. DrainedOK' /\ NothingLeftRunning' /\ FailureReported'
    BY NilIsApart
       DEF IInv, TypeOK, RunOK, DrainedOK, NothingLeftRunning, FailureReported,
           Returned, Stopped, Servers
  <1>. QED
    BY <1>1, <1>2, <1>4, <1>5, <1>6 DEF IInv

\* A step of Run in which no server moves keeps the invariant when it keeps
\* what is said of Run's own state.
LEMMA RunStepOK ==
  ASSUME IInv, UNCHANGED <<process, srvVars, reqVars, bounds>>,
         runCancelled' \in BOOLEAN, runCancelled => runCancelled',
         TypeOK', ReceivedOK', RunOK', NothingLeftRunning', FailureReported'
  PROVE  IInv'
  <1>. USE DEF process, srvVars, reqVars, bounds
  <1>1. \A s \in Servers : ServerOK(s)'
    BY DEF IInv, ServerOK, Done, Stopped
  <1>2. CountersOK'
    BY DEF IInv, CountersOK, Accepted, Finished
  <1>3. DrainedOK'
    BY DEF IInv, DrainedOK, Active, Stopped
  <1>. QED
    BY <1>1, <1>2, <1>3 DEF IInv

\* Run sees the context cancelled.
LEMMA SeeCancelOK ==
  ASSUME IInv, SeeCancel
  PROVE  IInv'
  <1>. USE DEF SeeCancel, process, srvVars, reqVars, bounds
  <1>1. TypeOK'
    BY DEF IInv, TypeOK
  <1>2. ReceivedOK' /\ RunOK'
    BY DEF IInv, ReceivedOK, RunOK
  <1>3. NothingLeftRunning' /\ FailureReported'
    BY NilIsApart DEF IInv, RunOK, NothingLeftRunning, FailureReported, Returned
  <1>. QED
    BY <1>1, <1>2, <1>3, RunStepOK DEF IInv, TypeOK

\* What Append makes of no result and of one.
LEMMA Appended ==
  ASSUME NEW x \in Results, NEW y \in Results
  PROVE  Append(<<>>, x) = <<x>> /\ Append(<<x>>, y) = <<x, y>>
  <1>1. Append(<<>>, x) = <<x>>
    OBVIOUS
  <1>2. Append(<<x>>, y) = <<x, y>>
    <2>1. /\ Append(<<x>>, y) \in Seq(Results) /\ <<x, y>> \in Seq(Results)
          /\ Len(Append(<<x>>, y)) = 2 /\ Len(<<x, y>>) = 2
      OBVIOUS
    <2>2. \A i \in 1..2 : Append(<<x>>, y)[i] = <<x, y>>[i]
      OBVIOUS
    <2>. QED
      BY <2>1, <2>2, SeqEqual
  <1>. QED
    BY <1>1, <1>2

\* What is received is the result of a server not yet received, whose Start
\* has returned; it keeps the type of what was received.
LEMMA Received ==
  ASSUME IInv, NEW s \in Servers, Receive(s), UNCHANGED srvVars
  PROVE  /\ start[s] = "returned" /\ startResult[s] \in Results
         /\ received' \in Seq(Results)
         /\ Len(received') + Cardinality(awaited') = 2
         /\ awaited' \subseteq Servers /\ awaited' # Servers
         /\ ReceivedOK'
  <1>1. start[s] = "returned" /\ startResult[s] \in Results
    BY DEF IInv, TypeOK, ServerOK, Receive
  <1>2. /\ awaited \subseteq Servers /\ received \in Seq(Results)
        /\ Len(received) + Cardinality(awaited) = 2
    BY DEF IInv, TypeOK
  <1>3. IsFiniteSet(awaited) /\ Cardinality(awaited) \in Nat
    BY <1>2, TwoServers, FS_Subset, FS_CardinalityType
  <1>4. Cardinality(awaited') = Cardinality(awaited) - 1
    BY <1>3, FS_RemoveElement DEF Receive
  <1>5. received' \in Seq(Results) /\ Len(received') = Len(received) + 1
    BY <1>1, <1>2 DEF Receive
  <1>6. ReceivedOK'
    <2>. USE DEF Receive, srvVars
    <2>1. CASE awaited = Servers /\ received = <<>>
      BY <1>1, <2>1 DEF ReceivedOK
    <2>2. ASSUME NEW o \in Servers, awaited = Servers \ {o},
                 received = <<startResult[o]>>, start[o] = "returned"
          PROVE  ReceivedOK'
      <3>1. startResult[o] \in Results
        BY <2>2 DEF IInv, TypeOK, ServerOK
      <3>2. o # s /\ awaited' = {}
        BY <2>2 DEF Servers
      <3>3. received' = <<startResult[o], startResult[s]>>
        BY <1>1, <2>2, <3>1, Appended DEF Receive
      <3>. QED
        BY <1>1, <2>2, <3>2, <3>3 DEF ReceivedOK
    <2>3. awaited # {}
      OBVIOUS
    <2>. QED
      BY <2>1, <2>2, <2>3 DEF IInv, ReceivedOK
  <1>. QED
    BY <1>1, <1>2, <1>3, <1>4, <1>5, <1>6 DEF Receive

\* Run learns that a server has returned and cancels the other.
LEMMA SeeServerOK ==
  ASSUME IInv, NEW s \in Servers, SeeServer(s)
  PROVE  IInv'
  <1>. USE DEF SeeServer, process, reqVars, bounds
  <1>1. UNCHANGED srvVars /\ Receive(s)
    OBVIOUS
  <1>2. TypeOK'
    BY <1>1, Received DEF IInv, TypeOK, srvVars
  <1>3. received' = <<startResult[s]>>
    <2>1. received = <<>>
      BY DEF IInv, ReceivedOK, RunOK
    <2>. QED
      BY <1>1, <2>1, Received, Appended DEF Receive
  <1>4. startResult[s] = "ok" => cancelled \/ Stopped
    BY DEF IInv, RunOK, ServerOK, Done
  <1>5. RunOK'
    BY <1>1, <1>3, <1>4, Received DEF IInv, RunOK, srvVars, Stopped
  <1>6. NothingLeftRunning' /\ FailureReported'
    BY NilIsApart DEF IInv, RunOK, NothingLeftRunning, FailureReported, Returned
  <1>. QED
    BY <1>1, <1>2, <1>5, <1>6, Received, RunStepOK

\* Run waits for a server's result.
LEMMA AwaitOK ==
  ASSUME IInv, NEW s \in Servers, Await(s)
  PROVE  IInv'
  <1>. USE DEF Await, process, reqVars, bounds
  <1>1. UNCHANGED srvVars /\ Receive(s)
    OBVIOUS
  <1>2. TypeOK'
    BY <1>1, Received DEF IInv, TypeOK, srvVars
  <1>3. awaited # Servers => received'[1] = received[1]
    BY DEF IInv, ReceivedOK, Receive
  <1>4. RunOK'
    BY <1>1, <1>3, Received DEF IInv, RunOK, srvVars, Stopped
  <1>5. NothingLeftRunning' /\ FailureReported'
    BY NilIsApart DEF IInv, RunOK, NothingLeftRunning, FailureReported, Returned
  <1>. QED
    BY <1>1, <1>2, <1>4, <1>5, Received, RunStepOK DEF IInv, TypeOK

\* Run returns when it has both results.
LEMMA RunReturnsOK ==
  ASSUME IInv, RunReturns
  PROVE  IInv'
  <1>. USE DEF RunReturns, process, srvVars, reqVars, bounds
  <1>1. PICK s \in Servers, o \in Servers :
          /\ s # o /\ received = <<startResult[s], startResult[o]>>
          /\ start[s] = "returned" /\ start[o] = "returned"
    BY DEF IInv, ReceivedOK, Servers
  <1>2. Servers = {s, o}
    BY <1>1 DEF Servers
  <1>3. startResult[s] \in Results /\ startResult[o] \in Results
    BY <1>1 DEF IInv, TypeOK, ServerOK
  <1>4. ResultOf(run) \in Results
    BY <1>1, <1>3 DEF ResultOf, Results
  <1>5. TypeOK'
    BY <1>4 DEF IInv, TypeOK
  <1>6. ReceivedOK' /\ RunOK'
    BY DEF IInv, ReceivedOK, RunOK
  <1>7. NothingLeftRunning'
    BY <1>1, <1>2 DEF IInv, TypeOK, ServerOK, NothingLeftRunning, Returned
  <1>8. ASSUME result' = "ok"
        PROVE  /\ cancelled \/ Stopped
               /\ controller = "jvm" => \A u \in Servers : startResult[u] = "ok"
    <2>1. CASE controller = "jvm"
      <3>1. startResult[s] = "ok" /\ startResult[o] = "ok"
        BY <1>1, <1>3, <1>8, <2>1 DEF ResultOf, Results
      <3>2. cancelled \/ Stopped
        BY <1>1, <3>1 DEF IInv, RunOK
      <3>. QED
        BY <1>2, <3>1, <3>2
    <2>2. CASE controller = "tsc"
      BY <1>8, <2>2 DEF IInv, RunOK, ResultOf
    <2>. QED
      BY <2>1, <2>2 DEF IInv, TypeOK
  <1>9. FailureReported'
    BY <1>8 DEF FailureReported, Stopped
  <1>. QED
    BY <1>5, <1>6, <1>7, <1>9, RunStepOK DEF IInv, TypeOK

\* A signal cancels the context.
LEMMA CancelOK ==
  ASSUME IInv, Up, Cancel
  PROVE  IInv'
  <1>. USE DEF Cancel, runVars, srvVars, reqVars, bounds
  <1>1. TypeOK'
    BY DEF IInv, TypeOK
  <1>2. \A s \in Servers : ServerOK(s)'
    BY DEF IInv, ServerOK, Done, Stopped
  <1>3. ReceivedOK' /\ RunOK' /\ CountersOK' /\ DrainedOK'
    BY DEF IInv, ReceivedOK, RunOK, CountersOK, Accepted, Finished, DrainedOK,
           Active, Stopped
  <1>4. NothingLeftRunning' /\ FailureReported'
    BY DEF IInv, NothingLeftRunning, FailureReported, Returned
  <1>. QED
    BY <1>1, <1>2, <1>3, <1>4 DEF IInv

(***************************************************************************)
(* The steps of the requests.  They touch neither Run nor a server.        *)
(***************************************************************************)
\* A step of a request keeps the invariant when it keeps the counters right
\* and revives no request.
LEMMA RequestStepOK ==
  ASSUME IInv, UNCHANGED <<process, runVars, srvVars, bounds>>,
         request' \in [Request -> {Nil} \cup Handler],
         DOMAIN counters' = {"requests", "mutations", "bypasses", "errors"},
         counters' = [c \in DOMAIN counters' |-> counters'[c]],
         CountersOK', DrainedOK'
  PROVE  IInv'
  <1>. USE DEF process, runVars, srvVars, bounds
  <1>1. /\ Accepted' \in SUBSET Request
        /\ \A class \in Classes : Finished(class)' \in SUBSET Request
    BY DEF Accepted, Finished
  <1>2. \A c \in DOMAIN counters' : counters'[c] \in 0..Cardinality(Request)
    BY <1>1, FewRequests DEF CountersOK, Classes
  <1>3. TypeOK'
    BY <1>2 DEF IInv, TypeOK
  <1>4. \A s \in Servers : ServerOK(s)'
    BY DEF IInv, ServerOK, Done, Stopped
  <1>5. ReceivedOK' /\ RunOK' /\ NothingLeftRunning' /\ FailureReported'
    BY DEF IInv, ReceivedOK, RunOK, Stopped, NothingLeftRunning,
           FailureReported, Returned
  <1>. QED
    BY <1>3, <1>4, <1>5 DEF IInv

\* The counters are a function on the four names.
LEMMA CountersTyped ==
  ASSUME IInv
  PROVE  /\ DOMAIN counters = {"requests", "mutations", "bypasses", "errors"}
         /\ counters = [c \in DOMAIN counters |-> counters[c]]
         /\ \A c \in DOMAIN counters : counters[c] \in Nat
  <1>1. Cardinality(Request) \in Nat
    BY ConstantsAssumption, FS_CardinalityType
  <1>. QED
    BY <1>1 DEF IInv, TypeOK

\* A request is accepted: one more is counted.
LEMMA AcceptOK ==
  ASSUME IInv, NEW q \in Request, NEW class \in ClassesOf[q], Accept(q, class)
  PROVE  IInv'
  <1>. USE DEF Accept, process, runVars, srvVars, bounds
  <1>1. class \in Classes
    BY ConstantsAssumption
  <1>2. request' \in [Request -> {Nil} \cup Handler]
    BY <1>1 DEF IInv, TypeOK, Handler
  <1>3. request'[q] # Nil /\ request'[q].at = "handler"
        /\ \A o \in Request : o # q => request'[o] = request[o]
    BY <1>1, NilIsApart DEF IInv, TypeOK, Handler
  <1>4. Accepted' = Accepted \cup {q} /\ q \notin Accepted
    BY <1>3 DEF Accepted
  <1>5. IsFiniteSet(Accepted)
    BY FewRequests DEF Accepted
  <1>6. Cardinality(Accepted') = Cardinality(Accepted) + 1
    BY <1>4, <1>5, FS_AddElement
  <1>7. \A c \in Classes : Finished(c)' = Finished(c)
    BY <1>3, <1>4 DEF Finished, Accepted
  <1>8. CountersOK'
    BY <1>6, <1>7, CountersTyped DEF IInv, CountersOK, Classes
  <1>9. DrainedOK'
    BY DEF DrainedOK
  <1>. QED
    BY <1>2, <1>8, <1>9, CountersTyped, RequestStepOK

\* The handler has answered.
LEMMA WriteOK ==
  ASSUME IInv, NEW q \in Request, Write(q)
  PROVE  IInv'
  <1>. USE DEF Write, process, runVars, srvVars, bounds
  <1>1. request[q] \in Handler
    BY DEF IInv, TypeOK
  <1>2. request'[q] = [request[q] EXCEPT !.at = "written"]
    BY DEF IInv, TypeOK
  <1>3. /\ request'[q] \in Handler
        /\ request'[q].at = "written" /\ request'[q].class = request[q].class
    BY <1>1, <1>2 DEF Handler
  <1>4. request' \in [Request -> {Nil} \cup Handler]
        /\ \A o \in Request : o # q => request'[o] = request[o]
    BY <1>3 DEF IInv, TypeOK
  <1>5. Accepted' = Accepted
    BY <1>3, <1>4, NilIsApart DEF Accepted
  <1>6. \A c \in Classes : Finished(c)' = Finished(c)
    BY <1>3, <1>4, <1>5 DEF Finished, Accepted
  <1>7. CountersOK'
    BY <1>5, <1>6 DEF IInv, CountersOK, Classes
  <1>8. DrainedOK'
    BY <1>1 DEF IInv, DrainedOK, Active, Stopped
  <1>. QED
    BY <1>4, <1>7, <1>8, CountersTyped, RequestStepOK

\* instrument counts the answer in its class.
LEMMA CountOK ==
  ASSUME IInv, NEW q \in Request, Count(q)
  PROVE  IInv'
  <1>. USE DEF Count, process, runVars, srvVars, bounds
  <1>. DEFINE class == request[q].class
  <1>1. request[q] \in Handler /\ class \in Classes
    BY DEF IInv, TypeOK, Handler
  <1>2. request'[q] = [request[q] EXCEPT !.at = "finished"]
    BY DEF IInv, TypeOK
  <1>3. /\ request'[q] \in Handler
        /\ request'[q].at = "finished" /\ request'[q].class = class
    BY <1>1, <1>2 DEF Handler
  <1>4. request' \in [Request -> {Nil} \cup Handler]
        /\ \A o \in Request : o # q => request'[o] = request[o]
    BY <1>3 DEF IInv, TypeOK
  <1>5. Accepted' = Accepted
    BY <1>3, <1>4, NilIsApart DEF Accepted
  <1>6. Finished(class)' = Finished(class) \cup {q} /\ q \notin Finished(class)
    BY <1>3, <1>4, <1>5, NilIsApart DEF Finished, Accepted
  <1>7. \A c \in Classes \ {class} : Finished(c)' = Finished(c)
    BY <1>3, <1>4, <1>5 DEF Finished, Accepted
  <1>8. Cardinality(Finished(class)') = Cardinality(Finished(class)) + 1
    <2>1. IsFiniteSet(Finished(class))
      BY FewRequests DEF Finished, Accepted
    <2>. QED
      BY <1>6, <2>1, FS_AddElement
  <1>9. CountersOK'
    BY <1>1, <1>5, <1>7, <1>8, CountersTyped DEF IInv, CountersOK, Classes
  <1>10. /\ DOMAIN counters' = {"requests", "mutations", "bypasses", "errors"}
         /\ counters' = [c \in DOMAIN counters' |-> counters'[c]]
    BY CountersTyped
  <1>11. DrainedOK'
    BY <1>1 DEF IInv, DrainedOK, Active, Stopped
  <1>. QED
    BY <1>4, <1>9, <1>10, <1>11, RequestStepOK

(***************************************************************************)
(* The theorems.                                                           *)
(***************************************************************************)
\* Every step keeps the invariant.
LEMMA NextOK == IInv /\ [Next]_vars => IInv'
  <1>. SUFFICES ASSUME IInv, [Next]_vars
                PROVE  IInv'
    OBVIOUS
  <1>1. CASE UNCHANGED vars
    <2>1. /\ UNCHANGED <<controller, cancelled, runCancelled, run, awaited,
                         received, result>>
          /\ UNCHANGED <<start, startResult, serve, serveErr, closed, timedOut>>
          /\ UNCHANGED <<request, counters, failures, stops>>
      BY <1>1 DEF vars, process, runVars, srvVars, reqVars, bounds
    <2>2. TypeOK' /\ ReceivedOK' /\ RunOK'
      BY <2>1 DEF IInv, TypeOK, ReceivedOK, RunOK, Stopped
    <2>3. \A s \in Servers : ServerOK(s)'
      BY <2>1 DEF IInv, ServerOK, Done, Stopped
    <2>4. CountersOK' /\ DrainedOK' /\ NothingLeftRunning' /\ FailureReported'
      BY <2>1 DEF IInv, CountersOK, Accepted, Finished, DrainedOK, Active,
                  Stopped, NothingLeftRunning, FailureReported, Returned
    <2>. QED
      BY <2>2, <2>3, <2>4 DEF IInv
  <1>2. CASE Up /\ Run
    BY <1>2, WaitForCacheSyncOK, SeeCancelOK, RunReturnsOK, SeeServerOK, AwaitOK
       DEF Run
  <1>3. CASE Up /\ Cancel
    BY <1>3, CancelOK
  <1>4. ASSUME Up, NEW s \in Servers,
               Start(s) \/ Serve(s) \/ ServeClosed(s) \/ ServeFails(s) \/ Stop(s)
        PROVE  IInv'
    BY <1>4, ListenOK, BeginShutdownOK, EndShutdownOK, DrainOK, ServeReturnedOK,
       ServeOK, ServeClosedOK, ServeFailsOK, StopOK
       DEF Start
  <1>5. ASSUME Up, NEW q \in Request,
               (\E class \in ClassesOf[q] : Accept(q, class)) \/ Write(q) \/ Count(q)
        PROVE  IInv'
    BY <1>5, AcceptOK, WriteOK, CountOK
  <1>. QED
    BY <1>1, <1>2, <1>3, <1>4, <1>5 DEF Next

\* The invariant holds in every reachable state.
THEOREM Invariance == Spec => []IInv
  BY InitIInv, NextOK, PTL DEF Spec

\* The variables keep their types, and Run receives one result per server.
THEOREM TypeCorrect == Spec => []TypeOK
  <1>1. IInv => TypeOK
    BY DEF IInv
  <1>. QED
    BY Invariance, <1>1, PTL

\* When Run returns, no Start and no Serve goroutine is left, and no result
\* is left unread.
THEOREM NoneLeftRunning == Spec => []NothingLeftRunning
  <1>1. IInv => NothingLeftRunning
    BY DEF IInv
  <1>. QED
    BY Invariance, <1>1, PTL

\* Run returns nil only after a cancellation or Stop, and the JVM controller's
\* only if neither server met an error.
THEOREM NoFailureSwallowed == Spec => []FailureReported
  <1>1. IInv => FailureReported
    BY DEF IInv
  <1>. QED
    BY Invariance, <1>1, PTL

\* After a shutdown in time every accepted request has been answered, and
\* counted once in its class.
THEOREM AllDrained == Spec => []RequestsDrained
  <1>1. IInv => RequestsDrained
    <2>. SUFFICES ASSUME IInv, Returned, "webhook" \notin timedOut, ~Stopped,
                         "webhook" \in closed
                  PROVE  RequestsDrained
      BY DEF RequestsDrained
    <2>1. \A q \in Request : ~Active(q)
      BY DEF IInv, DrainedOK, ServerOK, NothingLeftRunning, Servers
    <2>2. \A class \in Classes :
            Finished(class) = {q \in Request :
                                 request[q] # Nil /\ request[q].class = class}
      BY <2>1 DEF Finished, Accepted, Active
    <2>. QED
      BY <2>1, <2>2 DEF IInv, CountersOK, Accepted, Numbered, RequestsDrained,
                        Classes
  <1>. QED
    BY Invariance, <1>1, PTL
=============================================================================
