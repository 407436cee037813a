-------------------------- MODULE ServiceLifecycle --------------------------
(***************************************************************************)
(* Service.Run (app.go): build, preStart, the errgroup goroutines it       *)
(* launches (one per server, the service loader, the registry heartbeat),  *)
(* the stop goroutine with preStop, and the Start/Stop of the http, grpc   *)
(* and cli transports.  The registry is etcd as registry/etcd/etcd.go uses *)
(* it: a key, put with or without a lease.                                 *)
(*                                                                         *)
(* Every goroutine takes its own steps; a request to etcd is applied at    *)
(* some point after it was sent, even after its caller has given up.       *)
(***************************************************************************)
EXTENDS Naturals, Sequences

CONSTANT
    Options   \* the options services are built with

ASSUME LifecycleAssumption ==
    Options \subseteq [servers : Seq({"http", "grpc", "cli"}),
                      loader : BOOLEAN, registry : BOOLEAN]

VARIABLES
    opts,        \* what New was given: the transports in order, and whether
                 \* there is a service loader and a registry
    main,        \* where Run is
    outcome,     \* what Run returned
    listener,    \* the listener of each server
    srv,         \* the goroutine in each server's Start; "failed" = Start
                 \* returned an error without reaching its accept loop
    halted,      \* Stop took effect: Shutdown / GracefulStop called, exitFlag set
    stopper,     \* the goroutine that calls preStop
    stopIdx,     \* the server preStop stops next
    stopErr,     \* preStop's err: what the latest Stop or Deregister returned
    parentDone,  \* opts.ctx is cancelled
    sigDone,     \* a signal arrived, or Run's deferred cancelFunc ran
    groupErr,    \* an errgroup goroutine returned an error
    errVar,      \* preStart's named result, shared with the registry goroutine
    loader,      \* the goroutine in serviceLoader.Run
    reg,         \* the registry goroutine
    pending,     \* a Put on its way to etcd
    entry,       \* the service's key in etcd
    lease        \* the lease etcdRegistry.leaseID names

Kind == opts.servers
HasLoader == opts.loader
HasRegistry == opts.registry
Servers == DOMAIN Kind

\* Every index a server can have.
Slots == UNION {DOMAIN o.servers : o \in Options}

runVars == <<main, outcome, stopper, stopIdx, stopErr>>
ctxVars == <<parentDone, sigDone, groupErr, errVar>>
serverVars == <<listener, srv, halted>>
etcdVars == <<pending, entry, lease>>
vars == <<opts, runVars, ctxVars, serverVars, loader, reg, etcdVars>>

Init ==
    /\ opts \in Options
    /\ main = "build"
    /\ outcome = "none"
    /\ listener = [i \in Servers |-> "none"]
    /\ srv = [i \in Servers |-> "none"]
    /\ halted = [i \in Servers |-> FALSE]
    /\ stopper = "none"
    /\ stopIdx = 1
    /\ stopErr = FALSE
    /\ parentDone = FALSE
    /\ sigDone = FALSE
    /\ groupErr = FALSE
    /\ errVar = FALSE
    /\ loader = "none"
    /\ reg = "none"
    /\ pending = "none"
    /\ entry = "absent"
    /\ lease = "none"

Alive == main # "crashed"

\* errCtx derives from the signal context, which derives from s.ctx.
CtxDone == parentDone \/ sigDone
ErrCtxDone == CtxDone \/ groupErr

-----------------------------------------------------------------------------
(* Run and preStart.                                                       *)

\* Run returns v; its deferred cancelFunc cancels the signal context.
Return(v) == main' = "returned" /\ outcome' = v /\ sigDone' = TRUE

\* build: Endpoint() of the http and grpc servers binds their listeners, in
\* order; the cli server has no Endpoint.
Binds(i) == Kind[i] \in {"http", "grpc"}

Build ==
    /\ main = "build"
    /\ main' = "prestart"
    /\ listener' = [i \in Servers |-> IF Binds(i) THEN "bound" ELSE "none"]
    /\ UNCHANGED <<opts, outcome, stopper, stopIdx, stopErr, ctxVars, srv,
                   halted, loader, reg, etcdVars>>

BuildFails ==
    /\ main = "build"
    /\ \E k \in Servers :
         /\ Binds(k)
         /\ listener' = [i \in Servers |->
                           IF Binds(i) /\ i < k THEN "bound" ELSE "none"]
    /\ Return("error")
    /\ UNCHANGED <<opts, stopper, stopIdx, stopErr, parentDone, groupErr,
                   errVar, srv, halted, loader, reg, etcdVars>>

\* preStart before any goroutine: injection, scope.Init or loader.Init fails,
\* or an injected variable is unused.
PreStartFails ==
    /\ main = "prestart"
    /\ Return("error")
    /\ UNCHANGED <<opts, stopper, stopIdx, stopErr, parentDone, groupErr,
                   errVar, serverVars, loader, reg, etcdVars>>

\* preStart launches the goroutines; the registry's begins with a Register
\* that carries no TTL, so the Put has no lease.
Launch ==
    /\ main = "prestart"
    /\ main' = "launched"
    /\ srv' = [i \in Servers |-> "launched"]
    /\ loader' = IF HasLoader THEN "running" ELSE "none"
    /\ reg' = IF HasRegistry THEN "registering" ELSE "none"
    /\ pending' = IF HasRegistry THEN "plain" ELSE "none"
    /\ UNCHANGED <<opts, outcome, stopper, stopIdx, stopErr, ctxVars,
                   listener, halted, entry, lease>>

\* preStart's bare return reads err, which the registry goroutine may have
\* assigned; Run goes on to spawn the stop goroutine only when it is nil.
PreStartReturns ==
    /\ main = "launched"
    /\ IF errVar
       THEN Return("error") /\ UNCHANGED stopper
       ELSE /\ main' = "waiting" /\ stopper' = "waiting"
            /\ UNCHANGED <<outcome, sigDone>>
    /\ UNCHANGED <<opts, stopIdx, stopErr, parentDone, groupErr, errVar,
                   serverVars, loader, reg, etcdVars>>

\* errGroup.Wait: every goroutine has returned.
AllReturned ==
    /\ \A i \in Servers : srv[i] \in {"returned", "failed"}
    /\ loader # "running"
    /\ reg \in {"none", "returned"}
    /\ stopper = "done"

RunReturns ==
    /\ main = "waiting"
    /\ AllReturned
    /\ Return(IF groupErr THEN "error" ELSE "nil")
    /\ UNCHANGED <<opts, stopper, stopIdx, stopErr, parentDone, groupErr,
                   errVar, serverVars, loader, reg, etcdVars>>

-----------------------------------------------------------------------------
(* The stop goroutine: preStop.                                            *)

\* Mutant of StopperWakes: it waits for the signal context, not for errCtx.
StopperWakesOnSignal ==
    /\ Alive
    /\ stopper = "waiting"
    /\ CtxDone
    /\ stopper' = "stopping"
    /\ UNCHANGED <<opts, main, outcome, stopIdx, stopErr, ctxVars, serverVars,
                   loader, reg, etcdVars>>

\* preStop is entered once errCtx is done.
StopperWakes ==
    /\ Alive
    /\ stopper = "waiting"
    /\ ErrCtxDone
    /\ stopper' = "stopping"
    /\ UNCHANGED <<opts, main, outcome, stopIdx, stopErr, ctxVars, serverVars,
                   loader, reg, etcdVars>>

\* Mutant of NextServer: the index is not advanced past the last server.
NextServerWraps(i) == IF i + 1 \in Servers THEN i + 1 ELSE 0

\* The loop over opts.servers.
NextServer(i) == i + 1

\* Does Stop of server i find something to stop?  http: s.serve is set by
\* Start, before that Stop returns nil.  grpc: the server exists since New.
\* cli: exitFlag is set in any case.
StopReaches(i) == Kind[i] = "http" => srv[i] \notin {"none", "launched"}

\* Server.Stop(ctx).  Shutdown and GracefulStop close the listener of a
\* server that serves; cli closes the listener it has.  Stop may report the
\* stop deadline; the listener is closed by then.
StopServer ==
    LET i == stopIdx IN
    /\ Alive
    /\ stopper = "stopping"
    /\ i \in Servers
    /\ stopIdx' = NextServer(i)
    /\ IF StopReaches(i)
       THEN /\ halted' = [halted EXCEPT ![i] = TRUE]
            /\ listener' = IF srv[i] = "serving" \/ Kind[i] = "cli"
                           THEN [listener EXCEPT ![i] = IF @ = "bound" THEN "closed" ELSE @]
                           ELSE listener
            /\ stopErr' \in BOOLEAN
       ELSE /\ stopErr' = FALSE
            /\ UNCHANGED <<halted, listener>>
    /\ UNCHANGED <<opts, main, outcome, stopper, ctxVars, srv, loader, reg,
                   etcdVars>>

\* Deregister: the Delete runs under the stop context, a child of s.ctx, and
\* its error is dropped.  Under a cancelled parent it is never sent.
Deregister ==
    /\ Alive
    /\ stopper = "stopping"
    /\ stopIdx \notin Servers
    /\ HasRegistry
    /\ stopper' = "done"
    /\ stopErr' = FALSE
    /\ \/ ~parentDone /\ entry' = "absent"
       \/ UNCHANGED entry
    /\ UNCHANGED <<opts, main, outcome, stopIdx, ctxVars, serverVars, loader,
                   reg, pending, lease>>

\* Without a registry preStop returns the last Stop's error to the group.
PreStopReturns ==
    /\ Alive
    /\ stopper = "stopping"
    /\ stopIdx \notin Servers
    /\ ~HasRegistry
    /\ stopper' = "done"
    /\ groupErr' = (groupErr \/ stopErr)
    /\ UNCHANGED <<opts, main, outcome, stopIdx, stopErr, parentDone, sigDone,
                   errVar, serverVars, loader, reg, etcdVars>>

-----------------------------------------------------------------------------
(* The servers' goroutines.                                                *)

\* The accept loop of server i is over and Start returns err.
Exit(i, err) ==
    /\ srv' = [srv EXCEPT ![i] = "returned"]
    /\ groupErr' = (groupErr \/ err)

\* http.Start assigns s.serve.
HttpBuild(i) ==
    /\ Alive
    /\ Kind[i] = "http"
    /\ srv[i] = "launched"
    /\ srv' = [srv EXCEPT ![i] = "built"]
    /\ UNCHANGED <<opts, runVars, ctxVars, listener, halted, loader, reg,
                   etcdVars>>

\* Mutant of ServeAfterStop: the listener is left to its owner.
ServeAfterStopKeepsListener(i) == UNCHANGED listener

\* Serve on a stopped server closes the listener it was given.
ServeAfterStop(i) == listener' = [listener EXCEPT ![i] = "closed"]

\* http.Server.Serve: after Shutdown it returns ErrServerClosed, which Start
\* turns into nil.
HttpServe(i) ==
    /\ Alive
    /\ Kind[i] = "http"
    /\ srv[i] = "built"
    /\ IF halted[i]
       THEN Exit(i, FALSE) /\ ServeAfterStop(i)
       ELSE srv' = [srv EXCEPT ![i] = "serving"] /\ UNCHANGED <<groupErr, listener>>
    /\ UNCHANGED <<opts, runVars, parentDone, sigDone, errVar, halted, loader,
                   reg, etcdVars>>

\* grpc.Server.Serve: after GracefulStop it returns ErrServerStopped.
GrpcServe(i) ==
    /\ Alive
    /\ Kind[i] = "grpc"
    /\ srv[i] = "launched"
    /\ IF halted[i]
       THEN Exit(i, TRUE) /\ ServeAfterStop(i)
       ELSE srv' = [srv EXCEPT ![i] = "serving"] /\ UNCHANGED <<groupErr, listener>>
    /\ UNCHANGED <<opts, runVars, parentDone, sigDone, errVar, halted, loader,
                   reg, etcdVars>>

\* Start gives up before it serves: http on a pprof listener it cannot bind or
\* a certificate it cannot load, cli on its own listener.  A listener that is
\* already bound stays so.
StartFails(i) ==
    /\ Alive
    /\ \/ Kind[i] = "http" /\ srv[i] = "built"
       \/ Kind[i] = "cli" /\ srv[i] = "launched"
    /\ srv' = [srv EXCEPT ![i] = "failed"]
    /\ groupErr' = TRUE
    /\ UNCHANGED <<opts, runVars, parentDone, sigDone, errVar, listener,
                   halted, loader, reg, etcdVars>>

\* cli.Start binds its listener and accepts.
CliListen(i) ==
    /\ Alive
    /\ Kind[i] = "cli"
    /\ srv[i] = "launched"
    /\ srv' = [srv EXCEPT ![i] = "serving"]
    /\ listener' = [listener EXCEPT ![i] = "bound"]
    /\ UNCHANGED <<opts, runVars, ctxVars, halted, loader, reg, etcdVars>>

\* The accept loop ends because the listener was closed by Stop: nil.
ServeEnds(i) ==
    /\ Alive
    /\ srv[i] = "serving"
    /\ halted[i]
    /\ listener[i] = "closed"
    /\ Exit(i, FALSE)
    /\ UNCHANGED <<opts, runVars, parentDone, sigDone, errVar, listener,
                   halted, loader, reg, etcdVars>>

\* The accept loop fails by itself; net/http and grpc close the listener.
ServeFails(i) ==
    /\ Alive
    /\ srv[i] = "serving"
    /\ ~halted[i]
    /\ Exit(i, TRUE)
    /\ listener' = IF Kind[i] = "cli" THEN listener
                   ELSE [listener EXCEPT ![i] = "closed"]
    /\ UNCHANGED <<opts, runVars, parentDone, sigDone, errVar, halted, loader,
                   reg, etcdVars>>

\* serviceLoader.Run(ctx), application code: returns by itself, with or
\* without an error, and does return once its context is done.
LoaderReturns ==
    /\ Alive
    /\ loader = "running"
    /\ loader' = "returned"
    /\ groupErr' \in {groupErr, TRUE}
    /\ UNCHANGED <<opts, runVars, parentDone, sigDone, errVar, serverVars,
                   reg, etcdVars>>

-----------------------------------------------------------------------------
(* The registry goroutine and etcd.                                        *)

\* The first Register succeeded: the loop starts.
Registered ==
    /\ Alive
    /\ reg = "registering"
    /\ pending = "none"
    /\ reg' = "ticking"
    /\ errVar' = FALSE
    /\ UNCHANGED <<opts, runVars, parentDone, sigDone, groupErr, serverVars,
                   loader, etcdVars>>

\* The first Register failed or timed out: err is assigned and returned to
\* the group.  The Put may be lost, or still be applied later.
RegisterFails ==
    /\ Alive
    /\ reg = "registering"
    /\ reg' = "returned"
    /\ errVar' = TRUE
    /\ groupErr' = TRUE
    /\ pending' \in {pending, "none"}
    /\ UNCHANGED <<opts, runVars, parentDone, sigDone, serverVars, loader,
                   entry, lease>>

\* Mutant of BeatPut: the heartbeat forgets its TTL.
BeatPutPlain == "plain"

\* A heartbeat carries the TTL, so the Put it sends is bound to a lease.
BeatPut == "leased"

\* A heartbeat is due: with a live lease, KeepAliveOnce and nothing else, its
\* error logged; otherwise Grant and Put.  Under a cancelled context nothing is
\* sent and the error only logged.
Heartbeat ==
    /\ Alive
    /\ reg = "ticking"
    /\ \/ ErrCtxDone /\ errVar' = TRUE /\ UNCHANGED <<reg, pending>>
       \/ /\ ~ErrCtxDone
          /\ lease = "alive"
          /\ errVar' \in BOOLEAN
          /\ UNCHANGED <<reg, pending>>
       \/ /\ ~ErrCtxDone
          /\ lease # "alive"
          /\ reg' = "beating"
          /\ pending' = BeatPut
          /\ UNCHANGED errVar
    /\ UNCHANGED <<opts, runVars, parentDone, sigDone, groupErr, serverVars,
                   loader, entry, lease>>

\* The heartbeat's Put is acknowledged: e.leaseID = lgr.ID.
BeatAcked ==
    /\ Alive
    /\ reg = "beating"
    /\ pending = "none"
    /\ reg' = "ticking"
    /\ errVar' = FALSE
    /\ lease' = "alive"
    /\ UNCHANGED <<opts, runVars, parentDone, sigDone, groupErr, serverVars,
                   loader, pending, entry>>

\* The heartbeat fails or its context ends: logged, leaseID as it was.
BeatFails ==
    /\ Alive
    /\ reg = "beating"
    /\ reg' = "ticking"
    /\ errVar' = TRUE
    /\ pending' \in {pending, "none"}
    /\ UNCHANGED <<opts, runVars, parentDone, sigDone, groupErr, serverVars,
                   loader, entry, lease>>

\* The loop sees ctx.Done.
HeartbeatStops ==
    /\ Alive
    /\ reg = "ticking"
    /\ ErrCtxDone
    /\ reg' = "returned"
    /\ UNCHANGED <<opts, runVars, ctxVars, serverVars, loader, etcdVars>>

\* etcd applies the Put it was sent.
ApplyPut ==
    /\ pending # "none"
    /\ entry' = pending
    /\ pending' = "none"
    /\ UNCHANGED <<opts, runVars, ctxVars, serverVars, loader, reg, lease>>

\* etcd lets a lease run out: the key bound to it goes with it.
LeaseExpires ==
    /\ entry = "leased" \/ lease = "alive"
    /\ entry' = IF entry = "leased" THEN "absent" ELSE entry
    /\ lease' = IF lease = "alive" THEN "expired" ELSE lease
    /\ UNCHANGED <<opts, runVars, ctxVars, serverVars, loader, reg, pending>>

-----------------------------------------------------------------------------
(* The environment.                                                        *)

\* SIGTERM, SIGINT or SIGQUIT; signal.NotifyContext is set up before preStart.
Signal ==
    /\ main \in {"prestart", "launched", "waiting"}
    /\ ~sigDone
    /\ sigDone' = TRUE
    /\ UNCHANGED <<opts, runVars, parentDone, groupErr, errVar, serverVars,
                   loader, reg, etcdVars>>

ParentCancelled ==
    /\ main \in {"prestart", "launched", "waiting"}
    /\ ~parentDone
    /\ parentDone' = TRUE
    /\ UNCHANGED <<opts, runVars, sigDone, groupErr, errVar, serverVars,
                   loader, reg, etcdVars>>

\* The process is killed.
Crash ==
    /\ main \in {"launched", "waiting"}
    /\ main' = "crashed"
    /\ UNCHANGED <<opts, outcome, stopper, stopIdx, stopErr, ctxVars,
                   serverVars, loader, reg, etcdVars>>

Run == Build \/ BuildFails \/ PreStartFails \/ Launch \/ PreStartReturns \/ RunReturns
Stopping == StopperWakes \/ StopServer \/ Deregister \/ PreStopReturns
Serving(i) ==
    /\ i \in Servers
    /\ HttpBuild(i) \/ HttpServe(i) \/ GrpcServe(i) \/ CliListen(i) \/ ServeEnds(i)
Registering == Registered \/ RegisterFails \/ BeatAcked \/ BeatFails

Next ==
    \/ Run
    \/ Stopping
    \/ \E i \in Servers : Serving(i) \/ StartFails(i) \/ ServeFails(i)
    \/ LoaderReturns
    \/ Registering \/ Heartbeat \/ HeartbeatStops
    \/ ApplyPut \/ LeaseExpires
    \/ Signal \/ ParentCancelled \/ Crash

Dead == main \in {"returned", "crashed"}

\* The Go scheduler runs every goroutine that can run; a select with a ready
\* ctx.Done case cannot pick the ticker forever; the loader obeys its context;
\* a call to etcd ends (by its deadline at the latest); a lease nobody keeps
\* alive runs out.
Fairness ==
    /\ WF_vars(Run)
    /\ WF_vars(Stopping)
    /\ \A i \in Slots : WF_vars(Serving(i))
    /\ WF_vars(LoaderReturns /\ ErrCtxDone)
    /\ WF_vars(Registering)
    /\ SF_vars(HeartbeatStops)
    /\ WF_vars(ApplyPut)
    /\ WF_vars(LeaseExpires /\ Dead)

Spec == Init /\ [][Next]_vars /\ Fairness

-----------------------------------------------------------------------------
(* Properties.                                                             *)

\* The variables range over the states of the goroutines and of etcd.
TypeOK ==
    /\ opts \in Options
    /\ main \in {"build", "prestart", "launched", "waiting", "returned", "crashed"}
    /\ outcome \in {"none", "nil", "error"}
    /\ listener \in [Servers -> {"none", "bound", "closed"}]
    /\ srv \in [Servers -> {"none", "launched", "built", "serving", "returned", "failed"}]
    /\ halted \in [Servers -> BOOLEAN]
    /\ stopper \in {"none", "waiting", "stopping", "done"}
    /\ stopIdx \in 1..(Len(Kind) + 1)
    /\ {stopErr, parentDone, sigDone, groupErr, errVar} \subseteq BOOLEAN
    /\ loader \in {"none", "running", "returned"}
    /\ reg \in {"none", "registering", "ticking", "beating", "returned"}
    /\ pending \in {"none", "plain", "leased"}
    /\ entry \in {"absent", "plain", "leased"}
    /\ lease \in {"none", "alive", "expired"}

\* When Run returns through errGroup.Wait, no server is left holding its
\* listener, whatever the order of Start, Stop and spontaneous failures was;
\* only a Start that gave up before serving leaves the one it was given.
ListenersReleased ==
    main = "returned" /\ stopper = "done" =>
        \A i \in Servers : listener[i] = "bound" => srv[i] = "failed"

\* Once a heartbeat has been acknowledged the entry in etcd is never one that
\* outlives the process: it is bound to a lease or gone.
LeasedOnceAcked == lease # "none" => entry # "plain"

\* A registration whose heartbeat was acknowledged vanishes for good after
\* Run returns or the process dies, late Puts and failed Deletes included.
RegistrationVanishes == (Dead /\ lease # "none") ~> [](entry = "absent")

\* Shutdown completes: if every server has reached its accept loop (or has
\* failed) before preStop begins, a signal, a cancelled parent or a failing
\* goroutine makes Run return, unless the process is killed first.
ServingStopReturns ==
    (/\ ErrCtxDone
     /\ stopper \in {"none", "waiting"}
     /\ \A i \in Servers : srv[i] \in {"serving", "returned", "failed"}) ~> Dead

\* A service with grpc servers only never hangs: grpc's Stop is remembered by
\* the server it stops, so even a Stop that overtakes Start makes Run return.
GrpcRunReturns ==
    (ErrCtxDone /\ \A i \in Servers : Kind[i] = "grpc") ~> Dead

\* app_test.go on the error path of Run: "graceful shutdown must still run and
\* Run must return instead of hanging".  Here: Run returns once a goroutine
\* of the group has failed or a stop was requested.
RunNeverHangs == ErrCtxDone ~> Dead

\* The other half of that sentence: if Run launched the servers, preStop has
\* run by the time Run returns.
ShutdownBeforeReturn ==
    main = "returned" /\ (\E i \in Servers : srv[i] # "none") => stopper = "done"

=============================================================================
