---------------------------- MODULE ServerProofs ----------------------------
(***************************************************************************)
(* Proofs about ServiceLifecycle, for any set of options: any number of    *)
(* servers of any kind in any order, with or without loader and registry.  *)
(* Then about RequestPipeline, what the HTTP and gRPC servers answer: for  *)
(* any chain of middlewares, any handler and any errors.                   *)
(***************************************************************************)
EXTENDS ServiceLifecycle, RequestPipeline, WellFoundedInduction, TLAPS

-----------------------------------------------------------------------------
(* Types.                                                                  *)

\* The options never change, and servers are indexed from 1.
LEMMA ServersFixed ==
    ASSUME TypeOK, [Next]_vars
    PROVE  /\ opts' = opts /\ Servers' = Servers /\ Kind' = Kind
           /\ HasLoader' = HasLoader /\ HasRegistry' = HasRegistry
           /\ Len(Kind) \in Nat /\ Servers = 1..Len(Kind)
           /\ \A i \in Servers : Kind[i] \in {"http", "grpc", "cli"}
<1>1. opts' = opts
  BY DEF Next, Run, Stopping, Serving, Registering, vars, Build, BuildFails, PreStartFails,
         Launch, PreStartReturns, RunReturns, StopperWakes, StopServer, Deregister,
         PreStopReturns, HttpBuild, HttpServe, GrpcServe, StartFails, CliListen, ServeEnds,
         ServeFails, LoaderReturns, Registered, RegisterFails, Heartbeat, BeatAcked, BeatFails,
         HeartbeatStops, ApplyPut, LeaseExpires, Signal, ParentCancelled, Crash
<1>2. Kind \in Seq({"http", "grpc", "cli"})
  BY LifecycleAssumption DEF LifecycleAssumption, TypeOK, Kind
<1>3. QED
  BY <1>1, <1>2 DEF Servers, Kind, HasLoader, HasRegistry

\* The flags the goroutines share.
FlagsOK == {stopErr, parentDone, sigDone, groupErr, errVar} \subseteq BOOLEAN

\* The goroutines start where Init puts them.
LEMMA InitType == Init => TypeOK
<1> SUFFICES ASSUME Init PROVE TypeOK
  OBVIOUS
<1>1. Kind \in Seq({"http", "grpc", "cli"})
  BY LifecycleAssumption DEF LifecycleAssumption, Init, Kind
<1>2. Len(Kind) \in Nat
  BY <1>1
<1>3. stopIdx \in 1..(Len(Kind) + 1)
  BY <1>2 DEF Init
<1>4. FlagsOK
  BY DEF Init, FlagsOK
<1>5. QED
  BY <1>3, <1>4 DEF Init, TypeOK, FlagsOK

\* Every step of every goroutine, of etcd and of the environment keeps the types.
LEMMA NextType == TypeOK /\ [Next]_vars => TypeOK'
<1> SUFFICES ASSUME TypeOK, [Next]_vars PROVE TypeOK'
  OBVIOUS
<1> USE DEF runVars, ctxVars, serverVars, etcdVars
<1>0. /\ opts' = opts /\ Servers' = Servers /\ Kind' = Kind
      /\ Len(Kind) \in Nat /\ Servers = 1..Len(Kind)
  BY ServersFixed
<1>00. FlagsOK
  BY DEF TypeOK, FlagsOK
<1>1. CASE Build
  BY <1>0, <1>1 DEF Build, TypeOK
<1>2. CASE BuildFails
  BY <1>0, <1>2 DEF BuildFails, Return, TypeOK
<1>3. CASE PreStartFails
  BY <1>0, <1>3 DEF PreStartFails, Return, TypeOK
<1>4. CASE Launch
  BY <1>0, <1>4 DEF Launch, TypeOK
<1>5. CASE PreStartReturns
  BY <1>0, <1>5 DEF PreStartReturns, Return, TypeOK
<1>6. CASE RunReturns
  BY <1>0, <1>6 DEF RunReturns, Return, TypeOK
<1>7. CASE StopperWakes
  BY <1>0, <1>7 DEF StopperWakes, TypeOK
<1>8. CASE StopServer
  <2>1. FlagsOK'
    BY <1>00, <1>8 DEF StopServer, FlagsOK
  <2>2. stopIdx' \in 1..(Len(Kind) + 1)
    BY <1>0, <1>8 DEF StopServer, NextServer, TypeOK
  <2>3. halted' \in [Servers -> BOOLEAN]
    BY <1>8 DEF StopServer, TypeOK
  <2>4. listener' \in [Servers -> {"none", "bound", "closed"}]
    BY <1>8 DEF StopServer, TypeOK
  <2>5. QED
    BY <1>0, <1>8, <2>1, <2>2, <2>3, <2>4 DEF StopServer, TypeOK, FlagsOK
<1>9. CASE Deregister
  <2>1. FlagsOK'
    BY <1>00, <1>9 DEF Deregister, FlagsOK
  <2>2. entry' \in {"absent", "plain", "leased"}
    BY <1>9 DEF Deregister, TypeOK
  <2>3. QED
    BY <1>0, <1>9, <2>1, <2>2 DEF Deregister, TypeOK, FlagsOK
<1>10. CASE PreStopReturns
  BY <1>0, <1>10 DEF PreStopReturns, TypeOK
<1>11. ASSUME NEW i \in Servers, Serving(i) PROVE TypeOK'
  BY <1>0, <1>11, SMTT(30) DEF Serving, HttpBuild, HttpServe, GrpcServe, CliListen, ServeEnds, Exit,
                     ServeAfterStop, TypeOK
<1>12. ASSUME NEW i \in Servers, StartFails(i) \/ ServeFails(i) PROVE TypeOK'
  <2>1. FlagsOK'
    BY <1>00, <1>12 DEF StartFails, ServeFails, Exit, FlagsOK
  <2>2. /\ srv' \in [Servers -> {"none", "launched", "built", "serving", "returned", "failed"}]
        /\ listener' \in [Servers -> {"none", "bound", "closed"}]
    BY <1>12 DEF StartFails, ServeFails, Exit, TypeOK
  <2>3. UNCHANGED <<main, outcome, stopper, stopIdx, halted, loader, reg, pending, entry, lease>>
    BY <1>12 DEF StartFails, ServeFails
  <2>4. QED
    BY <1>0, <2>1, <2>2, <2>3 DEF TypeOK, FlagsOK
<1>13. CASE LoaderReturns
  <2>1. FlagsOK'
    BY <1>00, <1>13 DEF LoaderReturns, FlagsOK
  <2>2. QED
    BY <1>0, <1>13, <2>1 DEF LoaderReturns, TypeOK, FlagsOK
<1>14. CASE Registering
  BY <1>0, <1>14 DEF Registering, Registered, RegisterFails, BeatAcked, BeatFails, TypeOK
<1>15. CASE Heartbeat \/ HeartbeatStops
  BY <1>0, <1>15 DEF Heartbeat, HeartbeatStops, BeatPut, TypeOK
<1>16. CASE ApplyPut \/ LeaseExpires
  BY <1>0, <1>16 DEF ApplyPut, LeaseExpires, TypeOK
<1>17. CASE Signal \/ ParentCancelled \/ Crash
  BY <1>0, <1>17 DEF Signal, ParentCancelled, Crash, TypeOK
<1>18. CASE UNCHANGED vars
  BY <1>0, <1>18 DEF vars, TypeOK
<1>19. QED
  BY <1>1, <1>2, <1>3, <1>4, <1>5, <1>6, <1>7, <1>8, <1>9, <1>10, <1>11, <1>12, <1>13,
     <1>14, <1>15, <1>16, <1>17, <1>18 DEF Next, Run, Stopping

\* In every service, whatever it is built with, the variables of Run and of its
\* goroutines keep their types.
THEOREM LifecycleTypeTheorem == Spec => []TypeOK
BY InitType, NextType, PTL DEF Spec

-----------------------------------------------------------------------------
(* The listeners.                                                          *)

\* Server i has no listener to give back, or Stop will still reach it.
Released(i) ==
    srv[i] = "returned" /\ listener[i] = "bound" => Kind[i] = "cli" /\ stopIdx <= i

\* cli's Stop sets exitFlag whatever state the server is in.
CliHalted(i) == Kind[i] = "cli" /\ i < stopIdx => halted[i]

\* How far Run, the stop goroutine and the servers can be from one another.
ProgressInv ==
    /\ main \in {"build", "prestart"} => \A i \in Servers : srv[i] = "none"
    /\ main \in {"build", "prestart", "launched"} => stopper = "none"
    /\ main = "returned" => stopper \in {"none", "done"}
    /\ stopper = "done" => stopIdx \notin Servers
    /\ main = "returned" /\ stopper = "done" =>
         \A i \in Servers : srv[i] \in {"returned", "failed"}

ListenerInv == ProgressInv /\ \A i \in Servers : Released(i) /\ CliHalted(i)

\* Nothing is launched, stopped or bound to begin with.
LEMMA InitListener == Init => ListenerInv
<1> SUFFICES ASSUME Init PROVE ListenerInv
  OBVIOUS
<1>1. ProgressInv
  BY DEF Init, ProgressInv
<1>2. \A i \in Servers : Released(i) /\ CliHalted(i)
  <2> TAKE i \in Servers
  <2>1. Kind \in Seq({"http", "grpc", "cli"})
    BY LifecycleAssumption DEF LifecycleAssumption, Init, Kind
  <2>2. i >= 1 /\ i \in Nat
    BY <2>1 DEF Servers
  <2>3. QED
    BY <2>2 DEF Init, Released, CliHalted
<1>3. QED
  BY <1>1, <1>2 DEF ListenerInv

\* A step that leaves the servers, the stop goroutine and Run alone keeps it.
LEMMA ElsewhereListener ==
    ASSUME TypeOK, ListenerInv, [Next]_vars,
           UNCHANGED <<main, stopper, stopIdx, listener, srv, halted>>
    PROVE  ListenerInv'
<1>1. Servers' = Servers /\ Kind' = Kind
  BY ServersFixed
<1>2. QED
  BY <1>1 DEF ListenerInv, ProgressInv, Released, CliHalted

\* Stop before, during or after Start, a Serve that fails by itself, a Start that
\* gives up: no order leaves a returned server with a listener Stop has passed by.
LEMMA NextListener == TypeOK /\ ListenerInv /\ [Next]_vars => ListenerInv'
<1> SUFFICES ASSUME TypeOK, ListenerInv, [Next]_vars PROVE ListenerInv'
  OBVIOUS
<1> USE DEF runVars, ctxVars, serverVars, etcdVars
<1>0. /\ Servers' = Servers /\ Kind' = Kind
      /\ Len(Kind) \in Nat /\ Servers = 1..Len(Kind)
      /\ \A i \in Servers : Kind[i] \in {"http", "grpc", "cli"}
  BY ServersFixed
<1>00. /\ ProgressInv /\ \A i \in Servers : Released(i) /\ CliHalted(i)
       /\ stopIdx \in Nat /\ DOMAIN listener = Servers /\ DOMAIN srv = Servers
       /\ DOMAIN halted = Servers
  BY <1>0 DEF ListenerInv, TypeOK
<1>1. CASE Build \/ BuildFails
  <2>1. main = "build" /\ UNCHANGED <<stopper, stopIdx, srv, halted>>
           /\ main' \in {"prestart", "returned"}
    BY <1>1 DEF Build, BuildFails, Return
  <2>2. ProgressInv'
    BY <1>0, <1>00, <2>1 DEF ProgressInv
  <2>3. \A i \in Servers : (Released(i) /\ CliHalted(i))'
    BY <1>0, <1>00, <2>1 DEF ProgressInv, Released, CliHalted
  <2>4. QED
    BY <1>0, <2>2, <2>3 DEF ListenerInv
<1>2. CASE PreStartFails \/ PreStartReturns
  <2>1. UNCHANGED <<listener, srv, halted, stopIdx>>
    BY <1>2 DEF PreStartFails, PreStartReturns
  <2>2. ProgressInv'
    BY <1>0, <1>00, <1>2 DEF PreStartFails, PreStartReturns, Return, ProgressInv
  <2>3. \A i \in Servers : (Released(i) /\ CliHalted(i))'
    BY <1>0, <1>00, <2>1 DEF Released, CliHalted
  <2>4. QED
    BY <1>0, <2>2, <2>3 DEF ListenerInv
<1>3. CASE Launch
  <2>1. ProgressInv'
    BY <1>0, <1>00, <1>3 DEF Launch, ProgressInv
  <2>2. \A i \in Servers : (Released(i) /\ CliHalted(i))'
    BY <1>0, <1>00, <1>3 DEF Launch, Released, CliHalted
  <2>3. QED
    BY <1>0, <2>1, <2>2 DEF ListenerInv
<1>4. CASE RunReturns
  <2>1. ProgressInv'
    BY <1>0, <1>00, <1>4 DEF RunReturns, AllReturned, Return, ProgressInv
  <2>2. \A i \in Servers : (Released(i) /\ CliHalted(i))'
    BY <1>0, <1>00, <1>4 DEF RunReturns, Released, CliHalted
  <2>3. QED
    BY <1>0, <2>1, <2>2 DEF ListenerInv
<1>5. CASE StopperWakes \/ Deregister \/ PreStopReturns
  <2>1. UNCHANGED <<main, listener, srv, halted, stopIdx>>
    BY <1>5 DEF StopperWakes, Deregister, PreStopReturns
  <2>2. ProgressInv'
    BY <1>0, <1>00, <1>5, <2>1 DEF StopperWakes, Deregister, PreStopReturns, ProgressInv
  <2>3. \A i \in Servers : (Released(i) /\ CliHalted(i))'
    BY <1>0, <1>00, <2>1 DEF Released, CliHalted
  <2>4. QED
    BY <1>0, <2>2, <2>3 DEF ListenerInv
<1>6. CASE StopServer
  <2>1. /\ stopper = "stopping" /\ stopIdx \in Servers /\ stopIdx' = stopIdx + 1
        /\ UNCHANGED <<main, stopper, srv>>
    BY <1>6 DEF StopServer, NextServer
  <2>2. ProgressInv'
    BY <1>0, <1>00, <2>1 DEF ProgressInv
  <2>3. \A i \in Servers : i # stopIdx => listener'[i] = listener[i] /\ halted'[i] = halted[i]
    BY <1>00, <1>6 DEF StopServer
  <2>4. Kind[stopIdx] = "cli" => halted'[stopIdx] /\ listener'[stopIdx] # "bound"
    BY <1>00, <1>6 DEF StopServer, StopReaches
  <2>5. listener'[stopIdx] = "bound" => listener[stopIdx] = "bound"
    BY <1>00, <1>6 DEF StopServer
  <2>6. \A i \in Servers : (Released(i) /\ CliHalted(i))'
    BY <1>0, <1>00, <2>1, <2>3, <2>4, <2>5 DEF Released, CliHalted
  <2>7. QED
    BY <1>0, <2>2, <2>6 DEF ListenerInv
<1>7. ASSUME NEW i \in Servers, Serving(i) \/ StartFails(i) \/ ServeFails(i) PROVE ListenerInv'
  <2>1. /\ UNCHANGED <<main, stopper, stopIdx, halted>>
        /\ srv[i] \in {"launched", "built", "serving"}
        /\ \A k \in Servers : k # i => listener'[k] = listener[k] /\ srv'[k] = srv[k]
    BY <1>00, <1>7 DEF Serving, HttpBuild, HttpServe, GrpcServe, CliListen, ServeEnds, StartFails,
                ServeFails, Exit, ServeAfterStop
  <2>2. srv'[i] = "returned" /\ listener'[i] = "bound" => Kind[i] = "cli" /\ ~halted[i]
    BY <1>0, <1>00, <1>7 DEF Serving, HttpBuild, HttpServe, GrpcServe, CliListen, ServeEnds, StartFails,
                ServeFails, Exit, ServeAfterStop
  <2>3. ProgressInv'
    BY <1>0, <1>00, <2>1 DEF ProgressInv
  <2>4. \A k \in Servers : (Released(k) /\ CliHalted(k))'
    BY <1>0, <1>00, <2>1, <2>2 DEF Released, CliHalted
  <2>5. QED
    BY <1>0, <2>3, <2>4 DEF ListenerInv
<1>8. CASE LoaderReturns \/ Registering \/ Heartbeat \/ HeartbeatStops
  BY <1>8, ElsewhereListener DEF LoaderReturns, Registering, Registered, RegisterFails, BeatAcked, BeatFails,
                Heartbeat, HeartbeatStops
<1>9. CASE ApplyPut \/ LeaseExpires \/ Signal \/ ParentCancelled \/ UNCHANGED vars
  BY <1>9, ElsewhereListener DEF ApplyPut, LeaseExpires, Signal, ParentCancelled, vars
<1>10. CASE Crash
  <2>1. ProgressInv'
    BY <1>0, <1>00, <1>10 DEF Crash, ProgressInv
  <2>2. \A i \in Servers : (Released(i) /\ CliHalted(i))'
    BY <1>0, <1>00, <1>10 DEF Crash, Released, CliHalted
  <2>3. QED
    BY <1>0, <2>1, <2>2 DEF ListenerInv
<1>11. QED
  BY <1>1, <1>2, <1>3, <1>4, <1>5, <1>6, <1>7, <1>8, <1>9, <1>10 DEF Next, Run, Stopping

\* Run's errGroup.Wait releases the listeners: for any servers in any order, once
\* Run has returned through it only a Start that gave up before serving still holds
\* the listener build bound for it.
THEOREM ListenersTheorem == Spec => []ListenersReleased
<1>1. TypeOK /\ ListenerInv => ListenersReleased
  <2> SUFFICES ASSUME TypeOK, ListenerInv, main = "returned", stopper = "done",
                      NEW i \in Servers, listener[i] = "bound", srv[i] # "failed"
               PROVE  FALSE
    BY DEF ListenersReleased
  <2>1. Kind \in Seq({"http", "grpc", "cli"})
    BY LifecycleAssumption DEF LifecycleAssumption, TypeOK, Kind
  <2>2. Servers = 1..Len(Kind) /\ Len(Kind) \in Nat /\ stopIdx \in 1..(Len(Kind) + 1)
    BY <2>1 DEF Servers, TypeOK
  <2>3. srv[i] = "returned" /\ stopIdx \notin Servers /\ stopIdx <= i
    BY DEF ListenerInv, ProgressInv, Released
  <2>4. QED
    BY <2>2, <2>3
<1>2. QED
  BY <1>1, InitType, NextType, InitListener, NextListener, PTL DEF Spec

-----------------------------------------------------------------------------
(* The registration.                                                       *)

\* The first Register's Put carries no lease, and no lease is known while it may
\* still be applied; a heartbeat is acknowledged only after its own Put.
LeaseInv ==
    /\ main \in {"build", "prestart"} => reg = "none" /\ lease = "none"
    /\ pending = "plain" => reg \in {"registering", "returned"} /\ lease = "none"
    /\ reg = "beating" /\ pending = "none" => entry # "plain"
    /\ LeasedOnceAcked

\* Register, the heartbeats, etcd's late Puts and expiring leases keep it.
LEMMA NextLease == TypeOK /\ LeaseInv /\ [Next]_vars => LeaseInv'
<1> SUFFICES ASSUME TypeOK, LeaseInv, [Next]_vars PROVE LeaseInv'
  OBVIOUS
<1> USE DEF runVars, ctxVars, serverVars, etcdVars, LeaseInv, LeasedOnceAcked
<1>1. CASE Build \/ BuildFails \/ PreStartFails \/ PreStartReturns \/ RunReturns \/ Crash
  BY <1>1 DEF Build, BuildFails, PreStartFails, PreStartReturns, RunReturns, Crash, Return
<1>2. CASE Launch
  BY <1>2 DEF Launch
<1>3. CASE Stopping
  BY <1>3 DEF Stopping, StopperWakes, StopServer, Deregister, PreStopReturns
<1>4. ASSUME NEW i \in Servers, Serving(i) \/ StartFails(i) \/ ServeFails(i)
      PROVE  UNCHANGED <<main, reg, etcdVars>>
  BY <1>4 DEF Serving, HttpBuild, HttpServe, GrpcServe, CliListen, ServeEnds, StartFails,
              ServeFails
<1>5. CASE LoaderReturns \/ Signal \/ ParentCancelled \/ UNCHANGED vars
  BY <1>5 DEF LoaderReturns, Signal, ParentCancelled, vars
<1>6. CASE Registering
  BY <1>6 DEF Registering, Registered, RegisterFails, BeatAcked, BeatFails, TypeOK
<1>7. CASE Heartbeat
  BY <1>7 DEF Heartbeat, BeatPut
<1>8. CASE HeartbeatStops
  BY <1>8 DEF HeartbeatStops
<1>9. CASE ApplyPut \/ LeaseExpires
  BY <1>9 DEF ApplyPut, LeaseExpires, TypeOK
<1>10. QED
  BY <1>1, <1>2, <1>3, <1>4, <1>5, <1>6, <1>7, <1>8, <1>9 DEF Next, Run

\* The registry goroutine: once a heartbeat was acknowledged, no late Put of the
\* first, lease-less Register brings back an entry that outlives the process.
THEOREM LeaseTheorem == Spec => []LeasedOnceAcked
<1>1. Init => LeaseInv
  BY DEF Init, LeaseInv, LeasedOnceAcked
<1>2. LeaseInv => LeasedOnceAcked
  BY DEF LeaseInv
<1>3. QED
  BY <1>1, <1>2, InitType, NextType, NextLease, PTL DEF Spec

-----------------------------------------------------------------------------
(* The request pipeline: the chain of middlewares.                         *)

\* A set that holds 0, and n + 1 whenever it holds an n below top, holds every
\* number up to top.
LEMMA Climb ==
    ASSUME NEW top \in Nat, NEW G, 0 \in G, \A n \in 0..top : n \in G /\ n # top => n + 1 \in G
    PROVE  \A n \in 0..top : n \in G
<1>. DEFINE T == {n \in 0..top : n \notin G}
<1>1. SUFFICES ASSUME T # {} PROVE FALSE
      OBVIOUS
<1>2. T \subseteq Nat
      OBVIOUS
<1>. HIDE DEF T
<1>3. PICK x \in T : \A y \in T : ~(<<y, x>> \in OpToRel(<, Nat))
      BY <1>1, <1>2, NatLessThanWellFounded, WFMin
<1>4. \A y \in T : <<y, x>> \in OpToRel(<, Nat) <=> y < x
      BY <1>2 DEF OpToRel
<1>5. \A y \in T : ~(y < x)
      BY <1>3, <1>4, Zenon
<1>6. x \in 0..top /\ x \notin G
      BY DEF T
<1>7. x # 0
      BY <1>6
<1>8. x - 1 \in 0..top /\ x - 1 # top /\ x - 1 < x /\ (x - 1) + 1 = x
      BY <1>6, <1>7
<1>9. x - 1 \notin G
      BY <1>6, <1>8
<1>. QED  BY <1>5, <1>8, <1>9 DEF T

\* A request's state has these fields.
Shape(st) == st = [passed |-> st.passed, written |-> st.written, err |-> st.err, panic |-> st.panic,
                   ran |-> st.ran, origin |-> st.origin, credentials |-> st.credentials]

\* What the middlewares from the k-th on make of nx and e, the state and the
\* error of the transport's handler: if all of them call next, of nx, else of
\* the state st before; a panic, or the error of the first that does not
\* forward the one it got.
OutcomeFrom(x, st, nx, e, k, r) ==
    LET last == Len(x.chain)
        base == IF \A j \in k..last : x.chain[j].calls THEN nx ELSE st
        panics == \E i \in k..last : x.chain[i].panics /\ \A j \in k..(i - 1) : x.chain[j].calls
    IN  /\ r = [st |-> r.st, err |-> r.err]
        /\ (base.panic \/ panics) => r.st \in {base, [base EXCEPT !.panic = TRUE]} /\ r.st.panic = TRUE
        /\ ~(base.panic \/ panics) =>
              /\ r.st = base
              /\ \/ (\A j \in k..last : x.chain[j].forwards) /\ r.err = e
                 \/ \E i \in k..last : /\ ~x.chain[i].forwards
                                       /\ \A j \in k..(i - 1) : x.chain[j].forwards
                                       /\ r.err = x.chain[i].returns

\* One more middleware around it.
LEMMA AroundKeeps ==
    ASSUME NEW E, NEW x, x.chain \in Seq(Middlewares(E)), NEW st, NEW nx, NEW e, NEW r0,
           Shape(st), st.panic = FALSE, Shape(nx), nx.panic \in BOOLEAN,
           NEW k \in 1..Len(x.chain), OutcomeFrom(x, st, nx, e, k + 1, r0)
    PROVE  OutcomeFrom(x, st, nx, e, k, Around(x.chain[k], st, r0))
<1>. DEFINE last == Len(x.chain)
            m == x.chain[k]
            r == Around(m, st, r0)
            calling(i) == \A j \in i..last : x.chain[j].calls
            base(i) == IF calling(i) THEN nx ELSE st
            panicking(i) == \E h \in i..last : x.chain[h].panics /\ \A j \in i..(h - 1) : x.chain[j].calls
            told(i, v) == \/ (\A j \in i..last : x.chain[j].forwards) /\ v = e
                          \/ \E h \in i..last : /\ ~x.chain[h].forwards
                                                /\ \A j \in i..(h - 1) : x.chain[j].forwards
                                                /\ v = x.chain[h].returns
<1>1. /\ m \in [calls : BOOLEAN, forwards : BOOLEAN, panics : BOOLEAN, returns : E]
      /\ m.forwards => ~m.panics
      /\ ~m.calls => ~m.forwards
      BY DEF Middlewares
<1>2. /\ r0 = [st |-> r0.st, err |-> r0.err]
      /\ (base(k + 1).panic \/ panicking(k + 1)) =>
            r0.st \in {base(k + 1), [base(k + 1) EXCEPT !.panic = TRUE]} /\ r0.st.panic = TRUE
      /\ ~(base(k + 1).panic \/ panicking(k + 1)) => r0.st = base(k + 1) /\ told(k + 1, r0.err)
      BY Zenon DEF OutcomeFrom
<1>3. last \in Nat /\ k \in 1..last
      OBVIOUS
<1>4. \A j : j \in k..last <=> j = k \/ j \in (k + 1)..last
      BY <1>3
<1>5. \A i \in (k + 1)..last : \A j : j \in k..(i - 1) <=> j = k \/ j \in (k + 1)..(i - 1)
      BY <1>3
<1>6. calling(k) <=> m.calls /\ calling(k + 1)
      BY <1>4, Zenon
<1>7. panicking(k) <=> m.panics \/ (m.calls /\ panicking(k + 1))
  <2>1. k \in k..last /\ \A j : j \notin k..(k - 1)
        BY <1>3
  <2>2. ASSUME NEW i \in (k + 1)..last
        PROVE  (\A j \in k..(i - 1) : x.chain[j].calls) <=> m.calls /\ \A j \in (k + 1)..(i - 1) : x.chain[j].calls
        BY <1>5, Zenon
  <2>. QED  BY <1>4, <2>1, <2>2, Zenon
<1>8. ASSUME NEW v
      PROVE  /\ ~m.forwards /\ v = m.returns => told(k, v)
             /\ m.forwards /\ told(k + 1, v) => told(k, v)
  <2>1. k \in k..last /\ \A j : j \notin k..(k - 1)
        BY <1>3
  <2>2. ASSUME NEW i \in (k + 1)..last
        PROVE  (\A j \in k..(i - 1) : x.chain[j].forwards) <=> m.forwards /\ \A j \in (k + 1)..(i - 1) : x.chain[j].forwards
        BY <1>5, Zenon
  <2>3. ASSUME ~m.forwards, v = m.returns
        PROVE  told(k, v)
        BY <2>1, <2>3, Zenon
  <2>4. ASSUME m.forwards, told(k + 1, v)
        PROVE  told(k, v)
        BY <1>4, <2>2, <2>4, Zenon
  <2>. QED  BY <2>3, <2>4, Zenon
<1>9. SUFFICES /\ r = [st |-> r.st, err |-> r.err]
               /\ (base(k).panic \/ panicking(k)) =>
                     r.st \in {base(k), [base(k) EXCEPT !.panic = TRUE]} /\ r.st.panic = TRUE
               /\ ~(base(k).panic \/ panicking(k)) => r.st = base(k) /\ told(k, r.err)
      BY Zenon DEF OutcomeFrom
<1>. DEFINE bb == base(k + 1)
            pp == panicking(k + 1)
<1>10. base(k) = IF m.calls THEN base(k + 1) ELSE st
      BY <1>6, Zenon
<1>11. Shape(base(k + 1)) /\ base(k + 1).panic \in BOOLEAN
      BY Zenon
<1>. PICK b : b = base(k + 1)
     OBVIOUS
<1>. HIDE DEF base, panicking, told, calling
<1>12. CASE m.calls
  <2>1. base(k) = b /\ (panicking(k) <=> m.panics \/ panicking(k + 1))
        BY <1>7, <1>10, <1>12
  <2>2. Shape(b) /\ b.panic \in BOOLEAN
        BY <1>11
  <2>3. CASE r0.st.panic = TRUE
    <3>1. r = r0
          BY <1>12, <2>3 DEF Around
    <3>2. b.panic \/ panicking(k + 1)
          BY <1>2, <2>3, <2>2
    <3>. QED  BY <1>2, <2>1, <3>1, <3>2, Zenon
  <2>4. CASE r0.st.panic # TRUE
    <3>1. ~(b.panic \/ panicking(k + 1)) /\ r0.st = b /\ told(k + 1, r0.err)
          BY <1>2, <2>4
    <3>2. b.panic = FALSE
          BY <2>2, <3>1
    <3>3. CASE m.panics
      <4>1. r = [r0 EXCEPT !.st.panic = TRUE]
            BY <1>12, <3>1, <3>2, <3>3, Zenon DEF Around
      <4>2. r = [st |-> [b EXCEPT !.panic = TRUE], err |-> r0.err]
            BY <1>2, <3>1, <4>1
      <4>3. r.st = [b EXCEPT !.panic = TRUE] /\ r.st.panic = TRUE /\ r.err = r0.err
            BY <2>2, <4>2 DEF Shape
      <4>. QED  BY <2>1, <3>3, <4>2, <4>3, Zenon
    <3>4. CASE ~m.panics /\ m.forwards
      <4>1. r = r0
            BY <1>12, <3>1, <3>2, <3>4, Zenon DEF Around
      <4>2. told(k, r.err)
            BY <1>8, <3>1, <3>4, <4>1
      <4>. QED  BY <1>2, <2>1, <3>1, <3>4, <4>1, <4>2, Zenon
    <3>5. CASE ~m.panics /\ ~m.forwards
      <4>1. r = [r0 EXCEPT !.err = m.returns]
            BY <1>12, <3>1, <3>2, <3>5, Zenon DEF Around
      <4>2. r = [st |-> b, err |-> m.returns]
            BY <1>2, <3>1, <4>1
      <4>3. r.st = b /\ r.err = m.returns
            BY <4>2
      <4>4. told(k, r.err)
            BY <1>8, <3>5, <4>3
      <4>. QED  BY <2>1, <3>1, <3>5, <4>2, <4>3, <4>4, Zenon
    <3>. QED  BY <3>3, <3>4, <3>5
  <2>. QED  BY <2>3, <2>4
<1>13. CASE ~m.calls
  <2>1. base(k) = st /\ (panicking(k) <=> m.panics) /\ ~m.forwards
        BY <1>1, <1>7, <1>10, <1>13
  <2>2. CASE m.panics
    <3>1. r = [[st |-> st, err |-> NoError] EXCEPT !.st.panic = TRUE]
          BY <1>13, <2>2, Zenon DEF Around
    <3>2. r = [st |-> [st EXCEPT !.panic = TRUE], err |-> NoError]
          BY <3>1
    <3>3. r.st = [st EXCEPT !.panic = TRUE] /\ r.st.panic = TRUE /\ r.err = NoError
          BY <3>2 DEF Shape
    <3>. QED  BY <2>1, <2>2, <3>2, <3>3, Zenon
  <2>3. CASE ~m.panics
    <3>1. r = [[st |-> st, err |-> NoError] EXCEPT !.err = m.returns]
          BY <1>13, <2>1, <2>3, Zenon DEF Around
    <3>2. r = [st |-> st, err |-> m.returns]
          BY <3>1
    <3>3. r.st = st /\ r.err = m.returns
          BY <3>2
    <3>4. told(k, r.err)
          BY <1>8, <2>1, <3>3
    <3>. QED  BY <2>1, <2>3, <3>2, <3>3, <3>4, Zenon
  <2>. QED  BY <2>2, <2>3
<1>. QED  BY <1>12, <1>13

\* f is the chain's handler after each turn of its loop, up to the m-th.
Wraps(x, st, nx, m, f) ==
    f = [n \in 0..m |-> IF n = 0 THEN nx ELSE Around(x.chain[Len(x.chain) + 1 - n], st, f[n - 1])]

\* The loop of middleware.Chain ends: there is such a handler.
LEMMA ChainWraps ==
    ASSUME NEW x, NEW st, NEW nx, Len(x.chain) \in Nat
    PROVE  \E f : Wraps(x, st, nx, Len(x.chain), f) /\ Chain(x, st, nx) = f[Len(x.chain)]
<1>. DEFINE top == Len(x.chain)
            Turn(n, r) == Around(x.chain[top + 1 - n], st, r)
            G == {m \in 0..top : \E f : Wraps(x, st, nx, m, f)}
<1>1. 0 \in G
  <2>. DEFINE f == [n \in 0..0 |-> nx]
  <2>1. f = [n \in 0..0 |-> IF n = 0 THEN nx ELSE Turn(n, f[n - 1])]
        OBVIOUS
  <2>2. Wraps(x, st, nx, 0, f)
        BY <2>1, Zenon DEF Wraps
  <2>. QED  BY <2>2
<1>2. ASSUME NEW m \in 0..top, m \in G, m # top
      PROVE  m + 1 \in G
  <2>1. PICK f : Wraps(x, st, nx, m, f)
        BY <1>2
  <2>2. f = [n \in 0..m |-> IF n = 0 THEN nx ELSE Turn(n, f[n - 1])]
        BY <2>1, Zenon DEF Wraps
  <2>. DEFINE g == [n \in 0..(m + 1) |-> IF n = m + 1 THEN Turn(n, f[m]) ELSE f[n]]
  <2>. HIDE DEF Turn
  <2>3. ASSUME NEW n \in 0..(m + 1)
        PROVE  g[n] = IF n = 0 THEN nx ELSE Turn(n, g[n - 1])
    <3>1. CASE n = m + 1
          BY <3>1
    <3>2. CASE n # m + 1 /\ n # 0
      <4>1. n \in 0..m /\ n - 1 \in 0..m /\ n - 1 # m + 1 /\ n - 1 \in 0..(m + 1)
            BY <3>2
      <4>2. g[n] = f[n] /\ g[n - 1] = f[n - 1] /\ f[n] = Turn(n, f[n - 1])
            BY <2>2, <3>2, <4>1
      <4>. QED  BY <3>2, <4>2
    <3>3. CASE n # m + 1 /\ n = 0
      <4>1. n \in 0..m
            BY <3>3
      <4>. QED  BY <2>2, <3>3, <4>1
    <3>. QED  BY <3>1, <3>2, <3>3
  <2>4. g = [n \in 0..(m + 1) |-> IF n = 0 THEN nx ELSE Turn(n, g[n - 1])]
    <3>1. g = [n \in 0..(m + 1) |-> g[n]]
          OBVIOUS
    <3>. HIDE DEF g
    <3>. QED  BY <2>3, <3>1
  <2>. HIDE DEF g
  <2>5. Wraps(x, st, nx, m + 1, g)
        BY <2>4, Zenon DEF Wraps, Turn
  <2>6. m + 1 \in 0..top
        BY <1>2
  <2>. QED  BY <2>5, <2>6
<1>3. top \in G
  <2>0. top \in Nat
        OBVIOUS
  <2>. HIDE DEF G, top
  <2>1. \A n \in 0..top : n \in G /\ n # top => n + 1 \in G
        BY <1>2
  <2>2. top \in 0..top
        BY <2>0
  <2>3. \A n \in 0..top : n \in G
        BY <1>1, <2>0, <2>1, Climb, Zenon
  <2>. QED  BY <2>2, <2>3
<1>4. PICK f0 : Wraps(x, st, nx, top, f0)
      BY <1>3
<1>. DEFINE f == CHOOSE f : f = [n \in 0..top |-> IF n = 0 THEN nx ELSE Around(x.chain[top + 1 - n], st, f[n - 1])]
<1>5. f = [n \in 0..top |-> IF n = 0 THEN nx ELSE Around(x.chain[top + 1 - n], st, f[n - 1])]
      BY <1>4, Zenon DEF Wraps
<1>6. Chain(x, st, nx) = f[top]
      BY Zenon DEF Chain
<1>. QED  BY <1>5, <1>6, Zenon DEF Wraps

\* What the whole chain comes to.
LEMMA ChainOutcome ==
    ASSUME NEW E, NEW x, x.chain \in Seq(Middlewares(E)), NEW st, NEW nx, NEW e,
           Shape(st), st.panic = FALSE, Shape(nx), nx.panic \in BOOLEAN
    PROVE  OutcomeFrom(x, st, nx, e, 1, Chain(x, st, [st |-> nx, err |-> e]))
<1>. DEFINE top == Len(x.chain)
<1>0. top \in Nat
      OBVIOUS
<1>1. PICK f : Wraps(x, st, [st |-> nx, err |-> e], top, f) /\ Chain(x, st, [st |-> nx, err |-> e]) = f[top]
      BY <1>0, ChainWraps
<1>. DEFINE G == {n \in 0..top : OutcomeFrom(x, st, nx, e, top + 1 - n, f[n])}
<1>2. f = [n \in 0..top |-> IF n = 0 THEN [st |-> nx, err |-> e] ELSE Around(x.chain[top + 1 - n], st, f[n - 1])]
      BY <1>1, Zenon DEF Wraps
<1>3. 0 \in G
  <2>1. f[0] = [st |-> nx, err |-> e]
        BY <1>2, <1>0
  <2>2. \A j : j \notin (top + 1)..top
        BY <1>0
  <2>3. OutcomeFrom(x, st, nx, e, top + 1, f[0])
    <3>1. f[0] = [st |-> f[0].st, err |-> f[0].err] /\ f[0].st = nx /\ f[0].err = e
          BY <2>1
    <3>. QED  BY <2>2, <3>1, Zenon DEF OutcomeFrom
  <2>4. top + 1 - 0 = top + 1 /\ 0 \in 0..top
        BY <1>0
  <2>. QED  BY <2>3, <2>4
<1>4. ASSUME NEW n \in 0..top, n \in G, n # top
      PROVE  n + 1 \in G
  <2>. DEFINE k == top + 1 - (n + 1)
  <2>1. k \in 1..top /\ k + 1 = top + 1 - n /\ n + 1 \in 0..top /\ n + 1 # 0 /\ (n + 1) - 1 = n
    <3>. HIDE DEF top
    <3>. QED  BY <1>0, <1>4
  <2>2. OutcomeFrom(x, st, nx, e, k + 1, f[n])
        BY <1>4, <2>1
  <2>3. f[n + 1] = Around(x.chain[k], st, f[n])
        BY <1>2, <2>1
  <2>. HIDE DEF k
  <2>4. OutcomeFrom(x, st, nx, e, k, f[n + 1])
        BY <2>1, <2>2, <2>3, AroundKeeps
  <2>. QED  BY <2>1, <2>4 DEF k
<1>5. top \in G
  <2>. HIDE DEF G, top
  <2>1. \A n \in 0..top : n \in G /\ n # top => n + 1 \in G
        BY <1>4
  <2>2. top \in 0..top
        BY <1>0
  <2>3. \A n \in 0..top : n \in G
        BY <1>0, <1>3, <2>1, Climb, Zenon
  <2>. QED  BY <2>2, <2>3
<1>6. top + 1 - top = 1
      BY <1>0
<1>. QED  BY <1>1, <1>5, <1>6

\* The outermost middleware that does not forward has the last word.
LEMMA VerdictIs ==
    ASSUME NEW E, NEW x, x.chain \in Seq(Middlewares(E))
    PROVE  /\ (\A j \in 1..Len(x.chain) : x.chain[j].forwards) => Verdict(x) = x.handler.returns
           /\ \A i \in 1..Len(x.chain) :
                 ~x.chain[i].forwards /\ (\A j \in 1..(i - 1) : x.chain[j].forwards) => Verdict(x) = x.chain[i].returns
<1>. DEFINE I == {i \in 1..Len(x.chain) : ~x.chain[i].forwards}
            k == IF I # {} THEN Min(I) ELSE 0
<1>1. Verdict(x) = IF k = 0 THEN x.handler.returns ELSE x.chain[k].returns
      BY Zenon DEF Verdict, SelectInSeq
<1>2. ASSUME \A j \in 1..Len(x.chain) : x.chain[j].forwards
      PROVE  Verdict(x) = x.handler.returns
  <2>1. k = 0
        BY <1>2
  <2>. QED  BY <1>1, <2>1
<1>3. ASSUME NEW i \in 1..Len(x.chain), ~x.chain[i].forwards, \A j \in 1..(i - 1) : x.chain[j].forwards
      PROVE  Verdict(x) = x.chain[i].returns
  <2>1. i \in I /\ i # 0
        BY <1>3
  <2>2. ASSUME NEW j \in I PROVE i <= j
        BY <1>3
  <2>3. I \subseteq Nat
        OBVIOUS
  <2>. HIDE DEF I
  <2>4. \A h \in I : (\A j \in I : h <= j) => h = i
        BY <2>1, <2>2, <2>3
  <2>5. Min(I) = i
        BY <2>1, <2>2, <2>4, Zenon DEF Min
  <2>6. k = i
        BY <2>1, <2>5
  <2>. QED  BY <1>1, <2>1, <2>6
<1>. QED  BY <1>2, <1>3

\* What a chain around the outcome nx, of error e, comes to: a panic, of a
\* middleware or in nx; or what was reached, with the verdict.
ChainComesTo(x, st, nx, e, c) ==
    LET base == IF Reached(x) THEN nx ELSE st IN
    /\ (base.panic \/ MiddlewarePanics(x)) =>
          c.st \in {base, [base EXCEPT !.panic = TRUE]} /\ c.st.panic = TRUE
    /\ ~(base.panic \/ MiddlewarePanics(x)) =>
          /\ c.st = base
          /\ (e = x.handler.returns \/ ~Reached(x)) => c.err = Verdict(x)

\* And so it does.
LEMMA ChainResult ==
    ASSUME NEW E, NEW x, x.chain \in Seq(Middlewares(E)), NEW st, NEW nx, NEW e,
           Shape(st), st.panic = FALSE, Shape(nx), nx.panic \in BOOLEAN
    PROVE  ChainComesTo(x, st, nx, e, Chain(x, st, [st |-> nx, err |-> e]))
<1>1. PICK c : c = Chain(x, st, [st |-> nx, err |-> e])
      OBVIOUS
<1>2. OutcomeFrom(x, st, nx, e, 1, c)
      BY <1>1, ChainOutcome
<1>. DEFINE base == IF Reached(x) THEN nx ELSE st
<1>3. /\ (base.panic \/ MiddlewarePanics(x)) =>
            c.st \in {base, [base EXCEPT !.panic = TRUE]} /\ c.st.panic = TRUE
      /\ ~(base.panic \/ MiddlewarePanics(x)) =>
            /\ c.st = base
            /\ \/ (\A j \in 1..Len(x.chain) : x.chain[j].forwards) /\ c.err = e
               \/ \E i \in 1..Len(x.chain) : /\ ~x.chain[i].forwards
                                             /\ \A j \in 1..(i - 1) : x.chain[j].forwards
                                             /\ c.err = x.chain[i].returns
      BY <1>2, Zenon DEF OutcomeFrom, Reached, MiddlewarePanics
<1>4. \A j \in 1..Len(x.chain) : x.chain[j].forwards => x.chain[j].calls
      BY DEF Middlewares
<1>5. ASSUME e = x.handler.returns \/ ~Reached(x),
             \/ (\A j \in 1..Len(x.chain) : x.chain[j].forwards) /\ c.err = e
             \/ \E i \in 1..Len(x.chain) : /\ ~x.chain[i].forwards
                                           /\ \A j \in 1..(i - 1) : x.chain[j].forwards
                                           /\ c.err = x.chain[i].returns
      PROVE  c.err = Verdict(x)
  <2>1. CASE (\A j \in 1..Len(x.chain) : x.chain[j].forwards) /\ c.err = e
    <3>1. Reached(x)
          BY <1>4, <2>1, Zenon DEF Reached
    <3>. QED  BY <1>5, <2>1, <3>1, VerdictIs, Zenon
  <2>2. CASE \E i \in 1..Len(x.chain) : /\ ~x.chain[i].forwards
                                        /\ \A j \in 1..(i - 1) : x.chain[j].forwards
                                        /\ c.err = x.chain[i].returns
        BY <2>2, VerdictIs, Zenon
  <2>. QED  BY <1>5, <2>1, <2>2
<1>6. ChainComesTo(x, st, nx, e, c)
      BY <1>3, <1>5, Zenon DEF ChainComesTo
<1>. QED  BY <1>1, <1>6

-----------------------------------------------------------------------------
(* The request pipeline: the handlers one by one.                          *)

\* The state before the route's handler.
Clean(st) ==
    /\ Shape(st)
    /\ st.passed = FALSE /\ st.written = <<>> /\ st.err = NoError /\ st.panic = FALSE /\ st.ran = 0

\* r has the CORS headers of st.
Kept(r, st) == Shape(r) /\ r.origin = st.origin /\ r.credentials = st.credentials

\* Writing a first response changes nothing else.
LEMMA Wrote ==
    ASSUME NEW st, Shape(st), st.written = <<>>, NEW body
    PROVE  /\ Kept(Write(st, body), st)
           /\ Write(st, body).written = <<body>>
           /\ Write(st, body).err = st.err
           /\ Write(st, body).panic = st.panic
           /\ Write(st, body).ran = st.ran
           /\ Write(st, body).passed = st.passed
<1>1. Append(st.written, body) = <<body>>
      OBVIOUS
<1>. QED  BY <1>1 DEF Shape, Kept, Write

\* Nor does Abort.
LEMMA AbortKeeps ==
    ASSUME NEW st, Shape(st)
    PROVE  /\ Kept(Abort(st), st)
           /\ Abort(st).written = st.written
           /\ Abort(st).err = st.err
           /\ Abort(st).panic = st.panic
           /\ Abort(st).ran = st.ran
           /\ Abort(st).passed = TRUE
<1>1. PICK b \in BOOLEAN : b = TRUE
      OBVIOUS
<1>. DEFINE t == [st EXCEPT !.passed = b]
<1>2. t = [passed |-> b, written |-> st.written, err |-> st.err, panic |-> st.panic,
           ran |-> st.ran, origin |-> st.origin, credentials |-> st.credentials]
      BY DEF Shape
<1>3. t.passed = b
      BY <1>2, Zenon
<1>4. t.panic = st.panic
      BY <1>2
<1>5. Kept(t, st)
      BY <1>2 DEF Shape, Kept
<1>6. t.written = st.written /\ t.err = st.err /\ t.ran = st.ran
      BY <1>2
<1>7. Abort(st) = t
      BY <1>1, Zenon DEF Abort
<1>. HIDE DEF t
<1>. QED  BY <1>1, <1>3, <1>4, <1>5, <1>6, <1>7, Zenon

\* Nor does a panic that begins or is recovered.
LEMMA Calm ==
    ASSUME NEW st, Shape(st), NEW b \in BOOLEAN
    PROVE  LET calm == [st EXCEPT !.panic = b] IN
           /\ Kept(calm, st)
           /\ calm.written = st.written
           /\ calm.err = st.err
           /\ calm.panic = b
           /\ calm.ran = st.ran
           /\ calm.passed = st.passed
<1>. DEFINE calm == [st EXCEPT !.panic = b]
<1>1. calm = [passed |-> st.passed, written |-> st.written, err |-> st.err, panic |-> b,
              ran |-> st.ran, origin |-> st.origin, credentials |-> st.credentials]
      BY DEF Shape
<1>2. calm.panic = b
      BY <1>1, Zenon
<1>3. calm.passed = st.passed
      BY <1>1
<1>4. Kept(calm, st)
      BY <1>1 DEF Shape, Kept
<1>. QED  BY <1>1, <1>2, <1>3, <1>4

\* What recovery makes of the state that Next left.
LEMMA Recovers ==
    ASSUME NEW r, Shape(r), r.panic \in BOOLEAN
    PROVE  LET v == RecoveryInterceptor(r) IN
           /\ Kept(v, r) /\ v.panic = FALSE /\ v.err = r.err /\ v.ran = r.ran
           /\ ~r.panic => v = r
           /\ r.panic => v.passed = TRUE
           /\ r.panic => v.written = IF r.written = <<>> THEN <<PanicBody>> ELSE r.written
<1>. DEFINE v == RecoveryInterceptor(r)
            calm == [r EXCEPT !.panic = FALSE]
<1>1. CASE r.panic = FALSE
  <2>1. v = r
        BY <1>1, Zenon DEF RecoveryInterceptor
  <2>. QED  BY <1>1, <2>1 DEF Kept
<1>2. CASE r.panic = TRUE
  <2>1. PICK c : c = calm
        OBVIOUS
  <2>2. Kept(c, r) /\ c.written = r.written /\ c.err = r.err /\ c.panic = FALSE /\ c.ran = r.ran
        BY <2>1, Calm
  <2>3. CASE r.written = <<>>
    <3>1. PICK w : w = Write(c, PanicBody)
          OBVIOUS
    <3>2. v = Abort(w)
          BY <1>2, <2>1, <2>3, <3>1, Zenon DEF RecoveryInterceptor, AbortWithEnvelope
    <3>3. Shape(c)
          BY <2>2 DEF Kept
    <3>4. /\ Kept(w, c) /\ w.written = <<PanicBody>> /\ w.err = c.err /\ w.panic = c.panic
          /\ w.ran = c.ran
          BY <2>2, <2>3, <3>1, <3>3, Wrote
    <3>5. Shape(w)
          BY <3>4 DEF Kept
    <3>6. /\ Kept(v, w) /\ v.written = w.written /\ v.err = w.err /\ v.panic = w.panic /\ v.ran = w.ran
          /\ v.passed = TRUE
          BY <3>2, <3>5, AbortKeeps
    <3>. QED  BY <1>2, <2>2, <2>3, <3>4, <3>6 DEF Kept
  <2>4. CASE r.written # <<>>
    <3>1. v = Abort(c)
          BY <1>2, <2>1, <2>4, Zenon DEF RecoveryInterceptor
    <3>2. Shape(c)
          BY <2>2 DEF Kept
    <3>3. /\ Kept(v, c) /\ v.written = c.written /\ v.err = c.err /\ v.panic = c.panic /\ v.ran = c.ran
          /\ v.passed = TRUE
          BY <3>1, <3>2, AbortKeeps
    <3>. QED  BY <1>2, <2>2, <2>4, <3>3 DEF Kept
  <2>. QED  BY <2>3, <2>4
<1>. QED  BY <1>1, <1>2

\* The names of the model's own files, and every exchange over a set S of
\* strings that holds them: any chain of middlewares, any errors (of E),
\* handlers, webroots and CORS settings.  An Origin header is never "none",
\* which says that there is none.
FileNames == {"index.html", "a.gz", ".gz", "w"}
Exchanges(E, S) ==
    [chain : Seq(Middlewares(E)), method : S, routed : BOOLEAN, handler : HandlerRuns(E),
     cors : [origins : SUBSET S, credentials : BOOLEAN], origin : S \ {"none"},
     webroot : BOOLEAN, prefix : Seq(S), files : SUBSET Seq(S), uri : Seq(S), encoding : S,
     autoCompress : BOOLEAN, asset : BOOLEAN, size : Nat, ranged : BOOLEAN,
     stat : BOOLEAN]

\* What the route's handler leaves.
LEMMA HandlerLeaves ==
    ASSUME NEW E, NEW S, NEW x \in Exchanges(E, S), NEW st, Clean(st)
    PROVE  LET r == RunHandler(x, st) IN
           /\ Kept(r, st) /\ r.ran = 1 /\ r.err = x.handler.returns
           /\ r.panic = x.handler.panics /\ r.passed = FALSE
           /\ r.written = IF x.handler.writes THEN <<HandlerBody>> ELSE <<>>
<1>. DEFINE r == RunHandler(x, st)
            h == x.handler
<1>0. /\ h \in [writes : BOOLEAN, panics : BOOLEAN, returns : E]
      /\ h.panics => h.returns = NoError
      BY DEF Exchanges, HandlerRuns
<1>. HIDE DEF h
<1>1. PICK w : w = IF h.writes THEN Write(st, HandlerBody) ELSE st
      OBVIOUS
<1>2. /\ Kept(w, st) /\ w.err = NoError /\ w.panic = FALSE /\ w.ran = 0 /\ w.passed = FALSE
      /\ w.written = IF h.writes THEN <<HandlerBody>> ELSE <<>>
  <2>1. CASE h.writes
        BY <1>1, <2>1, Wrote DEF Clean
  <2>2. CASE ~h.writes
        BY <1>1, <2>2 DEF Clean, Kept
  <2>. QED  BY <2>1, <2>2
<1>3. PICK n : n = [w EXCEPT !.ran = @ + 1]
      OBVIOUS
<1>4. /\ Kept(n, st) /\ n.err = NoError /\ n.panic = FALSE /\ n.ran = 1 /\ n.passed = FALSE
      /\ n.written = IF h.writes THEN <<HandlerBody>> ELSE <<>>
      BY <1>2, <1>3 DEF Kept, Shape
<1>5. r = IF h.panics THEN [n EXCEPT !.panic = TRUE]
          ELSE IF h.returns = NoError THEN n ELSE [n EXCEPT !.err = h.returns]
      BY <1>1, <1>3, Zenon DEF RunHandler, h
<1>. HIDE DEF r
<1>6. CASE h.panics
  <2>1. PICK p : p = [n EXCEPT !.panic = TRUE]
        OBVIOUS
  <2>2. Shape(n)
        BY <1>4 DEF Kept
  <2>3. /\ Kept(p, n) /\ p.written = n.written /\ p.err = n.err /\ p.panic = TRUE /\ p.ran = n.ran
        /\ p.passed = n.passed
        BY <2>1, <2>2, Calm
  <2>4. r = p
        BY <1>5, <1>6, <2>1
  <2>5. h.panics = TRUE /\ h.returns = NoError
        BY <1>0, <1>6
  <2>6. Kept(p, st)
        BY <1>4, <2>3 DEF Kept
  <2>. QED  BY <1>4, <2>3, <2>4, <2>5, <2>6 DEF h, r
<1>7. CASE ~h.panics
  <2>0. h.panics = FALSE
        BY <1>0, <1>7
  <2>1. CASE h.returns = NoError
    <3>1. r = n
          BY <1>5, <1>7, <2>1
    <3>. QED  BY <1>4, <2>0, <2>1, <3>1 DEF h, r
  <2>2. CASE h.returns # NoError
    <3>1. r = [n EXCEPT !.err = h.returns]
          BY <1>5, <1>7, <2>2
    <3>2. /\ Kept(r, st) /\ r.err = h.returns /\ r.panic = n.panic /\ r.ran = 1 /\ r.passed = n.passed
          /\ r.written = n.written
          BY <1>4, <3>1 DEF Kept, Shape
    <3>. QED  BY <1>4, <2>0, <3>2 DEF h, r
  <2>. QED  BY <2>1, <2>2
<1>. QED  BY <1>6, <1>7

\* What FilesHonest says of one written response.
BodyHonest(x, f) ==
    "file" \in DOMAIN f =>
        /\ IsPrefix(x.prefix, f.file) /\ f.file \in x.files
        /\ f.layers = IF f.announced THEN 1 ELSE 0
        /\ f.announced => AcceptsGzip(x) /\ ~f.ranged

\* An envelope and a bare status are no files.
LEMMA EnvelopesHonest ==
    ASSUME NEW x, NEW s, NEW c
    PROVE  BodyHonest(x, Envelope(s, c)) /\ BodyHonest(x, [status |-> s])
<1>1. "file" \notin DOMAIN Envelope(s, c)
      BY DEF Envelope
<1>2. "file" \notin DOMAIN [status |-> s]
      OBVIOUS
<1>. QED  BY <1>1, <1>2, Zenon DEF BodyHonest

\* The envelopes the transport writes itself, and the preflight's bare status, are no files.
LEMMA OwnBodiesHonest ==
    ASSUME NEW x
    PROVE  /\ BodyHonest(x, PanicBody) /\ BodyHonest(x, HandlerBody)
           /\ BodyHonest(x, PreflightBody) /\ BodyHonest(x, NotFoundBody)
<1>1. "file" \notin DOMAIN PanicBody
      BY DEF PanicBody, Envelope
<1>2. "file" \notin DOMAIN HandlerBody
      BY DEF HandlerBody, Envelope
<1>3. "file" \notin DOMAIN PreflightBody
      BY DEF PreflightBody
<1>4. "file" \notin DOMAIN NotFoundBody
      BY DEF NotFoundBody, Envelope
<1>. QED  BY <1>1, <1>2, <1>3, <1>4, Zenon DEF BodyHonest

\* A file that is opened is one of the webroot.
LEMMA OpenInside ==
    ASSUME NEW E, NEW S, FileNames \subseteq S, NEW x \in Exchanges(E, S), NEW uri \in Seq(S), Open(x, uri) # NoFile
    PROVE  IsPrefix(x.prefix, Open(x, uri)) /\ Open(x, uri) \in x.files
<1>. DEFINE name == IF IsPrefix(x.prefix, uri) THEN uri ELSE x.prefix \o uri
<1>1. x.prefix \in Seq(S) /\ "index.html" \in S
      BY DEF Exchanges, FileNames
<1>2. name \in Seq(S) /\ IsPrefix(x.prefix, name)
  <2>1. CASE IsPrefix(x.prefix, uri)
        BY <2>1
  <2>2. CASE ~IsPrefix(x.prefix, uri)
    <3>1. IsPrefix(x.prefix, x.prefix \o uri)
          BY <1>1 DEF IsPrefix
    <3>. QED  BY <1>1, <2>2, <3>1
  <2>. QED  BY <2>1, <2>2
<1>. HIDE DEF name
<1>3. IsPrefix(x.prefix, Append(name, "index.html"))
      BY <1>1, <1>2 DEF IsPrefix
<1>4. Open(x, uri) = IF name \in x.files THEN name
                     ELSE IF uri = <<>> /\ Append(name, "index.html") \in x.files THEN Append(name, "index.html")
                     ELSE NoFile
      BY Zenon DEF Open, name
<1>. QED  BY <1>2, <1>3, <1>4, Zenon

\* A file that staticHandle sends is announced as it was sent.
LEMMA StaticHonest ==
    ASSUME NEW E, NEW S, NEW x \in Exchanges(E, S), NEW file, NEW pre \in BOOLEAN, IsPrefix(x.prefix, file), file \in x.files,
           pre => AcceptsGzip(x)
    PROVE  BodyHonest(x, StaticHandle(x, file, pre))
<1>. DEFINE compress == ~pre /\ ShouldCompress(x) /\ x.size > SmallFile
            useGzip == compress \/ (pre /\ AcceptsGzip(x))
            f == StaticHandle(x, file, pre)
            slice == x.ranged /\ ~useGzip
<1>. HIDE DEF compress, useGzip, slice
<1>1. PICK g \in BOOLEAN : g <=> useGzip
      OBVIOUS
<1>2. PICK k \in BOOLEAN : k <=> compress
      OBVIOUS
<1>3. g => AcceptsGzip(x)
      BY <1>1 DEF ShouldCompress, AcceptsGzip, useGzip, compress
<1>4. PICK rg \in BOOLEAN : rg <=> slice
      OBVIOUS
<1>5. PICK ly : ly = (IF pre THEN 1 ELSE 0) + (IF k THEN 1 ELSE 0)
      OBVIOUS
<1>6. f = [status |-> 200, file |-> file, announced |-> g, ranged |-> rg, layers |-> ly]
  <2>1. useGzip = g
        BY <1>1 DEF useGzip
  <2>2. slice = rg
        BY <1>4 DEF slice
  <2>3. ly = (IF pre THEN 1 ELSE 0) + (IF compress THEN 1 ELSE 0)
        BY <1>2, <1>5, Zenon
  <2>4. f = [status |-> 200, file |-> file, announced |-> useGzip, ranged |-> slice,
             layers |-> (IF pre THEN 1 ELSE 0) + (IF compress THEN 1 ELSE 0)]
        BY DEF StaticHandle, useGzip, compress, slice
  <2>. HIDE DEF f
  <2>. QED  BY <2>1, <2>2, <2>3, <2>4, Zenon
<1>. HIDE DEF f
<1>7. f.file = file /\ f.layers = ly /\ (f.announced <=> g) /\ (f.ranged <=> rg)
      BY <1>6
<1>8. ly = IF g THEN 1 ELSE 0
      BY <1>1, <1>2, <1>5 DEF compress, useGzip
<1>9. f.layers = IF f.announced THEN 1 ELSE 0
      BY <1>7, <1>8, Zenon
<1>10. f.announced => AcceptsGzip(x) /\ ~f.ranged
      BY <1>1, <1>3, <1>4, <1>7 DEF slice
<1>11. BodyHonest(x, f)
      BY <1>7, <1>9, <1>10, Zenon DEF BodyHonest
<1>. QED  BY <1>11 DEF f

\* What notFoundHandle leaves: one response, a file or an envelope.
LEMMA NotFoundLeaves ==
    ASSUME NEW E, NEW S, FileNames \subseteq S, NEW x \in Exchanges(E, S), NEW st, Clean(st)
    PROVE  LET r == NotFoundHandle(x, st) IN
           /\ Kept(r, st) /\ r.ran = 0 /\ r.err = NoError /\ r.panic = FALSE
           /\ \E b : r.written = <<b>> /\ BodyHonest(x, b)
<1>. DEFINE r == NotFoundHandle(x, st)
            plain == Open(x, x.uri)
            zipped == Open(x, Gz(x.uri))
            served == x.webroot /\ x.method = "GET" /\ x.stat
<1>1. x.uri \in Seq(S) /\ Gz(x.uri) \in Seq(S)
  <2>1. x.uri \in Seq(S)
        BY DEF Exchanges
  <2>2. <<"a.gz">> \in Seq(S) /\ <<"w", "a.gz">> \in Seq(S) /\ <<".gz">> \in Seq(S)
        BY DEF FileNames
  <2>. QED  BY <2>1, <2>2, Zenon DEF Gz
<1>2. ASSUME NEW b, r = Abort(Write(st, b)), BodyHonest(x, b)
      PROVE  /\ Kept(r, st) /\ r.ran = 0 /\ r.err = NoError /\ r.panic = FALSE
             /\ \E c : r.written = <<c>> /\ BodyHonest(x, c)
  <2>1. PICK w : w = Write(st, b)
        OBVIOUS
  <2>2. Kept(w, st) /\ w.written = <<b>> /\ w.err = NoError /\ w.panic = FALSE /\ w.ran = 0
        BY <2>1, Wrote DEF Clean
  <2>3. Shape(w)
        BY <2>2 DEF Kept
  <2>. HIDE DEF r
  <2>4. Kept(r, w) /\ r.written = w.written /\ r.err = w.err /\ r.panic = w.panic /\ r.ran = w.ran
        BY <1>2, <2>1, <2>3, AbortKeeps
  <2>5. Kept(r, st)
        BY <2>2, <2>4 DEF Kept
  <2>. QED  BY <1>2, <2>2, <2>4, <2>5
<1>3. CASE served /\ plain # NoFile
  <2>1. BodyHonest(x, StaticHandle(x, plain, FALSE))
    <3>1. IsPrefix(x.prefix, plain) /\ plain \in x.files
          BY <1>1, <1>3, OpenInside
    <3>. HIDE DEF plain
    <3>. QED  BY <3>1, StaticHonest
  <2>2. r = Abort(Write(st, StaticHandle(x, plain, FALSE)))
        BY <1>3, Zenon DEF NotFoundHandle
  <2>. HIDE DEF r, plain
  <2>. QED  BY <1>2, <2>1, <2>2, Zenon DEF r
<1>4. CASE ~(served /\ plain # NoFile) /\ served /\ AcceptsGzip(x) /\ zipped # NoFile
  <2>1. BodyHonest(x, StaticHandle(x, zipped, TRUE))
    <3>1. IsPrefix(x.prefix, zipped) /\ zipped \in x.files
          BY <1>1, <1>4, OpenInside
    <3>. HIDE DEF zipped
    <3>. QED  BY <1>4, <3>1, StaticHonest
  <2>2. r = Abort(Write(st, StaticHandle(x, zipped, TRUE)))
        BY <1>4, Zenon DEF NotFoundHandle
  <2>. HIDE DEF r, zipped
  <2>. QED  BY <1>2, <2>1, <2>2, Zenon DEF r
<1>5. CASE ~(served /\ plain # NoFile) /\ ~(served /\ AcceptsGzip(x) /\ zipped # NoFile)
  <2>1. r = Write(st, NotFoundBody)
        BY <1>5, Zenon DEF NotFoundHandle
  <2>2. BodyHonest(x, NotFoundBody)
        BY OwnBodiesHonest
  <2>3. PICK b : b = NotFoundBody
        OBVIOUS
  <2>4. PICK w : w = Write(st, b)
        OBVIOUS
  <2>5. Kept(w, st) /\ w.written = <<b>> /\ w.err = NoError /\ w.panic = FALSE /\ w.ran = 0
        BY <2>4, Wrote DEF Clean
  <2>6. r = w /\ BodyHonest(x, b)
        BY <2>1, <2>2, <2>3, <2>4, Zenon
  <2>. HIDE DEF r
  <2>. QED  BY <2>5, <2>6 DEF r
<1>. QED  BY <1>3, <1>4, <1>5

\* What the handlers behind requestInterceptor leave: they ran once.
Behind(x, st, n) ==
    /\ Kept(n, st) /\ n.panic = FALSE /\ n.passed = TRUE
    /\ x.routed =>
          /\ n.ran = 1 /\ n.err = x.handler.returns
          /\ n.written = IF x.handler.writes THEN <<HandlerBody>>
                         ELSE IF x.handler.panics THEN <<PanicBody>> ELSE <<>>
    /\ ~x.routed => n.ran = 0 /\ \E b : n.written = <<b>> /\ BodyHonest(x, b)

\* And so they do.
LEMMA BehindRequest ==
    ASSUME NEW E, NEW S, FileNames \subseteq S, NEW x \in Exchanges(E, S), NEW st, Clean(st)
    PROVE  Behind(x, st, NextOfRequest(x, st))
<1>1. PICK r : r = Route(x, st)
      OBVIOUS
<1>2. PICK v : v = RecoveryInterceptor(r)
      OBVIOUS
<1>3. PICK n : n = Abort(v)
      OBVIOUS
<1>4. NextOfRequest(x, st) = n
  <2>1. Then(r, RecoveryInterceptor) = v
        BY <1>2, Zenon DEF Then
  <2>. QED  BY <1>1, <1>3, <2>1, Zenon DEF NextOfRequest
<1>5. ASSUME Kept(r, st), r.panic \in BOOLEAN
      PROVE  /\ Kept(n, st) /\ n.panic = FALSE /\ n.passed = TRUE /\ n.err = r.err /\ n.ran = r.ran
             /\ n.written = IF r.panic /\ r.written = <<>> THEN <<PanicBody>> ELSE r.written
  <2>1. Shape(r)
        BY <1>5 DEF Kept
  <2>2. /\ Kept(v, r) /\ v.panic = FALSE /\ v.err = r.err /\ v.ran = r.ran
        /\ ~r.panic => v = r
        /\ r.panic => v.written = IF r.written = <<>> THEN <<PanicBody>> ELSE r.written
        BY <1>2, <1>5, <2>1, Recovers
  <2>3. Shape(v)
        BY <2>2 DEF Kept
  <2>4. /\ Kept(n, v) /\ n.written = v.written /\ n.err = v.err /\ n.panic = v.panic /\ n.ran = v.ran
        /\ n.passed = TRUE
        BY <1>3, <2>3, AbortKeeps
  <2>5. Kept(n, st)
        BY <1>5, <2>2, <2>4 DEF Kept
  <2>6. n.written = IF r.panic /\ r.written = <<>> THEN <<PanicBody>> ELSE r.written
        BY <1>5, <2>2, <2>4, Zenon
  <2>. QED  BY <2>2, <2>4, <2>5, <2>6
<1>6. CASE x.routed
  <2>1. r = RunHandler(x, st)
        BY <1>1, <1>6 DEF Route
  <2>2. /\ Kept(r, st) /\ r.ran = 1 /\ r.err = x.handler.returns /\ r.panic = x.handler.panics
        /\ r.written = IF x.handler.writes THEN <<HandlerBody>> ELSE <<>>
        BY <2>1, HandlerLeaves
  <2>3. x.handler.panics \in BOOLEAN /\ x.handler.writes \in BOOLEAN
        BY DEF Exchanges, HandlerRuns
  <2>4. <<HandlerBody>> # <<>>
        OBVIOUS
  <2>5. n.written = IF x.handler.writes THEN <<HandlerBody>>
                    ELSE IF x.handler.panics THEN <<PanicBody>> ELSE <<>>
    <3>1. n.written = IF r.panic /\ r.written = <<>> THEN <<PanicBody>> ELSE r.written
          BY <1>5, <2>2, <2>3
    <3>2. CASE x.handler.writes
          BY <2>2, <2>4, <3>1, <3>2, Zenon
    <3>3. CASE ~x.handler.writes
      <4>1. r.written = <<>> /\ (r.panic <=> x.handler.panics)
            BY <2>2, <3>3
      <4>. QED  BY <3>1, <3>3, <4>1, Zenon
    <3>. QED  BY <3>2, <3>3
  <2>6. Behind(x, st, n)
        BY <1>5, <1>6, <2>2, <2>3, <2>5, Zenon DEF Behind
  <2>. QED  BY <1>4, <2>6
<1>7. CASE ~x.routed
  <2>1. r = NotFoundHandle(x, st)
        BY <1>1, <1>7 DEF Route
  <2>2. /\ Kept(r, st) /\ r.ran = 0 /\ r.err = NoError /\ r.panic = FALSE
        /\ \E b : r.written = <<b>> /\ BodyHonest(x, b)
        BY <2>1, NotFoundLeaves
  <2>3. n.written = r.written
        BY <1>5, <2>2
  <2>4. Behind(x, st, n)
        BY <1>5, <1>7, <2>2, <2>3, Zenon DEF Behind
  <2>. QED  BY <1>4, <2>4
<1>. QED  BY <1>6, <1>7

\* What requestInterceptor and the handlers behind it leave, n being what its
\* Next comes to: the handler's own state, a panic, or the refusal.
Answer(x, st, n, h) ==
    /\ Kept(h, st) /\ h.panic = FALSE
    /\ h.ran = IF Reached(x) \/ Hidden(x) THEN n.ran ELSE 0
    /\ MiddlewarePanics(x) =>
          h.written = IF Reached(x) /\ n.written # <<>> THEN n.written ELSE <<PanicBody>>
    /\ Hidden(x) => h.written = n.written
    /\ ~MiddlewarePanics(x) /\ ~Reached(x) /\ ~Hidden(x) => h.written = <<ErrorEnvelope(Verdict(x))>>
    /\ ~MiddlewarePanics(x) /\ Reached(x) /\ n.written # <<>> => h.written = n.written
    /\ ~MiddlewarePanics(x) /\ Reached(x) /\ n.written = <<>> /\ x.routed =>
          h.written = IF Verdict(x) = NoError THEN <<>> ELSE <<ErrorEnvelope(Verdict(x))>>

\* What abortWithEnvelope does to a state in which nothing was written.
LEMMA AbortsWith ==
    ASSUME NEW st, Shape(st), st.written = <<>>, NEW body
    PROVE  LET v == AbortWithEnvelope(st, body) IN
           /\ Kept(v, st) /\ v.written = <<body>> /\ v.panic = st.panic /\ v.ran = st.ran /\ v.passed = TRUE
<1>1. PICK w : w = Write(st, body)
      OBVIOUS
<1>2. Kept(w, st) /\ w.written = <<body>> /\ w.panic = st.panic /\ w.ran = st.ran
      BY <1>1, Wrote
<1>3. Shape(w)
      BY <1>2 DEF Kept
<1>4. PICK v : v = Abort(w)
      OBVIOUS
<1>5. Kept(v, w) /\ v.written = w.written /\ v.panic = w.panic /\ v.ran = w.ran /\ v.passed = TRUE
      BY <1>3, <1>4, AbortKeeps
<1>6. AbortWithEnvelope(st, body) = v
      BY <1>1, <1>4, Zenon DEF AbortWithEnvelope
<1>7. Kept(v, st)
      BY <1>2, <1>5 DEF Kept
<1>. QED  BY <1>2, <1>5, <1>6, <1>7

\* And so they do: the chain panics, is passed, or stops on the way, with an
\* error or without.
LEMMA AnswerBehindCORS ==
    ASSUME NEW E, NEW S, FileNames \subseteq S, NEW x \in Exchanges(E, S), NEW st, Clean(st)
    PROVE  \E n : Behind(x, st, n) /\ Answer(x, st, n, NextOfCORS(x, st))
<1>1. PICK n : n = NextOfRequest(x, st)
      OBVIOUS
<1>2. Behind(x, st, n)
      BY <1>1, BehindRequest
<1>3. PICK c : c = Chain(x, st, [st |-> n, err |-> n.err])
      OBVIOUS
<1>4. /\ Shape(st) /\ st.panic = FALSE /\ st.passed = FALSE /\ st.written = <<>> /\ st.ran = 0
      /\ Kept(n, st) /\ Shape(n) /\ n.panic = FALSE /\ n.passed = TRUE
      BY <1>2 DEF Clean, Behind, Kept
<1>5. ChainComesTo(x, st, n, n.err, c)
  <2>1. x.chain \in Seq(Middlewares(E))
        BY DEF Exchanges
  <2>. QED  BY <1>3, <1>4, <2>1, ChainResult
<1>6. PICK q : q = RequestInterceptor(x, st)
      OBVIOUS
<1>7. q = IF c.st.panic \/ c.err = NoError \/ c.st.written # <<>> THEN c.st
          ELSE AbortWithEnvelope(c.st, ErrorEnvelope(c.err))
      BY <1>1, <1>3, <1>6, Zenon DEF RequestInterceptor
<1>8. PICK g : g = IF q.panic \/ q.passed THEN q ELSE NextOfRequest(x, q)
      OBVIOUS
<1>9. PICK h : h = RecoveryInterceptor(g)
      OBVIOUS
<1>10. NextOfCORS(x, st) = h
  <2>1. NextOfRecovery(x, st) = g
        BY <1>6, <1>8, Zenon DEF NextOfRecovery, Then
  <2>2. Then(g, RecoveryInterceptor) = h
        BY <1>9, Zenon DEF Then
  <2>. QED  BY <2>1, <2>2, Zenon DEF NextOfCORS
<1>11. CASE MiddlewarePanics(x)
  <2>1. PICK base : base = IF Reached(x) THEN n ELSE st
        OBVIOUS
  <2>2. c.st \in {base, [base EXCEPT !.panic = TRUE]} /\ c.st.panic = TRUE
        BY <1>5, <1>11, <2>1, Zenon DEF ChainComesTo
  <2>3. Shape(base) /\ Kept(base, st)
        BY <1>4, <2>1 DEF Kept
  <2>4. PICK p : p = [base EXCEPT !.panic = TRUE]
        OBVIOUS
  <2>5. Kept(p, base) /\ p.written = base.written /\ p.ran = base.ran
        BY <2>3, <2>4, Calm
  <2>6. Kept(c.st, st) /\ c.st.written = base.written /\ c.st.ran = base.ran
        BY <2>2, <2>3, <2>4, <2>5 DEF Kept
  <2>7. q = c.st
        BY <1>7, <2>2
  <2>8. g = q
        BY <1>8, <2>2, <2>7
  <2>9. Shape(g) /\ g.panic = TRUE
        BY <2>2, <2>6, <2>7, <2>8 DEF Kept
  <2>10. /\ Kept(h, g) /\ h.panic = FALSE /\ h.ran = g.ran
         /\ h.written = IF g.written = <<>> THEN <<PanicBody>> ELSE g.written
        BY <1>9, <2>9, Recovers
  <2>11. Kept(h, st)
        BY <2>6, <2>7, <2>8, <2>10 DEF Kept
  <2>12. ~Hidden(x)
        BY <1>11, Zenon DEF Hidden
  <2>13. h.ran = IF Reached(x) THEN n.ran ELSE 0
        BY <1>4, <2>1, <2>6, <2>7, <2>8, <2>10
  <2>14. h.written = IF Reached(x) /\ n.written # <<>> THEN n.written ELSE <<PanicBody>>
        BY <1>4, <2>1, <2>6, <2>7, <2>8, <2>10
  <2>15. Answer(x, st, n, h)
        BY <1>11, <2>10, <2>11, <2>12, <2>13, <2>14, Zenon DEF Answer
  <2>. QED  BY <1>2, <1>10, <2>15
<1>12. CASE ~MiddlewarePanics(x) /\ Reached(x)
  <2>1. c.st = n /\ (n.err = x.handler.returns => c.err = Verdict(x))
        BY <1>4, <1>5, <1>12, Zenon DEF ChainComesTo
  <2>2. x.routed => c.err = Verdict(x)
        BY <1>2, <2>1, Zenon DEF Behind
  <2>3. ~Hidden(x)
        BY <1>12, Zenon DEF Hidden
  <2>4. CASE c.err = NoError \/ n.written # <<>>
    <3>1. q = n
          BY <1>4, <1>7, <2>1, <2>4
    <3>2. g = n
          BY <1>4, <1>8, <3>1
    <3>3. h = n
          BY <1>4, <1>9, <3>2 DEF RecoveryInterceptor
    <3>4. Answer(x, st, n, h)
          BY <1>4, <1>12, <2>2, <2>3, <2>4, <3>3, Zenon DEF Answer
    <3>. QED  BY <1>2, <1>10, <3>4
  <2>5. CASE c.err # NoError /\ n.written = <<>>
    <3>1. q = AbortWithEnvelope(n, ErrorEnvelope(c.err))
          BY <1>4, <1>7, <2>1, <2>5
    <3>2. Kept(q, n) /\ q.written = <<ErrorEnvelope(c.err)>> /\ q.panic = FALSE /\ q.ran = n.ran /\ q.passed = TRUE
          BY <1>4, <2>5, <3>1, AbortsWith
    <3>3. g = q
          BY <1>8, <3>2
    <3>4. h = q
          BY <1>9, <3>2, <3>3 DEF RecoveryInterceptor
    <3>5. Kept(h, st)
          BY <1>4, <3>2, <3>4 DEF Kept
    <3>6. Answer(x, st, n, h)
          BY <1>12, <2>2, <2>3, <2>5, <3>2, <3>4, <3>5, Zenon DEF Answer
    <3>. QED  BY <1>2, <1>10, <3>6
  <2>. QED  BY <2>4, <2>5
<1>13. CASE ~MiddlewarePanics(x) /\ ~Reached(x)
  <2>1. c.st = st /\ c.err = Verdict(x)
        BY <1>4, <1>5, <1>13, Zenon DEF ChainComesTo
  <2>2. Hidden(x) <=> Verdict(x) = NoError
        BY <1>13, Zenon DEF Hidden
  <2>3. CASE Verdict(x) = NoError
    <3>1. q = st
          BY <1>7, <2>1, <2>3
    <3>2. g = n
          BY <1>1, <1>4, <1>8, <3>1
    <3>3. h = n
          BY <1>4, <1>9, <3>2 DEF RecoveryInterceptor
    <3>4. Answer(x, st, n, h)
          BY <1>4, <1>13, <2>2, <2>3, <3>3, Zenon DEF Answer
    <3>. QED  BY <1>2, <1>10, <3>4
  <2>4. CASE Verdict(x) # NoError
    <3>1. q = AbortWithEnvelope(st, ErrorEnvelope(Verdict(x)))
          BY <1>4, <1>7, <2>1, <2>4
    <3>2. Kept(q, st) /\ q.written = <<ErrorEnvelope(Verdict(x))>> /\ q.panic = FALSE /\ q.ran = 0 /\ q.passed = TRUE
          BY <1>4, <3>1, AbortsWith
    <3>3. g = q
          BY <1>8, <3>2
    <3>4. h = q
          BY <1>9, <3>2, <3>3 DEF RecoveryInterceptor
    <3>5. Answer(x, st, n, h)
          BY <1>13, <2>2, <2>4, <3>2, <3>4, Zenon DEF Answer
    <3>. QED  BY <1>2, <1>10, <3>5
  <2>. QED  BY <2>3, <2>4
<1>. QED  BY <1>11, <1>12, <1>13

-----------------------------------------------------------------------------
(* The request pipeline: whole answers.                                    *)

\* A preflight is answered by CORS alone; any other request goes on behind it,
\* with the CORS headers of its answer set before.
Served(x, r) ==
    \/ /\ Preflight(x)
       /\ r.panic = FALSE /\ r.ran = 0 /\ r.written = <<PreflightBody>>
    \/ /\ ~Preflight(x)
       /\ \E st, n : Behind(x, st, n) /\ Answer(x, st, n, r)

\* The CORS headers of an answer.
Announced(x, r) ==
    IF x.cors.origins # {} /\ x.origin # "" /\ OriginAllowed(x)
    THEN /\ r.origin = IF x.cors.credentials \/ "*" \notin x.cors.origins THEN x.origin ELSE "*"
         /\ r.credentials = x.cors.credentials
    ELSE r.origin = "none" /\ r.credentials = FALSE

\* A request begins with nothing written, and no CORS headers.
LEMMA FreshClean ==
    Clean(Fresh) /\ Fresh.origin = "none" /\ Fresh.credentials = FALSE
<1>1. Shape(Fresh)
      BY DEF Shape, Fresh
<1>2. Fresh.panic = FALSE /\ Fresh.passed = FALSE
      BY DEF Fresh
<1>3. Fresh.credentials = FALSE
      BY DEF Fresh
<1>4. Fresh.written = <<>> /\ Fresh.err = NoError /\ Fresh.ran = 0 /\ Fresh.origin = "none"
      BY DEF Fresh
<1>. QED  BY <1>1, <1>2, <1>3, <1>4, Zenon DEF Clean

\* The CORS headers change nothing else.
LEMMA HeadersClean ==
    ASSUME NEW E, NEW S, NEW x \in Exchanges(E, S)
    PROVE  LET st == CORSHeaders(x, Fresh) IN
           /\ Clean(st)
           /\ st.origin = IF x.cors.credentials \/ "*" \notin x.cors.origins THEN x.origin ELSE "*"
           /\ st.credentials = x.cors.credentials
<1>1. PICK cr \in BOOLEAN : cr = x.cors.credentials
      BY DEF Exchanges
<1>2. PICK o : o = IF x.cors.credentials \/ "*" \notin x.cors.origins THEN x.origin ELSE "*"
      OBVIOUS
<1>3. PICK f : f = Fresh
      OBVIOUS
<1>. DEFINE st == [f EXCEPT !.origin = o, !.credentials = cr]
<1>4. Shape(f) /\ f.panic = FALSE /\ f.passed = FALSE /\ f.written = <<>> /\ f.err = NoError /\ f.ran = 0
      BY <1>3, FreshClean DEF Clean
<1>5. st = [passed |-> f.passed, written |-> f.written, err |-> f.err, panic |-> f.panic,
            ran |-> f.ran, origin |-> o, credentials |-> cr]
  <2>1. PICK t : t = [f EXCEPT !.origin = o]
        OBVIOUS
  <2>2. t = [passed |-> f.passed, written |-> f.written, err |-> f.err, panic |-> f.panic,
             ran |-> f.ran, origin |-> o, credentials |-> f.credentials]
        BY <1>4, <2>1 DEF Shape
  <2>3. st = [t EXCEPT !.credentials = cr]
        BY <2>1
  <2>. HIDE DEF st
  <2>. QED  BY <2>2, <2>3
<1>6. st.credentials = cr
      BY <1>5, Zenon
<1>7. st.panic = f.panic /\ st.passed = f.passed
      BY <1>5
<1>8. st.written = <<>> /\ st.err = NoError /\ st.ran = 0 /\ st.origin = o
      BY <1>4, <1>5
<1>9. Shape(st)
      BY <1>5 DEF Shape
<1>10. CORSHeaders(x, Fresh) = st
      BY <1>1, <1>2, <1>3, Zenon DEF CORSHeaders
<1>. HIDE DEF st
<1>11. Clean(st)
      BY <1>4, <1>7, <1>8, <1>9 DEF Clean
<1>. QED  BY <1>1, <1>2, <1>6, <1>8, <1>10, <1>11

\* The HTTP server's answer.
LEMMA ServeResult ==
    ASSUME NEW E, NEW S, FileNames \subseteq S, NEW x \in Exchanges(E, S)
    PROVE  Served(x, ServeHTTP(x)) /\ Announced(x, ServeHTTP(x))
<1>1. PICK r : r = ServeHTTP(x)
      OBVIOUS
<1>2. x.cors.origins = {} => ~OriginAllowed(x)
      BY DEF OriginAllowed
<1>3. CASE x.cors.origins = {} \/ x.origin = "" \/ ~OriginAllowed(x)
  <2>1. r = NextOfCORS(x, Fresh)
        BY <1>1, <1>3, Zenon DEF ServeHTTP, CORSInterceptor
  <2>2. PICK n : Behind(x, Fresh, n) /\ Answer(x, Fresh, n, r)
        BY <2>1, AnswerBehindCORS, FreshClean
  <2>3. ~Preflight(x)
        BY <1>2, <1>3, Zenon DEF Preflight
  <2>4. Served(x, r)
        BY <2>2, <2>3, Zenon DEF Served
  <2>5. r.origin = "none" /\ r.credentials = FALSE
        BY <2>2, FreshClean, Zenon DEF Answer, Kept
  <2>6. Announced(x, r)
        BY <1>3, <2>5, Zenon DEF Announced
  <2>. QED  BY <1>1, <2>4, <2>6
<1>4. CASE ~(x.cors.origins = {} \/ x.origin = "" \/ ~OriginAllowed(x))
  <2>1. PICK st : st = CORSHeaders(x, Fresh)
        OBVIOUS
  <2>2. /\ Clean(st)
        /\ st.origin = IF x.cors.credentials \/ "*" \notin x.cors.origins THEN x.origin ELSE "*"
        /\ st.credentials = x.cors.credentials
        BY <2>1, HeadersClean
  <2>3. ASSUME Kept(r, st) PROVE Announced(x, r)
        BY <1>4, <2>2, <2>3, Zenon DEF Kept, Announced
  <2>4. CASE x.method # "OPTIONS"
    <3>1. r = NextOfCORS(x, st)
          BY <1>1, <1>4, <2>1, <2>4, Zenon DEF ServeHTTP, CORSInterceptor
    <3>2. PICK n : Behind(x, st, n) /\ Answer(x, st, n, r)
          BY <2>2, <3>1, AnswerBehindCORS
    <3>3. Served(x, r)
          BY <2>4, <3>2, Zenon DEF Served, Preflight
    <3>4. Kept(r, st)
          BY <3>2, Zenon DEF Answer
    <3>. QED  BY <1>1, <2>3, <3>3, <3>4
  <2>5. CASE x.method = "OPTIONS"
    <3>1. PICK w : w = Write(st, PreflightBody)
          OBVIOUS
    <3>2. r = Abort(w)
          BY <1>1, <1>4, <2>1, <2>5, <3>1, Zenon DEF ServeHTTP, CORSInterceptor
    <3>3. Kept(w, st) /\ w.written = <<PreflightBody>> /\ w.panic = FALSE /\ w.ran = 0
          BY <2>2, <3>1, Wrote DEF Clean
    <3>4. Shape(w)
          BY <3>3 DEF Kept
    <3>5. Kept(r, w) /\ r.written = w.written /\ r.panic = w.panic /\ r.ran = w.ran
          BY <3>2, <3>4, AbortKeeps
    <3>6. Kept(r, st)
          BY <3>3, <3>5 DEF Kept
    <3>7. Served(x, r)
          BY <1>4, <2>5, <3>3, <3>5, Zenon DEF Served, Preflight
    <3>. QED  BY <1>1, <2>3, <3>6, <3>7
  <2>. QED  BY <2>4, <2>5
<1>. QED  BY <1>3, <1>4

\* The gRPC transport runs the handler in the same cases and, when nothing
\* panics, answers with the verdict.
LEMMA UnaryResult ==
    ASSUME NEW E, NEW S, NEW x \in Exchanges(E, S)
    PROVE  LET g == UnaryServerInterceptor(x) IN
           /\ g.ran = IF Reached(x) THEN 1 ELSE 0
           /\ ~g.panic => /\ ~MiddlewarePanics(x)
                          /\ Reached(x) => ~x.handler.panics
                          /\ g.status = MapGRPCError(Verdict(x))
<1>1. PICK st : st = Fresh
      OBVIOUS
<1>2. Clean(st) /\ Shape(st) /\ st.panic = FALSE /\ st.ran = 0
      BY <1>1, FreshClean DEF Clean
<1>3. PICK n : n = RunHandler(x, st)
      OBVIOUS
<1>4. Kept(n, st) /\ n.ran = 1 /\ n.err = x.handler.returns /\ n.panic = x.handler.panics
      BY <1>2, <1>3, HandlerLeaves
<1>5. x.handler.panics \in BOOLEAN /\ x.chain \in Seq(Middlewares(E))
      BY DEF Exchanges, HandlerRuns
<1>6. Shape(n) /\ n.panic \in BOOLEAN
      BY <1>4, <1>5 DEF Kept
<1>7. PICK c : c = Chain(x, st, [st |-> n, err |-> n.err])
      OBVIOUS
<1>8. ChainComesTo(x, st, n, n.err, c)
      BY <1>2, <1>5, <1>6, <1>7, ChainResult
<1>9. PICK base : base = IF Reached(x) THEN n ELSE st
      OBVIOUS
<1>10. /\ (base.panic \/ MiddlewarePanics(x)) => c.st \in {base, [base EXCEPT !.panic = TRUE]} /\ c.st.panic = TRUE
       /\ ~(base.panic \/ MiddlewarePanics(x)) => c.st = base /\ c.err = Verdict(x)
      BY <1>4, <1>8, <1>9, Zenon DEF ChainComesTo
<1>11. Shape(base) /\ base.panic \in BOOLEAN /\ base.ran = IF Reached(x) THEN 1 ELSE 0
      BY <1>2, <1>4, <1>6, <1>9, Zenon
<1>12. PICK p : p = [base EXCEPT !.panic = TRUE]
      OBVIOUS
<1>13. p.ran = base.ran
      BY <1>11, <1>12, Calm
<1>14. c.st.ran = IF Reached(x) THEN 1 ELSE 0
      BY <1>10, <1>11, <1>12, <1>13
<1>15. PICK g : g = UnaryServerInterceptor(x)
      OBVIOUS
<1>16. g = [status |-> MapGRPCError(c.err), ran |-> c.st.ran, panic |-> c.st.panic]
      BY <1>1, <1>3, <1>7, <1>15, Zenon DEF UnaryServerInterceptor
<1>17. g.status = MapGRPCError(c.err) /\ g.ran = c.st.ran
      BY <1>16
<1>18. g.panic = c.st.panic
      BY <1>16
<1>19. ASSUME ~g.panic
       PROVE  /\ ~MiddlewarePanics(x)
              /\ Reached(x) => ~x.handler.panics
              /\ g.status = MapGRPCError(Verdict(x))
  <2>1. ~(base.panic \/ MiddlewarePanics(x))
        BY <1>10, <1>18, <1>19
  <2>2. c.err = Verdict(x)
        BY <1>10, <2>1
  <2>3. Reached(x) => ~x.handler.panics
        BY <1>4, <1>9, <2>1
  <2>. QED  BY <1>17, <2>1, <2>2, <2>3
<1>. QED  BY <1>14, <1>15, <1>17, <1>19, Zenon

\* An error that reaches grpc-go as it is fails.
LEMMA OwnFails == \A e : OwnStatus(e) \in 1..16
<1>1. SUFFICES ASSUME NEW e PROVE OwnStatus(e) \in 1..16
      OBVIOUS
<1>2. CASE \E k \in 1..16 : StatusErrors[k] = e.code
  <2>1. OwnStatus(e) = CHOOSE k \in 1..16 : StatusErrors[k] = e.code
        BY <1>2, Zenon DEF OwnStatus
  <2>. QED  BY <1>2, <2>1, Zenon
<1>3. CASE ~\E k \in 1..16 : StatusErrors[k] = e.code
  <2>1. OwnStatus(e) = 2
        BY <1>3, Zenon DEF OwnStatus
  <2>. QED  BY <2>1
<1>. QED  BY <1>2, <1>3

\* An error fails on both transports or on none, and the two statuses of a code
\* blame the same side.
LEMMA StatusesAgree ==
    ASSUME NEW e, e # NoError
    PROVE  /\ SameOutcome(ErrorEnvelope(e).status, MapGRPCError(e))
           /\ Coded(e) => SameSide(ErrorEnvelope(e).status, MapGRPCError(e))
<1>1. \A s, c : Envelope(s, c).status = s
      BY DEF Envelope
<1>2. CASE Coded(e)
  <2>1. PICK c \in Codes : c = e.code
        BY <1>2 DEF Coded
  <2>2. ErrorEnvelope(e).status = HTTPStatus(c) /\ MapGRPCError(e) = GRPCStatus(c)
        BY <1>1, <1>2, <2>1 DEF ErrorEnvelope, MapGRPCError
  <2>3. /\ HTTPStatus(c) \in 300..599 /\ GRPCStatus(c) \in 1..16
        /\ HTTPStatus(c) \in 500..599 => GRPCStatus(c) \in {2, 4, 10, 12, 13, 14}
        /\ HTTPStatus(c) \in 400..499 => GRPCStatus(c) \in {1, 3, 5, 6, 7, 8, 9, 10, 16}
    <3>1. CASE c \in {"NotFound"}
      <4>1. HTTPStatus(c) = 404
            BY <3>1 DEF HTTPStatus
      <4>2. GRPCStatus(c) = 5
            BY <3>1 DEF GRPCStatus
      <4>. QED  BY <4>1, <4>2
    <3>2. CASE c \in {"PermissionDenied", "AccessDenied"}
      <4>1. HTTPStatus(c) = 403
            BY <3>2 DEF HTTPStatus
      <4>2. GRPCStatus(c) = 7
            BY <3>2 DEF GRPCStatus
      <4>. QED  BY <4>1, <4>2
    <3>3. CASE c \in {"TokenExpired", "Unauthorized", "TokenInvalid"}
      <4>1. HTTPStatus(c) = 401
            BY <3>3 DEF HTTPStatus
      <4>2. GRPCStatus(c) = 16
            BY <3>3 DEF GRPCStatus
      <4>. QED  BY <4>1, <4>2
    <3>4. CASE c \in {"Invalid", "Malformed", "MissingField", "OutOfRange"}
      <4>1. HTTPStatus(c) = 400
            BY <3>4 DEF HTTPStatus
      <4>2. GRPCStatus(c) = 3
            BY <3>4 DEF GRPCStatus
      <4>. QED  BY <4>1, <4>2
    <3>5. CASE c \in {"TooLarge"}
      <4>1. HTTPStatus(c) = 413
            BY <3>5 DEF HTTPStatus
      <4>2. GRPCStatus(c) = 3
            BY <3>5 DEF GRPCStatus
      <4>. QED  BY <4>1, <4>2
    <3>6. CASE c \in {"UnsupportedFormat"}
      <4>1. HTTPStatus(c) = 415
            BY <3>6 DEF HTTPStatus
      <4>2. GRPCStatus(c) = 3
            BY <3>6 DEF GRPCStatus
      <4>. QED  BY <4>1, <4>2
    <3>7. CASE c \in {"Exists", "UniqueViolation"}
      <4>1. HTTPStatus(c) = 409
            BY <3>7 DEF HTTPStatus
      <4>2. GRPCStatus(c) = 6
            BY <3>7 DEF GRPCStatus
      <4>. QED  BY <4>1, <4>2
    <3>8. CASE c \in {"Conflict"}
      <4>1. HTTPStatus(c) = 409
            BY <3>8 DEF HTTPStatus
      <4>2. GRPCStatus(c) = 10
            BY <3>8 DEF GRPCStatus
      <4>. QED  BY <4>1, <4>2
    <3>9. CASE c \in {"Unprocessable"}
      <4>1. HTTPStatus(c) = 422
            BY <3>9 DEF HTTPStatus
      <4>2. GRPCStatus(c) = 3
            BY <3>9 DEF GRPCStatus
      <4>. QED  BY <4>1, <4>2
    <3>10. CASE c \in {"PreconditionFailed"}
      <4>1. HTTPStatus(c) = 412
            BY <3>10 DEF HTTPStatus
      <4>2. GRPCStatus(c) = 9
            BY <3>10 DEF GRPCStatus
      <4>. QED  BY <4>1, <4>2
    <3>11. CASE c \in {"RateLimited", "QuotaExceeded", "TooManyAttempts"}
      <4>1. HTTPStatus(c) = 429
            BY <3>11 DEF HTTPStatus
      <4>2. GRPCStatus(c) = 8
            BY <3>11 DEF GRPCStatus
      <4>. QED  BY <4>1, <4>2
    <3>12. CASE c \in {"Timeout", "DeadlineExceeded"}
      <4>1. HTTPStatus(c) = 504
            BY <3>12 DEF HTTPStatus
      <4>2. GRPCStatus(c) = 4
            BY <3>12 DEF GRPCStatus
      <4>. QED  BY <4>1, <4>2
    <3>13. CASE c \in {"Canceled"}
      <4>1. HTTPStatus(c) = 499
            BY <3>13 DEF HTTPStatus
      <4>2. GRPCStatus(c) = 1
            BY <3>13 DEF GRPCStatus
      <4>. QED  BY <4>1, <4>2
    <3>14. CASE c \in {"Unavailable", "DatabaseError", "CacheError", "UpstreamError"}
      <4>1. HTTPStatus(c) = 503
            BY <3>14 DEF HTTPStatus
      <4>2. GRPCStatus(c) = 14
            BY <3>14 DEF GRPCStatus
      <4>. QED  BY <4>1, <4>2
    <3>15. CASE c \in {"Deadlock"}
      <4>1. HTTPStatus(c) = 503
            BY <3>15 DEF HTTPStatus
      <4>2. GRPCStatus(c) = 10
            BY <3>15 DEF GRPCStatus
      <4>. QED  BY <4>1, <4>2
    <3>16. CASE c \in {"NotImplemented"}
      <4>1. HTTPStatus(c) = 501
            BY <3>16 DEF HTTPStatus
      <4>2. GRPCStatus(c) = 12
            BY <3>16 DEF GRPCStatus
      <4>. QED  BY <4>1, <4>2
    <3>17. CASE c \in {"Internal"}
      <4>1. HTTPStatus(c) = 500
            BY <3>17 DEF HTTPStatus
      <4>2. GRPCStatus(c) = 13
            BY <3>17 DEF GRPCStatus
      <4>. QED  BY <4>1, <4>2
    <3>18. CASE c \in {"OK", "Exit", "Incompatible", "Expired", "NetworkUnreachable", "ConnectionRefused"}
      <4>1. HTTPStatus(c) = 500
            BY <3>18 DEF HTTPStatus
      <4>2. GRPCStatus(c) = 2
            BY <3>18 DEF GRPCStatus
      <4>. QED  BY <4>1, <4>2
    <3>. QED  BY <3>1, <3>2, <3>3, <3>4, <3>5, <3>6, <3>7, <3>8, <3>9, <3>10, <3>11, <3>12, <3>13, <3>14, <3>15, <3>16, <3>17, <3>18 DEF Codes
  <2>. QED  BY <2>2, <2>3 DEF SameSide, SameOutcome
<1>3. CASE ~Coded(e) /\ e.abort
  <2>1. ErrorEnvelope(e) = Envelope(200, "OK")
        BY <1>3 DEF ErrorEnvelope
  <2>2. MapGRPCError(e) = 0
        BY <1>3 DEF MapGRPCError
  <2>. QED  BY <1>1, <1>3, <2>1, <2>2 DEF SameOutcome
<1>4. CASE ~Coded(e) /\ ~e.abort
  <2>1. ErrorEnvelope(e) = Envelope(500, "Unavailable")
        BY <1>4 DEF ErrorEnvelope
  <2>2. MapGRPCError(e) \in 1..16
        BY <1>4, OwnFails DEF MapGRPCError
  <2>. QED  BY <1>1, <1>4, <2>1, <2>2 DEF SameOutcome
<1>. QED  BY <1>2, <1>3, <1>4

\* The first part of OneAnswer: one response, the handler's or the error's.
LEMMA AnsweredOnceHolds ==
    ASSUME NEW E, NEW S, FileNames \subseteq S, NEW x \in Exchanges(E, S)
    PROVE  AnsweredOnce(x, ServeHTTP(x))
<1>1. PICK r : r = ServeHTTP(x)
      OBVIOUS
<1>2. Served(x, r)
      BY <1>1, ServeResult
<1>3. SUFFICES
        /\ ~r.panic
        /\ Len(r.written) <= 1
        /\ r.ran = IF (x.routed /\ ~Preflight(x)) /\ (Reached(x) \/ Hidden(x)) THEN 1 ELSE 0
        /\ (r.ran = 1 /\ x.handler.writes) => r.written = <<HandlerBody>>
        /\ ((x.routed /\ ~Preflight(x)) /\ ~Hidden(x) /\ ~(MiddlewarePanics(x) \/ (r.ran = 1 /\ x.handler.panics))
               /\ (r.ran = 0 \/ ~x.handler.writes)) =>
              r.written = IF Verdict(x) = NoError THEN <<>> ELSE <<ErrorEnvelope(Verdict(x))>>
        /\ ((x.routed /\ ~Preflight(x)) /\ (MiddlewarePanics(x) \/ (r.ran = 1 /\ x.handler.panics))) =>
              r.written # <<>>
      BY <1>1, Zenon DEF AnsweredOnce
<1>4. Len(<<>>) <= 1 /\ \A b : Len(<<b>>) <= 1 /\ <<b>> # <<>>
      OBVIOUS
<1>5. CASE Preflight(x)
  <2>1. r.panic = FALSE /\ r.ran = 0 /\ r.written = <<PreflightBody>>
        BY <1>2, <1>5, Zenon DEF Served
  <2>2. PICK b : b = PreflightBody
        OBVIOUS
  <2>3. Len(r.written) <= 1
        BY <1>4, <2>1, <2>2, Zenon
  <2>. QED  BY <1>5, <2>1, <2>3
<1>6. CASE ~Preflight(x)
  <2>1. PICK st, n : Behind(x, st, n) /\ Answer(x, st, n, r)
        BY <1>2, <1>6, Zenon DEF Served
  <2>2. PICK internal : internal = <<PanicBody>>
        OBVIOUS
  <2>3. PICK body : body = <<HandlerBody>>
        OBVIOUS
  <2>4. PICK refusal : refusal = <<ErrorEnvelope(Verdict(x))>>
        OBVIOUS
  <2>5. /\ internal # <<>> /\ body # <<>> /\ refusal # <<>>
        /\ Len(internal) <= 1 /\ Len(body) <= 1 /\ Len(refusal) <= 1
        BY <1>4, <2>2, <2>3, <2>4, Zenon
  <2>6. /\ r.panic = FALSE
        /\ r.ran = IF Reached(x) \/ Hidden(x) THEN n.ran ELSE 0
        /\ MiddlewarePanics(x) => r.written = IF Reached(x) /\ n.written # <<>> THEN n.written ELSE internal
        /\ Hidden(x) => r.written = n.written
        /\ ~MiddlewarePanics(x) /\ ~Reached(x) /\ ~Hidden(x) => r.written = refusal
        /\ ~MiddlewarePanics(x) /\ Reached(x) /\ n.written # <<>> => r.written = n.written
        /\ ~MiddlewarePanics(x) /\ Reached(x) /\ n.written = <<>> /\ x.routed =>
              r.written = IF Verdict(x) = NoError THEN <<>> ELSE refusal
        BY <2>1, <2>2, <2>4, Zenon DEF Answer
  <2>7. Hidden(x) => ~Reached(x) /\ ~MiddlewarePanics(x) /\ Verdict(x) = NoError
        BY Zenon DEF Hidden
  <2>8. ~Reached(x) /\ ~MiddlewarePanics(x) /\ ~Hidden(x) => Verdict(x) # NoError
        BY Zenon DEF Hidden
  <2>9. CASE x.routed
    <3>1. n.ran = 1 /\ n.written = IF x.handler.writes THEN body ELSE IF x.handler.panics THEN internal ELSE <<>>
          BY <2>1, <2>2, <2>3, <2>9, Zenon DEF Behind
    <3>2. 1 # 0
          OBVIOUS
    <3>3. r.ran = IF Reached(x) \/ Hidden(x) THEN 1 ELSE 0
          BY <2>6, <3>1, Zenon
    <3>4. Len(r.written) <= 1
      <4>1. Len(n.written) <= 1
            BY <1>4, <2>5, <3>1, Zenon
      <4>. QED  BY <1>4, <2>5, <2>6, <2>9, <4>1, Zenon
    <3>5. (r.ran = 1 /\ x.handler.writes) => r.written = body
          BY <2>5, <2>6, <2>7, <3>1, <3>2, <3>3, Zenon
    <3>6. ASSUME ~Hidden(x), ~(MiddlewarePanics(x) \/ (r.ran = 1 /\ x.handler.panics)), r.ran = 0 \/ ~x.handler.writes
          PROVE  r.written = IF Verdict(x) = NoError THEN <<>> ELSE refusal
          BY <2>6, <2>8, <2>9, <3>1, <3>2, <3>3, <3>6, Zenon
    <3>7. ASSUME MiddlewarePanics(x) \/ (r.ran = 1 /\ x.handler.panics)
          PROVE  r.written # <<>>
          BY <2>5, <2>6, <2>7, <3>1, <3>2, <3>3, <3>7, Zenon
    <3>. QED  BY <1>6, <2>3, <2>4, <2>6, <2>9, <3>3, <3>4, <3>5, <3>6, <3>7, Zenon
  <2>10. CASE ~x.routed
    <3>1. PICK b : n.ran = 0 /\ n.written = <<b>>
          BY <2>1, <2>10, Zenon DEF Behind
    <3>2. n.written # <<>> /\ Len(n.written) <= 1
          BY <1>4, <3>1, Zenon
    <3>3. 1 # 0
          OBVIOUS
    <3>4. r.ran = 0
          BY <2>6, <3>1, Zenon
    <3>5. Len(r.written) <= 1
          BY <2>5, <2>6, <3>2, Zenon
    <3>. QED  BY <2>6, <2>10, <3>3, <3>4, <3>5, Zenon
  <2>. QED  BY <2>9, <2>10
<1>. QED  BY <1>5, <1>6

\* The second: gRPC and HTTP agree.
LEMMA TransportsAgreeHolds ==
    ASSUME NEW E, NEW S, FileNames \subseteq S, NEW x \in Exchanges(E, S)
    PROVE  TransportsAgree(x, ServeHTTP(x), UnaryServerInterceptor(x))
<1>1. PICK r : r = ServeHTTP(x)
      OBVIOUS
<1>2. PICK g : g = UnaryServerInterceptor(x)
      OBVIOUS
<1>3. SUFFICES ASSUME x.routed, ~Preflight(x), ~Hidden(x)
               PROVE  /\ g.ran = r.ran
                      /\ (~g.panic /\ r.written # <<>> /\ r.written # <<HandlerBody>>) =>
                            /\ SameOutcome(r.written[1].status, g.status)
                            /\ Coded(Verdict(x)) => SameSide(r.written[1].status, g.status)
      BY <1>1, <1>2, Zenon DEF TransportsAgree
<1>4. PICK st, n : Behind(x, st, n) /\ Answer(x, st, n, r)
      BY <1>1, <1>3, ServeResult, Zenon DEF Served
<1>5. /\ g.ran = IF Reached(x) THEN 1 ELSE 0
      /\ ~g.panic => /\ ~MiddlewarePanics(x)
                     /\ Reached(x) => ~x.handler.panics
                     /\ g.status = MapGRPCError(Verdict(x))
      BY <1>2, UnaryResult
<1>6. g.ran = r.ran
      BY <1>3, <1>4, <1>5, Zenon DEF Behind, Answer
<1>7. ASSUME ~g.panic, r.written # <<>>, r.written # <<HandlerBody>>
      PROVE  /\ SameOutcome(r.written[1].status, g.status)
             /\ Coded(Verdict(x)) => SameSide(r.written[1].status, g.status)
  <2>1. ~MiddlewarePanics(x) /\ (Reached(x) => ~x.handler.panics) /\ g.status = MapGRPCError(Verdict(x))
        BY <1>5, <1>7
  <2>2. n.written = IF x.handler.writes THEN <<HandlerBody>>
                    ELSE IF x.handler.panics THEN <<PanicBody>> ELSE <<>>
        BY <1>3, <1>4, Zenon DEF Behind
  <2>3. r.written = <<ErrorEnvelope(Verdict(x))>> /\ Verdict(x) # NoError
    <3>1. CASE Reached(x)
      <4>1. n.written # <<>> => r.written = n.written
            BY <1>4, <2>1, <3>1, Zenon DEF Answer
      <4>2. n.written = <<>>
            BY <1>7, <2>1, <2>2, <3>1, <4>1, Zenon
      <4>. QED  BY <1>3, <1>4, <1>7, <2>1, <3>1, <4>2, Zenon DEF Answer
    <3>2. CASE ~Reached(x)
          BY <1>3, <1>4, <2>1, <3>2, Zenon DEF Answer, Hidden
    <3>. QED  BY <3>1, <3>2
  <2>4. PICK e : e = Verdict(x)
        OBVIOUS
  <2>5. PICK b : b = ErrorEnvelope(e)
        OBVIOUS
  <2>6. r.written[1] = b
        BY <2>3, <2>4, <2>5
  <2>7. SameOutcome(b.status, MapGRPCError(e)) /\ (Coded(e) => SameSide(b.status, MapGRPCError(e)))
        BY <2>3, <2>4, <2>5, StatusesAgree, Zenon
  <2>. QED  BY <2>1, <2>4, <2>6, <2>7, Zenon
<1>. QED  BY <1>6, <1>7, Zenon

\* The third: files are sent as announced.
LEMMA FilesHonestHolds ==
    ASSUME NEW E, NEW S, FileNames \subseteq S, NEW x \in Exchanges(E, S)
    PROVE  FilesHonest(x, ServeHTTP(x))
<1>1. PICK r : r = ServeHTTP(x)
      OBVIOUS
<1>2. Served(x, r)
      BY <1>1, ServeResult
<1>3. BodyHonest(x, PanicBody) /\ BodyHonest(x, HandlerBody) /\ BodyHonest(x, PreflightBody)
      BY OwnBodiesHonest
<1>4. \A e : BodyHonest(x, ErrorEnvelope(e))
  <2>1. \A e : \E s, c : ErrorEnvelope(e) = Envelope(s, c)
        BY DEF ErrorEnvelope
  <2>. QED  BY <2>1, EnvelopesHonest
<1>5. r.written = <<>> \/ \E b : r.written = <<b>> /\ BodyHonest(x, b)
  <2>1. CASE Preflight(x)
        BY <1>2, <1>3, <2>1, Zenon DEF Served
  <2>2. CASE ~Preflight(x)
    <3>1. PICK st, n : Behind(x, st, n) /\ Answer(x, st, n, r)
          BY <1>2, <2>2, Zenon DEF Served
    <3>2. n.written = <<>> \/ \E b : n.written = <<b>> /\ BodyHonest(x, b)
      <4>1. CASE x.routed
        <5>1. n.written \in {<<HandlerBody>>, <<PanicBody>>, <<>>}
              BY <3>1, <4>1, Zenon DEF Behind
        <5>2. PICK b : b = PanicBody
              OBVIOUS
        <5>3. BodyHonest(x, b)
              BY <1>3, <5>2, Zenon
        <5>4. n.written \in {<<HandlerBody>>, <<b>>, <<>>}
              BY <5>1, <5>2, Zenon
        <5>. QED  BY <1>3, <5>3, <5>4
      <4>2. CASE ~x.routed
            BY <3>1, <4>2, Zenon DEF Behind
      <4>. QED  BY <4>1, <4>2
    <3>3. \/ r.written = n.written \/ r.written = <<PanicBody>> \/ r.written = <<>>
          \/ r.written = <<ErrorEnvelope(Verdict(x))>>
      <4>1. ~x.routed => n.written # <<>>
        <5>1. \A b : <<b>> # <<>>
              OBVIOUS
        <5>. QED  BY <3>1, <5>1, Zenon DEF Behind
      <4>. QED  BY <3>1, <4>1, Zenon DEF Answer
    <3>4. PICK b : b = PanicBody
          OBVIOUS
    <3>5. BodyHonest(x, b)
          BY <1>3, <3>4, Zenon
    <3>6. PICK c : c = ErrorEnvelope(Verdict(x))
          OBVIOUS
    <3>7. BodyHonest(x, c)
          BY <1>4, <3>6, Zenon
    <3>8. r.written = n.written \/ r.written = <<b>> \/ r.written = <<>> \/ r.written = <<c>>
          BY <3>3, <3>4, <3>6, Zenon
    <3>. QED  BY <3>2, <3>5, <3>7, <3>8
  <2>. QED  BY <2>1, <2>2
<1>6. ASSUME NEW f \in Range(r.written)
      PROVE  BodyHonest(x, f)
  <2>1. PICK i \in DOMAIN r.written : f = r.written[i]
        BY Zenon DEF Range
  <2>2. r.written # <<>>
        BY <2>1
  <2>3. PICK b : r.written = <<b>> /\ BodyHonest(x, b)
        BY <1>5, <2>2
  <2>4. f = b
        BY <2>1, <2>3
  <2>. QED  BY <2>3, <2>4
<1>. QED  BY <1>1, <1>6, Zenon DEF FilesHonest, BodyHonest

\* The fourth: CORS names the origin of an allowed request only.
LEMMA CORSHonestHolds ==
    ASSUME NEW E, NEW S, FileNames \subseteq S, NEW x \in Exchanges(E, S)
    PROVE  CORSHonest(x, ServeHTTP(x))
<1>1. PICK r : r = ServeHTTP(x)
      OBVIOUS
<1>2. Announced(x, r)
      BY <1>1, ServeResult
<1>3. x.origin # "none" /\ x.cors.credentials \in BOOLEAN
      BY DEF Exchanges
<1>. DEFINE allowed == x.cors.origins # {} /\ x.origin # "" /\ OriginAllowed(x)
<1>4. /\ (r.origin # "none") <=> allowed
      /\ r.origin \in {"none", "*", x.origin}
      /\ r.credentials => r.origin = x.origin
  <2>1. CASE allowed
    <3>1. /\ r.origin = IF x.cors.credentials \/ "*" \notin x.cors.origins THEN x.origin ELSE "*"
          /\ r.credentials = x.cors.credentials
          BY <1>2, <2>1, Zenon DEF Announced
    <3>2. "*" # "none"
          OBVIOUS
    <3>. QED  BY <1>3, <2>1, <3>1, <3>2, Zenon
  <2>2. CASE ~allowed
    <3>1. r.origin = "none" /\ r.credentials = FALSE
          BY <1>2, <2>2, Zenon DEF Announced
    <3>. QED  BY <2>2, <3>1, Zenon
  <2>. QED  BY <2>1, <2>2
<1>5. (r.origin # "none") = allowed
      BY <1>4
<1>. QED  BY <1>1, <1>4, <1>5, Zenon DEF CORSHonest

\* The errors and the strings of the model's own exchanges.
ModelErrors == {Err(a, c) : a \in BOOLEAN, c \in Codes \cup Uncoded \cup {"none"}}
ModelStrings ==
    FileNames \cup {"a", "b", "*", "o1", "o2", "malformed", "", "GET", "OPTIONS", "POST", "none", "gzip", "upgrade"}

\* A record of the right fields is an exchange.
LEMMA RecordIsOne ==
    ASSUME NEW E, NEW S, NEW chain \in Seq(Middlewares(E)), NEW method \in S, NEW yes \in BOOLEAN,
           NEW handler \in HandlerRuns(E), NEW cors \in [origins : SUBSET S, credentials : BOOLEAN],
           NEW origin \in S \ {"none"}, NEW no \in BOOLEAN, NEW prefix \in Seq(S), NEW files \in SUBSET Seq(S),
           NEW encoding \in S, NEW size \in Nat
    PROVE  [chain |-> chain, method |-> method, routed |-> yes, handler |-> handler, cors |-> cors,
            origin |-> origin, webroot |-> no, prefix |-> prefix, files |-> files, uri |-> prefix,
            encoding |-> encoding, autoCompress |-> no, asset |-> yes, size |-> size, ranged |-> no,
            stat |-> yes]
              \in Exchanges(E, S)
BY DEF Exchanges

\* So is the plain one the model varies,
LEMMA PlainIsOne ==
    ASSUME NEW E, NoError \in E, NEW S, ModelStrings \subseteq S
    PROVE  Plain \in Exchanges(E, S)
<1>1. [writes |-> TRUE, panics |-> FALSE, returns |-> NoError] \in HandlerRuns(E)
      BY DEF HandlerRuns
<1>2. NoCORS \in [origins : SUBSET S, credentials : BOOLEAN]
      BY DEF NoCORS
<1>3. TRUE \in BOOLEAN /\ FALSE \in BOOLEAN
      OBVIOUS
<1>4. /\ <<>> \in Seq(Middlewares(E)) /\ <<>> \in Seq(S)
      /\ {} \in SUBSET Seq(S) /\ SmallFile \in Nat
  <2>1. \A T : <<>> \in Seq(T)
        OBVIOUS
  <2>2. SmallFile \in Nat
        BY DEF SmallFile
  <2>. QED  BY <2>1, <2>2, Zenon
<1>5. "GET" \in S /\ "" \in S \ {"none"} /\ "none" \in S
      BY Zenon DEF ModelStrings
<1>. QED  BY <1>1, <1>2, <1>3, <1>4, <1>5, RecordIsOne, Zenon DEF Plain

\* with middlewares and a handler,
LEMMA HandlingIsOne ==
    ASSUME NEW E, NoError \in E, NEW S, ModelStrings \subseteq S,
           NEW chain \in Seq(Middlewares(E)), NEW handler \in HandlerRuns(E)
    PROVE  Handling(chain, handler) \in Exchanges(E, S)
<1>1. PICK p \in Exchanges(E, S) : p = Plain
      BY PlainIsOne
<1>2. [p EXCEPT !.chain = chain, !.handler = handler] \in Exchanges(E, S)
      BY DEF Exchanges
<1>. QED  BY <1>1, <1>2, Zenon DEF Handling

\* from another origin,
LEMMA CrossingIsOne ==
    ASSUME NEW E, NoError \in E, NEW S, ModelStrings \subseteq S,
           NEW chain \in Seq(Middlewares(E)), NEW handler \in HandlerRuns(E),
           NEW cfg \in [origins : SUBSET S, credentials : BOOLEAN], NEW origin \in S \ {"none"}, NEW method \in S
    PROVE  Crossing(cfg, origin, method, chain, handler) \in Exchanges(E, S)
<1>1. PICK p \in Exchanges(E, S) : p = Handling(chain, handler)
      BY HandlingIsOne
<1>2. [p EXCEPT !.cors = cfg, !.origin = origin, !.method = method] \in Exchanges(E, S)
      BY DEF Exchanges
<1>. QED  BY <1>1, <1>2, Zenon DEF Crossing

\* or for a file.
LEMMA FetchingIsOne ==
    ASSUME NEW E, NoError \in E, NEW S, ModelStrings \subseteq S,
           NEW method \in S, NEW prefix \in Seq(S), NEW uri \in Seq(S), NEW files \in SUBSET Seq(S),
           NEW encoding \in S, NEW size \in Nat, NEW compress \in BOOLEAN, NEW asset \in BOOLEAN,
           NEW stat \in BOOLEAN
    PROVE  Fetching(method, prefix, uri, files, encoding, size, compress, asset, stat) \in Exchanges(E, S)
<1>1. PICK p \in Exchanges(E, S) : p = Plain
      BY PlainIsOne
<1>2. [p EXCEPT !.routed = FALSE, !.webroot = TRUE, !.ranged = TRUE,
                !.method = method, !.prefix = prefix, !.uri = uri, !.files = files,
                !.encoding = encoding, !.size = size, !.autoCompress = compress, !.asset = asset,
                !.stat = stat] \in Exchanges(E, S)
      BY DEF Exchanges
<1>. QED  BY <1>1, <1>2, Zenon DEF Fetching

\* So every exchange the model checker tries is one of those the theorem is about.
LEMMA ModelExchanges ==
    PipelineInit => exchange \in Exchanges(ModelErrors, ModelStrings)
<1>1. PICK E : E = ModelErrors
      OBVIOUS
<1>2. PICK S : S = ModelStrings
      OBVIOUS
<1>3. \A a \in BOOLEAN, c \in Codes \cup Uncoded \cup {"none"} : Err(a, c) \in E
      BY <1>1 DEF ModelErrors
<1>4. NoError \in E /\ Errors \subseteq E
  <2>1. "AccessDenied" \in Codes /\ "TooManyAttempts" \in Codes
        BY DEF Codes
  <2>2. "plain" \in Uncoded
        BY Zenon DEF Uncoded
  <2>. QED  BY <1>3, <2>1, <2>2 DEF Errors, NoError
<1>5. Middlewares(Errors) \subseteq Middlewares(E) /\ HandlerRuns(Errors) \subseteq HandlerRuns(E)
      BY <1>4 DEF Middlewares, HandlerRuns
<1>6. ASSUME NEW k, NEW chain \in BoundedSeq(Middlewares(Errors), k)
      PROVE  chain \in Seq(Middlewares(E))
  <2>1. PICK m \in 0..k : chain \in [1..m -> Middlewares(Errors)]
        BY Zenon DEF BoundedSeq, SeqOf
  <2>. QED  BY <1>5, <2>1
<1>7. /\ {"GET", "OPTIONS"} \subseteq S /\ {"GET", "POST"} \subseteq S /\ {"none", "gzip", "upgrade"} \subseteq S
      /\ {"*", "o1", "malformed"} \subseteq S /\ {"", "o1", "o2"} \subseteq S \ {"none"}
      BY <1>2, Zenon DEF ModelStrings
<1>8. ModelStrings \subseteq S
      BY <1>2
<1>9. <<>> \in Seq(Middlewares(E)) /\ MaxMiddlewares \in Nat
      BY PipelineAssumption
<1>10. "a" \in S /\ "b" \in S /\ "w" \in S /\ "a.gz" \in S /\ "index.html" \in S
      BY <1>2, Zenon DEF ModelStrings, FileNames
<1>11. /\ <<>> \in Seq(S) /\ <<"a">> \in Seq(S) /\ <<"w">> \in Seq(S) /\ <<"b">> \in Seq(S)
       /\ <<"w", "a">> \in Seq(S) /\ <<"w", "a.gz">> \in Seq(S) /\ <<"w", "index.html">> \in Seq(S)
      BY <1>10
<1>12. WebPrefixes \subseteq Seq(S) /\ Uris \subseteq Seq(S) /\ Files \subseteq Seq(S)
      BY <1>11, Zenon DEF WebPrefixes, Uris, Files
<1>13. SmallFile \in Nat /\ SmallFile + 1 \in Nat
      BY DEF SmallFile
<1>14. [origins : SUBSET {"*", "o1", "malformed"}, credentials : BOOLEAN]
          \subseteq [origins : SUBSET S, credentials : BOOLEAN]
  <2>1. {"*", "o1", "malformed"} \subseteq S
        BY <1>7, Zenon
  <2>. QED  BY <2>1
<1>15. ASSUME NEW chain \in BoundedSeq(Middlewares(Errors), MaxMiddlewares), NEW handler \in HandlerRuns(Errors),
             exchange = Handling(chain, handler)
      PROVE  exchange \in Exchanges(E, S)
  <2>1. chain \in Seq(Middlewares(E)) /\ handler \in HandlerRuns(E)
        BY <1>5, <1>6, Zenon
  <2>. QED  BY <1>4, <1>8, <1>15, <2>1, HandlingIsOne
<1>16. ASSUME NEW c \in Codes \cup Uncoded, NEW a \in BOOLEAN,
              exchange = Handling(<<>>, [writes |-> FALSE, panics |-> FALSE, returns |-> Err(a, c)])
       PROVE  exchange \in Exchanges(E, S)
  <2>1. PICK e \in E : e = Err(a, c)
        BY <1>3
  <2>2. PICK h : h = [writes |-> FALSE, panics |-> FALSE, returns |-> e]
        OBVIOUS
  <2>3. h \in HandlerRuns(E)
        BY <2>2 DEF HandlerRuns
  <2>4. exchange = Handling(<<>>, h)
        BY <1>16, <2>1, <2>2, Zenon
  <2>. QED  BY <1>4, <1>8, <1>9, <2>3, <2>4, HandlingIsOne, Zenon
<1>17. ASSUME NEW cfg \in {c \in [origins : SUBSET {"*", "o1", "malformed"}, credentials : BOOLEAN] : ValidateCORS(c)},
              NEW origin \in {"", "o1", "o2"}, NEW method \in {"GET", "OPTIONS"},
              NEW chain \in BoundedSeq(Middlewares(Errors), 1), NEW handler \in HandlerRuns(Errors),
              exchange = Crossing(cfg, origin, method, chain, handler)
       PROVE  exchange \in Exchanges(E, S)
  <2>1. chain \in Seq(Middlewares(E)) /\ handler \in HandlerRuns(E)
        BY <1>5, <1>6, Zenon
  <2>2. cfg \in [origins : SUBSET S, credentials : BOOLEAN]
        BY <1>7, <1>14, Zenon
  <2>3. origin \in S \ {"none"} /\ method \in S
        BY <1>7, Zenon
  <2>. QED  BY <1>4, <1>8, <1>17, <2>1, <2>2, <2>3, CrossingIsOne, Zenon
<1>18. ASSUME NEW prefix \in WebPrefixes, NEW uri \in Uris, NEW files \in SUBSET Files,
              NEW encoding \in {"none", "gzip", "upgrade"}, NEW size \in {SmallFile, SmallFile + 1},
              NEW method \in {"GET", "POST"}, NEW compress \in BOOLEAN, NEW asset \in BOOLEAN, NEW stat \in BOOLEAN,
              exchange = Fetching(method, prefix, uri, files, encoding, size, compress, asset, stat)
       PROVE  exchange \in Exchanges(E, S)
  <2>1. prefix \in Seq(S) /\ uri \in Seq(S)
        BY <1>12, Zenon
  <2>2. files \in SUBSET Seq(S)
        BY <1>12, Zenon
  <2>3. encoding \in S /\ size \in Nat /\ method \in S
        BY <1>7, <1>13, Zenon
  <2>. QED  BY <1>4, <1>8, <1>18, <2>1, <2>2, <2>3, FetchingIsOne, Zenon
<1>19. SUFFICES ASSUME PipelineInit PROVE exchange \in Exchanges(E, S)
      BY <1>1, <1>2, Zenon
<1>20. CASE \E chain \in BoundedSeq(Middlewares(Errors), MaxMiddlewares), handler \in HandlerRuns(Errors) :
               exchange = Handling(chain, handler)
      BY <1>15, <1>20, Zenon
<1>21. CASE \E c \in Codes \cup Uncoded, a \in BOOLEAN :
               exchange = Handling(<<>>, [writes |-> FALSE, panics |-> FALSE, returns |-> Err(a, c)])
      BY <1>16, <1>21, Zenon
<1>22. CASE \E cfg \in {c \in [origins : SUBSET {"*", "o1", "malformed"}, credentials : BOOLEAN] : ValidateCORS(c)},
               origin \in {"", "o1", "o2"}, method \in {"GET", "OPTIONS"},
               chain \in BoundedSeq(Middlewares(Errors), 1), handler \in HandlerRuns(Errors) :
               exchange = Crossing(cfg, origin, method, chain, handler)
  <2>1. PICK cfg \in {c \in [origins : SUBSET {"*", "o1", "malformed"}, credentials : BOOLEAN] : ValidateCORS(c)},
             origin \in {"", "o1", "o2"}, method \in {"GET", "OPTIONS"},
             chain \in BoundedSeq(Middlewares(Errors), 1), handler \in HandlerRuns(Errors) :
             exchange = Crossing(cfg, origin, method, chain, handler)
        BY <1>22
  <2>. QED  BY <1>17, <2>1, Zenon
<1>23. CASE \E prefix \in WebPrefixes, uri \in Uris, files \in SUBSET Files,
               encoding \in {"none", "gzip", "upgrade"}, size \in {SmallFile, SmallFile + 1},
               method \in {"GET", "POST"}, compress, asset, stat \in BOOLEAN :
               exchange = Fetching(method, prefix, uri, files, encoding, size, compress, asset, stat)
  <2>1. PICK prefix \in WebPrefixes, uri \in Uris, files \in SUBSET Files,
             encoding \in {"none", "gzip", "upgrade"}, size \in {SmallFile, SmallFile + 1},
             method \in {"GET", "POST"}, compress \in BOOLEAN, asset \in BOOLEAN, stat \in BOOLEAN :
             exchange = Fetching(method, prefix, uri, files, encoding, size, compress, asset, stat)
        BY <1>23
  <2>. QED  BY <1>18, <2>1, ZenonT(60)
<1>. QED  BY <1>19, <1>20, <1>21, <1>22, <1>23, Zenon DEF PipelineInit

\* Whatever chain of middlewares, of any length and with any errors, and
\* whatever handler, webroot and CORS configuration a request meets, it gets
\* one answer, the same over HTTP and gRPC.
THEOREM AnswerIsOne ==
    /\ \A E, S : FileNames \subseteq S /\ exchange \in Exchanges(E, S) => OneAnswer
    /\ PipelineInit => OneAnswer
<1>1. ASSUME NEW E, NEW S, FileNames \subseteq S, exchange \in Exchanges(E, S)
      PROVE  OneAnswer
      BY <1>1, AnsweredOnceHolds, TransportsAgreeHolds, FilesHonestHolds, CORSHonestHolds, Zenon DEF OneAnswer
<1>2. FileNames \subseteq ModelStrings
      BY DEF ModelStrings
<1>. QED  BY <1>1, <1>2, ModelExchanges, Zenon

=============================================================================
