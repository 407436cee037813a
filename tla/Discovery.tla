------------------------------ MODULE Discovery ------------------------------
(***************************************************************************)
(* Service discovery of a gRPC client: the etcd registry's watcher         *)
(* (registry/etcd/watcher.go, GetService in registry/etcd/etcd.go) driven  *)
(* by the resolver's event loop (transport/grpc/resolver/resolver.go).     *)
(*                                                                         *)
(* The registry's contents are a log, one entry per revision, that every   *)
(* etcd member applies in order and at its own pace.  The watch is served  *)
(* by one member; GetService asks for a serializable read, which any       *)
(* member answers from what it has applied.                                *)
(***************************************************************************)
EXTENDS Naturals, Sequences, SequencesExt

CONSTANTS
    Instances,     \* instances of the service a client may look up
    Endpoints,     \* the endpoints each of them registers: scheme and host
    Members,       \* etcd members
    MaxRev         \* bound: revisions of the registry

ASSUME DiscoveryAssumption ==
    /\ DOMAIN Endpoints = Instances
    /\ MaxRev \in Nat \ {0}
    /\ Members # {}

VARIABLES
    log,           \* the registry's contents, one set of instances per revision
    applied,       \* the revision each member has applied
    watchOf,       \* the member that serves the watch
    watch,         \* watchChan: "open", "failing" (an error is next), "closed"
    seen,          \* the revision up to which the watch was read
    progress,      \* the answer to RequestProgress is still in watchChan
    setupFlag,     \* the first Next has happened
    loop,          \* eventLoop: "check", "next", "get", "done"
    addrs,         \* the addresses last given to the ClientConn
    closing,       \* Close: "no", "closed" (closeChan), "stopped" (watcher too)
    missed         \* history: the last read failed, or was older than its event

etcdVars == <<log, applied>>
resolverVars == <<watchOf, watch, seen, progress, setupFlag, loop, addrs, closing, missed>>
discoveryVars == <<etcdVars, resolverVars>>

\* update publishes the hosts of the grpc:// endpoints.
AddrsOf(services) ==
    {e.host : e \in {x \in UNION {Endpoints[i] : i \in services} : x.scheme = "grpc"}}

\* Build opens the watch at the revision its member has applied (WithRev(0)).
DiscoveryInit ==
    /\ \E s \in SUBSET Instances : log = <<s>>
    /\ applied = [m \in Members |-> 1]
    /\ watchOf \in Members
    /\ watch = "open" /\ seen = 1 /\ progress = TRUE
    /\ setupFlag = FALSE /\ loop = "check"
    /\ addrs = {} /\ closing = "no" /\ missed = FALSE

-----------------------------------------------------------------------------
(* The registry: other processes register, deregister and lose leases.     *)

Commit(services) ==
    /\ Len(log) < MaxRev
    /\ log' = Append(log, services)
    /\ UNCHANGED <<applied, resolverVars>>

InstanceRegisters(i) == i \notin Last(log) /\ Commit(Last(log) \cup {i})
InstanceLeaves(i) == i \in Last(log) /\ Commit(Last(log) \ {i})

Apply(m) ==
    /\ applied[m] < Len(log)
    /\ applied' = [applied EXCEPT ![m] = @ + 1]
    /\ UNCHANGED <<log, resolverVars>>

\* etcd cancels the watch with an error (a compaction, a lost leader).
WatchBreaks ==
    /\ watch = "open" /\ closing = "no"
    /\ watch' = "failing"
    /\ UNCHANGED <<etcdVars, watchOf, seen, progress, setupFlag, loop, addrs, closing, missed>>

-----------------------------------------------------------------------------
(* eventLoop and Next.                                                     *)

\* Mutant of LoopCheck: closeChan is not looked at.
LoopCheckNever ==
    /\ loop = "check"
    /\ loop' = "next"
    /\ UNCHANGED <<etcdVars, watchOf, watch, seen, progress, setupFlag, addrs, closing, missed>>

LoopCheck ==
    /\ loop = "check"
    /\ loop' = IF closing = "no" THEN "next" ELSE "done"
    /\ UNCHANGED <<etcdVars, watchOf, watch, seen, progress, setupFlag, addrs, closing, missed>>

\* The first Next reads the registry at once.
NextFirst ==
    /\ loop = "next" /\ ~setupFlag
    /\ setupFlag' = TRUE /\ loop' = "get"
    /\ UNCHANGED <<etcdVars, watchOf, watch, seen, progress, addrs, closing, missed>>

\* Later ones wait: for a response of the watch, which may carry several revisions,
NextEvent ==
    /\ loop = "next" /\ setupFlag /\ watch = "open"
    /\ \E r \in (seen + 1)..applied[watchOf] : seen' = r
    /\ loop' = "get"
    /\ UNCHANGED <<etcdVars, watchOf, watch, progress, setupFlag, addrs, closing, missed>>

\* or for the progress notification newWatcher asked for,
NextProgress ==
    /\ loop = "next" /\ setupFlag /\ watch = "open" /\ progress
    /\ progress' = FALSE /\ loop' = "get"
    /\ UNCHANGED <<etcdVars, watchOf, watch, seen, setupFlag, addrs, closing, missed>>

\* or they fail: with the watch's error, on its closed channel, or cancelled.
NextFails ==
    /\ loop = "next" /\ setupFlag
    /\ watch # "open" \/ closing = "stopped"
    /\ watch' = IF watch = "failing" THEN "closed" ELSE watch
    /\ loop' = "check"
    /\ UNCHANGED <<etcdVars, watchOf, seen, progress, setupFlag, addrs, closing, missed>>

\* Mutant of Published: the addresses accumulate.
PublishedMerged(services) == addrs \cup AddrsOf(services)

\* An empty list is GetService's ErrNotFound, and the loop then leaves the
\* addresses as they are.
Published(services) == IF services = {} THEN addrs ELSE AddrsOf(services)

GetService(m) ==
    /\ loop = "get"
    /\ missed' = (applied[m] < seen)
    /\ addrs' = Published(log[applied[m]])
    /\ loop' = "check"
    /\ UNCHANGED <<etcdVars, watchOf, watch, seen, progress, setupFlag, closing>>

GetFails ==
    /\ loop = "get"
    /\ missed' = TRUE
    /\ loop' = "check"
    /\ UNCHANGED <<etcdVars, watchOf, watch, seen, progress, setupFlag, addrs, closing>>

\* Close closes closeChan and then stops the watcher.
ResolverClose ==
    /\ closing = "no"
    /\ closing' = "closed"
    /\ UNCHANGED <<etcdVars, watchOf, watch, seen, progress, setupFlag, loop, addrs, missed>>

WatcherStop ==
    /\ closing = "closed"
    /\ closing' = "stopped" /\ watch' = "closed"
    /\ UNCHANGED <<etcdVars, watchOf, seen, progress, setupFlag, loop, addrs, missed>>

LoopStep ==
    \/ LoopCheck \/ NextFirst \/ NextEvent \/ NextProgress \/ NextFails
    \/ (\E m \in Members : GetService(m)) \/ GetFails

DiscoveryNext ==
    \/ LoopStep
    \/ \E i \in Instances : InstanceRegisters(i) \/ InstanceLeaves(i)
    \/ \E m \in Members : Apply(m)
    \/ WatchBreaks \/ ResolverClose \/ WatcherStop

DiscoverySpec == DiscoveryInit /\ [][DiscoveryNext]_discoveryVars

-----------------------------------------------------------------------------
(* Properties.                                                             *)

\* The client never mixes two revisions of the registry, and between two reads
\* it has a revision that is no older than the last event it was told of,
\* whatever member answered and however many events a response gathered; but
\* for a read that failed or lagged behind its event, and an empty registry,
\* which leaves the addresses as they were.
AddressesFresh ==
    /\ addrs = {} \/ \E k \in 1..Len(log) : addrs = AddrsOf(log[k])
    /\ (setupFlag /\ loop # "get" /\ ~missed) =>
          \E k \in seen..Len(log) : log[k] = {} \/ addrs = AddrsOf(log[k])

Excused == missed \/ watch # "open" \/ closing # "no"

\* Once the registry stops changing the client has the addresses it lists,
\* unless the list is empty (GetService fails and the old addresses stay), the
\* last read failed or was served by a member behind the watch (nothing reads
\* again), or the watch broke (nothing opens another).
AddressesConverge ==
    <>[](Excused \/ Last(log) = {} \/ addrs = AddrsOf(Last(log)))

\* Close ends the event loop, also one that spins on a broken watch and one
\* that blocks in Next.
LoopEnds == (closing = "closed") ~> (loop = "done")

=============================================================================
