---------------------------- MODULE MCTransports ----------------------------
(* The CLI session, the CLI router, service discovery, the NATS broker and  *)
(* the HTTP and gRPC request pipelines for TLC: they share nothing, so one  *)
(* of them runs in each behaviour.                                          *)
EXTENDS CliSession, CliRouter, Discovery, Broker, RequestPipeline

VARIABLE part       \* which of them runs

vars == <<part, cliVars, routerVars, discoveryVars, brokerVars, exchange>>

MCEndpoints ==
    [i \in Instances |-> {[scheme |-> "grpc", host |-> i], [scheme |-> "http", host |-> i]}]
MCRoutePaths ==
    {<<>>, <<":x">>, <<"a">>, <<"a", "b">>, <<"a", "b", "a">>, <<"a", ":x", ":y">>,
     <<"-">>, <<"app", "b">>, <<"ab">>, <<"help">>, <<"help", "b">>}
MCStartsWith ==
    {<<"a", "a">>, <<"ab", "a">>, <<"app", "a">>, <<"app", "app">>, <<"b", "b">>, <<"ab", "ab">>}

Init ==
    /\ part \in {"cli", "router", "discovery", "broker", "pipeline"}
    /\ CliInit /\ (part # "cli" => ~shell)
    /\ RouterInit
    /\ DiscoveryInit /\ (part # "discovery" => log = <<{}>> /\ watchOf = CHOOSE m \in Members : TRUE)
    /\ BrokerInit
    /\ IF part = "pipeline" THEN PipelineInit ELSE exchange = Plain

CliStep ==
    part = "cli" /\ CliNext /\ UNCHANGED <<part, routerVars, discoveryVars, brokerVars, exchange>>
RouterStep ==
    part = "router" /\ RouterNext /\ UNCHANGED <<part, cliVars, discoveryVars, brokerVars, exchange>>
DiscoveryStep ==
    part = "discovery" /\ DiscoveryNext /\ UNCHANGED <<part, cliVars, routerVars, brokerVars, exchange>>
BrokerStep ==
    part = "broker" /\ BrokerNext /\ UNCHANGED <<part, cliVars, routerVars, discoveryVars, exchange>>
Next == CliStep \/ RouterStep \/ DiscoveryStep \/ BrokerStep

\* The CLI: goroutines that can run do run, and handlers return; nothing is
\* assumed of the user, of the timers or of Stop being called.
CliFairness ==
    /\ WF_cliVars(part = "cli" /\ (ShellReady \/ CompleterTakes \/ WaitTakes \/ WaitExit))
    /\ WF_cliVars(part = "cli" /\ IoStep)
    /\ WF_cliVars(part = "cli" /\ ServeAccept)
    /\ WF_cliVars(part = "cli" /\ ProcessStep)
    /\ WF_cliVars(part = "cli" /\ StopRange)

\* Discovery: the loop's goroutine runs, etcd answers, members catch up, Close
\* returns.
DiscoveryFairness ==
    /\ WF_discoveryVars(part = "discovery" /\ LoopStep)
    /\ \A m \in Members : WF_discoveryVars(part = "discovery" /\ Apply(m))
    /\ WF_discoveryVars(part = "discovery" /\ WatcherStop)

Spec == Init /\ [][Next]_vars /\ CliFairness /\ DiscoveryFairness

=============================================================================
