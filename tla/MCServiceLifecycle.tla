------------------------ MODULE MCServiceLifecycle ------------------------
(* Small instances of ServiceLifecycle for TLC.                            *)
EXTENDS ServiceLifecycle

\* A service's options.
Of(servers, hasLoader, hasRegistry) ==
    [servers |-> servers, loader |-> hasLoader, registry |-> hasRegistry]

MixedServices ==
    { Of(<<"http", "grpc">>, FALSE, TRUE),
      Of(<<"grpc", "cli">>, TRUE, FALSE),
      Of(<<"grpc", "grpc">>, TRUE, TRUE) }

HttpAlone == { Of(<<"http">>, FALSE, FALSE) }
HttpRegistered == { Of(<<"http">>, FALSE, TRUE) }

=============================================================================
