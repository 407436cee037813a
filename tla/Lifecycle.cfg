SPECIFICATION Spec
CONSTANTS
    Options <- MixedServices
INVARIANTS TypeOK ListenersReleased LeasedOnceAcked
PROPERTIES RegistrationVanishes ServingStopReturns GrpcRunReturns
CHECK_DEADLOCK FALSE
