--------------------------- MODULE MCHostPolicy ---------------------------
(* Small instances of HostPolicyCoordinator: one host for every thread.    *)
EXTENDS HostPolicyCoordinator

MCOneHost == [t \in Threads |-> "h1"]
MCThreshold == [k \in FailureKinds |-> CASE k = "transport_error" -> 0
                                         [] k = "rate_limit" -> 1
                                         [] k = "server_error" -> 2]
=============================================================================
