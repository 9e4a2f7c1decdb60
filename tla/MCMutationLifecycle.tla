------------------------- MODULE MCMutationLifecycle -------------------------
EXTENDS MutationLifecycle

\* A collection with POST, and a resource with PUT or with PUT and PATCH.
Collection == {[method |-> "POST", path |-> <<"group">>],
               [method |-> "GET", path |-> <<"group", "{}">>],
               [method |-> "DELETE", path |-> <<"group", "{}">>]}
Resource(methods) == {[method |-> m, path |-> <<"profile">>] : m \in methods}
MCTwoWriters == Resource({"GET", "PUT", "PATCH"})
MCOneWriter  == Collection \cup Resource({"GET", "PUT"})
=============================================================================
