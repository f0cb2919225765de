---------------------------- MODULE MCRestClient ----------------------------
(* Two clients with light requests and a threshold of a few of them.       *)
EXTENDS RestClient

UnitWeights == [c \in Clients |-> 1]

=============================================================================
