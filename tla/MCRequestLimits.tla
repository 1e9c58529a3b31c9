-------------------------- MODULE MCRequestLimits --------------------------
(***************************************************************************)
(* Two clients, one endpoint with a limit, one change of configuration.  A *)
(* client's window is four ticks long, longer than the two idle ones after *)
(* which it is dropped, an endpoint's two; clean-up is due at every second *)
(* tick.                                                                   *)
(***************************************************************************)
EXTENDS RequestLimits, TLC

MCEndpointLimit == [e \in Endpoints |-> 1]

AnyClient == Permutations(Clients)
=============================================================================
