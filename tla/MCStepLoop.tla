----------------------------- MODULE MCStepLoop -----------------------------
(***************************************************************************)
(* Small instances of StepLoop for TLC: a route of four steps cut out of   *)
(* registry.json, the draft, its review, the gate and the publication.     *)
(* The draft falls back to itself, its review and the gate fall back to    *)
(* the draft, the publication has no way back.  The short route is a       *)
(* draft, its review, and a gate that falls back to the draft.             *)
(*                                                                         *)
(* RetryBound limits how often clients retry one step: each retry_node     *)
(* adds one to its retry count.                                            *)
(***************************************************************************)
EXTENDS StepLoop, TLC

CONSTANT RetryBound

SupervisedRoute == (1 :> {2}) @@ (2 :> {3}) @@ (3 :> {4}) @@ (4 :> {0})
FallBack == (1 :> 1) @@ (2 :> 1) @@ (3 :> 1) @@ (4 :> 0)
Retries == (1 :> 1) @@ (2 :> 0) @@ (3 :> 1) @@ (4 :> 0)

ShortRoute == (1 :> {2}) @@ (2 :> {3}) @@ (3 :> {0})
ShortFallBack == (1 :> 1) @@ (2 :> 1) @@ (3 :> 1)
ShortRetries == (1 :> 1) @@ (2 :> 0) @@ (3 :> 0)

MCClients ==
  \/ PauseTask \/ ResumeTask \/ CancelTask
  \/ \E d \in Decision : ApproveReview(d)
  \/ \E s \in Step : ResumeFrom(s) \/ RerunFrom(s)
  \/ \E s \in Step : retryCounts[s] < RetryBound /\ RetryNode(s)

MCSpec == Init /\ [][Loop \/ MCClients]_vars

MCFairSpec == MCSpec /\ WF_vars(Loop)
=============================================================================
