-------------------------- MODULE MCStepAttempts ---------------------------
(***************************************************************************)
(* Every kind of node: the gate, whose file the model may misname; a       *)
(* completion that judges itself; a script whose output is checked; a node *)
(* without a script, one without an executor and one of no known kind.     *)
(***************************************************************************)
EXTENDS StepAttempts

Hard(looks) == [looks |-> looks, hard |-> TRUE]
Soft(looks) == [looks |-> looks, hard |-> FALSE]

Node(kind, checks) ==
  [kind |-> kind, checks |-> checks, given |-> TRUE, alias |-> FALSE]

MCNodes ==
  { [Node("agent", <<Hard("file"), Soft("model")>>) EXCEPT !.alias = TRUE],
    Node("agent_action", <<Hard("exec"), Hard("file")>>),
    Node("llm_completion", <<Hard("file"), Hard("model")>>),
    Node("code", <<Hard("output"), Soft("model")>>),
    Node("pure_code", <<>>),
    [Node("pure_code", <<Hard("output")>>) EXCEPT !.given = FALSE],
    Node("system", <<>>),
    Node("cron", <<>>) }
=============================================================================
