---------------------------- MODULE StepAttempts ----------------------------
(***************************************************************************)
(* What happens inside one step of a task: the executor made for each      *)
(* attempt (agent/hybrid_executor.py, agent/executor.py), the requests it  *)
(* sends to the model (llm/providers.py), the tools the model calls        *)
(* (agent/tools.py), the checks at the end (agent/base_executor.py) and    *)
(* the result the loop of workflow_service.py decides on.  The attempts    *)
(* share the directory of the task, and the provider of the model is       *)
(* shared by all tasks.  An attempt that runs into the step's timeout is   *)
(* cancelled, but not the thread its tool runs in nor the process of its   *)
(* script or check: those go on beside the next attempt.                   *)
(***************************************************************************)
EXTENDS Integers, Sequences, FiniteSets

CONSTANTS
  Nodes,          \* node definitions
  MaxAttempts,    \* one more than the retries of the step
  MaxIterations,  \* max_iterations_per_step
  MaxTries,       \* max_retries of a request to the model
  MaxToolCalls,
  MaxCalls,       \* bound: tool calls in one answer of the model
  MaxReloads,     \* bound: changes of the configuration
  MaxOthers       \* bound: answers to other tasks, which cost a token each

Looks == {"file", "exec", "output", "model"}

\* The kinds of nodes that come to be attempted: a review goes to a person
\* (StepLoop).  "cron" stands for what no executor is made for.
Kinds == {"agent", "code", "system", "agent_action", "pure_code",
          "llm_completion", "system_check", "cron"}

ASSUME AttemptsAssumption ==
  /\ {MaxAttempts, MaxIterations, MaxTries, MaxToolCalls} \subseteq Nat \ {0}
  /\ {MaxCalls, MaxReloads, MaxOthers} \subseteq Nat
  /\ Nodes \subseteq [kind : Kinds, given : BOOLEAN, alias : BOOLEAN,
                      checks : Seq([looks : Looks, hard : BOOLEAN])]

VARIABLES
  node,
  pc,         \* where the attempt is
  attempt,
  exec,       \* the executor of the attempt
  out,        \* the output file of the node
  alias,      \* the file the model writes by mistake in its stead
  lingering,  \* attempts whose tool, script or check runs on
  total,      \* provider -> tokens counted, one for each answer
  current,    \* the provider handed out
  others,     \* answers other tasks got
  results,    \* node_results: the status of each
  reported,   \* accumulate_tokens: what they say was spent
  \* What the properties look back at: the output file when the attempt
  \* began, what it wrote, what its checks read of it, whether a straggler or
  \* a check wrote since, and this task's own part of the tokens.
  before, wrote, seen, late, own

files == <<out, alias>>
tokens == <<total, own>>
outcomes == <<results, reported>>
seenSoFar == <<before, wrote, seen, late>>
attemptVars == <<node, pc, attempt, exec, out, alias, lingering, total, current,
                 others, results, reported, before, wrote, seen, late, own>>

----------------------------------------------------------------------------

Nothing == [by |-> 0, data |-> "none"]

Legacy == [agent |-> "agent_action", code |-> "pure_code",
           review |-> "human_review", system |-> "system_check"]

ExecType ==
  IF node.kind \in DOMAIN Legacy THEN Legacy[node.kind] ELSE node.kind

IsAgent == ExecType = "agent_action"

NewExecutor ==
  [provider |-> current, iteration |-> IF IsAgent THEN 1 ELSE 0,
   tries |-> 0, todo |-> 0, history |-> 0, requests |-> 0,
   check |-> 0, passed |-> TRUE, output |-> "none", usage |-> 0]

Init ==
  /\ node \in Nodes
  /\ pc = "idle" /\ attempt = 0
  /\ current = 1 /\ total = <<0>> /\ own = <<0>> /\ others = 0
  /\ exec = NewExecutor
  /\ out = Nothing /\ alias = Nothing
  /\ lingering = {} /\ results = <<>> /\ reported = 0
  /\ before = Nothing /\ wrote = {} /\ seen = {} /\ late = FALSE

----------------------------------------------------------------------------
(* The end of an attempt, and the beginning of the next.                   *)

FaultySettled(status) == IF status = "success" THEN "passed" ELSE "idle"

Settled(status) ==
  IF status = "success" THEN "passed"
  ELSE IF attempt < MaxAttempts THEN "idle"
  ELSE "exhausted"

Settle(status, usage) ==
  /\ results' = Append(results, status)
  /\ reported' = reported + usage
  /\ pc' = Settled(status)

Fail == Settle("error", 0)

\* The file the model was told to write is missing: one it wrote under another
\* name is taken, laid out anew with the verdict it holds.
FaultyNormalized == IF alias.data # "none" /\ node.alias THEN alias ELSE out

Normalized == IF out.data = "none" /\ node.alias THEN alias ELSE out

\* _run_checks: a node without checks passes.
RunChecks(executor, usage) ==
  IF node.checks = <<>>
  THEN exec' = [executor EXCEPT !.usage = usage] /\ Settle("success", usage)
  ELSE /\ exec' = [executor EXCEPT !.check = 1, !.tries = 0, !.usage = usage]
       /\ pc' = "checking"
       /\ UNCHANGED outcomes

\* What happens to a step that has nothing to run: without a script or a
\* prompt it passes, and its checks are not looked at.
NothingToRun == ExecType \in {"pure_code", "llm_completion"} /\ ~node.given

Begin ==
  /\ pc = "idle" /\ attempt < MaxAttempts
  /\ attempt' = attempt + 1
  /\ exec' = NewExecutor
  /\ before' = out /\ wrote' = {} /\ seen' = {} /\ late' = FALSE
  /\ \/ /\ NothingToRun
        /\ results' = Append(results, "success")
        /\ pc' = "passed" /\ UNCHANGED reported
     \/ /\ ~NothingToRun /\ ExecType = "pure_code"
        /\ pc' = "script" /\ UNCHANGED outcomes
     \/ /\ ~NothingToRun /\ ExecType \in {"llm_completion", "agent_action"}
        /\ pc' = "asking" /\ UNCHANGED outcomes
     \/ /\ ExecType \in {"human_review", "system_check"}
        /\ pc' = "passed" /\ UNCHANGED outcomes
     \/ /\ ExecType \notin {"pure_code", "llm_completion", "agent_action",
                            "human_review", "system_check"}
        /\ results' = Append(results, "error")
        /\ pc' = "exhausted" /\ UNCHANGED reported
  /\ UNCHANGED <<node, files, lingering, tokens, current, others>>

----------------------------------------------------------------------------
(* pure_code: a process runs the script and leaves what it computed, or    *)
(* that it failed, in a file.                                              *)

Written(a) ==
  [by : {a}, data : {"good", "bad"} \cup (IF ExecType = "pure_code" THEN {"failed"} ELSE {})]

ScriptRefused ==
  /\ pc = "script"
  /\ Fail
  /\ UNCHANGED <<node, attempt, exec, files, lingering, tokens, current, others, seenSoFar>>

ReadScriptOutput(file) ==
  /\ seen' = {file}
  /\ IF file.data \in {"none", "failed"}
     THEN Fail /\ UNCHANGED exec
     ELSE RunChecks([exec EXCEPT !.output = file.data], 0)

ScriptEnds ==
  /\ pc = "script"
  /\ out' \in Written(attempt)
  /\ ReadScriptOutput(out')
  /\ wrote' = {"out"}
  /\ UNCHANGED <<node, attempt, alias, lingering, tokens, current, others, before, late>>

\* The process ended without leaving its output: what an earlier one left is
\* taken for it.
ScriptDies ==
  /\ pc = "script"
  /\ ReadScriptOutput(out)
  /\ UNCHANGED <<node, attempt, files, lingering, tokens, current, others,
                 before, wrote, late>>

\* Its own time limit: the process is killed.
ScriptTimesOut ==
  /\ pc = "script"
  /\ Fail
  /\ UNCHANGED <<node, attempt, exec, files, lingering, tokens, current, others, seenSoFar>>

----------------------------------------------------------------------------
(* A request to the model, of the dialogue or of a check.                  *)

FaultyUsage(count) == count[current]

\* get_stats: all that the executor's provider counted since it was made.
Usage(count) == count[exec.provider]

Asked == [exec EXCEPT !.requests = @ + 1]

Answered ==
  /\ pc = "asking"
  /\ total' = [total EXCEPT ![exec.provider] = @ + 1]
  /\ own' = [own EXCEPT ![exec.provider] = @ + 1]

\* llm_completion: the answer is the output, unless its path is refused, and
\* saving it may fail; the statistics are taken before the checks.
Complete ==
  /\ Answered /\ exec.check = 0 /\ ~IsAgent
  /\ \/ out' \in Written(attempt) /\ wrote' = {"out"}
     \/ UNCHANGED <<out, wrote>>
  /\ \/ RunChecks(Asked, Usage(total'))
     \/ exec' = Asked /\ Fail
  /\ UNCHANGED <<node, attempt, alias, lingering, current, others, before, seen, late>>

\* agent_action: an answer with tool calls, or the last one.
AgentAnswered ==
  /\ Answered /\ exec.check = 0 /\ IsAgent
  /\ \/ /\ \E n \in 1..MaxCalls : exec' = [Asked EXCEPT !.todo = n, !.tries = 0]
        /\ pc' = "tools"
        /\ UNCHANGED <<out, outcomes>>
     \/ /\ out' = Normalized
        /\ RunChecks(Asked, Usage(total'))
  /\ UNCHANGED <<node, attempt, alias, lingering, current, others, seenSoFar>>

MayTryAgain == exec.tries + 1 < MaxTries

\* 429, 5xx, or no answer at all: once more after a pause.
TryAgain ==
  /\ pc = "asking" /\ MayTryAgain
  /\ exec' = [Asked EXCEPT !.tries = @ + 1]
  /\ UNCHANGED <<node, pc, attempt, files, lingering, tokens, current, others,
                 outcomes, seenSoFar>>

\* A status that is not tried again, or the last try: chat() raises.
RequestFails ==
  /\ pc = "asking" /\ exec.check = 0
  /\ exec' = Asked
  /\ Fail
  /\ UNCHANGED <<node, attempt, files, lingering, tokens, current, others, seenSoFar>>

----------------------------------------------------------------------------
(* The tools of the agent, one after the other.                            *)

LimitReached == exec.history >= MaxToolCalls

\* Over the limit, or no such tool: an answer, and no trace in the history.
ToolRefused ==
  /\ pc = "tools" /\ exec.todo > 0
  /\ exec' = [exec EXCEPT !.todo = @ - 1]
  /\ UNCHANGED <<node, pc, attempt, files, lingering, tokens, current, others,
                 outcomes, seenSoFar>>

ToolStarts ==
  /\ pc = "tools" /\ exec.todo > 0 /\ ~LimitReached
  /\ pc' = "running"
  /\ UNCHANGED <<node, attempt, exec, files, lingering, tokens, current, others,
                 outcomes, seenSoFar>>

ToolWrites ==
  \/ UNCHANGED <<files, wrote>>
  \/ /\ out' \in Written(attempt)
     /\ wrote' = wrote \cup {"out"} /\ UNCHANGED alias
  \/ /\ node.alias
     /\ alias' \in Written(attempt)
     /\ wrote' = wrote \cup {"alias"} /\ UNCHANGED out

ToolEnds ==
  /\ pc = "running"
  /\ ToolWrites
  /\ exec' = [exec EXCEPT !.todo = @ - 1, !.history = @ + 1]
  /\ pc' = "tools"
  /\ UNCHANGED <<node, attempt, lingering, tokens, current, others, outcomes,
                 before, seen, late>>

NextIteration ==
  /\ pc = "tools" /\ exec.todo = 0 /\ exec.iteration < MaxIterations
  /\ exec' = [exec EXCEPT !.iteration = @ + 1]
  /\ pc' = "asking"
  /\ UNCHANGED <<node, attempt, files, lingering, tokens, current, others, outcomes,
                 seenSoFar>>

\* The limit of iterations ends the dialogue like a last answer does.
IterationsUsedUp ==
  /\ pc = "tools" /\ exec.todo = 0 /\ exec.iteration = MaxIterations
  /\ out' = Normalized
  /\ RunChecks(exec, Usage(total))
  /\ UNCHANGED <<node, attempt, alias, lingering, tokens, current, others, seenSoFar>>

----------------------------------------------------------------------------
(* The checks, one after the other.                                        *)

Check == node.checks[exec.check]

LastCheck == exec.check = Len(node.checks)

FaultyStillPasses(ok) == ok \/ ~Check.hard

StillPasses(ok) == exec.passed /\ (ok \/ ~Check.hard)

\* The agent takes the statistics after its checks.
Verdict(ok, executor, count) ==
  IF LastCheck
  THEN /\ exec' = [executor EXCEPT !.passed = StillPasses(ok)]
       /\ Settle(IF StillPasses(ok) THEN "success" ELSE "partial",
                 IF IsAgent THEN Usage(count) ELSE exec.usage)
  ELSE /\ exec' = [executor EXCEPT !.passed = StillPasses(ok), !.check = @ + 1,
                                   !.tries = 0]
       /\ pc' = "checking"
       /\ UNCHANGED outcomes

\* What an executor cannot look at fails: a script has no model to ask, and only
\* a script leaves values.
Unknown(looks) == looks = (IF ExecType = "pure_code" THEN "model" ELSE "output")

CheckUnknown ==
  /\ pc = "checking" /\ Unknown(Check.looks)
  /\ Verdict(FALSE, exec, total)
  /\ UNCHANGED <<node, attempt, files, lingering, tokens, current, others, seenSoFar>>

\* pure_code: a value the script left, as read when it ended.
CheckOutput ==
  /\ pc = "checking" /\ Check.looks = "output" /\ ~Unknown("output")
  /\ Verdict(exec.output = "good", exec, total)
  /\ UNCHANGED <<node, attempt, files, lingering, tokens, current, others, seenSoFar>>

CheckFile ==
  /\ pc = "checking" /\ Check.looks = "file"
  /\ seen' = seen \cup {out}
  /\ Verdict(out.data = "good", exec, total)
  /\ UNCHANGED <<node, attempt, files, lingering, tokens, current, others,
                 before, wrote, late>>

\* The file is there and cannot be read: what is raised ends the attempt.
CheckFileFails ==
  /\ pc = "checking" /\ Check.looks = "file" /\ out.data # "none"
  /\ Fail
  /\ UNCHANGED <<node, attempt, exec, files, lingering, tokens, current, others,
                 seenSoFar>>

\* What runs in the directory of the task may write there, whoever waits for it.
WritesLate(a) ==
  /\ late' = TRUE
  /\ \/ out' \in Written(a) /\ UNCHANGED alias
     \/ node.alias /\ alias' \in Written(a) /\ UNCHANGED out

ProcessRuns == pc = "checking" /\ Check.looks = "exec" /\ out.data # "none"

\* A process of its own decides; without the file there is none.
CheckByProcess ==
  \/ /\ pc = "checking" /\ Check.looks = "exec" /\ out.data = "none"
     /\ Verdict(FALSE, exec, total)
     /\ UNCHANGED <<node, attempt, files, lingering, tokens, current, others, seenSoFar>>
  \/ /\ ProcessRuns
     /\ \E ok \in BOOLEAN : Verdict(ok, exec, total)
     /\ UNCHANGED <<files, late>> \/ WritesLate(attempt)
     /\ UNCHANGED <<node, attempt, lingering, tokens, current, others, before, wrote, seen>>

\* The limit of the check is up; its process is not ended.
CheckRunsOn ==
  /\ ProcessRuns
  /\ Verdict(FALSE, exec, total)
  /\ lingering' = lingering \cup {attempt}
  /\ UNCHANGED <<node, attempt, files, tokens, current, others, seenSoFar>>

AskModel ==
  /\ pc = "checking" /\ Check.looks = "model" /\ ~Unknown("model")
  /\ pc' = "asking"
  /\ UNCHANGED <<node, attempt, exec, files, lingering, tokens, current, others,
                 outcomes, seenSoFar>>

ModelJudges ==
  /\ Answered /\ exec.check > 0
  /\ \E ok \in BOOLEAN : Verdict(ok, Asked, total')
  /\ UNCHANGED <<node, attempt, files, lingering, current, others, seenSoFar>>

ModelDoesNotJudge ==
  /\ pc = "asking" /\ exec.check > 0
  /\ Verdict(FALSE, Asked, total)
  /\ UNCHANGED <<node, attempt, files, lingering, tokens, current, others, seenSoFar>>

----------------------------------------------------------------------------
(* The timeout of the step, and what it leaves behind.                     *)

\* Where the coroutine of the attempt waits, so that others may run.
Awaits == pc \in {"script", "asking", "running"} \/ ProcessRuns

StepTimesOut ==
  /\ Awaits
  /\ Fail
  /\ lingering' = lingering \cup (IF pc = "asking" THEN {} ELSE {attempt})
  /\ UNCHANGED <<node, attempt, exec, files, tokens, current, others, seenSoFar>>

\* The tool, the script or a check of attempt a writes, or ends at last.
Straggler(a) ==
  /\ a \in lingering
  /\ lingering' \in {lingering, lingering \ {a}}
  /\ UNCHANGED <<files, late>> \/ WritesLate(a)
  /\ UNCHANGED <<node, pc, attempt, exec, tokens, current, others, outcomes,
                 before, wrote, seen>>

\* Between the attempts the loop sleeps.
OthersRun == Awaits \/ pc = "idle"

OtherTaskAsks ==
  /\ OthersRun /\ others < MaxOthers
  /\ others' = others + 1
  /\ total' = [total EXCEPT ![current] = @ + 1]
  /\ UNCHANGED <<node, pc, attempt, exec, files, lingering, current, outcomes,
                 seenSoFar, own>>

\* reload_llm: the next attempt is given a fresh provider.
ReloadModel ==
  /\ OthersRun /\ current <= MaxReloads
  /\ current' = current + 1
  /\ total' = Append(total, 0) /\ own' = Append(own, 0)
  /\ UNCHANGED <<node, pc, attempt, exec, files, lingering, others, outcomes, seenSoFar>>

----------------------------------------------------------------------------

Proceed ==
  \/ Begin
  \/ ScriptRefused \/ ScriptEnds \/ ScriptDies \/ ScriptTimesOut
  \/ Complete \/ AgentAnswered \/ TryAgain \/ RequestFails
  \/ ToolRefused \/ ToolStarts \/ ToolEnds \/ NextIteration \/ IterationsUsedUp
  \/ CheckUnknown \/ CheckOutput \/ CheckFile \/ CheckFileFails
  \/ CheckByProcess \/ CheckRunsOn
  \/ AskModel \/ ModelJudges \/ ModelDoesNotJudge

Next ==
  \/ Proceed \/ StepTimesOut
  \/ OtherTaskAsks \/ ReloadModel
  \/ \E a \in lingering : Straggler(a)

AttemptsSpec == Init /\ [][Next]_attemptVars

\* The coroutine goes on where it does not wait, and asyncio.wait_for ends
\* every wait; that the model answers or a tool ends is not assumed.
FairSpec ==
  /\ AttemptsSpec
  /\ WF_attemptVars(Proceed /\ ~Awaits)
  /\ WF_attemptVars(StepTimesOut)

----------------------------------------------------------------------------

File == [by : 0..MaxAttempts, data : {"none", "good", "bad", "failed"}]

\* The fields of the executor and the files stay in their ranges; no request
\* is tried more often, and no history grows longer, than configured.
TypeOK ==
  /\ node \in Nodes
  /\ pc \in {"idle", "script", "asking", "tools", "running", "checking",
             "passed", "exhausted"}
  /\ attempt \in 0..MaxAttempts
  /\ exec \in [provider : 1..current, iteration : 0..MaxIterations,
               tries : 0..(MaxTries - 1), todo : 0..MaxCalls,
               history : 0..MaxToolCalls, requests : Nat,
               check : 0..Len(node.checks), passed : BOOLEAN,
               output : {"none", "good", "bad"}, usage : Nat]
  /\ {out, alias, before} \subseteq File /\ seen \subseteq File
  /\ lingering \subseteq 1..attempt
  /\ current \in 1..(MaxReloads + 1) /\ others \in 0..MaxOthers
  /\ total \in [1..current -> Nat] /\ own \in [1..current -> Nat]
  /\ results \in Seq({"success", "partial", "error"}) /\ reported \in Nat
  /\ wrote \subseteq {"out", "alias"} /\ late \in BOOLEAN

\* A check of the node blocks on its data; but the checks of a step that has
\* nothing to run, or that the system is to check, are not looked at.
LooksAtData ==
  /\ ~NothingToRun /\ ExecType # "system_check"
  /\ \E i \in DOMAIN node.checks :
       node.checks[i].hard /\ node.checks[i].looks \in {"file", "output"}

\* A step that passed was checked on good data, and what its checks read is
\* still what the next step finds, unless a tool or script of an attempt that
\* timed out, or the process of a check, wrote in the meantime.
SuccessIsEarned ==
  (pc = "passed" /\ LooksAtData) =>
    /\ \E file \in seen : file.data = "good"
    /\ seen = {out} \/ late

\* What the checks look at was written by the attempt they belong to, if it
\* wrote at all: the file of an earlier attempt is only taken for it when a
\* straggler put it there, or when the model misnamed its file and the right
\* name was taken.
ChecksSeeTheAttempt ==
  \A file \in seen \ {Nothing} :
    (wrote # {} /\ ~late) =>
      file.by = attempt \/ (wrote = {"alias"} /\ before # Nothing)

\* The checks before the k-th that ask the model.
ModelChecksBefore(k) ==
  Cardinality({i \in DOMAIN node.checks : i < k /\ node.checks[i].looks = "model"})

ModelChecks == ModelChecksBefore(Len(node.checks) + 1)

DialogueRounds ==
  CASE ExecType = "agent_action" -> MaxIterations
    [] ExecType = "llm_completion" -> 1
    [] OTHER -> 0

\* An attempt sends no more requests than its iterations and its checks
\* allow, each tried over, whatever the model answers and the network does;
\* and every attempt that is over has left one result.
RequestsAreBounded ==
  /\ exec.requests <= (DialogueRounds + ModelChecks) * MaxTries
  /\ pc \in {"idle", "passed", "exhausted"} =>
       Len(results) = attempt - (IF ExecType = "system_check" /\ pc = "passed" THEN 1 ELSE 0)

\* What the token budget is compared with is no less than what this task has
\* spent so far on the provider of the attempt that passed: what attempts spent
\* that failed or timed out, whose results report nothing, is in the total of
\* that provider.  Two things no result ever reports, and the budget does not
\* see: the requests the checks of a completion send, and what attempts that
\* failed spent on a provider that was replaced since.
BudgetSeesFailedAttempts ==
  (pc = "passed" /\ ExecType \in {"agent_action", "llm_completion"}) =>
    reported + (IF IsAgent THEN 0 ELSE ModelChecks) >= own[exec.provider]

\* The attempts that came to the end of their checks: those report.
Reports == Cardinality({i \in DOMAIN results : results[i] # "error"})

\* The results are added up though each holds all its provider ever counted:
\* so the same tokens are in the sum once for each attempt that reported, and
\* never more often.
CountedOncePerReport == \E p \in 1..current : reported <= Reports * total[p]

\* A step comes to an end, though a model or a tool may never answer.
StepSettles == <>(pc \in {"passed", "exhausted"})

\* The state of an attempt: typed, and checked on what it wrote itself.
AttemptsInvariant == TypeOK /\ ChecksSeeTheAttempt

\* What a step spends is bounded, and what it reports of it lies between what
\* it spent on the last provider and a multiple of what a provider counted.
SpendingIsCounted ==
  RequestsAreBounded /\ BudgetSeesFailedAttempts /\ CountedOncePerReport
=============================================================================
