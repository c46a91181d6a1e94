---------------------------- MODULE Orchestrator ----------------------------
(***************************************************************************)
(* The multi-agent orchestrator (src/examples/multi_agent_orchestrator.rs): *)
(* run executes a list of agents in order over a shared memory, retries an *)
(* agent that fails transiently with exponential backoff, stops at the     *)
(* first agent that fails for good, and commits to each result under an    *)
(* anchor it moves on by itself. One orchestrator may run any number of    *)
(* tasks; its agents keep their failure counters from run to run.          *)
(*                                                                         *)
(* The program is sequential: an action is one attempt of one agent, with  *)
(* all that run does before the next.                                      *)
(***************************************************************************)
EXTENDS Commitment, ContextRoot

CONSTANTS
    Pipelines,      \* the lists of agents an orchestrator is built with
    RetryLimits,    \* values of max_retries
    BackoffBases,   \* values of backoff_base_ms
    Tasks,          \* tasks given to run
    StartAnchors,   \* anchors given to run
    Price,          \* the price the oracle agent answers
    OverflowChecks, \* TRUE when built with overflow checks
    Missing         \* no value in memory

Identities == {"oracle-price", "decision", "settlement"}

\* One record for the three agents, with the fields of each.
Agent == [identity : Identities, flakiness_seed : Nat, permanent : BOOLEAN,
          threshold_e6 : Nat]
AgentTask == [task_id : Cells, input : Cells]

\* What an agent may output: bytes, or a hash of a task and a signal.
Outputs == [bytes : Nat] \cup [task_id : Cells, signal : [bytes : Nat]]

ASSUME OrchestratorAssumption ==
    /\ Pipelines \subseteq Seq(Agent)
    /\ RetryLimits \subseteq Nat /\ BackoffBases \subseteq Nat
    /\ Tasks \subseteq AgentTask
    /\ StartAnchors \subseteq TripleAnchor
    /\ \A a \in StartAnchors, agents \in Pipelines : \* no clock runs over
         /\ a.block_height + Len(agents) <= U64Max
         /\ a.tee_timestamp + 2 * NanosPerSec * Len(agents) <= U64Max
    /\ Price \in Nat
    /\ OverflowChecks \in BOOLEAN
    /\ Missing \notin Outputs

VARIABLES
    orchestrator,    \* its agents, max_retries and backoff_base_ms
    failure_count,   \* of each agent, over all runs
    status,          \* where the current or last run is
    task, mem, commitments, current_anchor, \* locals of run
    step, attempt,   \* the agent at work, and which attempt this is
    failed_agent, error, \* OrchestrationOutcome::Failed
    chain_hash,      \* OrchestrationReceipt
    start_anchor,    \* history: the anchor this run was given
    failures_before  \* history: failure_count when this run began

outcome == <<failed_agent, error, chain_hash>>
history == <<start_anchor, failures_before>>
vars == <<orchestrator, failure_count, status, task, mem, commitments,
          current_anchor, step, attempt, outcome, history>>

Agents == orchestrator.agents
MaxRetries == orchestrator.max_retries

-----------------------------------------------------------------------------
\* The memory has one key for each agent, and the agent alone writes it.
KeyOf(identity) == CASE identity = "oracle-price" -> "price_e6"
                     [] identity = "decision" -> "signal"
                     [] identity = "settlement" -> "settlement_hash"
Keys == {"price_e6", "signal", "settlement_hash"}

\* The agent whose output an agent reads from memory.
Provider == [decision |-> "oracle-price", settlement |-> "decision"]

\* What an agent computes from what it read: the oracle reads nothing.
Signal(agent, price) == IF price > agent.threshold_e6 THEN 1 ELSE 0
Computed(agent, id, read) ==
    CASE agent.identity = "oracle-price" -> [bytes |-> Price]
      [] agent.identity = "decision" -> [bytes |-> Signal(agent, read.bytes)]
      [] agent.identity = "settlement" -> [task_id |-> id, signal |-> read]

\* Wrong form: the settlement agent does not miss its signal.
AnswerUnguarded(agent, failures, memory) ==
    IF agent.identity = "oracle-price"
    THEN IF agent.permanent THEN "Permanent"
         ELSE IF failures < agent.flakiness_seed THEN "Transient" ELSE "Ok"
    ELSE IF /\ agent.identity = "decision"
            /\ memory["price_e6"] = Missing
         THEN "Permanent" ELSE "Ok"

\* Agent::execute: how the attempt ends. (What the agents write has the right
\* length, so that a value in memory is never malformed.)
Answer(agent, failures, memory) ==
    IF agent.identity = "oracle-price"
    THEN IF agent.permanent THEN "Permanent"
         ELSE IF failures < agent.flakiness_seed THEN "Transient" ELSE "Ok"
    ELSE IF memory[KeyOf(Provider[agent.identity])] = Missing
         THEN "Permanent" ELSE "Ok"

\* Wrong form: the settlement agent reads the price.
ReadPrice(agent, memory) ==
    IF agent.identity = "oracle-price" THEN Missing ELSE memory["price_e6"]

Read(agent, memory) ==
    IF agent.identity = "oracle-price" THEN Missing
    ELSE memory[KeyOf(Provider[agent.identity])]

-----------------------------------------------------------------------------
\* hash_label, with the label's text as its first cell.
Label(text, n) == <<text, n>>

\* build_step_root: the output does not enter the root.
StepContext(agent, t) ==
    [weights_hash |-> Label("agent", agent.identity),
     tokenizer_hash |-> Label("orchestrator/v1", 0),
     system_prompt_hash |-> Label("task", t.task_id),
     sampling_params |-> [temperature |-> 0, top_k |-> 1, top_p |-> 1,
                          seed |-> t.task_id],
     runtime_version |-> Label("rust-orchestrator-v1", 0),
     attention_impl_id |-> [impl |-> "FlashAttention2", tag |-> 0],
     precision_mode |-> "Bf16",
     inference_config |-> [max_tokens |-> 0,
                           stop_sequences_root |-> Label("none", 0),
                           penalty_params_root |-> Label("none", 0)],
     input_manifest_root |-> Label("input", t.input),
     kv_cache_root |-> NoCache]
StepRoot(agent, t) == MerkleRoot(StepContext(agent, t))

StepSecs == 2

\* Wrong forms: the anchor stays, or runs at twice its pace.
NextAnchorStill(a) == a
NextAnchorFast(a) ==
    [a EXCEPT !.block_height = @ + 1,
              !.tee_timestamp = @ + 2 * StepSecs * NanosPerSec]

\* The anchor of the next receipt: a block and two seconds later, by
\* definition and not by any clock. The Drand round stays.
NextAnchor(a) ==
    [block_height |-> a.block_height + 1,
     tee_timestamp |-> a.tee_timestamp + StepSecs * NanosPerSec,
     drand_round |-> a.drand_round]

-----------------------------------------------------------------------------
\* backoff_base_ms * 2u64.pow(attempt - 1) fits into a u64.
BackoffFits(n) == /\ 2^(n - 1) <= U64Max
                  /\ orchestrator.backoff_base_ms * 2^(n - 1) <= U64Max

Init ==
    /\ orchestrator \in [agents : Pipelines, max_retries : RetryLimits,
                         backoff_base_ms : BackoffBases]
    /\ failure_count = [k \in DOMAIN Agents |-> 0]
    /\ status = "idle"
    /\ task \in Tasks
    /\ mem = [key \in Keys |-> Missing]
    /\ commitments = <<>>
    /\ current_anchor \in StartAnchors
    /\ step = 1 /\ attempt = 1
    /\ failed_agent = "none" /\ error = "none" /\ chain_hash = <<>>
    /\ start_anchor = current_anchor
    /\ failures_before = failure_count

\* Wrong form: the agents forget their failures.
RunForgets(t, anchor) ==
    /\ status \in {"idle", "complete", "failed"}
    /\ status' = "running"
    /\ task' = t /\ current_anchor' = anchor
    /\ mem' = [key \in Keys |-> Missing]
    /\ commitments' = <<>>
    /\ step' = 1 /\ attempt' = 1
    /\ failed_agent' = "none" /\ error' = "none" /\ chain_hash' = <<>>
    /\ start_anchor' = anchor
    /\ failure_count' = [k \in DOMAIN Agents |-> 0]
    /\ failures_before' = failure_count'
    /\ UNCHANGED orchestrator

\* run is called; it starts with an empty memory and no receipts.
Run(t, anchor) ==
    /\ status \in {"idle", "complete", "failed"}
    /\ status' = "running"
    /\ task' = t /\ current_anchor' = anchor
    /\ mem' = [key \in Keys |-> Missing]
    /\ commitments' = <<>>
    /\ step' = 1 /\ attempt' = 1
    /\ failed_agent' = "none" /\ error' = "none" /\ chain_hash' = <<>>
    /\ start_anchor' = anchor /\ failures_before' = failure_count
    /\ UNCHANGED <<orchestrator, failure_count>>

\* The agent at work answers r in its next attempt.
Answers(r) ==
    /\ status = "running"
    /\ step <= Len(Agents) /\ attempt <= MaxRetries
    /\ Answer(Agents[step], failure_count[step], mem) = r

Succeed ==
    /\ Answers("Ok")
    /\ LET agent == Agents[step]
           output == Computed(agent, task.task_id, Read(agent, mem)) IN
       /\ mem' = [mem EXCEPT ![KeyOf(agent.identity)] = output]
       /\ commitments' = Append(commitments,
             Committed(StepRoot(agent, task), current_anchor, output,
                       "MockSoftware"))
    /\ current_anchor' = NextAnchor(current_anchor)
    /\ step' = step + 1 /\ attempt' = 1
    /\ UNCHANGED <<orchestrator, failure_count, status, task, outcome, history>>

Failed(why) == /\ status' = "failed"
               /\ failed_agent' = Agents[step].identity /\ error' = why
               /\ UNCHANGED chain_hash

\* A transient failure with attempts left: sleep, then try again. Where the
\* length of the sleep overflows, a build with checks panics; one without
\* wraps it and goes on.
Retry ==
    /\ Answers("Transient")
    /\ attempt < MaxRetries
    /\ failure_count' = [failure_count EXCEPT ![step] = @ + 1]
    /\ IF BackoffFits(attempt) \/ ~OverflowChecks
       THEN attempt' = attempt + 1 /\ UNCHANGED status
       ELSE status' = "panicked" /\ UNCHANGED attempt
    /\ UNCHANGED <<orchestrator, task, mem, commitments, current_anchor, step,
                   outcome, history>>

\* Wrong form: the last attempt is not made.
GiveUpEarly ==
    /\ Answers("Transient")
    /\ attempt + 1 >= MaxRetries
    /\ failure_count' = [failure_count EXCEPT ![step] = @ + 1]
    /\ Failed("Transient")
    /\ UNCHANGED <<orchestrator, task, mem, commitments, current_anchor, step,
                   attempt, history>>

GiveUp ==
    /\ Answers("Transient")
    /\ attempt = MaxRetries
    /\ failure_count' = [failure_count EXCEPT ![step] = @ + 1]
    /\ Failed("Transient")
    /\ UNCHANGED <<orchestrator, task, mem, commitments, current_anchor, step,
                   attempt, history>>

\* Wrong form: goes on with the next agent.
BreakSkips ==
    /\ Answers("Permanent")
    /\ step' = step + 1 /\ attempt' = 1
    /\ UNCHANGED <<orchestrator, failure_count, status, task, mem, commitments,
                   current_anchor, outcome, history>>

Break ==
    /\ Answers("Permanent")
    /\ Failed("Permanent")
    /\ UNCHANGED <<orchestrator, failure_count, task, mem, commitments,
                   current_anchor, step, attempt, history>>

\* With no attempt allowed the first agent fails without being asked.
NeverTried ==
    /\ status = "running"
    /\ step <= Len(Agents) /\ attempt > MaxRetries
    /\ Failed("unknown")
    /\ UNCHANGED <<orchestrator, failure_count, task, mem, commitments,
                   current_anchor, step, attempt, history>>

\* compute_chain_hash: the digests in their order.
SealedChain(receipts) ==
    [i \in DOMAIN receipts |->
        SigningDigest(receipts[i].context_root, receipts[i].anchor,
                      receipts[i].output_hash)]

\* All agents have committed.
Seal ==
    /\ status = "running" /\ step > Len(Agents)
    /\ status' = "complete"
    /\ chain_hash' = SealedChain(commitments)
    /\ UNCHANGED <<orchestrator, failure_count, task, mem, commitments,
                   current_anchor, step, attempt, failed_agent, error,
                   history>>

RunStep == Succeed \/ Retry \/ GiveUp \/ Break \/ NeverTried \/ Seal
Start == \E t \in Tasks, anchor \in StartAnchors : Run(t, anchor)
Next == Start \/ RunStep

Spec == Init /\ [][Next]_vars

\* run is a loop without waits but its own; nobody has to call it.
FairSpec == Spec /\ WF_vars(RunStep)

-----------------------------------------------------------------------------
TypeOK ==
    /\ orchestrator \in [agents : Seq(Agent), max_retries : Nat,
                         backoff_base_ms : Nat]
    /\ failure_count \in [DOMAIN Agents -> Nat]
    /\ failures_before \in [DOMAIN Agents -> Nat]
    /\ status \in {"idle", "running", "complete", "failed", "panicked"}
    /\ task \in AgentTask
    /\ mem \in [Keys -> Outputs \cup {Missing}]
    /\ current_anchor \in TripleAnchor /\ start_anchor \in TripleAnchor
    /\ step \in Nat \ {0} /\ attempt \in Nat \ {0}
    /\ Len(commitments) = step - 1 /\ step <= Len(Agents) + 1
    /\ failed_agent \in Identities \cup {"none"}
    /\ error \in {"none", "Transient", "Permanent", "unknown"}

\* The receipts of a run explain each other: each output is what its agent
\* computes from the output of the last receipt before it of the agent it
\* reads, so that who holds the receipts can recompute the chain. Nothing
\* that another run or a failed attempt left in memory is ever used
\* (MemoryStore, the execute methods and Orchestrator::run).
IsLastProvider(j, i) ==
    /\ j < i /\ Agents[j].identity = Provider[Agents[i].identity]
    /\ \A l \in j + 1 .. i - 1 : Agents[l].identity # Agents[j].identity
OutputsAreAccountedFor ==
    \A i \in DOMAIN commitments :
        LET out == commitments[i].output_hash IN
        IF Agents[i].identity = "oracle-price" THEN out = [bytes |-> Price]
        ELSE \E j \in DOMAIN commitments :
                /\ IsLastProvider(j, i)
                /\ out = Computed(Agents[i], task.task_id,
                                  commitments[j].output_hash)

\* A run fails only for a reason its orchestrator could be told of in
\* advance: an agent with at least as many failures ahead of it as attempts
\* allowed, one that fails for good or whose provider does not come before
\* it, or no attempt at all. It panics only if an agent has as many failures
\* ahead of it as it takes for the backoff to overflow
\* (Orchestrator::run_agent_with_retry).
StillFails(k, n) == /\ Agents[k].identity = "oracle-price"
                    /\ Agents[k].flakiness_seed >= failures_before[k] + n
LacksProvider(k) ==
    /\ Agents[k].identity # "oracle-price"
    /\ \A j \in 1 .. k - 1 : Agents[j].identity # Provider[Agents[k].identity]
FailsForGood(k) == \/ LacksProvider(k)
                   \/ Agents[k].identity = "oracle-price" /\ Agents[k].permanent
FailuresAreExplained ==
    /\ status = "failed" =>
         \/ error = "Transient" /\ StillFails(step, MaxRetries)
         \/ error = "Permanent" /\ FailsForGood(step)
         \/ error = "unknown" /\ MaxRetries = 0
    /\ status = "panicked" =>
         \E n \in 1 .. MaxRetries - 1 : ~BackoffFits(n) /\ StillFails(step, n)

\* No two receipts of a run sign the same digest, even when an agent comes
\* twice and computes the same: build_step_root gives both the same root, and
\* only the anchor tells them apart (Orchestrator::run).
ReceiptsAreDistinct ==
    \A i, j \in DOMAIN commitments :
        i # j => commitments[i].signed # commitments[j].signed

\* The clocks of the receipts drift apart, by two seconds a step, as the
\* Drand round stands still: as long as the start anchor leaves room for that
\* within the tolerances, the gate finds every receipt consistent
\* (Orchestrator::run against TripleAnchor::internally_consistent).
LeavesRoom(a, steps) ==
    LET ahead == StepSecs * steps IN
    /\ a.block_height < U64Max /\ a.drand_round < U64Max
    /\ TeeWallTimeSecs(a) + ahead <= U64Max
    /\ DrandWallTimeSecs(a) <= TeeWallTimeSecs(a) + TeeDrandTolerance
    /\ TeeWallTimeSecs(a) + ahead <= DrandWallTimeSecs(a) + TeeDrandTolerance
    /\ RealAnchors =>
         /\ BlockPeriod = StepSecs
         /\ BlockWallTimeSecs(a) + ahead <= U64Max
         /\ BaseGenesis + BlockPeriod * (a.block_height + steps) <= U64Max
         /\ DrandWallTimeSecs(a) <= BlockWallTimeSecs(a) + BlockTolerance
         /\ BlockWallTimeSecs(a) + ahead <= DrandWallTimeSecs(a) + BlockTolerance
ReceiptsStayConsistent ==
    \A i \in DOMAIN commitments :
        LeavesRoom(start_anchor, i - 1) =>
            InternallyConsistent(commitments[i].anchor)

\* The orchestrator implements its contract (a panic is a failed run).
Contract == INSTANCE PipelineContract WITH
    size <- Len(Agents),
    phase <- IF status = "panicked" THEN "failed" ELSE status,
    issued <- commitments
ImplementsContract == Contract!Spec

\* A caller that keeps running an orchestrator whose agents fail transiently
\* at most gets a complete receipt in the end, however few attempts a run
\* makes, since the agents remember their failures (OraclePriceAgent's
\* failure_count, Orchestrator::run).
Completable ==
    /\ MaxRetries > 0
    /\ MaxRetries > 1 => BackoffFits(MaxRetries - 1)
    /\ \A k \in DOMAIN Agents : ~FailsForGood(k)
PersistenceCompletes ==
    (Completable /\ []<><<Start>>_vars) => <>(status = "complete")
=============================================================================
