--------------------------- MODULE MCOrchestrator ---------------------------
(***************************************************************************)
(* Pipelines in the right order, out of order, with an agent twice, empty, *)
(* and with oracles that fail up to eight times or for good; retry limits  *)
(* from none to more than the backoff has bits for (a u64 has 7 here); one *)
(* start anchor with room for all steps and one without.                   *)
(***************************************************************************)
EXTENDS Orchestrator, FiniteSets

Oracle(flakiness) == [identity |-> "oracle-price", flakiness_seed |-> flakiness,
                      permanent |-> FALSE, threshold_e6 |-> 0]
DeadOracle == [Oracle(0) EXCEPT !.permanent = TRUE]
Decision(threshold) == [identity |-> "decision", flakiness_seed |-> 0,
                        permanent |-> FALSE, threshold_e6 |-> threshold]
Settlement == [Decision(0) EXCEPT !.identity = "settlement"]

MCPipelines ==
    {<<Oracle(n), Decision(5), Settlement>> : n \in {0, 2, 8}}
    \cup {<<>>, <<DeadOracle, Decision(5)>>,
          <<Settlement, Oracle(0)>>, <<Oracle(0), Settlement, Decision(5)>>,
          <<Oracle(1), Decision(5), Oracle(2), Decision(5)>>,
          <<Oracle(0), Decision(5), Decision(9), Settlement>>}

MCTasks == {[task_id |-> 1, input |-> 3], [task_id |-> 2, input |-> 3]}

\* At second 19 the Drand round is a second old, at 22 four; the clocks agree
\* within a tolerance of 2 s + 1 round of 6 s.
MCStartAnchors == {ReadClocks(5, 19, 0), ReadClocks(7, 22, 2)}

Digest(n) == [i \in 1..HashLen |-> n]
MCDigests == {Digest(0), Digest(1), Digest(128), <<1, 0>>, <<0, 128>>}
MCContexts ==
    [weights_hash : {Digest(0)}, tokenizer_hash : {Digest(0)},
     system_prompt_hash : {Digest(0), Digest(1)},
     sampling_params : [temperature : {0}, top_k : {0, 1}, top_p : {1},
                        seed : {0, 1}],
     runtime_version : {Digest(0), <<1, 0>>},
     attention_impl_id : AttentionImpl, precision_mode : PrecisionMode,
     inference_config : [max_tokens : {0, 1}, stop_sequences_root : {Digest(0)},
                         penalty_params_root : {Digest(0), Digest(1)}],
     input_manifest_root : {Digest(0), <<1, 0>>},
     kv_cache_root : MCDigests \cup {NoCache}]

\* No two of these contexts have the same root, although fields of different
\* length follow each other without a separator (the instance of the theorem
\* RootBindsContext that TLC evaluates).
ASSUME RootsDiffer ==
    Cardinality({MerkleRoot(c) : c \in MCContexts}) = Cardinality(MCContexts)
=============================================================================
