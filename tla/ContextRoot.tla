---------------------------- MODULE ContextRoot ----------------------------
(***************************************************************************)
(* The execution-context root (src/context.rs): the fields of a context    *)
(* are written one after the other, without lengths or separators, and the *)
(* result is hashed. The hash is injective, so a root is modelled by the   *)
(* sequence of cells that is hashed. A cell stands for a byte, or for a    *)
(* number of fixed width; a digest takes HashLen cells (32 in the code).   *)
(* Two fields have no fixed length: an attention kernel takes one cell or  *)
(* two, a cache root one or 1 + HashLen.                                   *)
(***************************************************************************)
EXTENDS Naturals, Sequences

CONSTANTS
    Cells,   \* what a cell may hold
    HashLen, \* cells of a digest
    Tags,    \* tags of attention kernels that are not enumerated
    NoCache  \* kv_cache_root = None

ASSUME ContextRootAssumption ==
    /\ Cells \subseteq Nat /\ Tags \subseteq Cells
    /\ {0, 1, 2, 3, 4, 128} \subseteq Cells
    /\ HashLen \in Nat
    /\ NoCache \notin [1..HashLen -> Cells]

Hash32 == [1..HashLen -> Cells]

SamplingParams == [temperature : Cells, top_k : Cells, top_p : Cells,
                   seed : Cells]

\* The tag of an enumerated kernel is 0, and means nothing.
AttentionImpl ==
    [impl : {"FlashAttention2", "Sdpa", "FlexAttention"}, tag : {0}]
    \cup [impl : {"Other"}, tag : Tags]

PrecisionMode == {"Bf16", "Fp16", "Fp32", "Fp8"}

InferenceConfig == [max_tokens : Cells, stop_sequences_root : Hash32,
                    penalty_params_root : Hash32]

ExecutionContext ==
    [weights_hash : Hash32, tokenizer_hash : Hash32,
     system_prompt_hash : Hash32, sampling_params : SamplingParams,
     runtime_version : Hash32, attention_impl_id : AttentionImpl,
     precision_mode : PrecisionMode, inference_config : InferenceConfig,
     input_manifest_root : Hash32, kv_cache_root : Hash32 \cup {NoCache}]

-----------------------------------------------------------------------------
SamplingBytes(s) == <<s.temperature, s.top_k, s.top_p, s.seed>>

\* AttentionImpl::encoding
Encoding(a) ==
    CASE a.impl = "FlashAttention2" -> <<1>>
      [] a.impl = "Sdpa" -> <<2>>
      [] a.impl = "FlexAttention" -> <<3>>
      [] a.impl = "Other" -> <<128, a.tag>>

Discriminant(p) ==
    CASE p = "Bf16" -> 1 [] p = "Fp16" -> 2 [] p = "Fp32" -> 3 [] p = "Fp8" -> 4

ConfigBytes(i) ==
    <<i.max_tokens>> \o i.stop_sequences_root \o i.penalty_params_root

CacheBytes(root) == IF root = NoCache THEN <<0>> ELSE <<1>> \o root

\* What ExecutionContextRoot::merkle_root hashes.
MerkleRoot(c) ==
    c.weights_hash \o c.tokenizer_hash \o c.system_prompt_hash
    \o SamplingBytes(c.sampling_params) \o c.runtime_version
    \o Encoding(c.attention_impl_id) \o <<Discriminant(c.precision_mode)>>
    \o ConfigBytes(c.inference_config) \o c.input_manifest_root
    \o CacheBytes(c.kv_cache_root)

=============================================================================
