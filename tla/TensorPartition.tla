--------------------------- MODULE TensorPartition ---------------------------
(***************************************************************************)
(* How a model is cut: by layers, into pipeline stages, when a tensor      *)
(* store selects the tensors of its stage                                  *)
(* (TensorStore/raw_s3_tensor_store_server.py), and each tensor by rows or *)
(* columns, into tensor-parallel shards, when the uploader writes them     *)
(* (TensorStore/raw_s3_model_uploader.py).                                 *)
(*                                                                         *)
(* A tensor is [kind, layer]; what a shard holds is the interval of its    *)
(* partitioned dimension it was sliced from.                               *)
(***************************************************************************)
EXTENDS Integers

\* A range is [from, to): the indices from, ..., to - 1.
Range0(from, to) == [from |-> from, to |-> to]
In(i, range) == range.from <= i /\ i < range.to
Least(a, b) == IF a <= b THEN a ELSE b

VocabPadded(vocab_size, padding_size) ==
  ((vocab_size + padding_size - 1) \div padding_size) * padding_size

\* Mutant: the vocabulary is divided without padding it.
RangeUnpadded(vocab_size, padding_size, tp_size, tp_rank) ==
  LET per_shard == vocab_size \div tp_size IN
  Range0(tp_rank * per_shard, (tp_rank + 1) * per_shard)
\* The rows of the embedding of one rank; the assertion that the padded size
\* is a multiple of tp_size is VocabDivides.
get_range_vocabulary_embedding_tensor(vocab_size, padding_size, tp_size, tp_rank) ==
  LET per_shard == VocabPadded(vocab_size, padding_size) \div tp_size IN
  Range0(Least(tp_rank * per_shard, vocab_size),
         Least(tp_rank * per_shard + per_shard, vocab_size))

VocabDivides(vocab_size, padding_size, tp_size) ==
  VocabPadded(vocab_size, padding_size) % tp_size = 0

\* The rows or columns of one rank of a dimension that tp_size divides.
get_tensor_idx_range(dim, tp_size, tp_rank) ==
  LET per_shard == dim \div tp_size IN
  Range0(tp_rank * per_shard, tp_rank * per_shard + per_shard)

-----------------------------------------------------------------------------
\* The kinds of tensors partition_tensor_for_tp tells apart: cut along the
\* vocabulary, along another dimension, or copied to every rank.
VocabKinds == {"embed_tokens", "lm_head"}
DividedKinds == {"q_proj", "k_proj", "v_proj", "gate_proj", "up_proj",  \* columns
                 "o_proj", "down_proj"}                                 \* rows
CopiedKinds == {"input_layernorm", "norm"}
LayerKinds == DividedKinds \cup {"input_layernorm"}

\* The interval of the tensor that rank tp_rank of tp_size receives.
partition_tensor_for_tp(kind, dim, padding_size, tp_size, tp_rank) ==
  IF kind \in VocabKinds
  THEN get_range_vocabulary_embedding_tensor(dim, padding_size, tp_size, tp_rank)
  ELSE IF kind \in DividedKinds THEN get_tensor_idx_range(dim, tp_size, tp_rank)
  ELSE Range0(0, dim)

\* The tensors of a model with the given number of layers.
Tensors(total_layers) ==
  [kind : LayerKinds, layer : 0..total_layers-1]
    \cup [kind : {"embed_tokens", "norm", "lm_head"}, layer : {0}]

\* Mutant: the range of layers includes its end.
LoadsEndLayer(t, from, to, total_layers, tie_word_embeddings) ==
  IF t.kind \in LayerKinds THEN from <= t.layer /\ t.layer <= to
  ELSE IF t.kind = "embed_tokens"
  THEN from <= 0 \/ (tie_word_embeddings /\ total_layers <= to)
  ELSE total_layers <= to
\* Whether the store of the stage with layers [from, to) loads tensor t.
should_load_tensor(t, from, to, total_layers, tie_word_embeddings) ==
  IF t.kind \in LayerKinds THEN from <= t.layer /\ t.layer < to
  ELSE IF t.kind = "embed_tokens"
  THEN from <= 0 \/ (tie_word_embeddings /\ total_layers <= to)
  ELSE total_layers <= to
=============================================================================
