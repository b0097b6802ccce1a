------------------------------ MODULE KVLayout ------------------------------
(***************************************************************************)
(* Which bytes are a block: detect and normalize of mini_llmcache/l0/      *)
(* kv_format.py, the flattening in register_kv_caches and the size of a    *)
(* block that KVTransfer takes from the first tensor, as operators on the  *)
(* KV caches that a worker registers.                                      *)
(*                                                                         *)
(* An attention backend (external) gives every layer a tensor, or a tuple  *)
(* of tensors, in one of four layouts; a tensor carries the axis that is   *)
(* its block axis, which the code does not see and must find.  A shape is  *)
(* a sequence of sizes, elements are bytes.                                *)
(***************************************************************************)
EXTENDS Naturals, Sequences, SequencesExt, Folds

CONSTANTS
  BlockCounts,       \* how many blocks the cache has
  Paddings,          \* blocks a backend adds to the block axis
  AxisSizes,         \* block size, heads and head size
  NumLayers,
  blocks_per_chunk

\* A cache with two blocks cannot be told from one split in K and V.
ASSUME LayoutAssumption ==
  /\ BlockCounts \subseteq Nat \ (0 .. 2)
  /\ Paddings \subseteq Nat
  /\ AxisSizes \subseteq Nat \ {0}
  /\ NumLayers \in Nat \ {0}
  /\ blocks_per_chunk \in Nat \ {0}

Tensor(shape, axis) == [shape |-> shape, axis |-> axis]
Product(s) == FoldLeft(LAMBDA a, b : a * b, 1, s)

\* The tensors of one layer with nb blocks under each backend.
Layers(nb) ==
  {<<Tensor(<<nb, 2, b, h, d>>, 1)>> : b, h, d \in AxisSizes}       \* FA
  \cup {<<Tensor(<<2, nb, b, h, d>>, 2)>> : b, h, d \in AxisSizes}
  \cup {<<Tensor(<<nb, b, h, d>>, 1), Tensor(<<nb, b, h, e>>, 1)>> :
          b, h, d, e \in AxisSizes}                                \* Ascend
  \cup {<<Tensor(<<nb, b, d>>, 1)>> : b, d \in AxisSizes}           \* MLA

None == 0

\* What register_kv_caches is called with: the caches of all layers, of any
\* sizes and layouts, and cache_config.num_gpu_blocks, which may be None.
Registrations ==
  UNION {{[caches |-> layers, num_blocks |-> nb] :
            layers \in [1 .. NumLayers -> Layers(n + p)], nb \in {n, None}} :
         n \in BlockCounts, p \in Paddings}

-----------------------------------------------------------------------------

Agrees(n, num_blocks) == num_blocks = None \/ n = num_blocks

\* Mutant: FA_KV_FIRST is decided by the number of blocks, too.
detect_exact(shape, num_blocks) ==
  CASE Len(shape) = 5 /\ shape[1] = 2 /\ Agrees(shape[2], num_blocks) -> "FA_KV_FIRST"
    [] Len(shape) = 5 -> "FA_BLOCK_FIRST"
    [] Len(shape) = 4 -> "FA_SPLIT"
    [] Len(shape) = 3 /\ Agrees(shape[1], num_blocks) -> "MLA"
    [] OTHER -> "unsupported"

BlockFirst(shape, num_blocks) ==
  Len(shape) = 5 /\ shape[2] = 2 /\ Agrees(shape[1], num_blocks)

detect(shape, num_blocks) ==
  CASE BlockFirst(shape, num_blocks) -> "FA_BLOCK_FIRST"
    [] Len(shape) = 5 /\ shape[1] = 2 /\ ~BlockFirst(shape, num_blocks) -> "FA_KV_FIRST"
    [] Len(shape) = 4 -> "FA_SPLIT"
    [] Len(shape) = 3 /\ Agrees(shape[1], num_blocks) -> "MLA"
    [] OTHER -> "unsupported"

\* movedim(1, 0)
MoveDim(t) ==
  Tensor(<<t.shape[2], t.shape[1]>> \o SubSeq(t.shape, 3, Len(t.shape)),
         CASE t.axis = 1 -> 2 [] t.axis = 2 -> 1 [] OTHER -> t.axis)

normalize(tensors, num_blocks) ==
  IF detect(tensors[1].shape, num_blocks) = "FA_KV_FIRST"
  THEN [t \in DOMAIN tensors |-> MoveDim(tensors[t])] ELSE tensors

\* self.kv_caches of register_kv_caches, which flattens tuples of tensors.
Views(r) == normalize(FlattenSeq(r.caches), r.num_blocks)

Nbytes(t) == Product(Tail(t.shape))
block_nbytes(r) == Nbytes(Views(r)[1])

\* chunk[layer].view(blocks_per_chunk, *shape[1:])
Fits(t, nbytes) == Nbytes(t) = nbytes

\* The registrations that reach a built KVTransfer; the others raise.
Registered ==
  {r \in Registrations :
     /\ detect(r.caches[1][1].shape, r.num_blocks) # "unsupported"
     /\ \A v \in DOMAIN Views(r) : Fits(Views(r)[v], block_nbytes(r))}

\* All layers have the block axis of the first, to which alone detect looks.
SameAxis(r) ==
  \A l \in DOMAIN r.caches : r.caches[l][1].axis = r.caches[1][1].axis

=============================================================================
