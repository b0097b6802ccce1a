------------------------------ MODULE ChunkKeys -----------------------------
(***************************************************************************)
(* What identifies a chunk: the hash chain of mini_llmcache/utils/         *)
(* hasher.py, the ChunkKey of protocol.py, the file name of l2/fs.py and   *)
(* the keys server.py makes of a request.                                  *)
(*                                                                         *)
(* An engine is a record of what its REGISTER announces.  The bytes of a   *)
(* chunk depend on its whole token prefix and on the engine's model, world *)
(* size and rank.  BLAKE3 is external and taken to be injective.           *)
(***************************************************************************)
EXTENDS Naturals, Sequences

CONSTANT chunk_size

ASSUME KeysAssumption == chunk_size \in Nat \ {0}

hash_one(prefix_hash, tokens) == <<prefix_hash, tokens>>
NONE_HASH == <<>>

ChunkTokens(token_ids, i) ==
  SubSeq(token_ids, (i - 1) * chunk_size + 1, i * chunk_size)
NumChunks(token_ids) == Len(token_ids) \div chunk_size

\* Mutant: a chunk is hashed without its prefix.
chunk_hashes_unchained(token_ids) ==
  [i \in 1 .. NumChunks(token_ids) |-> hash_one(NONE_HASH, ChunkTokens(token_ids, i))]

chunk_hashes(token_ids) ==
  LET h[i \in 0 .. NumChunks(token_ids)] ==
        IF i = 0 THEN NONE_HASH ELSE hash_one(h[i - 1], ChunkTokens(token_ids, i))
  IN  [i \in 1 .. NumChunks(token_ids) |-> h[i]]

\* What an engine registers with.
RegisterPayload(instance_id, model, rank, world_size, chunk_nbytes) ==
  [instance_id |-> instance_id, model |-> model, rank |-> rank,
   world_size |-> world_size, chunk_nbytes |-> chunk_nbytes]

ChunkKey(h, model, rank) == [chunk_hash |-> h, model |-> model, rank |-> rank]

\* A model's name is a sequence of parts; replace('/', '-') acts on it.
filename(key) ==
  <<[i \in DOMAIN key.model |-> IF key.model[i] = "/" THEN "-" ELSE key.model[i]],
    key.rank, key.chunk_hash>>

\* The keys of the hashes at the ranks 0 .. n - 1, the ranks of a chunk
\* side by side.
keys_for(hashes, model, n) ==
  [j \in 1 .. (Len(hashes) * n) |->
     ChunkKey(hashes[(j - 1) \div n + 1], model, (j - 1) % n)]

\* The keys of the chunks of one rank, from chunk start on.
op_keys(token_ids, start, e) ==
  LET hashes == chunk_hashes(token_ids)
  IN  [i \in 1 .. (Len(hashes) - start) |->
         ChunkKey(hashes[start + i], e.model, e.rank)]

\* The chunk of engine e for a prefix of tokens.
Chunk(e, tokens) ==
  [tokens |-> tokens, model |-> e.model, world_size |-> e.world_size,
   rank |-> e.rank, nbytes |-> e.chunk_nbytes]
Prefix(token_ids, i) == SubSeq(token_ids, 1, i * chunk_size)

=============================================================================
