----------------------------- MODULE LRUPolicy -----------------------------
(***************************************************************************)
(* The recency list of the evictor (mini_llmcache/l1/eviction.py).  It is  *)
(* a listener of L1Manager: its updates run inside the locked section of   *)
(* the method that notifies it.                                            *)
(***************************************************************************)
EXTENDS L1Manager, SequencesExt

VARIABLE order  \* the keys, least recently used first

LRUInit == order = <<>>

\* The keys of a list that are in S, in their order.
Selected(list, S) ==
  LET sel[i \in 0 .. Len(list)] ==
        IF i = 0 THEN <<>>
        ELSE IF list[i] \in S THEN Append(sel[i - 1], list[i]) ELSE sel[i - 1]
  IN  sel[Len(list)]

\* The list without the keys of a set.
Without(list, keys) == Selected(list, Range(list) \ keys)

\* on_created, and on_touched: the keys move to the recent end, last first,
\* so that the head of a prompt outlives its tail.
on_created(keys) == order' = Without(order, Range(keys)) \o Reverse(keys)
on_touched(keys) == on_created(keys)

on_removed(keys) == order' = Without(order, keys)

\* Mutant: on_removed is not sent for the freed entries.
on_finish_read_silent(keys) ==
  LET freed == LastHold(Range(keys))
  IN  order' = Without(order, Range(keys) \ freed)
                 \o Reverse(Without(keys, freed))

\* What finish_read(keys) notifies: on_touched for the entries that stay,
\* then on_removed for the temporary ones it freed.
on_finish_read(keys) ==
  LET freed == LastHold(Range(keys))
  IN  order' = Without(order, Range(keys))
                 \o Reverse(Without(keys, freed))

\* used / total >= WATERMARK, which is 0.8: the least such number of bytes.
WatermarkBytes == (4 * Capacity + 4) \div 5
AboveWatermark == used_bytes >= WatermarkBytes

\* Mutant: no max(1, ...).
TargetRounded(list) == Len(list) \div 5

\* max(1, int(len(order) * EVICTION_RATIO)), which is 0.2.
Target(list) == IF Len(list) < 5 THEN 1 ELSE Len(list) \div 5

\* get_victims: the first evictable keys of the list, at most the target.
get_victims ==
  LET eligible == Selected(order, {k \in Range(order) : is_evictable(k)})
      target == Target(order)
  IN  Range(IF Len(eligible) <= target THEN eligible
            ELSE SubSeq(eligible, 1, target))

=============================================================================
