--------------------------- MODULE MCCacheServer ---------------------------
(***************************************************************************)
(* CacheServer for TLC: chunks of one byte, one or two requests with       *)
(* prompts of one or two chunks.                                           *)
(***************************************************************************)
EXTENDS CacheServer

CONSTANTS r1, r2, h1, h2

MCSizes == {1}
OneChunk == {h1} \X Ranks
TwoChunks == {h1, h2} \X Ranks

OneRequest == {r1}
TwoRequests == {r1, r2}

\* One request of one or two chunks.
ShortPrompt == [r \in OneRequest |-> <<h1>>]
LongPrompt == [r \in OneRequest |-> <<h1, h2>>]
\* Two requests: the prompt of r2 is a prefix of that of r1, the prompts
\* are the same, or they have nothing in common.
NestedPrompts == [r \in TwoRequests |-> IF r = r1 THEN <<h1, h2>> ELSE <<h1>>]
SamePrompts == [r \in TwoRequests |-> <<h1>>]
OtherPrompts == [r \in TwoRequests |-> IF r = r1 THEN <<h1>> ELSE <<h2>>]

NoAdapters == {}
Adapter1 == {1}
BothAdapters == {1, 2}

\* What earlier runs left in L2.
Nothing == {}
Everything == {Keys}
Anything == SUBSET Keys

=============================================================================
