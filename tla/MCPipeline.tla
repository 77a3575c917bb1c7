----------------------------- MODULE MCPipeline -----------------------------
(* Bounded instances of Pipeline: four versions over two entities.         *)
EXTENDS Pipeline, TLC

CONSTANTS k1, k2, NoRefValue

\* Version 1 creates entity k2 (a collection); versions 0, 2, 3 write k1,
\* so k1 is written in several batches and by a replay after a crash.
MCWrites == (0 :> k1) @@ (1 :> k2) @@ (2 :> k1) @@ (3 :> k1)

\* No version needs a reference.
MCNoRefs == [v \in 0..3 |-> NoRefValue]

\* Version 2 writes an item of the table that version 1 created: when the
\* stream cuts the batches between them, the extractor has to look it up.
MCRefs == (0 :> NoRefValue) @@ (1 :> NoRefValue) @@ (2 :> 1) @@ (3 :> NoRefValue)
=============================================================================
