--------------------------- MODULE MCFlushPipeline ---------------------------
(* FlushPipeline on small instances: batches of two entries in each pipe, so  *)
(* that a pipe can have a full batch, a partial one and entries behind it.    *)
EXTENDS FlushPipeline

MCBatchSize  == [p \in Pipes |-> 2]
MCMaxEntries == [audit |-> 3, metric |-> 3]
SmallMaxEntries == [audit |-> 3, metric |-> 2]
=============================================================================
