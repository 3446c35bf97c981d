-------------------------- MODULE MCCheckpointSink --------------------------
(* Small instances of CheckpointSink for TLC. *)
EXTENDS CheckpointSink

\* Supersteps whose delta batches are handed over before the plain ones.
DeltaFirst == {<<>>, <<FALSE>>, <<TRUE>>, <<TRUE, TRUE>>, <<TRUE, FALSE>>}

\* Supersteps of up to two tasks, writing in any order.
AnyOrder == {<<>>, <<TRUE>>, <<FALSE, TRUE>>}
=============================================================================
