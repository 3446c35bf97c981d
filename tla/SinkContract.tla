---------------------------- MODULE SinkContract ----------------------------
(***************************************************************************)
(* What a run may rely on when it hands checkpoints and task writes to the *)
(* checkpoint sink, whatever the durability mode: the requests the sink    *)
(* accepted form a log, the saver holds a prefix of that log, a failure    *)
(* freezes the checkpoints for the rest of the run, and the run is told    *)
(* "ok" only when the whole log is durable.                                *)
(***************************************************************************)
EXTENDS Naturals, Sequences

CONSTANT Request,      \* the requests a run can issue
         IsPut(_)      \* the requests that save a checkpoint

VARIABLES log,         \* requests whose call returned nil, in call order
          durable,     \* how many of them the saver has stored
          failed,      \* a saver call of this run has failed
          verdict      \* what the run returns: "none" while it runs

contractVars == <<log, durable, failed, verdict>>

ContractInit ==
    /\ log = <<>>
    /\ durable = 0
    /\ failed = FALSE
    /\ verdict = "none"

(* A call returns nil.  Its request is queued, or it is stored at once when *)
(* nothing is queued before it; a checkpoint is never stored past a failure.*)
Accept(r) ==
    /\ verdict = "none"
    /\ log' = Append(log, r)
    /\ \/ durable' = durable
       \/ /\ durable = Len(log)
          /\ durable' = durable + 1
          /\ failed => ~IsPut(r)
    /\ UNCHANGED <<failed, verdict>>

(* The oldest queued request reaches the saver. *)
Persist ==
    /\ verdict = "none"
    /\ ~failed
    /\ durable < Len(log)
    /\ durable' = durable + 1
    /\ UNCHANGED <<log, failed, verdict>>

(* A saver call fails. *)
Fail ==
    /\ verdict = "none"
    /\ failed' = TRUE
    /\ UNCHANGED <<log, durable, verdict>>

(* The run returns; "ok" promises that everything accepted is stored (a run *)
(* may return an error for reasons of its own).                             *)
Return ==
    /\ verdict = "none"
    /\ \/ /\ verdict' = "ok"
          /\ ~failed
          /\ durable = Len(log)
       \/ verdict' = "error"
    /\ UNCHANGED <<log, durable, failed>>

ContractNext == (\E r \in Request : Accept(r)) \/ Persist \/ Fail \/ Return

ContractSpec == ContractInit /\ [][ContractNext]_contractVars
=============================================================================
