----------------------------- MODULE MCAsyncGrpo -----------------------------
(***************************************************************************)
(* Asynchronous GRPO for TLC.  The configurations give every constant a    *)
(* value; the identities of the groups are the (batch, prompt) pairs, and  *)
(* the buffer has the size that async_grpo_train gives it.                 *)
(***************************************************************************)
EXTENDS AsyncGrpo

(* late_arrival_slack = 2 *)
BufferSize == NumPrompts * MaxAge * 2

=============================================================================
