------------------------------ MODULE Context ------------------------------
(***************************************************************************)
(* The context.Context of Runtime.Run, which every goroutine shares.       *)
(***************************************************************************)
VARIABLE
  cancelled   \* ctx.Done() is closed

ContextInit == cancelled = FALSE

\* A signal, or cancel() after the admin server has failed.
CancelContext == cancelled' = TRUE
=============================================================================
