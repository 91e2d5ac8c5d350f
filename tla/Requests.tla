------------------------------ MODULE Requests ------------------------------
(***************************************************************************)
(* A handler's request on its way to the Rundeck server and back: every    *)
(* request is answered in a step of its own, may be sent again by the      *)
(* go-autorest sender, and is then acted upon by the handler in another    *)
(* step.  So handlers interleave between an answer being given and being   *)
(* acted upon, and a crash of the provider loses the answers in flight.    *)
(***************************************************************************)
EXTENDS TerraformCore

Quiet == {"idle", "Forget"}             \* program points without a request

Waiting(r) == call[r].pc \notin Quiet /\ call[r].reply = NoReply

(* The server's answer reaches the client. *)
Reached(r, reply) == call' = [call EXCEPT ![r].reply = reply]

(* DoRetryForStatusCodes sends the request again. *)
CanRetry(r) == /\ call[r].reply # NoReply
               /\ MayRetry(call[r].reply.status, call[r].tries)
Resend(r) ==
  /\ CanRetry(r)
  /\ call' = [call EXCEPT ![r].reply = NoReply,
                          ![r].tries = IF Counted(call[r].reply.status)
                                         THEN @ + 1 ELSE @]
  /\ UNCHANGED bookVars

----------------------------------------------------------------------------
(* What a handler at pc hears of its request, a call of op. *)

Heard(r, pc) ==
  call[r].pc = pc /\ call[r].reply # NoReply /\ ~CanRetry(r)

Code(r)        == call[r].reply.status
Nil(r)         == NilResponse(Code(r))
Err(r, op)     == Failed(op, Code(r))
Refused(r, op) == Err(r, op) /\ ~Nil(r)
=============================================================================
