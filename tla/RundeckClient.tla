--------------------------- MODULE RundeckClient ---------------------------
(***************************************************************************)
(* What a handler sees of one call to the generated Rundeck client         *)
(* (vendor/github.com/rundeck/go-rundeck) over the go-autorest sender:     *)
(* which status codes a call accepts, which ones the sender retries, and   *)
(* when a call comes back without any HTTP response at all.                *)
(*                                                                         *)
(* 200 stands for every success code of a call (200, 201, 204), 500 for    *)
(* every code of StatusCodesForRetry but 429, 403 for every other refusal. *)
(***************************************************************************)
EXTENDS Naturals

CONSTANT RetryAttempts      \* client.RetryAttempts: retries after the first try
ASSUME RetryAttemptsAssumption == RetryAttempts \in Nat

NetworkErrors == {"temporary", "permanent"}     \* a nil *http.Response
Status == {"200", "400", "403", "404", "409", "429", "500"} \cup NetworkErrors

(* The codes each call's responder does not turn into an error. *)
Accepted ==
  [ StorageKeyCreate      |-> {"200", "409"},
    StorageKeyUpdate      |-> {"200"},
    StorageKeyDelete      |-> {"200"},
    StorageKeyGetMetadata |-> {"200", "404"},
    StorageKeyGetMaterial |-> {"200", "404"},
    SystemACLPolicyCreate |-> {"200", "400", "409"},
    SystemACLPolicyUpdate |-> {"200", "404"},
    SystemACLPolicyGet    |-> {"200", "404"},
    SystemACLPolicyDelete |-> {"200", "404"},
    ProjectCreate         |-> {"200", "409"},
    ProjectConfigUpdate   |-> {"200"},
    ProjectGet            |-> {"200", "404"},
    ProjectDelete         |-> {"200"},
    ProjectJobsImport     |-> {"200"},
    JobGet                |-> {"200", "404"},
    JobDelete             |-> {"200", "404"} ]

(* err != nil in the handler. *)
Failed(op, status) == status \notin Accepted[op]

(* resp.Response is nil in the handler: resp.StatusCode panics. *)
NilResponse(status) == status \in NetworkErrors

(* DoRetryForStatusCodes: a 429 is never counted against the attempts, a   *)
(* permanent network error is never retried.                               *)
Counted(status)  == status # "429"
MayRetryOnceMore(status, tries) ==      \* mutant: off by one
  \/ status = "429"
  \/ status \in {"500", "temporary"} /\ tries <= RetryAttempts
MayRetry(status, tries) ==
  \/ status = "429"
  \/ status \in {"500", "temporary"} /\ tries < RetryAttempts
=============================================================================
