----------------------------- MODULE AclPolicy -----------------------------
(* rundeck_acl_policy: the id of a policy is its name.                     *)
EXTENDS ServerObjects

VARIABLE policies       \* policies[n]: the policy's text, or Gone

PolicyApplied(r) ==
  LET n == call[r].data.name
      c == call[r].data.content
  IN CASE call[r].pc = "Create" /\ policies[n] = Gone /\ c \notin Malformed ->
            [policies EXCEPT ![n] = c]
       [] call[r].pc = "Update" /\ policies[n] # Gone /\ c \notin Malformed ->
            [policies EXCEPT ![n] = c]
       [] call[r].pc = "Delete" -> [policies EXCEPT ![n] = Gone]
       [] OTHER -> policies

PolicyAnswer(r) ==
  LET pc == call[r].pc
      p  == policies[call[r].data.name]
      malformed == call[r].data.content \in Malformed
  IN IF pc \in {"Create", "Update"} /\ malformed THEN Plain("400")
     ELSE IF pc = "Create" THEN Plain(IF p = Gone THEN "200" ELSE "409")
     ELSE IF p = Gone      THEN Plain("404")
     ELSE [Plain("200") EXCEPT !.content = p]

----------------------------------------------------------------------------
(* AclPolicyExists and ReadAclPolicy get the whole policy each. *)
AclPolicyExists(r) == ObjectExists(r, "SystemACLPolicyGet")
ReadAclPolicy(r) ==
  ReadObject(r, "SystemACLPolicyGet",
             [call[r].data EXCEPT !.content = call[r].reply.content])

CreateOrAdoptAclPolicy(r) ==        \* mutant: the conflict is not looked for
  /\ Heard(r, "Create")
  /\ IF Err(r, "SystemACLPolicyCreate")
       THEN Created(r, NoObject, TRUE)
       ELSE Created(r, [call[r].data EXCEPT !.id = call[r].data.name], FALSE)

(* A created policy is not read back. *)
CreateAclPolicy(r) ==
  /\ Heard(r, "Create")
  /\ IF Code(r) = "200"
       THEN Created(r, [call[r].data EXCEPT !.id = call[r].data.name], FALSE)
       ELSE Created(r, NoObject, TRUE)

(* Nor is an updated one: a 404 passes for success. *)
UpdateAclPolicy(r) ==
  /\ Heard(r, "Update")
  /\ Updated(r, call[r].data, Err(r, "SystemACLPolicyUpdate"))

AclPolicyDelete(r) == DeleteObject(r, "SystemACLPolicyDelete")

AclPolicyHandler(r) ==
  /\ kind[r] = "policy"
  /\ \/ AclPolicyExists(r) \/ ReadAclPolicy(r)
     \/ CreateAclPolicy(r) \/ UpdateAclPolicy(r) \/ AclPolicyDelete(r)
=============================================================================
