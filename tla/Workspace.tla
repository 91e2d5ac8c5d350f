----------------------------- MODULE Workspace -----------------------------
(***************************************************************************)
(* ACL policies, projects and jobs under one Terraform configuration: the  *)
(* resources of every kind go through the same runs, against one server    *)
(* that other people may also use.                                         *)
(***************************************************************************)
EXTENDS AclPolicy, Project, Job

VARIABLE clean      \* history: since this run was started, every request was
                    \* served as sent, nobody else wrote, and no two
                    \* resources were after the same policy or project

serverVars == <<policies, projects, jobs>>
vars == <<coreVars, kind, serverVars, clean>>

----------------------------------------------------------------------------
(* Bound: a job is only made while there is an id for it. *)
IdLeft(r) == kind[r] = "job" /\ call[r].pc = "Create" => Fresh # {}

(* The request of r is carried out. *)
Applied(r) ==
  /\ IdLeft(r)
  /\ policies' = IF kind[r] = "policy"  THEN PolicyApplied(r)  ELSE policies
  /\ projects' = IF kind[r] = "project" THEN ProjectApplied(r) ELSE projects
  /\ jobs'     = IF kind[r] = "job"     THEN JobApplied(r)     ELSE jobs

Answer(r) ==
  CASE kind[r] = "policy"  -> PolicyAnswer(r)
    [] kind[r] = "project" -> ProjectAnswer(r)
    [] kind[r] = "job"     -> JobAnswer(r)

Serve(r) ==
  /\ Waiting(r)
  /\ Applied(r) /\ Reached(r, Answer(r))
  /\ UNCHANGED <<bookVars, kind, clean>>

(* Bound: a job whose id never reaches Terraform keeps it for good, so the *)
(* answer to a create is only lost while ids remain for the other jobs.    *)
SpareIds(r) ==
  kind[r] = "job" /\ call[r].pc = "Create" =>
    Cardinality(Fresh) > Cardinality({s \in Resource : ~Managed(s)})

(* The request is refused, lost, or applied without the caller hearing.    *)
Disturb(r) ==
  /\ Waiting(r)
  /\ \E f \in env.faults :
       /\ IF f.applied THEN SpareIds(r) /\ Applied(r) ELSE UNCHANGED serverVars
       /\ Reached(r, Plain(f.status))
  /\ clean' = FALSE
  /\ UNCHANGED <<bookVars, kind>>

(* What no resource is about is of no interest: it is absent and stays so. *)
Of(k) == \E r \in Resource : kind[r] = k

(* Someone else writes or deletes a policy, a project or a job.  Jobs that *)
(* other people create have ids of their own and touch nothing here.       *)
Elsewhere ==
  /\ env.others
  /\ \/ \E n \in Name, c \in (Content \ Malformed) \cup {Gone} :
          /\ Of("policy") /\ policies[n] # c /\ policies' = [policies EXCEPT ![n] = c]
          /\ UNCHANGED <<projects, jobs>>
     \/ \E n \in Name, p \in [content : Content, by : {Someone}] \cup {Gone} :
          /\ Of("project") /\ projects[n] # p /\ projects' = [projects EXCEPT ![n] = p]
          /\ UNCHANGED <<policies, jobs>>
     \/ \E i \in JobId, c \in (Content \ Malformed) \cup {Gone} :
          /\ jobs[i] # Gone
          /\ jobs' = [jobs EXCEPT ![i] = IF c = Gone THEN Gone
                                         ELSE [@ EXCEPT !.content = c]]
          /\ UNCHANGED <<policies, projects>>
  /\ serverVars' # serverVars
  /\ clean' = FALSE
  /\ UNCHANGED <<coreVars, kind>>

Retry(r) == Resend(r) /\ UNCHANGED <<serverVars, kind, clean>>

Handler(r) ==
  /\ AclPolicyHandler(r) \/ ProjectHandler(r) \/ JobHandler(r)
  /\ UNCHANGED <<serverVars, kind, clean>>

----------------------------------------------------------------------------
(* The names a run may create, read or delete for r. *)
Wanted(r) == {n \in Name : \/ config[r] # NoBlock /\ config[r].name = n
                           \/ Managed(r) /\ state[r].object.name = n}
Contested == \E r, s \in Resource :
               /\ r # s /\ kind[r] = kind[s] /\ kind[r] # "job"
               /\ Wanted(r) \cap Wanted(s) # {}

Start == StartRun /\ clean' = ~Contested /\ UNCHANGED <<serverVars, kind>>
PlanAll == PlanObjects /\ UNCHANGED <<serverVars, kind, clean>>
End     == EndRun /\ clean' = FALSE /\ UNCHANGED <<serverVars, kind>>
Edit(r) == /\ \E b \in Block \cup {NoBlock} : EditConfig(r, b)
           /\ UNCHANGED <<serverVars, kind, clean>>

(* At first other people may own policies and projects, jobs as well but   *)
(* under ids that no resource will meet.                                   *)
Init ==
  /\ env \in Environments
  /\ kind \in Kinds
  /\ config   = [r \in Resource |-> NoBlock]
  /\ state    = [r \in Resource |-> Absent]
  /\ phase    = "idle" /\ outcome = "ok"
  /\ call     = [r \in Resource |-> Idle]
  /\ policies \in [Name -> (Content \ Malformed) \cup {Gone}]
  /\ projects \in [Name -> [content : Content, by : {Someone}] \cup {Gone}]
  /\ ~Of("policy")  => policies = [n \in Name |-> Gone]
  /\ ~Of("project") => projects = [n \in Name |-> Gone]
  /\ jobs     = [i \in JobId |-> Gone]
  /\ clean    = FALSE

Step(r) == Serve(r) \/ Disturb(r) \/ Retry(r) \/ Handler(r)
Next ==
  \/ \E r \in Resource : Step(r) \/ Edit(r)
  \/ Elsewhere \/ Start \/ PlanAll \/ End

Spec == Init /\ [][Next]_vars
=============================================================================
