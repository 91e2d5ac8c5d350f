------------------------ MODULE ConversionsProperties ------------------------
(* What the two translations promise to a user over several runs. *)
EXTENDS Conversions

(* Where a run can be, and that an object is only recorded, and tainted,   *)
(* of a thing that is on the server.                                       *)
TypeOK ==
  /\ kind \in {"project", "job"} /\ block \in Blocks
  /\ step \in {"idle", "planned", "written"}
  /\ history \in [touched : BOOLEAN, refused : BOOLEAN, unread : BOOLEAN]
  /\ step # "idle" => stored # Nothing
  /\ object # Nothing => stored # Nothing
  /\ tainted \in BOOLEAN
  /\ tainted => stored # Nothing /\ step # "written"

----------------------------------------------------------------------------
(* Blocks that say nothing the translation back cannot say. *)

(* extra_config is written with slashes and stays clear of what has an     *)
(* attribute of its own; a setting of a source is one word to a dot.       *)
TidyProject(b) ==
  /\ \A k \in DOMAIN b.extra :
       /\ "." \notin Range(k)
       /\ slashReplacer(k) \notin AttributeKeys
       /\ ~NamesSource(slashReplacer(k))
  /\ \A i \in DOMAIN b.sources : \A s \in DOMAIN b.sources[i].config : "." \notin Range(s)

(* Every setting of every plugin has a key that is not the empty string.   *)
Keyed(b) == \A p \in Plugins(JobFrom(b)) : Empty \notin DOMAIN p.config

CommaFree(list) == Each(list, LAMBDA x : Len(x) = 1)

TidyNotification(n) ==
  /\ AtMostOne(n.email) /\ Each(n.email, LAMBDA e : CommaFree(e.recipients))
  /\ CommaFree(n.webhook_urls) /\ Called(n) = n

(* No commas within list entries, notifications in the order they are      *)
(* read back, no dates among the options, not "* ?" for the days, no log   *)
(* filter without settings, no setting without a key.                      *)
TidyJob(b) ==
  /\ Keyed(b)
  /\ Each(b.filters, LAMBDA f : DOMAIN f.config # {})
  /\ b.schedule # <<>> => {b.schedule[4], b.schedule[6]} # {"*", "?"}
  /\ Each(b.options, LAMBDA o : CommaFree(o.value_choices) /\ ~o.is_date /\ o.date_format = "")
  /\ Each(b.notifications, TidyNotification)
  /\ \E types \in {SelectSeq(NotificationTypes, LAMBDA t : t \in chosen) :
                     chosen \in SUBSET Range(NotificationTypes)} :
       types = [i \in DOMAIN b.notifications |-> b.notifications[i].type]

Tidy(b) == IF kind = "project" THEN TidyProject(b) ELSE TidyJob(b)

(* A create or update of a tidy block that nobody interferes with can be   *)
(* read back and leaves an object equal to the block, whatever the service *)
(* leaves out of its answer: the next plan is empty. The contract of       *)
(* CreateProject, UpdateProject, CreateJob and UpdateJob, which all end in *)
(* a read.                                                                 *)
TidyBlocksSettle ==
  [][step = "written" /\ step' = "idle" /\ ~history.touched /\ Tidy(block)
     => object' = block /\ ~tainted' /\ ~history'.unread]_vars

(* A job that nobody else has changed since it was written can be read     *)
(* back, and is not to be replaced: whatever jobFromResourceData accepts,  *)
(* tidy or not, is sent as a document that can be decoded again, but for   *)
(* empty keys (unmarshalMapFromXML), and only a log filter without         *)
(* settings brings the read down.                                          *)
OwnJobsReadable ==
  [][kind = "job" /\ step = "written" /\ step' = "idle" /\ ~history.touched /\ Keyed(block)
     => /\ ~tainted'
        /\ history'.unread => \E i \in DOMAIN block.filters :
                                DOMAIN block.filters[i].config = {}]_vars

(* The same of every project block, as the example in project.html.md     *)
(* has it with a dot in a key of extra_config.                             *)
ProjectBlocksSettle ==
  [][kind = "project" /\ step = "written" /\ step' = "idle" /\ ~history.touched
     => object' = block]_vars

----------------------------------------------------------------------------
(* The numbers of the sources only order them. *)
Renumbered(p) ==
  LET rank(i) == Cardinality({j \in Indices(p) : j <= i})
      name(k) == IF NamesSource(k) THEN [k EXCEPT ![5] = Numerals[rank(Index(k))]] ELSE k
  IN {<<name(k), p[k]>> : k \in DOMAIN p}

ProjectAgrees(p, b) == \E q \in UpdateMaps(b) : Renumbered(p) = Renumbered(q)

(* "* ?" and "? *" restrict no day, as "* *". *)
SameSchedule(s, t) ==
  \/ s = t
  \/ /\ Len(s) = 7 /\ Len(t) = 7
     /\ \A i \in {4, 6} : s[i] \in {"*", "?"} /\ t[i] \in {"*", "?"}
     /\ \A i \in 1 .. 7 \ {4, 6} : s[i] = t[i]

Undated(options) ==
  [i \in DOMAIN options |->
     [preserve |-> options[i].preserve,
      list |-> [j \in DOMAIN options[i].list |->
                  Restrict(options[i].list[j],
                           DOMAIN options[i].list[j] \ {"is_date", "date_format"})]]]

ScalarOf(doc, a)   == IF a \in DOMAIN doc.scalars THEN doc.scalars[a] ELSE Empty
DispatchOf(doc, a) ==
  IF doc.dispatch = <<>> THEN DispatchDefault[a]
  ELSE IF a \in DOMAIN doc.dispatch[1] THEN doc.dispatch[1][a] ELSE Empty

(* The settings of a plugin do not depend on the order they are listed in, *)
(* nor on what stands between them.                                        *)
Listed(p) == [type |-> p.type, settings |-> {t \in Range(p.configuration) : t.name = "entry"}]
ListedIn(ps) == [i \in DOMAIN ps |-> Listed(ps[i])]
StepListed(c) == [c EXCEPT !.step_plugin = ListedIn(@), !.node_step_plugin = ListedIn(@)]
CommandsListed(cs) ==
  [i \in DOMAIN cs |->
     [StepListed(cs[i]) EXCEPT !.error_handler = [j \in DOMAIN @ |-> StepListed(@[j])]]]
NotificationListed(ns) == [t \in DOMAIN ns |-> [ns[t] EXCEPT !.plugin = ListedIn(@)]]

(* Nor do those of a log filter, and none at all are like an empty list.   *)
FiltersListed(fs) ==
  [i \in DOMAIN fs |-> [type |-> fs[i].type, settings |-> UNION {Range(c) : c \in Range(fs[i].config)}]]

(* All of a definition but its timeout, what becomes of it on an empty     *)
(* node filter, which options are dates, and a schedule or log filters     *)
(* that have been removed.                                                 *)
JobAgrees(doc, b) ==
  LET want == Marshal(JobFrom(b))
  IN /\ \A a \in DOMAIN ZeroScalars \ Unread : ScalarOf(doc, a) = ScalarOf(want, a)
     /\ \A a \in Dispatched \ Unread : DispatchOf(doc, a) = DispatchOf(want, a)
     /\ doc.schedule # <<>> => SameSchedule(doc.schedule, want.schedule)
     /\ Undated(doc.options) = Undated(want.options)
     /\ doc.filters # <<>> => FiltersListed(doc.filters) = FiltersListed(want.filters)
     /\ CommandsListed(doc.commands) = CommandsListed(want.commands)
     /\ NotificationListed(doc.notification) = NotificationListed(want.notification)

(* Whatever other people have made of a project or job, a refresh after    *)
(* which the plan is empty means that the server has what the block says,  *)
(* up to the losses named above: no other drift escapes ReadProject's and  *)
(* jobToResourceData's way of setting attribute by attribute.              *)
DriftIsSeen ==
  [][step = "idle" /\ step' = "planned" /\ object' = block
     => IF kind = "project" THEN ProjectAgrees(stored, block)
                            ELSE JobAgrees(stored, block)]_vars

(* The parts of a job that a refresh cannot check are nevertheless as the  *)
(* block has them when the plan is empty, while nobody else writes and no  *)
(* update has been refused since the last one that was not: every update   *)
(* sends the whole definition.                                             *)
UnreadPartsApplied ==
  [][kind = "job" /\ step = "idle" /\ step' = "planned" /\ object' = block
       /\ ~history.touched /\ ~history.refused
     => /\ ScalarOf(stored, "timeout") = block.scalars["timeout"]
        /\ DispatchOf(stored, "success_on_empty_node_filter")
             = block.scalars["success_on_empty_node_filter"]
        /\ SameSchedule(stored.schedule, block.schedule)
        /\ stored.filters = MarshalFilters(JobFrom(block).filters)]_vars

(* What jobFromResourceData refuses, it refuses again in the next run: an  *)
(* empty plan means that the block is one that would be accepted, that     *)
(* one of its two days is a "?" for instance.                              *)
RefusedStaysRefused ==
  [][step = "idle" /\ step' = "planned" /\ object' = block => Accepted(block)]_vars
=============================================================================
