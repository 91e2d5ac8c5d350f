---------------------------- MODULE JobDefinition ----------------------------
(***************************************************************************)
(* The two translations of a rundeck_job: the definition (JobDetail) that  *)
(* jobFromResourceData makes of a block, and the object that               *)
(* jobToResourceData makes of a definition.                                *)
(*                                                                         *)
(* A pointer that may be nil, like a nested block that may be missing, is  *)
(* a sequence of at most one element; a zero value is "" or FALSE.  The    *)
(* strings that end up in lists between commas (choices, recipients, URLs) *)
(* are sequences of the pieces between their own commas.  A block, or an   *)
(* object, has scalars (by attribute), schedule (its words), options,      *)
(* filters, commands and notifications.                                    *)
(***************************************************************************)
EXTENDS Naturals, SequencesExt

(* The scalar attributes; those in the first set travel in <dispatch>.     *)
Dispatched ==
  {"max_thread_count", "continue_next_node_on_error", "rank_attribute",
   "rank_order", "success_on_empty_node_filter"}
Scalar == Dispatched \cup
  {"name", "group_name", "project_name", "description", "execution_enabled",
   "timeout", "schedule_enabled", "time_zone", "log_level",
   "allow_concurrent_executions", "retry", "continue_on_error",
   "command_ordering_strategy", "preserve_options_order", "node_filter_query",
   "node_filter_exclude_query", "node_filter_exclude_precedence"}

(* What an answer without <dispatch> stands for. *)
DispatchDefault ==
  [a \in Dispatched |-> CASE a = "max_thread_count" -> "1"
                         [] a = "rank_order" -> "ascending"
                         [] OTHER -> ""]

(* Attributes that no read sets: an object keeps what was planned.         *)
Unread == {"timeout", "success_on_empty_node_filter"}

NotificationTypes == <<"on_success", "on_failure", "on_start">>

AtMostOne(list) == Len(list) <= 1
Each(list, P(_)) == \A i \in DOMAIN list : P(list[i])

----------------------------------------------------------------------------
(* What jobFromResourceData refuses, before any request. *)

(* Words 4 and 6 are the day of the month and the day of the week. *)
ScheduleAccepted(s) ==
  \/ s = <<>>
  \/ /\ Len(s) = 7
     /\ IF s[4] = s[6] THEN s[4] = "*" ELSE "?" \in {s[4], s[6]}

OptionAccepted(o) ==
  /\ o.storage_path # "" \/ o.exposed_to_scripts => o.obscure_input
  /\ o.is_date => o.date_format # ""
  /\ Each(o.value_choices, LAMBDA c : c # <<>>)

StepAccepted(c) ==
  /\ AtMostOne(c.script_interpreter) /\ AtMostOne(c.job)
  /\ AtMostOne(c.step_plugin) /\ AtMostOne(c.node_step_plugin)
  /\ Each(c.job, LAMBDA j : AtMostOne(j.node_filters))

CommandAccepted(c) ==
  StepAccepted(c) /\ AtMostOne(c.error_handler) /\ Each(c.error_handler, StepAccepted)

NotificationsAccepted(ns) ==
  /\ Len(ns) <= 3
  /\ Each(ns, LAMBDA n : n.type \in Range(NotificationTypes) /\ AtMostOne(n.plugin))
  /\ \A i, j \in DOMAIN ns : ns[i].type = ns[j].type => i = j

JobAccepted(b) ==
  /\ Each(b.commands, CommandAccepted)
  /\ Each(b.options, OptionAccepted)
  /\ ScheduleAccepted(b.schedule)
  /\ NotificationsAccepted(b.notifications)

----------------------------------------------------------------------------
(* From an accepted block to the definition that is imported. *)

(* Without URLs the way to call them is not looked at. *)
Called(n) ==
  IF n.webhook_urls # <<>> THEN n
  ELSE [n EXCEPT !.webhook_format = "", !.webhook_http_method = ""]

(* Of several emails the first is taken. *)
NotificationFrom(n) ==
  [Called(n) EXCEPT !.email = IF AtMostOne(@) THEN @ ELSE <<Head(@)>>]

(* Every filter has a config, if only an empty map. *)
FilterFrom(f) == [type |-> f.type, config |-> <<f.config>>]

ScalarsUntimed(b) ==                \* mutant: timeout is forgotten
  [a \in Scalar \ (Dispatched \cup {"preserve_options_order"}) |->
     IF a = "timeout" THEN "" ELSE b.scalars[a]]

ScalarsFrom(b) ==
  Restrict(b.scalars, Scalar \ (Dispatched \cup {"preserve_options_order"}))

(* Each part of a command goes into a field of its own; only the lengths   *)
(* of its lists, which CommandAccepted bounds, could be lost.              *)
CommandsFrom(b) == b.commands

JobFrom(b) ==
  [scalars      |-> ScalarsFrom(b),
   dispatch     |-> <<Restrict(b.scalars, Dispatched)>>,
   schedule     |-> b.schedule,
   options      |-> IF b.options = <<>> THEN <<>>
                    ELSE <<[preserve |-> b.scalars["preserve_options_order"],
                            list     |-> b.options]>>,
   filters      |-> [i \in DOMAIN b.filters |-> FilterFrom(b.filters[i])],
   commands     |-> CommandsFrom(b),
   notification |-> [t \in {b.notifications[i].type : i \in DOMAIN b.notifications} |->
                       NotificationFrom(b.notifications[CHOOSE i \in DOMAIN b.notifications :
                                          b.notifications[i].type = t])]]

----------------------------------------------------------------------------
(* From a definition to the object; old is what the ResourceData held before. *)

(* ReadJob dereferences the config of every filter. *)
JobReadPanics(answer) == \E i \in DOMAIN answer.filters : answer.filters[i].config = <<>>

Omitted == ""     \* a day field that is not there

DaysAsAnswered(s) == s                  \* mutant: missing days stay missing

(* A day that is left out is the one that says nothing beside the other. *)
scheduleToCronSpec(s) ==
  LET month == IF s[4] # Omitted THEN s[4]
               ELSE IF s[6] \in {"*", Omitted} THEN "*" ELSE "?"
      week  == IF s[6] # Omitted THEN s[6] ELSE IF month = "*" THEN "*" ELSE "?"
  IN [s EXCEPT ![4] = month, ![6] = week]

ScalarRead(a, answer, old) ==
  CASE a \in Unread -> old.scalars[a]
    [] a \in Dispatched \ Unread ->
         IF answer.dispatch = <<>> THEN DispatchDefault[a] ELSE answer.dispatch[1][a]
    [] a = "preserve_options_order" ->
         IF answer.options = <<>> THEN old.scalars[a] ELSE answer.options[1].preserve
    [] a = "project_name" ->
         IF answer.scalars[a] = "" THEN old.scalars[a] ELSE answer.scalars[a]
    [] OTHER -> answer.scalars[a]

(* Whether an option is a date is sent but not read back. *)
OptionsRead(answer) ==
  IF answer.options = <<>> THEN <<>>
  ELSE LET list == answer.options[1].list
       IN [i \in DOMAIN list |-> [list[i] EXCEPT !.is_date = FALSE, !.date_format = ""]]

(* Every field of a command is set, a nil one as a missing block. *)
CommandsRead(answer) == answer.commands

(* In the order of the three types, whatever the order of the blocks was. *)
NotificationsRead(answer) ==
  LET types == SelectSeq(NotificationTypes, LAMBDA t : t \in DOMAIN answer.notification)
  IN [i \in DOMAIN types |-> Called(answer.notification[types[i]])]

(* A definition without a schedule or without filters leaves the old ones. *)
JobRead(answer, old) ==
  [scalars       |-> [a \in Scalar |-> ScalarRead(a, answer, old)],
   schedule      |-> IF answer.schedule = <<>> THEN old.schedule
                     ELSE scheduleToCronSpec(answer.schedule),
   options       |-> OptionsRead(answer),
   filters       |-> IF answer.filters = <<>> THEN old.filters
                     ELSE [i \in DOMAIN answer.filters |->
                             [type   |-> answer.filters[i].type,
                              config |-> answer.filters[i].config[1]]],
   commands      |-> CommandsRead(answer),
   notifications |-> NotificationsRead(answer)]
=============================================================================
