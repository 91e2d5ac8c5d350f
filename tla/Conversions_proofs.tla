-------------------------- MODULE Conversions_proofs --------------------------
(* What holds of the two translations for every block, key and schedule.   *)
EXTENDS ConversionsProperties, XmlMaps_proofs

(* A key of extra_config that is written without dots comes back from the  *)
(* raw configuration as it was: the promise of the attribute's description *)
(* (UpdateProject, ReadProject).                                           *)
THEOREM SlashesReturn ==
  ASSUME NEW k \in Seq(STRING), "." \notin Range(k)
  PROVE  dotReplacer(slashReplacer(k)) = k
<1> DEFINE back == dotReplacer(slashReplacer(k))
<1>1. \A i \in DOMAIN k : k[i] # "."
  BY DEF Range
<1>2. slashReplacer(k) = [i \in DOMAIN k |-> IF k[i] = "/" THEN "." ELSE k[i]]
  BY DEF slashReplacer, Replace
<1>3. back = [i \in DOMAIN k |-> k[i]]
  BY <1>1, <1>2 DEF dotReplacer, Replace
<1>4. k = [i \in DOMAIN k |-> k[i]]
  OBVIOUS
<1> QED
  BY <1>3, <1>4

(* Whichever days that say nothing the service leaves out, an accepted     *)
(* schedule is read back as it was written, unless it pairs "*" with "?"   *)
(* (JobScheduleFromResourceData, scheduleToCronSpec).                      *)
THEOREM ScheduleSurvives ==
  ASSUME NEW s \in Seq(STRING), s # <<>>, ScheduleAccepted(s),
         s[4] # Omitted, s[6] # Omitted, {s[4], s[6]} # {"*", "?"},
         NEW answered \in SchedulesAnswered(s)
  PROVE  scheduleToCronSpec(answered) = s
<1>1. /\ Len(s) = 7 /\ DOMAIN s = 1 .. 7
      /\ IF s[4] = s[6] THEN s[4] = "*" ELSE "?" \in {s[4], s[6]}
  <2>1. /\ Len(s) = 7
        /\ IF s[4] = s[6] THEN s[4] = "*" ELSE "?" \in {s[4], s[6]}
    BY DEF ScheduleAccepted
  <2>2. DOMAIN s = 1 .. Len(s)
    OBVIOUS
  <2> QED
    BY <2>1, <2>2
<1>2. PICK left \in SUBSET Unrestricted(s) :
        answered = [i \in 1 .. 7 |-> IF i \in left THEN Omitted ELSE s[i]]
  BY <1>1 DEF SchedulesAnswered
<1> DEFINE month == IF answered[4] # Omitted THEN answered[4]
                    ELSE IF answered[6] \in {"*", Omitted} THEN "*" ELSE "?"
           week  == IF answered[6] # Omitted THEN answered[6]
                    ELSE IF month = "*" THEN "*" ELSE "?"
<1>3. /\ answered[4] = IF 4 \in left THEN Omitted ELSE s[4]
      /\ answered[6] = IF 6 \in left THEN Omitted ELSE s[6]
  <2>1. 4 \in 1 .. 7 /\ 6 \in 1 .. 7
    OBVIOUS
  <2> QED
    BY <1>2, <2>1, Zenon
<1>4. \A i \in left : s[i] = "?" \/ (s[4] = "*" /\ s[6] = "*")
  BY <1>2 DEF Unrestricted
<1>5. month = s[4] /\ week = s[6]
  <2>1. CASE s[4] = "*" /\ s[6] = "*"
    BY <1>3, <2>1
  <2>2. CASE s[4] = "?" /\ s[6] \notin {"?", "*"}
    BY <1>3, <1>4, <2>2
  <2>3. CASE s[6] = "?" /\ s[4] \notin {"?", "*"}
    BY <1>3, <1>4, <2>3
  <2> QED
    BY <1>1, <2>1, <2>2, <2>3
<1>6. scheduleToCronSpec(answered) = [answered EXCEPT ![4] = month, ![6] = week]
  BY DEF scheduleToCronSpec
<1>7. \A i \in (1 .. 7) \ {4, 6} : answered[i] = s[i]
  BY <1>2 DEF Unrestricted
<1> HIDE DEF month, week
<1>8. scheduleToCronSpec(answered) = [i \in 1 .. 7 |-> s[i]]
  BY <1>2, <1>5, <1>6, <1>7
<1>9. s = [i \in 1 .. 7 |-> s[i]]
  BY <1>1
<1> QED
  BY <1>8, <1>9

----------------------------------------------------------------------------
(* What is written for a block is something.                               *)
LEMMA WrittenIsSomething ==
  ASSUME block \in Blocks, kind \in {"project", "job"}
  PROVE  Nothing \notin Written(block)
BY NothingAssumption DEF Blocks, Written

(* A read that fails changes the history only, and ends the run.           *)
LEMMA ReadEndsType ==
  ASSUME TypeOK, ReadEnds
  PROVE  /\ step' = "idle"
         /\ history' \in [touched : BOOLEAN, refused : BOOLEAN, unread : BOOLEAN]
BY DEF TypeOK, ReadEnds

LEMMA TypeInit == Init => TypeOK
<1> SUFFICES ASSUME Init PROVE TypeOK
  OBVIOUS
<1>1. tainted \in BOOLEAN /\ ~tainted
  BY Zenon DEF Init
<1> QED
  BY <1>1 DEF Init, TypeOK, Clear

LEMMA TypeNext == TypeOK /\ [Next]_vars => TypeOK'
<1> SUFFICES ASSUME TypeOK, [Next]_vars PROVE TypeOK'
  OBVIOUS
<1> USE DEF TypeOK, Blocks
<1>1. CASE Refresh
  <2>1. step = "idle" /\ object # Nothing /\ UNCHANGED <<kind, block, stored, tainted>>
    BY <1>1 DEF Refresh
  <2>2. CASE \E answer \in Answers : ReadObject(answer, object, "planned")
    BY <2>1, <2>2 DEF ReadObject
  <2>3. CASE ReadEnds /\ UNCHANGED object
    BY <2>1, <2>3, ReadEndsType
  <2> QED
    BY <1>1, <2>2, <2>3 DEF Refresh
<1>2. CASE NothingToDo
  BY <1>2 DEF NothingToDo
<1>3. CASE Write
  <2>1. stored' # Nothing
    BY <1>3, WrittenIsSomething DEF Write
  <2> QED
    BY <1>3, <2>1 DEF Write, Clear
<1>4. CASE Refuse
  BY <1>4 DEF Refuse
<1>5. CASE ReadBack
  <2>1. step = "written" /\ stored # Nothing /\ UNCHANGED <<kind, block, stored>>
    BY <1>5 DEF ReadBack
  <2>2. CASE \E answer \in Answers : ReadObject(answer, block, "idle") /\ UNCHANGED tainted
    BY <2>1, <2>2 DEF ReadObject
  <2>3. CASE ReadEnds /\ object' = block /\ tainted' = (object = Nothing)
    BY <2>1, <2>3, ReadEndsType
  <2>4. CASE ReadEnds /\ UNCHANGED <<object, tainted>>
    BY <2>1, <2>4, ReadEndsType
  <2> QED
    BY <1>5, <2>2, <2>3, <2>4 DEF ReadBack
<1>6. CASE EditBlock
  BY <1>6 DEF EditBlock
<1>7. CASE OthersWrite
  <2>1. stored' # Nothing
    BY <1>7, NothingAssumption DEF OthersWrite, Edits
  <2> QED
    BY <1>7, <2>1 DEF OthersWrite
<1>8. CASE UNCHANGED vars
  BY <1>8 DEF vars
<1> QED
  BY <1>1, <1>2, <1>3, <1>4, <1>5, <1>6, <1>7, <1>8 DEF Next

(* An object is recorded, or a run is past its start, only for a thing     *)
(* that is on the server: no failed create leaves an object (CreateJob     *)
(* returns before SetId).                                                  *)
THEOREM ConversionsTypeCorrect == Spec => []TypeOK
BY TypeInit, TypeNext, PTL DEF Spec

----------------------------------------------------------------------------
(* What is read of a job that was written. *)

(* The settings of a plugin are read back if none has an empty key.        *)
LEMMA SettingsReadable ==
  ASSUME NEW p, SettingsOK(p), Empty \notin DOMAIN p.config
  PROVE  LET tokens == marshalMapToXML(p.config, "configuration")
         IN tokens # <<>> => Readable(tokens, "configuration")
<1>1. CASE DOMAIN p.config = {}
  BY <1>1 DEF marshalMapToXML
<1>2. CASE DOMAIN p.config # {}
  <2>1. p.config = [k \in DOMAIN p.config |-> p.config[k]] /\ IsFiniteSet(DOMAIN p.config)
    BY Zenon DEF SettingsOK
  <2>2. "configuration" # "entry"
    OBVIOUS
  <2> QED
    BY <1>2, <2>1, <2>2, MapSurvives, Zenon
<1> QED
  BY <1>1, <1>2

(* The plugins in the definition of a block are those of the block.        *)
LEMMA PluginsFrom ==
  ASSUME NEW b \in JobBlocks, NEW p \in Plugins(JobFrom(b))
  PROVE  SettingsOK(p)
<1> DEFINE ns == JobFrom(b).notification
<1>1. JobFrom(b).commands = b.commands
  BY DEF JobFrom, CommandsFrom
<1>2. \/ \E c \in Range(b.commands) : p \in StepPlugins(c)
      \/ \E c \in Range(b.commands) : \E h \in Range(c.error_handler) : p \in StepPlugins(h)
      \/ \E t \in DOMAIN ns : p \in Range(ns[t].plugin)
  BY <1>1 DEF Plugins
<1>3. ASSUME NEW t \in DOMAIN ns, p \in Range(ns[t].plugin) PROVE SettingsOK(p)
  <2> DEFINE i == CHOOSE i \in DOMAIN b.notifications : b.notifications[i].type = t
  <2>1. /\ i \in DOMAIN b.notifications
        /\ ns[t] = NotificationFrom(b.notifications[i])
    BY <1>3 DEF JobFrom
  <2>2. b.notifications[i] \in Range(b.notifications)
    BY <2>1 DEF Range
  <2> HIDE DEF i
  <2>3. NotificationFrom(b.notifications[i]).plugin = b.notifications[i].plugin
    BY <2>2, JobBlockAssumption DEF NotificationFrom, Called
  <2> QED
    BY <1>3, <2>1, <2>2, <2>3, JobBlockAssumption
<1> QED
  BY <1>2, <1>3, JobBlockAssumption DEF StepOK

LEMMA MarshalledPlugins ==
  ASSUME NEW ps, NEW p \in Range(MarshalPlugins(ps))
  PROVE  \E q \in Range(ps) : p.configuration = marshalMapToXML(q.config, "configuration")
<1>1. PICK i \in DOMAIN ps : p = MarshalPlugins(ps)[i]
  BY DEF Range, MarshalPlugins
<1>2. p.configuration = marshalMapToXML(ps[i].config, "configuration")
  BY <1>1 DEF MarshalPlugins
<1> QED
  BY <1>2 DEF Range

LEMMA MarshalledStep ==
  ASSUME NEW c, StepOK(c), NEW p \in StepPlugins(MarshalStep(c))
  PROVE  \E q \in StepPlugins(c) : p.configuration = marshalMapToXML(q.config, "configuration")
<1>1. /\ MarshalStep(c).step_plugin = MarshalPlugins(c.step_plugin)
      /\ MarshalStep(c).node_step_plugin = MarshalPlugins(c.node_step_plugin)
  BY DEF MarshalStep, StepOK
<1> QED
  BY <1>1, MarshalledPlugins DEF StepPlugins

(* What is written for the plugins of a block.                             *)
LEMMA MarshalledFrom ==
  ASSUME NEW b \in JobBlocks, NEW p \in Plugins(Marshal(JobFrom(b)))
  PROVE  \E q \in Plugins(JobFrom(b)) :
           p.configuration = marshalMapToXML(q.config, "configuration")
<1> DEFINE job == JobFrom(b)
           cs  == b.commands
           ns  == job.notification
           Of(q) == p.configuration = marshalMapToXML(q.config, "configuration")
<1>1. /\ job.commands = cs
      /\ Marshal(job).commands = MarshalCommands(cs)
      /\ Marshal(job).notification = [t \in DOMAIN ns |-> MarshalNotification(ns[t])]
  BY DEF JobFrom, CommandsFrom, Marshal
<1>2. ASSUME NEW i \in DOMAIN cs
      PROVE  /\ cs[i] \in Range(cs) /\ StepOK(cs[i]) /\ "error_handler" \in DOMAIN cs[i]
             /\ \A h \in Range(cs[i].error_handler) : StepOK(h)
  <2>1. cs[i] \in Range(cs)
    BY DEF Range
  <2> QED
    BY <2>1, JobBlockAssumption
<1>3. ASSUME NEW i \in DOMAIN cs
      PROVE  LET c == MarshalCommands(cs)[i]
             IN /\ StepPlugins(c) = StepPlugins(MarshalStep(cs[i]))
                /\ c.error_handler = [j \in DOMAIN cs[i].error_handler |->
                                        MarshalStep(cs[i].error_handler[j])]
  <2>1. MarshalCommands(cs)[i] =
          [MarshalStep(cs[i]) EXCEPT !.error_handler = [j \in DOMAIN @ |-> MarshalStep(@[j])]]
    BY DEF MarshalCommands
  <2>2. /\ DOMAIN MarshalStep(cs[i]) = DOMAIN cs[i]
        /\ MarshalStep(cs[i]).error_handler = cs[i].error_handler
    BY <1>2 DEF MarshalStep, StepOK
  <2> QED
    BY <1>2, <2>1, <2>2 DEF StepPlugins, StepOK
<1>4. \/ \E i \in DOMAIN cs : p \in StepPlugins(MarshalCommands(cs)[i])
      \/ \E i \in DOMAIN cs : \E h \in Range(MarshalCommands(cs)[i].error_handler) :
           p \in StepPlugins(h)
      \/ \E t \in DOMAIN ns : p \in Range(MarshalNotification(ns[t]).plugin)
  <2>1. \/ \E c \in Range(MarshalCommands(cs)) : p \in StepPlugins(c)
        \/ \E c \in Range(MarshalCommands(cs)) : \E h \in Range(c.error_handler) : p \in StepPlugins(h)
        \/ \E t \in DOMAIN ns : p \in Range(MarshalNotification(ns[t]).plugin)
    BY <1>1 DEF Plugins
  <2>2. \A c \in Range(MarshalCommands(cs)) : \E i \in DOMAIN cs : c = MarshalCommands(cs)[i]
    BY DEF Range, MarshalCommands
  <2> QED
    BY <2>1, <2>2
<1>5. ASSUME NEW i \in DOMAIN cs, p \in StepPlugins(MarshalCommands(cs)[i])
      PROVE  \E q \in Plugins(job) : Of(q)
  <2>1. PICK q \in StepPlugins(cs[i]) : Of(q)
    BY <1>2, <1>3, <1>5, MarshalledStep
  <2>2. q \in Plugins(job)
    BY <1>1, <1>2 DEF Plugins
  <2> QED
    BY <2>1, <2>2
<1>6. ASSUME NEW i \in DOMAIN cs, NEW h \in Range(MarshalCommands(cs)[i].error_handler),
             p \in StepPlugins(h)
      PROVE  \E q \in Plugins(job) : Of(q)
  <2>1. PICK j \in DOMAIN cs[i].error_handler : h = MarshalStep(cs[i].error_handler[j])
    BY <1>3 DEF Range
  <2>2. cs[i].error_handler[j] \in Range(cs[i].error_handler)
    BY DEF Range
  <2>3. PICK q \in StepPlugins(cs[i].error_handler[j]) : Of(q)
    BY <1>2, <1>6, <2>1, <2>2, MarshalledStep
  <2>4. q \in Plugins(job)
    BY <1>1, <1>2, <2>2 DEF Plugins
  <2> QED
    BY <2>3, <2>4
<1>7. ASSUME NEW t \in DOMAIN ns, p \in Range(MarshalNotification(ns[t]).plugin)
      PROVE  \E q \in Plugins(job) : Of(q)
  <2> DEFINE i == CHOOSE i \in DOMAIN b.notifications : b.notifications[i].type = t
             n == b.notifications[i]
  <2>1. i \in DOMAIN b.notifications /\ ns[t] = NotificationFrom(n)
    BY DEF JobFrom
  <2>2. n \in Range(b.notifications)
    BY <2>1 DEF Range
  <2> HIDE DEF i
  <2>3. {"email", "webhook_urls", "plugin"} \subseteq DOMAIN NotificationFrom(n)
    BY <2>2, JobBlockAssumption DEF NotificationFrom, Called
  <2>4. MarshalNotification(ns[t]).plugin = MarshalPlugins(ns[t].plugin)
    BY <2>1, <2>3 DEF MarshalNotification
  <2>5. PICK q \in Range(ns[t].plugin) : Of(q)
    BY <1>7, <2>4, MarshalledPlugins
  <2>6. q \in Plugins(job)
    BY DEF Plugins
  <2> QED
    BY <2>5, <2>6
<1> QED
  BY <1>4, <1>5, <1>6, <1>7

LEMMA AnsweredParts ==
  ASSUME NEW doc, NEW answer \in JobsAnswered(doc)
  PROVE  /\ DOMAIN answer = DOMAIN doc
         /\ \A part \in DOMAIN doc \ {"scalars", "dispatch", "schedule"} :
              answer[part] = doc[part]
<1>1. PICK shown, d, s : answer = Answered(doc, shown, d, s)
  BY DEF JobsAnswered
<1> QED
  BY <1>1 DEF Answered

(* The service repeats the plugins and the log filters as they were sent,  *)
(* and they can be decoded.                                                *)
LEMMA WrittenReadable ==
  ASSUME NEW b \in JobBlocks, NEW answer \in JobsAnswered(Marshal(JobFrom(b)))
  PROVE  /\ Keyed(b) => ~UnmarshalFails(answer)
         /\ JobReadPanics(Unmarshal(answer)) =>
              \E i \in DOMAIN b.filters : DOMAIN b.filters[i].config = {}
<1> DEFINE doc == Marshal(JobFrom(b))
<1>1. /\ answer.commands = doc.commands /\ answer.notification = doc.notification
      /\ answer.filters = doc.filters /\ "filters" \in DOMAIN answer
  <2>1. {"commands", "notification", "filters"} \subseteq DOMAIN doc
    BY DEF Marshal, JobFrom
  <2> HIDE DEF doc
  <2> QED
    BY <2>1, AnsweredParts DEF doc
<1>2. ASSUME Keyed(b), UnmarshalFails(answer) PROVE FALSE
  <2>1. PICK p \in Plugins(doc) :
          p.configuration # <<>> /\ ~Readable(p.configuration, "configuration")
    BY <1>1, <1>2 DEF UnmarshalFails, Plugins
  <2>2. PICK q \in Plugins(JobFrom(b)) :
          p.configuration = marshalMapToXML(q.config, "configuration")
    BY MarshalledFrom
  <2>3. SettingsOK(q) /\ Empty \notin DOMAIN q.config
    BY <1>2, PluginsFrom DEF Keyed
  <2> QED
    BY <2>1, <2>2, <2>3, SettingsReadable
<1>3. ASSUME JobReadPanics(Unmarshal(answer))
      PROVE  \E i \in DOMAIN b.filters : DOMAIN b.filters[i].config = {}
  <2>1. /\ Unmarshal(answer).filters = UnmarshalFilters(answer.filters)
        /\ doc.filters = MarshalFilters(JobFrom(b).filters)
        /\ JobFrom(b).filters = [i \in DOMAIN b.filters |-> FilterFrom(b.filters[i])]
    BY <1>1 DEF Unmarshal, Marshal, JobFrom
  <2>a. /\ DOMAIN UnmarshalFilters(doc.filters) = DOMAIN b.filters
        /\ DOMAIN doc.filters = DOMAIN b.filters
    BY <2>1 DEF UnmarshalFilters, MarshalFilters
  <2>2. PICK i \in DOMAIN b.filters : UnmarshalFilters(doc.filters)[i].config = <<>>
    BY <1>1, <1>3, <2>1, <2>a DEF JobReadPanics
  <2>3. /\ i \in DOMAIN doc.filters /\ "config" \in DOMAIN doc.filters[i]
        /\ doc.filters[i].config = IF DOMAIN b.filters[i].config = {} THEN <<>>
                                   ELSE <<Elements(b.filters[i].config)>>
    <3> DEFINE f == FilterFrom(b.filters[i])
    <3>1. /\ "config" \in DOMAIN f /\ f.config[1] = b.filters[i].config
          /\ JobFrom(b).filters[i] = f
      BY <2>1 DEF FilterFrom
    <3> HIDE DEF f
    <3>2. doc.filters[i] =
            [f EXCEPT !.config = IF DOMAIN @[1] = {} THEN <<>> ELSE <<Elements(@[1])>>]
      BY <2>1, <2>a, <3>1 DEF MarshalFilters
    <3> QED
      BY <2>a, <3>1, <3>2
  <2>4. UnmarshalFilters(doc.filters)[i].config =
          [j \in DOMAIN doc.filters[i].config |-> SettingsOf(doc.filters[i].config[j])]
    BY <2>3 DEF UnmarshalFilters
  <2>5. DOMAIN doc.filters[i].config = {}
    BY <2>2, <2>4
  <2> QED
    BY <2>3, <2>5
<1> QED
  BY <1>2, <1>3

(* Until it is read back, a job is on the server as it was written, unless *)
(* someone else has changed it.                                            *)
WrittenOK ==
  step = "written" =>
    /\ ~history.unread
    /\ kind = "job" /\ ~history.touched => stored = Marshal(JobFrom(block))

LEMMA InitWritten == Init => WrittenOK
  BY DEF Init, WrittenOK

LEMMA NextWritten == TypeOK /\ WrittenOK /\ [Next]_vars => WrittenOK'
<1> SUFFICES ASSUME TypeOK, WrittenOK, [Next]_vars,
                    step' = "written"
             PROVE  /\ ~history'.unread
                    /\ kind' = "job" /\ ~history'.touched => stored' = Marshal(JobFrom(block'))
  BY DEF WrittenOK
<1>1. CASE Write
  BY <1>1 DEF Write, Written, Clear
<1>2. CASE OthersWrite
  BY <1>2 DEF OthersWrite, TypeOK, WrittenOK
<1>3. CASE Refresh \/ NothingToDo \/ Refuse \/ ReadBack \/ EditBlock
  <2>1. step' # "written"
    BY <1>3 DEF Refresh, NothingToDo, Refuse, ReadBack, EditBlock, ReadObject, ReadEnds
  <2> QED
    BY <2>1
<1>4. CASE UNCHANGED vars
  BY <1>4 DEF vars, WrittenOK
<1> QED
  BY <1>1, <1>2, <1>3, <1>4 DEF Next

(* A job that nobody else has changed is read back after it was written,   *)
(* whatever plugins, filters and notifications it has and however the      *)
(* service repeats it, but for empty keys; and only a log filter without   *)
(* settings brings the provider down (CreateJob, UpdateJob, ReadJob).      *)
THEOREM OwnJobsAreReadable == Spec => OwnJobsReadable
<1>1. ASSUME TypeOK, WrittenOK, Next,
             kind = "job", step = "written", step' = "idle", ~history.touched, Keyed(block)
      PROVE  /\ ~tainted'
             /\ history'.unread => \E i \in DOMAIN block.filters :
                                     DOMAIN block.filters[i].config = {}
  <2>1. ReadBack /\ block \in JobBlocks /\ ~tainted
    BY <1>1 DEF Next, Refresh, NothingToDo, Write, Refuse, Wanted, EditBlock, OthersWrite,
       TypeOK, Blocks
  <2>2. Answers = JobsAnswered(Marshal(JobFrom(block)))
    BY <1>1 DEF WrittenOK, Answers
  <2>3. PICK answer \in Answers :
          \/ ReadObject(answer, block, "idle") /\ UNCHANGED tainted
          \/ Undecoded(answer)
          \/ Panics(answer) /\ UNCHANGED tainted
    BY <2>1 DEF ReadBack
  <2>4. ~Undecoded(answer)
    BY <1>1, <2>1, <2>2, WrittenReadable DEF Undecoded
  <2>5. CASE ReadObject(answer, block, "idle") /\ UNCHANGED tainted
    BY <1>1, <2>1, <2>5 DEF ReadObject, WrittenOK
  <2>6. CASE Panics(answer) /\ UNCHANGED tainted
    BY <2>1, <2>2, <2>6, WrittenReadable DEF Panics
  <2> QED
    BY <2>3, <2>4, <2>5, <2>6
<1> QED
  BY <1>1, InitWritten, NextWritten, ConversionsTypeCorrect, PTL DEF Spec, OwnJobsReadable, vars
===============================================================================
