---------------------------- MODULE HookPlan_proofs ----------------------------
(***************************************************************************)
(* ServiceLifecycle implements HookPlan: for every igniter, every set of   *)
(* triggers and every outside event but the three that change what a       *)
(* service remembers behind its back.                                      *)
(***************************************************************************)
EXTENDS ServiceLifecycle_proofs

(* svdss is not killed, and neither an editor nor svdpanel changes files.  *)
Peaceful == Disturbances \cap {"kill", "edit", "reset"} = {}

(* What may follow the slots, by where the thread is.                      *)
GoalsOf(l) ==
    CASE l \in {"idle", "resume", "exit", "reload", "reloadSlot"} -> {"none"}
      [] l \in {"startSlot", "launch", "start"} -> {"start", "boot"}
      [] l = "restartSlot" -> {"restart"}
      [] l = "reConfigureSlot" -> {"reConfigure"}
      [] l \in {"stop", "stopSlot", "afterStop", "afterStopSlot"} -> {"none", "exit", "restart"}
      [] l \in {"configure", "configureSlot"} -> {"none", "start", "boot", "reConfigure"}
      [] OTHER -> {"none", "start", "boot"}

ThreadInv ==
    /\ igniter = cfg
    /\ "kill" \notin happened
    /\ ~up => pc = "idle"
    /\ goal \in GoalsOf(pc)

LEMMA InitThread == Init => ThreadInv
  BY DEF Init, ThreadInv, GoalsOf

(* In peace, a load changes nothing but the trigger of a missing igniter.  *)
LEMMA PeacefulLoad ==
    ASSUME TypeOK, ThreadInv, LoadServiceConfig
    PROVE  cfg' = cfg /\ igniter' = igniter /\ triggers' = triggers
  BY ConstantsAssumption DEF TypeOK, ThreadInv, LoadServiceConfig

LEMMA PeacefulEvent ==
    ASSUME Peaceful, NEW kind, Event(kind)
    PROVE  /\ kind \notin {"kill", "edit", "reset"}
           /\ "kill" \notin happened => "kill" \notin happened'
  BY ConstantsAssumption DEF Peaceful, Event, TriggerNames

(* Where a wait leads, and where the returns of a chain do.                *)
LEMMA PeacefulWait ==
    ASSUME Peaceful, NEW h, NEW l, Waited(h, l)
    PROVE  /\ pc = h /\ pc' = l /\ goal' = GoalAt(l)
           /\ "kill" \notin happened => "kill" \notin happened'
  BY PeacefulEvent DEF Waited, events

LEMMA Returns ==
    ASSUME TypeOK
    PROVE  /\ Return = (IF goal = "boot" THEN "resume" ELSE IF goal = "exit" THEN "exit" ELSE "idle")
           /\ AfterConfigure = (IF goal \in {"start", "boot"} THEN "validateSlot"
                                ELSE IF goal = "reConfigure" THEN "restartSlot" ELSE Return)
           /\ AfterValidate = (IF goal \in {"start", "boot"} THEN "launch" ELSE Return)
           /\ AfterStop = (IF goal = "restart" THEN "startSlot" ELSE Return)
           /\ AfterInstall(cfg) = (IF goal \in {"start", "boot"}
                                   THEN IF cfg \in configured THEN "validateSlot" ELSE "configureSlot"
                                   ELSE Return)
  BY DEF Return, AfterConfigure, AfterValidate, AfterStop, AfterInstall, InStart

LEMMA ThreadStep ==
    ASSUME Peaceful, TypeOK, ThreadInv, [Next]_vars
    PROVE  ThreadInv'
  <1>a. igniter = cfg /\ "kill" \notin happened /\ (~up => pc = "idle") /\ goal \in GoalsOf(pc)
    BY DEF ThreadInv
  <1>1. CASE SlotStep
    <2>1. CASE InstallSlot \/ ConfigureSlot \/ ReConfigureSlot \/ ValidateSlot \/ ReloadSlot
               \/ StartSlot \/ AfterStartSlot \/ StopSlot \/ AfterStopSlot
      <3>1. cfg' = cfg /\ igniter' = igniter
        BY <2>1, PeacefulLoad DEF InstallSlot, ConfigureSlot, ReConfigureSlot, ValidateSlot,
           ReloadSlot, StartSlot, AfterStartSlot, StopSlot, AfterStopSlot
      <3>2. happened' = happened /\ up' = up /\ up
        BY <2>1, <1>a DEF InstallSlot, ConfigureSlot, ReConfigureSlot, ValidateSlot,
           ReloadSlot, StartSlot, AfterStartSlot, StopSlot, AfterStopSlot, events, unwatched
      <3>3. goal' \in GoalsOf(pc')
        <4>1. CASE InstallSlot
          BY <4>1, <1>a, <3>1, Returns DEF InstallSlot, GoTo, Spawn, GoalAt, GoalsOf
        <4>2. CASE ConfigureSlot
          BY <4>2, <1>a, Returns DEF ConfigureSlot, GoTo, Spawn, GoalAt, GoalsOf
        <4>3. CASE ReConfigureSlot
          BY <4>3, <1>a DEF ReConfigureSlot, GoTo, GoalAt, GoalsOf
        <4>4. CASE ValidateSlot
          BY <4>4, <1>a, Returns DEF ValidateSlot, GoTo, Spawn, GoalAt, GoalsOf
        <4>5. CASE ReloadSlot
          BY <4>5, <1>a, Returns DEF ReloadSlot, GoTo, Spawn, GoalAt, GoalsOf
        <4>6. CASE StartSlot
          BY <4>6, <1>a, Returns DEF StartSlot, GoTo, GoalAt, GoalsOf
        <4>7. CASE AfterStartSlot
          BY <4>7, <1>a, Returns DEF AfterStartSlot, GoTo, Spawn, GoalAt, GoalsOf
        <4>8. CASE StopSlot
          BY <4>8, <1>a, Returns DEF StopSlot, GoTo, Spawn, GoalAt, GoalsOf
        <4>9. CASE AfterStopSlot
          BY <4>9, <1>a, Returns DEF AfterStopSlot, GoTo, Spawn, GoalAt, GoalsOf
        <4> QED
          BY <2>1, <4>1, <4>2, <4>3, <4>4, <4>5, <4>6, <4>7, <4>8, <4>9
      <3> QED
        BY <1>a, <3>1, <3>2, <3>3 DEF ThreadInv
    <2>2. CASE InstallDone \/ ConfigureDone \/ ValidateDone \/ ReloadDone \/ StartDone
               \/ AfterStartDone \/ StopDone \/ AfterStopDone
      <3>1. cfg' = cfg /\ igniter' = igniter /\ up' = up
        BY <2>2 DEF InstallDone, ConfigureDone, ValidateDone, ReloadDone, StartDone,
           AfterStartDone, StopDone, AfterStopDone, config, unwatched
      <3>2. pc # "idle" /\ "kill" \notin happened'
        BY <2>2, <1>a, PeacefulWait DEF InstallDone, ConfigureDone, ValidateDone, ReloadDone,
           StartDone, AfterStartDone, StopDone, AfterStopDone
      <3>3. goal' \in GoalsOf(pc')
        <4>1. CASE InstallDone
          BY <4>1, <1>a, Returns, PeacefulWait DEF InstallDone, GoalAt, GoalsOf
        <4>2. CASE ConfigureDone
          BY <4>2, <1>a, Returns, PeacefulWait DEF ConfigureDone, GoalAt, GoalsOf
        <4>3. CASE ValidateDone
          BY <4>3, <1>a, Returns, PeacefulWait DEF ValidateDone, GoalAt, GoalsOf
        <4>4. CASE ReloadDone
          BY <4>4, <1>a, Returns, PeacefulWait DEF ReloadDone, GoalAt, GoalsOf
        <4>5. CASE StartDone
          BY <4>5, <1>a, PeacefulWait DEF StartDone, GoalAt, GoalsOf
        <4>6. CASE AfterStartDone
          BY <4>6, <1>a, Returns, PeacefulWait DEF AfterStartDone, GoalAt, GoalsOf
        <4>7. CASE StopDone
          BY <4>7, <1>a, PeacefulWait DEF StopDone, GoalAt, GoalsOf
        <4>8. CASE AfterStopDone
          BY <4>8, <1>a, Returns, PeacefulWait DEF AfterStopDone, GoalAt, GoalsOf
        <4> QED
          BY <2>2, <4>1, <4>2, <4>3, <4>4, <4>5, <4>6, <4>7, <4>8
      <3> QED
        BY <1>a, <3>1, <3>2, <3>3 DEF ThreadInv
    <2>3. CASE Launch \/ RestartSlot \/ Resume
      BY <2>3, <1>a, Returns DEF Launch, RestartSlot, Resume, config, events, unwatched, GoTo, Spawn,
         GoalAt, GoalsOf, ThreadInv
    <2>4. CASE Exit
      BY <2>4, <1>a DEF Exit, Gone, config, events, GoalsOf, ThreadInv
    <2> QED
      BY <1>1, <2>1, <2>2, <2>3, <2>4 DEF SlotStep
  <1>2. CASE LoopStep
    <2>1. CASE DirChangedSlot
      <3>1. cfg' = cfg /\ igniter' = igniter /\ up' = up /\ up /\ happened' = happened
        BY <2>1 DEF DirChangedSlot, AtLoop, unwatched, events
      <3>2. goal' \in GoalsOf(pc')
        <4>1. CASE UNCHANGED <<pc, goal, hook, late>>
          BY <4>1, <1>a
        <4>2. CASE \E t \in triggers : Obey(t)
          <5>1. PICK t \in TriggerNames : Obey(t)
            BY <4>2 DEF TypeOK
          <5> QED
            BY <5>1 DEF Obey, Call, GoalsOf, TriggerNames, StartTriggers, StopTriggers,
               RestartTriggers, ReConfigureTriggers
        <4> QED
          BY <2>1, <4>1, <4>2 DEF DirChangedSlot
      <3> QED
        BY <1>a, <3>1, <3>2 DEF ThreadInv
    <2>2. CASE BabySitterSlot \/ CronSitterSlot
      <3>1. cfg' = cfg /\ igniter' = igniter /\ up' = up /\ up /\ happened' = happened
        BY <2>2, PeacefulLoad DEF BabySitterSlot, CronSitterSlot, AtLoop, events
      <3>2. goal' \in GoalsOf(pc')
        BY <2>2, <1>a DEF BabySitterSlot, CronSitterSlot, Call, GoalsOf
      <3> QED
        BY <1>a, <3>1, <3>2 DEF ThreadInv
    <2>3. CASE FinishedSlot \/ CheckUserControlTriggers
      BY <2>3, <1>a DEF FinishedSlot, CheckUserControlTriggers, AtLoop, Call, Gone, config, events,
         unwatched, GoalsOf, ThreadInv
    <2> QED
      BY <1>2, <2>1, <2>2, <2>3 DEF LoopStep
  <1>3. CASE Outside
    <2>1. CASE HookEnds \/ \E h \in Hooks : LateHookEnds(h)
      BY <2>1, <1>a DEF HookEnds, LateHookEnds, config, events, ThreadInv
    <2>2. ASSUME NEW t \in TriggerNames, Touch(t) PROVE ThreadInv'
      BY <2>2, <1>a, PeacefulEvent DEF Touch, memory, ThreadInv
    <2>3. ASSUME NEW f, TouchControl(f) PROVE ThreadInv'
      BY <2>3, <1>a, PeacefulEvent DEF TouchControl, memory, config, ThreadInv
    <2>4. ASSUME NEW p, ProcessDies(p) PROVE ThreadInv'
      BY <2>4, <1>a, PeacefulEvent DEF ProcessDies, memory, config, ThreadInv
    <2>5. ASSUME NEW r, DamagePidFile(r) PROVE ThreadInv'
      BY <2>5, <1>a, PeacefulEvent DEF DamagePidFile, memory, config, ThreadInv
    <2>6. CASE DiskChanges
      BY <2>6, <1>a, PeacefulEvent DEF DiskChanges, memory, config, ThreadInv
    <2>7. CASE Deploying
      BY <2>7, <1>a, PeacefulEvent DEF Deploying, memory, config, ThreadInv
    <2>8. CASE PanelReset \/ Killed \/ \E contents \in Igniters : EditIgniter(contents)
      BY <2>8, PeacefulEvent DEF PanelReset, Killed, EditIgniter
    <2>9. CASE Boot
      BY <2>9, <1>a DEF Boot, GoalsOf, events, ThreadInv
    <2> QED
      BY <1>3, <2>1, <2>2, <2>3, <2>4, <2>5, <2>6, <2>7, <2>8, <2>9 DEF Outside
  <1>4. CASE UNCHANGED vars
    BY <1>4, <1>a DEF vars, memory, config, events, ThreadInv
  <1> QED
    BY <1>1, <1>2, <1>3, <1>4 DEF Next

-----------------------------------------------------------------------------
(* The thread and the facts as HookPlan sees them.                         *)
Op == OperationOf(pc, goal)
Stage == StageOf(pc)
Runs == pc \in Hooks

(* The thread goes to another place of the plan, or stays at its place.    *)
Leads(o, s, r) == Op' = o /\ Stage' = s /\ Runs' = r
StaysPut == Op' = Op /\ Stage' = Stage /\ Runs' = Runs

(* Nothing that the service remembers changes. *)
Remembers ==
    /\ cfg' = cfg /\ installed' = installed
    /\ (cfg \in configured)' = (cfg \in configured)
    /\ ("validationFailure" \in files)' = ("validationFailure" \in files)
    /\ ("running" \in files)' = ("running" \in files)

LEMMA StageTable ==
    /\ \A l \in {"idle", "resume", "exit"} : StageOf(l) = "none"
    /\ \A l \in {"startSlot", "restartSlot", "reConfigureSlot"} : StageOf(l) = "enter"
    /\ \A l \in {"install", "installSlot"} : StageOf(l) = "install"
    /\ \A l \in {"configure", "configureSlot"} : StageOf(l) = "configure"
    /\ \A l \in {"validate", "validateSlot"} : StageOf(l) = "validate"
    /\ \A l \in {"launch", "start"} : StageOf(l) = "start"
    /\ \A l \in {"afterStart", "afterStartSlot"} : StageOf(l) = "afterStart"
    /\ \A l \in {"stop", "stopSlot"} : StageOf(l) = "stop"
    /\ \A l \in {"afterStop", "afterStopSlot"} : StageOf(l) = "afterStop"
    /\ \A l \in {"reload", "reloadSlot"} : StageOf(l) = "reload"
  BY DEF StageOf, Hooks

LEMMA OperationTable ==
    ASSUME NEW l, NEW g
    PROVE  /\ StageOf(l) = "none" => OperationOf(l, g) = "none"
           /\ StageOf(l) # "none" =>
                /\ g \in {"start", "boot"} => OperationOf(l, g) = "start"
                /\ g = "restart" => OperationOf(l, g) = "restart"
                /\ g = "reConfigure" => OperationOf(l, g) = "reConfigure"
                /\ g \in {"none", "exit"} /\ StageOf(l) \in {"stop", "afterStop"}
                      => OperationOf(l, g) = "stop"
                /\ g \in {"none", "exit"} /\ StageOf(l) \notin {"stop", "afterStop"}
                      => OperationOf(l, g) = "single"
  BY DEF OperationOf

(* How the plan's actions read in terms of the service. *)
LEMMA PlanStutter ==
    ASSUME StaysPut, Remembers
    PROVE  UNCHANGED Plan!vars
  BY DEF StaysPut, Remembers, Op, Stage, Runs, Plan!vars, Plan!control, Plan!facts

LEMMA PlanAsk ==
    ASSUME Op = "none", Remembers, Runs' = FALSE,
           \/ Op' \in {"start", "restart", "reConfigure"} /\ Stage' = "enter"
           \/ Op' = "stop" /\ Stage' \in {"stop", "afterStop"}
           \/ Op' = "single" /\ Stage' \in Hooks
    PROVE  Plan!Next
  BY DEF Remembers, Op, Stage, Runs, Hooks, Plan!Ask, Plan!Next, Plan!At, Plan!Chained,
         Plan!Hooks, Plan!facts

LEMMA PlanRun ==
    ASSUME Runs = FALSE, Stage \in Hooks, Runs' = TRUE, Op' = Op, Stage' = Stage,
           Stage = "install" => ~installed,
           Stage = "configure" => cfg \notin configured,
           Stage = "validate" => cfg \in Validated,
           Stage = "start" => "validationFailure" \notin files,
           Stage = "stop" => "running" \in files,
           cfg' = cfg, installed' = installed, configured' = configured,
           ("running" \in files)' = ("running" \in files),
           ("validationFailure" \in files)' = (Stage # "validate" /\ "validationFailure" \in files)
    PROVE  Plan!Next
  <1>1. Plan!Run
    BY DEF Op, Stage, Runs, Hooks, Plan!Run, Plan!Hooks, Plan!Needless
  <1> QED
    BY <1>1 DEF Plan!Next

LEMMA PlanSkip ==
    ASSUME Runs = FALSE, Stage \in Hooks, Remembers, Plan!FollowUp(Stage),
           \/ Stage = "install" /\ installed
           \/ Stage = "configure" /\ cfg \in configured
           \/ Stage = "validate" /\ cfg \notin Validated
    PROVE  Plan!Next
  <1>1. Plan!Skip
    BY DEF Op, Stage, Runs, Hooks, Remembers, Plan!Skip, Plan!Hooks, Plan!Needless, Plan!facts
  <1> QED
    BY <1>1 DEF Plan!Next

LEMMA PlanEnd ==
    ASSUME Runs = TRUE, Plan!FollowUp(Stage), cfg' = cfg, installed' = installed,
           \/ (cfg \in configured)' = (cfg \in configured)
           \/ (cfg \in configured)' = (cfg \in configured \/ Stage = "configure"),
           ("validationFailure" \in files)' = (Stage # "stop" /\ "validationFailure" \in files),
           Stage \in {"start", "afterStart"} => ("running" \in files)' = TRUE,
           Stage = "stop" => ("running" \in files)' \in {"running" \in files, FALSE},
           Stage = "afterStop" => ("running" \in files)' = FALSE,
           Stage \notin {"start", "afterStart", "stop", "afterStop"} =>
                ("running" \in files)' = ("running" \in files)
    PROVE  Plan!Next
  <1> DEFINE Outcomes == CASE Stage \in {"start", "afterStart"} -> {TRUE}
                           [] Stage = "stop" -> {"running" \in files, FALSE}
                           [] Stage = "afterStop" -> {FALSE}
                           [] OTHER -> {"running" \in files}
  <1>1. ("running" \in files)' \in Outcomes
    <2>1. CASE Stage \in {"start", "afterStart"}
      <3>1. Outcomes = {TRUE}
        BY <2>1
      <3> QED
        BY <2>1, <3>1, Zenon
    <2>2. CASE Stage = "stop"
      <3>1. Outcomes = {"running" \in files, FALSE}
        BY <2>2
      <3> QED
        BY <2>2, <3>1, Zenon
    <2>3. CASE Stage = "afterStop"
      <3>1. Outcomes = {FALSE}
        BY <2>3
      <3> QED
        BY <2>3, <3>1, Zenon
    <2>4. CASE Stage \notin {"start", "afterStart", "stop", "afterStop"}
      <3>1. Outcomes = {"running" \in files}
        BY <2>4
      <3> QED
        BY <2>4, <3>1, Zenon
    <2> QED
      BY <2>1, <2>2, <2>3, <2>4
  <1>2. Plan!End
    BY <1>1 DEF Op, Stage, Runs, Plan!End
  <1> QED
    BY <1>2 DEF Plan!Next

(* The follow-ups of a chain, by where the thread goes. *)
Chains == {<<"start", "install">>, <<"start", "configure">>, <<"start", "validate">>,
           <<"start", "start">>, <<"reConfigure", "configure">>, <<"stop", "stop">>,
           <<"restart", "stop">>, <<"restart", "afterStop">>}

LEMMA PlanFollows ==
    ASSUME NEW h, NEW o, NEW s, Leads(o, s, FALSE),
           \/ Op = "start" /\ h = "install" /\ cfg \notin configured /\ o = "start" /\ s = "configure"
           \/ Op = "start" /\ h = "install" /\ cfg \in configured /\ o = "start" /\ s = "validate"
           \/ Op = "start" /\ h = "configure" /\ o = "start" /\ s = "validate"
           \/ Op = "start" /\ h = "validate" /\ o = "start" /\ s = "start"
           \/ Op = "start" /\ h = "start" /\ o = "start" /\ s = "afterStart"
           \/ Op = "reConfigure" /\ h = "configure" /\ o = "restart" /\ s = "enter"
           \/ Op = "stop" /\ h = "stop" /\ o = "stop" /\ s = "afterStop"
           \/ Op = "restart" /\ h = "stop" /\ o = "restart" /\ s = "afterStop"
           \/ Op = "restart" /\ h = "afterStop" /\ o = "start" /\ s = "enter"
           \/ <<Op, h>> \notin Chains /\ o = "none" /\ s = "none"
    PROVE  Plan!FollowUp(h)
  <1>1. CASE <<Op, h>> \in Chains
    BY <1>1 DEF Leads, Op, Stage, Runs, Chains, Plan!FollowUp, Plan!At
  <1>2. CASE <<Op, h>> \notin Chains
    BY <1>2 DEF Leads, Op, Stage, Runs, Chains, Plan!FollowUp, Plan!At, Plan!Over
  <1> QED
    BY <1>1, <1>2

(* Arriving somewhere, after a wait or without one. *)
Arrives(l) == pc' = l /\ goal' = GoalAt(l)

LEMMA ArriveSomewhere ==
    /\ \A l : GoTo(l) => Arrives(l)
    /\ \A h, l : Waited(h, l) => Arrives(l)
  BY DEF Arrives, GoTo, Waited

LEMMA ArriveReturn ==
    ASSUME TypeOK, Arrives(Return) PROVE Leads("none", "none", FALSE)
  <1>1. Return \in {"idle", "resume", "exit"}
    BY Returns
  <1>2. StageOf(pc') = "none" /\ pc' \notin Hooks
    BY <1>1, StageTable DEF Arrives, Hooks
  <1> QED
    BY <1>2, OperationTable DEF Leads, Op, Stage, Runs

LEMMA ArriveAt ==
    ASSUME NEW l, Arrives(l), l \notin Hooks, StageOf(l) # "none"
    PROVE  Leads(OperationOf(l, GoalAt(l)), StageOf(l), FALSE)
  BY DEF Arrives, Op, Stage, Runs, Leads

LEMMA ArriveOn ==
    ASSUME NEW l, NEW s, NEW o, Arrives(l), l \notin Hooks, StageOf(l) = s, s # "none",
           \/ GoalAt(l) \in {"start", "boot"} /\ o = "start"
           \/ GoalAt(l) = "restart" /\ o = "restart"
    PROVE  Leads(o, s, FALSE)
  <1>1. OperationOf(l, GoalAt(l)) = o
    BY OperationTable
  <1> QED
    BY <1>1, ArriveAt

(* The operation under way in terms of the goal. *)
LEMMA Operating ==
    ASSUME Stage # "none"
    PROVE  /\ goal \in {"start", "boot"} => Op = "start"
           /\ goal = "restart" => Op = "restart"
           /\ goal = "reConfigure" => Op = "reConfigure"
           /\ goal \in {"none", "exit"} /\ Stage \in {"stop", "afterStop"} => Op = "stop"
           /\ goal \in {"none", "exit"} /\ Stage \notin {"stop", "afterStop"} => Op = "single"
  BY OperationTable DEF Op, Stage

LEMMA FollowInstall ==
    ASSUME TypeOK, Stage = "install", goal \in {"none", "start", "boot"},
           Arrives(AfterInstall(cfg))
    PROVE  Plan!FollowUp("install")
  <1>1. CASE goal = "none"
    BY <1>1, Operating, Returns, ArriveReturn, PlanFollows DEF Chains
  <1>2. CASE goal \in {"start", "boot"}
    <2>1. Op = "start"
      BY <1>2, Operating
    <2>2. CASE cfg \in configured
      <3>1. Arrives("validateSlot") /\ GoalAt("validateSlot") = goal
        BY <1>2, <2>2, Returns DEF GoalAt
      <3>2. Leads("start", "validate", FALSE)
        BY <1>2, <3>1, ArriveOn, StageTable DEF Hooks
      <3> QED
        BY <2>1, <2>2, <3>2, PlanFollows
    <2>3. CASE cfg \notin configured
      <3>1. Arrives("configureSlot") /\ GoalAt("configureSlot") = goal
        BY <1>2, <2>3, Returns DEF GoalAt
      <3>2. Leads("start", "configure", FALSE)
        BY <1>2, <3>1, ArriveOn, StageTable DEF Hooks
      <3> QED
        BY <2>1, <2>3, <3>2, PlanFollows
    <2> QED
      BY <2>2, <2>3
  <1> QED
    BY <1>1, <1>2

LEMMA FollowConfigure ==
    ASSUME TypeOK, Stage = "configure", goal \in {"none", "start", "boot", "reConfigure"},
           Arrives(AfterConfigure)
    PROVE  Plan!FollowUp("configure")
  <1>1. CASE goal = "none"
    BY <1>1, Operating, Returns, ArriveReturn, PlanFollows DEF Chains
  <1>2. CASE goal \in {"start", "boot"}
    <2>1. Op = "start"
      BY <1>2, Operating
    <2>2. Arrives("validateSlot") /\ GoalAt("validateSlot") = goal
      BY <1>2, Returns DEF GoalAt
    <2>3. Leads("start", "validate", FALSE)
      BY <1>2, <2>2, ArriveOn, StageTable DEF Hooks
    <2> QED
      BY <2>1, <2>3, PlanFollows
  <1>3. CASE goal = "reConfigure"
    <2>1. Op = "reConfigure"
      BY <1>3, Operating
    <2>2. Arrives("restartSlot") /\ GoalAt("restartSlot") = "restart"
      BY <1>3, Returns DEF GoalAt
    <2>3. Leads("restart", "enter", FALSE)
      BY <2>2, ArriveOn, StageTable DEF Hooks
    <2> QED
      BY <2>1, <2>3, PlanFollows
  <1> QED
    BY <1>1, <1>2, <1>3

LEMMA FollowValidate ==
    ASSUME TypeOK, Stage = "validate", goal \in {"none", "start", "boot"},
           Arrives(AfterValidate)
    PROVE  Plan!FollowUp("validate")
  <1>1. CASE goal = "none"
    BY <1>1, Operating, Returns, ArriveReturn, PlanFollows DEF Chains
  <1>2. CASE goal \in {"start", "boot"}
    <2>1. Op = "start"
      BY <1>2, Operating
    <2>2. Arrives("launch") /\ GoalAt("launch") = goal
      BY <1>2, Returns DEF GoalAt
    <2>3. Leads("start", "start", FALSE)
      BY <1>2, <2>2, ArriveOn, StageTable DEF Hooks
    <2> QED
      BY <2>1, <2>3, PlanFollows
  <1> QED
    BY <1>1, <1>2

LEMMA FollowStart ==
    ASSUME Stage = "start", goal \in {"start", "boot"}, Arrives("afterStartSlot")
    PROVE  Plan!FollowUp("start")
  <1>1. Op = "start"
    BY Operating
  <1>2. GoalAt("afterStartSlot") = goal
    BY DEF GoalAt
  <1>3. Leads("start", "afterStart", FALSE)
    BY <1>2, ArriveOn, StageTable DEF Hooks
  <1> QED
    BY <1>1, <1>3, PlanFollows

LEMMA FollowStop ==
    ASSUME Stage = "stop", goal \in {"none", "exit", "restart"}, Arrives("afterStopSlot")
    PROVE  Plan!FollowUp("stop")
  <1>1. GoalAt("afterStopSlot") = goal
    BY DEF GoalAt
  <1>2. Leads(OperationOf("afterStopSlot", goal), "afterStop", FALSE)
    BY <1>1, ArriveAt, StageTable DEF Hooks, Leads
  <1>3. CASE goal = "restart"
    <2>1. Op = "restart" /\ OperationOf("afterStopSlot", goal) = "restart"
      BY <1>3, Operating, StageTable, OperationTable
    <2> QED
      BY <1>2, <2>1, PlanFollows
  <1>4. CASE goal \in {"none", "exit"}
    <2>1. Op = "stop" /\ OperationOf("afterStopSlot", goal) = "stop"
      BY <1>4, Operating, StageTable, OperationTable
    <2> QED
      BY <1>2, <2>1, PlanFollows
  <1> QED
    BY <1>3, <1>4

LEMMA FollowAfterStop ==
    ASSUME TypeOK, Stage = "afterStop", goal \in {"none", "exit", "restart"},
           Arrives(AfterStop)
    PROVE  Plan!FollowUp("afterStop")
  <1>1. CASE goal = "restart"
    <2>1. Op = "restart"
      BY <1>1, Operating
    <2>2. Arrives("startSlot") /\ GoalAt("startSlot") = "start"
      BY <1>1, Returns DEF GoalAt
    <2>3. Leads("start", "enter", FALSE)
      BY <2>2, ArriveOn, StageTable DEF Hooks
    <2> QED
      BY <2>1, <2>3, PlanFollows
  <1>2. CASE goal \in {"none", "exit"}
    BY <1>2, Operating, Returns, ArriveReturn, PlanFollows DEF Chains
  <1> QED
    BY <1>1, <1>2

(* After the last hook of its chain an operation is over. *)
LEMMA FollowLast ==
    ASSUME TypeOK, NEW h \in {"afterStart", "reload"}, Arrives(Return)
    PROVE  Plan!FollowUp(h)
  BY ArriveReturn, PlanFollows DEF Chains

(* A hook spawned at its place of the plan, and a place in each slot. *)
LEMMA SpawnStays ==
    ASSUME NEW h \in Hooks, Stage = h, Spawn(h)
    PROVE  Op' = Op /\ Stage' = Stage /\ Runs' = TRUE
  <1>1. pc' = h /\ goal' = goal /\ StageOf(h) = h
    BY StageTable DEF Spawn, Hooks
  <1>2. OperationOf(h, goal) = OperationOf(pc, goal)
    BY <1>1 DEF OperationOf, Stage
  <1> QED
    BY <1>1, <1>2 DEF Op, Stage, Runs

LEMMA AtSlot ==
    /\ \A l \in Slots : pc = l => Runs = FALSE
    /\ pc = "installSlot" => Stage = "install"
    /\ pc = "configureSlot" => Stage = "configure"
    /\ pc = "validateSlot" => Stage = "validate"
    /\ pc = "launch" => Stage = "start"
    /\ pc = "afterStartSlot" => Stage = "afterStart"
    /\ pc = "stopSlot" => Stage = "stop"
    /\ pc = "afterStopSlot" => Stage = "afterStop"
    /\ pc = "reloadSlot" => Stage = "reload"
    /\ pc \in {"startSlot", "restartSlot", "reConfigureSlot"} => Stage = "enter"
  BY StageTable DEF Stage, Runs, Slots, Hooks

LEMMA AtHook ==
    ASSUME pc \in Hooks PROVE Runs = TRUE /\ Stage = pc
  BY StageTable DEF Stage, Runs, Hooks

(* No slot finds the indicator of its own hook: it is not waiting for it. *)
LEMMA NotBusy ==
    ASSUME IndicatorsHonest, ThreadInv, NEW h \in IndicatorHooks, pc # h
    PROVE  Indicator(h) \notin files
  BY DEF IndicatorsHonest, Never, ThreadInv

LEMMA PlanInstall == ASSUME TypeOK, ThreadInv, InstallSlot PROVE Plan!Next
  <1>1. /\ pc = "installSlot" /\ Stage = "install" /\ Runs = FALSE
        /\ goal \in {"none", "start", "boot"}
        /\ cfg' = cfg /\ configured' = configured /\ installed' = installed
    BY PeacefulLoad, AtSlot DEF InstallSlot, ThreadInv, GoalsOf, Slots, outside
  <1>2. CASE installed /\ files' = files /\ GoTo(AfterInstall(cfg'))
    <2>1. Plan!FollowUp(Stage) /\ Remembers
      BY <1>1, <1>2, ArriveSomewhere, FollowInstall DEF Remembers
    <2> QED
      BY <1>1, <1>2, <2>1, PlanSkip DEF Hooks
  <1>3. CASE ~installed /\ files' = files \cup {"installing"} /\ Spawn("install")
    <2>1. Op' = Op /\ Stage' = Stage /\ Runs' = TRUE
      BY <1>1, <1>3, SpawnStays DEF Hooks
    <2>2. /\ ("running" \in files)' = ("running" \in files)
          /\ ("validationFailure" \in files)' = (Stage # "validate" /\ "validationFailure" \in files)
      BY <1>1, <1>3
    <2> QED
      BY <1>1, <1>3, <2>1, <2>2, PlanRun DEF Hooks
  <1> QED
    BY <1>2, <1>3 DEF InstallSlot

LEMMA PlanConfigure ==
    ASSUME TypeOK, ThreadInv, IndicatorsHonest, ConfigureSlot PROVE Plan!Next
  <1>1. /\ pc = "configureSlot" /\ Stage = "configure" /\ Runs = FALSE
        /\ goal \in {"none", "start", "boot", "reConfigure"}
        /\ cfg' = cfg /\ configured' = configured /\ installed' = installed
    BY PeacefulLoad, AtSlot DEF ConfigureSlot, ThreadInv, GoalsOf, Slots, outside
  <1>0. "configuring" \notin files
    BY <1>1, NotBusy DEF Indicator, IndicatorHooks, Hooks
  <1>2. CASE cfg \in configured /\ files' = files /\ GoTo(AfterConfigure)
    <2>1. Plan!FollowUp(Stage) /\ Remembers
      BY <1>1, <1>2, ArriveSomewhere, FollowConfigure DEF Remembers
    <2> QED
      BY <1>1, <1>2, <2>1, PlanSkip DEF Hooks
  <1>3. CASE cfg \notin configured /\ files' = files \cup {"configuring"} /\ Spawn("configure")
    <2>1. Op' = Op /\ Stage' = Stage /\ Runs' = TRUE
      BY <1>1, <1>3, SpawnStays DEF Hooks
    <2>2. /\ ("running" \in files)' = ("running" \in files)
          /\ ("validationFailure" \in files)' = (Stage # "validate" /\ "validationFailure" \in files)
      BY <1>1, <1>3
    <2> QED
      BY <1>1, <1>3, <2>1, <2>2, PlanRun DEF Hooks
  <1> QED
    BY <1>0, <1>1, <1>2, <1>3 DEF ConfigureSlot

LEMMA PlanValidate ==
    ASSUME TypeOK, ThreadInv, IndicatorsHonest, ValidateSlot PROVE Plan!Next
  <1>1. /\ pc = "validateSlot" /\ Stage = "validate" /\ Runs = FALSE
        /\ goal \in {"none", "start", "boot"}
        /\ cfg' = cfg /\ configured' = configured /\ installed' = installed
    BY PeacefulLoad, AtSlot DEF ValidateSlot, ThreadInv, GoalsOf, Slots, outside
  <1>0. "validating" \notin files
    BY <1>1, NotBusy DEF Indicator, IndicatorHooks, Hooks
  <1>2. CASE cfg \notin Validated /\ files' = files /\ GoTo(AfterValidate)
    <2>1. Plan!FollowUp(Stage) /\ Remembers
      BY <1>1, <1>2, ArriveSomewhere, FollowValidate DEF Remembers
    <2> QED
      BY <1>1, <1>2, <2>1, PlanSkip DEF Hooks
  <1>3. CASE /\ cfg \in Validated /\ Spawn("validate")
             /\ files' = (files \ {"validationFailure"}) \cup {"validating"}
    <2>1. Op' = Op /\ Stage' = Stage /\ Runs' = TRUE
      BY <1>1, <1>3, SpawnStays DEF Hooks
    <2>2. /\ ("running" \in files)' = ("running" \in files)
          /\ ("validationFailure" \in files)' = (Stage # "validate" /\ "validationFailure" \in files)
      BY <1>1, <1>3
    <2> QED
      BY <1>1, <1>3, <2>1, <2>2, PlanRun DEF Hooks
  <1> QED
    BY <1>0, <1>1, <1>2, <1>3 DEF ValidateSlot

(* The slots that run their hook whenever they are not at it already. *)
LEMMA PlanUnconditional ==
    ASSUME TypeOK, ThreadInv, IndicatorsHonest,
           ReloadSlot \/ AfterStartSlot \/ AfterStopSlot
    PROVE  Plan!Next
  <1> DEFINE h == CASE pc = "reloadSlot" -> "reload"
                    [] pc = "afterStartSlot" -> "afterStart"
                    [] pc = "afterStopSlot" -> "afterStop"
  <1>1. /\ cfg' = cfg /\ configured' = configured /\ installed' = installed
        /\ pc \in {"reloadSlot", "afterStartSlot", "afterStopSlot"}
    BY PeacefulLoad DEF ReloadSlot, AfterStartSlot, AfterStopSlot, outside
  <1>2. Runs = FALSE /\ Stage = h /\ h \in {"reload", "afterStart", "afterStop"}
    BY <1>1, AtSlot DEF Slots
  <1>3. /\ "reloading" \notin files /\ "afterStarting" \notin files
        /\ "afterStopping" \notin files
    BY <1>1, NotBusy DEF Indicator, IndicatorHooks, Hooks
  <1>4. /\ Spawn(h)
        /\ \E f \in {"reloading", "afterStarting", "afterStopping"} : files' = files \cup {f}
    <2>1. CASE ReloadSlot
      <3>1. pc = "reloadSlot" /\ Spawn("reload") /\ files' = files \cup {"reloading"}
        BY <2>1, <1>3 DEF ReloadSlot
      <3> QED
        BY <3>1
    <2>2. CASE AfterStartSlot
      <3>1. /\ pc = "afterStartSlot" /\ Spawn("afterStart")
            /\ files' = files \cup {"afterStarting"}
        BY <2>2, <1>3 DEF AfterStartSlot
      <3> QED
        BY <3>1
    <2>3. CASE AfterStopSlot
      <3>1. /\ pc = "afterStopSlot" /\ Spawn("afterStop")
            /\ files' = files \cup {"afterStopping"}
        BY <2>3, <1>3 DEF AfterStopSlot
      <3> QED
        BY <3>1
    <2> QED
      BY <2>1, <2>2, <2>3
  <1>5. /\ ("running" \in files)' = ("running" \in files)
        /\ ("validationFailure" \in files)' = (Stage # "validate" /\ "validationFailure" \in files)
    <2>1. PICK f \in {"reloading", "afterStarting", "afterStopping"} : files' = files \cup {f}
      BY <1>4
    <2>2. Stage # "validate"
      BY <1>2
    <2> QED
      BY <2>1, <2>2
  <1>6. Op' = Op /\ Stage' = Stage /\ Runs' = TRUE
    BY <1>2, <1>4, SpawnStays DEF Hooks
  <1> HIDE DEF h
  <1> QED
    BY <1>1, <1>2, <1>5, <1>6, PlanRun DEF Hooks

LEMMA PlanLaunch == ASSUME TypeOK, ThreadInv, Launch PROVE Plan!Next
  <1>1. /\ pc = "launch" /\ Stage = "start" /\ Runs = FALSE
        /\ cfg' = cfg /\ configured' = configured /\ installed' = installed
        /\ files' = files
    BY AtSlot DEF Launch, Slots, outside, config
  <1>2. CASE "validationFailure" \in files /\ GoTo(Return)
    <2>1. Leads("none", "none", FALSE) /\ Remembers
      BY <1>1, <1>2, ArriveSomewhere, ArriveReturn DEF Remembers
    <2>2. Plan!Refuse
      BY <1>1, <1>2, <2>1 DEF Remembers, Leads, Op, Stage, Runs, Plan!Refuse, Plan!Over,
         Plan!At, Plan!facts
    <2> QED
      BY <2>2 DEF Plan!Next
  <1>3. CASE "validationFailure" \notin files /\ Spawn("start")
    <2>1. Op' = Op /\ Stage' = Stage /\ Runs' = TRUE
      BY <1>1, <1>3, SpawnStays DEF Hooks
    <2>2. ("validationFailure" \in files)' = (Stage # "validate" /\ "validationFailure" \in files)
      BY <1>1
    <2> QED
      BY <1>1, <1>3, <2>1, <2>2, PlanRun DEF Hooks
  <1> QED
    BY <1>2, <1>3 DEF Launch

LEMMA PlanStop == ASSUME TypeOK, ThreadInv, StopSlot PROVE Plan!Next
  <1>1. /\ pc = "stopSlot" /\ Stage = "stop" /\ Runs = FALSE
        /\ goal \in {"none", "exit", "restart"}
        /\ cfg' = cfg /\ configured' = configured /\ installed' = installed
        /\ files' = files
    BY PeacefulLoad, AtSlot DEF StopSlot, ThreadInv, GoalsOf, Slots, outside
  <1>2. CASE "running" \notin files /\ GoTo(AfterStop)
    <2>1. Remembers
      BY <1>1 DEF Remembers
    <2>2. CASE goal = "restart"
      <3>1. Op = "restart"
        BY <1>1, <2>2, Operating
      <3>2. Arrives("startSlot") /\ GoalAt("startSlot") = "start"
        BY <1>2, <2>2, Returns, ArriveSomewhere DEF GoalAt
      <3>3. Leads("start", "enter", FALSE)
        BY <3>2, ArriveOn, StageTable DEF Hooks
      <3> QED
        BY <1>1, <1>2, <2>1, <3>1, <3>3 DEF Remembers, Leads, Op, Stage, Runs, Plan!Next,
           Plan!SkipStop, Plan!At, Plan!facts
    <2>3. CASE goal \in {"none", "exit"}
      <3>1. Op = "stop"
        BY <1>1, <2>3, Operating
      <3>2. Leads("none", "none", FALSE)
        BY <1>2, <2>3, Returns, ArriveSomewhere, ArriveReturn
      <3> QED
        BY <1>1, <1>2, <2>1, <3>1, <3>2 DEF Remembers, Leads, Op, Stage, Runs, Plan!Next,
           Plan!SkipStop, Plan!At, Plan!Over, Plan!facts
    <2> QED
      BY <1>1, <2>2, <2>3
  <1>3. CASE "running" \in files /\ Spawn("stop")
    <2>1. Op' = Op /\ Stage' = Stage /\ Runs' = TRUE
      BY <1>1, <1>3, SpawnStays DEF Hooks
    <2>2. ("validationFailure" \in files)' = (Stage # "validate" /\ "validationFailure" \in files)
      BY <1>1
    <2> QED
      BY <1>1, <1>3, <2>1, <2>2, PlanRun DEF Hooks
  <1> QED
    BY <1>2, <1>3 DEF StopSlot

LEMMA PlanEnter ==
    ASSUME TypeOK, ThreadInv, StartSlot \/ RestartSlot \/ ReConfigureSlot PROVE Plan!Next
  <1>1. CASE StartSlot
    <2>1. /\ pc = "startSlot" /\ Stage = "enter" /\ Op = "start"
          /\ goal \in {"start", "boot"}
          /\ cfg' = cfg /\ configured' = configured /\ installed' = installed
          /\ files' = files
      BY <1>1, PeacefulLoad, AtSlot, Operating DEF StartSlot, ThreadInv, GoalsOf, outside
    <2>2. \/ Leads("none", "none", FALSE)
          \/ "running" \notin files /\ Leads("start", "install", FALSE)
      <3>1. CASE GoTo(Return)
        BY <3>1, ArriveSomewhere, ArriveReturn
      <3>2. CASE "running" \notin files /\ pc' = "installSlot" /\ goal' = goal
        <4>1. Arrives("installSlot") /\ GoalAt("installSlot") = goal
          BY <3>2 DEF Arrives, GoalAt
        <4>2. Leads("start", "install", FALSE)
          BY <2>1, <4>1, ArriveOn, StageTable DEF Hooks
        <4> QED
          BY <3>2, <4>2
      <3> QED
        BY <1>1, <3>1, <3>2 DEF StartSlot
    <2> QED
      BY <2>1, <2>2 DEF Leads, Op, Stage, Runs, Plan!Next, Plan!Enter, Plan!At, Plan!Over
  <1>2. CASE RestartSlot
    <2>1. /\ pc = "restartSlot" /\ Stage = "enter" /\ Op = "restart"
          /\ goal = "restart"
          /\ cfg' = cfg /\ configured' = configured /\ installed' = installed
          /\ files' = files
      BY <1>2, AtSlot, Operating DEF RestartSlot, ThreadInv, GoalsOf, outside, config
    <2>2. Leads("none", "none", FALSE) \/ Leads("restart", "stop", FALSE)
      <3>1. CASE GoTo(Return)
        BY <3>1, ArriveSomewhere, ArriveReturn
      <3>2. CASE GoTo("stopSlot")
        <4>1. Arrives("stopSlot") /\ GoalAt("stopSlot") = "restart"
          BY <2>1, <3>2, ArriveSomewhere DEF GoalAt
        <4> QED
          BY <4>1, ArriveOn, StageTable DEF Hooks
      <3> QED
        BY <1>2, <3>1, <3>2 DEF RestartSlot
    <2> QED
      BY <2>1, <2>2 DEF Leads, Op, Stage, Runs, Plan!Next, Plan!Enter, Plan!At, Plan!Over
  <1>3. CASE ReConfigureSlot
    <2>1. /\ pc = "reConfigureSlot" /\ Stage = "enter" /\ Op = "reConfigure"
          /\ goal = "reConfigure"
          /\ cfg' = cfg /\ (cfg \in configured)' = FALSE /\ installed' = installed
          /\ files' = files
      BY <1>3, PeacefulLoad, AtSlot, Operating DEF ReConfigureSlot, ThreadInv, GoalsOf, outside
    <2>2. Leads("reConfigure", "configure", FALSE)
      <3>1. Arrives("configureSlot") /\ GoalAt("configureSlot") = "reConfigure"
        BY <1>3, <2>1, ArriveSomewhere DEF ReConfigureSlot, GoalAt
      <3>2. OperationOf("configureSlot", "reConfigure") = "reConfigure"
        BY OperationTable, StageTable
      <3> QED
        BY <3>1, <3>2, ArriveAt, StageTable DEF Hooks
    <2> QED
      BY <2>1, <2>2 DEF Leads, Op, Stage, Runs, Plan!Next, Plan!Enter, Plan!At
  <1> QED
    BY <1>1, <1>2, <1>3

(* A slot goes on after its hook. *)
LEMMA PlanDone ==
    ASSUME Peaceful, TypeOK, ThreadInv,
           \/ InstallDone \/ ConfigureDone \/ ValidateDone \/ ReloadDone \/ StartDone
           \/ AfterStartDone \/ StopDone \/ AfterStopDone
    PROVE  Plan!Next
  <1>1. cfg' = cfg /\ installed' = installed
    BY DEF InstallDone, ConfigureDone, ValidateDone, ReloadDone, StartDone,
           AfterStartDone, StopDone, AfterStopDone, config, outside
  <1>2. Runs = TRUE /\ Stage = pc
    BY AtHook, PeacefulWait DEF InstallDone, ConfigureDone, ValidateDone, ReloadDone, StartDone,
           AfterStartDone, StopDone, AfterStopDone, Hooks
  <1>3. goal \in GoalsOf(pc)
    BY DEF ThreadInv
  <1>a. CASE InstallDone
    <2>1. Plan!FollowUp(Stage) /\ Stage = "install"
      BY <1>a, <1>2, <1>3, PeacefulWait, ArriveSomewhere, FollowInstall DEF InstallDone, GoalsOf
    <2>2. /\ ("running" \in files)' = ("running" \in files)
          /\ ("validationFailure" \in files)' = (Stage # "stop" /\ "validationFailure" \in files)
          /\ (cfg \in configured)' = (cfg \in configured)
      BY <1>a, <1>1, <2>1 DEF InstallDone
    <2> QED
      BY <1>1, <1>2, <2>1, <2>2, PlanEnd
  <1>b. CASE ConfigureDone
    <2>1. Plan!FollowUp(Stage) /\ Stage = "configure"
      BY <1>b, <1>2, <1>3, PeacefulWait, ArriveSomewhere, FollowConfigure DEF ConfigureDone, GoalsOf
    <2>2. /\ ("running" \in files)' = ("running" \in files)
          /\ ("validationFailure" \in files)' = (Stage # "stop" /\ "validationFailure" \in files)
      BY <1>b, <1>1, <2>1 DEF ConfigureDone
    <2>3. \/ (cfg \in configured)' = (cfg \in configured)
          \/ (cfg \in configured)' = (cfg \in configured \/ Stage = "configure")
      BY <1>b, <1>1, <2>1 DEF ConfigureDone
    <2> QED
      BY <1>1, <1>2, <2>1, <2>2, <2>3, PlanEnd
  <1>c. CASE ValidateDone
    <2>1. Plan!FollowUp(Stage) /\ Stage = "validate"
      BY <1>c, <1>2, <1>3, PeacefulWait, ArriveSomewhere, FollowValidate DEF ValidateDone, GoalsOf
    <2>2. /\ ("running" \in files)' = ("running" \in files)
          /\ ("validationFailure" \in files)' = (Stage # "stop" /\ "validationFailure" \in files)
          /\ (cfg \in configured)' = (cfg \in configured)
      BY <1>c, <1>1, <2>1 DEF ValidateDone
    <2> QED
      BY <1>1, <1>2, <2>1, <2>2, PlanEnd
  <1>d. CASE ReloadDone
    <2>1. Plan!FollowUp(Stage) /\ Stage = "reload"
      BY <1>d, <1>2, PeacefulWait, ArriveSomewhere, FollowLast DEF ReloadDone
    <2>2. /\ ("running" \in files)' = ("running" \in files)
          /\ ("validationFailure" \in files)' = (Stage # "stop" /\ "validationFailure" \in files)
          /\ (cfg \in configured)' = (cfg \in configured)
      BY <1>d, <1>1, <2>1 DEF ReloadDone
    <2> QED
      BY <1>1, <1>2, <2>1, <2>2, PlanEnd
  <1>e. CASE StartDone
    <2>1. Plan!FollowUp(Stage) /\ Stage = "start"
      BY <1>e, <1>2, <1>3, PeacefulWait, ArriveSomewhere, FollowStart DEF StartDone, GoalsOf
    <2>2. /\ ("running" \in files)' = TRUE
          /\ ("validationFailure" \in files)' = (Stage # "stop" /\ "validationFailure" \in files)
          /\ (cfg \in configured)' = (cfg \in configured)
      BY <1>e, <1>1, <2>1 DEF StartDone
    <2> QED
      BY <1>1, <1>2, <2>1, <2>2, PlanEnd
  <1>f. CASE AfterStartDone
    <2>1. Plan!FollowUp(Stage) /\ Stage = "afterStart"
      BY <1>f, <1>2, PeacefulWait, ArriveSomewhere, FollowLast DEF AfterStartDone
    <2>2. /\ ("running" \in files)' = TRUE
          /\ ("validationFailure" \in files)' = (Stage # "stop" /\ "validationFailure" \in files)
          /\ (cfg \in configured)' = (cfg \in configured)
      BY <1>f, <1>1, <2>1 DEF AfterStartDone
    <2> QED
      BY <1>1, <1>2, <2>1, <2>2, PlanEnd
  <1>g. CASE StopDone
    <2>1. Plan!FollowUp(Stage) /\ Stage = "stop"
      BY <1>g, <1>2, <1>3, PeacefulWait, ArriveSomewhere, FollowStop DEF StopDone, GoalsOf
    <2>2. /\ ("validationFailure" \in files)' = (Stage # "stop" /\ "validationFailure" \in files)
          /\ (cfg \in configured)' = (cfg \in configured)
      BY <1>g, <1>1, <2>1 DEF StopDone
    <2>3. ("running" \in files)' \in {"running" \in files, FALSE}
      <3>1. CASE DeathWatched(cfg) = {}
        <4>1. ("running" \in files)' = ("running" \in files)
          BY <1>g, <3>1 DEF StopDone
        <4> QED
          BY <4>1, Zenon
      <3>2. CASE DeathWatched(cfg) # {}
        <4>1. ("running" \in files)' = FALSE
          BY <1>g, <3>2 DEF StopDone
        <4> QED
          BY <4>1, Zenon
      <3> QED
        BY <3>1, <3>2
    <2> QED
      BY <1>1, <1>2, <2>1, <2>2, <2>3, PlanEnd
  <1>h. CASE AfterStopDone
    <2>1. Plan!FollowUp(Stage) /\ Stage = "afterStop"
      BY <1>h, <1>2, <1>3, PeacefulWait, ArriveSomewhere, FollowAfterStop DEF AfterStopDone, GoalsOf
    <2>2. /\ ("running" \in files)' = FALSE
          /\ ("validationFailure" \in files)' = (Stage # "stop" /\ "validationFailure" \in files)
          /\ (cfg \in configured)' = (cfg \in configured)
      BY <1>h, <1>1, <2>1 DEF AfterStopDone
    <2> QED
      BY <1>1, <1>2, <2>1, <2>2, PlanEnd
  <1> QED
    BY <1>a, <1>b, <1>c, <1>d, <1>e, <1>f, <1>g, <1>h

(* Calls out of the loop, and what leaves the thread where it is. *)
LEMMA PlanCall ==
    ASSUME Stage = "none", Remembers, NEW l \in Slots, NEW g, pc' = l, goal' = g,
           \/ l = "startSlot" /\ g \in {"start", "boot"}
           \/ l = "restartSlot" /\ g = "restart"
           \/ l = "reConfigureSlot" /\ g = "reConfigure"
           \/ l = "stopSlot" /\ g \in {"none", "exit"}
           \/ l \notin {"startSlot", "launch", "restartSlot", "reConfigureSlot", "stopSlot"}
              /\ g = "none"
    PROVE  Plan!Next
  <1>1. Op = "none"
    BY OperationTable DEF Op, Stage
  <1>2. Stage' = StageOf(l) /\ Op' = OperationOf(l, g) /\ Runs' = FALSE
    BY DEF Stage, Op, Runs, Slots, Hooks
  <1>3. CASE l \in {"startSlot", "restartSlot", "reConfigureSlot"}
    <2>1. Stage' = "enter" /\ Op' \in {"start", "restart", "reConfigure"}
      BY <1>2, <1>3, StageTable, OperationTable
    <2> QED
      BY <1>1, <1>2, <2>1, PlanAsk
  <1>4. CASE l \in {"stopSlot", "afterStopSlot"}
    <2>1. StageOf(l) \in {"stop", "afterStop"} /\ g \in {"none", "exit"}
      BY <1>4, StageTable
    <2>2. OperationOf(l, g) = "stop"
      BY <2>1, OperationTable
    <2> QED
      BY <1>1, <1>2, <2>1, <2>2, PlanAsk
  <1>5. CASE l \in {"installSlot", "configureSlot", "validateSlot", "afterStartSlot", "reloadSlot"}
    <2>1. StageOf(l) \in Hooks /\ StageOf(l) \notin {"none", "stop", "afterStop"} /\ g = "none"
      BY <1>5, StageTable DEF Hooks
    <2>2. OperationOf(l, g) = "single"
      BY <2>1, OperationTable
    <2> QED
      BY <1>1, <1>2, <2>1, <2>2, PlanAsk
  <1> QED
    BY <1>3, <1>4, <1>5 DEF Slots

LEMMA ThreadStays ==
    ASSUME pc' = pc, goal' = goal PROVE StaysPut
  BY DEF StaysPut, Op, Stage, Runs

LEMMA ThreadLeaves ==
    ASSUME Stage = "none", pc' \in {"idle", "resume", "exit"} PROVE StaysPut
  <1>1. StageOf(pc') = "none" /\ pc' \notin Hooks /\ pc \notin Hooks
    BY StageTable DEF Stage, Hooks
  <1> QED
    BY <1>1, OperationTable DEF StaysPut, Op, Stage, Runs

LEMMA AtRest ==
    ASSUME pc \in {"idle", "resume", "exit"} PROVE Stage = "none"
  BY StageTable DEF Stage

LEMMA PlanObey ==
    ASSUME Stage = "none", Remembers, NEW t \in TriggerNames, Obey(t) PROVE Plan!Next
  <1>1. \E l \in Slots, g \in Goals :
          /\ pc' = l /\ goal' = g
          /\ \/ l = "startSlot" /\ g \in {"start", "boot"}
             \/ l = "restartSlot" /\ g = "restart"
             \/ l = "reConfigureSlot" /\ g = "reConfigure"
             \/ l = "stopSlot" /\ g \in {"none", "exit"}
             \/ l \notin {"startSlot", "launch", "restartSlot", "reConfigureSlot", "stopSlot"}
                /\ g = "none"
    BY DEF Obey, Call, TriggerNames, StartTriggers, StopTriggers, RestartTriggers,
       ReConfigureTriggers, Slots, Goals
  <1> QED
    BY <1>1, PlanCall

LEMMA PlanLoop ==
    ASSUME TypeOK, ThreadInv, LoopStep
    PROVE  Plan!Next \/ (StaysPut /\ Remembers)
  <1>1. Stage = "none"
    BY AtRest DEF LoopStep, DirChangedSlot, BabySitterSlot, CronSitterSlot, FinishedSlot,
       CheckUserControlTriggers, AtLoop
  <1>2. Remembers
    BY PeacefulLoad DEF Remembers, LoopStep, DirChangedSlot, BabySitterSlot, CronSitterSlot,
       FinishedSlot, CheckUserControlTriggers, outside, config
  <1>3. CASE DirChangedSlot
    <2>1. CASE pc' = pc /\ goal' = goal
      BY <1>2, <2>1, ThreadStays
    <2>2. CASE \E t \in TriggerNames : Obey(t)
      BY <1>1, <1>2, <2>2, PlanObey
    <2> QED
      BY <1>3, <2>1, <2>2 DEF DirChangedSlot, TypeOK
  <1>4. CASE BabySitterSlot \/ CronSitterSlot \/ FinishedSlot
    <2>1. CASE pc' = pc /\ goal' = goal
      BY <1>2, <2>1, ThreadStays
    <2>2. CASE pc' = "restartSlot" /\ goal' = "restart"
      BY <1>1, <1>2, <2>2, PlanCall DEF Slots
    <2> QED
      BY <1>4, <2>1, <2>2 DEF BabySitterSlot, CronSitterSlot, FinishedSlot, Call
  <1>5. CASE CheckUserControlTriggers
    <2>1. CASE pc' = "stopSlot" /\ goal' = "exit"
      BY <1>1, <1>2, <2>1, PlanCall DEF Slots
    <2>2. CASE pc' = "idle"
      BY <1>1, <1>2, <2>2, ThreadLeaves
    <2> QED
      BY <1>5, <2>1, <2>2 DEF CheckUserControlTriggers, Call, Gone
  <1> QED
    BY <1>3, <1>4, <1>5 DEF LoopStep

LEMMA PlanResume ==
    ASSUME Resume PROVE Plan!Next \/ (StaysPut /\ Remembers)
  <1>1. Stage = "none" /\ Remembers
    BY AtRest DEF Resume, Remembers, outside, config
  <1>2. CASE pc' = "startSlot" /\ goal' = "start"
    BY <1>1, <1>2, PlanCall DEF Slots
  <1>3. CASE pc' = "idle"
    BY <1>1, <1>3, ThreadLeaves
  <1> QED
    BY <1>2, <1>3 DEF Resume, GoTo, GoalAt

(* What a hook does shows as an Effect. *)
LEMMA EffectShows ==
    ASSUME NEW h, NEW r, NEW ok, HookEffect(h, r, ok)
    PROVE  /\ installed => installed'
           /\ files' \in {files, files \cup {"validationFailure"}}
  BY DEF HookEffect

LEMMA PlanEffect ==
    ASSUME pc' = pc, goal' = goal, cfg' = cfg, configured' = configured,
           installed => installed', files' \in {files, files \cup {"validationFailure"}}
    PROVE  Plan!Next
  <1>1. ("running" \in files)' = ("running" \in files)
    OBVIOUS
  <1>2. "validationFailure" \in files => "validationFailure" \in files'
    OBVIOUS
  <1>3. StaysPut
    BY ThreadStays
  <1>4. Plan!Effect
    BY <1>1, <1>2, <1>3 DEF StaysPut, Op, Stage, Runs, Plan!Effect, Plan!InstalledKept,
       Plan!FailedKept, Plan!control
  <1> QED
    BY <1>4 DEF Plan!Next

LEMMA PlanOutside ==
    ASSUME Peaceful, TypeOK, ThreadInv, Outside
    PROVE  Plan!Next \/ (StaysPut /\ Remembers)
  <1>1. CASE HookEnds
    <2>1. \E ok \in BOOLEAN : HookEffect(pc, cfg, ok)
      BY <1>1 DEF HookEnds
    <2>2. (installed => installed') /\ files' \in {files, files \cup {"validationFailure"}}
      BY <2>1 DEF HookEffect
    <2> QED
      BY <1>1, <2>2, PlanEffect DEF HookEnds, config
  <1>2. ASSUME NEW h \in Hooks, LateHookEnds(h) PROVE Plan!Next
    <2>1. \E r, ok : HookEffect(h, r, ok)
      BY <1>2 DEF LateHookEnds
    <2>2. (installed => installed') /\ files' \in {files, files \cup {"validationFailure"}}
      BY <2>1, EffectShows
    <2> QED
      BY <1>2, <2>2, PlanEffect DEF LateHookEnds, config
  <1>3. CASE Boot
    <2>1. pc = "idle" /\ goal = "none" /\ Stage = "none" /\ Remembers
      BY <1>3, AtRest DEF Boot, ThreadInv, GoalsOf, Remembers, outside
    <2>2. CASE pc' = "startSlot" /\ goal' = "boot"
      BY <2>1, <2>2, PlanCall DEF Slots
    <2>3. CASE pc' = "resume"
      BY <2>1, <2>3, ThreadLeaves
    <2> QED
      BY <1>3, <2>2, <2>3 DEF Boot
  <1>4. ASSUME \/ \E t \in TriggerNames : Touch(t)
               \/ \E f \in {"shutdown", "shutdownGracefully"} : TouchControl(f)
               \/ \E p \in Pids : ProcessDies(p)
               \/ \E r \in Releases : DamagePidFile(r)
               \/ DiskChanges \/ Deploying
        PROVE  StaysPut /\ Remembers
    <2>1. pc' = pc /\ goal' = goal
      BY <1>4 DEF Touch, TouchControl, ProcessDies, DamagePidFile, DiskChanges, Deploying, memory
    <2>2. /\ cfg' = cfg /\ installed' = installed /\ configured' = configured
          /\ files' \in {files, files \ {"deploying"}, files \cup {"deploying"}}
      BY <1>4 DEF Touch, TouchControl, ProcessDies, DamagePidFile, DiskChanges, Deploying,
         config, outside
    <2>3. Remembers
      BY <2>2 DEF Remembers
    <2> QED
      BY <2>1, <2>3, ThreadStays
  <1>5. CASE PanelReset
    BY <1>5, ConstantsAssumption DEF PanelReset, Peaceful, Event, TriggerNames
  <1>6. CASE Killed
    BY <1>6, ConstantsAssumption DEF Killed, Peaceful, Event, TriggerNames
  <1>7. ASSUME NEW contents \in Igniters, EditIgniter(contents) PROVE FALSE
    BY <1>7, ConstantsAssumption DEF EditIgniter, Peaceful, Event, TriggerNames
  <1> QED
    BY <1>1, <1>2, <1>3, <1>4, <1>5, <1>6, <1>7 DEF Outside

LEMMA PlanStep ==
    ASSUME Peaceful, TypeOK, ThreadInv, IndicatorsHonest, [Next]_vars
    PROVE  [Plan!Next]_(Plan!vars)
  <1>1. CASE SlotStep
    <2>1. CASE Exit
      <3>1. Stage = "none" /\ pc' = "idle" /\ Remembers
        BY <2>1, AtRest DEF Exit, Gone, Remembers, outside, config
      <3> QED
        BY <3>1, ThreadLeaves, PlanStutter
    <2>2. CASE Resume
      BY <2>2, PlanResume, PlanStutter
    <2> QED
      BY <1>1, <2>1, <2>2, PlanInstall, PlanConfigure, PlanValidate, PlanUnconditional,
         PlanLaunch, PlanStop, PlanEnter, PlanDone DEF SlotStep
  <1>2. CASE LoopStep
    BY <1>2, PlanLoop, PlanStutter
  <1>3. CASE Outside
    BY <1>3, PlanOutside, PlanStutter
  <1>4. CASE UNCHANGED vars
    <2>1. StaysPut /\ Remembers
      BY <1>4, ThreadStays DEF vars, memory, config, outside, Remembers
    <2> QED
      BY <2>1, PlanStutter
  <1> QED
    BY <1>1, <1>2, <1>3, <1>4 DEF Next

LEMMA PlanInit == Init => Plan!Init
  <1> SUFFICES ASSUME Init PROVE Plan!Init
    OBVIOUS
  <1>1. Op = "none" /\ Stage = "none" /\ Runs = FALSE
    BY AtRest, OperationTable DEF Init, Op, Stage, Runs, Hooks
  <1> QED
    BY <1>1 DEF Init, Op, Stage, Runs, Plan!Init

-----------------------------------------------------------------------------
(* Without kills, edits and panel resets, a service follows HookPlan: its  *)
(* slots run their hooks in the order of the plan, leave one out for the   *)
(* plan's reasons only and remember what those hooks did, whatever the     *)
(* igniter, the triggers, the late hooks, the deaths of processes and the  *)
(* shutdowns (service.cc:638-780, :872-1007).                              *)
THEOREM PlanCorrect == ASSUME Peaceful PROVE Spec => PlanFollowed
  <1>1. Init => ThreadInv /\ Plan!Init
    BY InitThread, PlanInit
  <1>2. TypeOK /\ ThreadInv /\ [Next]_vars => ThreadInv'
    BY ThreadStep
  <1>3. TypeOK /\ ThreadInv /\ IndicatorsHonest /\ [Next]_vars => [Plan!Next]_(Plan!vars)
    BY PlanStep
  <1> QED
    BY <1>1, <1>2, <1>3, TypeCorrect, IndicatorsCorrect, PTL DEF Spec, PlanFollowed, Plan!Spec
=============================================================================
