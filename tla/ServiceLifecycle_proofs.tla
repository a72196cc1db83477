----------------------- MODULE ServiceLifecycle_proofs -----------------------
(***************************************************************************)
(* Theorems about ServiceLifecycle, for every igniter, every set of        *)
(* triggers and outside events, and every bound on them.                   *)
(***************************************************************************)
EXTENDS ServiceLifecycle, TLAPS

(* The part of TypeOK about where the thread of svdss is.                  *)
ThreadOK ==
    /\ pc \in Labels
    /\ goal \in Goals
    /\ hook \in {"none", "runs", "ok", "failed"}
    /\ late \in [Hooks -> {"no", "child", "orphan"}]

(* The part of TypeOK about what a slot loads.                             *)
LoadedOK ==
    /\ cfg \in Releases
    /\ igniter \in Igniters
    /\ triggers \subseteq TriggerNames

-----------------------------------------------------------------------------
(* The helpers the actions are built from keep the thread well-typed.      *)

LEMMA TypeParts == TypeOK => ThreadOK /\ LoadedOK
  BY DEF TypeOK, ThreadOK, LoadedOK

LEMMA GoalAtType == ASSUME TypeOK, NEW l PROVE GoalAt(l) \in Goals
  BY DEF GoalAt, Goals, TypeOK

LEMMA ReapedType ==
    ASSUME NEW hooks \in [Hooks -> {"no", "child", "orphan"}], NEW l
    PROVE  Reaped(l, hooks) \in [Hooks -> {"no", "child", "orphan"}]
  BY DEF Reaped

LEMMA ReturnType == /\ Return \in Labels
                    /\ AfterConfigure \in Labels
                    /\ AfterValidate \in Labels
                    /\ AfterStop \in Labels
                    /\ \A r : AfterInstall(r) \in Labels
  BY DEF Return, AfterConfigure, AfterValidate, AfterStop, AfterInstall, Labels, Slots

LEMMA GoToType == ASSUME TypeOK, NEW l \in Labels, GoTo(l) PROVE ThreadOK'
  <1>1. late \in [Hooks -> {"no", "child", "orphan"}]
    BY DEF TypeOK
  <1> QED  BY <1>1, GoalAtType, ReapedType DEF GoTo, ThreadOK

LEMMA SpawnType == ASSUME TypeOK, NEW h \in Hooks, Spawn(h) PROVE ThreadOK'
  BY DEF Spawn, ThreadOK, TypeOK, Labels

LEMMA CallType ==
    ASSUME TypeOK, NEW l \in Labels, NEW g \in Goals, Call(l, g) PROVE ThreadOK'
  BY DEF Call, ThreadOK, TypeOK

LEMMA ObeyEnters ==
    ASSUME NEW t \in TriggerNames, Obey(t) PROVE pc' \in Slots \ {"launch"}
  BY DEF Obey, Call, Slots, TriggerNames, StartTriggers, StopTriggers,
         RestartTriggers, ReConfigureTriggers

LEMMA ObeyType == ASSUME TypeOK, NEW t \in TriggerNames, Obey(t) PROVE ThreadOK'
  <1>1. PICK l \in Labels, g \in Goals : Call(l, g)
    BY DEF Obey, Labels, Slots, Goals, TriggerNames, StartTriggers, StopTriggers,
           RestartTriggers, ReConfigureTriggers
  <1> QED
    BY <1>1, CallType

LEMMA WaitedType ==
    ASSUME TypeOK, NEW h \in Hooks, NEW l \in Labels, Waited(h, l)
    PROVE  ThreadOK' /\ spent' \in 0..MaxEvents /\ happened' \subseteq Rough
  <1>1. late \in [Hooks -> {"no", "child", "orphan"}]
    BY DEF TypeOK
  <1>2. [late EXCEPT ![h] = IF @ = "orphan" THEN @ ELSE "child"]
          \in [Hooks -> {"no", "child", "orphan"}]
    BY <1>1
  <1>3. Reaped(l, late) \in [Hooks -> {"no", "child", "orphan"}]
    BY <1>1, ReapedType
  <1>4. Reaped(l, [late EXCEPT ![h] = IF @ = "orphan" THEN @ ELSE "child"])
          \in [Hooks -> {"no", "child", "orphan"}]
    BY <1>2, ReapedType
  <1>5. late' \in [Hooks -> {"no", "child", "orphan"}]
    BY <1>3, <1>4 DEF Waited
  <1>6. pc' \in Labels /\ goal' \in Goals /\ hook' \in {"none", "runs", "ok", "failed"}
    BY GoalAtType DEF Waited
  <1>7. spent' \in 0..MaxEvents /\ happened' \subseteq Rough
    BY ConstantsAssumption DEF Waited, Event, events, TypeOK
  <1> QED  BY <1>5, <1>6, <1>7 DEF ThreadOK

LEMMA EventType ==
    ASSUME TypeOK, NEW kind, Event(kind)
    PROVE  spent' \in 0..MaxEvents /\ happened' \subseteq Rough
  BY ConstantsAssumption DEF Event, TypeOK

LEMMA LoadType == ASSUME TypeOK, LoadServiceConfig PROVE LoadedOK'
  BY DEF LoadServiceConfig, TypeOK, LoadedOK, Igniters, TriggerNames

LEMMA GoneType == ASSUME TypeOK, Gone
                  PROVE  ThreadOK' /\ up' \in BOOLEAN /\ babySitter' \in BOOLEAN
                         /\ cronSitter' \in BOOLEAN /\ httpPending' \in BOOLEAN
  BY DEF Gone, ThreadOK, TypeOK, Labels, Goals

LEMMA HookEffectType ==
    ASSUME TypeOK, NEW h \in Hooks, NEW r \in Releases, NEW ok \in BOOLEAN,
           HookEffect(h, r, ok)
    PROVE  /\ installed' \in BOOLEAN
           /\ seen' \subseteq Expecting
           /\ files' \subseteq StateFiles
           /\ alive' \subseteq Pids
           /\ pidFile' \in [Releases -> Pids \cup {NoPid, BadPid}]
  <1>1. installed' \in BOOLEAN /\ seen' \subseteq Expecting /\ files' \subseteq StateFiles
    BY DEF HookEffect, TypeOK, StateFiles
  <1>2. alive' \subseteq Pids /\ pidFile' \in [Releases -> Pids \cup {NoPid, BadPid}]
    BY DEF HookEffect, TypeOK
  <1> QED  BY <1>1, <1>2

-----------------------------------------------------------------------------
(* Every step of the program and of the others keeps the types.            *)

LEMMA SlotStepType == ASSUME TypeOK, SlotStep PROVE TypeOK'
  <1>1. CASE InstallSlot
    <2>1. ThreadOK'
      BY <1>1, GoToType, SpawnType, ReturnType
         DEF InstallSlot, Labels, Slots, Hooks
    <2>2. LoadedOK'
      BY <1>1, LoadType DEF InstallSlot
    <2> QED
      BY <1>1, <2>1, <2>2
         DEF InstallSlot, TypeOK, ThreadOK, LoadedOK, unwatched, config, outside, history, events, StateFiles
  <1>2. CASE InstallDone
    <2>1. ThreadOK'
      BY <1>2, WaitedType, ReturnType
         DEF InstallDone, Labels, Slots, Hooks
    <2>2. LoadedOK'
      BY <1>2 DEF InstallDone, config, LoadedOK, TypeOK
    <2> QED
      BY <1>2, <2>1, <2>2, WaitedType, ReturnType
         DEF InstallDone, TypeOK, ThreadOK, LoadedOK, unwatched, config, outside, history, events, StateFiles, Hooks
  <1>3. CASE ConfigureSlot
    <2>1. ThreadOK'
      BY <1>3, GoToType, SpawnType, ReturnType
         DEF ConfigureSlot, Labels, Slots, Hooks
    <2>2. LoadedOK'
      BY <1>3, LoadType DEF ConfigureSlot
    <2> QED
      BY <1>3, <2>1, <2>2
         DEF ConfigureSlot, TypeOK, ThreadOK, LoadedOK, unwatched, config, outside, history, events, StateFiles
  <1>4. CASE ConfigureDone
    <2>1. ThreadOK'
      BY <1>4, WaitedType, ReturnType
         DEF ConfigureDone, Labels, Slots, Hooks
    <2>2. LoadedOK'
      BY <1>4 DEF ConfigureDone, config, LoadedOK, TypeOK
    <2> QED
      BY <1>4, <2>1, <2>2, WaitedType, ReturnType
         DEF ConfigureDone, TypeOK, ThreadOK, LoadedOK, unwatched, config, outside, history, events, StateFiles, Hooks
  <1>5. CASE ReConfigureSlot
    <2>1. ThreadOK'
      BY <1>5, GoToType
         DEF ReConfigureSlot, Labels, Slots, Hooks
    <2>2. LoadedOK'
      BY <1>5, LoadType DEF ReConfigureSlot
    <2> QED
      BY <1>5, <2>1, <2>2
         DEF ReConfigureSlot, TypeOK, ThreadOK, LoadedOK, unwatched, config, outside, history, events
  <1>6. CASE ValidateSlot
    <2>1. ThreadOK'
      BY <1>6, GoToType, SpawnType, ReturnType
         DEF ValidateSlot, Labels, Slots, Hooks
    <2>2. LoadedOK'
      BY <1>6, LoadType DEF ValidateSlot
    <2> QED
      BY <1>6, <2>1, <2>2
         DEF ValidateSlot, TypeOK, ThreadOK, LoadedOK, unwatched, config, outside, history, events, StateFiles
  <1>7. CASE ValidateDone
    <2>1. ThreadOK'
      BY <1>7, WaitedType, ReturnType
         DEF ValidateDone, Labels, Slots, Hooks
    <2>2. LoadedOK'
      BY <1>7 DEF ValidateDone, config, LoadedOK, TypeOK
    <2> QED
      BY <1>7, <2>1, <2>2, WaitedType, ReturnType
         DEF ValidateDone, TypeOK, ThreadOK, LoadedOK, unwatched, config, outside, history, events, StateFiles, Hooks
  <1>8. CASE ReloadSlot
    <2>1. ThreadOK'
      BY <1>8, GoToType, SpawnType, ReturnType
         DEF ReloadSlot, Labels, Slots, Hooks
    <2>2. LoadedOK'
      BY <1>8, LoadType DEF ReloadSlot
    <2> QED
      BY <1>8, <2>1, <2>2
         DEF ReloadSlot, TypeOK, ThreadOK, LoadedOK, unwatched, config, outside, history, events, StateFiles
  <1>9. CASE ReloadDone
    <2>1. ThreadOK'
      BY <1>9, WaitedType, ReturnType
         DEF ReloadDone, Labels, Slots, Hooks
    <2>2. LoadedOK'
      BY <1>9 DEF ReloadDone, config, LoadedOK, TypeOK
    <2> QED
      BY <1>9, <2>1, <2>2, WaitedType, ReturnType
         DEF ReloadDone, TypeOK, ThreadOK, LoadedOK, unwatched, config, outside, history, events, StateFiles, Hooks
  <1>10. CASE StartSlot
    <2>1. ThreadOK'
      BY <1>10, GoToType, ReturnType
         DEF StartSlot, Labels, Slots, Hooks, ThreadOK, TypeOK
    <2>2. LoadedOK'
      BY <1>10, LoadType DEF StartSlot
    <2> QED
      BY <1>10, <2>1, <2>2
         DEF StartSlot, TypeOK, ThreadOK, LoadedOK, unwatched, config, outside, history, events
  <1>11. CASE Launch
    <2>1. ThreadOK'
      BY <1>11, GoToType, SpawnType, ReturnType
         DEF Launch, Labels, Slots, Hooks
    <2>2. LoadedOK'
      BY <1>11 DEF Launch, config, LoadedOK, TypeOK
    <2> QED
      BY <1>11, <2>1, <2>2
         DEF Launch, TypeOK, ThreadOK, LoadedOK, unwatched, config, outside, history, events
  <1>12. CASE StartDone
    <2>1. ThreadOK'
      BY <1>12, WaitedType
         DEF StartDone, Labels, Slots, Hooks
    <2>2. LoadedOK'
      BY <1>12 DEF StartDone, config, LoadedOK, TypeOK
    <2> QED
      BY <1>12, <2>1, <2>2, WaitedType
         DEF StartDone, TypeOK, ThreadOK, LoadedOK, unwatched, config, outside, history, events, StateFiles, Hooks, Labels, Slots
  <1>13. CASE AfterStartSlot
    <2>1. ThreadOK'
      BY <1>13, GoToType, SpawnType, ReturnType
         DEF AfterStartSlot, Labels, Slots, Hooks
    <2>2. LoadedOK'
      BY <1>13, LoadType DEF AfterStartSlot
    <2> QED
      BY <1>13, <2>1, <2>2
         DEF AfterStartSlot, TypeOK, ThreadOK, LoadedOK, unwatched, config, outside, history, events, StateFiles
  <1>14. CASE AfterStartDone
    <2>1. ThreadOK'
      BY <1>14, WaitedType, ReturnType
         DEF AfterStartDone, Labels, Slots, Hooks
    <2>2. LoadedOK'
      BY <1>14 DEF AfterStartDone, config, LoadedOK, TypeOK
    <2> QED
      BY <1>14, <2>1, <2>2, WaitedType, ReturnType
         DEF AfterStartDone, TypeOK, ThreadOK, LoadedOK, unwatched, config, outside, history, events, StateFiles, Hooks
  <1>15. CASE StopSlot
    <2>1. ThreadOK'
      BY <1>15, GoToType, SpawnType, ReturnType
         DEF StopSlot, Labels, Slots, Hooks
    <2>2. LoadedOK'
      BY <1>15, LoadType DEF StopSlot
    <2> QED
      BY <1>15, <2>1, <2>2
         DEF StopSlot, TypeOK, ThreadOK, LoadedOK, unwatched, config, outside, history, events
  <1>16. CASE StopDone
    <2>1. ThreadOK'
      BY <1>16, WaitedType
         DEF StopDone, Labels, Slots, Hooks
    <2>2. LoadedOK'
      BY <1>16 DEF StopDone, config, LoadedOK, TypeOK
    <2> QED
      BY <1>16, <2>1, <2>2, WaitedType
         DEF StopDone, TypeOK, ThreadOK, LoadedOK, unwatched, config, outside, history, events, StateFiles, Hooks, Labels, Slots
  <1>17. CASE AfterStopSlot
    <2>1. ThreadOK'
      BY <1>17, GoToType, SpawnType, ReturnType
         DEF AfterStopSlot, Labels, Slots, Hooks
    <2>2. LoadedOK'
      BY <1>17, LoadType DEF AfterStopSlot
    <2> QED
      BY <1>17, <2>1, <2>2
         DEF AfterStopSlot, TypeOK, ThreadOK, LoadedOK, unwatched, config, outside, history, events, StateFiles
  <1>18. CASE AfterStopDone
    <2>1. ThreadOK'
      BY <1>18, WaitedType, ReturnType
         DEF AfterStopDone, Labels, Slots, Hooks
    <2>2. LoadedOK'
      BY <1>18 DEF AfterStopDone, config, LoadedOK, TypeOK
    <2> QED
      BY <1>18, <2>1, <2>2, WaitedType, ReturnType
         DEF AfterStopDone, TypeOK, ThreadOK, LoadedOK, unwatched, config, outside, history, events, StateFiles, Hooks
  <1>19. CASE RestartSlot
    <2>1. ThreadOK'
      BY <1>19, GoToType, ReturnType
         DEF RestartSlot, Labels, Slots, Hooks
    <2>2. LoadedOK'
      BY <1>19 DEF RestartSlot, config, LoadedOK, TypeOK
    <2> QED
      BY <1>19, <2>1, <2>2
         DEF RestartSlot, TypeOK, ThreadOK, LoadedOK, unwatched, config, outside, history, events
  <1>20. CASE Exit
    <2>1. LoadedOK'
      BY <1>20 DEF Exit, config, LoadedOK, TypeOK
    <2> QED
      BY <1>20, <2>1, GoneType
         DEF Exit, TypeOK, ThreadOK, LoadedOK, outside, history, events
  <1>21. CASE Resume
    <2>1. ThreadOK'
      BY <1>21, GoToType
         DEF Resume, Labels, Slots, Hooks
    <2>2. LoadedOK'
      BY <1>21 DEF Resume, config, LoadedOK, TypeOK
    <2> QED
      BY <1>21, <2>1, <2>2
         DEF Resume, TypeOK, ThreadOK, LoadedOK, unwatched, config, outside, history, events
  <1> QED
    BY <1>1, <1>2, <1>3, <1>4, <1>5, <1>6, <1>7, <1>8, <1>9, <1>10, <1>11, <1>12, <1>13, <1>14, <1>15, <1>16, <1>17, <1>18, <1>19, <1>20, <1>21 DEF SlotStep

LEMMA LoopStepType == ASSUME TypeOK, LoopStep PROVE TypeOK'
  <1>1. CASE DirChangedSlot
    <2>1. PICK t \in triggers : \/ UNCHANGED <<pc, goal, hook, late>>
                                \/ Obey(t)
      BY <1>1 DEF DirChangedSlot
    <2>2. t \in TriggerNames
      BY <2>1 DEF TypeOK
    <2>3. ThreadOK'
      BY <2>1, <2>2, ObeyType DEF TypeOK, ThreadOK
    <2> QED
      BY <1>1, <2>3
         DEF DirChangedSlot, TypeOK, ThreadOK, unwatched, outside, events
  <1>2. CASE BabySitterSlot
    <2>1. LoadedOK'
      BY <1>2, LoadType DEF BabySitterSlot
    <2>2. ThreadOK'
      BY <1>2, CallType DEF BabySitterSlot, Labels, Slots, Goals, ThreadOK, TypeOK
    <2> QED
      BY <1>2, <2>1, <2>2 DEF BabySitterSlot, TypeOK, ThreadOK, LoadedOK, history, events
  <1>3. CASE CronSitterSlot
    <2>1. LoadedOK'
      BY <1>3, LoadType DEF CronSitterSlot
    <2> QED
      BY <1>3, <2>1 DEF CronSitterSlot, TypeOK, LoadedOK, outside, history, events
  <1>4. CASE FinishedSlot
    <2>1. ThreadOK'
      BY <1>4, CallType DEF FinishedSlot, Labels, Slots, Goals, ThreadOK, TypeOK
    <2> QED
      BY <1>4, <2>1 DEF FinishedSlot, TypeOK, ThreadOK, config, outside, history, events
  <1>5. CASE CheckUserControlTriggers
    <2>0. "stopSlot" \in Labels /\ "exit" \in Goals
      BY DEF Labels, Slots, Goals
    <2>1. Call("stopSlot", "exit") => ThreadOK'
      BY <2>0, CallType
    <2>2. ThreadOK'
      BY <1>5, <2>1, GoneType DEF CheckUserControlTriggers
    <2> QED
      BY <1>5, <2>2, GoneType
         DEF CheckUserControlTriggers, TypeOK, ThreadOK, unwatched, config, history, events
  <1> QED
    BY <1>1, <1>2, <1>3, <1>4, <1>5 DEF LoopStep

LEMMA OutsideType == ASSUME TypeOK, Outside PROVE TypeOK'
  <1>1. CASE HookEnds
    <2>1. PICK ok \in BOOLEAN : /\ hook' = IF ok THEN "ok" ELSE "failed"
                                /\ HookEffect(pc, cfg, ok)
                                /\ verdict' \in {"ok", "failed", verdict}
      BY <1>1 DEF HookEnds
    <2>2. CASE pc \in Hooks
      BY <1>1, <2>1, <2>2, HookEffectType DEF HookEnds, TypeOK, config, events
    <2>3. CASE pc \notin Hooks
      <3>1. /\ installed' \in BOOLEAN /\ seen' \subseteq Expecting /\ files' \subseteq StateFiles
            /\ alive' \subseteq Pids
            /\ pidFile' \in [Releases -> Pids \cup {NoPid, BadPid}]
        BY <2>1 DEF HookEffect, TypeOK, StateFiles
      <3> QED
        BY <1>1, <2>1, <3>1 DEF HookEnds, TypeOK, config, events
    <2> QED
      BY <2>2, <2>3
  <1>2. ASSUME NEW h \in Hooks, LateHookEnds(h) PROVE TypeOK'
    <2>1. PICK r \in Releases, ok \in BOOLEAN : HookEffect(h, r, ok)
      BY <1>2 DEF LateHookEnds
    <2> QED
      BY <1>2, <2>1, HookEffectType DEF LateHookEnds, TypeOK, config, history, events
  <1>3. ASSUME NEW t \in TriggerNames, Touch(t) PROVE TypeOK'
    BY <1>3, EventType DEF Touch, TypeOK, memory, outside, history, events
  <1>4. ASSUME NEW f \in {"shutdown", "shutdownGracefully"}, TouchControl(f) PROVE TypeOK'
    BY <1>4, EventType DEF TouchControl, TypeOK, memory, config, history, events
  <1>5. ASSUME NEW contents \in Igniters, EditIgniter(contents) PROVE TypeOK'
    BY <1>5, EventType DEF EditIgniter, TypeOK, memory, outside, history, events
  <1>6. ASSUME NEW p \in Pids, ProcessDies(p) PROVE TypeOK'
    BY <1>6, EventType DEF ProcessDies, TypeOK, memory, config, history, events
  <1>7. ASSUME NEW r \in Releases, DamagePidFile(r) PROVE TypeOK'
    BY <1>7, EventType DEF DamagePidFile, TypeOK, memory, config, history, events
  <1>8. CASE DiskChanges
    BY <1>8, EventType DEF DiskChanges, TypeOK, memory, config, history, events
  <1>9. CASE Deploying
    BY <1>9, EventType DEF Deploying, TypeOK, StateFiles, memory, config, outside, history, events
  <1>10. CASE PanelReset
    BY <1>10, EventType DEF PanelReset, TypeOK, memory, outside, history, events
  <1>11. CASE Killed
    BY <1>11, EventType, GoneType DEF Killed, TypeOK, ThreadOK, config, outside, history, events
  <1>12. CASE Boot
    BY <1>12 DEF Boot, TypeOK, Labels, Slots, Goals, outside, events
  <1> QED
    BY <1>1, <1>2, <1>3, <1>4, <1>5, <1>6, <1>7, <1>8, <1>9, <1>10, <1>11, <1>12
       DEF Outside

(* Every variable keeps its type.                                          *)
THEOREM TypeCorrect == Spec => []TypeOK
  <1>1. Init => TypeOK
    <2> SUFFICES ASSUME Init PROVE TypeOK
      OBVIOUS
    <2>1. /\ late \in [Hooks -> {"no", "child", "orphan"}]
          /\ pidFile \in [Releases -> Pids \cup {NoPid, BadPid}]
          /\ spent \in 0..MaxEvents
      BY ConstantsAssumption DEF Init
    <2> QED
      BY <2>1 DEF Init, TypeOK, Labels, Goals, Igniters
  <1>2. TypeOK /\ [Next]_vars => TypeOK'
    <2> SUFFICES ASSUME TypeOK, [Next]_vars PROVE TypeOK'
      OBVIOUS
    <2>1. CASE UNCHANGED vars
      BY <2>1 DEF vars, memory, config, outside, history, events, TypeOK
    <2> QED
      BY <2>1, SlotStepType, LoopStepType, OutsideType DEF Next
  <1> QED
    BY <1>1, <1>2, PTL DEF Spec

-----------------------------------------------------------------------------
(* Indicators. The invariant is inductive once it says also that a dead    *)
(* svdss waits for no hook: Boot finds no indicator to be misled by.       *)

IndicatorInv ==
    /\ "installing" \in files => pc = "install"
    /\ "configuring" \in files => pc = "configure"
    /\ "validating" \in files => pc = "validate"
    /\ "afterStarting" \in files => pc = "afterStart"
    /\ "afterStopping" \in files => pc = "afterStop"
    /\ "reloading" \in files => pc = "reload"
    /\ ~up => pc = "idle"

LEMMA IndicatorInvHonest ==
    IndicatorInv => \A h \in IndicatorHooks : Indicator(h) \in files => pc = h
  BY DEF IndicatorInv, IndicatorHooks, Hooks, Indicator

LEMMA IndicatorSlotStep ==
    ASSUME IndicatorInv, SlotStep PROVE IndicatorInv'
  <1>1. CASE InstallSlot
    BY <1>1 DEF InstallSlot, IndicatorInv, unwatched, GoTo, Spawn
  <1>2. CASE InstallDone
    BY <1>2 DEF InstallDone, IndicatorInv, unwatched, Waited
  <1>3. CASE ConfigureSlot
    BY <1>3 DEF ConfigureSlot, IndicatorInv, unwatched, GoTo, Spawn
  <1>4. CASE ConfigureDone
    BY <1>4 DEF ConfigureDone, IndicatorInv, unwatched, Waited
  <1>5. CASE ReConfigureSlot
    BY <1>5 DEF ReConfigureSlot, IndicatorInv, unwatched, GoTo
  <1>6. CASE ValidateSlot
    BY <1>6 DEF ValidateSlot, IndicatorInv, unwatched, GoTo, Spawn
  <1>7. CASE ValidateDone
    BY <1>7 DEF ValidateDone, IndicatorInv, unwatched, Waited
  <1>8. CASE ReloadSlot
    BY <1>8 DEF ReloadSlot, IndicatorInv, unwatched, GoTo, Spawn
  <1>9. CASE ReloadDone
    BY <1>9 DEF ReloadDone, IndicatorInv, unwatched, Waited
  <1>10. CASE StartSlot
    BY <1>10 DEF StartSlot, IndicatorInv, GoTo
  <1>11. CASE Launch
    BY <1>11 DEF Launch, IndicatorInv, unwatched, GoTo, Spawn
  <1>12. CASE StartDone
    BY <1>12 DEF StartDone, IndicatorInv, Waited
  <1>13. CASE AfterStartSlot
    BY <1>13 DEF AfterStartSlot, IndicatorInv, unwatched, GoTo, Spawn
  <1>14. CASE AfterStartDone
    BY <1>14 DEF AfterStartDone, IndicatorInv, unwatched, Waited
  <1>15. CASE StopSlot
    BY <1>15 DEF StopSlot, IndicatorInv, GoTo, Spawn
  <1>16. CASE StopDone
    BY <1>16 DEF StopDone, IndicatorInv, unwatched, Waited
  <1>17. CASE AfterStopSlot
    BY <1>17 DEF AfterStopSlot, IndicatorInv, unwatched, GoTo, Spawn
  <1>18. CASE AfterStopDone
    BY <1>18 DEF AfterStopDone, IndicatorInv, unwatched, Waited
  <1>19. CASE RestartSlot
    BY <1>19 DEF RestartSlot, IndicatorInv, unwatched, GoTo
  <1>20. CASE Exit
    BY <1>20 DEF Exit, IndicatorInv, Gone
  <1>21. CASE Resume
    BY <1>21 DEF Resume, IndicatorInv, unwatched, GoTo
  <1> QED
    BY <1>1, <1>2, <1>3, <1>4, <1>5, <1>6, <1>7, <1>8, <1>9, <1>10, <1>11, <1>12, <1>13, <1>14, <1>15, <1>16, <1>17, <1>18, <1>19, <1>20, <1>21
       DEF SlotStep

LEMMA IndicatorOtherStep ==
    ASSUME "kill" \notin happened', IndicatorInv, LoopStep \/ Outside
    PROVE  IndicatorInv'
  <1>1. CASE DirChangedSlot
    <2>1. pc = "idle" /\ up /\ up' /\ files' = files
      BY <1>1 DEF DirChangedSlot, AtLoop, unwatched
    <2> QED
      BY <2>1 DEF IndicatorInv
  <1>2. CASE BabySitterSlot
    <2>1. pc = "idle" /\ up /\ up' /\ files' = files
      BY <1>2 DEF BabySitterSlot, AtLoop
    <2> QED
      BY <2>1 DEF IndicatorInv
  <1>3. CASE CronSitterSlot
    BY <1>3 DEF CronSitterSlot, IndicatorInv
  <1>4. CASE FinishedSlot
    <2>1. pc = "idle" /\ up /\ up' /\ files' = files
      BY <1>4 DEF FinishedSlot, AtLoop
    <2> QED
      BY <2>1 DEF IndicatorInv
  <1>5. CASE CheckUserControlTriggers
    <2>1. pc = "idle" /\ files' = files /\ (up' \/ pc' = "idle")
      BY <1>5 DEF CheckUserControlTriggers, AtLoop, Gone, unwatched
    <2> QED
      BY <2>1 DEF IndicatorInv
  <1>6. CASE HookEnds
    <2>1. files' \subseteq files \cup {"validationFailure"} /\ pc' = pc /\ up' = up
      BY <1>6 DEF HookEnds, HookEffect
    <2> QED
      BY <2>1 DEF IndicatorInv
  <1>7. ASSUME NEW h \in Hooks, LateHookEnds(h) PROVE IndicatorInv'
    <2>1. files' \subseteq files \cup {"validationFailure"} /\ pc' = pc /\ up' = up
      BY <1>7 DEF LateHookEnds, HookEffect
    <2> QED
      BY <2>1 DEF IndicatorInv
  <1>8. ASSUME NEW t, Touch(t) PROVE IndicatorInv'
    BY <1>8 DEF Touch, memory, IndicatorInv
  <1>9. ASSUME NEW f, TouchControl(f) PROVE IndicatorInv'
    BY <1>9 DEF TouchControl, memory, IndicatorInv
  <1>10. ASSUME NEW contents, EditIgniter(contents) PROVE IndicatorInv'
    BY <1>10 DEF EditIgniter, memory, IndicatorInv
  <1>11. ASSUME NEW p, ProcessDies(p) PROVE IndicatorInv'
    BY <1>11 DEF ProcessDies, memory, IndicatorInv
  <1>12. ASSUME NEW r, DamagePidFile(r) PROVE IndicatorInv'
    BY <1>12 DEF DamagePidFile, memory, IndicatorInv
  <1>13. CASE DiskChanges
    BY <1>13 DEF DiskChanges, memory, IndicatorInv
  <1>14. CASE Deploying
    BY <1>14 DEF Deploying, memory, IndicatorInv
  <1>15. CASE PanelReset
    BY <1>15 DEF PanelReset, memory, IndicatorInv
  <1>16. CASE Killed
    BY <1>16 DEF Killed, Event, Rough
  <1>17. CASE Boot
    <2>1. ~up /\ up' /\ files' = files
      BY <1>17 DEF Boot
    <2> QED
      BY <2>1 DEF IndicatorInv
  <1> QED
    BY <1>1, <1>2, <1>3, <1>4, <1>5, <1>6, <1>7, <1>8, <1>9, <1>10, <1>11, <1>12,
       <1>13, <1>14, <1>15, <1>16, <1>17
       DEF LoopStep, Outside

(* What happened is not forgotten. *)
LEMMA HappenedGrows == ASSUME [Next]_vars PROVE happened \subseteq happened'
  <1>1. ASSUME NEW kind, Event(kind) PROVE happened \subseteq happened'
    BY <1>1 DEF Event
  <1>2. CASE UNCHANGED vars
    BY <1>2 DEF vars, events
  <1>3. ASSUME NEW h, NEW l, Waited(h, l) PROVE happened \subseteq happened'
    BY <1>1, <1>3 DEF Waited, events
  <1>4. CASE SlotStep
    BY <1>3, <1>4
       DEF SlotStep, InstallSlot, InstallDone, ConfigureSlot, ConfigureDone, ReConfigureSlot,
           ValidateSlot, ValidateDone, ReloadSlot, ReloadDone, StartSlot, Launch, StartDone,
           AfterStartSlot, AfterStartDone, StopSlot, StopDone, AfterStopSlot, AfterStopDone,
           RestartSlot, Exit, Resume, events
  <1>5. CASE LoopStep
    BY <1>5 DEF LoopStep, DirChangedSlot, BabySitterSlot, CronSitterSlot, FinishedSlot,
                CheckUserControlTriggers, events
  <1>6. CASE Outside
    BY <1>1, <1>6
       DEF Outside, HookEnds, LateHookEnds, Touch, TouchControl, EditIgniter, ProcessDies,
           DamagePidFile, DiskChanges, Deploying, PanelReset, Killed, Boot, events
  <1> QED
    BY <1>2, <1>4, <1>5, <1>6 DEF Next

(* As long as svdss is not killed, an indicator file means that its hook   *)
(* runs: no other step leaves one behind (service.cc:525-993).             *)
THEOREM IndicatorsCorrect == Spec => []IndicatorsHonest
  <1> DEFINE Inv == Never({"kill"}) => IndicatorInv
  <1>1. Init => Inv
    BY DEF Init, IndicatorInv
  <1>2. Inv /\ [Next]_vars => Inv'
    <2> SUFFICES ASSUME Inv, [Next]_vars, Never({"kill"})' PROVE IndicatorInv'
      OBVIOUS
    <2>1. "kill" \notin happened' /\ IndicatorInv
      BY HappenedGrows DEF Never
    <2>2. CASE UNCHANGED vars
      BY <2>1, <2>2 DEF vars, memory, IndicatorInv
    <2> QED
      BY <2>1, <2>2, IndicatorSlotStep, IndicatorOtherStep DEF Next
  <1>3. Inv => IndicatorsHonest
    BY IndicatorInvHonest DEF IndicatorsHonest
  <1> HIDE DEF Inv
  <1> QED
    BY <1>1, <1>2, <1>3, PTL DEF Spec

-----------------------------------------------------------------------------
(* Validation. From the end of the validate hook to the start hook, either *)
(* the validation passed or its failure file is still there to be seen.    *)

Passed == verdict = "ok" \/ "validationFailure" \in files

ValidationInv ==
    /\ pc = "validate" /\ hook # "runs" => Passed
    /\ pc = "launch" /\ cfg \in Validated => Passed
    /\ pc = "start" /\ cfg \in Validated => verdict = "ok"

ValidationLabels == {"validate", "launch", "start"}

LEMMA ValidationElsewhere ==
    ASSUME pc' \notin ValidationLabels PROVE ValidationInv'
  BY DEF ValidationInv, ValidationLabels

LEMMA ValidationUndisturbed ==
    ASSUME ValidationInv, pc' = pc, hook' = hook, cfg' = cfg, verdict' = verdict,
           files \cap {"validationFailure"} \subseteq files'
    PROVE  ValidationInv'
  BY DEF ValidationInv, Passed

LEMMA ReturnElsewhere ==
    /\ Return \notin ValidationLabels
    /\ AfterConfigure \notin ValidationLabels
    /\ AfterStop \notin ValidationLabels
    /\ \A r : AfterInstall(r) \notin ValidationLabels
  BY DEF Return, AfterConfigure, AfterStop, AfterInstall, ValidationLabels

LEMMA ValidationSlotStep ==
    ASSUME "timeout" \notin happened', IndicatorInv, ValidationInv, SlotStep
    PROVE  ValidationInv'
  <1>1. CASE InstallSlot
    BY <1>1, ReturnElsewhere, ValidationElsewhere DEF InstallSlot, ValidationLabels, GoTo, Spawn
  <1>2. CASE InstallDone
    BY <1>2, ReturnElsewhere, ValidationElsewhere DEF InstallDone, ValidationLabels, Waited
  <1>3. CASE ConfigureSlot
    BY <1>3, ReturnElsewhere, ValidationElsewhere DEF ConfigureSlot, ValidationLabels, GoTo, Spawn
  <1>4. CASE ConfigureDone
    BY <1>4, ReturnElsewhere, ValidationElsewhere DEF ConfigureDone, ValidationLabels, Waited
  <1>5. CASE ReConfigureSlot
    BY <1>5, ReturnElsewhere, ValidationElsewhere DEF ReConfigureSlot, ValidationLabels, GoTo
  <1>6. CASE ReloadSlot
    BY <1>6, ReturnElsewhere, ValidationElsewhere DEF ReloadSlot, ValidationLabels, GoTo, Spawn
  <1>7. CASE ReloadDone
    BY <1>7, ReturnElsewhere, ValidationElsewhere DEF ReloadDone, ValidationLabels, Waited
  <1>8. CASE StartSlot
    BY <1>8, ReturnElsewhere, ValidationElsewhere DEF StartSlot, ValidationLabels, GoTo
  <1>9. CASE StartDone
    BY <1>9, ReturnElsewhere, ValidationElsewhere DEF StartDone, ValidationLabels, Waited
  <1>10. CASE AfterStartSlot
    BY <1>10, ReturnElsewhere, ValidationElsewhere DEF AfterStartSlot, ValidationLabels, GoTo, Spawn
  <1>11. CASE AfterStartDone
    BY <1>11, ReturnElsewhere, ValidationElsewhere DEF AfterStartDone, ValidationLabels, Waited
  <1>12. CASE StopSlot
    BY <1>12, ReturnElsewhere, ValidationElsewhere DEF StopSlot, ValidationLabels, GoTo, Spawn
  <1>13. CASE StopDone
    BY <1>13, ReturnElsewhere, ValidationElsewhere DEF StopDone, ValidationLabels, Waited
  <1>14. CASE AfterStopSlot
    BY <1>14, ReturnElsewhere, ValidationElsewhere DEF AfterStopSlot, ValidationLabels, GoTo, Spawn
  <1>15. CASE AfterStopDone
    BY <1>15, ReturnElsewhere, ValidationElsewhere DEF AfterStopDone, ValidationLabels, Waited
  <1>16. CASE RestartSlot
    BY <1>16, ReturnElsewhere, ValidationElsewhere DEF RestartSlot, ValidationLabels, GoTo
  <1>17. CASE Exit
    BY <1>17, ReturnElsewhere, ValidationElsewhere DEF Exit, ValidationLabels, Gone
  <1>18. CASE Resume
    BY <1>18, ReturnElsewhere, ValidationElsewhere DEF Resume, ValidationLabels, GoTo
  <1>19. CASE ValidateSlot
    <2>1. CASE cfg' \notin Validated
      BY <1>19, <2>1, ReturnElsewhere, ValidationElsewhere
         DEF ValidateSlot, GoTo, AfterValidate, ValidationInv, ValidationLabels
    <2>2. CASE cfg' \in Validated
      BY <1>19, <2>2 DEF ValidateSlot, IndicatorInv, Spawn, ValidationInv
    <2> QED
      BY <2>1, <2>2
  <1>20. CASE ValidateDone
    <2>1. hook # "runs"
      BY <1>20 DEF ValidateDone, Waited, Event, Rough
    <2>2. Passed'
      BY <1>20, <2>1 DEF ValidateDone, Waited, ValidationInv, Passed, history, events
    <2>3. pc' \notin {"validate", "start"}
      BY <1>20 DEF ValidateDone, Waited, AfterValidate, Return
    <2> QED
      BY <2>2, <2>3 DEF ValidationInv
  <1>21. CASE Launch
    BY <1>21, ReturnElsewhere
       DEF Launch, GoTo, Spawn, ValidationInv, ValidationLabels, Passed, config, history, events
  <1> QED
    BY <1>1, <1>2, <1>3, <1>4, <1>5, <1>6, <1>7, <1>8, <1>9, <1>10, <1>11, <1>12, <1>13, <1>14, <1>15, <1>16, <1>17, <1>18, <1>19, <1>20, <1>21
       DEF SlotStep

LEMMA ValidationOtherStep ==
    ASSUME happened' \cap {"kill", "reset"} = {}, TypeOK, IndicatorInv, ValidationInv,
           LoopStep \/ Outside
    PROVE  ValidationInv'
  <1>1. CASE LoopStep
    <2>1. pc' \notin ValidationLabels
      <3>1. CASE DirChangedSlot
        <4>1. PICK t \in triggers : UNCHANGED pc \/ Obey(t)
          BY <1>1, <3>1 DEF DirChangedSlot
        <4>2. t \in TriggerNames
          BY <4>1 DEF TypeOK
        <4> QED
          BY <3>1, <4>1, <4>2, ObeyEnters DEF DirChangedSlot, AtLoop, ValidationLabels, Slots
      <3>2. CASE BabySitterSlot
        BY <3>2 DEF BabySitterSlot, AtLoop, Call, ValidationLabels
      <3>3. CASE CronSitterSlot
        BY <3>3 DEF CronSitterSlot, AtLoop, ValidationLabels
      <3>4. CASE FinishedSlot
        BY <3>4 DEF FinishedSlot, AtLoop, Call, ValidationLabels
      <3>5. CASE CheckUserControlTriggers
        BY <3>5 DEF CheckUserControlTriggers, AtLoop, Call, Gone, ValidationLabels
      <3> QED
        BY <1>1, <3>1, <3>2, <3>3, <3>4, <3>5 DEF LoopStep
    <2> QED
      BY <2>1, ValidationElsewhere
  <1>2. CASE HookEnds
    <2>1. PICK ok \in BOOLEAN :
            /\ files' = IF pc = "validate" /\ ~ok THEN files \cup {"validationFailure"} ELSE files
            /\ verdict' = CASE pc = "validate" /\ ok -> "ok"
                            [] pc = "validate" /\ ~ok -> "failed"
                            [] OTHER -> verdict
      BY <1>2 DEF HookEnds, HookEffect
    <2>2. UNCHANGED <<pc, cfg>>
      BY <1>2 DEF HookEnds, config
    <2>3. CASE pc = "validate"
      BY <2>1, <2>2, <2>3 DEF ValidationInv, Passed
    <2>4. CASE pc # "validate"
      BY <2>1, <2>2, <2>4 DEF ValidationInv, Passed
    <2> QED
      BY <2>3, <2>4
  <1>3. ASSUME NEW h \in Hooks, LateHookEnds(h) PROVE ValidationInv'
    <2>1. files \subseteq files'
      BY <1>3 DEF LateHookEnds, HookEffect
    <2> QED
      BY <1>3, <2>1, ValidationUndisturbed DEF LateHookEnds, config, history, events
  <1>4. ASSUME NEW t, Touch(t) PROVE ValidationInv'
    BY <1>4, ValidationUndisturbed DEF Touch, memory, history, events
  <1>5. ASSUME NEW f, TouchControl(f) PROVE ValidationInv'
    BY <1>5, ValidationUndisturbed DEF TouchControl, memory, config, history, events
  <1>6. ASSUME NEW contents, EditIgniter(contents) PROVE ValidationInv'
    BY <1>6, ValidationUndisturbed DEF EditIgniter, memory, history, events
  <1>7. ASSUME NEW p, ProcessDies(p) PROVE ValidationInv'
    BY <1>7, ValidationUndisturbed DEF ProcessDies, memory, config, history, events
  <1>8. ASSUME NEW r, DamagePidFile(r) PROVE ValidationInv'
    BY <1>8, ValidationUndisturbed DEF DamagePidFile, memory, config, history, events
  <1>9. CASE DiskChanges
    BY <1>9, ValidationUndisturbed DEF DiskChanges, memory, config, history, events
  <1>10. CASE Deploying
    <2>1. files \cap {"validationFailure"} \subseteq files'
      BY <1>10 DEF Deploying
    <2> QED
      BY <1>10, <2>1, ValidationUndisturbed DEF Deploying, memory, config, history, events
  <1>11. CASE PanelReset \/ Killed
    BY <1>11 DEF PanelReset, Killed, Event, Rough
  <1>12. CASE Boot
    BY <1>12, ValidationElsewhere DEF Boot, ValidationLabels
  <1> QED
    BY <1>1, <1>2, <1>3, <1>4, <1>5, <1>6, <1>7, <1>8, <1>9, <1>10, <1>11, <1>12
       DEF Outside

(* As long as no hook outlives its wait, svdss is not killed and the panel *)
(* does not remove the failure file, nothing unvalidated is launched       *)
(* (service.cc:727-736).                                                   *)
THEOREM ValidationCorrect == Spec => []LaunchIsValidated
  <1> DEFINE Inv == Never({"kill", "timeout", "reset"}) => IndicatorInv /\ ValidationInv
  <1>1. Init => Inv
    BY DEF Init, IndicatorInv, ValidationInv
  <1>2. TypeOK /\ Inv /\ [Next]_vars => Inv'
    <2> SUFFICES ASSUME TypeOK, Inv, [Next]_vars, Never({"kill", "timeout", "reset"})'
                 PROVE  IndicatorInv' /\ ValidationInv'
      OBVIOUS
    <2>1. /\ happened' \cap {"kill", "reset"} = {}
          /\ "timeout" \notin happened' /\ "kill" \notin happened'
          /\ IndicatorInv /\ ValidationInv
      BY HappenedGrows DEF Never
    <2>2. CASE UNCHANGED vars
      BY <2>1, <2>2
         DEF vars, memory, config, history, events, IndicatorInv, ValidationInv, Passed
    <2>3. CASE Next
      BY <2>1, <2>3, IndicatorSlotStep, IndicatorOtherStep, ValidationSlotStep,
         ValidationOtherStep DEF Next
    <2> QED
      BY <2>2, <2>3
  <1>3. Inv => LaunchIsValidated
    BY DEF ValidationInv, LaunchIsValidated
  <1> HIDE DEF Inv
  <1> QED
    BY <1>1, <1>2, <1>3, TypeCorrect, PTL DEF Spec

-----------------------------------------------------------------------------
(* Instances. That two processes never live together rests on a chain of   *)
(* facts: a start is only under way without .running, .running is there    *)
(* for every live process, the process a stop leaves behind is the one in  *)
(* the pid file, and no hook of an earlier slot is still at work.          *)

StartChain == {"installSlot", "install", "configureSlot", "configure",
               "validateSlot", "validate"}
StopChain == {"stopSlot", "stop", "afterStopSlot", "afterStop"}

InstanceInv ==
    /\ igniter = cfg
    /\ "afterStop" \notin triggers
    /\ hook = "runs" => pc \in Hooks
    /\ \A h \in Hooks : late[h] = "no"
    /\ goal = "exit" => pc \in StopChain
    /\ pc \in StartChain /\ InStart => "running" \notin files
    /\ pc = "reConfigureSlot" => ~InStart
    /\ pc \in {"launch", "start", "exit"} => "running" \notin files
    /\ pc \in {"afterStopSlot", "afterStop"} => alive = {}
    /\ alive # {} => "running" \in files \/ (pc = "start" /\ hook # "runs")
    /\ alive \subseteq {pidFile[cfg]}

LEMMA InstanceImplies ==
    (Calm => InstanceInv) => OneInstance /\ LiveIsMarked /\ GracefulExitStops
  BY DEF InstanceInv, OneInstance, LiveIsMarked, GracefulExitStops, AtLoop

LEMMA InstanceLoads ==
    ASSUME TypeOK, InstanceInv, LoadServiceConfig
    PROVE  cfg' = cfg /\ igniter' = cfg /\ "afterStop" \notin triggers'
  BY ConstantsAssumption DEF TypeOK, InstanceInv, LoadServiceConfig

LEMMA InstanceReaped ==
    ASSUME \A h \in Hooks : late[h] = "no", NEW l
    PROVE  \A h \in Hooks : Reaped(l, late)[h] = "no"
  BY DEF Reaped

LEMMA InstanceSlotStep ==
    ASSUME Calm', TypeOK, IndicatorInv, InstanceInv, SlotStep PROVE InstanceInv'
  <1>1. CASE InstallSlot
    BY <1>1, InstanceReaped, InstanceLoads
       DEF InstallSlot, InstanceInv, InStart, Return, GoalAt, StartChain, StopChain, Hooks, outside, AfterInstall, GoTo, Spawn
  <1>2. CASE InstallDone
    BY <1>2, InstanceReaped
       DEF InstallDone, InstanceInv, InStart, Return, GoalAt, StartChain, StopChain, Hooks, outside, AfterInstall, Waited, Event, Calm, Never, Rough, config
  <1>3. CASE ConfigureSlot
    BY <1>3, InstanceReaped, InstanceLoads
       DEF ConfigureSlot, InstanceInv, InStart, Return, GoalAt, StartChain, StopChain, Hooks, outside, AfterConfigure, GoTo, Spawn
  <1>4. CASE ConfigureDone
    BY <1>4, InstanceReaped
       DEF ConfigureDone, InstanceInv, InStart, Return, GoalAt, StartChain, StopChain, Hooks, outside, AfterConfigure, Waited, Event, Calm, Never, Rough, config
  <1>5. CASE ReConfigureSlot
    BY <1>5, InstanceReaped, InstanceLoads
       DEF ReConfigureSlot, InstanceInv, InStart, Return, GoalAt, StartChain, StopChain, Hooks, outside, GoTo
  <1>6. CASE ValidateSlot
    BY <1>6, InstanceReaped, InstanceLoads
       DEF ValidateSlot, InstanceInv, InStart, Return, GoalAt, StartChain, StopChain, Hooks, outside, AfterValidate, GoTo, Spawn
  <1>7. CASE ValidateDone
    BY <1>7, InstanceReaped
       DEF ValidateDone, InstanceInv, InStart, Return, GoalAt, StartChain, StopChain, Hooks, outside, AfterValidate, Waited, Event, Calm, Never, Rough, config
  <1>8. CASE ReloadSlot
    BY <1>8, InstanceReaped, InstanceLoads
       DEF ReloadSlot, InstanceInv, InStart, Return, GoalAt, StartChain, StopChain, Hooks, outside, GoTo, Spawn
  <1>9. CASE ReloadDone
    BY <1>9, InstanceReaped
       DEF ReloadDone, InstanceInv, InStart, Return, GoalAt, StartChain, StopChain, Hooks, outside, Waited, Event, Calm, Never, Rough, config
  <1>10. CASE StartSlot
    BY <1>10, InstanceReaped, InstanceLoads
       DEF StartSlot, InstanceInv, InStart, Return, GoalAt, StartChain, StopChain, Hooks, outside, GoTo
  <1>11. CASE Launch
    BY <1>11, InstanceReaped
       DEF Launch, InstanceInv, InStart, Return, GoalAt, StartChain, StopChain, Hooks, outside, GoTo, config, Spawn
  <1>12. CASE StartDone
    BY <1>12, InstanceReaped
       DEF StartDone, InstanceInv, InStart, Return, GoalAt, StartChain, StopChain, Hooks, outside, Waited, Event, Calm, Never, Rough, config
  <1>13. CASE AfterStartSlot
    BY <1>13, InstanceReaped, InstanceLoads
       DEF AfterStartSlot, InstanceInv, InStart, Return, GoalAt, StartChain, StopChain, Hooks, outside, GoTo, Spawn
  <1>14. CASE AfterStartDone
    BY <1>14, InstanceReaped
       DEF AfterStartDone, InstanceInv, InStart, Return, GoalAt, StartChain, StopChain, Hooks, outside, Waited, Event, Calm, Never, Rough, config
  <1>15. CASE StopSlot
    BY <1>15, InstanceReaped, InstanceLoads
       DEF StopSlot, InstanceInv, InStart, Return, GoalAt, StartChain, StopChain, Hooks, outside, AfterStop, GoTo, Spawn
  <1>16. CASE StopDone
    BY <1>16, InstanceReaped
       DEF StopDone, InstanceInv, InStart, Return, GoalAt, StartChain, StopChain, Hooks, outside, DeathWatched, Waited, Event, Calm, Never, Rough, config, TypeOK
  <1>17. CASE AfterStopSlot
    BY <1>17, InstanceReaped, InstanceLoads
       DEF AfterStopSlot, InstanceInv, InStart, Return, GoalAt, StartChain, StopChain, Hooks, outside, AfterStop, GoTo, Spawn, IndicatorInv
  <1>18. CASE AfterStopDone
    BY <1>18, InstanceReaped
       DEF AfterStopDone, InstanceInv, InStart, Return, GoalAt, StartChain, StopChain, Hooks, outside, AfterStop, Waited, Event, Calm, Never, Rough, config
  <1>19. CASE RestartSlot
    BY <1>19, InstanceReaped
       DEF RestartSlot, InstanceInv, InStart, Return, GoalAt, StartChain, StopChain, Hooks, outside, GoTo, config
  <1>20. CASE Exit
    BY <1>20 DEF Exit, Gone, InstanceInv, InStart, StartChain, StopChain, Hooks, config, outside
  <1>21. CASE Resume
    BY <1>21, InstanceReaped
       DEF Resume, InstanceInv, InStart, Return, GoalAt, StartChain, StopChain, Hooks, outside, GoTo, config
  <1> QED
    BY <1>1, <1>2, <1>3, <1>4, <1>5, <1>6, <1>7, <1>8, <1>9, <1>10, <1>11, <1>12, <1>13, <1>14, <1>15, <1>16, <1>17, <1>18, <1>19, <1>20, <1>21
       DEF SlotStep

LEMMA InstanceLoopStep ==
    ASSUME TypeOK, InstanceInv, LoopStep PROVE InstanceInv'
  <1>0. pc = "idle" /\ up
    BY DEF LoopStep, DirChangedSlot, BabySitterSlot, CronSitterSlot, FinishedSlot,
           CheckUserControlTriggers, AtLoop
  <1>1. ASSUME NEW l \in Slots \ {"launch"}, NEW g \in Goals, Call(l, g),
               g = "exit" => l = "stopSlot",
               l \in {"installSlot", "configureSlot", "validateSlot"} => g = "none",
               l = "reConfigureSlot" => g = "reConfigure",
               l # "afterStopSlot",
               igniter' = cfg', cfg' = cfg, "afterStop" \notin triggers',
               UNCHANGED <<alive, files>>, alive \subseteq {pidFile'[cfg]}
        PROVE  InstanceInv'
    BY <1>0, <1>1 DEF Call, InstanceInv, InStart, StartChain, StopChain, Slots, Hooks
  <1>2. CASE DirChangedSlot
    <2>1. PICK t \in triggers : /\ triggers' = triggers \ {t}
                                /\ UNCHANGED <<pc, goal, hook, late>> \/ Obey(t)
      BY <1>2 DEF DirChangedSlot
    <2>2. t \in TriggerNames \ {"afterStop"}
      BY <2>1 DEF TypeOK, InstanceInv
    <2>3. UNCHANGED <<cfg, igniter, alive, files, pidFile>>
      BY <1>2 DEF DirChangedSlot, outside
    <2>4. CASE UNCHANGED <<pc, goal, hook, late>>
      BY <2>1, <2>3, <2>4 DEF InstanceInv, InStart
    <2>5. CASE Obey(t)
      <3>1. \/ Call("startSlot", "start") \/ Call("restartSlot", "restart")
            \/ Call("reConfigureSlot", "reConfigure")
            \/ \E l \in {"stopSlot", "configureSlot", "validateSlot", "reloadSlot",
                        "installSlot", "afterStartSlot"} : Call(l, "none")
        BY <2>2, <2>5 DEF Obey, TriggerNames, StartTriggers, StopTriggers,
                          RestartTriggers, ReConfigureTriggers
      <3>2. cfg' = cfg /\ igniter' = cfg' /\ "afterStop" \notin triggers'
            /\ alive \subseteq {pidFile'[cfg]}
        BY <2>1, <2>3 DEF InstanceInv
      <3>3. CASE Call("startSlot", "start") \/ Call("restartSlot", "restart")
        BY <1>1, <2>3, <3>2, <3>3 DEF Slots, Goals
      <3>4. CASE Call("reConfigureSlot", "reConfigure")
        BY <1>1, <2>3, <3>2, <3>4 DEF Slots, Goals
      <3>5. CASE \E l \in {"stopSlot", "configureSlot", "validateSlot", "reloadSlot",
                           "installSlot", "afterStartSlot"} : Call(l, "none")
        BY <1>1, <2>3, <3>2, <3>5 DEF Slots, Goals
      <3> QED
        BY <3>1, <3>3, <3>4, <3>5
    <2> QED
      BY <2>1, <2>4, <2>5
  <1>3. CASE BabySitterSlot
    <2>1. cfg' = cfg /\ igniter' = cfg /\ "afterStop" \notin triggers'
      BY <1>3, InstanceLoads DEF BabySitterSlot
    <2>2. alive \subseteq {pidFile'[cfg]}
      <3>1. CASE pidFile' = pidFile
        BY <3>1 DEF InstanceInv
      <3>2. CASE pidFile' # pidFile
        <4>1. pidFile[cfg] = BadPid
          BY <1>3, <2>1, <3>2 DEF BabySitterSlot, TypeOK
        <4> QED
          BY <4>1, ConstantsAssumption DEF InstanceInv, TypeOK
      <3> QED
        BY <3>1, <3>2
    <2>3. UNCHANGED <<alive, files>>
      BY <1>3 DEF BabySitterSlot
    <2>4. CASE UNCHANGED <<pc, goal, hook, late>>
      BY <1>0, <2>1, <2>2, <2>3, <2>4 DEF InstanceInv, InStart
    <2>5. CASE Call("restartSlot", "restart")
      BY <1>1, <2>1, <2>2, <2>3, <2>5 DEF Slots, Goals
    <2> QED
      BY <1>3, <2>4, <2>5 DEF BabySitterSlot
  <1>4. CASE CronSitterSlot
    BY <1>4, InstanceLoads DEF CronSitterSlot, outside, InstanceInv, InStart
  <1>5. CASE FinishedSlot
    <2>1. UNCHANGED <<cfg, igniter, triggers, alive, files, pidFile>>
      BY <1>5 DEF FinishedSlot, config, outside
    <2>2. CASE UNCHANGED <<pc, goal, hook, late>>
      BY <2>1, <2>2 DEF InstanceInv, InStart
    <2>3. CASE Call("restartSlot", "restart")
      BY <1>1, <2>1, <2>3 DEF InstanceInv, Slots, Goals
    <2> QED
      BY <1>5, <2>2, <2>3 DEF FinishedSlot
  <1>6. CASE CheckUserControlTriggers
    <2>1. UNCHANGED <<cfg, igniter, triggers, alive, files, pidFile>>
      BY <1>6 DEF CheckUserControlTriggers, config
    <2>2. CASE Gone
      BY <1>0, <2>1, <2>2 DEF Gone, InstanceInv, InStart, Hooks, StartChain
    <2>3. CASE Call("stopSlot", "exit")
      BY <1>1, <2>1, <2>3 DEF InstanceInv, Slots, Goals
    <2> QED
      BY <1>6, <2>2, <2>3 DEF CheckUserControlTriggers
  <1> QED
    BY <1>2, <1>3, <1>4, <1>5, <1>6 DEF LoopStep

LEMMA InstanceOutside ==
    ASSUME Calm', TypeOK, IndicatorInv, InstanceInv, Outside PROVE InstanceInv'
  <1>1. CASE HookEnds
    <2>1. PICK ok \in BOOLEAN : HookEffect(pc, cfg, ok)
      BY <1>1 DEF HookEnds
    <2>2. /\ hook = "runs" /\ hook' \in {"ok", "failed"}
          /\ UNCHANGED <<pc, goal, late, cfg, igniter, triggers>>
      BY <1>1 DEF HookEnds, config
    <2>3. "running" \in files' <=> "running" \in files
      BY <2>1 DEF HookEffect
    <2>4. CASE pc = "start" /\ ok
      <3>1. alive = {}
        BY <2>2, <2>4 DEF InstanceInv
      <3>2. PICK p \in Pids : alive' = alive \cup {p} /\ pidFile' = [pidFile EXCEPT ![cfg] = p]
        BY <2>1, <2>4 DEF HookEffect
      <3>3. alive' \subseteq {pidFile'[cfg']}
        BY <2>2, <3>1, <3>2 DEF TypeOK
      <3> QED
        BY <2>2, <2>3, <2>4, <3>3 DEF InstanceInv, InStart
    <2>5. CASE ~(pc = "start" /\ ok)
      <3>1. alive' \subseteq alive /\ pidFile' = pidFile
        BY <2>1, <2>5 DEF HookEffect
      <3> QED
        BY <2>2, <2>3, <3>1 DEF InstanceInv, InStart
    <2> QED
      BY <2>4, <2>5
  <1>2. ASSUME NEW h \in Hooks PROVE ~LateHookEnds(h)
    BY DEF LateHookEnds, InstanceInv
  <1>3. ASSUME NEW t \in TriggerNames, Touch(t) PROVE InstanceInv'
    BY <1>3 DEF Touch, Event, memory, outside, InstanceInv, InStart, Calm, Never, Rough
  <1>4. ASSUME NEW f, TouchControl(f) PROVE InstanceInv'
    BY <1>4 DEF TouchControl, memory, config, InstanceInv, InStart
  <1>5. ASSUME NEW p, ProcessDies(p) PROVE InstanceInv'
    BY <1>5 DEF ProcessDies, memory, config, InstanceInv, InStart
  <1>6. CASE DiskChanges
    BY <1>6 DEF DiskChanges, memory, config, InstanceInv, InStart
  <1>7. CASE Deploying
    <2>1. "running" \in files' <=> "running" \in files
      BY <1>7 DEF Deploying
    <2> QED
      BY <1>7, <2>1 DEF Deploying, memory, config, outside, InstanceInv, InStart
  <1>8. CASE Boot
    BY <1>8 DEF Boot, outside, IndicatorInv, InstanceInv, InStart, StartChain, StopChain, Hooks
  <1>9. /\ \A contents : ~EditIgniter(contents)
        /\ \A r : ~DamagePidFile(r)
        /\ ~PanelReset /\ ~Killed
    BY DEF EditIgniter, DamagePidFile, PanelReset, Killed, Event, Calm, Never, Rough
  <1> QED
    BY <1>1, <1>2, <1>3, <1>4, <1>5, <1>6, <1>7, <1>8, <1>9 DEF Outside

(* One process at a time, marked running while it lives, and none left     *)
(* after a graceful shutdown: for every schedule of triggers, failing      *)
(* hooks, http answers, deaths, full disks and restarts of svdss by its    *)
(* control files, as long as it is calm (service.cc:638-1007).             *)
THEOREM InstancesCorrect == Spec => [](OneInstance /\ LiveIsMarked /\ GracefulExitStops)
  <1> DEFINE Inv == Calm => IndicatorInv /\ InstanceInv
  <1>1. Init => Inv
    BY DEF Init, IndicatorInv, InstanceInv, InStart, StartChain
  <1>2. TypeOK /\ Inv /\ [Next]_vars => Inv'
    <2> SUFFICES ASSUME TypeOK, Inv, [Next]_vars, Calm' PROVE IndicatorInv' /\ InstanceInv'
      OBVIOUS
    <2>1. "kill" \notin happened' /\ IndicatorInv /\ InstanceInv
      BY HappenedGrows DEF Calm, Never
    <2>2. CASE UNCHANGED vars
      BY <2>1, <2>2 DEF vars, memory, config, outside, IndicatorInv, InstanceInv, InStart
    <2>3. CASE Next
      BY <2>1, <2>3, IndicatorSlotStep, IndicatorOtherStep, InstanceSlotStep,
         InstanceLoopStep, InstanceOutside DEF Next
    <2> QED
      BY <2>2, <2>3
  <1>3. Inv => OneInstance /\ LiveIsMarked /\ GracefulExitStops
    BY InstanceImplies
  <1> HIDE DEF Inv
  <1> QED
    BY <1>1, <1>2, <1>3, TypeCorrect, PTL DEF Spec

(* A live process is marked running whenever svdss is back at its loop:    *)
(* what a start or a stop trusts (service.cc:656, :882).                   *)
THEOREM LiveMarkedCorrect == Spec => []LiveIsMarked
  BY InstancesCorrect, PTL

(* svdss leaves a graceful shutdown with the service stopped               *)
(* (user_watcher.cc:223-228).                                              *)
THEOREM GracefulExitCorrect == Spec => []GracefulExitStops
  BY InstancesCorrect, PTL
-----------------------------------------------------------------------------
(* What is wanted. A service is marked running, or about to be launched,   *)
(* only while the last request that was obeyed asked for that.             *)
Launching == {"startSlot", "launch", "start", "afterStartSlot", "afterStart"}

WantedInv ==
    /\ ~httpPending
    /\ "afterStart" \notin triggers
    /\ goal \in {"start", "boot", "restart", "reConfigure"} => intent = "up"
    /\ pc \in Launching => InStart
    /\ pc = "restartSlot" => goal = "restart"
    /\ pc = "reConfigureSlot" => goal = "reConfigure"
    /\ "running" \in files => intent = "up" \/ pc \in StopChain

LEMMA WantedLoads ==
    ASSUME WantedInv, LoadServiceConfig PROVE "afterStart" \notin triggers'
  BY DEF WantedInv, LoadServiceConfig

LEMMA WantedSlotStep ==
    ASSUME TypeOK, IndicatorInv, WantedInv, SlotStep PROVE WantedInv'
  <1>1. CASE InstallSlot
    BY <1>1, WantedLoads
       DEF InstallSlot, AfterInstall, GoTo, Spawn, WantedInv, InStart, Return, GoalAt, Launching,
           StopChain, Hooks, unwatched, config, history
  <1>2. CASE InstallDone
    BY <1>2
       DEF InstallDone, AfterInstall, Waited, WantedInv, InStart, Return, GoalAt, Launching,
           StopChain, Hooks, unwatched, config, history
  <1>3. CASE ConfigureSlot
    BY <1>3, WantedLoads
       DEF ConfigureSlot, AfterConfigure, GoTo, Spawn, IndicatorInv, WantedInv, InStart, Return, GoalAt, Launching,
           StopChain, Hooks, unwatched, config, history
  <1>4. CASE ConfigureDone
    BY <1>4
       DEF ConfigureDone, AfterConfigure, Waited, WantedInv, InStart, Return, GoalAt, Launching,
           StopChain, Hooks, unwatched, config, history
  <1>5. CASE ReConfigureSlot
    BY <1>5, WantedLoads
       DEF ReConfigureSlot, GoTo, WantedInv, InStart, Return, GoalAt, Launching,
           StopChain, Hooks, unwatched, config, history
  <1>6. CASE ValidateSlot
    BY <1>6, WantedLoads
       DEF ValidateSlot, AfterValidate, GoTo, Spawn, WantedInv, InStart, Return, GoalAt, Launching,
           StopChain, Hooks, unwatched, config, history
  <1>7. CASE ValidateDone
    BY <1>7
       DEF ValidateDone, AfterValidate, Waited, WantedInv, InStart, Return, GoalAt, Launching,
           StopChain, Hooks, unwatched, config, history
  <1>8. CASE ReloadSlot
    BY <1>8, WantedLoads
       DEF ReloadSlot, GoTo, Spawn, WantedInv, InStart, Return, GoalAt, Launching,
           StopChain, Hooks, unwatched, config, history
  <1>9. CASE ReloadDone
    BY <1>9
       DEF ReloadDone, Waited, WantedInv, InStart, Return, GoalAt, Launching,
           StopChain, Hooks, unwatched, config, history
  <1>10. CASE StartSlot
    BY <1>10, WantedLoads
       DEF StartSlot, GoTo, WantedInv, InStart, Return, GoalAt, Launching,
           StopChain, Hooks, unwatched, config, history
  <1>11. CASE Launch
    BY <1>11
       DEF Launch, GoTo, Spawn, WantedInv, InStart, Return, GoalAt, Launching,
           StopChain, Hooks, unwatched, config, history
  <1>12. CASE StartDone
    BY <1>12
       DEF StartDone, Waited, WantedInv, InStart, Return, GoalAt, Launching,
           StopChain, Hooks, unwatched, config, history
  <1>13. CASE AfterStartSlot
    BY <1>13, WantedLoads
       DEF AfterStartSlot, GoTo, Spawn, WantedInv, InStart, Return, GoalAt, Launching,
           StopChain, Hooks, unwatched, config, history
  <1>14. CASE AfterStartDone
    BY <1>14
       DEF AfterStartDone, Waited, WantedInv, InStart, Return, GoalAt, Launching,
           StopChain, Hooks, unwatched, config, history
  <1>15. CASE StopSlot
    BY <1>15, WantedLoads
       DEF StopSlot, AfterStop, GoTo, Spawn, WantedInv, InStart, Return, GoalAt, Launching,
           StopChain, Hooks, unwatched, config, history
  <1>16. CASE StopDone
    BY <1>16
       DEF StopDone, Waited, WantedInv, InStart, Return, GoalAt, Launching,
           StopChain, Hooks, unwatched, config, history
  <1>17. CASE AfterStopSlot
    BY <1>17, WantedLoads
       DEF AfterStopSlot, AfterStop, GoTo, Spawn, IndicatorInv, WantedInv, InStart, Return, GoalAt, Launching,
           StopChain, Hooks, unwatched, config, history
  <1>18. CASE AfterStopDone
    BY <1>18
       DEF AfterStopDone, AfterStop, Waited, WantedInv, InStart, Return, GoalAt, Launching,
           StopChain, Hooks, unwatched, config, history
  <1>19. CASE RestartSlot
    BY <1>19
       DEF RestartSlot, GoTo, WantedInv, InStart, Return, GoalAt, Launching,
           StopChain, Hooks, unwatched, config, history
  <1>20. CASE Exit
    BY <1>20
       DEF Exit, Gone, WantedInv, InStart, Return, GoalAt, Launching,
           StopChain, Hooks, unwatched, config, history
  <1>21. CASE Resume
    BY <1>21
       DEF Resume, GoTo, WantedInv, InStart, Return, GoalAt, Launching,
           StopChain, Hooks, unwatched, config, history
  <1> QED
    BY <1>1, <1>2, <1>3, <1>4, <1>5, <1>6, <1>7, <1>8, <1>9, <1>10, <1>11, <1>12, <1>13, <1>14, <1>15, <1>16, <1>17, <1>18, <1>19, <1>20, <1>21
       DEF SlotStep

LEMMA WantedLoopStep ==
    ASSUME ~WatchHttp, TypeOK, WantedInv, LoopStep PROVE WantedInv'
  <1>0. pc = "idle" /\ up
    BY DEF LoopStep, DirChangedSlot, BabySitterSlot, CronSitterSlot, FinishedSlot,
           CheckUserControlTriggers, AtLoop
  <1>1. CASE DirChangedSlot
    <2>1. PICK t \in triggers :
            /\ triggers' = triggers \ {t}
            /\ \/ UNCHANGED <<pc, goal, hook, late, intent>>
               \/ /\ Obey(t)
                  /\ intent' = CASE t \in StartTriggers \cup RestartTriggers
                                         \cup ReConfigureTriggers -> "up"
                                [] t \in StopTriggers -> "down"
                                [] OTHER -> intent
      BY <1>1 DEF DirChangedSlot
    <2>2. t \in TriggerNames \ {"afterStart"}
      BY <2>1 DEF TypeOK, WantedInv
    <2>3. UNCHANGED <<httpPending, files>>
      BY <1>1 DEF DirChangedSlot, unwatched
    <2>4. CASE UNCHANGED <<pc, goal, hook, late, intent>>
      BY <2>1, <2>3, <2>4 DEF WantedInv, InStart
    <2>5. CASE Obey(t) /\ intent' = "up"
      <3>1. \/ Call("startSlot", "start") \/ Call("restartSlot", "restart")
            \/ Call("reConfigureSlot", "reConfigure")
            \/ \E l \in {"stopSlot", "configureSlot", "validateSlot", "reloadSlot",
                        "installSlot", "afterStopSlot"} : Call(l, "none")
        BY <2>2, <2>5 DEF Obey, TriggerNames, StartTriggers, StopTriggers,
                          RestartTriggers, ReConfigureTriggers
      <3> QED
        BY <2>1, <2>3, <2>5, <3>1 DEF Call, WantedInv, InStart, Launching
    <2>6. CASE Obey(t) /\ t \in StopTriggers
      <3>1. Call("stopSlot", "none")
        BY <2>6 DEF Obey, StartTriggers, StopTriggers, RestartTriggers, ReConfigureTriggers
      <3> QED
        BY <2>1, <2>3, <3>1 DEF Call, WantedInv, InStart, Launching, StopChain
    <2>7. CASE /\ Obey(t) /\ intent' = intent
               /\ t \notin StartTriggers \cup RestartTriggers \cup ReConfigureTriggers
      <3>1. \E l \in {"stopSlot", "configureSlot", "validateSlot", "reloadSlot",
                     "installSlot", "afterStopSlot"} : Call(l, "none")
        BY <2>2, <2>7 DEF Obey, TriggerNames, StartTriggers, StopTriggers,
                          RestartTriggers, ReConfigureTriggers
      <3> QED
        BY <1>0, <2>1, <2>3, <2>7, <3>1 DEF Call, WantedInv, InStart, Launching, StopChain
    <2> QED
      BY <2>1, <2>4, <2>5, <2>6, <2>7
  <1>2. CASE BabySitterSlot
    <2>1. "afterStart" \notin triggers' /\ ~httpPending' /\ UNCHANGED <<files, intent>>
      <3>1. httpPending' = httpPending \/ httpPending' = (httpPending \/ WatchHttp)
        BY <1>2 DEF BabySitterSlot
      <3>2. ~httpPending /\ ~WatchHttp
        BY DEF WantedInv
      <3>3. ~httpPending'
        BY <3>1, <3>2, Zenon
      <3> QED
        BY <1>2, <3>3, WantedLoads DEF BabySitterSlot, history
    <2>2. CASE UNCHANGED <<pc, goal>>
      BY <2>1, <2>2 DEF WantedInv, InStart
    <2>3. CASE Call("restartSlot", "restart") /\ "running" \in files
      BY <1>0, <2>1, <2>3 DEF Call, WantedInv, InStart, Launching, StopChain
    <2> QED
      BY <1>2, <2>2, <2>3 DEF BabySitterSlot
  <1>3. CASE CronSitterSlot
    BY <1>3, WantedLoads DEF CronSitterSlot, history, WantedInv, InStart
  <1>4. ~FinishedSlot
    BY DEF FinishedSlot, WantedInv
  <1>5. CASE CheckUserControlTriggers
    <2>1. UNCHANGED <<triggers, files, intent>>
      BY <1>5 DEF CheckUserControlTriggers, config, history
    <2>2. CASE Gone
      BY <1>0, <2>1, <2>2 DEF Gone, WantedInv, Launching, StopChain
    <2>3. CASE Call("stopSlot", "exit") /\ UNCHANGED httpPending
      BY <2>1, <2>3 DEF Call, WantedInv, Launching, StopChain
    <2> QED
      BY <1>5, <2>2, <2>3 DEF CheckUserControlTriggers, unwatched
  <1> QED
    BY <1>1, <1>2, <1>3, <1>4, <1>5 DEF LoopStep

LEMMA WantedOutside ==
    ASSUME happened' \cap {"kill", "afterStart"} = {}, TypeOK, IndicatorInv, WantedInv, Outside
    PROVE  WantedInv'
  <1>1. CASE HookEnds
    <2>1. "running" \in files' <=> "running" \in files
      BY <1>1 DEF HookEnds, HookEffect
    <2> QED
      BY <1>1, <2>1 DEF HookEnds, config, WantedInv, InStart
  <1>2. ASSUME NEW h \in Hooks, LateHookEnds(h) PROVE WantedInv'
    <2>1. "running" \in files' <=> "running" \in files
      BY <1>2 DEF LateHookEnds, HookEffect
    <2> QED
      BY <1>2, <2>1 DEF LateHookEnds, config, history, WantedInv, InStart
  <1>3. ASSUME NEW t \in TriggerNames, Touch(t) PROVE WantedInv'
    BY <1>3 DEF Touch, Event, Rough, memory, history, WantedInv, InStart
  <1>4. ASSUME NEW f, TouchControl(f) PROVE WantedInv'
    BY <1>4 DEF TouchControl, memory, config, history, WantedInv, InStart
  <1>5. ASSUME NEW contents, EditIgniter(contents) PROVE WantedInv'
    BY <1>5 DEF EditIgniter, memory, history, WantedInv, InStart
  <1>6. ASSUME NEW p, ProcessDies(p) PROVE WantedInv'
    BY <1>6 DEF ProcessDies, memory, config, history, WantedInv, InStart
  <1>7. ASSUME NEW r, DamagePidFile(r) PROVE WantedInv'
    BY <1>7 DEF DamagePidFile, memory, config, history, WantedInv, InStart
  <1>8. CASE DiskChanges \/ PanelReset
    BY <1>8 DEF DiskChanges, PanelReset, memory, config, history, WantedInv, InStart
  <1>9. CASE Deploying
    <2>1. "running" \in files' <=> "running" \in files
      BY <1>9 DEF Deploying
    <2> QED
      BY <1>9, <2>1 DEF Deploying, memory, config, history, WantedInv, InStart
  <1>10. ~Killed
    BY DEF Killed, Event, Rough
  <1>11. CASE Boot
    <2>1. pc = "idle"
      BY <1>11 DEF Boot, IndicatorInv
    <2> QED
      BY <1>11, <2>1 DEF Boot, outside, WantedInv, InStart, Launching, StopChain
  <1> QED
    BY <1>1, <1>2, <1>3, <1>4, <1>5, <1>6, <1>7, <1>8, <1>9, <1>10, <1>11 DEF Outside

(* Nothing launches a service that its user has stopped, in any schedule   *)
(* of triggers, dead processes, late hooks, edits, panel resets and        *)
(* shutdowns, as long as svdss is not killed, nobody touches .afterStart   *)
(* and no http answers are waited for (service.cc:258, :879).              *)
THEOREM WantedCorrect == Spec => []LaunchIsWanted
  <1> DEFINE Inv == Never({"kill", "afterStart"}) /\ ~WatchHttp => IndicatorInv /\ WantedInv
  <1>1. Init => Inv
    BY DEF Init, IndicatorInv, WantedInv, InStart, Launching
  <1>2. TypeOK /\ Inv /\ [Next]_vars => Inv'
    <2> SUFFICES ASSUME TypeOK, Inv, [Next]_vars, Never({"kill", "afterStart"})', ~WatchHttp
                 PROVE  IndicatorInv' /\ WantedInv'
      OBVIOUS
    <2>1. /\ happened' \cap {"kill", "afterStart"} = {} /\ "kill" \notin happened'
          /\ IndicatorInv /\ WantedInv
      BY HappenedGrows DEF Never
    <2>2. CASE UNCHANGED vars
      BY <2>1, <2>2 DEF vars, memory, config, history, IndicatorInv, WantedInv, InStart
    <2>3. CASE Next
      BY <2>1, <2>3, IndicatorSlotStep, IndicatorOtherStep, WantedSlotStep,
         WantedLoopStep, WantedOutside DEF Next
    <2> QED
      BY <2>2, <2>3
  <1>3. Inv => LaunchIsWanted
    BY DEF WantedInv, LaunchIsWanted, InStart, Launching
  <1> HIDE DEF Inv
  <1> QED
    BY <1>1, <1>2, <1>3, TypeCorrect, PTL DEF Spec

-----------------------------------------------------------------------------
(* The watch. A service marked running keeps its configuration, but while  *)
(* it is being configured anew, and its babysitter, but while it is being  *)
(* stopped or svdss has just been started.                                 *)
TimelyTexts == Expecting \cap {"configure", "start"} = {}

WatchInv ==
    /\ igniter = cfg
    /\ ~diskFull
    /\ triggers \cap {"afterStart", "afterStop"} = {}
    /\ "running" \in files => cfg \in configured \/ pc \in {"configureSlot", "configure"}
    /\ pc \in {"validateSlot", "validate"} /\ InStart => cfg \in configured
    /\ pc \in {"launch", "start", "afterStartSlot", "afterStart"} => cfg \in configured
    /\ pc \in {"afterStartSlot", "afterStart"} => "running" \in files
    /\ up /\ "running" \in files => babySitter \/ pc \in {"resume", "startSlot"} \cup StopChain

LEMMA WatchLoads ==
    ASSUME TypeOK, WatchInv, LoadServiceConfig
    PROVE  cfg' = cfg /\ igniter' = cfg /\ triggers' \cap {"afterStart", "afterStop"} = {}
  BY ConstantsAssumption DEF TypeOK, WatchInv, LoadServiceConfig

LEMMA WatchSlotStep ==
    ASSUME TimelyTexts, TypeOK, IndicatorInv, WatchInv, SlotStep PROVE WatchInv'
  <1>1. CASE InstallSlot
    BY <1>1, WatchLoads
       DEF InstallSlot, AfterInstall, GoTo, Spawn, WatchInv, InStart, Return, GoalAt, StopChain, Hooks,
           unwatched, outside, config
  <1>2. CASE InstallDone
    BY <1>2
       DEF InstallDone, AfterInstall, Waited, WatchInv, InStart, Return, GoalAt, StopChain, Hooks,
           unwatched, outside, config
  <1>3. CASE ConfigureSlot
    BY <1>3, WatchLoads
       DEF ConfigureSlot, AfterConfigure, GoTo, Spawn, IndicatorInv, WatchInv, InStart, Return, GoalAt, StopChain, Hooks,
           unwatched, outside, config
  <1>4. CASE ConfigureDone
    BY <1>4
       DEF ConfigureDone, AfterConfigure, Waited, Expect, TimelyTexts, WatchInv, InStart, Return, GoalAt, StopChain, Hooks,
           unwatched, outside, config
  <1>5. CASE ReConfigureSlot
    BY <1>5, WatchLoads
       DEF ReConfigureSlot, GoTo, WatchInv, InStart, Return, GoalAt, StopChain, Hooks,
           unwatched, outside, config
  <1>6. CASE ValidateSlot
    BY <1>6, WatchLoads
       DEF ValidateSlot, AfterValidate, GoTo, Spawn, WatchInv, InStart, Return, GoalAt, StopChain, Hooks,
           unwatched, outside, config
  <1>7. CASE ValidateDone
    BY <1>7
       DEF ValidateDone, AfterValidate, Waited, WatchInv, InStart, Return, GoalAt, StopChain, Hooks,
           unwatched, outside, config
  <1>8. CASE ReloadSlot
    BY <1>8, WatchLoads
       DEF ReloadSlot, GoTo, Spawn, WatchInv, InStart, Return, GoalAt, StopChain, Hooks,
           unwatched, outside, config
  <1>9. CASE ReloadDone
    BY <1>9
       DEF ReloadDone, Waited, WatchInv, InStart, Return, GoalAt, StopChain, Hooks,
           unwatched, outside, config
  <1>10. CASE StartSlot
    BY <1>10, WatchLoads
       DEF StartSlot, GoTo, WatchInv, InStart, Return, GoalAt, StopChain, Hooks,
           unwatched, outside, config
  <1>11. CASE Launch
    BY <1>11
       DEF Launch, GoTo, Spawn, WatchInv, InStart, Return, GoalAt, StopChain, Hooks,
           unwatched, outside, config
  <1>12. CASE StartDone
    BY <1>12
       DEF StartDone, Waited, Expect, TimelyTexts, WatchInv, InStart, Return, GoalAt, StopChain, Hooks,
           unwatched, outside, config
  <1>13. CASE AfterStartSlot
    BY <1>13, WatchLoads
       DEF AfterStartSlot, GoTo, Spawn, WatchInv, InStart, Return, GoalAt, StopChain, Hooks,
           unwatched, outside, config
  <1>14. CASE AfterStartDone
    BY <1>14
       DEF AfterStartDone, Waited, WatchInv, InStart, Return, GoalAt, StopChain, Hooks,
           unwatched, outside, config
  <1>15. CASE StopSlot
    BY <1>15, WatchLoads
       DEF StopSlot, AfterStop, GoTo, Spawn, WatchInv, InStart, Return, GoalAt, StopChain, Hooks,
           unwatched, outside, config
  <1>16. CASE StopDone
    BY <1>16
       DEF StopDone, Waited, WatchInv, InStart, Return, GoalAt, StopChain, Hooks,
           unwatched, outside, config
  <1>17. CASE AfterStopSlot
    BY <1>17, WatchLoads
       DEF AfterStopSlot, AfterStop, GoTo, Spawn, IndicatorInv, WatchInv, InStart, Return, GoalAt, StopChain, Hooks,
           unwatched, outside, config
  <1>18. CASE AfterStopDone
    BY <1>18
       DEF AfterStopDone, AfterStop, Waited, WatchInv, InStart, Return, GoalAt, StopChain, Hooks,
           unwatched, outside, config
  <1>19. CASE RestartSlot
    BY <1>19
       DEF RestartSlot, GoTo, WatchInv, InStart, Return, GoalAt, StopChain, Hooks,
           unwatched, outside, config
  <1>20. CASE Exit
    BY <1>20
       DEF Exit, Gone, WatchInv, InStart, Return, GoalAt, StopChain, Hooks,
           unwatched, outside, config
  <1>21. CASE Resume
    BY <1>21
       DEF Resume, GoTo, WatchInv, InStart, Return, GoalAt, StopChain, Hooks,
           unwatched, outside, config
  <1> QED
    BY <1>1, <1>2, <1>3, <1>4, <1>5, <1>6, <1>7, <1>8, <1>9, <1>10, <1>11, <1>12, <1>13, <1>14, <1>15, <1>16, <1>17, <1>18, <1>19, <1>20, <1>21
       DEF SlotStep

LEMMA WatchLoopStep ==
    ASSUME TypeOK, IndicatorInv, WatchInv, LoopStep PROVE WatchInv'
  <1>0. pc = "idle" /\ up /\ ("running" \in files => babySitter /\ cfg \in configured)
    BY DEF LoopStep, DirChangedSlot, BabySitterSlot, CronSitterSlot, FinishedSlot,
           CheckUserControlTriggers, AtLoop, WatchInv, StopChain
  <1>1. ASSUME cfg' = cfg, igniter' = cfg, triggers' \cap {"afterStart", "afterStop"} = {},
               UNCHANGED <<files, configured, diskFull>>,
               "running" \in files => babySitter',
               NEW l \in Slots \ {"launch", "afterStartSlot"}, NEW g \in Goals,
               pc' = l, goal' = g,
               l \in {"validateSlot", "configureSlot", "installSlot"} => g = "none"
        PROVE  WatchInv'
    BY <1>0, <1>1 DEF WatchInv, InStart, Slots
  <1>2. ASSUME cfg' = cfg, igniter' = cfg, triggers' \cap {"afterStart", "afterStop"} = {},
               UNCHANGED <<pc, files, configured, diskFull>>, "running" \in files => babySitter'
        PROVE  WatchInv'
    BY <1>0, <1>2 DEF WatchInv
  <1>3. CASE DirChangedSlot
    <2>1. PICK t \in triggers : /\ triggers' = triggers \ {t}
                                /\ UNCHANGED <<pc, goal, hook, late>> \/ Obey(t)
      BY <1>3 DEF DirChangedSlot
    <2>2. t \in TriggerNames \ {"afterStart", "afterStop"}
      BY <2>1 DEF TypeOK, WatchInv
    <2>3. /\ cfg' = cfg /\ igniter' = cfg /\ triggers' \cap {"afterStart", "afterStop"} = {}
          /\ UNCHANGED <<files, configured, diskFull, babySitter>>
      BY <1>3, <2>1 DEF DirChangedSlot, outside, unwatched, WatchInv
    <2>4. CASE UNCHANGED <<pc, goal, hook, late>>
      BY <1>0, <1>2, <2>3, <2>4
    <2>5. CASE Obey(t)
      <3>1. \/ Call("startSlot", "start") \/ Call("restartSlot", "restart")
            \/ Call("reConfigureSlot", "reConfigure")
            \/ \E l \in {"stopSlot", "configureSlot", "validateSlot", "reloadSlot",
                        "installSlot"} : Call(l, "none")
        BY <2>2, <2>5 DEF Obey, TriggerNames, StartTriggers, StopTriggers,
                          RestartTriggers, ReConfigureTriggers
      <3>2. PICK l \in Slots \ {"launch", "afterStartSlot"}, g \in Goals :
              /\ pc' = l /\ goal' = g
              /\ l \in {"validateSlot", "configureSlot", "installSlot"} => g = "none"
        BY <3>1 DEF Call, Slots, Goals
      <3> QED
        BY <1>0, <1>1, <2>3, <3>2
    <2> QED
      BY <2>1, <2>4, <2>5
  <1>4. CASE BabySitterSlot
    <2>1. /\ cfg' = cfg /\ igniter' = cfg /\ triggers' \cap {"afterStart", "afterStop"} = {}
          /\ UNCHANGED <<files, configured, diskFull>>
      BY <1>4, WatchLoads DEF BabySitterSlot
    <2>2. "running" \in files => babySitter'
      BY <1>0, <1>4 DEF BabySitterSlot
    <2>3. CASE UNCHANGED <<pc, goal, hook, late>>
      BY <1>2, <2>1, <2>2, <2>3
    <2>4. CASE Call("restartSlot", "restart")
      BY <1>1, <2>1, <2>2, <2>4 DEF Call, Slots, Goals
    <2> QED
      BY <1>4, <2>3, <2>4 DEF BabySitterSlot
  <1>5. CASE CronSitterSlot
    <2>1. /\ cfg' = cfg /\ igniter' = cfg /\ triggers' \cap {"afterStart", "afterStop"} = {}
          /\ UNCHANGED <<pc, files, configured, diskFull>>
      BY <1>5, WatchLoads DEF CronSitterSlot, outside
    <2>2. "running" \in files => babySitter'
      BY <1>0, <1>5 DEF CronSitterSlot
    <2> QED
      BY <1>2, <2>1, <2>2
  <1>6. CASE FinishedSlot
    <2>1. /\ cfg' = cfg /\ igniter' = cfg /\ triggers' \cap {"afterStart", "afterStop"} = {}
          /\ UNCHANGED <<files, configured, diskFull, babySitter>>
      BY <1>6 DEF FinishedSlot, config, outside, WatchInv
    <2>2. CASE UNCHANGED <<pc, goal, hook, late>>
      BY <1>0, <1>2, <2>1, <2>2
    <2>3. CASE Call("restartSlot", "restart")
      BY <1>0, <1>1, <2>1, <2>3 DEF Call, Slots, Goals
    <2> QED
      BY <1>6, <2>2, <2>3 DEF FinishedSlot
  <1>7. CASE CheckUserControlTriggers
    <2>1. /\ cfg' = cfg /\ igniter' = cfg /\ triggers' \cap {"afterStart", "afterStop"} = {}
          /\ UNCHANGED <<files, configured, diskFull>>
      BY <1>7 DEF CheckUserControlTriggers, config, WatchInv
    <2>2. CASE Gone
      BY <1>0, <2>1, <2>2 DEF Gone, WatchInv
    <2>3. CASE Call("stopSlot", "exit") /\ UNCHANGED babySitter
      BY <1>0, <1>1, <2>1, <2>3 DEF Call, Slots, Goals
    <2> QED
      BY <1>7, <2>2, <2>3 DEF CheckUserControlTriggers, unwatched
  <1> QED
    BY <1>3, <1>4, <1>5, <1>6, <1>7 DEF LoopStep

(* What ends the promise of the watch. *)
Unwatching == {"kill", "edit", "disk", "reset", "afterStart", "afterStop"}

LEMMA WatchOutside ==
    ASSUME Never(Unwatching)', TypeOK, IndicatorInv, WatchInv, Outside PROVE WatchInv'
  <1>1. ASSUME NEW h, NEW r, NEW ok, HookEffect(h, r, ok)
        PROVE  "running" \in files' <=> "running" \in files
    BY <1>1 DEF HookEffect
  <1>2. CASE HookEnds
    BY <1>1, <1>2 DEF HookEnds, config, WatchInv, InStart
  <1>3. ASSUME NEW h \in Hooks, LateHookEnds(h) PROVE WatchInv'
    BY <1>1, <1>3 DEF LateHookEnds, config, WatchInv, InStart
  <1>4. ASSUME NEW t \in TriggerNames, Touch(t) PROVE WatchInv'
    BY <1>4 DEF Touch, Event, Rough, Never, Unwatching, memory, outside, WatchInv, InStart
  <1>5. ASSUME NEW f, TouchControl(f) PROVE WatchInv'
    BY <1>5 DEF TouchControl, memory, config, WatchInv, InStart
  <1>6. ASSUME NEW p, ProcessDies(p) PROVE WatchInv'
    BY <1>6 DEF ProcessDies, memory, config, WatchInv, InStart
  <1>7. ASSUME NEW r, DamagePidFile(r) PROVE WatchInv'
    BY <1>7 DEF DamagePidFile, memory, config, WatchInv, InStart
  <1>8. CASE Deploying
    <2>1. "running" \in files' <=> "running" \in files
      BY <1>8 DEF Deploying
    <2> QED
      BY <1>8, <2>1 DEF Deploying, memory, config, outside, WatchInv, InStart
  <1>9. CASE Boot
    <2>1. pc = "idle"
      BY <1>9 DEF Boot, IndicatorInv
    <2> QED
      BY <1>9, <2>1 DEF Boot, outside, WatchInv, InStart
  <1>10. /\ \A contents : ~EditIgniter(contents)
         /\ ~DiskChanges /\ ~PanelReset /\ ~Killed
    BY DEF EditIgniter, DiskChanges, PanelReset, Killed, Event, Never, Rough, Unwatching
  <1> QED
    BY <1>2, <1>3, <1>4, <1>5, <1>6, <1>7, <1>8, <1>9, <1>10 DEF Outside

LEMMA WatchImplies == IndicatorInv /\ WatchInv => Watched
  <1> SUFFICES ASSUME IndicatorInv, WatchInv, AtLoop, "running" \in files, "deploying" \notin files
               PROVE  babySitter /\ ~Busy(cfg)
    BY DEF Watched
  <1>1. babySitter /\ cfg \in configured
    BY DEF WatchInv, AtLoop, StopChain
  <1>2. \A h \in IndicatorHooks : Indicator(h) \notin files
    BY DEF Indicator, IndicatorHooks, Hooks, IndicatorInv, AtLoop
  <1> QED
    BY <1>1, <1>2 DEF Busy, BusyFiles

(* A running service is watched whenever svdss is at its loop, for every   *)
(* schedule of triggers, late hooks, http answers, deaths, damaged pid     *)
(* files, deployments and shutdowns (service.cc:260-277, :747-757).        *)
THEOREM WatchedCorrect == Spec => []RunningIsWatched
  <1> DEFINE Inv == Never(Unwatching) /\ TimelyTexts => IndicatorInv /\ WatchInv
  <1>1. Init => Inv
    BY DEF Init, IndicatorInv, WatchInv, InStart
  <1>2. TypeOK /\ Inv /\ [Next]_vars => Inv'
    <2> SUFFICES ASSUME TypeOK, Inv, [Next]_vars, Never(Unwatching)', TimelyTexts
                 PROVE  IndicatorInv' /\ WatchInv'
      OBVIOUS
    <2>1. "kill" \notin happened' /\ IndicatorInv /\ WatchInv
      BY HappenedGrows DEF Never, Unwatching
    <2>2. CASE UNCHANGED vars
      BY <2>1, <2>2 DEF vars, memory, config, outside, IndicatorInv, WatchInv, InStart
    <2>3. CASE Next
      BY <2>1, <2>3, IndicatorSlotStep, IndicatorOtherStep, WatchSlotStep,
         WatchLoopStep, WatchOutside DEF Next
    <2> QED
      BY <2>2, <2>3
  <1>3. Inv => RunningIsWatched
    BY WatchImplies DEF RunningIsWatched, TimelyTexts, Unwatching
  <1> HIDE DEF Inv
  <1> QED
    BY <1>1, <1>2, <1>3, TypeCorrect, PTL DEF Spec

=============================================================================
