--------------------------- MODULE ServiceLifecycle ---------------------------
(***************************************************************************)
(* One supervised service: the slots of SvdService, the trigger dispatch   *)
(* of its SvdServiceWatcher and everything that happens to its directory   *)
(* while svdss is busy, up, or dead.                                       *)
(*                                                                         *)
(* All slots of svdss run in one event loop, each to its end: a slot that  *)
(* runs a hook blocks the loop until the hook ends or its timeout passes.  *)
(* So pc is where that single thread is: at the loop ("idle"), about to    *)
(* enter a slot (a label that ends in Slot), or waiting for a hook (the    *)
(* hook's name). What interleaves are the other actors: the hook's shell,  *)
(* the service process, users and the panel touching or removing files,    *)
(* the deployer, and the death of svdss, after which only files remain.    *)
(***************************************************************************)
EXTENDS Naturals

CONSTANTS
    Releases,        \* igniter contents that parse, as releaseName() sees them
    Broken, Missing, \* an igniter that does not parse; no igniter file
    Pids,            \* process ids
    NoPid, BadPid,   \* no service.pid; one whose contents is no positive number
    Expecting,       \* the hooks whose igniter entry has an expectOutput
    Validated,       \* the releases whose igniter has validate commands
    HasSchedulers,   \* the igniter has schedulers
    WatchPort,       \* babysitter looks whether someone listens on the port
    WatchHttp,       \* babysitter asks an http address of the service
    Autostart,       \* the service directory holds .autostart
    Requests,        \* the trigger files users touch in this instance
    Disturbances,    \* the kinds of outside events of this instance
    MaxEvents        \* bound on outside events and touched triggers

Hooks == {"install", "configure", "validate", "start", "afterStart",
          "stop", "afterStop", "reload"}

TriggerNames ==
    {"configure", "reConfigure", "reConfigureWithoutDeps", "validate", "reload",
     "install", "start", "startWithoutDeps", "afterStart", "stop",
     "stopWithoutDeps", "afterStop", "restart", "restartWithoutDeps"}

DisturbanceKinds ==
    {"kill", "timeout", "edit", "die", "damage", "disk", "deploy", "reset",
     "shutdown", "shutdownGracefully"}

(* What some promise of the program does not survive. *)
Rough == {"kill", "timeout", "edit", "damage", "disk", "reset", "afterStart", "afterStop"}

ASSUME ConstantsAssumption ==
    /\ Expecting \subseteq Hooks
    /\ Validated \subseteq Releases
    /\ HasSchedulers \in BOOLEAN
    /\ WatchPort \in BOOLEAN
    /\ WatchHttp \in BOOLEAN
    /\ Autostart \in BOOLEAN
    /\ Requests \subseteq TriggerNames
    /\ Disturbances \subseteq DisturbanceKinds
    /\ MaxEvents \in Nat
    /\ Broken \notin Releases /\ Missing \notin Releases /\ Broken # Missing
    /\ NoPid \notin Pids /\ BadPid \notin Pids /\ NoPid # BadPid

Igniters == Releases \cup {Broken, Missing}

(* The state files of a service directory; "deploying" is the deployer's.  *)
StateFiles == {"running", "installing", "configuring", "validating",
               "validationFailure", "afterStarting", "afterStopping",
               "reloading", "deploying"}

(* The file a slot keeps while its hook runs; start and stop keep none.    *)
Indicator(h) ==
    CASE h = "install"    -> "installing"
      [] h = "configure"  -> "configuring"
      [] h = "validate"   -> "validating"
      [] h = "afterStart" -> "afterStarting"
      [] h = "afterStop"  -> "afterStopping"
      [] h = "reload"     -> "reloading"

IndicatorHooks == Hooks \ {"start", "stop"}

BusyFiles == {Indicator(h) : h \in IndicatorHooks} \cup {"deploying"}

Slots == {"installSlot", "configureSlot", "reConfigureSlot", "validateSlot",
          "startSlot", "launch", "afterStartSlot", "stopSlot",
          "afterStopSlot", "restartSlot", "reloadSlot"}

Labels == Hooks \cup Slots \cup {"idle", "resume", "exit"}

(* Why the current slot runs, that is, what its caller does next.          *)
Goals == {"none", "start", "boot", "restart", "reConfigure", "exit"}

VARIABLES
    up,          \* svdss is alive and watches the service
    pc, goal,    \* where its thread is, and what follows the current slot
    hook,        \* the hook waited for: it runs, or how it ended
    late,        \* hooks that outlived the wait: "no", "child" or "orphan"
    babySitter, cronSitter, \* the two timers are active
    httpPending, \* an http check is under way
    cfg,         \* release of the configuration the service object holds
    igniter,     \* contents of the igniter file
    files,       \* state files present
    triggers,    \* trigger files present
    control,     \* ~/.shutdown and ~/.shutdownGracefully, when present
    installed,   \* the software's .installed file exists
    configured,  \* releases with a .configured file
    pidFile,     \* contents of .pids/<release>/service.pid
    alive,       \* processes of this service
    seen,        \* hooks whose expected text is in service.error.log
    diskFull,    \* free space is at or below minimumRequiredDiskSpace
    spent,       \* outside events so far
    happened,    \* history: the kinds of Rough events so far
    intent,      \* history: what the last obeyed request asked for
    verdict      \* history: what validation found for the current start

memory == <<up, pc, goal, hook, late, babySitter, cronSitter, httpPending>>
config == <<cfg, igniter, triggers>>
outside == <<control, installed, pidFile, alive, seen, diskFull>>
events == <<spent, happened>>
history == <<intent, verdict>>
vars == <<memory, config, outside, files, configured, events, history>>

TypeOK ==
    /\ up \in BOOLEAN
    /\ pc \in Labels
    /\ goal \in Goals
    /\ hook \in {"none", "runs", "ok", "failed"}
    /\ late \in [Hooks -> {"no", "child", "orphan"}]
    /\ babySitter \in BOOLEAN /\ cronSitter \in BOOLEAN /\ httpPending \in BOOLEAN
    /\ cfg \in Releases
    /\ igniter \in Igniters
    /\ files \subseteq StateFiles
    /\ triggers \subseteq TriggerNames
    /\ control \subseteq {"shutdown", "shutdownGracefully"}
    /\ installed \in BOOLEAN
    /\ configured \subseteq Releases
    /\ pidFile \in [Releases -> Pids \cup {NoPid, BadPid}]
    /\ alive \subseteq Pids
    /\ seen \subseteq Expecting
    /\ diskFull \in BOOLEAN
    /\ spent \in 0..MaxEvents
    /\ happened \subseteq Rough
    /\ intent \in {"up", "down"}
    /\ verdict \in {"none", "ok", "failed"}

(* A user has just made the directory of a service that never ran.         *)
Init ==
    /\ up = FALSE
    /\ pc = "idle" /\ goal = "none"
    /\ hook = "none"
    /\ late = [h \in Hooks |-> "no"]
    /\ babySitter = FALSE /\ cronSitter = FALSE /\ httpPending = FALSE
    /\ igniter \in Releases /\ cfg = igniter
    /\ files = {} /\ triggers = {} /\ control = {}
    /\ installed \in BOOLEAN
    /\ configured = {}
    /\ pidFile = [r \in Releases |-> NoPid]
    /\ alive = {}
    /\ seen = {}
    /\ diskFull = FALSE
    /\ spent = 0 /\ happened = {}
    /\ intent = "down" /\ verdict = "none"

-----------------------------------------------------------------------------
(* Mutated forms are marked so: what a likely slip in the code would do.   *)
LoadUnchecked == \* Mutated: takes an igniter that does not parse
    /\ cfg' = IF igniter = Missing THEN cfg ELSE igniter
    /\ UNCHANGED <<igniter, triggers>>

LoadWithoutStop == \* Mutated: a missing igniter asks for nothing
    /\ cfg' = IF igniter \in Releases THEN igniter ELSE cfg
    /\ igniter' = IF igniter = Broken THEN Missing ELSE igniter
    /\ UNCHANGED triggers

(* What every slot does first. An igniter that does not parse is moved out *)
(* of the way and the cached configuration stays; with no igniter at all   *)
(* and the service running, the configuration asks for a stop.             *)
LoadServiceConfig ==
    /\ cfg' = IF igniter \in Releases THEN igniter ELSE cfg
    /\ igniter' = IF igniter = Broken THEN Missing ELSE igniter
    /\ triggers' = IF igniter = Missing /\ "running" \in files
                   THEN triggers \cup {"stop"} ELSE triggers

(* deleteLater: back at the loop, hooks that outlived their wait are       *)
(* killed; those of a dead svdss have nobody left to kill them.            *)
Reaped(l, hooks) ==
    IF l = "idle" THEN [h \in Hooks |-> IF hooks[h] = "child" THEN "no" ELSE hooks[h]]
                  ELSE hooks

GoalAt(l) == CASE l \in {"idle", "resume", "exit"} -> "none"
               [] l = "restartSlot" -> "restart"
               [] l = "startSlot" -> "start"
               [] OTHER -> goal

GoTo(l) ==
    /\ pc' = l
    /\ goal' = GoalAt(l)
    /\ hook' = "none"
    /\ late' = Reaped(l, late)

Spawn(h) ==
    /\ pc' = h
    /\ hook' = "runs"
    /\ UNCHANGED <<goal, late>>

Event(kind) ==
    /\ kind \in Disturbances \cup Requests
    /\ spent < MaxEvents
    /\ spent' = spent + 1
    /\ happened' = happened \cup ({kind} \cap Rough)

(* waitForFinished returns: the hook has ended, or the time is over and it *)
(* goes on beside whatever the thread does next.                           *)
Waited(h, l) ==
    /\ pc = h
    /\ pc' = l
    /\ goal' = GoalAt(l)
    /\ hook' = "none"
    /\ \/ /\ hook # "runs"
          /\ late' = Reaped(l, late)
          /\ UNCHANGED events
       \/ /\ hook = "runs"
          /\ Event("timeout")
          /\ late' = Reaped(l, [late EXCEPT ![h] = IF @ = "orphan" THEN @ ELSE "child"])

(* expect() reads the whole log the hooks append to, so a text printed by  *)
(* an earlier run of the hook satisfies it too.                            *)
Expect(h) == h \notin Expecting \/ h \in seen

InStart == goal \in {"start", "boot"}

Return == CASE goal = "boot" -> "resume"
            [] goal = "exit" -> "exit"
            [] OTHER -> "idle"

AfterInstallHasty(release) == \* Mutated: a configured release is not validated
    IF ~InStart THEN Return
    ELSE IF release \in configured THEN "launch" ELSE "configureSlot"

AfterInstall(release) ==
    IF ~InStart THEN Return
    ELSE IF release \in configured THEN "validateSlot" ELSE "configureSlot"

AfterConfigureHasty == \* Mutated: takes a fresh configuration for valid
    CASE InStart -> "launch"
      [] goal = "reConfigure" -> "restartSlot"
      [] OTHER -> Return

AfterConfigure ==
    CASE InStart -> "validateSlot"
      [] goal = "reConfigure" -> "restartSlot"
      [] OTHER -> Return

AfterValidate == IF InStart THEN "launch" ELSE Return

AfterStop == IF goal = "restart" THEN "startSlot" ELSE Return

-----------------------------------------------------------------------------
(* The slots. Each has its entry, which may run a hook, and the part that  *)
(* follows the wait for that hook.                                         *)
unwatched == <<up, babySitter, cronSitter, httpPending>>

InstallSlot ==
    /\ pc = "installSlot"
    /\ LoadServiceConfig
    /\ \/ /\ installed
          /\ GoTo(AfterInstall(cfg'))
          /\ UNCHANGED files
       \/ /\ ~installed
          /\ files' = files \cup {"installing"}
          /\ Spawn("install")
    /\ UNCHANGED <<unwatched, outside, configured, events, history>>

InstallDone ==
    /\ Waited("install", AfterInstall(cfg))
    /\ files' = files \ {"installing"}
    /\ UNCHANGED <<unwatched, config, outside, configured, history>>

ConfigureSlot ==
    /\ pc = "configureSlot"
    /\ LoadServiceConfig
    /\ \/ /\ "configuring" \in files \/ cfg' \in configured
          /\ GoTo(AfterConfigure)
          /\ UNCHANGED files
       \/ /\ "configuring" \notin files /\ cfg' \notin configured
          /\ files' = files \cup {"configuring"}
          /\ Spawn("configure")
    /\ UNCHANGED <<unwatched, outside, configured, events, history>>

ConfigureDoneEarly == \* Mutated: returns early when the expectation is missed
    /\ Waited("configure", AfterConfigure)
    /\ files' = IF Expect("configure") THEN files \ {"configuring"} ELSE files
    /\ configured' = IF Expect("configure") THEN configured \cup {cfg} ELSE configured
    /\ UNCHANGED <<unwatched, config, outside, history>>

ConfigureDone ==
    /\ Waited("configure", AfterConfigure)
    /\ files' = files \ {"configuring"}
    /\ configured' = IF Expect("configure") THEN configured \cup {cfg} ELSE configured
    /\ UNCHANGED <<unwatched, config, outside, history>>

ReConfigureSlot ==
    /\ pc = "reConfigureSlot"
    /\ LoadServiceConfig
    /\ configured' = configured \ {cfg'}
    /\ GoTo("configureSlot")
    /\ UNCHANGED <<unwatched, outside, files, events, history>>

ValidateSlot ==
    /\ pc = "validateSlot"
    /\ LoadServiceConfig
    /\ \/ /\ cfg' \notin Validated \/ "validating" \in files
          /\ GoTo(AfterValidate)
          /\ UNCHANGED files
       \/ /\ cfg' \in Validated /\ "validating" \notin files
          /\ files' = (files \ {"validationFailure"}) \cup {"validating"}
          /\ Spawn("validate")
    /\ UNCHANGED <<unwatched, outside, configured, events, history>>

ValidateDone ==
    /\ Waited("validate", AfterValidate)
    /\ files' = files \ {"validating"}
    /\ UNCHANGED <<unwatched, config, outside, configured, history>>

ReloadSlot ==
    /\ pc = "reloadSlot"
    /\ LoadServiceConfig
    /\ \/ /\ "reloading" \in files
          /\ GoTo(Return)
          /\ UNCHANGED files
       \/ /\ "reloading" \notin files
          /\ files' = files \cup {"reloading"}
          /\ Spawn("reload")
    /\ UNCHANGED <<unwatched, outside, configured, events, history>>

ReloadDone ==
    /\ Waited("reload", Return)
    /\ files' = files \ {"reloading"}
    /\ UNCHANGED <<unwatched, config, outside, configured, history>>

(* startSlot up to its first nested slot. *)
StartSlot ==
    /\ pc = "startSlot"
    /\ LoadServiceConfig
    /\ \/ /\ diskFull
          /\ GoTo(Return)
          /\ UNCHANGED <<babySitter, cronSitter, verdict>>
       \/ /\ ~diskFull
          /\ "running" \in files
          /\ babySitter' = TRUE /\ cronSitter' = TRUE
          /\ GoTo(Return)
          /\ UNCHANGED verdict
       \/ /\ ~diskFull
          /\ "running" \notin files
          /\ pc' = "installSlot"
          /\ verdict' = "none"
          /\ UNCHANGED <<goal, hook, late, babySitter, cronSitter>>
    /\ UNCHANGED <<up, httpPending, outside, files, configured, events, intent>>

(* startSlot after validation: the start hook, unless validation failed. *)
Launch ==
    /\ pc = "launch"
    /\ \/ /\ "validationFailure" \in files
          /\ GoTo(Return)
       \/ /\ "validationFailure" \notin files
          /\ Spawn("start")
    /\ UNCHANGED <<unwatched, config, outside, files, configured, events, history>>

StartDoneUnwatched == \* Mutated: forgets to start the babysitter
    /\ Waited("start", "afterStartSlot")
    /\ cronSitter' = (cronSitter \/ (Expect("start") /\ HasSchedulers))
    /\ files' = files \cup {"running"}
    /\ UNCHANGED <<up, babySitter, httpPending, config, outside, configured, history>>

(* A start hook that missed its expectation still leaves .running behind,  *)
(* without the timers.                                                     *)
StartDone ==
    /\ Waited("start", "afterStartSlot")
    /\ babySitter' = (babySitter \/ Expect("start"))
    /\ cronSitter' = (cronSitter \/ (Expect("start") /\ HasSchedulers))
    /\ files' = files \cup {"running"}
    /\ UNCHANGED <<up, httpPending, config, outside, configured, history>>

AfterStartSlot ==
    /\ pc = "afterStartSlot"
    /\ LoadServiceConfig
    /\ \/ /\ "afterStarting" \in files
          /\ GoTo(Return)
          /\ UNCHANGED files
       \/ /\ "afterStarting" \notin files
          /\ files' = files \cup {"afterStarting"}
          /\ Spawn("afterStart")
    /\ UNCHANGED <<unwatched, outside, configured, events, history>>

AfterStartDone ==
    /\ Waited("afterStart", Return)
    /\ files' = (files \ {"afterStarting"}) \cup {"running"}
    /\ UNCHANGED <<unwatched, config, outside, configured, history>>

StopSlot ==
    /\ pc = "stopSlot"
    /\ LoadServiceConfig
    /\ babySitter' = FALSE /\ cronSitter' = FALSE
    /\ \/ /\ "running" \notin files
          /\ GoTo(AfterStop)
       \/ /\ "running" \in files
          /\ Spawn("stop")
    /\ UNCHANGED <<up, httpPending, outside, files, configured, events, history>>

NotDeathWatched(release) == \* Mutated: trusts the stop hook
    ({pidFile[release]} \cap Pids) \ alive

(* The process deathWatch signals, harder and harder, until it is dead.    *)
DeathWatched(release) == {pidFile[release]} \cap Pids

(* After the stop hook: deathWatch on the pid in the file of the release   *)
(* loaded at the slot's entry, then the leftovers of other slots are removed. *)
StopDone ==
    /\ Waited("stop", "afterStopSlot")
    /\ alive' = alive \ DeathWatched(cfg)
    /\ files' = (files \cap {"deploying"})
                  \cup (IF DeathWatched(cfg) = {} THEN files \cap {"running"} ELSE {})
    /\ UNCHANGED <<unwatched, config, control, installed, pidFile, seen, diskFull,
                   configured, history>>

AfterStopSlot ==
    /\ pc = "afterStopSlot"
    /\ LoadServiceConfig
    /\ \/ /\ "afterStopping" \in files
          /\ GoTo(AfterStop)
          /\ UNCHANGED files
       \/ /\ "afterStopping" \notin files
          /\ files' = files \cup {"afterStopping"}
          /\ Spawn("afterStop")
    /\ UNCHANGED <<unwatched, outside, configured, events, history>>

AfterStopDoneKeeps == \* Mutated: leaves .running to stopSlot
    /\ Waited("afterStop", AfterStop)
    /\ files' = files \ {"afterStopping"}
    /\ UNCHANGED <<unwatched, config, outside, configured, history>>

AfterStopDone ==
    /\ Waited("afterStop", AfterStop)
    /\ files' = files \ {"afterStopping", "running"}
    /\ UNCHANGED <<unwatched, config, outside, configured, history>>

RestartSlot ==
    /\ pc = "restartSlot"
    /\ \/ /\ "shutdown" \in control
          /\ GoTo(Return)
       \/ /\ "shutdown" \notin control
          /\ GoTo("stopSlot")
    /\ UNCHANGED <<unwatched, config, outside, files, configured, events, history>>

-----------------------------------------------------------------------------
(* What the event loop delivers when the thread is back at it.             *)
AtLoop == up /\ pc = "idle"

Call(l, g) ==
    /\ pc' = l
    /\ goal' = g
    /\ UNCHANGED <<hook, late>>

(* Trigger files in the order dirChangedSlot tests them. *)
Rank(t) ==
    CASE t = "configure" -> 1          [] t = "reConfigure" -> 2
      [] t = "reConfigureWithoutDeps" -> 3 [] t = "validate" -> 4
      [] t = "reload" -> 5             [] t = "install" -> 6
      [] t = "start" -> 7              [] t = "startWithoutDeps" -> 8
      [] t = "afterStart" -> 9         [] t = "stop" -> 10
      [] t = "stopWithoutDeps" -> 11   [] t = "afterStop" -> 12
      [] t = "restart" -> 13           [] t = "restartWithoutDeps" -> 14

StartTriggers == {"start", "startWithoutDeps"}
StopTriggers == {"stop", "stopWithoutDeps"}
RestartTriggers == {"restart", "restartWithoutDeps"}
ReConfigureTriggers == {"reConfigure", "reConfigureWithoutDeps"}

RefusedOtherwise(t) == \* Mutated: start and stop swap their conditions
    \/ t = "install" /\ "installing" \in files
    \/ t \in StartTriggers /\ "running" \notin files
    \/ t \in StopTriggers /\ "running" \in files

(* A trigger that the watcher removes without calling the slot. *)
Refused(t) ==
    \/ t = "install" /\ "installing" \in files
    \/ t \in StartTriggers /\ "running" \in files
    \/ t \in StopTriggers /\ "running" \notin files

Obey(t) ==
    CASE t \in StartTriggers -> Call("startSlot", "start")
      [] t \in StopTriggers -> Call("stopSlot", "none")
      [] t \in RestartTriggers -> Call("restartSlot", "restart")
      [] t \in ReConfigureTriggers -> Call("reConfigureSlot", "reConfigure")
      [] t = "configure" -> Call("configureSlot", "none")
      [] t = "validate" -> Call("validateSlot", "none")
      [] t = "reload" -> Call("reloadSlot", "none")
      [] t = "install" -> Call("installSlot", "none")
      [] t = "afterStart" -> Call("afterStartSlot", "none")
      [] t = "afterStop" -> Call("afterStopSlot", "none")

DirChangedSlot ==
    /\ AtLoop
    /\ \E t \in triggers :
         /\ \A other \in triggers : Rank(t) <= Rank(other)
         /\ triggers' = triggers \ {t}
         /\ \/ /\ Refused(t)
               /\ UNCHANGED <<pc, goal, hook, late, intent>>
            \/ /\ ~Refused(t)
               /\ Obey(t)
               /\ intent' =
                    CASE t \in StartTriggers \cup RestartTriggers \cup ReConfigureTriggers -> "up"
                      [] t \in StopTriggers -> "down"
                      [] OTHER -> intent
    /\ UNCHANGED <<unwatched, cfg, igniter, outside, files, configured, events, verdict>>

Busy(release) == BusyFiles \cap files # {} \/ release \notin configured

UnhealthyPidFile(release) == \* Mutated: does not ask whether the pid is alive
    pidFile[release] = BadPid

(* The default babysitter: a pid file must hold the pid of a live process, *)
(* and somebody must listen on the port when the igniter asks for it.      *)
Unhealthy(release) ==
    \/ pidFile[release] \notin alive \cup {NoPid}
    \/ WatchPort /\ alive = {}

BabySitterSlot ==
    /\ AtLoop /\ babySitter
    /\ LoadServiceConfig
    /\ \/ /\ Busy(cfg')
          /\ UNCHANGED <<pc, goal, hook, late, babySitter, cronSitter, httpPending, pidFile>>
       \/ /\ ~Busy(cfg') /\ "running" \notin files
          /\ babySitter' = FALSE /\ cronSitter' = FALSE
          /\ UNCHANGED <<pc, goal, hook, late, httpPending, pidFile>>
       \/ /\ ~Busy(cfg') /\ "running" \in files
          /\ httpPending' = (httpPending \/ WatchHttp)
          /\ IF Unhealthy(cfg') THEN Call("restartSlot", "restart")
                                ELSE UNCHANGED <<pc, goal, hook, late>>
          /\ pidFile' = [pidFile EXCEPT ![cfg'] = IF @ = BadPid THEN NoPid ELSE @]
          /\ UNCHANGED <<babySitter, cronSitter>>
    /\ UNCHANGED <<up, control, installed, alive, seen, diskFull, files, configured,
                   events, history>>

CronSitterSlot ==
    /\ AtLoop /\ cronSitter
    /\ LoadServiceConfig
    /\ IF "running" \in files THEN UNCHANGED <<babySitter, cronSitter>>
                              ELSE babySitter' = FALSE /\ cronSitter' = FALSE
    /\ UNCHANGED <<up, pc, goal, hook, late, httpPending, outside, files,
                   configured, events, history>>

(* The answer of an http check, which may be long overdue. *)
FinishedSlot ==
    /\ AtLoop /\ httpPending
    /\ httpPending' = FALSE
    /\ \/ Call("restartSlot", "restart")
       \/ UNCHANGED <<pc, goal, hook, late>>
    /\ UNCHANGED <<up, babySitter, cronSitter, config, outside, files, configured,
                   events, history>>

-----------------------------------------------------------------------------
(* Life and death of svdss. *)
Gone ==
    /\ up' = FALSE
    /\ pc' = "idle" /\ goal' = "none"
    /\ hook' = "none"
    /\ late' = [h \in Hooks |->
                  IF late[h] = "child" \/ (hook = "runs" /\ pc = h) THEN "orphan" ELSE late[h]]
    /\ babySitter' = FALSE /\ cronSitter' = FALSE /\ httpPending' = FALSE

(* SIGTERM (or worse) at any moment: its handler leaves at once. *)
Killed ==
    /\ up
    /\ Event("kill")
    /\ Gone
    /\ UNCHANGED <<config, outside, files, configured, history>>

TouchControl(f) ==
    /\ AtLoop \/ pc \in Hooks
    /\ Event(f)
    /\ control' = control \cup {f}
    /\ UNCHANGED <<memory, config, installed, pidFile, alive, seen, diskFull, files,
                   configured, history>>

CheckUserControlTriggers ==
    /\ AtLoop
    /\ \/ /\ "shutdownGracefully" \in control
          /\ control' = control \ {"shutdownGracefully"}
          /\ Call("stopSlot", "exit")
          /\ UNCHANGED unwatched
       \/ /\ control = {"shutdown"}
          /\ control' = {}
          /\ Gone
    /\ UNCHANGED <<config, installed, pidFile, alive, seen, diskFull, files,
                   configured, events, history>>

Exit ==
    /\ pc = "exit"
    /\ Gone
    /\ UNCHANGED <<config, outside, files, configured, events, history>>

(* A new svdss makes the watcher of a service that has an igniter.         *)
Boot ==
    /\ ~up
    /\ igniter \in Releases
    /\ up' = TRUE
    /\ cfg' = igniter
    /\ IF Autostart THEN pc' = "startSlot" /\ goal' = "boot" /\ intent' = "up"
                    ELSE pc' = "resume" /\ UNCHANGED <<goal, intent>>
    /\ UNCHANGED <<hook, late, babySitter, cronSitter, httpPending, igniter, triggers,
                   outside, files, configured, events, verdict>>

ResumeAlways == \* Mutated: does not look for .running
    /\ pc = "resume"
    /\ GoTo("startSlot")
    /\ UNCHANGED <<unwatched, config, outside, files, configured, events, history>>

(* The watcher goes on with a service it finds running. *)
Resume ==
    /\ pc = "resume"
    /\ GoTo(IF "running" \in files THEN "startSlot" ELSE "idle")
    /\ UNCHANGED <<unwatched, config, outside, files, configured, events, history>>

-----------------------------------------------------------------------------
(* The other actors. *)

(* What a hook of release r does to the service when it ends: ok says that *)
(* it printed what the igniter expects and did its work.                   *)
HookEffect(h, r, ok) ==
    /\ installed' = (installed \/ (h = "install" /\ ok))
    /\ seen' = IF ok /\ h \in Expecting THEN seen \cup {h} ELSE seen
    /\ files' = IF h = "validate" /\ ~ok THEN files \cup {"validationFailure"} ELSE files
    /\ \/ /\ h = "start" /\ ok
          /\ \E p \in Pids \ alive :
               /\ alive' = alive \cup {p}
               /\ pidFile' = [pidFile EXCEPT ![r] = p]
       \/ /\ h = "stop" /\ ok
          /\ alive' = alive \ {pidFile[r]}
          /\ UNCHANGED pidFile
       \/ /\ ~(ok /\ h \in {"start", "stop"})
          /\ UNCHANGED <<alive, pidFile>>

HookEnds ==
    /\ hook = "runs"
    /\ \E ok \in BOOLEAN :
         /\ hook' = IF ok THEN "ok" ELSE "failed"
         /\ HookEffect(pc, cfg, ok)
         /\ verdict' = CASE pc = "validate" /\ ok -> "ok"
                         [] pc = "validate" /\ ~ok -> "failed"
                         [] OTHER -> verdict
    /\ UNCHANGED <<up, pc, goal, late, babySitter, cronSitter, httpPending, config,
                   control, diskFull, configured, events, intent>>

(* A hook of a configuration that may be gone by now. *)
LateHookEnds(h) ==
    /\ late[h] # "no"
    /\ late' = [late EXCEPT ![h] = "no"]
    /\ \E r \in Releases, ok \in BOOLEAN : HookEffect(h, r, ok)
    /\ UNCHANGED <<up, pc, goal, hook, babySitter, cronSitter, httpPending, config,
                   control, diskFull, configured, events, history>>

Touch(t) ==
    /\ Event(t)
    /\ triggers' = triggers \cup {t}
    /\ UNCHANGED <<memory, cfg, igniter, outside, files, configured, history>>

EditIgniter(contents) ==
    /\ Event("edit")
    /\ contents # igniter
    /\ igniter' = contents
    /\ UNCHANGED <<memory, cfg, triggers, outside, files, configured, history>>

ProcessDies(p) ==
    /\ p \in alive
    /\ Event("die")
    /\ alive' = alive \ {p}
    /\ UNCHANGED <<memory, config, control, installed, pidFile, seen, diskFull, files,
                   configured, history>>

DamagePidFile(r) ==
    /\ pidFile[r] \in Pids
    /\ Event("damage")
    /\ pidFile' = [pidFile EXCEPT ![r] = BadPid]
    /\ UNCHANGED <<memory, config, control, installed, alive, seen, diskFull, files,
                   configured, history>>

DiskChanges ==
    /\ Event("disk")
    /\ diskFull' = ~diskFull
    /\ UNCHANGED <<memory, config, control, installed, pidFile, alive, seen, files,
                   configured, history>>

(* svddeployer marks the directory while it works on the service. *)
Deploying ==
    /\ Event("deploy")
    /\ files' = IF "deploying" \in files THEN files \ {"deploying"}
                                         ELSE files \cup {"deploying"}
    /\ UNCHANGED <<memory, config, outside, configured, history>>

(* F12 of svdpanel removes the trigger and state files. It also removes a  *)
(* service.pid, but one directory above where the pid file is.             *)
PanelReset ==
    /\ Event("reset")
    /\ triggers' = {}
    /\ files' = files \cap {"deploying"}
    /\ UNCHANGED <<memory, cfg, igniter, outside, configured, history>>

-----------------------------------------------------------------------------
SlotStep ==
    \/ InstallSlot \/ InstallDone \/ ConfigureSlot \/ ConfigureDone
    \/ ReConfigureSlot \/ ValidateSlot \/ ValidateDone
    \/ ReloadSlot \/ ReloadDone
    \/ StartSlot \/ Launch \/ StartDone \/ AfterStartSlot \/ AfterStartDone
    \/ StopSlot \/ StopDone \/ AfterStopSlot \/ AfterStopDone
    \/ RestartSlot \/ Exit \/ Resume

LoopStep ==
    \/ DirChangedSlot \/ BabySitterSlot \/ CronSitterSlot \/ FinishedSlot
    \/ CheckUserControlTriggers

Outside ==
    \/ HookEnds
    \/ \E h \in Hooks : LateHookEnds(h)
    \/ \E t \in TriggerNames : Touch(t)
    \/ \E f \in {"shutdown", "shutdownGracefully"} : TouchControl(f)
    \/ \E contents \in Igniters : EditIgniter(contents)
    \/ \E p \in Pids : ProcessDies(p)
    \/ \E r \in Releases : DamagePidFile(r)
    \/ DiskChanges \/ Deploying \/ PanelReset
    \/ Killed \/ Boot

Next == SlotStep \/ LoopStep \/ Outside

Spec == Init /\ [][Next]_vars

(* The thread does not stall inside a slot; hooks end, or the wait for     *)
(* them does; and the loop serves every source that stays ready.           *)
Fairness ==
    /\ WF_vars(SlotStep)
    /\ WF_vars(HookEnds)
    /\ SF_vars(DirChangedSlot)
    /\ SF_vars(BabySitterSlot)
    /\ WF_vars(Boot)

FairSpec == Spec /\ Fairness

-----------------------------------------------------------------------------
(* Properties. *)

Never(kinds) == happened \cap kinds = {}

(* An indicator file says which hook runs: as long as svdss is not killed, *)
(* no slot leaves its indicator behind, whatever ends the wait, so none is *)
(* ever skipped as "already validating" and the babysitter is not blinded  *)
(* (service.cc:260, :842).                                                 *)
IndicatorsHonest ==
    Never({"kill"}) => \A h \in IndicatorHooks : Indicator(h) \in files => pc = h

(* The start hook of a release with a validation runs only after that      *)
(* validation passed, in this very start (service.cc:724-736), whatever    *)
(* users, processes and the disk do meanwhile; a kill, a validation over   *)
(* its time and a panel reset break that promise.                          *)
LaunchIsValidated ==
    Never({"kill", "timeout", "reset"}) =>
        (pc = "start" /\ cfg \in Validated => verdict = "ok")

(* A service that its user stopped is launched again only when asked for:  *)
(* no timer or leftover file revives it (service.cc:258, :879). An http    *)
(* check is the exception: its answer may come after the stop.             *)
LaunchIsWanted ==
    Never({"kill", "afterStart"}) /\ ~WatchHttp => (pc = "start" => intent = "up")

(* Calm: nobody calls svdss off, edits the igniter, damages files or       *)
(* touches .afterStop, and no hook is over its time.                       *)
Calm == Never({"kill", "timeout", "edit", "damage", "reset", "afterStop"})

(* Two processes of one service never live at a time, through any order of *)
(* triggers, restarts by the babysitter, crashes of the service, http      *)
(* answers and failing hooks (service.cc:647-663, :895-917).               *)
OneInstance ==
    Calm => \A p, q \in alive : p = q

(* .running tells the truth about a live process whenever svdss is back at *)
(* its loop; a start or stop trusts it (service.cc:656, :882).             *)
LiveIsMarked ==
    Calm => (AtLoop /\ alive # {} => "running" \in files)

(* svdss leaves a graceful shutdown with the service stopped               *)
(* (user_watcher.cc:223-228).                                              *)
GracefulExitStops ==
    Calm => (pc = "exit" => alive = {} /\ "running" \notin files)

(* Back at its loop, svdss looks after a service marked running: the       *)
(* babysitter is active and nothing makes it skip its checks.              *)
Watched ==
    AtLoop /\ "running" \in files /\ "deploying" \notin files
        => babySitter /\ ~Busy(cfg)

(* A running service is watched through every order of starts, stops,      *)
(* restarts and reconfigurations, late hooks, dead processes and damaged   *)
(* pid files (service.cc:260-277, :747-757), unless its igniter expects    *)
(* text of the configure or start hook, which may not come.                *)
RunningIsWatched ==
    /\ Never({"kill", "edit", "disk", "reset", "afterStart", "afterStop"})
    /\ Expecting \cap {"configure", "start"} = {}
    => Watched

(* A new svdss resumes watch on live services after SIGTERM took the old   *)
(* one down (README.md:156-157).                                           *)
WatchResumes ==
    Never(Rough \ {"kill"}) => Watched

(* A running service whose process died is launched again, unless it comes *)
(* back by a hook that outlived its wait, its user stops it or its         *)
(* validation fails (service.cc:323-329).                                  *)
DeadServiceRelaunched ==
    (up /\ "running" \in files /\ pidFile[cfg] \in Pids \ alive)
        ~> \/ pc = "start"
           \/ pidFile[cfg] \in alive
           \/ intent = "down" \/ "validationFailure" \in files

(* A stop touched at any moment is not lost behind the other triggers, the *)
(* babysitter or a start under way: the service does get stopped.          *)
StopHonoured ==
    (up /\ "stop" \in triggers) ~> ("stop" \notin triggers /\ "running" \notin files)

(* Removing the igniter of a watched service stops it, by way of the stop  *)
(* trigger that loading the configuration touches (service_config.cc:207). *)
IgniterRemovedStops ==
    (igniter = Missing /\ "running" \in files)
        ~> (igniter # Missing \/ "running" \notin files)

-----------------------------------------------------------------------------
(* The operation under way and its hook, as HookPlan sees them.            *)
StageOf(l) ==
    CASE l \in {"startSlot", "restartSlot", "reConfigureSlot"} -> "enter"
      [] l \in Hooks -> l
      [] l = "installSlot" -> "install"
      [] l = "configureSlot" -> "configure"
      [] l = "validateSlot" -> "validate"
      [] l = "launch" -> "start"
      [] l = "afterStartSlot" -> "afterStart"
      [] l = "stopSlot" -> "stop"
      [] l = "afterStopSlot" -> "afterStop"
      [] l = "reloadSlot" -> "reload"
      [] OTHER -> "none"

OperationOf(l, g) ==
    IF StageOf(l) = "none" THEN "none"
    ELSE CASE g \in {"start", "boot"} -> "start"
           [] g \in {"restart", "reConfigure"} -> g
           [] g \in {"none", "exit"} ->
                IF StageOf(l) \in {"stop", "afterStop"} THEN "stop" ELSE "single"

Plan == INSTANCE HookPlan WITH
    op <- OperationOf(pc, goal),
    stage <- StageOf(pc),
    runs <- pc \in Hooks,
    configured <- cfg \in configured,
    validates <- cfg \in Validated,
    failed <- "validationFailure" \in files,
    running <- "running" \in files

(* Every operation walks through its hooks in the order of the code        *)
(* (service.cc:638-780, :872-1007, README.md:31-67) and nothing but those  *)
(* hooks changes what the service remembers, through any triggers, deaths, *)
(* damaged pid files, late hooks and shutdowns: the service implements     *)
(* HookPlan as long as svdss is not killed, the igniter not edited and the *)
(* directory not reset.                                                    *)
PlanFollowed == Plan!Spec
=============================================================================
