-------------------------------- MODULE HookPlan --------------------------------
(***************************************************************************)
(* What a service promises about the order of its hooks, whatever files,   *)
(* triggers and processes do meanwhile: an operation walks through its     *)
(* chain one hook at a time, leaves a hook out for its stated reason only, *)
(* and what the service remembers (configured, running, a failed           *)
(* validation) changes with the hooks it depends on and at no other time.  *)
(* ServiceLifecycle implements this specification (PlanFollowed there).    *)
(***************************************************************************)

VARIABLES
    op,         \* the operation under way
    stage,      \* its hook that comes next or runs; "enter" before the first
    runs,       \* that hook runs
    installed,  \* what the service remembers
    configured,
    validates,  \* the igniter has a validate hook
    failed,     \* the last validation failed
    running

control == <<op, stage, runs>>
facts == <<installed, configured, validates, failed, running>>
vars == <<control, facts>>

Hooks == {"install", "configure", "validate", "start", "afterStart",
          "stop", "afterStop", "reload"}

Chained == {"start", "restart", "reConfigure"}

TypeOK ==
    /\ op \in Chained \cup {"none", "stop", "single"}
    /\ stage \in Hooks \cup {"none", "enter"}
    /\ runs \in BOOLEAN
    /\ installed \in BOOLEAN /\ configured \in BOOLEAN /\ validates \in BOOLEAN
    /\ failed \in BOOLEAN /\ running \in BOOLEAN

Init ==
    /\ op = "none" /\ stage = "none" /\ runs = FALSE
    /\ installed \in BOOLEAN /\ validates \in BOOLEAN
    /\ configured = FALSE /\ failed = FALSE /\ running = FALSE

At(o, s) == op' = o /\ stage' = s /\ runs' = FALSE

Over == At("none", "none")

(* Where an operation goes from a hook: its chain, and the chains it calls. *)
FollowUp(h) ==
    CASE op = "start" /\ h = "install" /\ ~configured -> At("start", "configure")
      [] op = "start" /\ h = "install" /\ configured -> At("start", "validate")
      [] op = "start" /\ h = "configure" -> At("start", "validate")
      [] op = "start" /\ h = "validate" -> At("start", "start")
      [] op = "start" /\ h = "start" -> At("start", "afterStart")
      [] op = "reConfigure" /\ h = "configure" -> At("restart", "enter")
      [] op = "stop" /\ h = "stop" -> At("stop", "afterStop")
      [] op = "restart" /\ h = "stop" -> At("restart", "afterStop")
      [] op = "restart" /\ h = "afterStop" -> At("start", "enter")
      [] OTHER -> Over

-----------------------------------------------------------------------------
(* How the facts may change. Only a step that says so below changes one    *)
(* another way.                                                            *)
InstalledKept == installed => installed'
FailedKept == failed => failed'

Ask ==
    /\ op = "none"
    /\ \/ \E o \in Chained : At(o, "enter")
       \/ \E h \in {"stop", "afterStop"} : At("stop", h)
       \/ \E h \in Hooks : At("single", h)
    /\ UNCHANGED facts

(* A start may be refused, when the service runs or the disk is full; so   *)
(* may a restart, while svdss is asked to shut down.                       *)
Enter ==
    /\ stage = "enter"
    /\ \/ op = "start" /\ ~running /\ At("start", "install") /\ UNCHANGED configured
       \/ op = "restart" /\ At("restart", "stop") /\ UNCHANGED configured
       \/ op = "reConfigure" /\ At("reConfigure", "configure") /\ configured' = FALSE
       \/ op \in {"start", "restart"} /\ Over /\ UNCHANGED configured
    /\ UNCHANGED <<installed, validates, failed, running>>

Needless(h) ==
    CASE h = "install" -> installed
      [] h = "configure" -> configured
      [] h = "validate" -> ~validates
      [] OTHER -> FALSE

Skip ==
    /\ ~runs
    /\ stage \in Hooks
    /\ Needless(stage)
    /\ FollowUp(stage)
    /\ UNCHANGED facts

(* Nothing runs: neither the stop hook nor the one after it is called.     *)
SkipStop ==
    /\ ~runs /\ ~running
    /\ stage = "stop"
    /\ IF op = "restart" THEN At("start", "enter") ELSE Over
    /\ UNCHANGED facts

(* The service is not launched when its validation failed.                 *)
Refuse ==
    /\ ~runs /\ failed
    /\ stage = "start"
    /\ Over
    /\ UNCHANGED facts

Run ==
    /\ ~runs
    /\ stage \in Hooks
    /\ ~Needless(stage)
    /\ stage = "start" => ~failed
    /\ stage = "stop" => running
    /\ runs' = TRUE
    /\ failed' = (stage # "validate" /\ failed)
    /\ UNCHANGED <<op, stage, installed, configured, validates, running>>

(* The hook ended or was waited for long enough.                           *)
End ==
    /\ runs
    /\ FollowUp(stage)
    /\ configured' \in {configured, configured \/ stage = "configure"}
    /\ running' \in CASE stage \in {"start", "afterStart"} -> {TRUE}
                      [] stage = "stop" -> {running, FALSE}
                      [] stage = "afterStop" -> {FALSE}
                      [] OTHER -> {running}
    /\ failed' = (stage # "stop" /\ failed)
    /\ UNCHANGED <<installed, validates>>

(* What hooks do, also those that outlived their wait.                     *)
Effect ==
    /\ InstalledKept /\ FailedKept
    /\ UNCHANGED <<control, configured, validates, running>>

Next == Ask \/ Enter \/ Skip \/ SkipStop \/ Refuse \/ Run \/ End \/ Effect

Spec == Init /\ [][Next]_vars
=============================================================================
