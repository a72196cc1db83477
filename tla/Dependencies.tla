------------------------------ MODULE Dependencies ------------------------------
(***************************************************************************)
(* Services that depend on each other under one svdss: startSlot,          *)
(* stopSlot and restartSlot with their dependencies, and the babysitter,   *)
(* which adopts dependencies that its service has not launched itself.     *)
(*                                                                         *)
(* A service may have many SvdService objects: that of its watcher, and    *)
(* one for every time another service launched or adopted it. heap holds   *)
(* them in order of creation. What svdss has still to do before it is back *)
(* at its loop are the tasks, the next one first: a slot that calls slots  *)
(* puts theirs in front. The hooks of one service are ServiceLifecycle's:  *)
(* here the touches and removals of a slot between two calls of slots are  *)
(* one step, except for the death of svdss, which may come amid them. A    *)
(* hook that outlives svdss has its effect at once.                        *)
(***************************************************************************)
EXTENDS Naturals, Sequences, Functions

CONSTANTS
    Names,         \* the services, in the order of their directories
    Requires,      \* Requires[s]: its dependencies, in the order of startOrder
    Autostart,     \* services with an .autostart file
    Requests,      \* the triggers that users touch
    Disturbances,  \* kinds of outside events
    MaxEvents      \* bound on both

Services == Range(Names)

StartTriggers == {"start", "startWithoutDeps"}
StopTriggers == {"stop", "stopWithoutDeps"}
RestartTriggers == {"restart", "restartWithoutDeps"}
TriggerNames == StartTriggers \cup StopTriggers \cup RestartTriggers

Kinds == {"kill", "shutdown", "shutdownGracefully", "die", "refuse", "fail"}

(* What some promise does not survive: svdss dies at its loop or amid its  *)
(* tasks; it dies between a start hook and the mark of the service; a      *)
(* start hook misses what it expects; the disk is full when a running      *)
(* service is resumed; a start is refused; a request is for a service      *)
(* alone; a service is stopped under one that needs it; a service is       *)
(* stopped by an object that lacks what another object of that service     *)
(* lists; a shutdown file is there before svdss listens to its directory.  *)
Rough == {"down", "cut", "stray", "missed", "full", "refuse", "alone", "under",
          "forget", "unheard"}

(* The indicators that the hooks of a start and of a stop keep while they  *)
(* run. Those of a deployment and of a reload belong to other modules.     *)
Indicators == {"installing", "configuring", "validating", "afterStarting", "afterStopping"}

ASSUME DependenciesAssumption ==
    /\ Names \in Seq(Services)
    /\ Requires \in [Services -> Seq(Services)]
    /\ Autostart \subseteq Services
    /\ Requests \subseteq TriggerNames
    /\ Disturbances \subseteq Kinds
    /\ MaxEvents \in Nat

Needs(s) == Range(Requires[s])

VARIABLES
    up,         \* svdss is alive
    tasks,      \* what its thread has still to do
    heap,       \* its SvdService objects
    configured, \* services with a .configured file
    running,    \* services with a .running file
    leftovers,  \* indicators that outlived their svdss, <<service, name>>
    pids,       \* services with a service.pid, which no stop removes
    alive,      \* services with a live process
    triggers,   \* trigger files, <<service, name>>
    control,    \* ~/.shutdown and ~/.shutdownGracefully, when present
    spent,      \* outside events so far
    happened,   \* history: the Rough things so far
    wanted      \* history: services started by a trigger of their own

memory == <<up, tasks, heap>>
marks == <<configured, running, leftovers>>
processes == <<pids, alive>>
asked == <<triggers, control>>
history == <<spent, happened, wanted>>
vars == <<memory, marks, processes, asked, history>>

Object == [of : Services, deps : Seq(Nat), sits : BOOLEAN, watcher : BOOLEAN]

Task == [do : {"start", "stop"}, at : Nat, deps : BOOLEAN]
        \cup [do : {"resume", "launch", "afterStop"}, at : Nat]
        \cup [do : {"startDep"}, at : Nat, service : Services]
        \cup [do : {"watch"}, service : Services]
        \cup [do : {"listen", "exit"}]

ObjectTasks == {"start", "stop", "resume", "launch", "afterStop", "startDep"}

TypeOK ==
    /\ up \in BOOLEAN
    /\ tasks \in Seq(Task) /\ heap \in Seq(Object)
    /\ \A i \in DOMAIN tasks : tasks[i].do \in ObjectTasks => tasks[i].at \in DOMAIN heap
    /\ \A o \in DOMAIN heap : Range(heap[o].deps) \subseteq DOMAIN heap
    /\ configured \subseteq Services /\ running \subseteq Services
    /\ leftovers \subseteq Services \X Indicators
    /\ alive \subseteq pids /\ pids \subseteq Services
    /\ triggers \subseteq Services \X TriggerNames
    /\ control \subseteq {"shutdown", "shutdownGracefully"}
    /\ spent \in 0..MaxEvents
    /\ happened \subseteq Rough
    /\ wanted \subseteq Services

Init ==
    /\ up = FALSE /\ tasks = <<>> /\ heap = <<>>
    /\ configured = {} /\ running = {} /\ leftovers = {} /\ pids = {} /\ alive = {}
    /\ triggers = {} /\ control = {}
    /\ spent = 0 /\ happened = {} /\ wanted = {}

-----------------------------------------------------------------------------
AtLoop == up /\ tasks = <<>>

Event(kind) ==
    /\ kind \in Disturbances \cup Requests
    /\ spent < MaxEvents
    /\ spent' = spent + 1

Happens(kinds) == happened' = happened \cup kinds

Of(o) == heap[o].of

(* The next task, carried out, leaves these in its place.                  *)
Doing(do) == tasks # <<>> /\ Head(tasks).do = do

Pending(do) == {i \in DOMAIN tasks : tasks[i].do = do}

Calls(first) == tasks' = first \o Tail(tasks)

Returns == Calls(<<>>)

Call(do, o, deps) == [do |-> do, at |-> o, deps |-> deps]

New(s, watches) == [of |-> s, deps |-> <<>>, sits |-> FALSE, watcher |-> watches]

Sits(o, active) == heap' = [heap EXCEPT ![o].sits = active]

-----------------------------------------------------------------------------
(* startSlot up to its first dependency: installs and configures the       *)
(* service and all its direct dependencies, of which one may miss what it  *)
(* expects. Whoever has a .configuring left is taken for busy with it; an  *)
(* .installing left goes with the next hook, unless the software is there. *)
Start ==
    LET o == Head(tasks).at  s == Of(o)
        need == IF Head(tasks).deps THEN Requires[s] ELSE <<>>
        targets == {s} \cup Range(need)
        free == {t \in targets : <<t, "configuring">> \notin leftovers}
    IN  /\ Doing("start")
        /\ \/ /\ s \in running
              /\ Sits(o, TRUE)
              /\ Returns
              /\ UNCHANGED <<configured, leftovers, spent, happened>>
           \/ /\ s \notin running
              /\ \/ configured' = configured \cup free /\ UNCHANGED spent
                 \/ Event("fail") /\ \E t \in targets : configured' = configured \cup (free \ {t})
              /\ \E t \in SUBSET targets : leftovers' = leftovers \ (t \X {"installing"})
              /\ Calls([i \in DOMAIN need |->
                          [do |-> "startDep", at |-> o, service |-> need[i]]]
                       \o <<[do |-> "launch", at |-> o]>>)
              /\ UNCHANGED <<heap, happened>>
           \/ /\ Event("refuse") /\ Happens(IF s \in running THEN {"full"} ELSE {"refuse"})
              /\ Returns
              /\ UNCHANGED <<heap, configured, leftovers>>
        /\ UNCHANGED <<up, running, processes, asked, wanted>>

StartDepShallow == \* Mutated: a dependency is started without its own
    LET o == Head(tasks).at  d == Head(tasks).service  child == Len(heap) + 1
    IN  /\ Doing("startDep") /\ d \notin running
        /\ heap' = Append([heap EXCEPT ![o].deps = Append(@, child)], New(d, FALSE))
        /\ Calls(<<Call("start", child, FALSE)>>)
        /\ UNCHANGED <<up, marks, processes, asked, history>>

(* One dependency: a new object for it, unless it is marked running.       *)
StartDep ==
    LET o == Head(tasks).at  d == Head(tasks).service  child == Len(heap) + 1
    IN  /\ Doing("startDep")
        /\ \/ /\ d \in running
              /\ Returns
              /\ UNCHANGED heap
           \/ /\ d \notin running
              /\ heap' = Append([heap EXCEPT ![o].deps = Append(@, child)], New(d, FALSE))
              /\ Calls(<<Call("start", child, TRUE)>>)
        /\ UNCHANGED <<up, marks, processes, asked, history>>

Lives(s) == pids' = pids \cup {s} /\ alive' = alive \cup {s}

(* Validation, the start hook, the timers and the mark. A start hook that  *)
(* misses what it expects, whether or not a process came of it, starts no  *)
(* timer, and the service is marked all the same. With a .validating left, *)
(* an old failure of the validation stands.                                *)
Launch ==
    LET o == Head(tasks).at  s == Of(o)
    IN  /\ Doing("launch")
        /\ Returns
        /\ \/ /\ running' = running \cup {s}
              /\ \/ Sits(o, TRUE) /\ Lives(s) /\ UNCHANGED <<spent, happened>>
                 \/ Event("fail") /\ Sits(o, TRUE) /\ UNCHANGED <<processes, happened>>
                 \/ /\ Event("fail") /\ Happens({"missed"})
                    /\ Lives(s) \/ UNCHANGED processes
                    /\ UNCHANGED heap
           \/ /\ \/ Event("refuse")
                 \/ <<s, "validating">> \in leftovers /\ UNCHANGED spent
              /\ Happens({"refuse"})
              /\ UNCHANGED <<running, heap, processes>>
        /\ UNCHANGED <<up, configured, leftovers, asked, wanted>>

(* A running service needs this one, and nothing is about to start.        *)
Under(s) ==
    /\ \E t \in running \ {Of(tasks[i].at) : i \in Pending("afterStop")} : s \in Needs(t)
    /\ Pending("start") = {}

(* The services of the objects in the list of one. *)
Adopted(o) == {Of(heap[o].deps[i]) : i \in DOMAIN heap[o].deps}

(* A dependency that runs is in the list of another object of the service, *)
(* and not in this one's, and nothing is about to start. Lists only grow:  *)
(* the one of an earlier start does not name what already ran then.        *)
Forgets(o) ==
    /\ \E p \in DOMAIN heap : Of(p) = Of(o) /\ ~(Adopted(p) \cap running \subseteq Adopted(o))
    /\ Pending("start") = {}

StopShallow == \* Mutated: the dependencies of dependencies go on
    LET o == Head(tasks).at  s == Of(o)  deps == heap[o].deps
    IN  /\ Doing("stop") /\ s \in running
        /\ Sits(o, FALSE)
        /\ running' = running \ {s} /\ alive' = alive \ {s}
        /\ Calls([i \in DOMAIN deps |-> Call("stop", deps[i], FALSE)]
                 \o <<[do |-> "afterStop", at |-> o]>>)
        /\ UNCHANGED <<up, configured, leftovers, pids, asked, history>>

(* The service first, then the objects of its dependencies; a service that *)
(* is not marked running leaves its dependencies alone.                    *)
Stop ==
    LET o == Head(tasks).at  s == Of(o)
        deps == IF Head(tasks).deps THEN heap[o].deps ELSE <<>>
    IN  /\ Doing("stop")
        /\ Sits(o, FALSE)
        /\ \/ /\ s \notin running
              /\ Returns
              /\ UNCHANGED <<running, leftovers, alive, happened>>
           \/ /\ s \in running
              /\ running' = running \ ({s} \cap pids)
              /\ alive' = alive \ {s}
              /\ leftovers' = leftovers \ ({s} \X Indicators)
              /\ Calls([i \in DOMAIN deps |-> Call("stop", deps[i], TRUE)]
                       \o <<[do |-> "afterStop", at |-> o]>>)
              /\ Happens((IF Under(s) THEN {"under"} ELSE {})
                         \cup (IF Forgets(o) THEN {"forget"} ELSE {}))
        /\ UNCHANGED <<up, configured, pids, asked, spent, wanted>>

(* Not for a service that seems to be at it. *)
AfterStop ==
    LET s == Of(Head(tasks).at)
    IN  /\ Doing("afterStop")
        /\ running' = IF <<s, "afterStopping">> \in leftovers THEN running ELSE running \ {s}
        /\ Returns
        /\ UNCHANGED <<up, heap, configured, leftovers, processes, asked, history>>

RestartWithoutStop(o, deps) == \* Mutated: takes the mark for a live process
    <<Call("start", o, deps)>>

(* restartSlot, which a shutdown under way keeps from doing anything.      *)
Restart(o, deps) ==
    IF "shutdown" \in control THEN <<>>
    ELSE <<Call("stop", o, deps), Call("start", o, deps)>>

-----------------------------------------------------------------------------
(* What the loop delivers.                                                 *)

(* The object of a service's watcher. *)
Watcher(s) == CHOOSE o \in DOMAIN heap : Of(o) = s /\ heap[o].watcher

Refused(s, t) ==
    \/ t \in StartTriggers /\ s \in running
    \/ t \in StopTriggers /\ s \notin running

Alone(t) == t \in {"startWithoutDeps", "stopWithoutDeps", "restartWithoutDeps"}

Slot(t, o) == CASE t \in StartTriggers -> <<Call("start", o, ~Alone(t))>>
                [] t \in StopTriggers -> <<Call("stop", o, ~Alone(t))>>
                [] t \in RestartTriggers -> Restart(o, ~Alone(t))

Obey ==
    /\ AtLoop
    /\ \E s \in Services, t \in TriggerNames :
         /\ <<s, t>> \in triggers
         /\ triggers' = triggers \ {<<s, t>>}
         /\ \/ /\ Refused(s, t)
               /\ UNCHANGED <<tasks, happened, wanted>>
            \/ /\ ~Refused(s, t)
               /\ tasks' = Slot(t, Watcher(s))
               /\ Happens(IF Alone(t) THEN {"alone"} ELSE {})
               /\ wanted' = CASE t \in StopTriggers -> wanted \ {s}
                              [] tasks' # <<>> /\ s \notin running -> wanted \cup {s}
                              [] OTHER -> wanted
    /\ UNCHANGED <<up, heap, marks, processes, control, spent>>

(* The direct dependencies that no object in the list is of.               *)
Orphans(o) == Needs(Of(o)) \ Adopted(o)

(* They are adopted in the order in which the igniter first names them.    *)
Listed(q, list) ==
    \A a, b \in DOMAIN q : a < b =>
        \E i \in DOMAIN list : list[i] = q[a] /\ \A j \in 1..i : list[j] # q[b]

Adoptions(o) ==
    {q \in UNION {[1..n -> Orphans(o)] : n \in 0..Len(Requires[Of(o)])} :
        Range(q) = Orphans(o) /\ Listed(q, Requires[Of(o)])}

(* Whoever looks busy, or was never configured, is not watched.            *)
Busy(s) == s \notin configured \/ \E f \in Indicators : <<s, f>> \in leftovers

BabySitterSlotAlone(o) == \* Mutated: adopts nothing
    LET s == Of(o)
    IN  /\ ~Busy(s)
        /\ \/ s \notin running /\ Sits(o, FALSE) /\ UNCHANGED tasks
           \/ s \in running \cap (pids \ alive) /\ tasks' = Restart(o, TRUE) /\ UNCHANGED heap
        /\ UNCHANGED <<up, marks, processes, asked, history>>

BabySitterSlot(o) ==
    LET s == Of(o)
    IN  /\ ~Busy(s)
        /\ \/ /\ s \notin running
              /\ Sits(o, FALSE)
              /\ UNCHANGED tasks
           \/ /\ s \in running \cap (pids \ alive)
              /\ tasks' = Restart(o, TRUE)
              /\ UNCHANGED heap
           \/ /\ s \in running \ (pids \ alive)
              /\ Orphans(o) # {}
              /\ \E q \in Adoptions(o) :
                   heap' = [heap EXCEPT ![o].deps = @ \o [i \in DOMAIN q |-> Len(heap) + i]]
                           \o [i \in DOMAIN q |-> New(q[i], FALSE)]
              /\ UNCHANGED tasks
        /\ UNCHANGED <<up, marks, processes, asked, history>>

BabySitters ==
    /\ AtLoop
    /\ \E o \in DOMAIN heap : heap[o].sits /\ BabySitterSlot(o)

-----------------------------------------------------------------------------
(* Boots and deaths of svdss. Watchers are made in the order of names,     *)
(* and svdss listens to ~ only when all have started their services.       *)
Boot ==
    /\ ~up
    /\ up' = TRUE
    /\ tasks' = [i \in DOMAIN Names |-> [do |-> "watch", service |-> Names[i]]]
               \o <<[do |-> "listen"]>>
    /\ UNCHANGED <<heap, marks, processes, asked, history>>

Watch ==
    LET s == Head(tasks).service  o == Len(heap) + 1
    IN  /\ Doing("watch")
        /\ heap' = Append(heap, New(s, TRUE))
        /\ Calls((IF s \in Autostart THEN <<Call("start", o, TRUE)>> ELSE <<>>)
                 \o <<[do |-> "resume", at |-> o]>>)
        /\ UNCHANGED <<up, marks, processes, asked, history>>

ResumeForgotten == \* Mutated: leaves a running service alone
    /\ Doing("resume")
    /\ Returns
    /\ UNCHANGED <<up, heap, marks, processes, asked, history>>

(* A service found running is started, which only starts its timers.       *)
Resume ==
    LET o == Head(tasks).at
    IN  /\ Doing("resume")
        /\ Calls(IF Of(o) \in running THEN <<Call("start", o, TRUE)>> ELSE <<>>)
        /\ UNCHANGED <<up, heap, marks, processes, asked, history>>

Listen ==
    /\ Doing("listen")
    /\ Returns
    /\ Happens(IF control = {} THEN {} ELSE {"unheard"})
    /\ UNCHANGED <<up, heap, marks, processes, asked, spent, wanted>>

GoneUnfinished == \* Mutated: leaves work behind
    up' = FALSE /\ heap' = <<>> /\ UNCHANGED tasks

(* The objects and the thread are gone with the process; files remain.     *)
Gone == up' = FALSE /\ tasks' = <<>> /\ heap' = <<>>

CheckUserControlTriggersHasty == \* Mutated: exits before the services stop
    /\ AtLoop
    /\ "shutdownGracefully" \in control
    /\ control' = control \ {"shutdownGracefully"}
    /\ tasks' = <<[do |-> "exit"]>>
               \o [i \in DOMAIN Names |-> Call("stop", Watcher(Names[i]), TRUE)]
    /\ UNCHANGED <<up, heap, marks, processes, triggers, history>>

CheckUserControlTriggers ==
    /\ AtLoop
    /\ \/ /\ "shutdownGracefully" \in control
          /\ control' = control \ {"shutdownGracefully"}
          /\ tasks' = [i \in DOMAIN Names |-> Call("stop", Watcher(Names[i]), TRUE)]
                     \o <<[do |-> "exit"]>>
          /\ UNCHANGED <<up, heap, happened>>
       \/ /\ control = {"shutdown"}
          /\ control' = {}
          /\ Gone
          /\ Happens({"down"})
    /\ UNCHANGED <<marks, processes, triggers, spent, wanted>>

Exit ==
    /\ Doing("exit")
    /\ Gone
    /\ Happens({"down"})
    /\ wanted' = {}
    /\ UNCHANGED <<marks, processes, asked, spent>>

(* What a death amid the next task leaves of it: a start amid a hook for   *)
(* the service itself or, with that done, for one of the others; a launch  *)
(* amid validation, past the start hook or amid afterStart; a stop with    *)
(* its process gone and the mark perhaps still there; an afterStop.        *)
HalfStarted ==
    LET s == Of(Head(tasks).at)
        targets == {s} \cup (IF Head(tasks).deps THEN Needs(s) ELSE {})
        free == {t \in targets : <<t, "configuring">> \notin leftovers}
    IN  /\ Doing("start") /\ s \notin running
        /\ \E t \in targets, done \in SUBSET targets, f \in {"installing", "configuring"} :
             /\ t \notin done /\ s \in done \cup {t} /\ (t = s => done = {})
             /\ f = "configuring" => t \notin configured
             /\ \E met \in SUBSET (done \cap free) : configured' = configured \cup met
             /\ leftovers' = leftovers \cup {<<t, f>>}
        /\ UNCHANGED <<running, processes>>

HalfLaunched ==
    LET s == Of(Head(tasks).at)
    IN  /\ Doing("launch")
        /\ \/ /\ leftovers' = leftovers \cup {<<s, "validating">>}
              /\ UNCHANGED <<running, processes>>
           \/ /\ leftovers' = leftovers \cup {<<s, "afterStarting">>}
              /\ running' = running \cup {s}
              /\ Lives(s)
        /\ UNCHANGED configured

Unmarked ==
    /\ Doing("launch")
    /\ Lives(Of(Head(tasks).at))
    /\ UNCHANGED marks

HalfStopped ==
    LET s == Of(Head(tasks).at)
    IN  /\ Doing("stop") /\ s \in running
        /\ alive' = alive \ {s}
        /\ \/ UNCHANGED <<running, leftovers>>
           \/ /\ running' = running \ ({s} \cap pids)
              /\ \E removed \in SUBSET Indicators : leftovers' = leftovers \ ({s} \X removed)
        /\ UNCHANGED <<configured, pids>>

HalfAfterStopped ==
    /\ Doing("afterStop")
    /\ leftovers' = leftovers \cup {<<Of(Head(tasks).at), "afterStopping">>}
    /\ UNCHANGED <<configured, running, processes>>

(* SIGTERM, or worse. *)
Killed ==
    /\ up
    /\ Event("kill")
    /\ Gone
    /\ \/ Unmarked /\ Happens({"down", "cut", "stray"})
       \/ /\ \/ HalfStarted \/ HalfLaunched \/ HalfStopped \/ HalfAfterStopped
             \/ UNCHANGED <<marks, processes>>
          /\ Happens({"down"} \cup (IF tasks = <<>> THEN {} ELSE {"cut"}))
    /\ UNCHANGED <<asked, wanted>>

-----------------------------------------------------------------------------
(* Users and processes. *)
Touch(s, t) ==
    /\ Event(t)
    /\ triggers' = triggers \cup {<<s, t>>}
    /\ UNCHANGED <<memory, marks, processes, control, happened, wanted>>

TouchControl(f) ==
    /\ up
    /\ Event(f)
    /\ control' = control \cup {f}
    /\ UNCHANGED <<memory, marks, processes, triggers, happened, wanted>>

ProcessDies(s) ==
    /\ s \in alive
    /\ Event("die")
    /\ alive' = alive \ {s}
    /\ UNCHANGED <<memory, marks, pids, asked, happened, wanted>>

SlotStep == Start \/ StartDep \/ Launch \/ Stop \/ AfterStop
            \/ Watch \/ Resume \/ Listen \/ Exit

Next ==
    \/ SlotStep
    \/ Obey \/ BabySitters \/ CheckUserControlTriggers
    \/ Boot \/ Killed
    \/ \E s \in Services, t \in TriggerNames : Touch(s, t)
    \/ \E f \in {"shutdown", "shutdownGracefully"} : TouchControl(f)
    \/ \E s \in Services : ProcessDies(s)

Spec == Init /\ [][Next]_vars

(* The thread of svdss goes on inside a slot, is started again after its   *)
(* death, and its loop serves the shutdown files that it has heard of and  *)
(* the timers that expire again and again.                                 *)
Fairness ==
    /\ WF_vars(SlotStep) /\ WF_vars(Boot)
    /\ WF_vars("unheard" \notin happened /\ CheckUserControlTriggers)
    /\ SF_vars(BabySitters)

FairSpec == Spec /\ Fairness

-----------------------------------------------------------------------------
(* Properties. *)

Never(kinds) == happened \cap kinds = {}

(* Back at the loop, every service marked running has its direct           *)
(* dependencies marked running, through any starts, restarts, shared and   *)
(* adopted dependencies, dead processes and reboots (service.cc:699-721,   *)
(* :938-950), unless svdss was killed amid a slot, a start was refused,    *)
(* a request left the dependencies out, or a stop of one service took      *)
(* away what another one needs.                                            *)
DependenciesRun ==
    AtLoop /\ Never({"cut", "refuse", "alone", "under"}) =>
        \A s \in running : Needs(s) \subseteq running

(* Whatever is marked running when svdss is at its loop has a babysitter   *)
(* among the many objects of the service, so that a dead process is        *)
(* noticed; a stop by one object never leaves a service running that       *)
(* another one has launched, and no death of svdss amid a slot leaves a    *)
(* service that the next svdss does not watch (service.cc:299-329,         *)
(* :661-663, :750-753). A start hook that missed what it expects leaves    *)
(* the service marked without one (:746-749, :768).                        *)
RunningIsSat ==
    AtLoop /\ Never({"full", "missed"}) =>
        \A s \in running : \E o \in DOMAIN heap : Of(o) = s /\ heap[o].sits

(* A dependency that was started only because another service needs it     *)
(* does not outlive that service, whatever restarts, deaths and launches   *)
(* by several services came between (service.cc:938-950), as long as no    *)
(* service is stopped by an object that does not list a dependency which   *)
(* another object of that service does.                                    *)
NoneLeftBehind ==
    AtLoop /\ Never({"down", "alone", "refuse", "forget"}) =>
        \A d \in running \ (wanted \cup Autostart) :
            \E s \in running : d \in Needs(s)

(* A graceful shutdown leaves no process of any service behind             *)
(* (user_watcher.cc:223-228, README.md:157), whatever earlier deaths of    *)
(* svdss amid its slots and failing hooks have left, unless one came       *)
(* between a start hook and the mark (service.cc:743-768): a service that  *)
(* is not marked running is not stopped (:888-893).                        *)
GracefulExitStopsAll ==
    up /\ Doing("exit") /\ Never({"stray"}) => alive = {} /\ running = {}

(* A service whose process died is launched again by one of its objects,   *)
(* through shutdowns and deaths of svdss, shared dependencies and failing  *)
(* hooks, or else it is not marked running any longer (service.cc:323-329).*)
(* Not while it looks busy, for the indicator that a svdss killed amid a   *)
(* hook left (:258-272), nor when its start hook missed what it expects    *)
(* (:746-749); on a full disk the new svdss does not watch it, and with a  *)
(* .shutdown it has not heard of it restarts nothing.                      *)
DeadRelaunched ==
    \A s \in Services :
        (up /\ s \in running \cap (pids \ alive) /\ ~Busy(s))
            ~> \/ s \in alive \/ s \notin running \/ Busy(s)
               \/ ~Never({"full", "unheard", "missed"})

(* After a death of svdss, a running service gets its dependencies back    *)
(* into the list that its stop works through (README.md:156,               *)
(* service.cc:481-495), on the same conditions.                            *)
TreeRebuilt ==
    \A s \in {t \in Services : Needs(t) # {}} :
        (up /\ s \in running /\ ~Busy(s))
            ~> \/ s \notin running \/ Busy(s)
               \/ ~Never({"full", "unheard", "missed"})
               \/ \E o \in DOMAIN heap : Of(o) = s /\ Orphans(o) = {}
=============================================================================
