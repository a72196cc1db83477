-------------------------------- MODULE Spawner --------------------------------
(***************************************************************************)
(* The svdss processes of one user and what their SvdUserWatchers notice:  *)
(* the pid file that keeps a second svdss away, the list of services, the  *)
(* watches on ~ , on ~/SoftwareData and on each service directory, and the *)
(* two ways to shut down. A launch that finds the pid file of a live       *)
(* process exits; between this test and its own pid file, and during a     *)
(* graceful shutdown, nothing keeps two processes apart, and they share    *)
(* every file. A service is its mark and its processes; the hooks between  *)
(* them are ServiceLifecycle's, other services it needs Dependencies'.     *)
(***************************************************************************)
EXTENDS Naturals, Sequences, FiniteSets, SequencesExt

CONSTANTS
    Procs,          \* process ids of svdss
    NoPid, BadPid,  \* no pid file; one whose contents is no number
    Services,       \* the services
    Autostart,      \* services with autostart
    Present,        \* services with a directory when a behaviour begins
    Disturbances,   \* kinds of outside events
    MaxEvents       \* bound on them

Kinds == {"launch", "kill", "damage", "reuse", "shutdown", "shutdownGracefully",
          "die", "mkdir", "rmdir", "igniter", "start", "stop"}

(* What some promise does not survive: two launches between test and lock; *)
(* a launch during a graceful shutdown; the pid of a dead svdss is given   *)
(* to another program; a directory that svdss knows gets its igniter, or   *)
(* is removed and made anew, before svdss looks; one is made or removed    *)
(* while svdss launches services before it listens; a trigger comes before *)
(* the watcher of its service; a shutdown file comes before the watch of   *)
(* ~; svdss is killed after a start hook and before it marks the service.  *)
Rough == {"together", "grace", "reuse", "late", "swap", "boot", "early", "unheard", "cut"}

ASSUME SpawnerAssumption ==
    /\ NoPid \notin Procs /\ BadPid \notin Procs /\ NoPid # BadPid
    /\ IsFiniteSet(Services)
    /\ Autostart \subseteq Services /\ Present \subseteq Services
    /\ Disturbances \subseteq Kinds
    /\ MaxEvents \in Nat

VARIABLES
    pc,         \* pc[p]: where a svdss is, "off" if it does not live
    jobs,       \* jobs[p]: what its thread does before it goes on
    known,      \* known[p]: the names in its list of services
    watched,    \* watched[p]: the services it has a watcher for
    heard,      \* heard[p]: those whose directory it still listens to
    noticed,    \* noticed[p]: those whose directory has changed
    news,       \* news[p]: "home" and "data", when that directory has changed
    sits,       \* sits[p]: services its babysitters look after
    pidFile,    \* contents of the pid file of svdss
    strangers,  \* pids of dead svdss processes that other programs got
    dirs, igniters,  \* services with a directory, with an igniter
    triggers,   \* trigger files, <<service, name>>
    control,    \* ~/.shutdown and ~/.shutdownGracefully, when present
    marked,     \* services with a .running file
    named,      \* services whose service.pid names a live process
    stray,      \* services with a live process that service.pid does not name
    spent,      \* outside events so far
    happened    \* history: the Rough things so far

memory == <<known, watched, heard, sits>>
ears == <<noticed, news>>
disk == <<dirs, igniters, triggers>>
lock == <<pidFile, strangers>>
service == <<marked, named, stray>>
events == <<spent, happened>>
vars == <<pc, jobs, memory, ears, lock, disk, control, service, events>>

Job == [do : {"watch", "start", "mark", "stop", "unmark"}, service : Services]

TypeOK ==
    /\ pc \in [Procs -> {"off", "reads", "writes", "collects", "registers", "loops", "stops"}]
    /\ jobs \in [Procs -> Seq(Job)]
    /\ known \in [Procs -> SUBSET Services] /\ watched \in [Procs -> SUBSET Services]
    /\ heard \in [Procs -> SUBSET Services] /\ \A p \in Procs : heard[p] \subseteq dirs
    /\ noticed \in [Procs -> SUBSET Services]
    /\ news \in [Procs -> SUBSET {"home", "data"}]
    /\ sits \in [Procs -> SUBSET Services]
    /\ pidFile \in Procs \cup {NoPid, BadPid}
    /\ strangers \subseteq Procs
    /\ dirs \subseteq Services /\ igniters \subseteq Services
    /\ triggers \subseteq Services \X {"start", "stop"}
    /\ control \subseteq {"shutdown", "shutdownGracefully"}
    /\ marked \subseteq Services /\ named \subseteq Services /\ stray \subseteq Services
    /\ spent \in 0..MaxEvents
    /\ happened \subseteq Rough

Init ==
    /\ pc = [p \in Procs |-> "off"] /\ jobs = [p \in Procs |-> <<>>]
    /\ known = [p \in Procs |-> {}] /\ watched = [p \in Procs |-> {}]
    /\ heard = [p \in Procs |-> {}] /\ noticed = [p \in Procs |-> {}]
    /\ news = [p \in Procs |-> {}] /\ sits = [p \in Procs |-> {}]
    /\ pidFile = NoPid /\ strangers = {}
    /\ dirs = Present /\ igniters \in {Present, Services}
    /\ triggers = {} /\ control = {}
    /\ marked = {} /\ named = {} /\ stray = {}
    /\ spent = 0 /\ happened = {}

-----------------------------------------------------------------------------
Event(kind) ==
    /\ kind \in Disturbances
    /\ spent < MaxEvents
    /\ spent' = spent + 1

Happens(kinds) == happened' = happened \cup kinds

At(p, stage) == pc[p] = stage /\ jobs[p] = <<>>
GoTo(p, stage) == pc' = [pc EXCEPT ![p] = stage]

Works(p) == pc[p] \in {"collects", "registers", "loops", "stops"}
Listens(p) == pc[p] \in {"loops", "stops"}

Alive(p) == pc[p] # "off" \/ p \in strangers

(* A change in ~ or in ~/SoftwareData, in a service directory; a svdss     *)
(* whose thread is busy learns of it when it is back at its loop.          *)
Changed(where) ==
    news' = [p \in Procs |-> IF Listens(p) THEN news[p] \cup {where} ELSE news[p]]

Notices(s) ==
    noticed' = [p \in Procs |-> IF s \in heard[p] THEN noticed[p] \cup {s} ELSE noticed[p]]

(* svdss has not looked since the directory that it knew was removed.      *)
Unseen(p, s) == s \in known[p] /\ "data" \in news[p]

(* The process is gone, and its memory. *)
Gone(p) ==
    /\ pc' = [pc EXCEPT ![p] = "off"]
    /\ jobs' = [jobs EXCEPT ![p] = <<>>]
    /\ known' = [known EXCEPT ![p] = {}] /\ watched' = [watched EXCEPT ![p] = {}]
    /\ heard' = [heard EXCEPT ![p] = {}] /\ sits' = [sits EXCEPT ![p] = {}]

Deaf(p, ear) == [ear EXCEPT ![p] = {}]

-----------------------------------------------------------------------------
(* The start of svdss: main, and the init of its SvdUserWatcher.           *)

(* A new process gets a pid that is not in use and not in the pid file.    *)
LaunchAs(p) ==
    /\ ~Alive(p) /\ pidFile # p
    /\ GoTo(p, "reads")
    /\ UNCHANGED <<jobs, memory, ears, lock, disk, control, service, happened>>

(* Something starts svdss again when none lives; users may at any time.    *)
Launch == \E p \in Procs : LaunchAs(p) /\ (\A q \in Procs : pc[q] = "off") /\ UNCHANGED spent
LaunchAgain == \E p \in Procs : LaunchAs(p) /\ (\E q \in Procs : pc[q] # "off") /\ Event("launch")

TestLockCarelessly(p) == \* Mutated: takes any pid file for a leftover
    /\ pc[p] = "reads"
    /\ pidFile' = NoPid
    /\ GoTo(p, "writes")
    /\ Happens({k \in {"together"} : \E q \in Procs : pc[q] = "writes"}
               \cup {k \in {"grace"} : \E q \in Procs : pc[q] = "stops"})
    /\ UNCHANGED <<jobs, memory, ears, strangers, disk, control, service, spent>>

TestLockStrictly(p) == \* Mutated: any pid file keeps svdss away
    /\ pc[p] = "reads"
    /\ GoTo(p, IF pidFile = NoPid THEN "writes" ELSE "off")
    /\ UNCHANGED <<jobs, memory, ears, lock, disk, control, service, events>>

TestLock(p) ==
    /\ pc[p] = "reads"
    /\ \/ /\ pidFile \in Procs /\ Alive(pidFile)
          /\ GoTo(p, "off")
          /\ UNCHANGED <<pidFile, news, happened>>
       \/ /\ pidFile \in Procs => ~Alive(pidFile)
          /\ pidFile' = NoPid
          /\ IF pidFile = NoPid THEN UNCHANGED news ELSE Changed("home")
          /\ GoTo(p, "writes")
          /\ Happens({k \in {"together"} : \E q \in Procs : pc[q] = "writes"}
                     \cup {k \in {"grace"} : \E q \in Procs : pc[q] = "stops"})
    /\ UNCHANGED <<jobs, memory, noticed, strangers, disk, control, service, spent>>

WriteLock(p) ==
    /\ pc[p] = "writes"
    /\ pidFile' = p
    /\ Changed("home")
    /\ GoTo(p, "collects")
    /\ Happens({k \in {"grace"} : \E q \in Procs : pc[q] = "stops"})
    /\ UNCHANGED <<jobs, memory, noticed, strangers, disk, control, service, spent>>

(* The same for one service after the other, in the order of a list that   *)
(* says no more than that.                                                 *)
ForEach(do, set) ==
    LET list == SetToSeq(set) IN [i \in DOMAIN list |-> [do |-> do, service |-> list[i]]]

WatchAll(p, new) == jobs' = [jobs EXCEPT ![p] = ForEach("watch", new)]

CollectServicesOnce(p) == \* Mutated: never forgets a name
    /\ known' = [known EXCEPT ![p] = @ \cup dirs]
    /\ WatchAll(p, (dirs \cap igniters) \ known[p])

(* Every directory enters the list; those new to it that have an igniter   *)
(* get a watcher.                                                          *)
CollectServices(p) ==
    /\ known' = [known EXCEPT ![p] = dirs]
    /\ WatchAll(p, (dirs \cap igniters) \ known[p])

Collect(p) ==
    /\ At(p, "collects")
    /\ CollectServices(p)
    /\ GoTo(p, "registers")
    /\ UNCHANGED <<watched, heard, sits, ears, lock, disk, control, service, events>>

RegisterOnly(p) == \* Mutated: leaves the triggers that wait
    /\ At(p, "registers")
    /\ GoTo(p, "loops")
    /\ Happens(IF control = {} THEN {} ELSE {"unheard"})
    /\ UNCHANGED <<jobs, memory, ears, lock, disk, control, service, spent>>

(* With its services launched, svdss listens to ~ and ~/SoftwareData, and  *)
(* touches the triggers again that came while nobody listened.             *)
Register(p) ==
    /\ At(p, "registers")
    /\ GoTo(p, "loops")
    /\ noticed' = [noticed EXCEPT ![p] = @ \cup {s \in heard[p] \cap known[p] :
                                                   \E t \in triggers : t[1] = s}]
    /\ Happens(IF control = {} THEN {} ELSE {"unheard"})
    /\ UNCHANGED <<jobs, memory, news, lock, disk, control, service, spent>>

-----------------------------------------------------------------------------
(* Jobs: a new watcher, and the slots of its service.                      *)
Doing(p, do, s) == jobs[p] # <<>> /\ Head(jobs[p]) = [do |-> do, service |-> s]

Then(p, do, s) == jobs' = [jobs EXCEPT ![p] = <<[do |-> do, service |-> s]>> \o Tail(@)]

Return(p) == jobs' = [jobs EXCEPT ![p] = Tail(@)]

WatchOnly(p, s) == \* Mutated: does not make a directory that is gone
    /\ Doing(p, "watch", s)
    /\ watched' = [watched EXCEPT ![p] = @ \cup {s}]
    /\ heard' = [heard EXCEPT ![p] = @ \cup {s}]
    /\ IF s \in Autostart \cup marked THEN Then(p, "start", s) ELSE Return(p)
    /\ UNCHANGED <<pc, known, sits, ears, lock, disk, control, service, events>>

(* A directory removed meanwhile is made again. *)
Watch(p, s) ==
    /\ Doing(p, "watch", s)
    /\ watched' = [watched EXCEPT ![p] = @ \cup {s}]
    /\ heard' = [heard EXCEPT ![p] = @ \cup {s}]
    /\ IF s \in Autostart \cup marked THEN Then(p, "start", s) ELSE Return(p)
    /\ dirs' = dirs \cup {s}
    /\ IF s \in dirs THEN UNCHANGED <<news, happened>>
       ELSE /\ Changed("data")
            /\ Happens({k \in {"boot"} : \E q \in Procs : pc[q] = "registers"}
                       \cup {k \in {"swap"} : \E q \in Procs \ {p} : Unseen(q, s)})
    /\ UNCHANGED <<pc, known, sits, noticed, lock, igniters, triggers, control, service, spent>>

StartSlotAgain(p, s) == \* Mutated: does not look for .running
    /\ Doing(p, "start", s)
    /\ sits' = [sits EXCEPT ![p] = @ \cup {s}]
    /\ named' = named \cup {s}
    /\ stray' = stray \cup (named \cap {s})
    /\ Then(p, "mark", s)
    /\ UNCHANGED <<pc, known, watched, heard, ears, lock, disk, control, marked, events>>

StartSlot(p, s) ==
    /\ Doing(p, "start", s)
    /\ sits' = [sits EXCEPT ![p] = @ \cup {s}]
    /\ \/ /\ s \in marked
          /\ Return(p)
          /\ UNCHANGED <<named, stray>>
       \/ /\ s \notin marked
          /\ named' = named \cup {s}
          /\ stray' = stray \cup (named \cap {s})
          /\ Then(p, "mark", s)
    /\ UNCHANGED <<pc, known, watched, heard, ears, lock, disk, control, marked, events>>

StartDone(p, s) ==
    /\ Doing(p, "mark", s)
    /\ Return(p)
    /\ marked' = marked \cup {s}
    /\ Notices(s)
    /\ UNCHANGED <<pc, memory, news, lock, disk, control, named, stray, events>>

StopSlot(p, s) ==
    /\ Doing(p, "stop", s)
    /\ sits' = [sits EXCEPT ![p] = @ \ {s}]
    /\ \/ /\ s \notin marked
          /\ Return(p)
          /\ UNCHANGED <<named, stray>>
       \/ /\ s \in marked
          /\ named' = named \ {s}
          /\ UNCHANGED stray
          /\ Then(p, "unmark", s)
    /\ UNCHANGED <<pc, known, watched, heard, ears, lock, disk, control, marked, events>>

StopDone(p, s) ==
    /\ Doing(p, "unmark", s)
    /\ Return(p)
    /\ marked' = marked \ {s}
    /\ Notices(s)
    /\ UNCHANGED <<pc, memory, news, lock, disk, control, named, stray, events>>

-----------------------------------------------------------------------------
(* What the loop of svdss delivers. *)

(* SvdServiceWatcher: one trigger at a time, the start first; its removal  *)
(* changes the directory again.                                            *)
Obey(p, s) ==
    /\ At(p, "loops")
    /\ s \in noticed[p]
    /\ \/ /\ <<s, "start">> \in triggers
          /\ triggers' = triggers \ {<<s, "start">>}
          /\ jobs' = [jobs EXCEPT ![p] =
                        IF s \in marked THEN <<>> ELSE <<[do |-> "start", service |-> s]>>]
          /\ Notices(s)
       \/ /\ <<s, "start">> \notin triggers /\ <<s, "stop">> \in triggers
          /\ triggers' = triggers \ {<<s, "stop">>}
          /\ jobs' = [jobs EXCEPT ![p] =
                        IF s \in marked THEN <<[do |-> "stop", service |-> s]>> ELSE <<>>]
          /\ Notices(s)
       \/ /\ <<s, "start">> \notin triggers /\ <<s, "stop">> \notin triggers
          /\ noticed' = [noticed EXCEPT ![p] = @ \ {s}]
          /\ UNCHANGED <<triggers, jobs>>
    /\ UNCHANGED <<pc, memory, news, lock, dirs, igniters, control, service, events>>

BabySitterSlot(p, s) ==
    /\ At(p, "loops")
    /\ s \in sits[p]
    /\ \/ /\ s \notin marked
          /\ sits' = [sits EXCEPT ![p] = @ \ {s}]
          /\ UNCHANGED jobs
       \/ /\ s \in marked \ named
          /\ "shutdown" \notin control
          /\ jobs' = [jobs EXCEPT ![p] = <<[do |-> "stop", service |-> s],
                                           [do |-> "start", service |-> s]>>]
          /\ UNCHANGED sits
    /\ UNCHANGED <<pc, known, watched, heard, ears, lock, disk, control, service, events>>

(* dirChangedSlot of SvdUserWatcher for ~/SoftwareData *)
DataChanged(p) ==
    /\ At(p, "loops")
    /\ "data" \in news[p]
    /\ news' = [news EXCEPT ![p] = @ \ {"data"}]
    /\ CollectServices(p)
    /\ UNCHANGED <<pc, watched, heard, sits, noticed, lock, disk, control, service, events>>

HomeChangedGracefully(p) == \* Mutated: knows no plain shutdown
    /\ At(p, "loops")
    /\ "home" \in news[p]
    /\ news' = [news EXCEPT ![p] = @ \ {"home"}]
    /\ UNCHANGED <<pc, jobs, memory, noticed, lock, disk, control, service, events>>

(* dirChangedSlot for ~, which calls checkUserControlTriggers. A graceful  *)
(* shutdown gives up the pid file, and then stops the services.            *)
HomeChanged(p) ==
    /\ At(p, "loops")
    /\ "home" \in news[p]
    /\ \/ /\ control = {}
          /\ news' = [news EXCEPT ![p] = @ \ {"home"}]
          /\ UNCHANGED <<pc, jobs, memory, noticed, pidFile, control>>
       \/ /\ "shutdownGracefully" \in control
          /\ control' = control \ {"shutdownGracefully"}
          /\ pidFile' = NoPid
          /\ Changed("home")
          /\ GoTo(p, "stops")
          /\ jobs' = [jobs EXCEPT ![p] = ForEach("stop", watched[p])]
          /\ UNCHANGED <<memory, noticed>>
       \/ /\ control = {"shutdown"}
          /\ control' = {}
          /\ pidFile' = NoPid
          /\ Gone(p)
          /\ news' = Deaf(p, [q \in Procs |-> IF Listens(q) THEN news[q] \cup {"home"}
                                                            ELSE news[q]])
          /\ noticed' = Deaf(p, noticed)
    /\ UNCHANGED <<strangers, disk, service, events>>

Exit(p) ==
    /\ At(p, "stops")
    /\ Gone(p)
    /\ noticed' = Deaf(p, noticed) /\ news' = Deaf(p, news)
    /\ UNCHANGED <<lock, disk, control, service, events>>

-----------------------------------------------------------------------------
(* The world outside. *)

(* SIGTERM, SIGKILL or a crash: the pid file stays. *)
Killed(p) ==
    /\ pc[p] # "off"
    /\ Event("kill")
    /\ Gone(p)
    /\ noticed' = Deaf(p, noticed) /\ news' = Deaf(p, news)
    /\ Happens({k \in {"cut"} : \E s \in Services : Doing(p, "mark", s)})
    /\ UNCHANGED <<lock, disk, control, service>>

DamagePidFile ==
    /\ pidFile \in Procs /\ ~Alive(pidFile)
    /\ Event("damage")
    /\ pidFile' = BadPid
    /\ UNCHANGED <<pc, jobs, memory, ears, strangers, disk, control, service, happened>>

PidReused ==
    /\ pidFile \in Procs /\ ~Alive(pidFile)
    /\ Event("reuse")
    /\ strangers' = strangers \cup {pidFile}
    /\ Happens({"reuse"})
    /\ UNCHANGED <<pc, jobs, memory, ears, pidFile, disk, control, service>>

TouchControl(f) ==
    /\ Event(f)
    /\ \E p \in Procs : Works(p)
    /\ control' = control \cup {f}
    /\ Changed("home")
    /\ UNCHANGED <<pc, jobs, memory, noticed, lock, disk, service, happened>>

Touch(s, t) ==
    /\ s \in dirs
    /\ Event(t)
    /\ triggers' = triggers \cup {<<s, t>>}
    /\ Notices(s)
    /\ Happens(IF \E p \in Procs : Listens(p) /\ s \notin heard[p] THEN {"early"} ELSE {})
    /\ UNCHANGED <<pc, jobs, memory, news, lock, dirs, igniters, control, service>>

MakeDir(s) ==
    /\ s \notin dirs
    /\ Event("mkdir")
    /\ dirs' = dirs \cup {s}
    /\ Changed("data")
    /\ Happens({k \in {"swap"} : \E p \in Procs : Unseen(p, s)}
               \cup {k \in {"boot"} : \E p \in Procs : pc[p] = "registers"})
    /\ UNCHANGED <<pc, jobs, memory, noticed, lock, igniters, triggers, control, service>>

(* Users remove a directory only when the service is not running. The      *)
(* watcher notices, but all that its destroySlot ends is a thread.         *)
RemoveDir(s) ==
    /\ s \in dirs \ (marked \cup named \cup stray)
    /\ Event("rmdir")
    /\ dirs' = dirs \ {s}
    /\ triggers' = {t \in triggers : t[1] # s}
    /\ heard' = [p \in Procs |-> heard[p] \ {s}]
    /\ Notices(s)
    /\ Changed("data")
    /\ Happens({k \in {"boot"} : \E p \in Procs : pc[p] = "registers"})
    /\ UNCHANGED <<pc, jobs, known, watched, sits, lock, igniters, control, service>>

AddIgniter(s) ==
    /\ s \notin igniters
    /\ Event("igniter")
    /\ igniters' = igniters \cup {s}
    /\ Happens({k \in {"late"} : \E p \in Procs : s \in known[p]})
    /\ UNCHANGED <<pc, jobs, memory, ears, lock, dirs, triggers, control, service>>

ProcessDies(s) ==
    /\ s \in named
    /\ Event("die")
    /\ named' = named \ {s}
    /\ UNCHANGED <<pc, jobs, memory, ears, lock, disk, control, marked, stray, happened>>

Step(p) ==
    \/ TestLock(p) \/ WriteLock(p) \/ Collect(p) \/ Register(p) \/ Exit(p)
    \/ \E s \in Services : Watch(p, s) \/ StartSlot(p, s) \/ StartDone(p, s)
                           \/ StopSlot(p, s) \/ StopDone(p, s)

Next ==
    \/ Launch \/ LaunchAgain
    \/ \E p \in Procs : Step(p) \/ DataChanged(p) \/ HomeChanged(p) \/ Killed(p)
    \/ \E p \in Procs, s \in Services : Obey(p, s) \/ BabySitterSlot(p, s)
    \/ DamagePidFile \/ PidReused
    \/ \E f \in {"shutdown", "shutdownGracefully"} : TouchControl(f)
    \/ \E s \in Services, t \in {"start", "stop"} : Touch(s, t)
    \/ \E s \in Services : MakeDir(s) \/ RemoveDir(s) \/ AddIgniter(s) \/ ProcessDies(s)

Spec == Init /\ [][Next]_vars

(* The thread of svdss goes on inside a slot, its loop delivers changes of *)
(* ~ however often it is busy, and something starts svdss when none lives. *)
Fairness ==
    /\ WF_vars(Launch)
    /\ WF_vars(\E p \in Procs : Step(p))
    /\ SF_vars(\E p \in Procs : HomeChanged(p))

FairSpec == Spec /\ Fairness

-----------------------------------------------------------------------------
(* Properties. *)

Never(kinds) == happened \cap kinds = {}

(* Apart from the two gaps that Rough names, two svdss processes never     *)
(* work for one user, whatever pid files were left by killed ones, damaged *)
(* or removed by shutdowns (service_spawner.cc:85-100, :131).              *)
OneSupervisor ==
    Never({"together", "grace"}) => \A p, q \in Procs : Works(p) /\ Works(q) => p = q

(* Nor does a second process of a service ever live, through launches,     *)
(* deaths and shutdowns of svdss (user_watcher.cc:221,                     *)
(* service_watcher.cc:121-133), unless svdss was killed between the start  *)
(* hook and the mark.                                                      *)
OneProcess ==
    Never({"together", "grace", "cut"}) =>
        stray = {}

(* At the loop with nothing left to notice, svdss listens to every service *)
(* directory with an igniter, through removals and new directories         *)
(* (user_watcher.cc:146-181).                                              *)
ServicesHeard ==
    Never({"late", "swap", "boot"}) =>
        \A p \in Procs : At(p, "loops") /\ "data" \notin news[p] =>
            dirs \cap igniters \subseteq heard[p]

(* No trigger lies unnoticed at the loop, also those touched while svdss   *)
(* was down, busy or starting (user_watcher.cc:95-123).                    *)
TriggersNoticed ==
    Never({"late", "swap", "boot", "early"}) =>
        \A p \in Procs : At(p, "loops") /\ "data" \notin news[p] =>
            \A t \in triggers : t[1] \in igniters => t[1] \in noticed[p]

(* After a death or shutdown, a svdss works again, whatever pid file was   *)
(* left, unless its number has gone to another program                     *)
(* (service_spawner.cc:85-100).                                            *)
WorksAgain ==
    (\A p \in Procs : ~Works(p)) ~> (\/ \E p \in Procs : Works(p)
                                     \/ "reuse" \in happened)

(* A shutdown is obeyed, also when services start, stop and die meanwhile, *)
(* unless its file came before svdss listened (user_watcher.cc:86-90), or  *)
(* svdss died and cannot start again.                                      *)
ShutdownObeyed ==
    (control # {}) ~> (control = {} \/ ~Never({"unheard", "reuse"}))
=============================================================================
