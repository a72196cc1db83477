------------------------------- MODULE Deployer -------------------------------
(***************************************************************************)
(* svddeployer at work on one web application, beside the svdss that runs  *)
(* it. A deployment clones the pushed code twice: into build-in-progress,  *)
(* from which it writes the igniter, and into the directory of the release *)
(* that this igniter has; it prunes old directories, asks svdss for a      *)
(* restart and ends the processes of other releases. Other deployers, the  *)
(* user, dying processes and svdss interleave with each of its steps.      *)
(*                                                                         *)
(* A release is named by the hash of the igniter's text and the port: two  *)
(* pushes that lead to the same igniter have one release name. svdss is    *)
(* cut down to what meets a deployment: ServiceLifecycle has its slots.    *)
(***************************************************************************)
EXTENDS Naturals, Sequences, SequencesExt

CONSTANTS
    Deployers,   \* processes of svddeployer
    Releases,    \* release names
    Static,      \* those of static sites, which run no process
    Deployed,    \* .releases when a behaviour begins: the newest is in force
    Build, None, \* the directory build-in-progress; no release
    IgniterOf,   \* IgniterOf[c]: the release whose igniter is written for code c
    MaxCode,     \* bound on pushes: code c is the c-th push, 0 stands for none
    MaxDeploys,  \* bound on deployments
    MaxEvents    \* bound on what the rest of the world does

ASSUME DeployerAssumption ==
    /\ MaxCode \in Nat /\ MaxDeploys \in Nat /\ MaxEvents \in Nat
    /\ Static \subseteq Releases
    /\ IgniterOf \in [0..MaxCode -> Releases]
    /\ Build \notin Releases /\ None \notin Releases /\ "asked" \notin Releases
    /\ None # "asked"
    /\ \A ds \in Deployed :
         /\ ds \in Seq([name : Releases, code : 0..MaxCode])
         /\ \A i, j \in DOMAIN ds : ds[i].name = ds[j].name => i = j

MaxDeploysToKeep == 3

VARIABLES
    head,       \* the code in the bare repository
    dirs,       \* .releases: [name, code] of each directory, the newest first
    igniter,    \* release of the igniter in force
    proxy,      \* release whose directory the http proxy serves
    marks,      \* deploying, autostart, running, and the triggers start, restart
    pid,        \* service.pid of each release: "none", of a "dead" or a "live" process
    stray,      \* releases with a live process that no service.pid names
    launching,  \* the start slot of svdss: None, "asked", or the release it loaded
    watch,      \* what svdss makes of the service's directory
    job,        \* what each deployer is at, and (history) the push it began with
    done,       \* history: the last deployment came to its end
    begun,      \* deployments so far
    spent,      \* events so far
    happened    \* history: kinds of events that some promise does not survive

svdss == <<launching, pid, stray, watch>>
served == <<igniter, proxy>>
history == <<done, begun, spent, happened>>
vars == <<head, dirs, served, marks, svdss, job, history>>

Codes == 0..MaxCode

Kinds == {"interrupt", "overlap", "noclone", "late", "lost"}

Steps == {"idle", "mark", "build", "write", "clone", "equip", "kill", "remove",
          "await", "retire", "publish", "unmark", "clean"}

(* No directory; one that svdss has not looked at yet, has seen without an  *)
(* igniter and remembers (unheard), or has a watcher for.                  *)
Watches == {"nodir", "unseen", "unheard", "watched"}

Names(ds) == {ds[i].name : i \in DOMAIN ds}

Live == stray \cup {r \in Releases : pid[r] = "live"}

TypeOK ==
    /\ head \in Codes
    /\ dirs \in Seq([name : Releases \cup {Build}, code : Codes])
    /\ igniter \in Releases \cup {None} /\ proxy \in Releases \cup {None}
    /\ marks \subseteq {"deploying", "autostart", "running", "start", "restart"}
    /\ pid \in [Releases -> {"none", "dead", "live"}]
    /\ stray \subseteq Releases
    /\ launching \in Releases \cup {None, "asked"}
    /\ watch \in Watches
    /\ job \in [Deployers -> [pc : Steps, release : Releases \cup {None}, code : Codes,
                              fresh : BOOLEAN, asked : 0..3]]
    /\ done \in BOOLEAN
    /\ begun \in 0..MaxDeploys /\ spent \in 0..MaxEvents
    /\ happened \subseteq Kinds

NoJob == [pc |-> "idle", release |-> None, code |-> 0, fresh |-> FALSE, asked |-> 0]

(* Nothing was deployed yet, or some deployments have come to their end.   *)
Init ==
    /\ dirs \in Deployed
    /\ head = IF dirs = <<>> THEN 0 ELSE Head(dirs).code
    /\ igniter = IF dirs = <<>> THEN None ELSE Head(dirs).name
    /\ proxy = igniter
    /\ marks = IF dirs = <<>> THEN {} ELSE {"autostart", "running"}
    /\ pid = [r \in Releases |-> IF r = igniter /\ r \notin Static THEN "live" ELSE "none"]
    /\ stray = {}
    /\ launching = None
    /\ watch = IF dirs = <<>> THEN "nodir" ELSE "watched"
    /\ job = [d \in Deployers |-> NoJob]
    /\ done = FALSE /\ begun = 0 /\ spent = 0 /\ happened = {}

Idle == \A d \in Deployers : job[d].pc = "idle"

Event ==
    /\ spent < MaxEvents
    /\ spent' = spent + 1

Happens(kinds) == happened' = happened \cup kinds

At(d, step) == job[d].pc = step

GoTo(d, step) == job' = [job EXCEPT ![d].pc = step]

-----------------------------------------------------------------------------
(* The steps of a deployment, in their order.                              *)

(* main: .deploying is read for the pid of another deployer, but what is   *)
(* touched later is an empty file, which says there is none. It is removed *)
(* and the pid written to .deploying.pid, which nobody reads.              *)
Begin(d) ==
    /\ At(d, "idle")
    /\ begun < MaxDeploys
    /\ begun' = begun + 1
    /\ Happens(IF Idle THEN {} ELSE {"overlap"})
    /\ GoTo(d, "mark")
    /\ marks' = marks \ {"deploying"}
    /\ done' = FALSE
    /\ UNCHANGED <<head, dirs, served, svdss, spent>>

(* No premature launch, and no babysitter, from here on; but a file cannot *)
(* be touched in a directory that the first deployment has yet to make.    *)
Mark(d) ==
    /\ At(d, "mark")
    /\ marks' = IF watch = "nodir" THEN marks
                ELSE (marks \ {"autostart"}) \cup {"deploying"}
    /\ GoTo(d, "build")
    /\ UNCHANGED <<head, dirs, served, svdss, history>>

PrunedToOldest == \* Mutated: lists the directories in reverse
    IF Len(dirs) > MaxDeploysToKeep
    THEN SubSeq(dirs, Len(dirs) - MaxDeploysToKeep + 1, Len(dirs)) ELSE dirs

(* Old deploys over the count are removed before a clone. *)
Pruned ==
    IF Len(dirs) > MaxDeploysToKeep THEN SubSeq(dirs, 1, MaxDeploysToKeep) ELSE dirs

(* git refuses to clone into a directory that exists, and the pull that    *)
(* follows then runs outside of it: such a directory stays as it is.       *)
CloneRepository(name) ==
    \/ /\ dirs' = IF name \in Names(Pruned) THEN Pruned
                   ELSE <<[name |-> name, code |-> head]>> \o Pruned
       /\ UNCHANGED <<spent, happened>>
    \/ /\ Event
       /\ Happens({"noclone"})
       /\ dirs' = Pruned

CloneBuild(d) ==
    /\ At(d, "build")
    /\ head > 0
    /\ CloneRepository(Build)
    /\ job' = [job EXCEPT ![d].pc = "write", ![d].code = head,
                          ![d].fresh = IgniterOf[head] \notin Names(dirs)]
    /\ watch' = IF watch = "nodir" THEN "unseen" ELSE watch
    /\ UNCHANGED <<head, served, marks, launching, pid, stray, done, begun>>

(* SIGTERM when there is no repository: .deploying stays. *)
NoRepository(d) ==
    /\ At(d, "build")
    /\ head = 0
    /\ Happens({"interrupt"})
    /\ job' = [job EXCEPT ![d] = NoJob]
    /\ UNCHANGED <<head, dirs, served, marks, svdss, done, begun, spent>>

CodeIn(name) ==
    IF name \in Names(dirs)
    THEN (CHOOSE dir \in {dirs[i] : i \in DOMAIN dirs} : dir.name = name).code
    ELSE 0

(* The igniter is made from what build-in-progress holds. *)
WriteIgniter(d) ==
    LET release == IgniterOf[CodeIn(Build)]
    IN  /\ At(d, "write")
        /\ igniter' = release
        /\ job' = [job EXCEPT ![d].pc = "clone", ![d].release = release]
        /\ Happens(IF launching \in Releases \ {release} THEN {"late"} ELSE {})
        /\ UNCHANGED <<head, dirs, proxy, marks, svdss, done, begun, spent>>

CloneRelease(d) ==
    /\ At(d, "clone")
    /\ CloneRepository(job[d].release)
    /\ GoTo(d, "equip")
    /\ UNCHANGED <<head, served, marks, svdss, done, begun>>

(* Bundles, assets and links are made in the release's directory, which    *)
(* may make it the newest.                                                 *)
Equip(d) ==
    /\ At(d, "equip")
    /\ \/ UNCHANGED dirs
       \/ \E i \in DOMAIN dirs :
            /\ dirs[i].name = job[d].release
            /\ dirs' = <<dirs[i]>> \o RemoveAt(dirs, i)
    /\ GoTo(d, "kill")
    /\ UNCHANGED <<head, served, marks, svdss, history>>

(* A process of this very release is ended, then its pid file removed. *)
KillSame(d) ==
    LET r == job[d].release
    IN  /\ At(d, "kill")
        /\ pid' = [pid EXCEPT ![r] = IF @ = "live" THEN "dead" ELSE @]
        /\ GoTo(d, IF pid[r] = "none" THEN "await" ELSE "remove")
        /\ UNCHANGED <<head, dirs, served, marks, launching, watch, stray, history>>

RemoveSame(d) ==
    LET r == job[d].release
    IN  /\ At(d, "remove")
        /\ pid' = [pid EXCEPT ![r] = "none"]
        /\ stray' = stray \cup (IF pid[r] = "live" THEN {r} ELSE {})
        /\ Happens(IF pid[r] = "live" THEN {"lost"} ELSE {})
        /\ GoTo(d, "await")
        /\ UNCHANGED <<head, dirs, served, marks, launching, watch, done, begun, spent>>

RequestsWithoutBreak == 0 \* Mutated: goes on after the last request

(* The times a restart is asked for, at 30, 15 and 0 seconds left. *)
Requests == 3

(* Up to 30 seconds for the new process to appear. *)
Await(d) ==
    LET r == job[d].release
    IN  /\ At(d, "await")
        /\ \/ /\ r \in Static \/ pid[r] = "live"
              /\ GoTo(d, "retire")
              /\ UNCHANGED marks
           \/ /\ r \notin Static /\ pid[r] # "live"
              /\ marks' = marks \cup {"restart"}
              /\ job' = [job EXCEPT ![d].asked = @ + 1,
                                    ![d].pc = IF job[d].asked + 1 = Requests THEN "retire" ELSE @]
        /\ UNCHANGED <<head, dirs, served, svdss, history>>

RetireOtherInverted(d) == \* Mutated: ends the new release
    /\ At(d, "retire")
    /\ pid' = [pid EXCEPT ![job[d].release] = "none"]
    /\ GoTo(d, "publish")
    /\ UNCHANGED <<head, dirs, served, marks, launching, watch, stray, history>>

(* Processes of all other releases that a pid file names are ended. *)
RetireOther(d) ==
    LET others == Releases \ {job[d].release}
    IN  /\ At(d, "retire")
        /\ pid' = [r \in Releases |-> IF r \in others THEN "none" ELSE pid[r]]
        /\ GoTo(d, "publish")
        /\ UNCHANGED <<head, dirs, served, marks, launching, watch, stray, history>>

Publish(d) ==
    /\ At(d, "publish")
    /\ proxy' = job[d].release
    /\ marks' = marks \cup {"autostart"}
    /\ GoTo(d, "unmark")
    /\ UNCHANGED <<head, dirs, igniter, svdss, history>>

UnmarkPidOnly(d) == \* Mutated: removes only the .deploying.pid
    /\ At(d, "unmark")
    /\ GoTo(d, "clean")
    /\ UNCHANGED <<head, dirs, served, marks, svdss, history>>

Unmark(d) ==
    /\ At(d, "unmark")
    /\ marks' = marks \ {"deploying"}
    /\ GoTo(d, "clean")
    /\ UNCHANGED <<head, dirs, served, svdss, history>>

Without(name) ==
    IF name \in Names(dirs)
    THEN RemoveAt(dirs, CHOOSE i \in DOMAIN dirs : dirs[i].name = name) ELSE dirs

CleanKeepsBuild(d) == \* Mutated: leaves build-in-progress
    /\ At(d, "clean")
    /\ marks' = IF "running" \in marks THEN marks ELSE marks \cup {"start"}
    /\ job' = [job EXCEPT ![d] = NoJob]
    /\ done' = TRUE
    /\ UNCHANGED <<head, dirs, served, svdss, begun, spent, happened>>

(* build-in-progress goes, and svdss is asked to start what does not run. *)
Clean(d) ==
    /\ At(d, "clean")
    /\ dirs' = Without(Build)
    /\ marks' = IF "running" \in marks THEN marks ELSE marks \cup {"start"}
    /\ job' = [job EXCEPT ![d] = NoJob]
    /\ done' = TRUE
    /\ UNCHANGED <<head, served, svdss, begun, spent, happened>>

-----------------------------------------------------------------------------
(* svdss and the rest of the world. *)

(* collectServices, when svdss hears of the new directory: without an      *)
(* igniter there is no watcher, and never will be, since the name is kept. *)
(* A watcher starts a service with autostart.                              *)
CollectServices ==
    /\ watch = "unseen"
    /\ watch' = IF igniter = None THEN "unheard" ELSE "watched"
    /\ launching' = IF igniter # None /\ "autostart" \in marks THEN "asked" ELSE launching
    /\ UNCHANGED <<head, dirs, served, marks, pid, stray, job, history>>

(* stopSlot and the way to startSlot: the process in the pid file of the   *)
(* release in force is ended, if the service is marked running.            *)
Restart ==
    /\ watch = "watched"
    /\ launching = None /\ igniter # None
    /\ launching' = "asked"
    /\ pid' = IF "running" \in marks /\ pid[igniter] = "live"
              THEN [pid EXCEPT ![igniter] = "dead"] ELSE pid

RestartRequested ==
    /\ "restart" \in marks
    /\ Restart
    /\ marks' = marks \ {"restart", "running"}
    /\ UNCHANGED <<head, dirs, served, stray, watch, job, history>>

StartRequested ==
    /\ "start" \in marks
    /\ watch = "watched"
    /\ launching = None /\ igniter # None
    /\ launching' = IF "running" \in marks THEN None ELSE "asked"
    /\ marks' = marks \ {"start"}
    /\ UNCHANGED <<head, dirs, served, pid, stray, watch, job, history>>

(* The default babysitter: the pid file must not hold a dead process, and  *)
(* somebody must listen on the port.                                       *)
BabySitterSlot ==
    /\ "running" \in marks /\ "deploying" \notin marks
    /\ igniter \notin Static
    /\ Restart
    /\ pid[igniter] = "dead" \/ Live = {}
    /\ marks' = marks \ {"running"}
    /\ UNCHANGED <<head, dirs, served, stray, watch, job, history>>

StartSlot ==
    /\ launching = "asked"
    /\ launching' = igniter
    /\ UNCHANGED <<head, dirs, served, marks, pid, stray, watch, job, history>>

(* The start hook enters the release's directory and starts the app. *)
StartHook ==
    /\ launching \in Releases
    /\ launching \notin Static /\ launching \in Names(dirs)
    /\ pid' = [pid EXCEPT ![launching] = "live"]
    /\ stray' = stray \cup (IF pid[launching] = "live" THEN {launching} ELSE {})

(* The app may find the port taken by a process of another release. *)
Launch ==
    /\ launching \in Releases
    /\ launching' = None
    /\ marks' = marks \cup {"running"}
    /\ \/ StartHook /\ UNCHANGED spent
       \/ /\ launching \in Static \/ launching \notin Names(dirs) \/ Live # {}
          /\ UNCHANGED <<pid, stray, spent>>
       \/ /\ Event
          /\ UNCHANGED <<pid, stray>>
    /\ UNCHANGED <<head, dirs, served, watch, job, done, begun, happened>>

(* svdss dies, in or out of a start, and a new one looks at the directory: *)
(* what is marked running is watched again, what has autostart is started. *)
SvdssRestarts ==
    /\ Event
    /\ \/ UNCHANGED <<pid, stray, happened>>
       \/ StartHook /\ Happens({"lost"})
    /\ watch' = IF watch = "nodir" THEN watch ELSE IF igniter = None THEN "unheard" ELSE "watched"
    /\ launching' = IF watch # "nodir" /\ igniter # None /\ "running" \notin marks
                       /\ "autostart" \in marks
                    THEN "asked" ELSE None
    /\ UNCHANGED <<head, dirs, served, marks, job, done, begun>>

(* A push, before svddeployer is called or while one is at work. *)
Push ==
    /\ head < MaxCode
    /\ head' = head + 1
    /\ UNCHANGED <<dirs, served, marks, svdss, job, history>>

(* A deployment ends early: a signal, a dependency without an igniter, a   *)
(* full disk. svdply removes .deploying when it is interrupted itself.     *)
Interrupted(d) ==
    /\ job[d].pc # "idle"
    /\ Event
    /\ Happens({"interrupt"})
    /\ marks' \in {marks, marks \ {"deploying"}}
    /\ job' = [job EXCEPT ![d] = NoJob]
    /\ UNCHANGED <<head, dirs, served, svdss, done, begun>>

UserRestarts ==
    /\ igniter # None
    /\ Event
    /\ marks' = marks \cup {"restart"}
    /\ UNCHANGED <<head, dirs, served, svdss, job, done, begun, happened>>

ProcessDies(r) ==
    /\ Event
    /\ \/ /\ pid[r] = "live"
          /\ pid' = [pid EXCEPT ![r] = "dead"]
          /\ UNCHANGED stray
       \/ /\ r \in stray
          /\ stray' = stray \ {r}
          /\ UNCHANGED pid
    /\ UNCHANGED <<head, dirs, served, marks, launching, watch, job, done, begun, happened>>

-----------------------------------------------------------------------------
Step(d) ==
    \/ Mark(d) \/ CloneBuild(d) \/ NoRepository(d) \/ WriteIgniter(d) \/ CloneRelease(d)
    \/ Equip(d) \/ KillSame(d) \/ RemoveSame(d) \/ Await(d) \/ RetireOther(d)
    \/ Publish(d) \/ Unmark(d) \/ Clean(d)

ServiceStep ==
    \/ CollectServices \/ RestartRequested \/ StartRequested \/ BabySitterSlot \/ StartSlot \/ Launch

Next ==
    \/ \E d \in Deployers : Begin(d) \/ Step(d) \/ Interrupted(d)
    \/ ServiceStep
    \/ Push \/ UserRestarts \/ SvdssRestarts
    \/ \E r \in Releases : ProcessDies(r)

Spec == Init /\ [][Next]_vars

(* A deployer goes on until it ends or is interrupted; svdss serves what   *)
(* is asked of it. Nobody has to push, deploy or touch a trigger.          *)
Fairness ==
    /\ \A d \in Deployers : WF_vars(Step(d))
    /\ WF_vars(ServiceStep)

FairSpec == Spec /\ Fairness

-----------------------------------------------------------------------------
(* Properties. *)

Never(kinds) == happened \cap kinds = {}

(* The directory that the proxy serves, and that the release in force is   *)
(* started from, is there at all times, also while the next deployment     *)
(* prunes; only between the new igniter and its clone the latter is not    *)
(* (deploy.cc:684-700). Interrupted deployments and two at a time break    *)
(* that.                                                                   *)
ServedDirectoryKept ==
    Never({"interrupt", "overlap", "noclone"}) =>
        /\ proxy # None => proxy \in Names(dirs)
        /\ (\A d \in Deployers : job[d].pc # "clone") /\ igniter # None
              => igniter \in Names(dirs)

(* A push whose igniter has no release directory yet comes into force with *)
(* its deployment, under the igniter made for it and with code that is no  *)
(* older: nothing of an earlier deployment remains in build-in-progress    *)
(* (deployer.cc:216).                                                      *)
DeployedAsPushed ==
    Never({"interrupt", "overlap", "noclone"}) =>
        \A d \in Deployers : job[d].pc \in {"unmark", "clean"} /\ job[d].fresh =>
            /\ igniter = IgniterOf[job[d].code]
            /\ CodeIn(igniter) >= job[d].code

(* When the proxy is switched, no process of another release is left,      *)
(* whatever died or was restarted meanwhile (deploy.cc:1452-1468), unless  *)
(* svdss had loaded the old igniter before it was replaced or a pid file   *)
(* was removed from under a live process.                                  *)
OldReleasesRetired ==
    Never({"overlap", "late", "lost", "interrupt"}) =>
        \A d \in Deployers : job[d].pc \in {"publish", "unmark", "clean"} =>
            Live \subseteq {job[d].release}

Up == "running" \in marks /\ (igniter \in Static \/ pid[igniter] = "live")

(* After a deployment that came to its end, the release it made comes up,  *)
(* though the first starts may fail, also those the deployer waited for,   *)
(* and svdss may die at any time (deployer.cc:222-225, service.cc:323). It *)
(* does not where svdss saw the directory of a first deployment before its *)
(* igniter was written (user_watcher.cc:154), until svdss is restarted.    *)
DeployedComesUp ==
    (done /\ Idle /\ happened = {} /\ watch # "unheard") ~> (Up \/ ~Idle)

(* No deployer begins while another has marked the service               *)
(* (deployer.cc:145).                                                      *)
OneDeployer ==
    [][\A d, e \in Deployers :
         At(d, "idle") /\ ~At(d, "idle")' => job[e].pc \in {"idle", "mark"}]_vars

(* A deployment puts the code that was pushed before it into force         *)
(* (README.md:219).                                                        *)
PushedIsDeployed ==
    happened = {} =>
        \A d \in Deployers : job[d].pc \in {"unmark", "clean"} =>
            CodeIn(igniter) >= job[d].code
=============================================================================
