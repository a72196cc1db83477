---------------------------- MODULE ServiceConfig ----------------------------
(***************************************************************************)
(* The files that name a release. Every program of a user loads the config *)
(* of a service for itself: it reads the igniter, moves one away that it   *)
(* cannot parse, makes the directories of the service, and makes or reads  *)
(* its port file; the release name is the hash of the igniter's text and   *)
(* the port, and names the directories of pid files, logs and releases.    *)
(* svdss loads at every slot, svdpanel 40 times a second, svddeployer once *)
(* it has written the igniter, and nothing keeps them apart: writing a     *)
(* file empties it first. What the hooks do is ServiceLifecycle's, what a  *)
(* deployment does with its release Deployer's.                            *)
(***************************************************************************)
EXTENDS Naturals, FiniteSets

CONSTANTS
    Good, Bad,          \* texts of igniters, that parse and that do not
    Ports,              \* the ports that are free
    Missing, Blank,     \* no file; an empty one
    None,               \* no config loaded yet
    MaxEvents           \* bound on saves, deployments and deaths

ASSUME ConfigAssumption ==
    /\ Good \cap Bad = {} /\ Ports # {}
    /\ {Missing, Blank} \cap (Good \cup Bad \cup Ports) = {} /\ Missing # Blank
    /\ None \notin [text : Good \cup {Blank}, port : Ports \cup {Blank}]
    /\ MaxEvents \in Nat

Procs == {"svdss", "svdpanel", "svddeployer"}
Texts == Good \cup Bad

(* "overlap": the igniter changes under a load: between its reading and    *)
(* the removal of an unreadable one, between svdss' test and its use, or   *)
(* while svddeployer fills it; "together": the port file is made by two,   *)
(* or read while another fills it; "cut": a program dies while it writes;  *)
(* "edited": the igniter is saved since svddeployer last opened it.        *)
Happenings == {"overlap", "together", "cut", "edited"}

VARIABLES
    pc,         \* pc[p]: what the program does next
    job,        \* job[p]: what it loads the config, or makes ports, for
    text,       \* text[p]: the igniter it has read, or is writing
    mine,       \* mine[p]: the port it is about to write
    config,     \* config[p]: the release its config names
    cache,      \* the release of svdss' configCache
    igniter,    \* contents of the igniter
    error,      \* contents of the file unreadable igniters are moved to
    target,     \* the file svddeployer has open
    portsDir,   \* does the directory of port files exist?
    portFile,   \* contents of the port file
    saved,      \* history: the igniter as it was last saved
    spent,      \* outside events so far
    happened    \* history: the Happenings so far

memory == <<pc, job, text, mine, config, cache>>
files == <<igniter, error, target, portsDir, portFile>>
events == <<saved, spent, happened>>
vars == <<memory, files, events>>

Release == [text : Good \cup {Blank}, port : Ports \cup {Blank}]

(* releaseName of a config that was not loaded: no hash, port 0. *)
Unnamed == [text |-> Blank, port |-> Blank]
Valid(c) == c # None /\ c.text \in Good

(* svdss loads thrice: to test, to use, and to keep (service.cc:36-48).    *)
First(p) == IF p = "svdss" THEN "reads" ELSE "rests"
FirstJob(p) == IF p = "svdss" THEN "test" ELSE "config"

TypeOK ==
    /\ pc \in [Procs -> {"rests", "waits", "reads", "tests", "opens", "writes", "begins",
                         "fills", "holds"}]
    /\ job \in [Procs -> {"test", "config", "cache", "ports"}]
    /\ text \in [Procs -> Texts \cup {Blank}]
    /\ mine \in [Procs -> Ports \cup {Blank}]
    /\ config \in [Procs -> Release \cup {None}]
    /\ cache \in Release \cup {None}
    /\ igniter \in Texts \cup {Missing, Blank} /\ error \in Texts \cup {Missing, Blank}
    /\ target \in {"igniter", "error", "nowhere"}
    /\ portsDir \in BOOLEAN /\ portFile \in Ports \cup {Missing, Blank}
    /\ saved \in Texts \cup {Missing}
    /\ spent \in 0..MaxEvents /\ happened \subseteq Happenings

Init ==
    /\ pc = [p \in Procs |-> First(p)] /\ job = [p \in Procs |-> FirstJob(p)]
    /\ text = [p \in Procs |-> Blank] /\ mine = [p \in Procs |-> Blank]
    /\ config = [p \in Procs |-> None] /\ cache = None
    /\ igniter \in Good \cup {Missing} /\ saved = igniter
    /\ error = Missing /\ target = "nowhere"
    /\ portsDir = FALSE /\ portFile = Missing
    /\ spent = 0 /\ happened = {}

-----------------------------------------------------------------------------
Happens(kinds) == happened' = happened \cup kinds

Event == spent < MaxEvents /\ spent' = spent + 1

GoTo(p, stage) == pc' = [pc EXCEPT ![p] = stage]
Takes(p, j) == job' = [job EXCEPT ![p] = j]

Forgets(p) == /\ text' = [text EXCEPT ![p] = Blank] /\ mine' = [mine EXCEPT ![p] = Blank]

RejectsUnparsed(p) == \* Mutated: does not look whether the igniter has errors
    pc[p] = "tests" /\ job[p] # "ports"

(* Between reading an unreadable igniter and the removal of the file. *)
Rejects(p) == pc[p] = "tests" /\ job[p] # "ports" /\ text[p] \notin Good

(* svdss has read a good igniter to test it, and will read it again.       *)
Trusts ==
    \/ job["svdss"] = "test" /\ text["svdss"] \in Good
    \/ job["svdss"] = "config"
    \/ job["svdss"] = "cache" /\ pc["svdss"] = "reads"

(* What happens when the igniter changes now.                              *)
ChangesUnder == {h \in {"overlap"} : Trusts \/ \E p \in Procs : Rejects(p)}

-----------------------------------------------------------------------------
(* Loading a config: the constructor of SvdServiceConfig.                  *)

(* svdpanel finds a service that it does not show yet. *)
Notice ==
    /\ pc["svdpanel"] = "rests"
    /\ igniter # Missing
    /\ GoTo("svdpanel", "waits")
    /\ UNCHANGED <<job, text, mine, config, cache, files, events>>

WaitForPortNumber == \* Mutated: waits until the port file has a port
    /\ pc["svdpanel"] = "waits"
    /\ ~(portsDir /\ portFile \notin Ports)
    /\ GoTo("svdpanel", "reads")
    /\ UNCHANGED <<job, text, mine, config, cache, files, events>>

(* "check if volatile service state is initialized. No rush" *)
WaitForPorts ==
    /\ pc["svdpanel"] = "waits"
    /\ ~(portsDir /\ portFile = Missing)
    /\ GoTo("svdpanel", "reads")
    /\ UNCHANGED <<job, text, mine, config, cache, files, events>>

LoadIgniterUntold(p) == \* Mutated: takes what it could not read for a text
    /\ pc[p] = "reads"
    /\ text' = [text EXCEPT ![p] = igniter]
    /\ config' = IF p = "svdpanel" THEN [config EXCEPT ![p] = None] ELSE config
    /\ GoTo(p, "tests")
    /\ Happens({h \in {"overlap"} : pc["svddeployer"] = "fills"})
    /\ UNCHANGED <<job, mine, cache, files, saved, spent>>

(* svdpanel makes a new config at every refresh. A service that runs       *)
(* without an igniter is asked to stop: see ServiceLifecycle.              *)
LoadIgniter(p) ==
    /\ pc[p] = "reads"
    /\ text' = [text EXCEPT ![p] = IF igniter \in Texts THEN igniter ELSE Blank]
    /\ config' = IF p = "svdpanel" THEN [config EXCEPT ![p] = None] ELSE config
    /\ GoTo(p, "tests")
    /\ Happens({h \in {"overlap"} : pc["svddeployer"] = "fills"})
    /\ UNCHANGED <<job, mine, cache, files, saved, spent>>

LoadedUntested(p, release) == \* Mutated: uses what it has loaded without a test
    /\ GoTo(p, IF p = "svddeployer" THEN "holds" ELSE "reads")
    /\ config' = [config EXCEPT ![p] = release]
    /\ cache' = IF p = "svdss" THEN release ELSE cache
    /\ UNCHANGED job

(* What a finished load is for. *)
Loaded(p, release) ==
    CASE p = "svdss" /\ job[p] = "test" ->
            /\ \/ /\ Valid(release)
                  /\ GoTo(p, "reads") /\ Takes(p, "config")
                  /\ UNCHANGED config
               \/ /\ ~Valid(release)
                  /\ GoTo(p, "reads") /\ Takes(p, "test")
                  /\ config' = [config EXCEPT ![p] = IF cache = None THEN Unnamed ELSE cache]
            /\ UNCHANGED cache
      [] p = "svdss" /\ job[p] = "config" ->
            /\ GoTo(p, "reads") /\ Takes(p, "cache")
            /\ config' = [config EXCEPT ![p] = release]
            /\ UNCHANGED cache
      [] p = "svdss" /\ job[p] = "cache" ->
            /\ GoTo(p, "reads") /\ Takes(p, "test") /\ UNCHANGED config
            /\ cache' = release
      [] OTHER ->
            /\ GoTo(p, IF p = "svddeployer" THEN "holds" ELSE "reads")
            /\ config' = [config EXCEPT ![p] = release]
            /\ UNCHANGED <<job, cache>>

(* An igniter with errors is renamed, or removed when the other name is    *)
(* taken; who has the file open goes on writing to it.                     *)
MoveAway ==
    \/ igniter = Missing /\ UNCHANGED <<igniter, error, target>>
    \/ /\ igniter # Missing
       /\ igniter' = Missing
       /\ error' = IF error = Missing THEN igniter ELSE error
       /\ target' = IF target # "igniter" THEN target
                    ELSE IF error = Missing THEN "error" ELSE "nowhere"

Reject(p) ==
    /\ Rejects(p)
    /\ MoveAway
    /\ Loaded(p, Unnamed)
    /\ Forgets(p)
    /\ Happens({h \in {"overlap"} : igniter # Missing /\ Trusts /\ p # "svdss"})
    /\ UNCHANGED <<portsDir, portFile, saved, spent>>

(* After the port: svddeployer made it before the igniter, others load.    *)
PortDone(p, port) ==
    \/ /\ job[p] = "ports"
       /\ GoTo(p, "begins")
       /\ UNCHANGED <<job, config, cache>>
    \/ /\ job[p] # "ports"
       /\ Loaded(p, [text |-> text[p], port |-> port])

(* Past a good igniter; generateServicePorts of svddeployer reads none.    *)
Accepts(p) == pc[p] = "tests" /\ (job[p] = "ports" \/ text[p] \in Good)

(* A port file that exists is read; an empty one reads as port 0. *)
ReadPort(p) ==
    /\ Accepts(p) /\ portFile # Missing
    /\ portsDir' = TRUE
    /\ PortDone(p, portFile)
    /\ Happens({h \in {"together"} : portFile = Blank /\ \E q \in Procs : pc[q] = "writes"})
    /\ Forgets(p)
    /\ UNCHANGED <<igniter, error, target, portFile, saved, spent>>

PickPortAnew(p) == \* Mutated: every deployment takes a new port
    /\ Accepts(p) /\ (portFile = Missing \/ job[p] = "ports")
    /\ portsDir' = TRUE
    /\ \E port \in Ports : mine' = [mine EXCEPT ![p] = port]
    /\ GoTo(p, "opens")
    /\ Happens({h \in {"together"} : \E q \in Procs : pc[q] = "opens"})
    /\ UNCHANGED <<job, text, config, cache, igniter, error, target, portFile,
                   saved, spent>>

PickPort(p) ==
    /\ Accepts(p) /\ portFile = Missing
    /\ portsDir' = TRUE
    /\ \E port \in Ports : mine' = [mine EXCEPT ![p] = port]
    /\ GoTo(p, "opens")
    /\ Happens({h \in {"together"} : \E q \in Procs : pc[q] = "opens"})
    /\ UNCHANGED <<job, text, config, cache, igniter, error, target, portFile,
                   saved, spent>>

OpenPortFile(p) ==
    /\ pc[p] = "opens"
    /\ portFile' = Blank
    /\ GoTo(p, "writes")
    /\ UNCHANGED <<job, text, mine, config, cache, igniter, error, target, portsDir, events>>

WritePortFile(p) ==
    /\ pc[p] = "writes"
    /\ portFile' = mine[p]
    /\ PortDone(p, mine[p])
    /\ Forgets(p)
    /\ UNCHANGED <<igniter, error, target, portsDir, saved, spent,
                   happened>>

-----------------------------------------------------------------------------
(* A deployment up to "the magic barrier" (deploy.cc:1033-1246). *)

GenerateServicePorts ==
    /\ pc["svddeployer"] \in {"rests", "holds"}
    /\ Event
    /\ config' = [config EXCEPT !["svddeployer"] = None]
    /\ GoTo("svddeployer", "tests") /\ Takes("svddeployer", "ports")
    /\ UNCHANGED <<text, mine, cache, files, saved, happened>>

OpenIgniter ==
    /\ pc["svddeployer"] = "begins"
    /\ \E t \in Good : text' = [text EXCEPT !["svddeployer"] = t]
    /\ igniter' = Blank /\ target' = "igniter"
    /\ GoTo("svddeployer", "fills")
    /\ happened' = (happened \ {"edited"}) \cup ChangesUnder
    /\ UNCHANGED <<job, mine, config, cache, error, portsDir, portFile,
                   saved, spent>>

WriteIgniter ==
    /\ pc["svddeployer"] = "fills"
    /\ igniter' = IF target = "igniter" THEN text["svddeployer"] ELSE igniter
    /\ error' = IF target = "error" THEN text["svddeployer"] ELSE error
    /\ target' = "nowhere"
    /\ saved' = text["svddeployer"]
    /\ GoTo("svddeployer", "reads") /\ Takes("svddeployer", "config")
    /\ Forgets("svddeployer")
    /\ Happens(ChangesUnder)
    /\ UNCHANGED <<config, cache, portsDir, portFile, spent>>

-----------------------------------------------------------------------------
(* What users and the system do.                                           *)

(* An editor replaces the igniter, or a user removes it. *)
SaveIgniter(t) ==
    /\ Event /\ pc["svddeployer"] # "fills"
    /\ igniter' = t /\ saved' = t
    /\ Happens({"edited"} \cup ChangesUnder)
    /\ UNCHANGED <<memory, error, target, portsDir, portFile>>

Dies(p) ==
    /\ Event
    /\ pc[p] # "rests"
    /\ GoTo(p, First(p)) /\ Takes(p, FirstJob(p)) /\ Forgets(p)
    /\ config' = [config EXCEPT ![p] = None]
    /\ cache' = IF p = "svdss" THEN None ELSE cache
    /\ target' = IF p = "svddeployer" THEN "nowhere" ELSE target
    /\ Happens({h \in {"cut"} : pc[p] \in {"writes", "fills"}})
    /\ UNCHANGED <<igniter, error, portsDir, portFile, saved>>

-----------------------------------------------------------------------------
Load(p) ==
    \/ LoadIgniter(p) \/ Reject(p) \/ ReadPort(p) \/ PickPort(p)
    \/ OpenPortFile(p) \/ WritePortFile(p)

Next ==
    \/ \E p \in Procs : Load(p) \/ Dies(p)
    \/ Notice \/ WaitForPorts
    \/ GenerateServicePorts \/ OpenIgniter \/ WriteIgniter
    \/ \E t \in Texts \cup {Missing} : SaveIgniter(t)

Spec == Init /\ [][Next]_vars

(* The programs go on with what they do; svdss is restarted when it dies   *)
(* and loads the config again at every slot.                               *)
FairSpec ==
    /\ Spec
    /\ \A p \in Procs : WF_vars(Load(p))
    /\ WF_vars(WaitForPorts) /\ WF_vars(OpenIgniter) /\ WF_vars(WriteIgniter)

-----------------------------------------------------------------------------
Never(kinds) == kinds \cap happened = {}

(* A valid config has the port of the port file, unless two made the file  *)
(* together, one read it while it was being written, or one died over it   *)
(* (service_config.cc:284-291, 448).                                       *)
PortsAgree ==
    Never({"together", "cut"}) =>
        \A p \in Procs : Valid(config[p]) => config[p].port = portFile /\ portFile \in Ports

(* "we have stable config->releaseName() since here" (deploy.cc:1244): the *)
(* release of a deployment is the one that any program will load, as long  *)
(* as nobody edits the igniter and no load came in between.                *)
StableSinceBarrier ==
    pc["svddeployer"] = "holds" /\ Never(Happenings) =>
        config["svddeployer"] = [text |-> igniter, port |-> portFile]

(* Programs that read the same igniter name the same release, and with it  *)
(* the same pid files, logs and directories: by its port, and from the     *)
(* barrier of a deployment on by the igniter that svddeployer wrote.       *)
ReleaseNamesAgree == PortsAgree /\ StableSinceBarrier

(* A good igniter stays where it was saved, and no load asks the service   *)
(* to stop or moves a good igniter to the errors, unless a load saw the    *)
(* igniter in the middle of a change (service_config.cc:205-222).          *)
IgniterKept ==
    Never({"overlap", "cut"}) =>
        /\ saved \in Good /\ pc["svddeployer"] # "fills" => igniter = saved
        /\ error \notin Good

(* svdss keeps a valid config once it has one: an igniter that became      *)
(* unreadable leaves the cached config in use, unless it changes between   *)
(* the test and the load that is used (service.cc:36-57).                  *)
ValidConfigKept == cache # None /\ Never({"overlap"}) => Valid(config["svdss"])

(* svdpanel does not wait for the port of a service for ever, though svdss *)
(* may die between the directory and the file (panel_service.cc:25-30).    *)
PanelGoesOn == pc["svdpanel"] = "waits" ~> (pc["svdpanel"] # "waits" \/ igniter \notin Good)
=============================================================================
