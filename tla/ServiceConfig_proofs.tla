------------------------- MODULE ServiceConfig_proofs -------------------------
(***************************************************************************)
(* What ServiceConfig promises, for every set of igniters and ports and    *)
(* any number of deployments, deaths and edits.                            *)
(***************************************************************************)
EXTENDS ServiceConfig, TLAPS

(* What the programs do before one of them finishes a load.                *)
Makes(p) == pc[p] \in {"opens", "writes"}
Loads(p) == pc[p] \in {"tests", "opens", "writes"} /\ job[p] # "ports"

(* Each program has its own jobs and stages. *)
JobInv ==
    /\ job["svdss"] \in {"test", "config", "cache"}
    /\ job["svdpanel"] = "config" /\ job["svddeployer"] \in {"config", "ports"}
    /\ pc["svdss"] \in {"reads", "tests", "opens", "writes"}
    /\ pc["svdpanel"] \in {"rests", "waits", "reads", "tests", "opens", "writes"}
    /\ pc["svdss"] = "reads" => text["svdss"] = Blank
    /\ \A p \in Procs : Makes(p) /\ job[p] # "ports" => text[p] \in Good
    /\ \A p \in Procs : Makes(p) => mine[p] \in Ports
    /\ pc["svddeployer"] = "fills" => text["svddeployer"] \in Good

(* Setting up: what an event adds to the history. *)
LEMMA HappensKeeps ==
    ASSUME NEW K, NEW S, Happens(S), Never(K)'
    PROVE  Never(K) /\ K \cap S = {}
  BY DEF Happens, Never

LEMMA InitTypes == Init => TypeOK /\ JobInv
  <1> SUFFICES ASSUME Init PROVE TypeOK /\ JobInv
    OBVIOUS
  <1>1. /\ pc \in [Procs -> {"rests", "reads"}] /\ job \in [Procs -> {"test", "config"}]
        /\ pc["svdss"] = "reads" /\ job["svdss"] = "test"
        /\ \A p \in Procs \ {"svdss"} : pc[p] = "rests" /\ job[p] = "config"
    BY DEF Init, First, FirstJob, Procs
  <1>2. TypeOK
    <2>1. /\ text \in [Procs -> Texts \cup {Blank}] /\ mine \in [Procs -> Ports \cup {Blank}]
          /\ config \in [Procs -> Release \cup {None}] /\ cache \in Release \cup {None}
      BY DEF Init
    <2>2. spent \in 0..MaxEvents /\ happened \subseteq Happenings
      BY ConfigAssumption DEF Init
    <2> QED
      BY <1>1, <2>1, <2>2, ZenonT(60) DEF Init, TypeOK, Texts
  <1>3. JobInv
    BY <1>1 DEF Init, JobInv, Makes, Procs
  <1> QED
    BY <1>2, <1>3

(* Where a load leads. *)
AfterLoad(p) ==
    /\ pc' = [pc EXCEPT ![p] = pc'[p]] /\ pc'[p] \in {"reads", "holds"}
    /\ pc'[p] = "holds" <=> p = "svddeployer"
    /\ job' = [job EXCEPT ![p] = job'[p]] /\ job'[p] \in {"test", "config", "cache"}
    /\ p # "svdss" => job'[p] = "config" /\ cache' = cache
    /\ config' = [config EXCEPT ![p] = config'[p]]
    /\ config' \in [Procs -> Release \cup {None}] /\ cache' \in Release \cup {None}

LEMMA LoadedTypes ==
    ASSUME TypeOK, JobInv, NEW p \in Procs, NEW release \in Release, job[p] # "ports",
           Loaded(p, release)
    PROVE  AfterLoad(p)
  <1> USE DEF AfterLoad
  <1>1. CASE p = "svdss" /\ job[p] = "test"
    BY <1>1 DEF Loaded, TypeOK, GoTo, Takes, Release, Unnamed
  <1>2. CASE p = "svdss" /\ job[p] = "config"
    BY <1>2 DEF Loaded, TypeOK, GoTo, Takes
  <1>3. CASE p = "svdss" /\ job[p] = "cache"
    BY <1>3 DEF Loaded, TypeOK, GoTo, Takes
  <1>4. CASE p # "svdss"
    BY <1>4 DEF Loaded, TypeOK, GoTo, Takes, JobInv, Procs
  <1> QED
    BY <1>1, <1>2, <1>3, <1>4 DEF JobInv

(* A load that ends keeps the types, whatever it read. *)
LEMMA EndTypes ==
    ASSUME TypeOK, JobInv, NEW p \in Procs, pc[p] \in {"tests", "writes"},
           AfterLoad(p) \/ (pc' = [pc EXCEPT ![p] = "begins"] /\ p = "svddeployer"
                            /\ UNCHANGED <<job, config, cache>>),
           Forgets(p), UNCHANGED <<saved, spent>>,
           igniter' \in Texts \cup {Missing, Blank}, error' \in Texts \cup {Missing, Blank},
           target' \in {"igniter", "error", "nowhere"}, portsDir' \in BOOLEAN,
           portFile' \in Ports \cup {Missing, Blank}, happened' \subseteq Happenings
    PROVE  TypeOK' /\ JobInv'
  <1>1. TypeOK'
    BY DEF TypeOK, AfterLoad, Forgets
  <1>2. JobInv'
    BY DEF TypeOK, JobInv, AfterLoad, Forgets, Makes, Procs
  <1> QED
    BY <1>1, <1>2

LEMMA HappensTypes ==
    ASSUME happened \subseteq Happenings, NEW S, S \subseteq Happenings, Happens(S)
    PROVE  happened' \subseteq Happenings
  BY DEF Happens

LEMMA EventTypes == TypeOK /\ Event => spent' \in 0..MaxEvents
  BY ConfigAssumption DEF TypeOK, Event

(* The stages of a load keep the types. *)
LEMMA LoadTypes ==
    ASSUME TypeOK, JobInv, NEW p \in Procs, Load(p)
    PROVE  TypeOK' /\ JobInv'
  <1>1. CASE LoadIgniter(p)
    <2>1. happened' \subseteq Happenings
      BY <1>1, HappensTypes DEF LoadIgniter, TypeOK, Happenings
    <2>2. TypeOK'
      BY <1>1, <2>1 DEF LoadIgniter, TypeOK, GoTo, files, Texts
    <2>3. JobInv'
      BY <1>1 DEF LoadIgniter, TypeOK, JobInv, GoTo, files, Makes, Procs
    <2> QED
      BY <2>2, <2>3
  <1>2. CASE Reject(p)
    <2>1. happened' \subseteq Happenings
      BY <1>2, HappensTypes DEF Reject, TypeOK, Happenings
    <2>2. Unnamed \in Release /\ job[p] # "ports" /\ pc[p] = "tests"
      BY <1>2 DEF Reject, Rejects, Unnamed, Release
    <2>3. AfterLoad(p)
      BY <1>2, <2>2, LoadedTypes DEF Reject
    <2>4. /\ igniter' \in Texts \cup {Missing, Blank} /\ error' \in Texts \cup {Missing, Blank}
          /\ target' \in {"igniter", "error", "nowhere"}
      BY <1>2 DEF Reject, MoveAway, TypeOK
    <2> QED
      BY <1>2, <2>1, <2>2, <2>3, <2>4, EndTypes DEF Reject, TypeOK
  <1>3. CASE ReadPort(p)
    <2>1. happened' \subseteq Happenings
      BY <1>3, HappensTypes DEF ReadPort, TypeOK, Happenings
    <2>2. portFile \in Ports \cup {Blank} /\ pc[p] = "tests"
      BY <1>3 DEF ReadPort, Accepts, TypeOK
    <2>3. CASE job[p] = "ports"
      <3>1. p = "svddeployer"
        BY <2>3 DEF JobInv, Procs
      <3> QED
        BY <1>3, <2>1, <2>2, <2>3, <3>1, EndTypes DEF ReadPort, PortDone, GoTo, TypeOK
    <2>4. CASE job[p] # "ports"
      <3>1. [text |-> text[p], port |-> portFile] \in Release
        BY <1>3, <2>2, <2>4 DEF ReadPort, Accepts, Release
      <3>2. AfterLoad(p)
        BY <1>3, <2>4, <3>1, LoadedTypes DEF ReadPort, PortDone
      <3> QED
        BY <1>3, <2>1, <2>2, <3>2, EndTypes DEF ReadPort, TypeOK
    <2> QED
      BY <2>3, <2>4
  <1>4. CASE PickPort(p)
    <2>1. happened' \subseteq Happenings
      BY <1>4, HappensTypes DEF PickPort, TypeOK, Happenings
    <2>2. TypeOK'
      BY <1>4, <2>1 DEF PickPort, Accepts, TypeOK, GoTo
    <2>3. JobInv'
      BY <1>4 DEF PickPort, Accepts, TypeOK, JobInv, GoTo, Makes, Procs
    <2> QED
      BY <2>2, <2>3
  <1>5. CASE OpenPortFile(p)
    <2>1. TypeOK'
      BY <1>5 DEF OpenPortFile, TypeOK, GoTo, events
    <2>2. JobInv'
      BY <1>5 DEF OpenPortFile, TypeOK, JobInv, GoTo, Makes, Procs, events
    <2> QED
      BY <2>1, <2>2
  <1>6. CASE WritePortFile(p)
    <2>1. happened' \subseteq Happenings
      BY <1>6 DEF WritePortFile, TypeOK
    <2>2. mine[p] \in Ports /\ pc[p] = "writes"
      BY <1>6 DEF WritePortFile, JobInv, Makes
    <2>3. CASE job[p] = "ports"
      <3>1. p = "svddeployer"
        BY <2>3 DEF JobInv, Procs
      <3> QED
        BY <1>6, <2>1, <2>2, <2>3, <3>1, EndTypes DEF WritePortFile, PortDone, GoTo, TypeOK
    <2>4. CASE job[p] # "ports"
      <3>1. [text |-> text[p], port |-> mine[p]] \in Release
        BY <2>2, <2>4 DEF JobInv, Makes, Release
      <3>2. AfterLoad(p)
        BY <1>6, <2>4, <3>1, LoadedTypes DEF WritePortFile, PortDone
      <3> QED
        BY <1>6, <2>1, <2>2, <3>2, EndTypes DEF WritePortFile, TypeOK
    <2> QED
      BY <2>3, <2>4
  <1> QED
    BY <1>1, <1>2, <1>3, <1>4, <1>5, <1>6 DEF Load

(* Every program and every event keeps the types. *)
LEMMA StepTypes ==
    ASSUME TypeOK, JobInv, [Next]_vars
    PROVE  TypeOK' /\ JobInv'
  <1>1. ASSUME NEW p \in Procs, Load(p) PROVE TypeOK' /\ JobInv'
    BY <1>1, LoadTypes
  <1>2. ASSUME NEW p \in Procs, Dies(p) PROVE TypeOK' /\ JobInv'
    <2>1. happened' \subseteq Happenings
      BY <1>2, HappensTypes DEF Dies, TypeOK, Happenings
    <2>2. spent' \in 0..MaxEvents
      BY <1>2, EventTypes DEF Dies
    <2>3. TypeOK'
      BY <1>2, <2>1, <2>2 DEF Dies, TypeOK, GoTo, Takes, Forgets, First, FirstJob
    <2>4. JobInv'
      BY <1>2 DEF Dies, TypeOK, JobInv, GoTo, Takes, Forgets, First, FirstJob, Makes, Procs
    <2> QED
      BY <2>3, <2>4
  <1>3. CASE Notice \/ WaitForPorts
    <2>1. TypeOK'
      BY <1>3 DEF Notice, WaitForPorts, TypeOK, GoTo, files, events
    <2>2. JobInv'
      BY <1>3 DEF Notice, WaitForPorts, TypeOK, JobInv, GoTo, files, events, Makes, Procs
    <2> QED
      BY <2>1, <2>2
  <1>4. CASE GenerateServicePorts
    <2>1. spent' \in 0..MaxEvents
      BY <1>4, EventTypes DEF GenerateServicePorts
    <2>2. TypeOK'
      BY <1>4, <2>1 DEF GenerateServicePorts, TypeOK, GoTo, Takes, files
    <2>3. JobInv'
      BY <1>4 DEF GenerateServicePorts, TypeOK, JobInv, GoTo, Takes, files, Makes, Procs
    <2> QED
      BY <2>2, <2>3
  <1>5. CASE OpenIgniter
    <2>1. happened' \subseteq Happenings
      BY <1>5 DEF OpenIgniter, TypeOK, Happenings, ChangesUnder
    <2>2. TypeOK'
      BY <1>5, <2>1 DEF OpenIgniter, TypeOK, GoTo, Texts, Procs
    <2>3. JobInv'
      BY <1>5 DEF OpenIgniter, TypeOK, JobInv, GoTo, Makes, Procs
    <2> QED
      BY <2>2, <2>3
  <1>6. CASE WriteIgniter
    <2>1. happened' \subseteq Happenings
      BY <1>6, HappensTypes DEF WriteIgniter, TypeOK, Happenings, ChangesUnder
    <2>2. text["svddeployer"] \in Texts
      BY <1>6 DEF WriteIgniter, JobInv, Texts
    <2>3. TypeOK'
      BY <1>6, <2>1, <2>2 DEF WriteIgniter, TypeOK, GoTo, Takes, Forgets
    <2>4. JobInv'
      BY <1>6 DEF WriteIgniter, TypeOK, JobInv, GoTo, Takes, Forgets, Makes, Procs
    <2> QED
      BY <2>3, <2>4
  <1>7. ASSUME NEW t \in Texts \cup {Missing}, SaveIgniter(t) PROVE TypeOK' /\ JobInv'
    <2>1. happened' \subseteq Happenings
      BY <1>7, HappensTypes DEF SaveIgniter, TypeOK, Happenings, ChangesUnder
    <2>2. spent' \in 0..MaxEvents
      BY <1>7, EventTypes DEF SaveIgniter
    <2>3. TypeOK'
      BY <1>7, <2>1, <2>2 DEF SaveIgniter, TypeOK, memory
    <2>4. JobInv'
      BY <1>7 DEF SaveIgniter, JobInv, memory, Makes
    <2> QED
      BY <2>3, <2>4
  <1>8. CASE UNCHANGED vars
    <2>1. TypeOK'
      BY <1>8 DEF vars, memory, files, events, TypeOK
    <2>2. JobInv'
      BY <1>8 DEF vars, memory, files, events, JobInv, Makes
    <2> QED
      BY <2>1, <2>2
  <1> QED
    BY <1>1, <1>2, <1>3, <1>4, <1>5, <1>6, <1>7, <1>8 DEF Next

(* Contents of files and the stages of the programs are what the code      *)
(* can make of them (service_config.cc:200-291, service.cc:36-57).         *)
THEOREM ServiceConfigTypeCorrect == Spec => [](TypeOK /\ JobInv)
  BY InitTypes, StepTypes, PTL DEF Spec

-----------------------------------------------------------------------------
(* What happened stays, edits apart: svddeployer forgets those.            *)
LEMMA Earlier ==
    ASSUME [Next]_vars, NEW K, "edited" \notin K \/ ~OpenIgniter, Never(K)'
    PROVE  Never(K)
  <1>1. happened \subseteq happened' \cup {k \in {"edited"} : OpenIgniter}
    BY DEF Next, Load, LoadIgniter, Reject, ReadPort, PickPort, OpenPortFile, WritePortFile, Dies,
           Notice, WaitForPorts, GenerateServicePorts, OpenIgniter, WriteIgniter, SaveIgniter,
           Happens, events, vars
  <1> QED
    BY <1>1 DEF Never

(* What a load leaves in use and in the cache: what was there, the release *)
(* it made, or no release at all.                                          *)
LEMMA LoadedFrom ==
    ASSUME TypeOK, NEW p \in Procs, NEW release, Loaded(p, release)
    PROVE  /\ \A q \in Procs : Valid(config'[q]) => config'[q] \in {config[q], cache, release}
           /\ Valid(cache') => cache' \in {cache, release}
  <1>1. ~Valid(Unnamed)
    BY ConfigAssumption DEF Valid, Unnamed
  <1> QED
    BY <1>1 DEF Loaded, TypeOK

(* Where the port file can be while it is being made, and that every valid *)
(* config, in use or cached, has the port of the file.                     *)
Bears(c, port) == Valid(c) => c.port = port /\ port \in Ports

PortInv ==
    Never({"together", "cut"}) =>
        /\ \A p \in Procs : pc[p] = "opens" => portFile = Missing
        /\ \A p \in Procs : pc[p] = "writes" => portFile = Blank
        /\ \A p \in Procs : \A q \in Procs \ {p} : ~(Makes(p) /\ Makes(q))
        /\ portFile = Blank => \E p \in Procs : pc[p] = "writes"
        /\ \A p \in Procs : Bears(config[p], portFile)
        /\ Bears(cache, portFile)

LEMMA InitPort == Init => PortInv
  <1> SUFFICES ASSUME Init PROVE PortInv
    OBVIOUS
  <1>1. \A p \in Procs : pc[p] \in {"reads", "rests"} /\ config[p] = None
    BY DEF Init, First
  <1>2. cache = None /\ portFile = Missing /\ Missing # Blank
    BY ConfigAssumption DEF Init
  <1> QED
    BY <1>1, <1>2 DEF PortInv, Bears, Valid, Makes

(* A load that ends with a release that bears the port of the file.        *)
LEMMA PortLoaded ==
    ASSUME TypeOK, JobInv, NEW p \in Procs, NEW release \in Release,
           job[p] # "ports", Loaded(p, release), Bears(release, portFile'),
           portFile' = portFile \/ portFile \notin Ports,
           \A q \in Procs : Bears(config[q], portFile), Bears(cache, portFile)
    PROVE  (\A q \in Procs : Bears(config'[q], portFile')) /\ Bears(cache', portFile')
  <1>1. /\ \A q \in Procs : Valid(config'[q]) => config'[q] \in {config[q], cache, release}
        /\ Valid(cache') => cache' \in {cache, release}
    BY LoadedFrom
  <1>2. ASSUME NEW c, Bears(c, portFile), Valid(c) PROVE c.port = portFile' /\ portFile' \in Ports
    BY <1>2 DEF Bears
  <1> QED
    BY <1>1, <1>2 DEF Bears

LEMMA PortStep ==
    ASSUME TypeOK, JobInv, PortInv, [Next]_vars
    PROVE  PortInv'
  <1> DEFINE Quiet == Never({"together", "cut"})
  <1> SUFFICES ASSUME Quiet' PROVE PortInv'
    BY DEF PortInv
  <1>0. Quiet
    BY Earlier
  <1>a. /\ \A p \in Procs : pc[p] = "opens" => portFile = Missing
        /\ \A p \in Procs : pc[p] = "writes" => portFile = Blank
        /\ \A p \in Procs : \A q \in Procs \ {p} : ~(Makes(p) /\ Makes(q))
        /\ portFile = Blank => \E p \in Procs : pc[p] = "writes"
    BY <1>0 DEF PortInv
  <1>b. (\A p \in Procs : Bears(config[p], portFile)) /\ Bears(cache, portFile)
    BY <1>0 DEF PortInv
  <1>c. Missing # Blank /\ Missing \notin Ports /\ Blank \notin Ports /\ ~Valid(Unnamed)
    BY ConfigAssumption DEF Valid, Unnamed
  <1>d. pc \in [Procs -> {"rests", "waits", "reads", "tests", "opens", "writes", "begins",
                         "fills", "holds"}]
    BY DEF TypeOK
  <1>1. ASSUME NEW p \in Procs, LoadIgniter(p) PROVE PortInv'
    <2>1. (\A q \in Procs : Bears(config'[q], portFile')) /\ Bears(cache', portFile')
      BY <1>1, <1>b DEF LoadIgniter, Bears, Valid, files, TypeOK
    <2>2. pc' = [pc EXCEPT ![p] = "tests"] /\ pc[p] = "reads" /\ portFile' = portFile
      BY <1>1 DEF LoadIgniter, GoTo, files
    <2> QED
      BY <2>1, <2>2, <1>a, <1>d DEF PortInv, Makes
  <1>2. ASSUME NEW p \in Procs, Reject(p) PROVE PortInv'
    <2>1. Unnamed \in Release /\ job[p] # "ports" /\ pc[p] = "tests" /\ Bears(Unnamed, portFile')
      BY <1>2, <1>c DEF Reject, Rejects, Unnamed, Release, Bears, Valid
    <2>2. (\A q \in Procs : Bears(config'[q], portFile')) /\ Bears(cache', portFile')
      BY <1>2, <1>b, <2>1, PortLoaded DEF Reject
    <2>3. pc' = [pc EXCEPT ![p] = pc'[p]] /\ pc'[p] \in {"reads", "holds"}
      BY <1>2, <2>1, LoadedTypes DEF Reject, AfterLoad
    <2> QED
      BY <1>2, <2>1, <2>2, <2>3, <1>a, <1>d DEF PortInv, Makes, Reject
  <1>3. ASSUME NEW p \in Procs, ReadPort(p) PROVE PortInv'
    <2>1. portFile \in Ports /\ pc[p] = "tests" /\ portFile' = portFile
      <3>1. ~(portFile = Blank /\ \E q \in Procs : pc[q] = "writes")
        BY <1>3 DEF ReadPort, Happens, Never
      <3> QED
        BY <1>3, <1>a, <3>1 DEF ReadPort, Accepts, TypeOK
    <2>2. pc' = [pc EXCEPT ![p] = pc'[p]] /\ pc'[p] \in {"reads", "holds", "begins"}
          /\ (\A q \in Procs : Bears(config'[q], portFile')) /\ Bears(cache', portFile')
      <3>1. CASE job[p] = "ports"
        <4>1. pc' = [pc EXCEPT ![p] = "begins"] /\ config' = config /\ cache' = cache
          BY <1>3, <3>1 DEF ReadPort, PortDone, GoTo
        <4> QED
          BY <4>1, <2>1, <1>b, <1>d DEF Bears, Valid
      <3>2. CASE job[p] # "ports"
        <4>1. [text |-> text[p], port |-> portFile] \in Release
          BY <1>3, <2>1, <3>2 DEF ReadPort, Accepts, Release
        <4>2. Loaded(p, [text |-> text[p], port |-> portFile])
          BY <1>3, <3>2 DEF ReadPort, PortDone
        <4>3. Bears([text |-> text[p], port |-> portFile], portFile')
          BY <2>1 DEF Bears
        <4>4. AfterLoad(p)
          BY <4>1, <4>2, <3>2, LoadedTypes
        <4>5. (\A q \in Procs : Bears(config'[q], portFile')) /\ Bears(cache', portFile')
          BY <4>1, <4>2, <4>3, <3>2, <2>1, <1>b, PortLoaded
        <4> QED
          BY <4>4, <4>5 DEF AfterLoad
      <3> QED
        BY <3>1, <3>2
    <2> QED
      BY <2>1, <2>2, <1>a, <1>c, <1>d DEF PortInv, Makes
  <1>4. ASSUME NEW p \in Procs, PickPort(p) PROVE PortInv'
    <2>1. \A q \in Procs : ~Makes(q)
      <3>1. \A q \in Procs : pc[q] # "opens"
        BY <1>4 DEF PickPort, Happens, Never
      <3> QED
        BY <1>4, <3>1, <1>a, <1>c DEF PickPort, Makes
    <2>2. pc' = [pc EXCEPT ![p] = "opens"] /\ portFile = Missing
          /\ UNCHANGED <<portFile, config, cache>>
      BY <1>4 DEF PickPort, GoTo
    <2> QED
      BY <2>1, <2>2, <1>a, <1>b, <1>c, <1>d DEF PortInv, Makes, Bears, Valid
  <1>5. ASSUME NEW p \in Procs, OpenPortFile(p) PROVE PortInv'
    <2>1. pc[p] = "opens" /\ pc' = [pc EXCEPT ![p] = "writes"] /\ portFile' = Blank
          /\ portFile = Missing /\ UNCHANGED <<config, cache>>
      BY <1>5, <1>a DEF OpenPortFile, GoTo
    <2>2. (\A q \in Procs : Bears(config'[q], portFile')) /\ Bears(cache', portFile')
      BY <2>1, <1>b, <1>c DEF Bears, Valid
    <2> QED
      BY <2>1, <2>2, <1>a, <1>c, <1>d DEF PortInv, Makes
  <1>6. ASSUME NEW p \in Procs, WritePortFile(p) PROVE PortInv'
    <2>1. pc[p] = "writes" /\ portFile = Blank /\ portFile' = mine[p] /\ mine[p] \in Ports
      BY <1>6, <1>a DEF WritePortFile, JobInv, Makes
    <2>2. pc' = [pc EXCEPT ![p] = pc'[p]] /\ pc'[p] \in {"reads", "holds", "begins"}
          /\ (\A q \in Procs : Bears(config'[q], portFile')) /\ Bears(cache', portFile')
      <3>1. CASE job[p] = "ports"
        <4>1. pc' = [pc EXCEPT ![p] = "begins"] /\ config' = config /\ cache' = cache
          BY <1>6, <3>1 DEF WritePortFile, PortDone, GoTo
        <4> QED
          BY <4>1, <2>1, <1>b, <1>c, <1>d DEF Bears, Valid
      <3>2. CASE job[p] # "ports"
        <4>1. [text |-> text[p], port |-> mine[p]] \in Release
          BY <2>1, <3>2 DEF JobInv, Makes, Release
        <4>2. Loaded(p, [text |-> text[p], port |-> mine[p]])
          BY <1>6, <3>2 DEF WritePortFile, PortDone
        <4>3. Bears([text |-> text[p], port |-> mine[p]], portFile')
          BY <2>1 DEF Bears
        <4>4. AfterLoad(p)
          BY <4>1, <4>2, <3>2, LoadedTypes
        <4>5. (\A q \in Procs : Bears(config'[q], portFile')) /\ Bears(cache', portFile')
          BY <4>1, <4>2, <4>3, <3>2, <2>1, <1>b, <1>c, PortLoaded
        <4> QED
          BY <4>4, <4>5 DEF AfterLoad
      <3> QED
        BY <3>1, <3>2
    <2> QED
      BY <2>1, <2>2, <1>a, <1>c, <1>d DEF PortInv, Makes
  <1>7. ASSUME NEW p \in Procs, Dies(p) PROVE PortInv'
    <2>1. pc[p] # "writes"
      BY <1>7 DEF Dies, Happens, Never
    <2>2. pc' = [pc EXCEPT ![p] = First(p)] /\ portFile' = portFile
          /\ config' = [config EXCEPT ![p] = None] /\ cache' \in {cache, None}
      BY <1>7 DEF Dies, GoTo
    <2>3. (\A q \in Procs : Bears(config'[q], portFile')) /\ Bears(cache', portFile')
      BY <2>2, <1>b DEF Bears, Valid, TypeOK
    <2> QED
      BY <2>1, <2>2, <2>3, <1>a, <1>d DEF PortInv, Makes, First
  <1>8. CASE Notice \/ WaitForPorts \/ OpenIgniter \/ WriteIgniter
    <2>1. /\ portFile' = portFile /\ config' = config /\ cache' = cache
          /\ \A q \in Procs : pc'[q] = pc[q] \/ (pc[q] \notin {"opens", "writes"}
                                                /\ pc'[q] \notin {"opens", "writes"})
      BY <1>8, <1>d DEF Notice, WaitForPorts, OpenIgniter, WriteIgniter, GoTo, files
    <2> QED
      BY <2>1, <1>a, <1>b DEF PortInv, Makes, Bears, Valid
  <1>9. CASE GenerateServicePorts
    <2>1. /\ portFile' = portFile /\ cache' = cache
          /\ config' = [config EXCEPT !["svddeployer"] = None]
          /\ \A q \in Procs : pc'[q] = pc[q] \/ (pc[q] \notin {"opens", "writes"}
                                                /\ pc'[q] \notin {"opens", "writes"})
      BY <1>9, <1>d DEF GenerateServicePorts, GoTo, files
    <2>2. (\A q \in Procs : Bears(config'[q], portFile')) /\ Bears(cache', portFile')
      BY <2>1, <1>b DEF Bears, Valid, TypeOK
    <2> QED
      BY <2>1, <2>2, <1>a DEF PortInv, Makes
  <1>10. ASSUME NEW t \in Texts \cup {Missing}, SaveIgniter(t) PROVE PortInv'
    BY <1>10, <1>a, <1>b DEF SaveIgniter, memory, PortInv, Makes, Bears, Valid
  <1>11. CASE UNCHANGED vars
    BY <1>11, <1>a, <1>b DEF vars, memory, files, PortInv, Makes, Bears, Valid
  <1> QED
    BY <1>1, <1>2, <1>3, <1>4, <1>5, <1>6, <1>7, <1>8, <1>9, <1>10, <1>11 DEF Next, Load

-----------------------------------------------------------------------------
(* Where the igniter is while svddeployer fills it and otherwise, and that *)
(* who is about to reject it has read what is still there.                 *)
IgniterInv ==
    Never({"overlap", "cut"}) =>
        /\ pc["svddeployer"] = "fills" =>
              target = "igniter" /\ igniter = Blank /\ \A p \in Procs : ~Rejects(p)
        /\ pc["svddeployer"] # "fills" =>
              igniter # Blank /\ (saved \in Good => igniter = saved)
        /\ error \notin Good
        /\ \A p \in Procs : Rejects(p) => igniter \notin Good

LEMMA InitIgniter == Init => IgniterInv
  <1> SUFFICES ASSUME Init PROVE IgniterInv
    OBVIOUS
  <1>1. \A p \in Procs : pc[p] \in {"reads", "rests"}
    BY DEF Init, First
  <1>2. igniter # Blank /\ error \notin Good /\ saved = igniter
    BY ConfigAssumption DEF Init
  <1> QED
    BY <1>1, <1>2 DEF IgniterInv, Rejects, Procs

(* The part of a load after a good igniter leaves igniters alone. *)
LEMMA IgniterLeft ==
    ASSUME IgniterInv, Never({"overlap", "cut"}), NEW p \in Procs,
           pc[p] # "fills", pc'[p] \notin {"fills", "tests"},
           \A q \in Procs \ {p} : pc'[q] = pc[q] /\ job'[q] = job[q] /\ text'[q] = text[q],
           UNCHANGED <<igniter, error, target, saved>>
    PROVE  IgniterInv'
  <1>1. \A q \in Procs : Rejects(q)' => Rejects(q)
    BY DEF Rejects
  <1>2. pc'["svddeployer"] = "fills" <=> pc["svddeployer"] = "fills"
    BY DEF Procs
  <1> QED
    BY <1>1, <1>2 DEF IgniterInv

LEMMA IgniterStep ==
    ASSUME TypeOK, JobInv, IgniterInv, [Next]_vars
    PROVE  IgniterInv'
  <1> DEFINE Quiet == Never({"overlap", "cut"})
  <1> SUFFICES ASSUME Quiet' PROVE IgniterInv'
    BY DEF IgniterInv
  <1>0. Quiet
    BY Earlier
  <1>a. /\ pc["svddeployer"] = "fills" =>
              target = "igniter" /\ igniter = Blank /\ \A p \in Procs : ~Rejects(p)
        /\ pc["svddeployer"] # "fills" =>
              igniter # Blank /\ (saved \in Good => igniter = saved)
        /\ error \notin Good
        /\ \A p \in Procs : Rejects(p) => igniter \notin Good
    BY <1>0 DEF IgniterInv
  <1>b. Missing # Blank /\ {Missing, Blank} \cap Texts = {} /\ Good \subseteq Texts
    BY ConfigAssumption DEF Texts
  <1>c. /\ pc \in [Procs -> {"rests", "waits", "reads", "tests", "opens", "writes", "begins",
                            "fills", "holds"}]
        /\ job \in [Procs -> {"test", "config", "cache", "ports"}]
        /\ text \in [Procs -> Texts \cup {Blank}]
    BY DEF TypeOK
  <1>d. "svddeployer" \in Procs
    BY DEF Procs
  <1>1. ASSUME NEW p \in Procs, LoadIgniter(p) PROVE IgniterInv'
    <2>1. pc["svddeployer"] # "fills"
      BY <1>1 DEF LoadIgniter, Happens, Never
    <2>2. pc' = [pc EXCEPT ![p] = "tests"] /\ job' = job
          /\ UNCHANGED <<igniter, error, target, saved>>
          /\ text' = [text EXCEPT ![p] = IF igniter \in Texts THEN igniter ELSE Blank]
      BY <1>1 DEF LoadIgniter, GoTo, files
    <2>3. \A q \in Procs : Rejects(q)' => igniter \notin Good
      BY <2>2, <1>a, <1>b, <1>c DEF Rejects
    <2>4. pc'["svddeployer"] # "fills"
      BY <2>1, <2>2, <1>c, <1>d
    <2> QED
      BY <2>1, <2>2, <2>3, <2>4, <1>a DEF IgniterInv
  <1>2. ASSUME NEW p \in Procs, Reject(p) PROVE IgniterInv'
    <2>1. igniter \notin Good /\ pc["svddeployer"] # "fills" /\ saved \notin Good
      BY <1>2, <1>a DEF Reject
    <2>2. igniter' = Missing /\ error' \notin Good /\ saved' = saved
      BY <1>2, <2>1, <1>a DEF Reject, MoveAway
    <2>3. pc'["svddeployer"] # "fills"
      <3>1. Unnamed \in Release /\ job[p] # "ports"
        BY <1>2 DEF Reject, Rejects, Unnamed, Release
      <3>2. AfterLoad(p)
        BY <1>2, <3>1, LoadedTypes DEF Reject
      <3> QED
        BY <3>2, <2>1, <1>c, <1>d DEF AfterLoad
    <2> QED
      BY <2>1, <2>2, <2>3, <1>b DEF IgniterInv
  <1>3. ASSUME NEW p \in Procs, ReadPort(p) \/ PickPort(p) \/ OpenPortFile(p) \/ WritePortFile(p)
        PROVE  IgniterInv'
    <2>1. pc[p] # "fills" /\ UNCHANGED <<igniter, error, target, saved>>
      BY <1>3 DEF ReadPort, PickPort, OpenPortFile, WritePortFile, Accepts, events
    <2>2. \A q \in Procs \ {p} : text'[q] = text[q]
      BY <1>3, <1>c DEF ReadPort, PickPort, OpenPortFile, WritePortFile, Forgets
    <2>3. /\ pc'[p] \notin {"fills", "tests"}
          /\ \A q \in Procs \ {p} : pc'[q] = pc[q] /\ job'[q] = job[q]
      <3>1. CASE PickPort(p) \/ OpenPortFile(p)
        BY <3>1, <1>c DEF PickPort, OpenPortFile, GoTo
      <3>2. CASE (ReadPort(p) \/ WritePortFile(p)) /\ job[p] = "ports"
        BY <3>2, <1>c DEF ReadPort, WritePortFile, PortDone, GoTo
      <3>3. CASE ReadPort(p) /\ job[p] # "ports"
        <4>1. [text |-> text[p], port |-> portFile] \in Release
          BY <3>3 DEF ReadPort, Accepts, Release, TypeOK
        <4>2. AfterLoad(p)
          BY <3>3, <4>1, LoadedTypes DEF ReadPort, PortDone
        <4> QED
          BY <4>2, <1>c DEF AfterLoad
      <3>4. CASE WritePortFile(p) /\ job[p] # "ports"
        <4>1. [text |-> text[p], port |-> mine[p]] \in Release
          BY <3>4 DEF WritePortFile, JobInv, Makes, Release
        <4>2. AfterLoad(p)
          BY <3>4, <4>1, LoadedTypes DEF WritePortFile, PortDone
        <4> QED
          BY <4>2, <1>c DEF AfterLoad
      <3> QED
        BY <1>3, <3>1, <3>2, <3>3, <3>4
    <2> QED
      BY <2>1, <2>2, <2>3, <1>0, IgniterLeft
  <1>4. ASSUME NEW p \in Procs, Dies(p) PROVE IgniterInv'
    <2>1. pc[p] # "fills" /\ UNCHANGED <<igniter, error, saved>>
      BY <1>4 DEF Dies, Happens, Never
    <2>2. pc' = [pc EXCEPT ![p] = First(p)] /\ job' = [job EXCEPT ![p] = FirstJob(p)]
          /\ text' = [text EXCEPT ![p] = Blank]
      BY <1>4 DEF Dies, GoTo, Takes, Forgets
    <2>3. \A q \in Procs : Rejects(q)' => Rejects(q)
      BY <2>2, <1>c DEF Rejects, First
    <2>4. pc'["svddeployer"] = "fills" <=> pc["svddeployer"] = "fills"
      BY <2>1, <2>2, <1>c, <1>d DEF First
    <2>5. pc["svddeployer"] = "fills" => target' = target
      BY <1>4, <2>1 DEF Dies
    <2> QED
      BY <2>1, <2>3, <2>4, <2>5, <1>a DEF IgniterInv
  <1>5. CASE Notice \/ WaitForPorts
    <2> DEFINE p == "svdpanel"
    <2>1. /\ pc[p] # "fills" /\ pc'[p] \notin {"fills", "tests"}
          /\ \A q \in Procs \ {p} : pc'[q] = pc[q] /\ job'[q] = job[q] /\ text'[q] = text[q]
          /\ UNCHANGED <<igniter, error, target, saved>>
      BY <1>5, <1>c DEF Notice, WaitForPorts, GoTo, files, events, Procs
    <2>2. p \in Procs
      BY DEF Procs
    <2> QED
      BY <2>1, <2>2, <1>0, IgniterLeft
  <1>6. CASE GenerateServicePorts
    <2>1. /\ pc["svddeployer"] # "fills" /\ UNCHANGED <<igniter, error, target, saved, text>>
          /\ pc' = [pc EXCEPT !["svddeployer"] = "tests"]
          /\ job' = [job EXCEPT !["svddeployer"] = "ports"]
      BY <1>6 DEF GenerateServicePorts, GoTo, Takes, files
    <2>2. \A q \in Procs : Rejects(q)' => Rejects(q)
      BY <2>1, <1>c, <1>d DEF Rejects
    <2> QED
      BY <2>1, <2>2, <1>a, <1>c, <1>d DEF IgniterInv
  <1>7. CASE OpenIgniter
    <2>1. \A q \in Procs : ~Rejects(q)
      BY <1>7 DEF OpenIgniter, ChangesUnder, Never
    <2>2. /\ pc' = [pc EXCEPT !["svddeployer"] = "fills"] /\ job' = job
          /\ \A q \in Procs \ {"svddeployer"} : text'[q] = text[q]
          /\ igniter' = Blank /\ target' = "igniter" /\ error' = error
      BY <1>7, <1>c DEF OpenIgniter, GoTo
    <2>3. \A q \in Procs : ~Rejects(q)'
      BY <2>1, <2>2, <1>c DEF Rejects
    <2> QED
      BY <2>2, <2>3, <1>a, <1>c, <1>d DEF IgniterInv
  <1>8. CASE WriteIgniter
    <2>1. pc["svddeployer"] = "fills" /\ text["svddeployer"] \in Good
      BY <1>8 DEF WriteIgniter, JobInv
    <2>2. /\ pc' = [pc EXCEPT !["svddeployer"] = "reads"]
          /\ job' = [job EXCEPT !["svddeployer"] = "config"]
          /\ \A q \in Procs \ {"svddeployer"} : text'[q] = text[q]
          /\ igniter' = text["svddeployer"] /\ saved' = igniter' /\ error' = error
      BY <1>8, <2>1, <1>a, <1>c DEF WriteIgniter, GoTo, Takes, Forgets
    <2>3. \A q \in Procs : ~Rejects(q)'
      BY <2>1, <2>2, <1>a, <1>c DEF Rejects
    <2> QED
      BY <2>1, <2>2, <2>3, <1>a, <1>b, <1>c, <1>d DEF IgniterInv
  <1>9. ASSUME NEW t \in Texts \cup {Missing}, SaveIgniter(t) PROVE IgniterInv'
    <2>1. \A q \in Procs : ~Rejects(q)
      BY <1>9 DEF SaveIgniter, ChangesUnder, Happens, Never
    <2>2. /\ UNCHANGED <<pc, job, text, error>> /\ igniter' = t /\ saved' = t
          /\ pc["svddeployer"] # "fills"
      BY <1>9 DEF SaveIgniter, memory
    <2>3. \A q \in Procs : ~Rejects(q)'
      BY <2>1, <2>2 DEF Rejects
    <2> QED
      BY <2>2, <2>3, <1>a, <1>b DEF IgniterInv
  <1>10. CASE UNCHANGED vars
    <2>1. UNCHANGED <<pc, job, text, igniter, error, target, saved>>
      BY <1>10 DEF vars, memory, files, events
    <2> QED
      BY <2>1, <1>a DEF IgniterInv, Rejects
  <1> QED
    BY <1>1, <1>2, <1>3, <1>4, <1>5, <1>6, <1>7, <1>8, <1>9, <1>10 DEF Next, Load

(* A good igniter stays where it was saved and none is moved to the errors *)
(* while no load sees one in the middle of a change                        *)
(* (service_config.cc:205-222, deploy.cc:1238-1242).                       *)
THEOREM IgniterKeptCorrect == Spec => []IgniterKept
  <1>1. IgniterInv => IgniterKept
    BY DEF IgniterInv, IgniterKept
  <1> QED
    BY <1>1, InitTypes, StepTypes, InitIgniter, IgniterStep, PTL DEF Spec

-----------------------------------------------------------------------------
(* What svdss knows between its test of the igniter and its use.           *)
TestInv ==
    Never({"overlap"}) =>
        /\ Trusts => igniter \in Good
        /\ job["svdss"] \in {"config", "cache"} /\ pc["svdss"] # "reads" => text["svdss"] \in Good
        /\ job["svdss"] = "cache" => Valid(config["svdss"])
        /\ cache # None => Valid(cache) /\ Valid(config["svdss"])

LEMMA InitTest == Init => TestInv
  BY ConfigAssumption DEF Init, TestInv, Trusts, First, FirstJob, Procs

(* What others do leaves svdss' knowledge alone.                           *)
LEMMA TestLeft ==
    ASSUME TestInv, Never({"overlap"}), igniter' = igniter \/ ~Trusts,
           pc'["svdss"] = pc["svdss"], job'["svdss"] = job["svdss"],
           text'["svdss"] = text["svdss"], config'["svdss"] = config["svdss"], cache' = cache
    PROVE  TestInv'
  <1>1. Trusts' <=> Trusts
    BY DEF Trusts
  <1> QED
    BY <1>1 DEF TestInv, Valid

(* A load of svdss that ends.                                              *)
LEMMA TestLoaded ==
    ASSUME TypeOK, JobInv, TestInv, Never({"overlap"}), pc["svdss"] \in {"tests", "writes"},
           text["svdss"] \in Good, NEW release, release.text = text["svdss"], release # None,
           Loaded("svdss", release), Forgets("svdss"), igniter' = igniter
    PROVE  TestInv'
  <1>1. /\ Trusts => igniter \in Good
        /\ job["svdss"] = "cache" => Valid(config["svdss"])
        /\ cache # None => Valid(cache) /\ Valid(config["svdss"])
    BY DEF TestInv
  <1>2. Valid(release) /\ "svdss" \in Procs
    BY DEF Valid, Procs
  <1>3. pc' = [pc EXCEPT !["svdss"] = "reads"] /\ text'["svdss"] = Blank
    BY <1>2 DEF Loaded, GoTo, Forgets, JobInv, TypeOK
  <1>4. CASE job["svdss"] = "test"
    <2>1. job'["svdss"] = "config" /\ config' = config /\ cache' = cache /\ igniter \in Good
      BY <1>1, <1>2, <1>4 DEF Loaded, Takes, TypeOK, Trusts
    <2> QED
      BY <2>1, <1>1, <1>2, <1>3 DEF TestInv, TypeOK, Trusts
  <1>5. CASE job["svdss"] = "config"
    <2>1. job'["svdss"] = "cache" /\ config'["svdss"] = release /\ cache' = cache /\ igniter \in Good
      BY <1>1, <1>2, <1>5 DEF Loaded, Takes, TypeOK, Trusts
    <2> QED
      BY <2>1, <1>1, <1>2, <1>3 DEF TestInv, TypeOK, Trusts
  <1>6. CASE job["svdss"] = "cache"
    <2>1. job'["svdss"] = "test" /\ config' = config /\ cache' = release
      BY <1>1, <1>2, <1>6 DEF Loaded, Takes, TypeOK
    <2>2. ~Trusts'
      BY <2>1, <1>3, ConfigAssumption DEF Trusts
    <2> QED
      BY <2>1, <2>2, <1>1, <1>2, <1>3, <1>6 DEF TestInv, TypeOK
  <1> QED
    BY <1>4, <1>5, <1>6 DEF JobInv

LEMMA TestStep ==
    ASSUME TypeOK, JobInv, TestInv, [Next]_vars
    PROVE  TestInv'
  <1> DEFINE Quiet == Never({"overlap"})
  <1> SUFFICES ASSUME Quiet' PROVE TestInv'
    BY DEF TestInv
  <1>0. Quiet
    BY Earlier
  <1>a. /\ Trusts => igniter \in Good
        /\ job["svdss"] \in {"config", "cache"} /\ pc["svdss"] # "reads" => text["svdss"] \in Good
        /\ job["svdss"] = "cache" => Valid(config["svdss"])
        /\ cache # None => Valid(cache) /\ Valid(config["svdss"])
    BY <1>0 DEF TestInv
  <1>b. Missing \notin Good /\ Blank \notin Good /\ Good \subseteq Texts
    BY ConfigAssumption DEF Texts
  <1>c. /\ pc \in [Procs -> {"rests", "waits", "reads", "tests", "opens", "writes", "begins",
                            "fills", "holds"}]
        /\ job \in [Procs -> {"test", "config", "cache", "ports"}]
        /\ text \in [Procs -> Texts \cup {Blank}] /\ config \in [Procs -> Release \cup {None}]
    BY DEF TypeOK
  <1>d. "svdss" \in Procs
    BY DEF Procs
  <1>1. ASSUME NEW p \in Procs, LoadIgniter(p) PROVE TestInv'
    <2>1. CASE p = "svdss"
      <3>1. /\ pc["svdss"] = "reads" /\ pc'["svdss"] = "tests" /\ igniter' = igniter
            /\ text'["svdss"] = IF igniter \in Texts THEN igniter ELSE Blank
            /\ job' = job /\ config' = config /\ cache' = cache
        BY <1>1, <2>1, <1>c, <1>d DEF LoadIgniter, GoTo, files
      <3>2. Trusts' => igniter \in Good
        BY <3>1, <1>a, <1>b DEF Trusts
      <3>3. job["svdss"] \in {"config", "cache"} => text'["svdss"] \in Good
        BY <3>1, <1>a, <1>b DEF Trusts
      <3> QED
        BY <3>1, <3>2, <3>3, <1>a DEF TestInv
    <2>2. CASE p # "svdss"
      <3>1. /\ pc'["svdss"] = pc["svdss"] /\ job'["svdss"] = job["svdss"] /\ igniter' = igniter
            /\ text'["svdss"] = text["svdss"] /\ config'["svdss"] = config["svdss"] /\ cache' = cache
        BY <1>1, <2>2, <1>c, <1>d DEF LoadIgniter, GoTo, files
      <3> QED
        BY <3>1, <1>0, TestLeft
    <2> QED
      BY <2>1, <2>2
  <1>2. ASSUME NEW p \in Procs, Reject(p) PROVE TestInv'
    <2>1. CASE p = "svdss"
      <3>1. job["svdss"] = "test" /\ ~Valid(Unnamed)
        BY <1>2, <2>1, <1>a, <1>b DEF Reject, Rejects, JobInv, Valid, Unnamed
      <3>2. /\ pc'["svdss"] = "reads" /\ job'["svdss"] = "test" /\ text'["svdss"] = Blank
            /\ config'["svdss"] = (IF cache = None THEN Unnamed ELSE cache) /\ cache' = cache
        BY <1>2, <2>1, <3>1, <1>c, <1>d DEF Reject, Loaded, GoTo, Takes, Forgets
      <3>3. ~Trusts'
        BY <3>2, <1>b DEF Trusts
      <3> QED
        BY <3>2, <3>3, <1>a DEF TestInv
    <2>2. CASE p # "svdss"
      <3>1. igniter' = igniter \/ ~Trusts
        <4>1. Trusts => igniter = Missing
          BY <1>2, <2>2 DEF Reject, Happens, Never
        <4> QED
          BY <4>1, <1>a, <1>b
      <3>2. Unnamed \in Release /\ job[p] # "ports"
        BY <1>2 DEF Reject, Rejects, Unnamed, Release
      <3>3. AfterLoad(p)
        BY <1>2, <3>2, LoadedTypes DEF Reject
      <3>4. /\ pc'["svdss"] = pc["svdss"] /\ job'["svdss"] = job["svdss"]
            /\ text'["svdss"] = text["svdss"] /\ config'["svdss"] = config["svdss"] /\ cache' = cache
        BY <1>2, <2>2, <3>3, <1>c, <1>d DEF Reject, AfterLoad, Forgets
      <3> QED
        BY <3>1, <3>4, <1>0, TestLeft
    <2> QED
      BY <2>1, <2>2
  <1>3. ASSUME NEW p \in Procs, ReadPort(p) \/ WritePortFile(p) PROVE TestInv'
    <2>1. PICK port : /\ PortDone(p, port) /\ port \in Ports \cup {Blank}
                      /\ Forgets(p) /\ igniter' = igniter /\ pc[p] \in {"tests", "writes"}
                      /\ job[p] # "ports" => text[p] \in Good
      <3>1. CASE ReadPort(p)
        BY <3>1 DEF ReadPort, Accepts, TypeOK
      <3>2. CASE WritePortFile(p)
        BY <3>2 DEF WritePortFile, JobInv, Makes
      <3> QED
        BY <1>3, <3>1, <3>2
    <2>2. CASE p = "svdss"
      <3> DEFINE release == [text |-> text[p], port |-> port]
      <3>1. job[p] # "ports" /\ text["svdss"] \in Good
        BY <2>1, <2>2 DEF JobInv
      <3>2. Loaded("svdss", release) /\ release.text = text["svdss"]
        BY <2>1, <2>2, <3>1 DEF PortDone
      <3>3. release # None
        BY <2>1, <3>1, ConfigAssumption DEF Release
      <3> HIDE DEF release
      <3> QED
        BY <2>1, <2>2, <3>1, <3>2, <3>3, <1>0, TestLoaded
    <2>3. CASE p # "svdss"
      <3>1. /\ pc'["svdss"] = pc["svdss"] /\ job'["svdss"] = job["svdss"]
            /\ config'["svdss"] = config["svdss"] /\ cache' = cache
        <4>1. CASE job[p] = "ports"
          BY <2>1, <2>3, <4>1, <1>c, <1>d DEF PortDone, GoTo
        <4>2. CASE job[p] # "ports"
          <5>1. [text |-> text[p], port |-> port] \in Release
            BY <2>1, <4>2 DEF Release
          <5>2. AfterLoad(p)
            BY <2>1, <4>2, <5>1, LoadedTypes DEF PortDone
          <5> QED
            BY <5>2, <2>3, <1>c, <1>d DEF AfterLoad
        <4> QED
          BY <4>1, <4>2
      <3>2. text'["svdss"] = text["svdss"]
        BY <2>1, <2>3, <1>c, <1>d DEF Forgets
      <3> QED
        BY <2>1, <3>1, <3>2, <1>0, TestLeft
    <2> QED
      BY <2>2, <2>3
  <1>4. ASSUME NEW p \in Procs, PickPort(p) \/ OpenPortFile(p) PROVE TestInv'
    <2>1. /\ pc[p] \in {"tests", "opens"} /\ pc'[p] \in {"opens", "writes"}
          /\ \A q \in Procs \ {p} : pc'[q] = pc[q]
          /\ UNCHANGED <<job, text, config, cache, igniter>>
      BY <1>4, <1>c DEF PickPort, OpenPortFile, GoTo, Accepts
    <2>2. Trusts' <=> Trusts
      BY <2>1, <1>d DEF Trusts
    <2> QED
      BY <2>1, <2>2, <1>a, <1>d DEF TestInv
  <1>5. ASSUME NEW p \in Procs, Dies(p) PROVE TestInv'
    <2>1. CASE p = "svdss"
      <3>1. pc'["svdss"] = "reads" /\ job'["svdss"] = "test" /\ text'["svdss"] = Blank /\ cache' = None
        BY <1>5, <2>1, <1>c, <1>d DEF Dies, GoTo, Takes, Forgets, First, FirstJob
      <3>2. ~Trusts'
        BY <3>1, <1>b DEF Trusts
      <3> QED
        BY <3>1, <3>2 DEF TestInv
    <2>2. CASE p # "svdss"
      <3>1. /\ pc'["svdss"] = pc["svdss"] /\ job'["svdss"] = job["svdss"] /\ igniter' = igniter
            /\ text'["svdss"] = text["svdss"] /\ config'["svdss"] = config["svdss"] /\ cache' = cache
        BY <1>5, <2>2, <1>c, <1>d DEF Dies, GoTo, Takes, Forgets
      <3> QED
        BY <3>1, <1>0, TestLeft
    <2> QED
      BY <2>1, <2>2
  <1>6. CASE Notice \/ WaitForPorts \/ GenerateServicePorts
    <2>1. /\ pc'["svdss"] = pc["svdss"] /\ job'["svdss"] = job["svdss"] /\ igniter' = igniter
          /\ text'["svdss"] = text["svdss"] /\ config'["svdss"] = config["svdss"] /\ cache' = cache
      BY <1>6, <1>c, <1>d DEF Notice, WaitForPorts, GenerateServicePorts, GoTo, Takes, files
    <2> QED
      BY <2>1, <1>0, TestLeft
  <1>7. CASE OpenIgniter \/ WriteIgniter
    <2>1. ~Trusts
      BY <1>7 DEF OpenIgniter, WriteIgniter, Happens, ChangesUnder, Never
    <2>2. /\ pc'["svdss"] = pc["svdss"] /\ job'["svdss"] = job["svdss"]
          /\ text'["svdss"] = text["svdss"] /\ config'["svdss"] = config["svdss"] /\ cache' = cache
      BY <1>7, <1>c, <1>d DEF OpenIgniter, WriteIgniter, GoTo, Takes, Forgets
    <2> QED
      BY <2>1, <2>2, <1>0, TestLeft
  <1>8. ASSUME NEW t \in Texts \cup {Missing}, SaveIgniter(t) PROVE TestInv'
    <2>1. ~Trusts
      BY <1>8 DEF SaveIgniter, Happens, ChangesUnder, Never
    <2> QED
      BY <1>8, <2>1, <1>0, TestLeft DEF SaveIgniter, memory
  <1>9. CASE UNCHANGED vars
    BY <1>9, <1>0, TestLeft DEF vars, memory, files
  <1> QED
    BY <1>1, <1>2, <1>3, <1>4, <1>5, <1>6, <1>7, <1>8, <1>9 DEF Next, Load

(* svdss keeps a valid config once it has one, whatever its igniter        *)
(* becomes, unless it changes between the test and the load that is used   *)
(* (service.cc:36-57).                                                     *)
THEOREM ConfigKeptCorrect == Spec => []ValidConfigKept
  <1>1. TestInv => ValidConfigKept
    BY DEF TestInv, ValidConfigKept
  <1> QED
    BY <1>1, InitTypes, StepTypes, InitTest, TestStep, PTL DEF Spec

-----------------------------------------------------------------------------
(* From the igniter svddeployer has written to the config it deploys.      *)
BarrierInv ==
    Never(Happenings) =>
        /\ pc["svddeployer"] = "reads" => igniter \in Good
        /\ Loads("svddeployer") => text["svddeployer"] = igniter /\ igniter \in Good
        /\ pc["svddeployer"] = "holds" =>
              /\ igniter \in Good /\ config["svddeployer"] # None
              /\ config["svddeployer"] = [text |-> igniter, port |-> portFile]

LEMMA InitBarrier == Init => BarrierInv
  BY DEF Init, BarrierInv, Loads, First, Procs

(* What others do leaves svddeployer's knowledge alone.                    *)
LEMMA BarrierLeft ==
    ASSUME BarrierInv, Never(Happenings),
           igniter' = igniter \/ igniter \notin Good, portFile' = portFile \/ portFile \notin Ports,
           Bears(config["svddeployer"], portFile),
           pc'["svddeployer"] = pc["svddeployer"], job'["svddeployer"] = job["svddeployer"],
           text'["svddeployer"] = text["svddeployer"], config'["svddeployer"] = config["svddeployer"]
    PROVE  BarrierInv'
  <1>1. Loads("svddeployer")' <=> Loads("svddeployer")
    BY DEF Loads
  <1>2. ASSUME pc["svddeployer"] = "holds" PROVE igniter' = igniter /\ portFile' = portFile
    <2>1. /\ config["svddeployer"] = [text |-> igniter, port |-> portFile]
          /\ igniter \in Good /\ config["svddeployer"] # None
      BY <1>2 DEF BarrierInv
    <2>2. portFile \in Ports
      BY <2>1 DEF Bears, Valid
    <2> QED
      BY <2>1, <2>2
  <1> QED
    BY <1>1, <1>2 DEF BarrierInv

LEMMA BarrierStep ==
    ASSUME TypeOK, JobInv, PortInv, IgniterInv, BarrierInv, [Next]_vars
    PROVE  BarrierInv'
  <1> DEFINE Quiet == Never(Happenings)
             d == "svddeployer"
  <1> SUFFICES ASSUME Quiet' PROVE BarrierInv'
    BY DEF BarrierInv
  <1>1. CASE OpenIgniter
    <2>1. pc'[d] = "fills"
      BY <1>1 DEF OpenIgniter, GoTo, TypeOK, Procs
    <2> QED
      BY <2>1 DEF BarrierInv, Loads
  <1> SUFFICES ASSUME ~OpenIgniter PROVE BarrierInv'
    BY <1>1
  <1>0. Quiet
    BY Earlier
  <1>a. /\ pc[d] = "reads" => igniter \in Good
        /\ Loads(d) => text[d] = igniter /\ igniter \in Good
        /\ pc[d] = "holds" =>
              /\ igniter \in Good /\ config[d] # None
              /\ config[d] = [text |-> igniter, port |-> portFile]
    BY <1>0 DEF BarrierInv
  <1>b. Bears(config[d], portFile)
    BY <1>0 DEF PortInv, Never, Happenings, Procs
  <1>c. /\ pc \in [Procs -> {"rests", "waits", "reads", "tests", "opens", "writes", "begins",
                            "fills", "holds"}]
        /\ job \in [Procs -> {"test", "config", "cache", "ports"}]
        /\ text \in [Procs -> Texts \cup {Blank}] /\ config \in [Procs -> Release \cup {None}]
    BY DEF TypeOK
  <1>d. "svddeployer" \in Procs /\ Blank \notin Ports /\ Missing \notin Ports
    BY ConfigAssumption DEF Procs
  <1>2. ASSUME NEW p \in Procs, LoadIgniter(p) PROVE BarrierInv'
    <2>1. CASE p = d
      <3>1. pc'[d] = "tests" /\ igniter' = igniter /\ igniter \in Good /\ text'[d] = igniter
        BY <1>2, <2>1, <1>a, <1>c, <1>d DEF LoadIgniter, GoTo, files, Texts
      <3> QED
        BY <3>1 DEF BarrierInv, Loads
    <2>2. CASE p # d
      <3>1. /\ pc'[d] = pc[d] /\ job'[d] = job[d] /\ text'[d] = text[d] /\ config'[d] = config[d]
            /\ igniter' = igniter /\ portFile' = portFile
        BY <1>2, <2>2, <1>c, <1>d DEF LoadIgniter, GoTo, files
      <3> QED
        BY <3>1, <1>0, <1>b, BarrierLeft
    <2> QED
      BY <2>1, <2>2
  <1>3. ASSUME NEW p \in Procs, Reject(p) PROVE BarrierInv'
    <2>1. igniter \notin Good
      BY <1>0, <1>3 DEF IgniterInv, Reject, Never, Happenings
    <2>2. p # d
      BY <1>3, <2>1, <1>a DEF Reject, Rejects, Loads
    <2>3. AfterLoad(p)
      <3>1. Unnamed \in Release /\ job[p] # "ports"
        BY <1>3 DEF Reject, Rejects, Unnamed, Release
      <3> QED
        BY <1>3, <3>1, LoadedTypes DEF Reject
    <2>4. /\ pc'[d] = pc[d] /\ job'[d] = job[d] /\ text'[d] = text[d] /\ config'[d] = config[d]
          /\ portFile' = portFile
      BY <1>3, <2>2, <2>3, <1>c, <1>d DEF AfterLoad, Reject, Forgets
    <2> QED
      BY <2>1, <2>4, <1>0, <1>b, BarrierLeft
  <1>4. ASSUME NEW p \in Procs, ReadPort(p) \/ WritePortFile(p) PROVE BarrierInv'
    <2>1. PICK port : /\ PortDone(p, port) /\ port \in Ports \cup {Blank}
                      /\ portFile' = port
                      /\ portFile' = portFile \/ portFile \notin Ports
                      /\ Forgets(p) /\ igniter' = igniter /\ pc[p] \in {"tests", "writes"}
                      /\ job[p] # "ports" => text[p] \in Good
      <3>1. CASE ReadPort(p)
        BY <3>1 DEF ReadPort, Accepts, TypeOK
      <3>2. CASE WritePortFile(p)
        <4>1. portFile = Blank
          BY <1>0, <3>2 DEF WritePortFile, PortInv, Never, Happenings
        <4> QED
          BY <4>1, <3>2, <1>d DEF WritePortFile, JobInv, Makes
      <3> QED
        BY <1>4, <3>1, <3>2
    <2>2. CASE job[p] = "ports"
      <3>1. p = d /\ pc'[d] = "begins"
        BY <2>1, <2>2, <1>c, <1>d DEF PortDone, GoTo, JobInv, Procs
      <3> QED
        BY <3>1 DEF BarrierInv, Loads
    <2>3. CASE job[p] # "ports" /\ p = d
      <3>1. text[d] = igniter /\ igniter \in Good
        BY <2>1, <2>3, <1>a DEF Loads
      <3>2. pc'[d] = "holds" /\ config'[d] = [text |-> text[d], port |-> port]
        BY <2>1, <2>3, <1>c, <1>d DEF PortDone, Loaded, GoTo
      <3>3. config'[d] = [text |-> igniter', port |-> portFile']
        BY <2>1, <3>1, <3>2
      <3>4. config'[d] # None
        <4>1. config'[d] \in [text : Good \cup {Blank}, port : Ports \cup {Blank}]
          BY <2>1, <3>1, <3>2
        <4> QED
          BY <4>1, ConfigAssumption
      <3>5. pc'[d] = "holds" /\ igniter' \in Good
        BY <2>1, <3>1, <3>2
      <3> QED
        BY <3>3, <3>4, <3>5 DEF BarrierInv, Loads
    <2>4. CASE job[p] # "ports" /\ p # d
      <3>1. [text |-> text[p], port |-> port] \in Release
        BY <2>1, <2>4 DEF Release
      <3>2. AfterLoad(p)
        BY <2>1, <2>4, <3>1, LoadedTypes DEF PortDone
      <3>3. pc'[d] = pc[d] /\ job'[d] = job[d] /\ text'[d] = text[d] /\ config'[d] = config[d]
        BY <2>1, <2>4, <3>2, <1>c, <1>d DEF AfterLoad, Forgets
      <3> QED
        BY <2>1, <3>3, <1>0, <1>b, BarrierLeft
    <2> QED
      BY <2>2, <2>3, <2>4
  <1>5. ASSUME NEW p \in Procs, PickPort(p) \/ OpenPortFile(p) PROVE BarrierInv'
    <2>1. /\ pc[p] \in {"tests", "opens"} /\ pc'[p] \in {"opens", "writes"}
          /\ \A q \in Procs \ {p} : pc'[q] = pc[q]
          /\ UNCHANGED <<job, text, config, igniter>>
      BY <1>5, <1>c DEF PickPort, OpenPortFile, GoTo, Accepts
    <2>2. portFile' = portFile \/ portFile \notin Ports
      <3>1. CASE OpenPortFile(p)
        BY <3>1, <1>0, <1>d DEF OpenPortFile, PortInv, Never, Happenings
      <3> QED
        BY <1>5, <3>1 DEF PickPort
    <2>3. CASE p = d
      BY <2>1, <2>3, <1>a DEF BarrierInv, Loads
    <2>4. CASE p # d
      BY <2>1, <2>2, <2>4, <1>0, <1>b, <1>d, BarrierLeft
    <2> QED
      BY <2>3, <2>4
  <1>6. ASSUME NEW p \in Procs, Dies(p) PROVE BarrierInv'
    <2>1. CASE p = d
      <3>1. pc'[d] = "rests"
        BY <1>6, <2>1, <1>c, <1>d DEF Dies, GoTo, First
      <3> QED
        BY <3>1 DEF BarrierInv, Loads
    <2>2. CASE p # d
      <3>1. /\ pc'[d] = pc[d] /\ job'[d] = job[d] /\ text'[d] = text[d] /\ config'[d] = config[d]
            /\ igniter' = igniter /\ portFile' = portFile
        BY <1>6, <2>2, <1>c, <1>d DEF Dies, GoTo, Takes, Forgets
      <3> QED
        BY <3>1, <1>0, <1>b, BarrierLeft
    <2> QED
      BY <2>1, <2>2
  <1>7. CASE Notice \/ WaitForPorts
    <2>1. /\ pc'[d] = pc[d] /\ job'[d] = job[d] /\ text'[d] = text[d] /\ config'[d] = config[d]
          /\ igniter' = igniter /\ portFile' = portFile
      BY <1>7, <1>c, <1>d DEF Notice, WaitForPorts, GoTo, files
    <2> QED
      BY <2>1, <1>0, <1>b, BarrierLeft
  <1>8. CASE GenerateServicePorts
    <2>1. pc'[d] = "tests" /\ job'[d] = "ports"
      BY <1>8, <1>c, <1>d DEF GenerateServicePorts, GoTo, Takes
    <2> QED
      BY <2>1 DEF BarrierInv, Loads
  <1>9. CASE WriteIgniter
    <2>1. pc'[d] = "reads" /\ target = "igniter" /\ text[d] \in Good /\ igniter' = text[d]
      BY <1>9, <1>0, <1>c, <1>d DEF WriteIgniter, GoTo, JobInv, IgniterInv, Never, Happenings
    <2> QED
      BY <2>1 DEF BarrierInv, Loads
  <1>10. ASSUME NEW t \in Texts \cup {Missing}, SaveIgniter(t) PROVE BarrierInv'
    BY <1>10 DEF SaveIgniter, Happens, Never, Happenings
  <1>11. CASE UNCHANGED vars
    BY <1>11, <1>0, <1>b, BarrierLeft DEF vars, memory, files
  <1> QED
    BY <1>2, <1>3, <1>4, <1>5, <1>6, <1>7, <1>8, <1>9, <1>10, <1>11 DEF Next, Load

(* Programs that read the same igniter name the same release: while nobody *)
(* makes the port file with another, reads it half made or dies over it,   *)
(* it is made once and every valid config bears its port; and what         *)
(* svddeployer holds after its barrier is what any program will load       *)
(* (service_config.cc:284-291, 448, deploy.cc:1244-1246).                  *)
THEOREM ReleaseNamesCorrect == Spec => []ReleaseNamesAgree
  <1>1. PortInv => PortsAgree
    BY DEF PortInv, PortsAgree, Bears
  <1>2. BarrierInv => StableSinceBarrier
    BY DEF BarrierInv, StableSinceBarrier
  <1> QED
    BY <1>1, <1>2, InitTypes, StepTypes, InitPort, PortStep, InitIgniter, IgniterStep,
       InitBarrier, BarrierStep, PTL DEF Spec, ReleaseNamesAgree
=============================================================================
