---------------------------- MODULE Deployer_proofs ----------------------------
(***************************************************************************)
(* Theorems about Deployer, for any pushes, deployers, deployments and     *)
(* events, and any way in which igniters follow from the code.             *)
(***************************************************************************)
EXTENDS Deployer, SequenceTheorems, TLAPS

Dir == [name : Releases \cup {Build}, code : Codes]

Job == [pc : Steps, release : Releases \cup {None}, code : Codes,
        fresh : BOOLEAN, asked : 0..3]

(* What a step of a deployment relies on: the release is known from the    *)
(* igniter on, and a restart can be asked for until the last time.         *)
JobOK(j) ==
    /\ j.pc \in {"idle", "mark", "build", "write"} \/ j.release \in Releases
    /\ j.pc \in {"retire", "publish", "unmark", "clean"} \/ j.asked <= 2

JobsOK == \A d \in Deployers : JobOK(job[d])

-----------------------------------------------------------------------------
(* The operators on .releases.                                             *)

LEMMA RemoveAtType ==
    ASSUME NEW S, NEW s \in Seq(S), NEW i \in DOMAIN s
    PROVE  /\ RemoveAt(s, i) \in Seq(S)
           /\ Len(RemoveAt(s, i)) = Len(s) - 1
           /\ \A j \in 1..Len(s) - 1 : RemoveAt(s, i)[j] = IF j < i THEN s[j] ELSE s[j + 1]
  <1>1. i \in 1..Len(s) /\ Len(s) \in Nat
    BY LenProperties
  <1> DEFINE a == SubSeq(s, 1, i - 1)  b == SubSeq(s, i + 1, Len(s))
  <1>2. a \in Seq(S) /\ Len(a) = i - 1 /\ \A j \in 1..i-1 : a[j] = s[j]
    BY <1>1, SubSeqProperties
  <1>3. b \in Seq(S) /\ Len(b) = Len(s) - i /\ \A j \in 1..Len(s)-i : b[j] = s[i + j]
    BY <1>1, SubSeqProperties
  <1>4. RemoveAt(s, i) = a \o b
    BY DEF RemoveAt
  <1> HIDE DEF a, b
  <1>5. /\ a \o b \in Seq(S) /\ Len(a \o b) = Len(a) + Len(b)
        /\ \A j \in 1..Len(a) + Len(b) :
             (a \o b)[j] = IF j <= Len(a) THEN a[j] ELSE b[j - Len(a)]
    BY <1>2, <1>3, ConcatProperties
  <1>6. ASSUME NEW j \in 1..Len(s) - 1
        PROVE  (a \o b)[j] = IF j < i THEN s[j] ELSE s[j + 1]
    <2>1. j \in Int /\ i \in Int /\ j <= Len(s) - 1 /\ j >= 1
      BY <1>1
    <2>2. CASE j < i
      BY <1>1, <1>2, <1>3, <1>5, <2>1, <2>2, SMTT(40)
    <2>3. CASE ~(j < i)
      <3>1. j \in 1..Len(a) + Len(b) /\ ~(j <= Len(a)) /\ j - Len(a) \in 1..Len(s) - i
        BY <1>1, <1>2, <1>3, <2>1, <2>3, SMTT(40)
      <3>2. (a \o b)[j] = b[j - Len(a)]
        BY <1>5, <3>1
      <3> DEFINE k == j - Len(a)
      <3>3. k \in 1..Len(s) - i /\ i + k = j + 1
        BY <1>2, <2>1, <3>1
      <3> HIDE DEF k
      <3>4. b[k] = s[i + k]
        BY <1>3, <3>3
      <3> QED
        BY <2>3, <3>2, <3>3, <3>4 DEF k
    <2> QED
      BY <2>2, <2>3
  <1> QED
    BY <1>1, <1>2, <1>3, <1>4, <1>5, <1>6, SMTT(40)

LEMMA PrunedType ==
    ASSUME NEW S, dirs \in Seq(S)
    PROVE  /\ Pruned \in Seq(S)
           /\ Len(Pruned) <= 3 /\ Len(Pruned) <= Len(dirs)
           /\ \A j \in 1..Len(dirs) : j <= 3 => j <= Len(Pruned)
           /\ \A j \in 1..Len(Pruned) : Pruned[j] = dirs[j]
  <1>1. Len(dirs) \in Nat
    BY LenProperties
  <1>2. CASE Len(dirs) > 3
    <2>1. Pruned = SubSeq(dirs, 1, 3)
      BY <1>2 DEF Pruned, MaxDeploysToKeep
    <2> QED
      BY <1>1, <1>2, <2>1, SubSeqProperties
  <1>3. CASE ~(Len(dirs) > 3)
    BY <1>1, <1>3 DEF Pruned, MaxDeploysToKeep
  <1> QED
    BY <1>2, <1>3

LEMMA PushedFront ==
    ASSUME NEW S, NEW s \in Seq(S), NEW e \in S
    PROVE  /\ <<e>> \o s \in Seq(S)
           /\ Len(<<e>> \o s) = Len(s) + 1
           /\ (<<e>> \o s)[1] = e
           /\ \A j \in 1..Len(s) : (<<e>> \o s)[j + 1] = s[j]
  <1>1. <<e>> \in Seq(S) /\ Len(<<e>>) = 1 /\ Len(s) \in Nat
    BY LenProperties
  <1> QED
    BY <1>1, ConcatProperties

LEMMA NamesAt ==
    ASSUME NEW ds, NEW n PROVE n \in Names(ds) <=> \E i \in DOMAIN ds : ds[i].name = n
  BY DEF Names

LEMMA CodeInType ==
    ASSUME NEW n, dirs \in Seq(Dir) PROVE CodeIn(n) \in Codes
  <1>1. CASE n \in Names(dirs)
    <2>1. PICK i \in DOMAIN dirs : dirs[i].name = n
      BY <1>1 DEF Names
    <2>2. \A j \in DOMAIN dirs : dirs[j] \in Dir
      BY LenProperties, ElementOfSeq
    <2> DEFINE ds == {dirs[k] : k \in DOMAIN dirs}
    <2>3. (CHOOSE dir \in ds : dir.name = n) \in ds
      BY <2>1
    <2>4. (CHOOSE dir \in ds : dir.name = n) \in Dir
      BY <2>2, <2>3
    <2> QED
      BY <1>1, <2>4 DEF CodeIn, Dir
  <1>2. CASE n \notin Names(dirs)
    BY <1>2, DeployerAssumption DEF CodeIn, Codes
  <1> QED
    BY <1>1, <1>2

LEMMA WithoutType ==
    ASSUME NEW n, dirs \in Seq(Dir) PROVE Without(n) \in Seq(Dir)
  <1>1. CASE n \in Names(dirs)
    <2>1. (CHOOSE i \in DOMAIN dirs : dirs[i].name = n) \in DOMAIN dirs
      BY <1>1 DEF Names
    <2> QED
      BY <1>1, <2>1, RemoveAtType DEF Without
  <1>2. CASE n \notin Names(dirs)
    BY <1>2 DEF Without
  <1> QED
    BY <1>1, <1>2

LEMMA CloneType ==
    ASSUME TypeOK, NEW n \in Releases \cup {Build}, CloneRepository(n)
    PROVE  dirs' \in Seq(Dir) /\ spent' \in 0..MaxEvents /\ happened' \subseteq Kinds
  <1>1. dirs \in Seq(Dir) /\ [name |-> n, code |-> head] \in Dir
    BY DEF TypeOK, Dir
  <1>2. Pruned \in Seq(Dir) /\ <<[name |-> n, code |-> head]>> \o Pruned \in Seq(Dir)
    BY <1>1, PrunedType, PushedFront
  <1>3. dirs' \in Seq(Dir)
    BY <1>2 DEF CloneRepository
  <1>4. spent' \in 0..MaxEvents
    BY DeployerAssumption DEF CloneRepository, Event, TypeOK
  <1>5. happened' \subseteq Kinds
    BY DEF CloneRepository, Happens, TypeOK, Kinds
  <1> QED
    BY <1>3, <1>4, <1>5

-----------------------------------------------------------------------------
(* Type correctness. *)

LEMMA TypeParts == TypeOK => dirs \in Seq(Dir) /\ job \in [Deployers -> Job]
  BY DEF TypeOK, Dir, Job

LEMMA EventType == TypeOK /\ Event => spent' \in 0..MaxEvents
  BY DeployerAssumption DEF TypeOK, Event

LEMMA HappensType == ASSUME TypeOK, NEW kinds \in SUBSET Kinds, Happens(kinds)
                     PROVE  happened' \subseteq Kinds
  BY DEF TypeOK, Happens

LEMMA TypeStep ==
    ASSUME TypeOK, JobsOK, NEW d \in Deployers, Begin(d) \/ Step(d) \/ Interrupted(d)
    PROVE  TypeOK' /\ JobsOK'
  <1>1. /\ dirs \in Seq(Dir) /\ job[d] \in Job /\ NoJob \in Job
        /\ job \in [Deployers -> Job] /\ JobOK(job[d]) /\ JobOK(NoJob)
    BY TypeParts, DeployerAssumption DEF NoJob, Job, Steps, Codes, JobsOK, JobOK
  <1> DEFINE Moved == job' \in [Deployers -> Job] /\ JobsOK'
  <1>0. ASSUME NEW j \in Job, JobOK(j), job' = [job EXCEPT ![d] = j] PROVE Moved
    BY <1>0, <1>1 DEF JobsOK
  <1>m. ASSUME NEW s \in Steps, GoTo(d, s), JobOK([job[d] EXCEPT !.pc = s]) PROVE Moved
    <2>1. [job[d] EXCEPT !.pc = s] \in Job
      BY <1>1 DEF Job
    <2>2. job' = [job EXCEPT ![d] = [job[d] EXCEPT !.pc = s]]
      BY <1>m, <1>1 DEF GoTo
    <2> QED
      BY <1>m, <1>0, <2>1, <2>2
  <1> HIDE DEF Moved
  <1>2. CASE Begin(d)
    <2>1. Moved
      BY <1>1, <1>2, <1>m DEF Begin, At, JobOK, Job, Steps
    <2>2. begun' \in 0..MaxDeploys
      BY <1>2, DeployerAssumption DEF Begin, TypeOK
    <2>3. happened' \subseteq Kinds
      BY <1>2 DEF Begin, Happens, TypeOK, Kinds
    <2> QED
      BY <1>2, <2>1, <2>2, <2>3 DEF Moved, Begin, TypeOK, Job, served, svdss
  <1>3. CASE Mark(d)
    <2>1. Moved
      BY <1>1, <1>3, <1>m DEF Mark, At, JobOK, Job, Steps
    <2> QED
      BY <1>3, <2>1 DEF Moved, Mark, TypeOK, Job, served, svdss, history
  <1>4. CASE CloneBuild(d)
    <2>1. dirs' \in Seq(Dir) /\ spent' \in 0..MaxEvents /\ happened' \subseteq Kinds
      BY <1>4, CloneType DEF CloneBuild
    <2>2. Moved
      <3> DEFINE j == [job[d] EXCEPT !.pc = "write", !.code = head,
                                     !.fresh = IgniterOf[head] \notin Names(dirs)]
      <3>1. j \in Job /\ JobOK(j)
        BY <1>1, <1>4 DEF Job, JobOK, CloneBuild, At, TypeOK, Steps
      <3>2. job' = [job EXCEPT ![d] = j]
        BY <1>1, <1>4 DEF CloneBuild
      <3> HIDE DEF j
      <3> QED
        BY <1>0, <3>1, <3>2
    <2>3. watch' \in Watches
      BY <1>4 DEF CloneBuild, TypeOK, Watches
    <2>4. job' \in [Deployers -> Job] /\ JobsOK'
      BY <2>2 DEF Moved
    <2>5. UNCHANGED <<head, igniter, proxy, marks, launching, pid, stray, done, begun>>
      BY <1>4 DEF CloneBuild, served
    <2> QED
      BY <2>1, <2>3, <2>4, <2>5 DEF TypeOK, Job, Dir
  <1>5. CASE NoRepository(d)
    <2>1. Moved
      BY <1>0, <1>1, <1>5 DEF NoRepository
    <2> QED
      BY <1>5, <2>1 DEF Moved, NoRepository, TypeOK, Job, served, svdss, Kinds, Happens
  <1>6. CASE WriteIgniter(d)
    <2>1. IgniterOf[CodeIn(Build)] \in Releases
      BY <1>1, CodeInType, DeployerAssumption DEF Codes
    <2>2. Moved
      <3> DEFINE j == [job[d] EXCEPT !.pc = "clone", !.release = IgniterOf[CodeIn(Build)]]
      <3>1. j \in Job /\ JobOK(j)
        BY <1>1, <1>6, <2>1 DEF Job, JobOK, WriteIgniter, At, Steps
      <3>2. job' = [job EXCEPT ![d] = j]
        BY <1>1, <1>6 DEF WriteIgniter
      <3> HIDE DEF j
      <3> QED
        BY <1>0, <3>1, <3>2
    <2> QED
      BY <1>6, <2>1, <2>2 DEF Moved, WriteIgniter, TypeOK, Job, svdss, Kinds, Happens
  <1>7. CASE CloneRelease(d)
    <2>1. job[d].release \in Releases
      BY <1>1, <1>7 DEF CloneRelease, At, JobOK
    <2>2. dirs' \in Seq(Dir) /\ spent' \in 0..MaxEvents /\ happened' \subseteq Kinds
      BY <1>7, <2>1, CloneType DEF CloneRelease
    <2>3. Moved
      BY <1>1, <1>7, <1>m, <2>1 DEF CloneRelease, At, JobOK, Job, Steps
    <2> QED
      BY <1>7, <2>2, <2>3 DEF Moved, CloneRelease, TypeOK, Job, served, svdss, Dir
  <1>8. CASE Equip(d)
    <2>1. dirs' \in Seq(Dir)
      <3>1. CASE UNCHANGED dirs
        BY <1>1, <3>1
      <3>2. ASSUME NEW i \in DOMAIN dirs, dirs' = <<dirs[i]>> \o RemoveAt(dirs, i)
            PROVE  dirs' \in Seq(Dir)
        <4>1. dirs[i] \in Dir
          BY <1>1, LenProperties, ElementOfSeq
        <4> QED
          BY <1>1, <3>2, <4>1, RemoveAtType, PushedFront
      <3> QED
        BY <1>8, <3>1, <3>2 DEF Equip
    <2>2. Moved
      BY <1>1, <1>8, <1>m DEF Equip, At, JobOK, Job, Steps
    <2> QED
      BY <1>8, <2>1, <2>2 DEF Moved, Equip, TypeOK, Job, served, svdss, history, Dir
  <1>9. CASE KillSame(d)
    <2>1. Moved
      BY <1>1, <1>9, <1>m DEF KillSame, At, JobOK, Job, Steps
    <2> QED
      BY <1>9, <2>1 DEF Moved, KillSame, TypeOK, Job, served, history
  <1>10. CASE RemoveSame(d)
    <2>1. Moved
      BY <1>1, <1>10, <1>m DEF RemoveSame, At, JobOK, Job, Steps
    <2>2. job[d].release \in Releases
      BY <1>1, <1>10 DEF RemoveSame, At, JobOK
    <2> QED
      BY <1>10, <2>1, <2>2 DEF Moved, RemoveSame, TypeOK, Job, served, Kinds, Happens
  <1>11. CASE Await(d)
    <2>1. Moved
      <3>1. CASE GoTo(d, "retire")
        BY <1>1, <1>11, <1>m, <3>1 DEF Await, At, JobOK, Job, Steps
      <3>2. CASE job' = [job EXCEPT ![d].asked = @ + 1,
                                    ![d].pc = IF job[d].asked + 1 = Requests THEN "retire" ELSE @]
        <4> DEFINE j == [job[d] EXCEPT !.asked = @ + 1,
                           !.pc = IF job[d].asked + 1 = Requests THEN "retire" ELSE @]
        <4>1. job[d].asked \in 0..3 /\ job[d].asked <= 2 /\ job[d].release \in Releases
          BY <1>1, <1>11 DEF Await, At, JobOK, Job
        <4>2. j \in Job
          <5>1. job[d].asked + 1 \in 0..3
            BY <4>1
          <5>2. (IF job[d].asked + 1 = Requests THEN "retire" ELSE job[d].pc) \in Steps
            BY <1>1 DEF Job, Steps
          <5> QED
            BY <1>1, <5>1, <5>2 DEF Job
        <4>3. JobOK(j)
          BY <1>1, <1>11, <4>1 DEF Job, JobOK, Await, At, Requests
        <4>4. job' = [job EXCEPT ![d] = j]
          BY <1>1, <3>2 DEF Job
        <4> HIDE DEF j
        <4> QED
          BY <1>0, <4>2, <4>3, <4>4
      <3> QED
        BY <1>11, <3>1, <3>2 DEF Await
    <2> QED
      BY <1>11, <2>1 DEF Moved, Await, TypeOK, Job, served, svdss, history
  <1>12. CASE RetireOther(d)
    <2>1. Moved
      BY <1>1, <1>12, <1>m DEF RetireOther, At, JobOK, Job, Steps
    <2> QED
      BY <1>12, <2>1 DEF Moved, RetireOther, TypeOK, Job, served, history
  <1>13. CASE Publish(d)
    <2>1. Moved
      BY <1>1, <1>13, <1>m DEF Publish, At, JobOK, Job, Steps
    <2>2. job[d].release \in Releases
      BY <1>1, <1>13 DEF Publish, At, JobOK
    <2> QED
      BY <1>13, <2>1, <2>2 DEF Moved, Publish, TypeOK, Job, svdss, history
  <1>14. CASE Unmark(d)
    <2>1. Moved
      BY <1>1, <1>14, <1>m DEF Unmark, At, JobOK, Job, Steps
    <2> QED
      BY <1>14, <2>1 DEF Moved, Unmark, TypeOK, Job, served, svdss, history
  <1>15. CASE Clean(d)
    <2>1. Moved
      BY <1>0, <1>1, <1>15 DEF Clean
    <2>2. dirs' \in Seq(Dir)
      BY <1>1, <1>15, WithoutType DEF Clean
    <2> QED
      BY <1>15, <2>1, <2>2 DEF Moved, Clean, TypeOK, Job, served, svdss, Dir
  <1>16. CASE Interrupted(d)
    <2>1. Moved
      BY <1>0, <1>1, <1>16 DEF Interrupted
    <2>2. spent' \in 0..MaxEvents
      BY <1>16, EventType DEF Interrupted
    <2> QED
      BY <1>16, <2>1, <2>2 DEF Moved, Interrupted, TypeOK, Job, served, svdss, Kinds, Happens
  <1> QED
    BY <1>2, <1>3, <1>4, <1>5, <1>6, <1>7, <1>8, <1>9, <1>10, <1>11, <1>12, <1>13,
       <1>14, <1>15, <1>16 DEF Step

LEMMA TypeWorld ==
    ASSUME TypeOK, JobsOK,
           \/ ServiceStep \/ Push \/ UserRestarts \/ SvdssRestarts
           \/ \E r \in Releases : ProcessDies(r)
    PROVE  TypeOK' /\ JobsOK'
  <1>1. dirs \in Seq(Dir)
    BY TypeParts
  <1>2. CASE CollectServices
    BY <1>2 DEF CollectServices, TypeOK, JobsOK, served, history, Watches
  <1>3. CASE RestartRequested
    BY <1>3 DEF RestartRequested, Restart, TypeOK, JobsOK, served, history
  <1>4. CASE StartRequested
    BY <1>4 DEF StartRequested, TypeOK, JobsOK, served, history
  <1>5. CASE BabySitterSlot
    BY <1>5 DEF BabySitterSlot, Restart, TypeOK, JobsOK, served, history
  <1>6. CASE StartSlot
    BY <1>6 DEF StartSlot, TypeOK, JobsOK, served, history
  <1>7. CASE Launch
    <2>1. spent' \in 0..MaxEvents
      BY <1>7, EventType DEF Launch, TypeOK
    <2>2. pid' \in [Releases -> {"none", "dead", "live"}] /\ stray' \subseteq Releases
      BY <1>7 DEF Launch, StartHook, TypeOK
    <2> QED
      BY <1>7, <2>1, <2>2 DEF Launch, TypeOK, JobsOK, served
  <1>8. CASE Push
    BY <1>8, DeployerAssumption DEF Push, TypeOK, JobsOK, Codes, served, svdss, history
  <1>9. CASE UserRestarts
    BY <1>9, EventType DEF UserRestarts, TypeOK, JobsOK, served, svdss
  <1>10. CASE SvdssRestarts
    <2>1. spent' \in 0..MaxEvents
      BY <1>10, EventType DEF SvdssRestarts
    <2>2. pid' \in [Releases -> {"none", "dead", "live"}] /\ stray' \subseteq Releases
      BY <1>10 DEF SvdssRestarts, StartHook, TypeOK
    <2> QED
      BY <1>10, <2>1, <2>2 DEF SvdssRestarts, TypeOK, JobsOK, served, Kinds, Happens, Watches
  <1>11. ASSUME NEW r \in Releases, ProcessDies(r) PROVE TypeOK' /\ JobsOK'
    BY <1>11, EventType DEF ProcessDies, TypeOK, JobsOK, served
  <1> QED
    BY <1>2, <1>3, <1>4, <1>5, <1>6, <1>7, <1>8, <1>9, <1>10, <1>11 DEF ServiceStep

(* Every variable keeps to its range; in particular a deployment that is   *)
(* past its igniter has a release, and it asks for a restart three times   *)
(* at most (deploy.cc:1410-1447).                                          *)
THEOREM DeployerTypeCorrect == Spec => [](TypeOK /\ JobsOK)
  <1>1. ASSUME Init PROVE TypeOK /\ JobsOK
    <2>1. dirs \in Seq([name : Releases, code : Codes])
      BY <1>1, DeployerAssumption DEF Init, Codes
    <2>2. dirs \in Seq(Dir)
      BY <2>1, SeqMonotonic DEF Dir
    <2>3. dirs # <<>> => Head(dirs) \in [name : Releases, code : Codes]
      BY <2>1, HeadTailProperties
    <2>4. NoJob \in Job /\ JobOK(NoJob)
      BY DeployerAssumption DEF NoJob, Job, JobOK, Steps, Codes
    <2>5. head \in Codes /\ igniter \in Releases \cup {None}
      BY <1>1, <2>3, DeployerAssumption DEF Init, Codes
    <2>6. job \in [Deployers -> Job] /\ JobsOK
      BY <1>1, <2>4 DEF Init, JobsOK
    <2>7. /\ marks \subseteq {"deploying", "autostart", "running", "start", "restart"}
          /\ pid \in [Releases -> {"none", "dead", "live"}]
          /\ stray \subseteq Releases /\ launching \in Releases \cup {None, "asked"}
      BY <1>1 DEF Init
    <2>8. /\ watch \in Watches /\ done \in BOOLEAN /\ proxy \in Releases \cup {None}
          /\ begun \in 0..MaxDeploys /\ spent \in 0..MaxEvents /\ happened \subseteq Kinds
      BY <1>1, <2>5, DeployerAssumption DEF Init, Watches
    <2> QED
      BY <2>2, <2>5, <2>6, <2>7, <2>8 DEF TypeOK, Dir, Job
  <1>2. TypeOK /\ JobsOK /\ [Next]_vars => TypeOK' /\ JobsOK'
    <2> SUFFICES ASSUME TypeOK, JobsOK, [Next]_vars PROVE TypeOK' /\ JobsOK'
      OBVIOUS
    <2>1. CASE UNCHANGED vars
      BY <2>1 DEF vars, served, svdss, history, TypeOK, JobsOK
    <2>2. CASE Next
      BY <2>2, TypeStep, TypeWorld DEF Next
    <2> QED
      BY <2>1, <2>2
  <1> QED
    BY <1>1, <1>2, PTL DEF Spec

-----------------------------------------------------------------------------
(* Old releases end. *)

AtMostOne == \A d, e \in Deployers : job[d].pc # "idle" /\ job[e].pc # "idle" => d = e

(* Between the new igniter and the end of the old processes. *)
Replacing == {"clone", "equip", "kill", "remove", "await", "retire"}

Ours == Never({"overlap", "late", "lost", "interrupt"})

(* Every live process has a pid file; the one of the release in force is   *)
(* not there while svdss is about to start it; others only live while a    *)
(* deployment replaces the igniter.                                        *)
RetireInv ==
    /\ AtMostOne
    /\ stray = {}
    /\ launching \in Releases => launching = igniter
    /\ igniter \in Releases /\ ("running" \notin marks \/ launching # None)
          => pid[igniter] # "live"
    /\ watch # "watched" => launching = None /\ \A r \in Releases : pid[r] # "live"
    /\ igniter = None => watch # "watched"
    /\ \A d \in Deployers :
         job[d].pc \in Replacing \cup {"publish", "unmark", "clean"}
           => igniter = job[d].release
    /\ (\A d \in Deployers : job[d].pc \notin Replacing)
          => \A r \in Releases : r # igniter => pid[r] # "live"

LEMMA HappenedOnlyGrows == [Next]_vars => happened \subseteq happened'
  BY DEF Next, Begin, Step, Interrupted, Mark, CloneBuild, NoRepository, WriteIgniter,
         CloneRelease, Equip, KillSame, RemoveSame, Await, RetireOther, Publish, Unmark,
         Clean, ServiceStep, CollectServices, RestartRequested, StartRequested,
         BabySitterSlot, StartSlot, Launch, Push, UserRestarts, SvdssRestarts,
         ProcessDies, CloneRepository, Happens, history, vars

(* One deployment at a time, until two overlap. *)
LEMMA OneJobStep ==
    ASSUME TypeOK, AtMostOne, [Next]_vars, "overlap" \notin happened'
    PROVE  AtMostOne'
  <1>1. ASSUME NEW d \in Deployers, \A e \in Deployers \ {d} : job'[e] = job[e],
               job[d].pc # "idle" \/ Idle
        PROVE  AtMostOne'
    BY <1>1 DEF AtMostOne, Idle
  <1>2. CASE UNCHANGED job
    BY <1>2 DEF AtMostOne
  <1>3. ASSUME NEW d \in Deployers, Begin(d) PROVE AtMostOne'
    <2>1. Idle
      BY <1>3 DEF Begin, Happens
    <2> QED
      BY <1>1, <1>3, <2>1 DEF Begin, GoTo, TypeOK
  <1>4. ASSUME NEW d \in Deployers, Step(d) \/ Interrupted(d) PROVE AtMostOne'
    <2>1. job[d].pc # "idle"
      BY <1>4 DEF Step, Interrupted, At, Mark, CloneBuild, NoRepository, WriteIgniter,
         CloneRelease, Equip, KillSame, RemoveSame, Await, RetireOther, Publish, Unmark, Clean
    <2>2. \A e \in Deployers \ {d} : job'[e] = job[e]
      BY <1>4 DEF Step, Interrupted, GoTo, Mark, CloneBuild, NoRepository, WriteIgniter, TypeOK,
         CloneRelease, Equip, KillSame, RemoveSame, Await, RetireOther, Publish, Unmark, Clean
    <2> QED
      BY <1>1, <2>1, <2>2
  <1>5. CASE \/ ServiceStep \/ Push \/ UserRestarts \/ SvdssRestarts
             \/ \E r \in Releases : ProcessDies(r)
    BY <1>2, <1>5 DEF ServiceStep, CollectServices, RestartRequested, StartRequested,
         BabySitterSlot, StartSlot, Launch, Push, UserRestarts, SvdssRestarts, ProcessDies
  <1> QED
    BY <1>2, <1>3, <1>4, <1>5 DEF Next, vars

LEMMA RetireStep ==
    ASSUME TypeOK, JobsOK, RetireInv, AtMostOne', Ours',
           NEW d \in Deployers, Begin(d) \/ Step(d) \/ Interrupted(d)
    PROVE  RetireInv'
  <1>1. \A e \in Deployers : e # d => (job[d].pc # "idle" => job[e].pc = "idle")
    BY DEF RetireInv, AtMostOne
  <1>2. job \in [Deployers -> Job] /\ job[d] \in Job
    BY TypeParts
  <1>3. CASE Begin(d)
    BY <1>2, <1>3 DEF Begin, GoTo, At, RetireInv, Replacing, svdss, served, Job
  <1>4. CASE Mark(d)
    BY <1>2, <1>4 DEF Mark, GoTo, At, RetireInv, Replacing, svdss, served, Job
  <1>5. CASE CloneBuild(d)
    BY <1>2, <1>5 DEF CloneBuild, At, RetireInv, Replacing, served, Job
  <1>6. CASE WriteIgniter(d)
    <2> DEFINE r == IgniterOf[CodeIn(Build)]
    <2>1. r \in Releases
      BY TypeParts, CodeInType, DeployerAssumption DEF Codes
    <2>2. /\ igniter' = r /\ job'[d].pc = "clone" /\ job'[d].release = r
          /\ \A e \in Deployers \ {d} : job'[e] = job[e] /\ job[e].pc = "idle"
          /\ UNCHANGED <<marks, svdss>>
      BY <1>1, <1>2, <1>6 DEF WriteIgniter, At, Job
    <2>3. launching \in Releases => launching = r
      BY <1>6, <2>1 DEF WriteIgniter, Happens, Ours, Never
    <2>4. \A e \in Deployers : job[e].pc \notin Replacing
      BY <1>1, <1>6 DEF WriteIgniter, At, Replacing
    <2>5. \A x \in Releases : x # igniter => pid[x] # "live"
      BY <2>4 DEF RetireInv
    <2>6. "running" \notin marks \/ launching # None => pid[r] # "live"
      BY <2>1, <2>5 DEF RetireInv
    <2> HIDE DEF r
    <2>7. (igniter = None)' => (watch # "watched")'
      BY <2>1, <2>2, DeployerAssumption
    <2> QED
      BY <2>1, <2>2, <2>3, <2>6, <2>7 DEF RetireInv, Replacing, svdss
  <1>7. CASE CloneRelease(d)
    BY <1>2, <1>7 DEF CloneRelease, GoTo, At, RetireInv, Replacing, svdss, served, Job
  <1>8. CASE Equip(d)
    BY <1>2, <1>8 DEF Equip, GoTo, At, RetireInv, Replacing, svdss, served, Job
  <1>9. CASE KillSame(d)
    BY <1>2, <1>9 DEF KillSame, GoTo, At, RetireInv, Replacing, served, Job, TypeOK
  <1>10. CASE RemoveSame(d)
    <2>1. pid[job[d].release] # "live"
      BY <1>10 DEF RemoveSame, Happens, Ours, Never
    <2> QED
      BY <1>2, <1>10, <2>1 DEF RemoveSame, GoTo, At, RetireInv, Replacing, served, Job, TypeOK
  <1>11. CASE Await(d)
    <2>1. /\ job'[d].pc \in {"await", "retire"} /\ job'[d].release = job[d].release
          /\ job[d].pc = "await"
          /\ \A e \in Deployers \ {d} : job'[e] = job[e]
      BY <1>2, <1>11 DEF Await, GoTo, At, Job
    <2> QED
      BY <1>11, <2>1 DEF Await, RetireInv, Replacing, svdss, served
  <1>12. CASE RetireOther(d)
    BY <1>1, <1>2, <1>12 DEF RetireOther, GoTo, At, RetireInv, Replacing, served, Job, TypeOK
  <1>13. CASE Publish(d)
    BY <1>2, <1>13 DEF Publish, GoTo, At, RetireInv, Replacing, svdss, Job
  <1>14. CASE Unmark(d)
    BY <1>2, <1>14 DEF Unmark, GoTo, At, RetireInv, Replacing, svdss, served, Job
  <1>15. CASE Clean(d)
    BY <1>2, <1>15 DEF Clean, At, NoJob, RetireInv, Replacing, svdss, served, Job
  <1>16. ~NoRepository(d) /\ ~Interrupted(d)
    BY DEF NoRepository, Interrupted, Happens, Ours, Never
  <1> QED
    BY <1>3, <1>4, <1>5, <1>6, <1>7, <1>8, <1>9, <1>10, <1>11, <1>12, <1>13, <1>14,
       <1>15, <1>16 DEF Step

LEMMA RetireWorld ==
    ASSUME TypeOK, RetireInv, Ours',
           \/ ServiceStep \/ Push \/ UserRestarts \/ SvdssRestarts
           \/ \E r \in Releases : ProcessDies(r)
    PROVE  RetireInv'
  <1>0. None \notin Releases /\ "asked" \notin Releases /\ None # "asked"
    BY DeployerAssumption
  <1>1. CASE CollectServices
    BY <1>0, <1>1 DEF CollectServices, RetireInv, AtMostOne, served, TypeOK
  <1>2. CASE RestartRequested
    <2>1. /\ launching' = "asked" /\ watch = "watched" /\ igniter \in Releases
          /\ UNCHANGED <<job, igniter, stray, watch>>
      BY <1>2 DEF RestartRequested, Restart, served, TypeOK
    <2>2. \A r \in Releases : pid'[r] = "live" => pid[r] = "live"
      BY <1>2 DEF RestartRequested, Restart, TypeOK
    <2>3. pid'[igniter] # "live"
      BY <1>2, <2>1 DEF RestartRequested, Restart, TypeOK, RetireInv
    <2> QED
      BY <1>0, <2>1, <2>2, <2>3 DEF RetireInv, AtMostOne
  <1>3. CASE StartRequested
    BY <1>0, <1>3 DEF StartRequested, RetireInv, AtMostOne, served, TypeOK
  <1>4. CASE BabySitterSlot
    <2>1. /\ launching' = "asked" /\ watch = "watched" /\ igniter \in Releases
          /\ UNCHANGED <<job, igniter, stray, watch>>
      BY <1>4 DEF BabySitterSlot, Restart, served, TypeOK
    <2>2. \A r \in Releases : pid'[r] = "live" => pid[r] = "live"
      BY <1>4 DEF BabySitterSlot, Restart, TypeOK
    <2>3. pid'[igniter] # "live"
      BY <1>4, <2>1 DEF BabySitterSlot, Restart, TypeOK, RetireInv
    <2> QED
      BY <1>0, <2>1, <2>2, <2>3 DEF RetireInv, AtMostOne
  <1>5. CASE StartSlot
    BY <1>0, <1>5 DEF StartSlot, RetireInv, AtMostOne, served, TypeOK
  <1>6. CASE Launch
    <2>1. /\ launching = igniter /\ igniter \in Releases /\ launching' = None
          /\ launching # None /\ "running" \in marks'
          /\ UNCHANGED <<job, igniter, watch>>
      BY <1>0, <1>6 DEF Launch, served, RetireInv
    <2>2. pid[igniter] # "live" /\ watch = "watched"
      BY <2>1 DEF RetireInv
    <2>3. stray' = stray /\ \A r \in Releases : r # igniter => pid'[r] = pid[r]
      BY <1>6, <2>1, <2>2 DEF Launch, StartHook, TypeOK
    <2> QED
      BY <1>0, <2>1, <2>2, <2>3 DEF RetireInv, AtMostOne
  <1>7. CASE Push \/ UserRestarts
    BY <1>7 DEF Push, UserRestarts, RetireInv, AtMostOne, svdss, served
  <1>8. CASE SvdssRestarts
    <2>1. UNCHANGED <<pid, stray, marks, job, igniter>>
      BY <1>8 DEF SvdssRestarts, Happens, Ours, Never, served
    <2>2. (launching' # None => "running" \notin marks /\ igniter # None) /\ launching' \in {None, "asked"}
      BY <1>8 DEF SvdssRestarts
    <2>3. watch' # "watched" => launching' = None /\ watch # "watched"
      BY <1>8 DEF SvdssRestarts, RetireInv
    <2>4. igniter = None => watch' # "watched"
      BY <1>8 DEF SvdssRestarts
    <2> QED
      BY <1>0, <2>1, <2>2, <2>3, <2>4 DEF RetireInv, AtMostOne
  <1>9. ASSUME NEW r \in Releases, ProcessDies(r) PROVE RetireInv'
    <2>1. stray' = {} /\ \A x \in Releases : pid'[x] = "live" => pid[x] = "live"
      BY <1>9 DEF ProcessDies, RetireInv, TypeOK
    <2> QED
      BY <1>9, <2>1 DEF ProcessDies, RetireInv, AtMostOne, served
  <1> QED
    BY <1>1, <1>2, <1>3, <1>4, <1>5, <1>6, <1>7, <1>8, <1>9 DEF ServiceStep

(* When the proxy is switched no process of another release is left, for   *)
(* any interleaving of the deployment with svdss, dying processes, failed  *)
(* clones, restarts and users (deploy.cc:1452-1468).                       *)
THEOREM RetiredCorrect == Spec => []OldReleasesRetired
  <1> DEFINE Inv == Ours => RetireInv
  <1>1. ASSUME Init PROVE Inv
    <2>1. \A d \in Deployers : job[d].pc = "idle"
      BY <1>1 DEF Init, NoJob
    <2>2. /\ stray = {} /\ launching = None
          /\ \A r \in Releases : r # igniter => pid[r] # "live"
      BY <1>1 DEF Init
    <2>3. CASE dirs = <<>>
      BY <1>1, <2>1, <2>2, <2>3, DeployerAssumption DEF Init, RetireInv, AtMostOne, Replacing
    <2>4. CASE dirs # <<>>
      <3>1. dirs \in Seq([name : Releases, code : Codes])
        BY <1>1, DeployerAssumption DEF Init, Codes
      <3>2. Head(dirs) \in [name : Releases, code : Codes]
        BY <2>4, <3>1, HeadTailProperties
      <3>3. igniter \in Releases /\ "running" \in marks /\ watch = "watched"
        BY <1>1, <2>4, <3>2 DEF Init
      <3> QED
        BY <2>1, <2>2, <3>3, DeployerAssumption DEF RetireInv, AtMostOne, Replacing
    <2> QED
      BY <2>3, <2>4
  <1>2. TypeOK /\ JobsOK /\ Inv /\ [Next]_vars => Inv'
    <2> SUFFICES ASSUME TypeOK, JobsOK, Inv, [Next]_vars, Ours' PROVE RetireInv'
      OBVIOUS
    <2>1. Ours /\ RetireInv
      BY HappenedOnlyGrows DEF Ours, Never
    <2>2. AtMostOne'
      BY <2>1, OneJobStep DEF RetireInv, Ours, Never
    <2>3. CASE UNCHANGED vars
      BY <2>1, <2>3 DEF vars, svdss, served, RetireInv, AtMostOne
    <2>4. CASE Next
      BY <2>1, <2>2, <2>4, RetireStep, RetireWorld DEF Next
    <2> QED
      BY <2>3, <2>4
  <1>3. TypeOK /\ Inv => OldReleasesRetired
    <2> SUFFICES ASSUME TypeOK, Inv, Ours, NEW d \in Deployers,
                        job[d].pc \in {"publish", "unmark", "clean"}
                 PROVE  Live \subseteq {job[d].release}
      BY DEF OldReleasesRetired, Ours
    <2>1. RetireInv /\ igniter = job[d].release
      BY DEF RetireInv
    <2>2. \A e \in Deployers : job[e].pc \notin Replacing
      BY <2>1 DEF RetireInv, AtMostOne, Replacing
    <2> QED
      BY <2>1, <2>2 DEF RetireInv, Live
  <1> HIDE DEF Inv
  <1> QED
    BY <1>1, <1>2, <1>3, DeployerTypeCorrect, PTL DEF Spec

-----------------------------------------------------------------------------
(* The directories in use. *)

Distinct == \A i, j \in DOMAIN dirs : dirs[i].name = dirs[j].name => i = j

Within(name, k) == \E i \in DOMAIN dirs : i <= k /\ dirs[i].name = name

Undisturbed == Never({"interrupt", "overlap", "noclone"})

(* The directory served stays so near to the front that two prunings do    *)
(* not reach it; the release at hand is in front of what the next ones     *)
(* remove; a fresh one holds code no older than that of build-in-progress. *)
DirsInv ==
    /\ AtMostOne
    /\ Distinct
    /\ (\A d \in Deployers : job[d].pc \in {"idle", "mark", "build"}) =>
         /\ Build \notin Names(dirs)
         /\ proxy # None => Within(proxy, 2)
         /\ igniter = proxy
    /\ \A d \in Deployers :
         LET j == job[d]
         IN  /\ j.pc \in {"write", "clone"} =>
                  /\ dirs # <<>> /\ dirs[1].name = Build
                  /\ proxy # None => Within(proxy, 3)
                  /\ j.code <= head
             /\ j.pc = "write" =>
                  /\ igniter = proxy /\ dirs[1].code = j.code
                  /\ j.fresh => IgniterOf[j.code] \notin Names(dirs)
             /\ j.pc \notin {"idle", "mark", "build", "write"} =>
                  /\ igniter = j.release
                  /\ igniter = IgniterOf[j.code]
             /\ j.pc = "clone" /\ j.fresh => j.release \notin Names(dirs)
             /\ j.pc \notin {"idle", "mark", "build", "write", "clone"} =>
                  /\ proxy # None => proxy \in Names(dirs)
                  /\ \E i \in DOMAIN dirs :
                       /\ dirs[i].name = j.release
                       /\ i = 1 \/ (i <= 3 /\ dirs[1].name = Build)
                       /\ j.fresh => dirs[i].code >= j.code
             /\ j.pc \in {"unmark", "clean"} => proxy = j.release

LEMMA DirsSame ==
    ASSUME DirsInv, AtMostOne', UNCHANGED <<dirs, igniter, proxy, job>>, head <= head', TypeOK, TypeOK'
    PROVE  DirsInv'
  <1>1. \A d \in Deployers : job[d].code <= head => job[d].code <= head'
    BY DeployerAssumption DEF TypeOK, Codes
  <1> QED
    BY <1>1 DEF DirsInv, Distinct, Within, Names

LEMMA DirsWorld ==
    ASSUME TypeOK, TypeOK', DirsInv, AtMostOne',
           \/ ServiceStep \/ Push \/ UserRestarts \/ SvdssRestarts
           \/ \E r \in Releases : ProcessDies(r)
    PROVE  DirsInv'
  <1>1. UNCHANGED <<dirs, igniter, proxy, job>>
    BY DEF ServiceStep, CollectServices, RestartRequested, StartRequested, served,
         BabySitterSlot, StartSlot, Launch, Push, UserRestarts, SvdssRestarts, ProcessDies
  <1>2. head' = head \/ head' = head + 1
    BY DEF ServiceStep, CollectServices, RestartRequested, StartRequested, served,
         BabySitterSlot, StartSlot, Launch, Push, UserRestarts, SvdssRestarts, ProcessDies
  <1>3. head <= head'
    BY <1>2, DeployerAssumption DEF TypeOK, Codes
  <1> QED
    BY <1>1, <1>3, DirsSame

(* A clone that succeeds, in terms of positions. *)
LEMMA Cloned ==
    ASSUME TypeOK, Distinct, NEW n \in Releases \cup {Build}, CloneRepository(n),
           "noclone" \notin happened'
    PROVE  /\ Distinct'
           /\ happened' = happened
           /\ \/ /\ \E i \in DOMAIN dirs : i <= 3 /\ dirs[i].name = n
                 /\ \A i \in DOMAIN dirs : i <= 3 => i \in DOMAIN dirs' /\ dirs'[i] = dirs[i]
                 /\ \A i \in DOMAIN dirs' : i \in DOMAIN dirs /\ dirs'[i] = dirs[i] /\ i <= 3
              \/ /\ 1 \in DOMAIN dirs' /\ dirs'[1] = [name |-> n, code |-> head]
                 /\ \A i \in DOMAIN dirs : i <= 3 => i + 1 \in DOMAIN dirs' /\ dirs'[i + 1] = dirs[i]
                 /\ \A i \in DOMAIN dirs' : i # 1 =>
                       i - 1 \in DOMAIN dirs /\ dirs'[i] = dirs[i - 1] /\ i <= 4
  <1>1. dirs \in Seq(Dir) /\ [name |-> n, code |-> head] \in Dir
    BY DEF TypeOK, Dir
  <1>2. /\ Pruned \in Seq(Dir) /\ Len(Pruned) <= 3 /\ Len(Pruned) <= Len(dirs)
        /\ \A j \in 1..Len(dirs) : j <= 3 => j <= Len(Pruned)
        /\ \A j \in 1..Len(Pruned) : Pruned[j] = dirs[j]
    BY <1>1, PrunedType
  <1>3. /\ happened' = happened
        /\ dirs' = IF n \in Names(Pruned) THEN Pruned
                   ELSE <<[name |-> n, code |-> head]>> \o Pruned
    BY DEF CloneRepository, Happens
  <1>4. /\ DOMAIN dirs = 1..Len(dirs) /\ Len(dirs) \in Nat
        /\ DOMAIN Pruned = 1..Len(Pruned) /\ Len(Pruned) \in Nat
    BY <1>1, <1>2, LenProperties
  <1>5. CASE n \in Names(Pruned)
    <2>1. dirs' = Pruned
      BY <1>3, <1>5
    <2>2. PICK k \in DOMAIN Pruned : Pruned[k].name = n
      BY <1>5 DEF Names
    <2>3. k \in DOMAIN dirs /\ k <= 3 /\ dirs[k].name = n
      BY <1>2, <1>4, <2>2
    <2>4. \A i \in DOMAIN dirs : i <= 3 => i \in DOMAIN Pruned /\ Pruned[i] = dirs[i]
      BY <1>2, <1>4
    <2>5. \A i \in DOMAIN Pruned : i \in DOMAIN dirs /\ Pruned[i] = dirs[i] /\ i <= 3
      BY <1>2, <1>4
    <2>6. Distinct'
      BY <2>1, <2>5 DEF Distinct
    <2> QED
      BY <1>3, <2>1, <2>3, <2>4, <2>5, <2>6
  <1>6. CASE n \notin Names(Pruned)
    <2> DEFINE e == [name |-> n, code |-> head]
    <2>1. dirs' = <<e>> \o Pruned
      BY <1>3, <1>6
    <2> HIDE DEF e
    <2>2. /\ dirs' \in Seq(Dir) /\ Len(dirs') = Len(Pruned) + 1 /\ dirs'[1] = e
          /\ \A j \in 1..Len(Pruned) : dirs'[j + 1] = Pruned[j]
      BY <1>1, <1>2, <2>1, PushedFront DEF e
    <2>3. DOMAIN dirs' = 1..Len(Pruned) + 1
      BY <2>2, LenProperties
    <2>4. \A i \in DOMAIN dirs : i <= 3 => i + 1 \in DOMAIN dirs' /\ dirs'[i + 1] = dirs[i]
      BY <1>2, <1>4, <2>2, <2>3
    <2>5. ASSUME NEW i \in DOMAIN dirs', i # 1
          PROVE  i - 1 \in DOMAIN Pruned /\ dirs'[i] = Pruned[i - 1] /\ i <= 4
      <3>1. i - 1 \in 1..Len(Pruned) /\ i <= 4
        BY <1>2, <1>4, <2>3, <2>5
      <3>2. dirs'[(i - 1) + 1] = Pruned[i - 1] /\ (i - 1) + 1 = i
        BY <2>2, <2>3, <3>1
      <3> QED
        BY <1>4, <3>1, <3>2
    <2>6. \A i \in DOMAIN Pruned : i \in DOMAIN dirs /\ Pruned[i] = dirs[i] /\ Pruned[i].name # n
      BY <1>2, <1>4, <1>6 DEF Names
    <2>7. \A i \in DOMAIN dirs' : i # 1 => dirs'[i].name # n
      BY <2>5, <2>6
    <2>8. ASSUME NEW i \in DOMAIN dirs', NEW j \in DOMAIN dirs', dirs'[i].name = dirs'[j].name
          PROVE  i = j
      <3>1. CASE i = 1 \/ j = 1
        BY <2>2, <2>7, <2>8, <3>1 DEF e
      <3>2. CASE i # 1 /\ j # 1
        <4>1. i - 1 \in DOMAIN dirs /\ j - 1 \in DOMAIN dirs /\ dirs[i - 1].name = dirs[j - 1].name
          BY <2>5, <2>6, <2>8, <3>2
        <4>2. i - 1 = j - 1
          BY <4>1 DEF Distinct
        <4> QED
          BY <2>3, <4>2
      <3> QED
        BY <3>1, <3>2
    <2>9. Distinct'
      BY <2>8 DEF Distinct
    <2>10. 1 \in DOMAIN dirs'
      BY <1>4, <2>3
    <2>11. \A i \in DOMAIN dirs' : i # 1 =>
                       i - 1 \in DOMAIN dirs /\ dirs'[i] = dirs[i - 1] /\ i <= 4
      BY <2>5, <2>6
    <2> QED
      BY <1>3, <2>2, <2>4, <2>9, <2>10, <2>11 DEF e
  <1> QED
    BY <1>5, <1>6

(* The parts of DirsInv: between deployments, and for the one under way.   *)
Settled ==
    /\ Build \notin Names(dirs)
    /\ proxy # None => Within(proxy, 2)
    /\ igniter = proxy

Written(j) ==
    /\ dirs # <<>> /\ dirs[1].name = Build
    /\ proxy # None => Within(proxy, 3)
    /\ j.code <= head

Cloning(j) ==
    /\ proxy # None => proxy \in Names(dirs)
    /\ \E i \in DOMAIN dirs :
         /\ dirs[i].name = j.release
         /\ i = 1 \/ (i <= 3 /\ dirs[1].name = Build)
         /\ j.fresh => dirs[i].code >= j.code

Underway(j) ==
    /\ j.pc \in {"write", "clone"} => Written(j)
    /\ j.pc = "write" =>
         /\ igniter = proxy /\ dirs[1].code = j.code
         /\ j.fresh => IgniterOf[j.code] \notin Names(dirs)
    /\ j.pc \notin {"idle", "mark", "build", "write"} =>
         igniter = j.release /\ igniter = IgniterOf[j.code]
    /\ j.pc = "clone" /\ j.fresh => j.release \notin Names(dirs)
    /\ j.pc \notin {"idle", "mark", "build", "write", "clone"} => Cloning(j)
    /\ j.pc \in {"unmark", "clean"} => proxy = j.release

LEMMA DirsParts ==
    DirsInv <=> /\ AtMostOne /\ Distinct
                /\ (\A d \in Deployers : job[d].pc \in {"idle", "mark", "build"}) => Settled
                /\ \A d \in Deployers : Underway(job[d])
  BY DEF DirsInv, Settled, Underway, Written, Cloning

(* What is left when one directory is taken out, and when it is put in     *)
(* front then.                                                             *)
LEMMA Taken ==
    ASSUME TypeOK, Distinct, NEW i \in DOMAIN dirs
    PROVE  LET rest == RemoveAt(dirs, i)  front == <<dirs[i]>> \o rest
           IN  /\ \A k \in DOMAIN dirs : k < i => k \in DOMAIN rest /\ rest[k] = dirs[k]
               /\ \A k \in DOMAIN dirs : k > i => k - 1 \in DOMAIN rest /\ rest[k - 1] = dirs[k]
               /\ \A k \in DOMAIN rest : \E l \in DOMAIN dirs \ {i} :
                     rest[k] = dirs[l] /\ l = IF k < i THEN k ELSE k + 1
               /\ 1 \in DOMAIN front /\ front[1] = dirs[i]
               /\ \A k \in DOMAIN rest : k + 1 \in DOMAIN front /\ front[k + 1] = rest[k]
               /\ \A k \in DOMAIN front : k # 1 => k - 1 \in DOMAIN rest /\ front[k] = rest[k - 1]
  <1> DEFINE rest == RemoveAt(dirs, i)  front == <<dirs[i]>> \o rest
  <1>1. dirs \in Seq(Dir) /\ Len(dirs) \in Nat /\ DOMAIN dirs = 1..Len(dirs) /\ dirs[i] \in Dir
    BY TypeParts, LenProperties, ElementOfSeq
  <1>2. /\ rest \in Seq(Dir) /\ Len(rest) = Len(dirs) - 1
        /\ \A j \in 1..Len(dirs) - 1 : rest[j] = IF j < i THEN dirs[j] ELSE dirs[j + 1]
    BY <1>1, RemoveAtType
  <1> HIDE DEF rest
  <1>3. DOMAIN rest = 1..Len(dirs) - 1 /\ Len(rest) \in Nat
    BY <1>2, LenProperties
  <1> HIDE DEF front
  <1>4. /\ front \in Seq(Dir) /\ Len(front) = Len(rest) + 1 /\ front[1] = dirs[i]
        /\ \A j \in 1..Len(rest) : front[j + 1] = rest[j]
    <2>1. rest \in Seq(Dir) /\ dirs[i] \in Dir
      BY <1>1, <1>2
    <2> QED
      BY <2>1, PushedFront DEF front
  <1>5. DOMAIN front = 1..Len(dirs)
    <2>1. DOMAIN front = 1..Len(front)
      BY <1>4, LenProperties
    <2> QED
      BY <1>1, <1>2, <1>4, <2>1
  <1>6. \A k \in DOMAIN dirs : k < i => k \in DOMAIN rest /\ rest[k] = dirs[k]
    BY <1>1, <1>2, <1>3
  <1>7. ASSUME NEW k \in DOMAIN dirs, k > i
        PROVE  k - 1 \in DOMAIN rest /\ rest[k - 1] = dirs[k]
    <2>1. k - 1 \in 1..Len(dirs) - 1 /\ ~(k - 1 < i) /\ (k - 1) + 1 = k
      BY <1>1, <1>7
    <2> QED
      BY <1>2, <1>3, <2>1
  <1>8. ASSUME NEW k \in DOMAIN rest
        PROVE  \E l \in DOMAIN dirs \ {i} : rest[k] = dirs[l] /\ l = IF k < i THEN k ELSE k + 1
    <2>1. CASE k < i
      BY <1>1, <1>2, <1>3, <2>1
    <2>2. CASE ~(k < i)
      <3>1. k + 1 \in DOMAIN dirs \ {i}
        BY <1>1, <1>3, <2>2
      <3> QED
        BY <1>2, <1>3, <2>2, <3>1
    <2> QED
      BY <2>1, <2>2
  <1>9. \A k \in DOMAIN rest : k + 1 \in DOMAIN front /\ front[k + 1] = rest[k]
    BY <1>1, <1>2, <1>3, <1>4, <1>5
  <1>10. ASSUME NEW k \in DOMAIN front, k # 1
         PROVE  k - 1 \in DOMAIN rest /\ front[k] = rest[k - 1]
    <2>1. k - 1 \in 1..Len(rest) /\ (k - 1) + 1 = k
      BY <1>1, <1>2, <1>3, <1>5, <1>10
    <2> QED
      BY <1>2, <1>3, <1>4, <2>1
  <1>11. 1 \in DOMAIN front
    BY <1>1, <1>5
  <1> QED
    BY <1>4, <1>6, <1>7, <1>8, <1>9, <1>10, <1>11 DEF rest, front

LEMMA DistinctTaken ==
    ASSUME TypeOK, Distinct, NEW i \in DOMAIN dirs,
           dirs' \in {RemoveAt(dirs, i), <<dirs[i]>> \o RemoveAt(dirs, i)}
    PROVE  Distinct'
  <1> DEFINE rest == RemoveAt(dirs, i)
  <1>1. /\ \A k \in DOMAIN rest : \E l \in DOMAIN dirs \ {i} :
             rest[k] = dirs[l] /\ l = IF k < i THEN k ELSE k + 1
        /\ (<<dirs[i]>> \o rest)[1] = dirs[i]
        /\ \A k \in DOMAIN (<<dirs[i]>> \o rest) :
             k # 1 => k - 1 \in DOMAIN rest /\ (<<dirs[i]>> \o rest)[k] = rest[k - 1]
    BY Taken
  <1>2. /\ dirs \in Seq(Dir) /\ DOMAIN dirs = 1..Len(dirs) /\ Len(dirs) \in Nat
    BY TypeParts, LenProperties
  <1>3. /\ rest \in Seq(Dir) /\ DOMAIN rest \subseteq Int
        /\ DOMAIN (<<dirs[i]>> \o rest) \subseteq Int
    <2>1. dirs[i] \in Dir
      BY <1>2, ElementOfSeq
    <2>2. rest \in Seq(Dir)
      BY <1>2, RemoveAtType
    <2>3. <<dirs[i]>> \o rest \in Seq(Dir)
      BY <2>1, <2>2, PushedFront
    <2> QED
      BY <2>2, <2>3, LenProperties
  <1> HIDE DEF rest
  <1>4. ASSUME NEW k \in DOMAIN rest, NEW l \in DOMAIN rest, rest[k].name = rest[l].name
        PROVE  k = l
    <2>1. PICK kk \in DOMAIN dirs \ {i} : rest[k] = dirs[kk] /\ kk = IF k < i THEN k ELSE k + 1
      BY <1>1
    <2>2. PICK ll \in DOMAIN dirs \ {i} : rest[l] = dirs[ll] /\ ll = IF l < i THEN l ELSE l + 1
      BY <1>1
    <2>3. kk = ll
      BY <1>4, <2>1, <2>2 DEF Distinct
    <2>4. k \in Int /\ l \in Int /\ i \in Int
      BY <1>2, <1>3
    <2> QED
      BY <2>1, <2>2, <2>3, <2>4
  <1>5. \A k \in DOMAIN rest : rest[k].name # dirs[i].name
    BY <1>1 DEF Distinct
  <1>6. CASE dirs' = rest
    BY <1>4, <1>6 DEF Distinct
  <1>7. CASE dirs' = <<dirs[i]>> \o rest
    <2> DEFINE front == <<dirs[i]>> \o rest
    <2> HIDE DEF front
    <2>1. ASSUME NEW k \in DOMAIN front, NEW l \in DOMAIN front, front[k].name = front[l].name
          PROVE  k = l
      <3>1. CASE k = 1 /\ l # 1
        BY <1>1, <1>5, <2>1, <3>1 DEF front
      <3>2. CASE k # 1 /\ l = 1
        BY <1>1, <1>5, <2>1, <3>2 DEF front
      <3>3. CASE k # 1 /\ l # 1
        <4>1. k - 1 = l - 1
          BY <1>1, <1>4, <2>1, <3>3 DEF front
        <4>2. k \in Int /\ l \in Int
          BY <1>3 DEF front
        <4> QED
          BY <4>1, <4>2
      <3> QED
        BY <3>1, <3>2, <3>3
    <2> QED
      BY <1>7, <2>1 DEF Distinct, front
  <1> QED
    BY <1>6, <1>7 DEF rest

LEMMA DirsStep ==
    ASSUME TypeOK, JobsOK, TypeOK', DirsInv, AtMostOne', Undisturbed',
           NEW d \in Deployers, Begin(d) \/ Step(d) \/ Interrupted(d)
    PROVE  DirsInv'
  <1>1. /\ job \in [Deployers -> Job] /\ job[d] \in Job /\ JobOK(job[d])
        /\ dirs \in Seq(Dir) /\ DOMAIN dirs = 1..Len(dirs) /\ Len(dirs) \in Nat
    BY TypeParts, LenProperties DEF JobsOK
  <1>2. /\ Distinct /\ Underway(job[d])
        /\ (\A e \in Deployers : job[e].pc \in {"idle", "mark", "build"}) => Settled
    BY DirsParts
  <1>3. \A e \in Deployers \ {d} : job[d].pc # "idle" => job[e].pc = "idle"
    BY DEF DirsInv, AtMostOne
  <1>4. ASSUME \A e \in Deployers \ {d} : job'[e] = job[e] /\ job[e].pc = "idle",
               Distinct', Underway(job[d])',
               job'[d].pc \in {"idle", "mark", "build"} => Settled'
        PROVE  DirsInv'
    <2>1. \A e \in Deployers \ {d} : Underway(job[e])'
      BY <1>4 DEF Underway
    <2>2. \A e \in Deployers : Underway(job[e])'
      BY <1>4, <2>1
    <2>3. ((\A e \in Deployers : job[e].pc \in {"idle", "mark", "build"}) => Settled)'
      BY <1>4
    <2> QED
      BY <1>4, <2>2, <2>3 DEF DirsInv, Settled, Underway, Written, Cloning
  <1>5. ASSUME UNCHANGED dirs PROVE /\ Distinct' <=> Distinct
                                    /\ (dirs # <<>>)' <=> (dirs # <<>>)
                                    /\ dirs'[1] = dirs[1]
                                    /\ \A n : n \in Names(dirs)' <=> n \in Names(dirs)
                                    /\ \A n, k : Within(n, k)' <=> Within(n, k)
    BY <1>5 DEF Distinct, Names, Within
  <1>6. CASE Begin(d)
    <2>1. Idle
      BY <1>6 DEF Begin, Happens, Undisturbed, Never
    <2>2. /\ \A e \in Deployers \ {d} : job'[e] = job[e] /\ job[e].pc = "idle"
          /\ job'[d].pc = "mark" /\ UNCHANGED <<dirs, proxy, igniter>>
      BY <1>1, <1>6, <2>1 DEF Begin, GoTo, Idle, served, Job
    <2>3. Settled /\ Settled'
      BY <1>2, <1>5, <2>1, <2>2 DEF Idle, Settled
    <2>4. Underway(job[d])'
      BY <2>2 DEF Underway
    <2> QED
      BY <1>2, <1>4, <1>5, <2>2, <2>3, <2>4
  <1>7. CASE Mark(d)
    <2>1. /\ \A e \in Deployers \ {d} : job'[e] = job[e] /\ job[e].pc = "idle"
          /\ job[d].pc = "mark" /\ job'[d].pc = "build" /\ UNCHANGED <<dirs, proxy, igniter>>
      BY <1>1, <1>3, <1>7 DEF Mark, At, GoTo, served, Job
    <2>2. Settled /\ Settled'
      BY <1>2, <1>5, <2>1 DEF Settled
    <2>3. Underway(job[d])'
      BY <2>1 DEF Underway
    <2> QED
      BY <1>2, <1>4, <1>5, <2>1, <2>2, <2>3
  <1>8. CASE CloneBuild(d)
    <2>1. /\ \A e \in Deployers \ {d} : job'[e] = job[e] /\ job[e].pc = "idle"
          /\ job[d].pc = "build" /\ job'[d].pc = "write" /\ job'[d].code = head
          /\ job'[d].fresh = (IgniterOf[head] \notin Names(dirs))
          /\ UNCHANGED <<proxy, igniter, head>>
      BY <1>1, <1>3, <1>8 DEF CloneBuild, At, served, Job
    <2>2. Settled
      BY <1>2, <2>1
    <2>3. /\ Distinct' /\ 1 \in DOMAIN dirs' /\ dirs'[1] = [name |-> Build, code |-> head]
          /\ \A i \in DOMAIN dirs : i <= 3 => i + 1 \in DOMAIN dirs' /\ dirs'[i + 1] = dirs[i]
          /\ \A i \in DOMAIN dirs' : i # 1 =>
                       i - 1 \in DOMAIN dirs /\ dirs'[i] = dirs[i - 1] /\ i <= 4
      <3>1. CloneRepository(Build) /\ "noclone" \notin happened'
        BY <1>8 DEF CloneBuild, Undisturbed, Never
      <3>2. ~\E i \in DOMAIN dirs : i <= 3 /\ dirs[i].name = Build
        BY <2>2 DEF Settled, Names
      <3> QED
        BY <1>2, <3>1, <3>2, Cloned
    <2>4. proxy # None => Within(proxy, 3)'
      <3> SUFFICES ASSUME proxy # None PROVE Within(proxy, 3)'
        OBVIOUS
      <3>1. PICK i \in DOMAIN dirs : i <= 2 /\ dirs[i].name = proxy
        BY <2>2 DEF Settled, Within
      <3>2. i + 1 \in DOMAIN dirs' /\ i + 1 <= 3 /\ dirs'[i + 1].name = proxy
        BY <1>1, <2>3, <3>1
      <3> QED
        BY <2>1, <3>2 DEF Within
    <2>5. dirs' # <<>> /\ head <= head
      BY <2>3, DeployerAssumption DEF TypeOK, Codes
    <2>6. job'[d].fresh => IgniterOf[head] \notin Names(dirs')
      <3>1. IgniterOf[head] \in Releases /\ IgniterOf[head] # Build
        BY DeployerAssumption DEF TypeOK, Codes
      <3>2. \A i \in DOMAIN dirs' : i # 1 => dirs'[i].name \in Names(dirs)
        BY <2>3 DEF Names
      <3>3. dirs'[1].name = Build
        BY <2>3
      <3> QED
        BY <2>1, <3>1, <3>2, <3>3 DEF Names
    <2>7. Underway(job[d])'
      BY <2>1, <2>2, <2>3, <2>4, <2>5, <2>6 DEF Underway, Written, Settled
    <2> QED
      BY <1>4, <2>1, <2>3, <2>7
  <1>9. CASE WriteIgniter(d)
    <2> DEFINE r == IgniterOf[CodeIn(Build)]
    <2>1. /\ \A e \in Deployers \ {d} : job'[e] = job[e] /\ job[e].pc = "idle"
          /\ job[d].pc = "write" /\ job'[d].pc = "clone" /\ job'[d].release = r /\ igniter' = r
          /\ job'[d].code = job[d].code /\ job'[d].fresh = job[d].fresh
          /\ UNCHANGED <<dirs, proxy, head>>
      BY <1>1, <1>3, <1>9 DEF WriteIgniter, At, Job
    <2>2. Written(job[d]) /\ dirs[1].code = job[d].code
          /\ (job[d].fresh => IgniterOf[job[d].code] \notin Names(dirs))
      BY <1>2, <2>1 DEF Underway
    <2>3. CodeIn(Build) = job[d].code
      <3> DEFINE ds == {dirs[i] : i \in DOMAIN dirs}
      <3>1. 1 \in DOMAIN dirs
        BY <1>1, <2>2 DEF Written
      <3>2. \A dir \in ds : dir.name = Build => dir = dirs[1]
        BY <1>2, <2>2, <3>1 DEF Distinct, Written
      <3>3. dirs[1] \in ds /\ dirs[1].name = Build
        BY <2>2, <3>1 DEF Written
      <3>4. (CHOOSE dir \in ds : dir.name = Build) = dirs[1]
        BY <3>2, <3>3
      <3> QED
        BY <2>2, <3>1, <3>4 DEF CodeIn, Names, Written
    <2>4. Written(job[d])'
      BY <1>5, <2>1, <2>2 DEF Written
    <2> HIDE DEF r
    <2>5. r = IgniterOf[job[d].code]
      BY <2>3 DEF r
    <2>6. Underway(job[d])'
      BY <1>5, <2>1, <2>2, <2>4, <2>5 DEF Underway
    <2> QED
      BY <1>2, <1>4, <1>5, <2>1, <2>6
  <1>10. CASE CloneRelease(d)
    <2> DEFINE r == job[d].release
    <2>1. /\ \A e \in Deployers \ {d} : job'[e] = job[e] /\ job[e].pc = "idle"
          /\ job[d].pc = "clone" /\ job'[d].pc = "equip" /\ job'[d].release = r
          /\ job'[d].code = job[d].code /\ job'[d].fresh = job[d].fresh
          /\ r \in Releases
          /\ UNCHANGED <<proxy, igniter, head>>
      BY <1>1, <1>3, <1>10 DEF CloneRelease, At, GoTo, served, Job, JobOK
    <2>2. /\ Written(job[d]) /\ igniter = r /\ igniter = IgniterOf[job[d].code]
          /\ job[d].fresh => r \notin Names(dirs)
      BY <1>2, <2>1 DEF Underway
    <2> HIDE DEF r
    <2>3. /\ Distinct'
          /\ \/ /\ \E i \in DOMAIN dirs : i <= 3 /\ dirs[i].name = r
                /\ \A i \in DOMAIN dirs : i <= 3 => i \in DOMAIN dirs' /\ dirs'[i] = dirs[i]
             \/ /\ 1 \in DOMAIN dirs' /\ dirs'[1] = [name |-> r, code |-> head]
                /\ \A i \in DOMAIN dirs : i <= 3 => i + 1 \in DOMAIN dirs' /\ dirs'[i + 1] = dirs[i]
      <3>1. CloneRepository(r) /\ "noclone" \notin happened'
        BY <1>10 DEF CloneRelease, Undisturbed, Never, r
      <3> QED
        BY <1>2, <2>1, <3>1, Cloned
    <2>4. (proxy # None => proxy \in Names(dirs))'
      <3> SUFFICES ASSUME proxy # None PROVE proxy \in Names(dirs')
        BY <2>1
      <3>1. PICK i \in DOMAIN dirs : i <= 3 /\ dirs[i].name = proxy
        BY <2>2 DEF Written, Within
      <3> QED
        BY <2>3, <3>1 DEF Names
    <2>5. \E i \in DOMAIN dirs' : /\ dirs'[i].name = r
                                  /\ i = 1 \/ (i <= 3 /\ dirs'[1].name = Build)
                                  /\ job[d].fresh => dirs'[i].code >= job[d].code
      <3>1. CASE /\ \E i \in DOMAIN dirs : i <= 3 /\ dirs[i].name = r
                 /\ \A i \in DOMAIN dirs : i <= 3 => i \in DOMAIN dirs' /\ dirs'[i] = dirs[i]
        <4>1. PICK i \in DOMAIN dirs : i <= 3 /\ dirs[i].name = r
          BY <3>1
        <4>2. ~job[d].fresh
          BY <2>2, <4>1 DEF Names
        <4>3. 1 \in DOMAIN dirs /\ dirs[1].name = Build
          BY <1>1, <2>2 DEF Written
        <4> QED
          BY <3>1, <4>1, <4>2, <4>3
      <3>2. CASE 1 \in DOMAIN dirs' /\ dirs'[1] = [name |-> r, code |-> head]
        <4>1. head >= job[d].code
          BY <1>1, <2>2, DeployerAssumption DEF Written, Job, TypeOK, Codes
        <4> QED
          BY <3>2, <4>1
      <3> QED
        BY <2>3, <3>1, <3>2
    <2>6. Cloning(job[d])'
      <3>1. PICK i \in DOMAIN dirs' : /\ dirs'[i].name = r
                                      /\ i = 1 \/ (i <= 3 /\ dirs'[1].name = Build)
                                      /\ job[d].fresh => dirs'[i].code >= job[d].code
        BY <2>5
      <3>2. /\ dirs'[i].name = job'[d].release
            /\ i = 1 \/ (i <= 3 /\ dirs'[1].name = Build)
            /\ job'[d].fresh => dirs'[i].code >= job'[d].code
        BY <2>1, <3>1
      <3> QED
        BY <2>4, <3>2 DEF Cloning
    <2>7. Underway(job[d])'
      BY <2>1, <2>2, <2>6 DEF Underway
    <2> QED
      BY <1>4, <2>1, <2>3, <2>7
  <1>11. CASE Equip(d)
    <2>1. /\ \A e \in Deployers \ {d} : job'[e] = job[e] /\ job[e].pc = "idle"
          /\ job[d].pc = "equip" /\ job'[d].pc = "kill" /\ job'[d].release = job[d].release
          /\ job'[d].code = job[d].code /\ job'[d].fresh = job[d].fresh
          /\ UNCHANGED <<proxy, igniter, head>>
      BY <1>1, <1>3, <1>11 DEF Equip, At, GoTo, served, history, Job
    <2>2. Cloning(job[d]) /\ igniter = job[d].release /\ igniter = IgniterOf[job[d].code]
      BY <1>2, <2>1 DEF Underway
    <2>3. Distinct' /\ Cloning(job[d])'
      <3>1. CASE UNCHANGED dirs
        BY <1>2, <1>5, <2>1, <2>2, <3>1 DEF Cloning
      <3>2. ASSUME NEW i \in DOMAIN dirs, dirs[i].name = job[d].release,
                   dirs' = <<dirs[i]>> \o RemoveAt(dirs, i)
            PROVE  Distinct' /\ Cloning(job[d])'
        <4>1. Distinct'
          BY <1>2, <3>2, DistinctTaken
        <4>2. 1 \in DOMAIN dirs' /\ dirs'[1] = dirs[i]
          BY <1>2, <3>2, Taken
        <4> DEFINE rest == RemoveAt(dirs, i)
        <4>r. /\ \A k \in DOMAIN dirs : k < i => k \in DOMAIN rest /\ rest[k] = dirs[k]
              /\ \A k \in DOMAIN dirs : k > i => k - 1 \in DOMAIN rest /\ rest[k - 1] = dirs[k]
              /\ \A k \in DOMAIN rest : k + 1 \in DOMAIN dirs' /\ dirs'[k + 1] = rest[k]
          BY <1>2, <3>2, Taken
        <4> HIDE DEF rest
        <4>3. ASSUME NEW n \in Names(dirs) PROVE n \in Names(dirs')
          <5>1. PICK k \in DOMAIN dirs : dirs[k].name = n
            BY <4>3 DEF Names
          <5>2. k \in Int /\ i \in Int
            BY <1>1
          <5>3. CASE k = i
            BY <4>2, <5>1, <5>3 DEF Names
          <5>4. CASE k < i
            BY <4>r, <5>1, <5>4 DEF Names
          <5>5. CASE k > i
            BY <4>r, <5>1, <5>5 DEF Names
          <5> QED
            BY <5>2, <5>3, <5>4, <5>5
        <4>4. PICK k \in DOMAIN dirs :
                 /\ dirs[k].name = job[d].release
                 /\ job[d].fresh => dirs[k].code >= job[d].code
          BY <2>2 DEF Cloning
        <4>5. k = i
          BY <1>2, <3>2, <4>4 DEF Distinct
        <4> QED
          BY <2>1, <2>2, <3>2, <4>1, <4>2, <4>3, <4>4, <4>5 DEF Cloning
      <3> QED
        BY <1>11, <3>1, <3>2 DEF Equip
    <2>4. Underway(job[d])'
      BY <2>1, <2>2, <2>3 DEF Underway
    <2> QED
      BY <1>4, <2>1, <2>3, <2>4
  <1>12. CASE KillSame(d) \/ RemoveSame(d) \/ Await(d) \/ RetireOther(d) \/ Unmark(d)
    <2>1. /\ \A e \in Deployers \ {d} : job'[e] = job[e] /\ job[e].pc = "idle"
          /\ job[d].pc \in {"kill", "remove", "await", "retire", "unmark"}
          /\ job'[d].pc \in {"remove", "await", "retire", "publish", "clean"}
          /\ job'[d].pc = "clean" => job[d].pc = "unmark"
          /\ job'[d].release = job[d].release
          /\ job'[d].code = job[d].code /\ job'[d].fresh = job[d].fresh
          /\ UNCHANGED <<dirs, proxy, igniter, head>>
      BY <1>1, <1>3, <1>12
      DEF KillSame, RemoveSame, Await, RetireOther, Unmark, At, GoTo, served, history, Job
    <2>2. /\ Cloning(job[d]) /\ igniter = job[d].release /\ igniter = IgniterOf[job[d].code]
          /\ job[d].pc = "unmark" => proxy = job[d].release
      BY <1>2, <2>1 DEF Underway
    <2>3. Cloning(job[d])'
      BY <1>5, <2>1, <2>2 DEF Cloning
    <2>4. Underway(job[d])'
      BY <2>1, <2>2, <2>3 DEF Underway
    <2> QED
      BY <1>2, <1>4, <1>5, <2>1, <2>4
  <1>13. CASE Publish(d)
    <2>1. /\ \A e \in Deployers \ {d} : job'[e] = job[e] /\ job[e].pc = "idle"
          /\ job[d].pc = "publish" /\ job'[d].pc = "unmark" /\ job'[d].release = job[d].release
          /\ job'[d].code = job[d].code /\ job'[d].fresh = job[d].fresh
          /\ proxy' = job[d].release /\ UNCHANGED <<dirs, igniter, head>>
      BY <1>1, <1>3, <1>13 DEF Publish, At, GoTo, history, Job
    <2>2. Cloning(job[d]) /\ igniter = job[d].release /\ igniter = IgniterOf[job[d].code]
      BY <1>2, <2>1 DEF Underway
    <2>3. Cloning(job[d])'
      BY <1>5, <2>1, <2>2 DEF Cloning, Names
    <2>4. Underway(job[d])'
      BY <2>1, <2>2, <2>3 DEF Underway
    <2> QED
      BY <1>2, <1>4, <1>5, <2>1, <2>4
  <1>14. CASE Clean(d)
    <2>1. /\ \A e \in Deployers \ {d} : job'[e] = job[e] /\ job[e].pc = "idle"
          /\ job[d].pc = "clean" /\ job'[d].pc = "idle" /\ dirs' = Without(Build)
          /\ UNCHANGED <<proxy, igniter, head>>
      BY <1>1, <1>3, <1>14 DEF Clean, At, served, NoJob, Job
    <2>2. /\ Cloning(job[d]) /\ igniter = job[d].release /\ proxy = job[d].release
      BY <1>2, <2>1 DEF Underway
    <2>3. PICK i \in DOMAIN dirs : /\ dirs[i].name = proxy
                                   /\ i = 1 \/ (i <= 3 /\ dirs[1].name = Build)
      BY <2>2 DEF Cloning
    <2>4. proxy \in Releases /\ proxy # Build /\ 1 \in DOMAIN dirs /\ i \in Int
      BY <1>1, <2>1, <2>2, <2>3, DeployerAssumption DEF JobOK
    <2>5. CASE Build \notin Names(dirs)
      <3>1. dirs' = dirs
        BY <2>1, <2>5 DEF Without
      <3>2. i = 1
        BY <2>3, <2>4, <2>5 DEF Names
      <3>3. Settled'
        <4>1. Within(proxy, 2)
          BY <2>3, <2>4, <3>2 DEF Within
        <4>2. Within(proxy, 2)'
          BY <2>1, <3>1, <4>1 DEF Within
        <4> QED
          BY <2>1, <2>2, <2>5, <3>1, <4>2 DEF Settled
      <3> QED
        BY <1>2, <1>4, <1>5, <2>1, <3>1, <3>3 DEF Underway
    <2>6. CASE Build \in Names(dirs)
      <3> DEFINE b == CHOOSE k \in DOMAIN dirs : dirs[k].name = Build
      <3>1. b \in DOMAIN dirs /\ dirs[b].name = Build
        BY <2>6 DEF Names
      <3>2. dirs' = RemoveAt(dirs, b)
        BY <2>1, <2>6 DEF Without
      <3> HIDE DEF b
      <3>3. Distinct'
        BY <1>2, <3>1, <3>2, DistinctTaken
      <3>r. /\ \A k \in DOMAIN dirs : k < b => k \in DOMAIN dirs' /\ dirs'[k] = dirs[k]
            /\ \A k \in DOMAIN dirs : k > b => k - 1 \in DOMAIN dirs' /\ dirs'[k - 1] = dirs[k]
        <4> DEFINE rest == RemoveAt(dirs, b)
        <4>1. /\ \A k \in DOMAIN dirs : k < b => k \in DOMAIN rest /\ rest[k] = dirs[k]
              /\ \A k \in DOMAIN dirs : k > b => k - 1 \in DOMAIN rest /\ rest[k - 1] = dirs[k]
          BY <1>2, <3>1, Taken
        <4>2. dirs' = rest
          BY <3>2
        <4> HIDE DEF rest
        <4> QED
          BY <4>1, <4>2
      <3>l. ASSUME NEW k \in DOMAIN dirs'
            PROVE  \E l \in DOMAIN dirs \ {b} : dirs'[k] = dirs[l]
        <4>1. \E l \in DOMAIN dirs \ {b} :
                 RemoveAt(dirs, b)[k] = dirs[l] /\ l = IF k < b THEN k ELSE k + 1
          BY <1>2, <3>1, <3>2, Taken
        <4> QED
          BY <3>2, <4>1
      <3>4. Build \notin Names(dirs')
        BY <1>2, <3>1, <3>l DEF Names, Distinct
      <3>5. Within(proxy, 2)'
        <4>1. b \in Int /\ b >= 1
          BY <1>1, <3>1
        <4>2. CASE i = 1
          <5>1. b # 1
            BY <2>3, <2>4, <3>1, <4>2
          <5>2. 1 < b
            BY <4>1, <5>1
          <5>3. 1 \in DOMAIN dirs' /\ dirs'[1] = dirs[1]
            BY <2>4, <3>r, <5>2
          <5>4. dirs'[1].name = proxy' /\ 1 <= 2
            BY <2>1, <2>3, <4>2, <5>3
          <5> QED
            BY <5>3, <5>4 DEF Within
        <4>3. CASE i <= 3 /\ dirs[1].name = Build
          <5>1. b = 1
            BY <1>2, <2>4, <3>1, <4>3 DEF Distinct
          <5>2. i # 1
            BY <2>3, <2>4, <4>3
          <5>3. i > b /\ i - 1 <= 2
            BY <1>1, <2>3, <2>4, <4>3, <5>1, <5>2
          <5>4. i - 1 \in DOMAIN dirs' /\ dirs'[i - 1] = dirs[i]
            BY <2>3, <3>r, <5>3
          <5>5. dirs'[i - 1].name = proxy'
            BY <2>1, <2>3, <5>4
          <5> QED
            BY <5>3, <5>4, <5>5 DEF Within
        <4> QED
          BY <2>3, <4>2, <4>3
      <3>6. Settled'
        BY <2>1, <2>2, <3>4, <3>5 DEF Settled
      <3> QED
        BY <1>4, <2>1, <3>3, <3>6 DEF Underway
    <2> QED
      BY <2>5, <2>6
  <1>15. ~NoRepository(d) /\ ~Interrupted(d)
    BY DEF NoRepository, Interrupted, Happens, Undisturbed, Never
  <1> QED
    BY <1>6, <1>7, <1>8, <1>9, <1>10, <1>11, <1>12, <1>13, <1>14, <1>15 DEF Step

LEMMA DirsInit == Init => DirsInv
  <1> SUFFICES ASSUME Init PROVE DirsInv
    OBVIOUS
  <1>1. \A d \in Deployers : job[d].pc = "idle"
    BY DEF Init, NoJob
  <1>2. dirs \in Deployed /\ igniter = proxy
    BY DEF Init
  <1>3. dirs \in Seq([name : Releases, code : Codes])
    BY <1>2, DeployerAssumption DEF Codes
  <1>4. Distinct
    BY <1>2, DeployerAssumption DEF Distinct
  <1>5. \A i \in DOMAIN dirs : dirs[i].name # Build
    <2>1. \A i \in DOMAIN dirs : dirs[i] \in [name : Releases, code : Codes]
      BY <1>3, LenProperties, ElementOfSeq
    <2> QED
      BY <2>1, DeployerAssumption
  <1>6. CASE dirs = <<>>
    BY <1>1, <1>2, <1>4, <1>5, <1>6 DEF Init, DirsInv, AtMostOne, Names
  <1>7. CASE dirs # <<>>
    <2>1. 1 \in DOMAIN dirs /\ Head(dirs) = dirs[1]
      BY <1>3, <1>7, LenProperties, HeadTailProperties
    <2>2. proxy = dirs[1].name
      BY <1>7, <2>1 DEF Init
    <2>3. Within(proxy, 2)
      BY <2>1, <2>2 DEF Within
    <2> QED
      BY <1>1, <1>2, <1>4, <1>5, <2>3 DEF DirsInv, AtMostOne, Names
  <1> QED
    BY <1>6, <1>7

LEMMA DirsCorrect == Spec => [](Undisturbed => DirsInv)
  <1> DEFINE Inv == Undisturbed => DirsInv
  <1>1. Init => Inv
    BY DirsInit
  <1>2. TypeOK /\ JobsOK /\ (TypeOK /\ JobsOK)' /\ Inv /\ [Next]_vars => Inv'
    <2> SUFFICES ASSUME TypeOK, JobsOK, TypeOK', Inv, [Next]_vars, Undisturbed' PROVE DirsInv'
      OBVIOUS
    <2>1. DirsInv
      BY HappenedOnlyGrows DEF Undisturbed, Never
    <2>2. AtMostOne'
      BY <2>1, OneJobStep DEF DirsInv, Undisturbed, Never
    <2>3. CASE UNCHANGED vars
      <3>1. head <= head'
        BY <2>3, DeployerAssumption DEF vars, TypeOK, Codes
      <3> QED
        BY <2>1, <2>2, <2>3, <3>1, DirsSame DEF vars, served
    <2>4. CASE Next
      BY <2>1, <2>2, <2>4, DirsStep, DirsWorld DEF Next
    <2> QED
      BY <2>3, <2>4
  <1> HIDE DEF Inv
  <1>3. Spec => []Inv
    BY <1>1, <1>2, DeployerTypeCorrect, PTL DEF Spec
  <1> QED
    BY <1>3, PTL DEF Inv

(* What the proxy serves and the release in force is started from is there *)
(* at all times: two prunings of a deployment never reach the directory    *)
(* that the one before it put in front (deploy.cc:684-700).                *)
THEOREM ServedCorrect == Spec => []ServedDirectoryKept
  <1>1. (Undisturbed => DirsInv) => ServedDirectoryKept
    <2> SUFFICES ASSUME Undisturbed, DirsInv
                 PROVE  /\ proxy # None => proxy \in Names(dirs)
                        /\ (\A d \in Deployers : job[d].pc # "clone") /\ igniter # None
                              => igniter \in Names(dirs)
      BY DEF ServedDirectoryKept, Undisturbed
    <2>1. ASSUME NEW k, Within(proxy, k) PROVE proxy \in Names(dirs)
      BY <2>1 DEF Within, Names
    <2>2. CASE \A d \in Deployers : job[d].pc \in {"idle", "mark", "build"}
      BY <2>1, <2>2 DEF DirsInv
    <2>3. ASSUME NEW d \in Deployers, job[d].pc \notin {"idle", "mark", "build"}
          PROVE  /\ proxy # None => proxy \in Names(dirs)
                 /\ job[d].pc # "clone" /\ igniter # None => igniter \in Names(dirs)
      <3>1. CASE job[d].pc \in {"write", "clone"}
        BY <2>1, <3>1 DEF DirsInv
      <3>2. CASE job[d].pc \notin {"write", "clone"}
        BY <2>3, <3>2 DEF DirsInv, Names
      <3> QED
        BY <3>1, <3>2
    <2> QED
      BY <2>2, <2>3
  <1> QED
    BY <1>1, DirsCorrect, PTL

(* A push whose igniter is new comes into force with its deployment, with  *)
(* code no older than what was pushed when it began (deployer.cc:216).     *)
THEOREM PushedCorrect == Spec => []DeployedAsPushed
  <1>1. TypeOK /\ (Undisturbed => DirsInv) => DeployedAsPushed
    <2> SUFFICES ASSUME TypeOK, Undisturbed, DirsInv, NEW d \in Deployers,
                        job[d].pc \in {"unmark", "clean"}, job[d].fresh
                 PROVE  /\ igniter = IgniterOf[job[d].code]
                        /\ CodeIn(igniter) >= job[d].code
      BY DEF DeployedAsPushed, Undisturbed
    <2>1. /\ igniter = job[d].release /\ igniter = IgniterOf[job[d].code]
          /\ Distinct
      BY DEF DirsInv
    <2>2. PICK i \in DOMAIN dirs : dirs[i].name = igniter /\ dirs[i].code >= job[d].code
      BY <2>1 DEF DirsInv
    <2> DEFINE ds == {dirs[k] : k \in DOMAIN dirs}
    <2>3. dirs[i] \in ds /\ \A dir \in ds : dir.name = igniter => dir = dirs[i]
      BY <2>1, <2>2 DEF Distinct
    <2>4. (CHOOSE dir \in ds : dir.name = igniter) = dirs[i]
      BY <2>2, <2>3
    <2>5. CodeIn(igniter) = dirs[i].code
      BY <2>2, <2>4 DEF CodeIn, Names
    <2> QED
      BY <2>1, <2>2, <2>5
  <1> QED
    BY <1>1, DirsCorrect, DeployerTypeCorrect, PTL
=============================================================================
