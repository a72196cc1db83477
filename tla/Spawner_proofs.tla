---------------------------- MODULE Spawner_proofs ----------------------------
(***************************************************************************)
(* Theorems about Spawner, for any number of svdss processes and services, *)
(* any disturbances and any bound on them.                                 *)
(***************************************************************************)
EXTENDS Spawner, FiniteSetTheorems, SequenceTheorems, TLAPS

(* The operators on jobs.                                                  *)

LEMMA SetToSeqList ==
    ASSUME NEW S, IsFiniteSet(S)
    PROVE  /\ Cardinality(S) \in Nat
           /\ SetToSeq(S) \in [1..Cardinality(S) -> S]
           /\ \A s \in S : \E i \in 1..Cardinality(S) : SetToSeq(S)[i] = s
  <1> DEFINE n == Cardinality(S)  f == SetToSeq(S)
  <1>1. n \in Nat /\ ExistsBijection(1..n, S)
    BY FS_CardinalityType
  <1>2. \E g \in [1..n -> S] : IsInjective(g)
    BY <1>1 DEF ExistsBijection, Bijection, Injection
  <1>3. f \in [1..n -> S] /\ IsInjective(f)
    BY <1>2 DEF SetToSeq
  <1>4. f \in Injection(1..n, S)
    BY <1>3 DEF Injection
  <1>5. Cardinality(1..n) = n
    BY <1>1, FS_Interval
  <1>6. f \in Surjection(1..n, S)
    BY <1>4, <1>5, FS_Injection
  <1> QED
    BY <1>1, <1>3, <1>6 DEF Surjection

LEMMA ForEachList ==
    ASSUME NEW do \in {"watch", "start", "mark", "stop", "unmark"}, NEW S \in SUBSET Services
    PROVE  /\ ForEach(do, S) \in Seq(Job)
           /\ \A i \in 1..Len(ForEach(do, S)) : ForEach(do, S)[i].do = do
           /\ \A s \in S : \E i \in 1..Len(ForEach(do, S)) :
                ForEach(do, S)[i] = [do |-> do, service |-> s]
  <1> DEFINE n == Cardinality(S)  f == SetToSeq(S)  r == ForEach(do, S)
  <1>1. IsFiniteSet(S)
    BY SpawnerAssumption, FS_Subset
  <1>2. n \in Nat /\ f \in [1..n -> S] /\ \A s \in S : \E i \in 1..n : f[i] = s
    BY <1>1, SetToSeqList
  <1>3. r = [i \in 1..n |-> [do |-> do, service |-> f[i]]]
    BY <1>2 DEF ForEach
  <1> HIDE DEF f, r, n
  <1>4. r \in [1..n -> Job]
    BY <1>2, <1>3 DEF Job
  <1>5. r \in Seq(Job) /\ Len(r) = n
    BY <1>2, <1>4
  <1> QED
    BY <1>2, <1>3, <1>5 DEF r

LEMMA TailJobs ==
    ASSUME NEW q \in Seq(Job), q # <<>>
    PROVE  /\ Head(q) \in Job /\ Head(q) = q[1] /\ Len(q) \in Nat /\ Len(q) >= 1
           /\ Tail(q) \in Seq(Job)
           /\ Len(Tail(q)) = Len(q) - 1
           /\ \A i \in 1..Len(q) - 1 : Tail(q)[i] = q[i + 1]
  BY HeadTailProperties, LenProperties, EmptySeq

LEMMA ThenJobs ==
    ASSUME NEW q \in Seq(Job), q # <<>>, NEW j \in Job
    PROVE  LET r == <<j>> \o Tail(q)
           IN  /\ r \in Seq(Job) /\ r # <<>> /\ Len(r) = Len(q) /\ Head(r) = j
               /\ \A i \in 2..Len(q) : r[i] = q[i]
  <1> DEFINE t == Tail(q)  r == <<j>> \o t
  <1>1. /\ Len(q) \in Nat /\ Len(q) >= 1 /\ t \in Seq(Job) /\ Len(t) = Len(q) - 1
        /\ \A i \in 1..Len(q) - 1 : t[i] = q[i + 1]
    BY TailJobs
  <1>2. <<j>> \in Seq(Job) /\ Len(<<j>>) = 1 /\ <<j>>[1] = j
    OBVIOUS
  <1> HIDE DEF t
  <1>3. /\ r \in Seq(Job) /\ Len(r) = 1 + Len(t)
        /\ \A i \in 1..1 + Len(t) : r[i] = IF i <= 1 THEN <<j>>[i] ELSE t[i - 1]
    BY <1>1, <1>2, ConcatProperties
  <1> HIDE DEF r
  <1>4. Len(r) = Len(q) /\ r[1] = j
    BY <1>1, <1>2, <1>3
  <1>5. r # <<>> /\ Head(r) = j
    BY <1>1, <1>3, <1>4, TailJobs
  <1>6. ASSUME NEW i \in 2..Len(q)
        PROVE  r[i] = q[i]
    <2>1. i \in Int /\ i \in 1..1 + Len(t) /\ ~(i <= 1) /\ i - 1 \in 1..Len(q) - 1
      BY <1>1
    <2>2. r[i] = t[i - 1]
      BY <1>3, <2>1
    <2> DEFINE k == i - 1
    <2>3. k \in 1..Len(q) - 1 /\ k + 1 = i
      BY <2>1
    <2> HIDE DEF k
    <2>4. t[k] = q[k + 1]
      BY <1>1, <2>3
    <2> QED
      BY <2>2, <2>3, <2>4 DEF k
  <1> QED
    BY <1>3, <1>4, <1>5, <1>6 DEF r, t

-----------------------------------------------------------------------------
(* Type correctness. *)

LEMMA ThenType ==
    ASSUME TypeOK, NEW p \in Procs, NEW s \in Services, jobs[p] # <<>>,
           NEW do \in {"watch", "start", "mark", "stop", "unmark"}, Then(p, do, s)
    PROVE  /\ jobs' \in [Procs -> Seq(Job)]
           /\ \A q \in Procs : q # p => jobs'[q] = jobs[q]
           /\ jobs'[p] # <<>> /\ Head(jobs'[p]) = [do |-> do, service |-> s]
           /\ Len(jobs'[p]) = Len(jobs[p])
           /\ \A i \in 2..Len(jobs[p]) : jobs'[p][i] = jobs[p][i]
  <1> DEFINE j == [do |-> do, service |-> s]  r == <<j>> \o Tail(jobs[p])
  <1>1. j \in Job /\ jobs \in [Procs -> Seq(Job)]
    BY DEF TypeOK, Job
  <1>2. /\ r \in Seq(Job) /\ r # <<>> /\ Len(r) = Len(jobs[p]) /\ Head(r) = j
        /\ \A i \in 2..Len(jobs[p]) : r[i] = jobs[p][i]
    BY <1>1, ThenJobs
  <1>3. jobs' = [jobs EXCEPT ![p] = r]
    BY DEF Then
  <1> HIDE DEF j, r
  <1>4. jobs' \in [Procs -> Seq(Job)] /\ jobs'[p] = r /\ \A q \in Procs : q # p => jobs'[q] = jobs[q]
    BY <1>1, <1>2, <1>3
  <1> QED
    BY <1>2, <1>4 DEF j

LEMMA ReturnType ==
    ASSUME TypeOK, NEW p \in Procs, jobs[p] # <<>>, Return(p)
    PROVE  /\ jobs' \in [Procs -> Seq(Job)]
           /\ \A q \in Procs : q # p => jobs'[q] = jobs[q]
           /\ jobs'[p] = Tail(jobs[p])
           /\ Len(jobs'[p]) = Len(jobs[p]) - 1 /\ Len(jobs[p]) \in Nat
           /\ \A i \in 1..Len(jobs[p]) - 1 : jobs'[p][i] = jobs[p][i + 1]
  <1>1. jobs \in [Procs -> Seq(Job)]
    BY DEF TypeOK
  <1>2. /\ Tail(jobs[p]) \in Seq(Job) /\ Len(jobs[p]) \in Nat
        /\ Len(Tail(jobs[p])) = Len(jobs[p]) - 1
        /\ \A i \in 1..Len(jobs[p]) - 1 : Tail(jobs[p])[i] = jobs[p][i + 1]
    BY <1>1, TailJobs
  <1>3. jobs' \in [Procs -> Seq(Job)] /\ jobs'[p] = Tail(jobs[p])
        /\ \A q \in Procs : q # p => jobs'[q] = jobs[q]
    BY <1>1, <1>2 DEF Return
  <1> QED
    BY <1>2, <1>3

LEMMA HappensType ==
    ASSUME NEW kinds \in SUBSET Rough, TypeOK, Happens(kinds)
    PROVE  happened' \subseteq Rough
  BY DEF TypeOK, Happens

LEMMA EventType ==
    ASSUME NEW kind, TypeOK, Event(kind)
    PROVE  spent' \in 0..MaxEvents
  BY SpawnerAssumption DEF TypeOK, Event

LEMMA ChangedType ==
    ASSUME NEW where \in {"home", "data"}, TypeOK, Changed(where)
    PROVE  news' \in [Procs -> SUBSET {"home", "data"}]
  BY DEF TypeOK, Changed

LEMMA NoticesType ==
    ASSUME NEW s \in Services, TypeOK, Notices(s)
    PROVE  noticed' \in [Procs -> SUBSET Services]
  BY DEF TypeOK, Notices

LEMMA GoneType ==
    ASSUME NEW p \in Procs, TypeOK, Gone(p)
    PROVE  /\ pc' \in [Procs -> {"off", "reads", "writes", "collects", "registers", "loops", "stops"}]
           /\ jobs' \in [Procs -> Seq(Job)]
           /\ known' \in [Procs -> SUBSET Services] /\ watched' \in [Procs -> SUBSET Services]
           /\ heard' \in [Procs -> SUBSET Services] /\ \A q \in Procs : heard'[q] \subseteq dirs
           /\ sits' \in [Procs -> SUBSET Services]
  <1>1. <<>> \in Seq(Job) /\ jobs \in [Procs -> Seq(Job)]
    BY DEF TypeOK
  <1>2. jobs' \in [Procs -> Seq(Job)]
    BY <1>1 DEF Gone
  <1> QED
    BY <1>2 DEF TypeOK, Gone

LEMMA TypeInductive ==
    ASSUME TypeOK, [Next]_vars
    PROVE  TypeOK'
  <1> USE SpawnerAssumption
  <1> DEFINE Old == /\ pc \in [Procs -> {"off", "reads", "writes", "collects", "registers", "loops", "stops"}]
                    /\ jobs \in [Procs -> Seq(Job)]
                    /\ TypeOK
  <1>0. Old
    BY DEF TypeOK
  <1>1. CASE Launch
    BY <1>1 DEF Launch, LaunchAs, GoTo, TypeOK, memory, ears, lock, disk, service
  <1>2. CASE LaunchAgain
    BY <1>2 DEF LaunchAgain, LaunchAs, Event, GoTo, TypeOK, memory, ears, lock, disk, service
  <1>3. ASSUME NEW p \in Procs, TestLock(p)
        PROVE  TypeOK'
    <2>1. CASE UNCHANGED <<pidFile, news, happened>>
      BY <1>3, <2>1 DEF TestLock, GoTo, TypeOK, memory, disk, service
    <2>2. CASE /\ pidFile' = NoPid
               /\ IF pidFile = NoPid THEN UNCHANGED news ELSE Changed("home")
               /\ GoTo(p, "writes")
               /\ \E kinds \in SUBSET Rough : Happens(kinds)
      <3>1. happened' \subseteq Rough /\ news' \in [Procs -> SUBSET {"home", "data"}]
        BY <2>2, HappensType, ChangedType DEF TypeOK
      <3> QED
        BY <1>3, <2>2, <3>1 DEF TestLock, GoTo, TypeOK, memory, disk, service
    <2> QED
      <3> DEFINE kinds == {k \in {"together"} : \E q \in Procs : pc[q] = "writes"}
                           \cup {k \in {"grace"} : \E q \in Procs : pc[q] = "stops"}
      <3>1. kinds \in SUBSET Rough
        BY DEF Rough
      <3>2. UNCHANGED <<pidFile, news, happened>>
            \/ /\ pidFile' = NoPid
               /\ IF pidFile = NoPid THEN UNCHANGED news ELSE Changed("home")
               /\ GoTo(p, "writes")
               /\ Happens(kinds)
        BY <1>3 DEF TestLock
      <3> HIDE DEF kinds
      <3> QED
        BY <2>1, <2>2, <3>1, <3>2
  <1>4. ASSUME NEW p \in Procs, WriteLock(p)
        PROVE  TypeOK'
    BY <1>4 DEF WriteLock, GoTo, Happens, Rough, Changed, TypeOK, memory, ears, lock, disk, service
  <1>5. ASSUME NEW p \in Procs, Collect(p)
        PROVE  TypeOK'
    <2> DEFINE new == ForEach("watch", (dirs \cap igniters) \ known[p])
    <2>1. new \in Seq(Job)
      BY ForEachList DEF TypeOK
    <2>2. jobs' = [jobs EXCEPT ![p] = new]
      BY <1>5 DEF Collect, CollectServices, WatchAll
    <2> HIDE DEF new
    <2> QED
      BY <1>5, <2>1, <2>2 DEF Collect, CollectServices, GoTo, TypeOK, ears, lock, disk, service, events
  <1>6. ASSUME NEW p \in Procs, Register(p)
        PROVE  TypeOK'
    BY <1>6 DEF Register, GoTo, Happens, Rough, TypeOK, memory, lock, disk, service
  <1>7. ASSUME NEW p \in Procs, Exit(p)
        PROVE  TypeOK'
    BY <1>7 DEF Exit, Gone, Deaf, TypeOK, lock, disk, service, events
  <1>8. ASSUME NEW p \in Procs, NEW s \in Services, Watch(p, s)
        PROVE  TypeOK'
    <2>1. jobs[p] # <<>> /\ (Then(p, "start", s) \/ Return(p))
      BY <1>8 DEF Watch, Doing
    <2>2. jobs' \in [Procs -> Seq(Job)]
      BY <2>1, ThenType, ReturnType
    <2> QED
      <3>1. dirs' = dirs \cup {s} /\ heard' = [heard EXCEPT ![p] = @ \cup {s}]
            /\ watched' = [watched EXCEPT ![p] = @ \cup {s}]
        BY <1>8 DEF Watch
      <3>2. heard' \in [Procs -> SUBSET Services] /\ \A q \in Procs : heard'[q] \subseteq dirs'
        BY <3>1 DEF TypeOK
      <3>3. happened' \subseteq Rough
        BY <1>8 DEF Watch, Happens, Rough, TypeOK
      <3>4. news' \in [Procs -> SUBSET {"home", "data"}]
        BY <1>8, ChangedType DEF Watch, TypeOK
      <3> QED
        BY <1>8, <2>2, <3>1, <3>2, <3>3, <3>4 DEF Watch, TypeOK, lock, service
  <1>9. ASSUME NEW p \in Procs, NEW s \in Services, StartSlot(p, s)
        PROVE  TypeOK'
    <2>1. jobs[p] # <<>> /\ (Then(p, "mark", s) \/ Return(p))
      BY <1>9 DEF StartSlot, Doing
    <2>2. jobs' \in [Procs -> Seq(Job)]
      BY <2>1, ThenType, ReturnType
    <2> QED
      BY <1>9, <2>2 DEF StartSlot, TypeOK, ears, lock, disk, events
  <1>10. ASSUME NEW p \in Procs, NEW s \in Services, StartDone(p, s)
         PROVE  TypeOK'
    <2>1. jobs' \in [Procs -> Seq(Job)]
      BY <1>10, ReturnType DEF StartDone, Doing
    <2> QED
      BY <1>10, <2>1 DEF StartDone, Notices, TypeOK, memory, lock, disk, events
  <1>11. ASSUME NEW p \in Procs, NEW s \in Services, StopSlot(p, s)
         PROVE  TypeOK'
    <2>1. jobs[p] # <<>> /\ (Then(p, "unmark", s) \/ Return(p))
      BY <1>11 DEF StopSlot, Doing
    <2>2. jobs' \in [Procs -> Seq(Job)]
      BY <2>1, ThenType, ReturnType
    <2> QED
      BY <1>11, <2>2 DEF StopSlot, TypeOK, ears, lock, disk, events
  <1>12. ASSUME NEW p \in Procs, NEW s \in Services, StopDone(p, s)
         PROVE  TypeOK'
    <2>1. jobs' \in [Procs -> Seq(Job)]
      BY <1>12, ReturnType DEF StopDone, Doing
    <2> QED
      BY <1>12, <2>1 DEF StopDone, Notices, TypeOK, memory, lock, disk, events
  <1>13. ASSUME NEW p \in Procs, DataChanged(p)
         PROVE  TypeOK'
    <2> DEFINE new == ForEach("watch", (dirs \cap igniters) \ known[p])
    <2>1. new \in Seq(Job)
      BY ForEachList DEF TypeOK
    <2>2. jobs' = [jobs EXCEPT ![p] = new]
      BY <1>13 DEF DataChanged, CollectServices, WatchAll
    <2> HIDE DEF new
    <2> QED
      BY <1>13, <2>1, <2>2 DEF DataChanged, CollectServices, TypeOK, lock, disk, service, events
  <1>14. ASSUME NEW p \in Procs, HomeChanged(p)
         PROVE  TypeOK'
    <2> DEFINE new == ForEach("stop", watched[p])
    <2>1. new \in Seq(Job)
      BY ForEachList DEF TypeOK
    <2>2. \/ UNCHANGED jobs
          \/ jobs' = [jobs EXCEPT ![p] = new]
          \/ Gone(p)
      BY <1>14 DEF HomeChanged
    <2> HIDE DEF new
    <2>3. jobs' \in [Procs -> Seq(Job)]
      <3>1. CASE jobs' = [jobs EXCEPT ![p] = new]
        BY <1>0, <2>1, <3>1
      <3> QED
        BY <1>0, <2>2, <3>1, GoneType
    <2>4. /\ pc' \in [Procs -> {"off", "reads", "writes", "collects", "registers", "loops", "stops"}]
          /\ known' \in [Procs -> SUBSET Services] /\ watched' \in [Procs -> SUBSET Services]
          /\ heard' \in [Procs -> SUBSET Services] /\ \A q \in Procs : heard'[q] \subseteq dirs
          /\ sits' \in [Procs -> SUBSET Services]
      <3>1. CASE Gone(p)
        BY <3>1, GoneType
      <3>2. CASE UNCHANGED memory /\ (UNCHANGED pc \/ GoTo(p, "stops"))
        BY <3>2 DEF GoTo, TypeOK, memory
      <3> QED
        BY <1>14, <3>1, <3>2 DEF HomeChanged
    <2>5. news' \in [Procs -> SUBSET {"home", "data"}]
      <3>1. CASE news' = [news EXCEPT ![p] = @ \ {"home"}]
        BY <3>1 DEF TypeOK
      <3>2. CASE Changed("home")
        BY <3>2, ChangedType
      <3>3. CASE news' = Deaf(p, [q \in Procs |-> IF Listens(q) THEN news[q] \cup {"home"}
                                                            ELSE news[q]])
        BY <3>3 DEF Deaf, TypeOK
      <3> QED
        BY <1>14, <3>1, <3>2, <3>3 DEF HomeChanged
    <2>6. /\ noticed' \in [Procs -> SUBSET Services]
          /\ pidFile' \in Procs \cup {NoPid, BadPid}
          /\ control' \subseteq {"shutdown", "shutdownGracefully"}
      BY <1>14 DEF HomeChanged, Deaf, TypeOK
    <2> QED
      BY <1>14, <2>3, <2>4, <2>5, <2>6 DEF HomeChanged, TypeOK, disk, service, events
  <1>15. ASSUME NEW p \in Procs, Killed(p)
         PROVE  TypeOK'
    <2> DEFINE kinds == {k \in {"cut"} : \E s \in Services : Doing(p, "mark", s)}
    <2>1. kinds \in SUBSET Rough
      BY DEF Rough
    <2>2. Happens(kinds)
      BY <1>15 DEF Killed
    <2> HIDE DEF kinds
    <2>3. happened' \subseteq Rough /\ spent' \in 0..MaxEvents
      BY <1>15, <2>1, <2>2, HappensType, EventType DEF Killed
    <2>4. noticed' \in [Procs -> SUBSET Services] /\ news' \in [Procs -> SUBSET {"home", "data"}]
      BY <1>15 DEF Killed, Deaf, TypeOK
    <2>5. Gone(p)
      BY <1>15 DEF Killed
    <2> QED
      BY <1>15, <2>3, <2>4, <2>5, GoneType DEF Killed, TypeOK, lock, disk, service
  <1>16. ASSUME NEW p \in Procs, NEW s \in Services, Obey(p, s)
         PROVE  TypeOK'
    <2>1. \A do \in {"start", "stop"} : <<[do |-> do, service |-> s]>> \in Seq(Job)
      BY DEF Job
    <2>2. \/ UNCHANGED jobs
          \/ jobs' = [jobs EXCEPT ![p] = <<>>]
          \/ \E do \in {"start", "stop"} : jobs' = [jobs EXCEPT ![p] = <<[do |-> do, service |-> s]>>]
      BY <1>16 DEF Obey
    <2>3. jobs' \in [Procs -> Seq(Job)]
      <3>1. CASE jobs' = [jobs EXCEPT ![p] = <<>>]
        BY <1>0, <3>1
      <3>2. CASE \E do \in {"start", "stop"} : jobs' = [jobs EXCEPT ![p] = <<[do |-> do, service |-> s]>>]
        <4>1. PICK do \in {"start", "stop"} : jobs' = [jobs EXCEPT ![p] = <<[do |-> do, service |-> s]>>]
          BY <3>2
        <4> DEFINE new == <<[do |-> do, service |-> s]>>
        <4>2. new \in Seq(Job)
          BY <2>1
        <4>3. jobs' = [jobs EXCEPT ![p] = new]
          BY <4>1
        <4> HIDE DEF new
        <4> QED
          BY <1>0, <4>2, <4>3
      <3> QED
        BY <1>0, <2>2, <3>1, <3>2
    <2>4. noticed' \in [Procs -> SUBSET Services]
      <3>1. CASE Notices(s)
        BY <3>1, NoticesType
      <3>2. CASE noticed' = [noticed EXCEPT ![p] = @ \ {s}]
        BY <3>2 DEF TypeOK
      <3> QED
        BY <1>16, <3>1, <3>2 DEF Obey
    <2>5. triggers' \subseteq Services \X {"start", "stop"}
      BY <1>16 DEF Obey, TypeOK
    <2>6. UNCHANGED <<pc, memory, news, lock, dirs, igniters, control, service, events>>
      BY <1>16 DEF Obey
    <2> QED
      BY <2>3, <2>4, <2>5, <2>6 DEF TypeOK, memory, lock, service, events
  <1>17. ASSUME NEW p \in Procs, NEW s \in Services, BabySitterSlot(p, s)
         PROVE  TypeOK'
    <2>1. <<[do |-> "stop", service |-> s], [do |-> "start", service |-> s]>> \in Seq(Job)
      BY DEF Job
    <2> DEFINE new == <<[do |-> "stop", service |-> s], [do |-> "start", service |-> s]>>
    <2>2. UNCHANGED jobs \/ jobs' = [jobs EXCEPT ![p] = new]
      BY <1>17 DEF BabySitterSlot
    <2> HIDE DEF new
    <2>3. new \in Seq(Job)
      BY <2>1 DEF new
    <2>4. jobs' \in [Procs -> Seq(Job)]
      BY <1>0, <2>2, <2>3
    <2>5. sits' \in [Procs -> SUBSET Services]
      BY <1>17 DEF BabySitterSlot, TypeOK
    <2>6. UNCHANGED <<pc, known, watched, heard, ears, lock, disk, control, service, events>>
      BY <1>17 DEF BabySitterSlot
    <2> QED
      BY <2>4, <2>5, <2>6 DEF TypeOK, ears, lock, disk, service, events
  <1>18. CASE DamagePidFile
    BY <1>18 DEF DamagePidFile, Event, TypeOK, memory, ears, disk, service
  <1>19. CASE PidReused
    BY <1>19 DEF PidReused, Event, Happens, Rough, TypeOK, memory, ears, disk, service
  <1>20. ASSUME NEW f \in {"shutdown", "shutdownGracefully"}, TouchControl(f)
         PROVE  TypeOK'
    BY <1>20 DEF TouchControl, Event, Changed, TypeOK, memory, lock, disk, service
  <1>21. ASSUME NEW s \in Services, NEW t \in {"start", "stop"}, Touch(s, t)
         PROVE  TypeOK'
    BY <1>21 DEF Touch, Event, Notices, Happens, Rough, TypeOK, memory, lock, service
  <1>22. ASSUME NEW s \in Services, MakeDir(s)
         PROVE  TypeOK'
    <2>1. spent' \in 0..MaxEvents /\ news' \in [Procs -> SUBSET {"home", "data"}]
      BY <1>22, EventType, ChangedType DEF MakeDir
    <2>2. happened' \subseteq Rough
      BY <1>22 DEF MakeDir, Happens, Rough, TypeOK
    <2>3. dirs' = dirs \cup {s} /\ UNCHANGED <<pc, jobs, memory, noticed, lock, igniters, triggers, control, service>>
      BY <1>22 DEF MakeDir
    <2> QED
      BY <2>1, <2>2, <2>3 DEF TypeOK, memory, lock, service
  <1>23. ASSUME NEW s \in Services, RemoveDir(s)
         PROVE  TypeOK'
    <2>1. /\ spent' \in 0..MaxEvents /\ news' \in [Procs -> SUBSET {"home", "data"}]
          /\ noticed' \in [Procs -> SUBSET Services]
      BY <1>23, EventType, ChangedType, NoticesType DEF RemoveDir
    <2>2. happened' \subseteq Rough
      BY <1>23 DEF RemoveDir, Happens, Rough, TypeOK
    <2>3. heard' = [q \in Procs |-> heard[q] \ {s}] /\ dirs' = dirs \ {s}
          /\ triggers' \subseteq triggers
      BY <1>23 DEF RemoveDir
    <2>4. heard' \in [Procs -> SUBSET Services] /\ \A q \in Procs : heard'[q] \subseteq dirs'
      BY <2>3 DEF TypeOK
    <2>5. UNCHANGED <<pc, jobs, known, watched, sits, lock, igniters, control, service>>
      BY <1>23 DEF RemoveDir
    <2> QED
      BY <2>1, <2>2, <2>3, <2>4, <2>5 DEF TypeOK, lock, service
  <1>24. ASSUME NEW s \in Services, AddIgniter(s)
         PROVE  TypeOK'
    <2>1. spent' \in 0..MaxEvents
      BY <1>24, EventType DEF AddIgniter
    <2>2. happened' \subseteq Rough
      BY <1>24 DEF AddIgniter, Happens, Rough, TypeOK
    <2> QED
      BY <1>24, <2>1, <2>2 DEF AddIgniter, TypeOK, memory, ears, lock, service
  <1>25. ASSUME NEW s \in Services, ProcessDies(s)
         PROVE  TypeOK'
    BY <1>25 DEF ProcessDies, Event, TypeOK, memory, ears, lock, disk
  <1>26. CASE UNCHANGED vars
    BY <1>26 DEF TypeOK, vars, memory, ears, lock, disk, service, events
  <1> QED
    BY <1>1, <1>2, <1>3, <1>4, <1>5, <1>6, <1>7, <1>8, <1>9, <1>10, <1>11, <1>12, <1>13, <1>14,
       <1>15, <1>16, <1>17, <1>18, <1>19, <1>20, <1>21, <1>22, <1>23, <1>24, <1>25, <1>26
       DEF Next, Step

(* Every variable keeps its type: lists of services stay services, jobs are *)
(* slots of services, and svdss listens only to directories that exist.     *)
THEOREM SpawnerTypeCorrect == Spec => []TypeOK
  <1>1. Init => TypeOK
    BY SpawnerAssumption DEF Init, TypeOK
  <1>2. TypeOK /\ [Next]_vars => TypeOK'
    BY TypeInductive
  <1> QED
    BY <1>1, <1>2, PTL DEF Spec

-----------------------------------------------------------------------------
(* One svdss at work.                                                      *)

(* With only one svdss between its test of the pid file and its end, the   *)
(* pid file has its number from the start of its services to a shutdown.   *)
InLock(p) == pc[p] \in {"writes", "collects", "registers", "loops", "stops"}

LockKept ==
    Never({"together", "grace"}) =>
        /\ \A p, q \in Procs : InLock(p) /\ InLock(q) => p = q
        /\ \A p \in Procs : pc[p] \in {"collects", "registers", "loops"} => pidFile = p

(* What has happened stays happened.                                       *)
LEMMA HappenedGrows ==
    ASSUME TypeOK, [Next]_vars
    PROVE  happened \subseteq happened'
  <1> USE DEF Happens, events
  <1>1. ASSUME NEW p \in Procs, Step(p)
        PROVE  happened \subseteq happened'
    BY <1>1 DEF Step, TestLock, WriteLock, Collect, Register, Exit, Watch, StartSlot, StartDone,
                StopSlot, StopDone
  <1>2. ASSUME NEW p \in Procs, DataChanged(p) \/ HomeChanged(p) \/ Killed(p)
        PROVE  happened \subseteq happened'
    BY <1>2 DEF DataChanged, HomeChanged, Killed
  <1>3. ASSUME NEW p \in Procs, NEW s \in Services, Obey(p, s) \/ BabySitterSlot(p, s)
        PROVE  happened \subseteq happened'
    BY <1>3 DEF Obey, BabySitterSlot
  <1>4. CASE Launch \/ LaunchAgain \/ DamagePidFile \/ PidReused
    BY <1>4 DEF Launch, LaunchAgain, LaunchAs, DamagePidFile, PidReused
  <1>5. ASSUME NEW f, TouchControl(f)
        PROVE  happened \subseteq happened'
    BY <1>5 DEF TouchControl
  <1>6. ASSUME NEW s \in Services, MakeDir(s) \/ RemoveDir(s) \/ AddIgniter(s) \/ ProcessDies(s)
        PROVE  happened \subseteq happened'
    BY <1>6 DEF MakeDir, RemoveDir, AddIgniter, ProcessDies
  <1>7. ASSUME NEW s \in Services, NEW t, Touch(s, t)
        PROVE  happened \subseteq happened'
    BY <1>7 DEF Touch
  <1>8. CASE UNCHANGED vars
    BY <1>8 DEF vars
  <1> QED
    BY <1>1, <1>2, <1>3, <1>4, <1>5, <1>6, <1>7, <1>8 DEF Next

LEMMA LockInductive ==
    ASSUME TypeOK, LockKept, [Next]_vars
    PROVE  LockKept'
  <1> SUFFICES ASSUME Never({"together", "grace"})'
               PROVE  /\ \A p, q \in Procs : InLock(p)' /\ InLock(q)' => p = q
                      /\ \A p \in Procs : (pc'[p] \in {"collects", "registers", "loops"}) => pidFile' = p
    BY DEF LockKept
  <1>1. Never({"together", "grace"})
    BY HappenedGrows DEF Never
  <1>2. /\ \A p, q \in Procs : InLock(p) /\ InLock(q) => p = q
        /\ \A p \in Procs : pc[p] \in {"collects", "registers", "loops"} => pidFile = p
    BY <1>1 DEF LockKept
  <1>3. pc \in [Procs -> {"off", "reads", "writes", "collects", "registers", "loops", "stops"}]
        /\ pidFile \in Procs \cup {NoPid, BadPid} /\ NoPid \notin Procs /\ BadPid \notin Procs
    BY SpawnerAssumption DEF TypeOK
  <1> USE <1>2, <1>3 DEF InLock
  <1>4. CASE UNCHANGED <<pc, pidFile>>
    BY <1>4
  <1>5. CASE \E p \in Procs : LaunchAs(p)
    BY <1>5 DEF LaunchAs, GoTo, Alive, lock
  <1>6. ASSUME NEW p \in Procs, TestLock(p)
        PROVE  /\ \A q, r \in Procs : InLock(q)' /\ InLock(r)' => q = r
               /\ \A q \in Procs : (pc'[q] \in {"collects", "registers", "loops"}) => pidFile' = q
    <2>1. CASE GoTo(p, "off") /\ UNCHANGED pidFile
      BY <2>1 DEF GoTo
    <2>2. CASE /\ pidFile \in Procs => ~Alive(pidFile)
               /\ pidFile' = NoPid
               /\ GoTo(p, "writes")
               /\ Happens({k \in {"together"} : \E q \in Procs : pc[q] = "writes"}
                          \cup {k \in {"grace"} : \E q \in Procs : pc[q] = "stops"})
      <3>1. \A q \in Procs : pc[q] # "writes" /\ pc[q] # "stops"
        BY <2>2 DEF Happens, Never
      <3>2. \A q \in Procs : pc[q] \notin {"collects", "registers", "loops"}
        BY <2>2 DEF Alive
      <3> QED
        BY <2>2, <3>1, <3>2 DEF GoTo
    <2> QED
      BY <1>6, <2>1, <2>2 DEF TestLock
  <1>7. ASSUME NEW p \in Procs, WriteLock(p)
        PROVE  /\ \A q, r \in Procs : InLock(q)' /\ InLock(r)' => q = r
               /\ \A q \in Procs : (pc'[q] \in {"collects", "registers", "loops"}) => pidFile' = q
    BY <1>7 DEF WriteLock, GoTo
  <1>8. ASSUME NEW p \in Procs, Collect(p) \/ Register(p)
        PROVE  /\ \A q, r \in Procs : InLock(q)' /\ InLock(r)' => q = r
               /\ \A q \in Procs : (pc'[q] \in {"collects", "registers", "loops"}) => pidFile' = q
    BY <1>8 DEF Collect, Register, At, GoTo, lock
  <1>9. ASSUME NEW p \in Procs, Exit(p) \/ Killed(p)
        PROVE  /\ \A q, r \in Procs : InLock(q)' /\ InLock(r)' => q = r
               /\ \A q \in Procs : (pc'[q] \in {"collects", "registers", "loops"}) => pidFile' = q
    BY <1>9 DEF Exit, Killed, Gone, lock
  <1>10. ASSUME NEW p \in Procs, HomeChanged(p)
         PROVE  /\ \A q, r \in Procs : InLock(q)' /\ InLock(r)' => q = r
                /\ \A q \in Procs : (pc'[q] \in {"collects", "registers", "loops"}) => pidFile' = q
    <2>1. pc[p] = "loops" /\ \A q \in Procs : InLock(q) => q = p
      BY <1>10 DEF HomeChanged, At
    <2>2. \/ UNCHANGED <<pc, pidFile>>
          \/ GoTo(p, "stops")
          \/ pc' = [pc EXCEPT ![p] = "off"]
      BY <1>10 DEF HomeChanged, Gone
    <2> QED
      BY <2>1, <2>2 DEF GoTo
  <1>11. CASE DamagePidFile
    <2>1. UNCHANGED pc /\ \A p \in Procs : pc[p] \notin {"collects", "registers", "loops"}
      BY <1>11 DEF DamagePidFile, Alive
    <2> QED
      BY <2>1
  <1>12. ASSUME NEW p \in Procs, NEW s \in Services,
                \/ Watch(p, s) \/ StartSlot(p, s) \/ StartDone(p, s)
                \/ StopSlot(p, s) \/ StopDone(p, s) \/ Obey(p, s) \/ BabySitterSlot(p, s)
         PROVE  UNCHANGED <<pc, pidFile>>
    BY <1>12 DEF Watch, StartSlot, StartDone, StopSlot, StopDone, Obey, BabySitterSlot, lock
  <1>13. ASSUME NEW p \in Procs, DataChanged(p)
         PROVE  UNCHANGED <<pc, pidFile>>
    BY <1>13 DEF DataChanged, lock
  <1>14. CASE PidReused
    BY <1>14 DEF PidReused
  <1>15. ASSUME NEW f, TouchControl(f)
         PROVE  UNCHANGED <<pc, pidFile>>
    BY <1>15 DEF TouchControl, lock
  <1>16. ASSUME NEW s \in Services, NEW t, Touch(s, t)
         PROVE  UNCHANGED <<pc, pidFile>>
    BY <1>16 DEF Touch, lock
  <1>17. ASSUME NEW s \in Services, MakeDir(s) \/ RemoveDir(s) \/ AddIgniter(s) \/ ProcessDies(s)
         PROVE  UNCHANGED <<pc, pidFile>>
    BY <1>17 DEF MakeDir, RemoveDir, AddIgniter, ProcessDies, lock
  <1>18. CASE UNCHANGED vars
    BY <1>4, <1>18 DEF vars, lock
  <1>19. CASE Launch \/ LaunchAgain
    BY <1>5, <1>19 DEF Launch, LaunchAgain
  <1>20. ASSUME NEW p \in Procs, Step(p)
         PROVE  /\ \A q, r \in Procs : InLock(q)' /\ InLock(r)' => q = r
                /\ \A q \in Procs : (pc'[q] \in {"collects", "registers", "loops"}) => pidFile' = q
    BY <1>4, <1>6, <1>7, <1>8, <1>9, <1>12, <1>20 DEF Step
  <1>21. CASE \E p \in Procs : DataChanged(p) \/ HomeChanged(p) \/ Killed(p)
    BY <1>4, <1>9, <1>10, <1>13, <1>21
  <1>22. CASE \E s \in Services : MakeDir(s) \/ RemoveDir(s) \/ AddIgniter(s) \/ ProcessDies(s)
    BY <1>4, <1>17, <1>22
  <1>23. CASE \E p \in Procs, s \in Services : Obey(p, s) \/ BabySitterSlot(p, s)
    BY <1>4, <1>12, <1>23
  <1> QED
    BY <1>4, <1>11, <1>14, <1>15, <1>16, <1>18, <1>19, <1>20, <1>21, <1>22, <1>23 DEF Next

(* No two svdss processes work for one user, except after two launches     *)
(* between test and pid file or one during a graceful shutdown: the test   *)
(* of the pid file and its removal keep the others apart.                  *)
THEOREM SupervisorCorrect == Spec => []OneSupervisor
  <1>1. Init => LockKept
    BY DEF Init, LockKept, InLock
  <1>2. TypeOK /\ LockKept /\ [Next]_vars => LockKept'
    BY LockInductive
  <1>3. LockKept => OneSupervisor
    BY DEF LockKept, InLock, OneSupervisor, Works
  <1> QED
    BY <1>1, <1>2, <1>3, SpawnerTypeCorrect, PTL DEF Spec

-----------------------------------------------------------------------------
(* One process of each service.                                            *)

(* Only a svdss at work has jobs, and only the first of them can be the    *)
(* second half of a slot.                                                  *)
JobsInOrder ==
    \A p \in Procs :
        /\ jobs[p] # <<>> => Works(p)
        /\ \A i \in 2..Len(jobs[p]) : jobs[p][i].do \in {"watch", "start", "stop"}

(* Between its start and its mark a service is in the hands of one svdss;  *)
(* between its stop and the removal of the mark it has no process.         *)
ServicesKept ==
    Never({"together", "grace", "cut"}) =>
        /\ stray = {}
        /\ \A s \in named : s \in marked \/ \E p \in Procs : Doing(p, "mark", s)
        /\ \A p \in Procs, s \in Services : Doing(p, "unmark", s) => s \notin named

LEMMA OrderKept ==
    ASSUME TypeOK, JobsInOrder, NEW p \in Procs,
           \A q \in Procs : q # p => jobs'[q] = jobs[q] /\ pc'[q] = pc[q],
           jobs'[p] # <<>> => Works(p)',
           \A i \in 2..Len(jobs'[p]) : jobs'[p][i].do \in {"watch", "start", "stop"}
    PROVE  JobsInOrder'
  BY DEF JobsInOrder, Works

LEMMA OrderInductive ==
    ASSUME TypeOK, JobsInOrder, [Next]_vars
    PROVE  JobsInOrder'
  <1>1. /\ pc \in [Procs -> {"off", "reads", "writes", "collects", "registers", "loops", "stops"}]
        /\ jobs \in [Procs -> Seq(Job)]
    BY DEF TypeOK
  <1>2. /\ \A p \in Procs : jobs[p] # <<>> => Works(p)
        /\ \A p \in Procs : \A i \in 2..Len(jobs[p]) : jobs[p][i].do \in {"watch", "start", "stop"}
    BY DEF JobsInOrder
  <1>3. CASE UNCHANGED <<pc, jobs>>
    BY <1>2, <1>3 DEF JobsInOrder, Works
  <1>4. ASSUME NEW p \in Procs, LaunchAs(p) \/ TestLock(p) \/ WriteLock(p) \/ Register(p)
        PROVE  JobsInOrder'
    <2>1. UNCHANGED jobs /\ jobs[p] = <<>> /\ \E stage : GoTo(p, stage)
      BY <1>2, <1>4 DEF LaunchAs, TestLock, WriteLock, Register, Alive, Works, At
    <2> QED
      BY <1>1, <1>2, <2>1 DEF GoTo, JobsInOrder, Works
  <1>5. ASSUME NEW p \in Procs, Gone(p)
        PROVE  JobsInOrder'
    <2>1. jobs' = [jobs EXCEPT ![p] = <<>>] /\ pc' = [pc EXCEPT ![p] = "off"]
      BY <1>5 DEF Gone
    <2>2. Len(<<>>) = 0
      OBVIOUS
    <2> QED
      BY <1>1, <2>1, <2>2, OrderKept
  <1>6. ASSUME NEW p \in Procs, NEW do \in {"watch", "stop"}, NEW S \in SUBSET Services,
               jobs' = [jobs EXCEPT ![p] = ForEach(do, S)],
               UNCHANGED pc \/ GoTo(p, "registers") \/ GoTo(p, "stops"), Works(p)
        PROVE  JobsInOrder'
    <2> DEFINE new == ForEach(do, S)
    <2>1. new \in Seq(Job) /\ \A i \in 1..Len(new) : new[i].do = do
      BY ForEachList
    <2>2. jobs' = [jobs EXCEPT ![p] = new]
      BY <1>6
    <2> HIDE DEF new
    <2>3. Works(p)' /\ \A q \in Procs : q # p => pc'[q] = pc[q]
      BY <1>1, <1>6 DEF GoTo, Works
    <2>4. jobs'[p] = new /\ \A q \in Procs : q # p => jobs'[q] = jobs[q]
      BY <1>1, <2>2
    <2>5. Len(new) \in Nat
      BY <2>1
    <2>6. \A i \in 2..Len(jobs'[p]) : jobs'[p][i].do \in {"watch", "start", "stop"}
      BY <2>1, <2>4, <2>5
    <2> QED
      BY <2>3, <2>4, <2>6, OrderKept
  <1>7. ASSUME NEW p \in Procs, jobs[p] # <<>>, Return(p), UNCHANGED pc
        PROVE  JobsInOrder'
    <2>1. /\ \A q \in Procs : q # p => jobs'[q] = jobs[q]
          /\ Len(jobs'[p]) = Len(jobs[p]) - 1 /\ Len(jobs[p]) \in Nat
          /\ \A i \in 1..Len(jobs[p]) - 1 : jobs'[p][i] = jobs[p][i + 1]
      BY <1>7, ReturnType
    <2>2. ASSUME NEW i \in 2..Len(jobs'[p])
          PROVE  jobs'[p][i].do \in {"watch", "start", "stop"}
      <3>1. i \in 1..Len(jobs[p]) - 1 /\ i + 1 \in 2..Len(jobs[p])
        BY <2>1
      <3> QED
        BY <1>2, <2>1, <3>1
    <2>3. Works(p)'
      BY <1>2, <1>7 DEF Works
    <2> QED
      BY <1>7, <2>1, <2>2, <2>3, OrderKept
  <1>8. ASSUME NEW p \in Procs, NEW s \in Services, jobs[p] # <<>>, UNCHANGED pc,
               NEW do \in {"watch", "start", "mark", "stop", "unmark"}, Then(p, do, s)
        PROVE  JobsInOrder'
    <2>1. /\ \A q \in Procs : q # p => jobs'[q] = jobs[q]
          /\ Len(jobs'[p]) = Len(jobs[p])
          /\ \A i \in 2..Len(jobs[p]) : jobs'[p][i] = jobs[p][i]
      BY <1>8, ThenType
    <2>2. Works(p)'
      BY <1>2, <1>8 DEF Works
    <2> QED
      BY <1>2, <1>8, <2>1, <2>2, OrderKept
  <1>9. ASSUME NEW p \in Procs, NEW s \in Services,
               \/ Watch(p, s) \/ StartSlot(p, s) \/ StartDone(p, s) \/ StopSlot(p, s) \/ StopDone(p, s)
        PROVE  JobsInOrder'
    <2>1. jobs[p] # <<>> /\ UNCHANGED pc
      BY <1>9 DEF Watch, StartSlot, StartDone, StopSlot, StopDone, Doing
    <2>2. Return(p) \/ \E do \in {"watch", "start", "mark", "stop", "unmark"} : Then(p, do, s)
      BY <1>9 DEF Watch, StartSlot, StartDone, StopSlot, StopDone
    <2> QED
      BY <1>7, <1>8, <2>1, <2>2
  <1>10. ASSUME NEW p \in Procs, NEW s \in Services, Obey(p, s) \/ BabySitterSlot(p, s)
         PROVE  JobsInOrder'
    <2>1. pc[p] = "loops" /\ UNCHANGED pc
      BY <1>10 DEF Obey, BabySitterSlot, At
    <2> DEFINE stop == [do |-> "stop", service |-> s]  start == [do |-> "start", service |-> s]
    <2>2. \/ UNCHANGED jobs
          \/ \E new \in {<<>>, <<start>>, <<stop>>, <<stop, start>>} : jobs' = [jobs EXCEPT ![p] = new]
      BY <1>10 DEF Obey, BabySitterSlot
    <2>3. \A new \in {<<>>, <<start>>, <<stop>>, <<stop, start>>} :
            \A i \in 2..Len(new) : new[i].do \in {"watch", "start", "stop"}
      OBVIOUS
    <2> HIDE DEF start, stop
    <2>4. CASE \E new \in {<<>>, <<start>>, <<stop>>, <<stop, start>>} : jobs' = [jobs EXCEPT ![p] = new]
      <3>1. PICK new \in {<<>>, <<start>>, <<stop>>, <<stop, start>>} : jobs' = [jobs EXCEPT ![p] = new]
        BY <2>4
      <3>2. jobs'[p] = new /\ \A q \in Procs : q # p => jobs'[q] = jobs[q]
        BY <1>1, <3>1
      <3>3. Works(p)'
        BY <2>1 DEF Works
      <3> QED
        BY <2>1, <2>3, <3>2, <3>3, OrderKept
    <2> QED
      BY <1>3, <2>1, <2>2, <2>4
  <1>11. ASSUME NEW p \in Procs, Collect(p) \/ DataChanged(p)
         PROVE  JobsInOrder'
    <2>1. Works(p) /\ (UNCHANGED pc \/ GoTo(p, "registers"))
      BY <1>11 DEF Collect, DataChanged, At, Works
    <2>2. \E S \in SUBSET Services : jobs' = [jobs EXCEPT ![p] = ForEach("watch", S)]
      BY <1>11 DEF Collect, DataChanged, CollectServices, WatchAll, TypeOK
    <2> QED
      BY <1>6, <2>1, <2>2
  <1>12. ASSUME NEW p \in Procs, HomeChanged(p)
         PROVE  JobsInOrder'
    <2>1. Works(p) /\ watched[p] \in SUBSET Services
      BY <1>12 DEF HomeChanged, At, Works, TypeOK
    <2>2. \/ UNCHANGED <<pc, jobs>>
          \/ GoTo(p, "stops") /\ jobs' = [jobs EXCEPT ![p] = ForEach("stop", watched[p])]
          \/ Gone(p)
      BY <1>12 DEF HomeChanged
    <2> QED
      BY <1>3, <1>5, <1>6, <2>1, <2>2
  <1>13. ASSUME NEW p \in Procs, Exit(p) \/ Killed(p)
         PROVE  JobsInOrder'
    BY <1>5, <1>13 DEF Exit, Killed
  <1>14. CASE DamagePidFile \/ PidReused \/ (\E f \in {"shutdown", "shutdownGracefully"} : TouchControl(f))
    BY <1>3, <1>14 DEF DamagePidFile, PidReused, TouchControl
  <1>15. CASE \/ \E s \in Services, t \in {"start", "stop"} : Touch(s, t)
              \/ \E s \in Services : MakeDir(s) \/ RemoveDir(s) \/ AddIgniter(s) \/ ProcessDies(s)
    BY <1>3, <1>15 DEF Touch, MakeDir, RemoveDir, AddIgniter, ProcessDies
  <1>16. CASE UNCHANGED vars
    BY <1>3, <1>16 DEF vars
  <1>17. ASSUME NEW p \in Procs, Step(p)
         PROVE  JobsInOrder'
    BY <1>4, <1>9, <1>11, <1>13, <1>17 DEF Step
  <1>18. CASE Launch \/ LaunchAgain
    BY <1>4, <1>18 DEF Launch, LaunchAgain
  <1> QED
    BY <1>10, <1>11, <1>12, <1>13, <1>14, <1>15, <1>16, <1>17, <1>18 DEF Next

LEMMA NextJob ==
    ASSUME TypeOK, JobsInOrder, NEW p \in Procs, jobs[p] # <<>>, Return(p), NEW s \in Services
    PROVE  ~Doing(p, "mark", s)' /\ ~Doing(p, "unmark", s)'
  <1> SUFFICES ASSUME jobs'[p] # <<>>
               PROVE  Head(jobs'[p]).do \in {"watch", "start", "stop"}
    BY DEF Doing
  <1>1. /\ jobs' \in [Procs -> Seq(Job)]
        /\ Len(jobs'[p]) = Len(jobs[p]) - 1 /\ Len(jobs[p]) \in Nat
        /\ \A i \in 1..Len(jobs[p]) - 1 : jobs'[p][i] = jobs[p][i + 1]
    BY ReturnType
  <1>2. Head(jobs'[p]) = jobs'[p][1] /\ Len(jobs'[p]) >= 1
    BY <1>1, TailJobs
  <1>3. jobs'[p][1] = jobs[p][2] /\ 2 \in 2..Len(jobs[p])
    BY <1>1, <1>2
  <1> QED
    BY <1>2, <1>3 DEF JobsInOrder

LEMMA ThenJob ==
    ASSUME TypeOK, NEW p \in Procs, NEW s \in Services, jobs[p] # <<>>,
           NEW do \in {"watch", "start", "mark", "stop", "unmark"}, Then(p, do, s)
    PROVE  /\ \A q \in Procs : q # p => jobs'[q] = jobs[q]
           /\ \A x \in Services, d \in {"watch", "start", "mark", "stop", "unmark"} :
                Doing(p, d, x)' <=> d = do /\ x = s
  <1>1. /\ \A q \in Procs : q # p => jobs'[q] = jobs[q]
        /\ jobs'[p] # <<>> /\ Head(jobs'[p]) = [do |-> do, service |-> s]
    BY ThenType
  <1>2. ASSUME NEW x \in Services, NEW d \in {"watch", "start", "mark", "stop", "unmark"}
        PROVE  [do |-> do, service |-> s] = [do |-> d, service |-> x] <=> d = do /\ x = s
    <2> DEFINE a == [do |-> do, service |-> s]  b == [do |-> d, service |-> x]
    <2>1. a.do = do /\ a.service = s /\ b.do = d /\ b.service = x
      OBVIOUS
    <2> QED
      BY <2>1
  <1> QED
    BY <1>1, <1>2 DEF Doing

LEMMA OneHead ==
    ASSUME NEW p \in Procs, NEW s \in Services, NEW x \in Services,
           NEW do \in {"watch", "start", "mark", "stop", "unmark"},
           NEW d \in {"watch", "start", "mark", "stop", "unmark"},
           Doing(p, do, s), Doing(p, d, x)
    PROVE  d = do /\ x = s
  <1> DEFINE a == [do |-> do, service |-> s]  b == [do |-> d, service |-> x]
  <1>1. a.do = do /\ a.service = s /\ b.do = d /\ b.service = x
    OBVIOUS
  <1>2. a = b
    BY DEF Doing
  <1> QED
    BY <1>1, <1>2

LEMMA ServicesInductive ==
    ASSUME TypeOK, LockKept, JobsInOrder, ServicesKept, [Next]_vars
    PROVE  ServicesKept'
  <1> DEFINE Kept == /\ stray = {}
                     /\ \A s \in named : s \in marked \/ \E p \in Procs : Doing(p, "mark", s)
                     /\ \A p \in Procs, s \in Services : Doing(p, "unmark", s) => s \notin named
  <1> SUFFICES ASSUME Never({"together", "grace", "cut"})'
               PROVE  Kept'
    BY DEF ServicesKept
  <1>1. Never({"together", "grace", "cut"}) /\ Never({"together", "grace"})
    BY HappenedGrows DEF Never
  <1>2. /\ stray = {}
        /\ \A s \in named : s \in marked \/ \E p \in Procs : Doing(p, "mark", s)
        /\ \A p \in Procs, s \in Services : Doing(p, "unmark", s) => s \notin named
    BY <1>1 DEF ServicesKept
  <1>3. /\ jobs \in [Procs -> Seq(Job)] /\ named \subseteq Services
        /\ pc \in [Procs -> {"off", "reads", "writes", "collects", "registers", "loops", "stops"}]
    BY DEF TypeOK
  <1>4. ASSUME NEW p \in Procs, NEW q \in Procs, jobs[p] # <<>>, Works(q)
        PROVE  p = q
    BY <1>1, <1>4 DEF LockKept, JobsInOrder, InLock, Works
  <1> HIDE DEF Kept
  <1>5. CASE UNCHANGED <<jobs, service>>
    BY <1>2, <1>5 DEF Kept, Doing, service
  <1>6. ASSUME NEW p \in Procs, UNCHANGED service,
               \A s \in Services : ~Doing(p, "mark", s),
               \A q \in Procs : q # p => jobs'[q] = jobs[q],
               \A s \in Services : ~Doing(p, "mark", s)' /\ ~Doing(p, "unmark", s)'
        PROVE  Kept'
    BY <1>2, <1>3, <1>6 DEF Kept, Doing, service
  <1>7. ASSUME NEW p \in Procs, UNCHANGED service, jobs[p] = <<>>, NEW new \in Seq(Job),
               \A i \in 1..Len(new) : new[i].do \in {"watch", "start", "stop"},
               jobs' = [jobs EXCEPT ![p] = new]
        PROVE  Kept'
    <2>1. jobs'[p] = new /\ \A q \in Procs : q # p => jobs'[q] = jobs[q]
      BY <1>3, <1>7
    <2>2. new # <<>> => Head(new) = new[1] /\ 1 \in 1..Len(new)
      BY TailJobs, <1>7
    <2>3. \A s \in Services : ~Doing(p, "mark", s)' /\ ~Doing(p, "unmark", s)'
      BY <1>7, <2>1, <2>2 DEF Doing
    <2>4. \A s \in Services : ~Doing(p, "mark", s)
      BY <1>7 DEF Doing
    <2> QED
      BY <1>6, <1>7, <2>1, <2>3, <2>4
  <1>8. ASSUME NEW p \in Procs, NEW s \in Services, Watch(p, s)
        PROVE  Kept'
    <2>1. jobs[p] # <<>> /\ (\A x \in Services : ~Doing(p, "mark", x)) /\ UNCHANGED service
      BY <1>8 DEF Watch, Doing
    <2>2. Then(p, "start", s) \/ Return(p)
      BY <1>8 DEF Watch
    <2>3. CASE Then(p, "start", s)
      BY <1>6, <2>1, <2>3, ThenJob
    <2>4. CASE Return(p)
      BY <1>6, <2>1, <2>4, ReturnType, NextJob
    <2> QED
      BY <2>2, <2>3, <2>4
  <1>9. ASSUME NEW p \in Procs, NEW s \in Services, StartSlot(p, s)
        PROVE  Kept'
    <2>1. jobs[p] # <<>> /\ (\A x \in Services : ~Doing(p, "mark", x))
          /\ UNCHANGED marked
      BY <1>9 DEF StartSlot, Doing
    <2>2. CASE Return(p) /\ UNCHANGED <<named, stray>>
      BY <1>6, <2>1, <2>2, ReturnType, NextJob DEF service
    <2>3. CASE s \notin marked /\ named' = named \cup {s} /\ stray' = stray \cup (named \cap {s})
               /\ Then(p, "mark", s)
      <3>1. \A q \in Procs, x \in Services : ~Doing(q, "mark", x)
        <4>1. Works(p)
          BY <2>1 DEF JobsInOrder
        <4> QED
          BY <1>4, <2>1, <4>1 DEF Doing
      <3>2. s \notin named
        BY <1>2, <2>3, <3>1
      <3>3. Doing(p, "mark", s)' /\ (\A x \in Services : ~Doing(p, "unmark", x)')
            /\ \A q \in Procs : q # p => jobs'[q] = jobs[q]
        BY <2>1, <2>3, ThenJob
      <3>4. \A q \in Procs, x \in Services : ~Doing(q, "unmark", x)'
        <4>1. Works(p)
          BY <2>1 DEF JobsInOrder
        <4> QED
          BY <1>4, <3>3, <4>1 DEF Doing
      <3>5. \A x \in named : x \in marked
        BY <1>2, <1>3, <3>1
      <3> QED
        BY <1>2, <2>1, <2>3, <3>2, <3>3, <3>4, <3>5 DEF Kept
    <2> QED
      BY <1>9, <2>2, <2>3 DEF StartSlot
  <1>10. ASSUME NEW p \in Procs, NEW s \in Services, StartDone(p, s)
         PROVE  Kept'
    <2>1. jobs[p] # <<>> /\ Return(p) /\ Doing(p, "mark", s)
          /\ marked' = marked \cup {s} /\ UNCHANGED <<named, stray>>
      BY <1>10 DEF StartDone, Doing
    <2>2. Works(p)
      BY <2>1 DEF JobsInOrder
    <2>3. \A q \in Procs : q # p => jobs[q] = <<>>
      BY <1>4, <2>2
    <2>4. (\A q \in Procs : q # p => jobs'[q] = jobs[q])
          /\ \A x \in Services : ~Doing(p, "unmark", x)'
      BY <2>1, ReturnType, NextJob
    <2>5. \A q \in Procs, x \in Services : ~Doing(q, "unmark", x)'
      BY <2>3, <2>4 DEF Doing
    <2>6. \A x \in named : x \in marked'
      <3>1. ASSUME NEW x \in named, x \notin marked
            PROVE  x = s
        <4>1. PICK q \in Procs : Doing(q, "mark", x)
          BY <1>2, <3>1
        <4>2. q = p
          BY <2>3, <4>1 DEF Doing
        <4> QED
          BY <1>3, <2>1, <4>1, <4>2, OneHead
      <3> QED
        BY <2>1, <3>1
    <2> QED
      BY <1>2, <2>1, <2>5, <2>6 DEF Kept
  <1>11. ASSUME NEW p \in Procs, NEW s \in Services, StopSlot(p, s)
         PROVE  Kept'
    <2>1. jobs[p] # <<>> /\ (\A x \in Services : ~Doing(p, "mark", x))
          /\ UNCHANGED <<marked, stray>>
      BY <1>11 DEF StopSlot, Doing
    <2>2. CASE Return(p) /\ UNCHANGED named
      BY <1>6, <2>1, <2>2, ReturnType, NextJob DEF service
    <2>3. CASE named' = named \ {s} /\ Then(p, "unmark", s)
      <3>1. Works(p)
        BY <2>1 DEF JobsInOrder
      <3>2. \A q \in Procs : q # p => jobs[q] = <<>>
        BY <1>4, <3>1
      <3>3. (\A q \in Procs : q # p => jobs'[q] = jobs[q])
            /\ \A x \in Services : Doing(p, "unmark", x)' => x = s
        BY <2>1, <2>3, ThenJob
      <3>4. \A x \in named : x \in marked
        BY <1>2, <1>3, <2>1, <3>2 DEF Doing
      <3>5. \A q \in Procs, x \in Services : Doing(q, "unmark", x)' => x = s
        BY <3>2, <3>3 DEF Doing
      <3> QED
        BY <1>2, <2>1, <2>3, <3>4, <3>5 DEF Kept
    <2> QED
      BY <1>11, <2>2, <2>3 DEF StopSlot
  <1>12. ASSUME NEW p \in Procs, NEW s \in Services, StopDone(p, s)
         PROVE  Kept'
    <2>1. jobs[p] # <<>> /\ Return(p) /\ Doing(p, "unmark", s)
          /\ marked' = marked \ {s} /\ UNCHANGED <<named, stray>>
      BY <1>12 DEF StopDone, Doing
    <2>2. Works(p)
      BY <2>1 DEF JobsInOrder
    <2>3. \A q \in Procs : q # p => jobs[q] = <<>>
      BY <1>4, <2>2
    <2>4. (\A q \in Procs : q # p => jobs'[q] = jobs[q])
          /\ \A x \in Services : ~Doing(p, "unmark", x)'
      BY <2>1, ReturnType, NextJob
    <2>5. \A q \in Procs, x \in Services : ~Doing(q, "unmark", x)' /\ ~Doing(q, "mark", x)
      <3>1. \A x \in Services : ~Doing(p, "mark", x)
        BY <2>1, OneHead
      <3> QED
        BY <2>3, <2>4, <3>1 DEF Doing
    <2>6. \A x \in named : x \in marked'
      BY <1>2, <1>3, <2>1, <2>5
    <2> QED
      BY <1>2, <2>1, <2>5, <2>6 DEF Kept
  <1>13. ASSUME NEW p \in Procs, NEW s \in Services, Obey(p, s) \/ BabySitterSlot(p, s)
         PROVE  Kept'
    <2> DEFINE stop == [do |-> "stop", service |-> s]  start == [do |-> "start", service |-> s]
    <2>1. \/ UNCHANGED jobs
          \/ \E new \in {<<>>, <<start>>, <<stop>>, <<stop, start>>} : jobs' = [jobs EXCEPT ![p] = new]
      BY <1>13 DEF Obey, BabySitterSlot
    <2>2. \A new \in {<<>>, <<start>>, <<stop>>, <<stop, start>>} :
            new \in Seq(Job) /\ \A i \in 1..Len(new) : new[i].do \in {"watch", "start", "stop"}
      <3>1. start \in Job /\ stop \in Job /\ start.do = "start" /\ stop.do = "stop"
        BY DEF Job
      <3> HIDE DEF start, stop
      <3>2. <<>> \in Seq(Job) /\ Len(<<>>) = 0
        OBVIOUS
      <3>3. \A j \in {start, stop} : <<j>> \in Seq(Job) /\ Len(<<j>>) = 1 /\ <<j>>[1] = j
        BY <3>1
      <3>4. /\ <<stop, start>> \in Seq(Job) /\ Len(<<stop, start>>) = 2
            /\ <<stop, start>>[1] = stop /\ <<stop, start>>[2] = start
        BY <3>1
      <3>5. ASSUME NEW j \in {start, stop}
            PROVE  \A i \in 1..Len(<<j>>) : <<j>>[i].do \in {"watch", "start", "stop"}
        BY <3>1, <3>3
      <3>6. \A i \in 1..2 : i = 1 \/ i = 2
        OBVIOUS
      <3>7. \A i \in 1..Len(<<stop, start>>) : <<stop, start>>[i].do \in {"watch", "start", "stop"}
        BY <3>1, <3>4, <3>6
      <3>8. \A i \in 1..Len(<<>>) : <<>>[i].do \in {"watch", "start", "stop"}
        BY <3>2
      <3>9. ASSUME NEW new \in {<<>>, <<start>>, <<stop>>, <<stop, start>>}
            PROVE  new \in Seq(Job) /\ \A i \in 1..Len(new) : new[i].do \in {"watch", "start", "stop"}
        <4>1. CASE new = <<>>
          BY <3>2, <3>8, <4>1
        <4>2. CASE new = <<start>>
          BY <3>3, <3>5, <4>2
        <4>3. CASE new = <<stop>>
          BY <3>3, <3>5, <4>3
        <4>4. CASE new = <<stop, start>>
          BY <3>4, <3>7, <4>4
        <4> QED
          BY <3>9, <4>1, <4>2, <4>3, <4>4
      <3> QED
        BY <3>9
    <2>3. jobs[p] = <<>> /\ UNCHANGED service
      BY <1>13 DEF Obey, BabySitterSlot, At
    <2> HIDE DEF start, stop
    <2> QED
      BY <1>5, <1>7, <2>1, <2>2, <2>3
  <1>14. ASSUME NEW p \in Procs, NEW do \in {"watch", "stop"}, NEW S \in SUBSET Services,
                jobs[p] = <<>>, jobs' = [jobs EXCEPT ![p] = ForEach(do, S)], UNCHANGED service
         PROVE  Kept'
    <2> DEFINE new == ForEach(do, S)
    <2>1. new \in Seq(Job) /\ \A i \in 1..Len(new) : new[i].do \in {"watch", "start", "stop"}
      BY ForEachList
    <2>2. jobs' = [jobs EXCEPT ![p] = new]
      BY <1>14
    <2> HIDE DEF new
    <2> QED
      BY <1>7, <1>14, <2>1, <2>2
  <1>15. ASSUME NEW p \in Procs, Collect(p) \/ DataChanged(p)
         PROVE  Kept'
    <2>1. jobs[p] = <<>> /\ UNCHANGED service
      BY <1>15 DEF Collect, DataChanged, At
    <2>2. \E S \in SUBSET Services : jobs' = [jobs EXCEPT ![p] = ForEach("watch", S)]
      BY <1>15 DEF Collect, DataChanged, CollectServices, WatchAll, TypeOK
    <2> QED
      BY <1>14, <2>1, <2>2
  <1>16. ASSUME NEW p \in Procs, Gone(p), UNCHANGED service,
                \A s \in Services : ~Doing(p, "mark", s)
         PROVE  Kept'
    <2>1. jobs'[p] = <<>> /\ \A q \in Procs : q # p => jobs'[q] = jobs[q]
      BY <1>3, <1>16 DEF Gone
    <2> QED
      BY <1>6, <1>16, <2>1 DEF Doing
  <1>17. ASSUME NEW p \in Procs, Exit(p) \/ Killed(p)
         PROVE  Kept'
    <2>1. Gone(p) /\ UNCHANGED service
      BY <1>17 DEF Exit, Killed
    <2>2. \A s \in Services : ~Doing(p, "mark", s)
      <3>1. CASE Exit(p)
        BY <3>1 DEF Exit, At, Doing
      <3>2. CASE Killed(p)
        <4>1. "cut" \notin happened'
          BY DEF Never
        <4> QED
          BY <3>2, <4>1 DEF Killed, Happens
      <3> QED
        BY <1>17, <3>1, <3>2
    <2> QED
      BY <1>16, <2>1, <2>2
  <1>18. ASSUME NEW p \in Procs, HomeChanged(p)
         PROVE  Kept'
    <2>1. jobs[p] = <<>> /\ UNCHANGED service /\ watched[p] \in SUBSET Services
          /\ \A s \in Services : ~Doing(p, "mark", s)
      BY <1>18 DEF HomeChanged, At, TypeOK, Doing
    <2>2. \/ UNCHANGED jobs
          \/ jobs' = [jobs EXCEPT ![p] = ForEach("stop", watched[p])]
          \/ Gone(p)
      BY <1>18 DEF HomeChanged
    <2> QED
      BY <1>5, <1>14, <1>16, <2>1, <2>2
  <1>19. ASSUME NEW s \in Services, ProcessDies(s)
         PROVE  Kept'
    BY <1>2, <1>19 DEF ProcessDies, Kept, Doing
  <1>20. CASE \/ Launch \/ LaunchAgain \/ DamagePidFile \/ PidReused
              \/ \E f \in {"shutdown", "shutdownGracefully"} : TouchControl(f)
    BY <1>5, <1>20 DEF Launch, LaunchAgain, LaunchAs, DamagePidFile, PidReused, TouchControl
  <1>21. CASE \/ \E s \in Services, t \in {"start", "stop"} : Touch(s, t)
              \/ \E s \in Services : MakeDir(s) \/ RemoveDir(s) \/ AddIgniter(s)
    BY <1>5, <1>21 DEF Touch, MakeDir, RemoveDir, AddIgniter
  <1>22. CASE UNCHANGED vars
    BY <1>5, <1>22 DEF vars
  <1>23. ASSUME NEW p \in Procs, TestLock(p) \/ WriteLock(p) \/ Register(p)
         PROVE  Kept'
    BY <1>5, <1>23 DEF TestLock, WriteLock, Register
  <1>24. ASSUME NEW p \in Procs, Step(p)
         PROVE  Kept'
    BY <1>8, <1>9, <1>10, <1>11, <1>12, <1>15, <1>17, <1>23, <1>24 DEF Step
  <1> QED
    BY <1>13, <1>15, <1>17, <1>18, <1>19, <1>20, <1>21, <1>22, <1>24 DEF Next

(* A service never has a second process, because a svdss that starts it    *)
(* holds it until it is marked, and no other svdss works meanwhile; a kill *)
(* between start hook and mark is the exception.                           *)
THEOREM ProcessCorrect == Spec => []OneProcess
  <1>1. Init => LockKept /\ JobsInOrder /\ ServicesKept
    BY DEF Init, LockKept, InLock, JobsInOrder, ServicesKept, Doing
  <1>2. TypeOK /\ LockKept /\ JobsInOrder /\ ServicesKept /\ [Next]_vars
        => LockKept' /\ JobsInOrder' /\ ServicesKept'
    BY LockInductive, OrderInductive, ServicesInductive
  <1>3. ServicesKept => OneProcess
    BY DEF ServicesKept, OneProcess
  <1> QED
    BY <1>1, <1>2, <1>3, SpawnerTypeCorrect, PTL DEF Spec

-----------------------------------------------------------------------------
(* Every service directory is listened to.                                 *)

Pending(p, s) == \E i \in 1..Len(jobs[p]) : jobs[p][i] = [do |-> "watch", service |-> s]

(* The list of services is that of the directories, unless svdss has yet   *)
(* to look; what is on the list and has an igniter is listened to or about *)
(* to be.                                                                  *)
ListKept ==
    Never({"late", "swap", "boot"}) =>
        \A p \in Procs :
            /\ pc[p] \in {"off", "reads", "writes", "collects"} => known[p] = {}
            /\ pc[p] = "registers" => known[p] = dirs
            /\ Listens(p) /\ "data" \notin news[p] => known[p] = dirs
            /\ \A s \in known[p] \cap dirs \cap igniters : s \in heard[p] \/ Pending(p, s)

LEMMA PendingReturn ==
    ASSUME TypeOK, NEW p \in Procs, NEW s \in Services, jobs[p] # <<>>, Return(p),
           ~Doing(p, "watch", s), Pending(p, s)
    PROVE  Pending(p, s)'
  <1>1. /\ jobs' \in [Procs -> Seq(Job)] /\ jobs[p] \in Seq(Job)
        /\ Len(jobs'[p]) = Len(jobs[p]) - 1 /\ Len(jobs[p]) \in Nat
        /\ \A i \in 1..Len(jobs[p]) - 1 : jobs'[p][i] = jobs[p][i + 1]
    BY ReturnType DEF TypeOK
  <1>2. PICK i \in 1..Len(jobs[p]) : jobs[p][i] = [do |-> "watch", service |-> s]
    BY DEF Pending
  <1>3. Head(jobs[p]) = jobs[p][1]
    BY <1>1, TailJobs
  <1>4. i # 1
    BY <1>2, <1>3 DEF Doing
  <1> DEFINE k == i - 1
  <1>5. k \in 1..Len(jobs[p]) - 1 /\ k + 1 = i
    BY <1>1, <1>2, <1>4
  <1> HIDE DEF k
  <1>6. jobs'[p][k] = jobs[p][i] /\ k \in 1..Len(jobs'[p])
    BY <1>1, <1>5
  <1> QED
    BY <1>2, <1>6 DEF Pending

LEMMA PendingThen ==
    ASSUME TypeOK, NEW p \in Procs, NEW s \in Services, jobs[p] # <<>>, NEW x \in Services,
           NEW do \in {"watch", "start", "mark", "stop", "unmark"}, Then(p, do, x),
           ~Doing(p, "watch", s), Pending(p, s)
    PROVE  Pending(p, s)'
  <1>0. jobs[p] \in Seq(Job)
    BY DEF TypeOK
  <1>1. /\ Len(jobs'[p]) = Len(jobs[p]) /\ jobs[p] \in Seq(Job)
        /\ \A i \in 2..Len(jobs[p]) : jobs'[p][i] = jobs[p][i]
    BY <1>0, ThenType
  <1>2. PICK i \in 1..Len(jobs[p]) : jobs[p][i] = [do |-> "watch", service |-> s]
    BY DEF Pending
  <1>3. Head(jobs[p]) = jobs[p][1] /\ Len(jobs[p]) \in Nat
    BY <1>1, TailJobs
  <1>4. i # 1
    BY <1>2, <1>3 DEF Doing
  <1>5. i \in 2..Len(jobs[p])
    BY <1>2, <1>3, <1>4
  <1> QED
    BY <1>1, <1>2, <1>5 DEF Pending

(* What the list says of one svdss; the step of another disturbs it only   *)
(* through directories and igniters.                                       *)
ListOf(p) ==
    /\ pc[p] \in {"off", "reads", "writes", "collects"} => known[p] = {}
    /\ pc[p] = "registers" => known[p] = dirs
    /\ Listens(p) /\ "data" \notin news[p] => known[p] = dirs
    /\ \A s \in known[p] \cap dirs \cap igniters : s \in heard[p] \/ Pending(p, s)

LEMMA ListInductive ==
    ASSUME TypeOK, ListKept, [Next]_vars
    PROVE  ListKept'
  <1> SUFFICES ASSUME Never({"late", "swap", "boot"})'
               PROVE  \A p \in Procs : ListOf(p)'
    BY DEF ListKept, ListOf
  <1>1. Never({"late", "swap", "boot"})
    BY HappenedGrows DEF Never
  <1>2. \A p \in Procs : ListOf(p)
    BY <1>1 DEF ListKept, ListOf
  <1>3. /\ pc \in [Procs -> {"off", "reads", "writes", "collects", "registers", "loops", "stops"}]
        /\ jobs \in [Procs -> Seq(Job)] /\ dirs \subseteq Services
        /\ known \in [Procs -> SUBSET Services] /\ heard \in [Procs -> SUBSET Services]
        /\ news \in [Procs -> SUBSET {"home", "data"}]
    BY DEF TypeOK
  <1>4. ASSUME NEW p \in Procs, jobs[p] = <<>>, NEW s \in Services
        PROVE  ~Pending(p, s)
    <2>1. Len(<<>>) = 0
      OBVIOUS
    <2> QED
      BY <1>4, <2>1 DEF Pending
  <1> DEFINE Quiet(p) == /\ pc'[p] = pc[p] /\ known'[p] = known[p] /\ heard'[p] = heard[p]
                         /\ jobs'[p] = jobs[p]
                         /\ "data" \in news[p] => "data" \in news'[p]
  <1>5. ASSUME NEW p \in Procs, Quiet(p), UNCHANGED <<dirs, igniters>>
        PROVE  ListOf(p)'
    BY <1>2, <1>5 DEF ListOf, Listens, Pending
  <1>6. ASSUME NEW p \in Procs, LaunchAs(p) \/ TestLock(p) \/ WriteLock(p)
        PROVE  \A q \in Procs : ListOf(q)'
    <2>1. /\ pc[p] \in {"off", "reads", "writes"}
          /\ \E stage \in {"off", "reads", "writes", "collects"} : GoTo(p, stage)
          /\ UNCHANGED <<jobs, memory, disk>>
      BY <1>6 DEF LaunchAs, TestLock, WriteLock, Alive
    <2>2. \A q \in Procs : "data" \in news[q] => "data" \in news'[q]
      BY <1>3, <1>6 DEF LaunchAs, TestLock, WriteLock, Changed, ears
    <2>3. \A q \in Procs : q # p => ListOf(q)'
      BY <1>3, <1>5, <2>1, <2>2 DEF GoTo, memory, disk
    <2>4. pc'[p] \in {"off", "reads", "writes", "collects"}
      BY <1>3, <2>1 DEF GoTo
    <2>5. known'[p] = {}
      BY <1>2, <2>1 DEF ListOf, memory
    <2> QED
      BY <2>3, <2>4, <2>5 DEF ListOf, Listens
  <1>7. ASSUME NEW p \in Procs, Gone(p), UNCHANGED disk,
               \A q \in Procs : q # p => ("data" \in news[q] => "data" \in news'[q])
        PROVE  \A q \in Procs : ListOf(q)'
    <2>1. \A q \in Procs : q # p => ListOf(q)'
      BY <1>3, <1>5, <1>7 DEF Gone, disk
    <2>2. pc'[p] = "off" /\ known'[p] = {}
      BY <1>3, <1>7 DEF Gone
    <2> QED
      BY <2>1, <2>2 DEF ListOf, Listens
  <1>8. ASSUME NEW p \in Procs, NEW S, S = (dirs \cap igniters) \ known[p],
               jobs[p] = <<>>, jobs' = [jobs EXCEPT ![p] = ForEach("watch", S)],
               known' = [known EXCEPT ![p] = dirs], UNCHANGED <<disk, heard>>,
               pc'[p] \in {"registers", "loops"},
               \A q \in Procs : q # p => /\ pc'[q] = pc[q]
                                         /\ "data" \in news[q] => "data" \in news'[q]
        PROVE  \A q \in Procs : ListOf(q)'
    <2>1. \A q \in Procs : q # p => ListOf(q)'
      BY <1>3, <1>5, <1>8 DEF disk
    <2>2. known'[p] = dirs' /\ dirs' = dirs
      BY <1>3, <1>8 DEF disk
    <2>3. ASSUME NEW s \in dirs \cap igniters, s \notin heard[p]
          PROVE  Pending(p, s)'
      <3>1. s \in S /\ S \in SUBSET Services
        BY <1>2, <1>3, <1>4, <1>8, <2>3 DEF ListOf
      <3> DEFINE new == ForEach("watch", S)
      <3>2. \E i \in 1..Len(new) : new[i] = [do |-> "watch", service |-> s]
        BY <3>1, ForEachList
      <3>3. jobs' = [jobs EXCEPT ![p] = new]
        BY <1>8
      <3> HIDE DEF new
      <3>4. jobs'[p] = new
        BY <1>3, <3>3
      <3> QED
        BY <3>2, <3>4 DEF Pending
    <2>4. \A s \in known'[p] \cap dirs' \cap igniters' : s \in heard'[p] \/ Pending(p, s)'
      BY <1>8, <2>2, <2>3 DEF disk
    <2> QED
      BY <1>8, <2>1, <2>2, <2>4 DEF ListOf
  <1>9. ASSUME NEW p \in Procs, Collect(p)
        PROVE  \A q \in Procs : ListOf(q)'
    BY <1>3, <1>8, <1>9 DEF Collect, At, GoTo, CollectServices, WatchAll, ears
  <1>10. ASSUME NEW p \in Procs, DataChanged(p)
         PROVE  \A q \in Procs : ListOf(q)'
    <2>1. news' = [news EXCEPT ![p] = @ \ {"data"}] /\ UNCHANGED pc
          /\ pc[p] = "loops" /\ jobs[p] = <<>>
      BY <1>10 DEF DataChanged, At
    <2> QED
      BY <1>3, <1>8, <1>10, <2>1 DEF DataChanged, CollectServices, WatchAll
  <1>11. ASSUME NEW p \in Procs, Register(p)
         PROVE  \A q \in Procs : ListOf(q)'
    <2>1. pc[p] = "registers" /\ GoTo(p, "loops") /\ UNCHANGED <<jobs, memory, news, disk>>
      BY <1>11 DEF Register, At
    <2>2. \A q \in Procs : q # p => ListOf(q)'
      BY <1>3, <1>5, <2>1 DEF GoTo, memory, disk
    <2>3. pc'[p] = "loops"
      BY <1>3, <2>1 DEF GoTo
    <2>4. ListOf(p)
      BY <1>2
    <2> QED
      BY <2>1, <2>2, <2>3, <2>4 DEF ListOf, Listens, Pending, memory, disk
  <1>12. ASSUME NEW p \in Procs, jobs[p] # <<>>, UNCHANGED <<pc, known, heard, news, dirs, igniters>>,
                Return(p) \/ \E s \in Services, do \in {"start", "mark", "unmark"} : Then(p, do, s),
                \A s \in Services : ~Doing(p, "watch", s)
         PROVE  \A q \in Procs : ListOf(q)'
    <2>1. \A q \in Procs : q # p => jobs'[q] = jobs[q]
      BY <1>12, ReturnType, ThenType
    <2>2. \A q \in Procs : q # p => ListOf(q)'
      BY <1>5, <1>12, <2>1
    <2>3. \A s \in Services : Pending(p, s) => Pending(p, s)'
      BY <1>12, PendingReturn, PendingThen
    <2>4. ListOf(p)
      BY <1>2
    <2> QED
      BY <1>3, <1>12, <2>2, <2>3, <2>4 DEF ListOf, Listens
  <1>13. ASSUME NEW p \in Procs, NEW s \in Services,
                StartSlot(p, s) \/ StartDone(p, s) \/ StopSlot(p, s) \/ StopDone(p, s)
         PROVE  \A q \in Procs : ListOf(q)'
    <2>1. \E do \in {"start", "mark", "stop", "unmark"} : Doing(p, do, s)
      BY <1>13 DEF StartSlot, StartDone, StopSlot, StopDone
    <2>2. jobs[p] # <<>> /\ \A x \in Services : ~Doing(p, "watch", x)
      BY <2>1, OneHead DEF Doing
    <2>3. UNCHANGED <<pc, known, heard, news, dirs, igniters>>
      BY <1>13 DEF StartSlot, StartDone, StopSlot, StopDone, memory, ears, disk
    <2>4. Return(p) \/ \E do \in {"start", "mark", "unmark"} : Then(p, do, s)
      BY <1>13 DEF StartSlot, StartDone, StopSlot, StopDone
    <2> QED
      BY <1>12, <2>2, <2>3, <2>4
  <1>14. ASSUME NEW p \in Procs, NEW s \in Services, Watch(p, s)
         PROVE  \A q \in Procs : ListOf(q)'
    <2>1. /\ Doing(p, "watch", s) /\ jobs[p] # <<>>
          /\ heard' = [heard EXCEPT ![p] = @ \cup {s}] /\ dirs' = dirs \cup {s}
          /\ Then(p, "start", s) \/ Return(p)
          /\ UNCHANGED <<pc, known, igniters>>
      BY <1>14 DEF Watch, Doing
    <2>2. /\ \A q \in Procs : q # p => jobs'[q] = jobs[q]
          /\ \A x \in Services : x # s /\ Pending(p, x) => Pending(p, x)'
      <3>1. \A x \in Services : x # s => ~Doing(p, "watch", x)
        BY <2>1, OneHead
      <3> QED
        BY <2>1, <3>1, ThenType, ReturnType, PendingThen, PendingReturn
    <2>3. CASE s \in dirs
      <3>1. UNCHANGED <<news, dirs>>
        BY <1>14, <2>1, <2>3 DEF Watch
      <3>2. \A q \in Procs : q # p => ListOf(q)'
        BY <1>3, <1>5, <2>1, <2>2, <3>1
      <3>3. ListOf(p) /\ heard'[p] = heard[p] \cup {s}
        BY <1>2, <1>3, <2>1
      <3> QED
        BY <1>3, <2>1, <2>2, <3>1, <3>2, <3>3 DEF ListOf, Listens
    <2>4. CASE s \notin dirs
      <3>1. /\ Changed("data")
            /\ Happens({k \in {"boot"} : \E q \in Procs : pc[q] = "registers"}
                       \cup {k \in {"swap"} : \E q \in Procs \ {p} : Unseen(q, s)})
        BY <1>14, <2>4 DEF Watch
      <3>2. \A q \in Procs : pc[q] # "registers" /\ (q # p => ~Unseen(q, s))
        BY <3>1 DEF Happens, Never
      <3>3. \A q \in Procs : Listens(q) => "data" \in news'[q]
        BY <3>1 DEF Changed
      <3>4. ASSUME NEW q \in Procs, q # p
            PROVE  s \notin known[q]
        <4>1. ListOf(q) /\ ~Unseen(q, s)
          BY <1>2, <3>2, <3>4
        <4> QED
          BY <1>3, <2>4, <3>2, <4>1 DEF ListOf, Unseen, Listens
      <3>5. ASSUME NEW q \in Procs, q # p
            PROVE  ListOf(q)'
        <4>1. ListOf(q) /\ heard'[q] = heard[q] /\ jobs'[q] = jobs[q]
          BY <1>2, <1>3, <2>1, <2>2, <3>5
        <4> QED
          BY <2>1, <3>2, <3>3, <3>4, <3>5, <4>1 DEF ListOf, Listens, Pending
      <3>6. ListOf(p) /\ heard'[p] = heard[p] \cup {s}
        BY <1>2, <1>3, <2>1
      <3>7. ListOf(p)'
        BY <1>3, <2>1, <2>2, <3>2, <3>3, <3>6 DEF ListOf, Listens
      <3> QED
        BY <3>5, <3>7
    <2> QED
      BY <2>3, <2>4
  <1>15. ASSUME NEW p \in Procs, jobs[p] = <<>>, \A q \in Procs : q # p => jobs'[q] = jobs[q],
                \/ UNCHANGED pc
                \/ pc[p] = "loops" /\ GoTo(p, "stops"),
                UNCHANGED <<known, heard, dirs, igniters>>,
                \A q \in Procs : "data" \in news[q] => "data" \in news'[q]
         PROVE  \A q \in Procs : ListOf(q)'
    <2>1. \A q \in Procs : q # p => ListOf(q)'
      BY <1>3, <1>5, <1>15 DEF GoTo
    <2>2. ListOf(p) /\ \A s \in Services : ~Pending(p, s)
      BY <1>2, <1>4, <1>15
    <2>3. pc'[p] = pc[p] \/ (pc[p] = "loops" /\ pc'[p] = "stops")
      BY <1>3, <1>15 DEF GoTo
    <2> QED
      BY <1>3, <1>15, <2>1, <2>2, <2>3 DEF ListOf, Listens
  <1>16. ASSUME NEW p \in Procs, NEW s \in Services, Obey(p, s) \/ BabySitterSlot(p, s)
         PROVE  \A q \in Procs : ListOf(q)'
    <2>1. jobs[p] = <<>> /\ UNCHANGED <<pc, known, heard, dirs, igniters, news>>
      BY <1>16 DEF Obey, BabySitterSlot, At, memory, ears, disk
    <2>2. \A q \in Procs : q # p => jobs'[q] = jobs[q]
      BY <1>3, <1>16 DEF Obey, BabySitterSlot
    <2> QED
      BY <1>15, <2>1, <2>2
  <1>17. ASSUME NEW p \in Procs, HomeChanged(p)
         PROVE  \A q \in Procs : ListOf(q)'
    <2>1. jobs[p] = <<>> /\ pc[p] = "loops" /\ UNCHANGED disk
      BY <1>17 DEF HomeChanged, At
    <2>2. \A q \in Procs : q # p => ("data" \in news[q] => "data" \in news'[q])
      BY <1>3, <1>17 DEF HomeChanged, Changed, Deaf
    <2>3. CASE Gone(p)
      BY <1>7, <2>1, <2>2, <2>3
    <2>4. CASE /\ UNCHANGED memory
               /\ \/ UNCHANGED <<pc, jobs>> /\ news' = [news EXCEPT ![p] = @ \ {"home"}]
                  \/ /\ Changed("home") /\ GoTo(p, "stops")
                     /\ \E new : jobs' = [jobs EXCEPT ![p] = new]
      <3>1. \A q \in Procs : "data" \in news[q] => "data" \in news'[q]
        BY <1>3, <2>4 DEF Changed
      <3>2. \A q \in Procs : q # p => jobs'[q] = jobs[q]
        BY <1>3, <2>4
      <3> QED
        BY <1>15, <2>1, <2>4, <3>1, <3>2 DEF memory, disk
    <2> QED
      BY <1>17, <2>3, <2>4 DEF HomeChanged
  <1>18. ASSUME NEW p \in Procs, Exit(p) \/ Killed(p)
         PROVE  \A q \in Procs : ListOf(q)'
    <2>1. Gone(p) /\ UNCHANGED disk /\ news' = [news EXCEPT ![p] = {}]
      BY <1>18 DEF Exit, Killed, Deaf
    <2> QED
      BY <1>3, <1>7, <2>1
  <1>19. ASSUME NEW s \in Services, MakeDir(s)
         PROVE  \A q \in Procs : ListOf(q)'
    <2>1. /\ s \notin dirs /\ dirs' = dirs \cup {s} /\ Changed("data")
          /\ UNCHANGED <<pc, jobs, memory, igniters>>
          /\ Happens({k \in {"swap"} : \E q \in Procs : Unseen(q, s)}
                     \cup {k \in {"boot"} : \E q \in Procs : pc[q] = "registers"})
      BY <1>19 DEF MakeDir
    <2>2. \A q \in Procs : pc[q] # "registers" /\ ~Unseen(q, s)
      BY <2>1 DEF Happens, Never
    <2>3. \A q \in Procs : Listens(q) => "data" \in news'[q]
      BY <2>1 DEF Changed
    <2>4. ASSUME NEW q \in Procs
          PROVE  ListOf(q)'
      <3>1. ListOf(q) /\ ~Unseen(q, s)
        BY <1>2, <2>2
      <3>2. s \notin known[q]
        BY <1>3, <2>1, <2>2, <3>1 DEF ListOf, Unseen, Listens
      <3> QED
        BY <2>1, <2>2, <2>3, <3>1, <3>2 DEF ListOf, Listens, Pending, memory
    <2> QED
      BY <2>4
  <1>20. ASSUME NEW s \in Services, RemoveDir(s)
         PROVE  \A q \in Procs : ListOf(q)'
    <2>1. /\ dirs' = dirs \ {s} /\ Changed("data")
          /\ heard' = [p \in Procs |-> heard[p] \ {s}]
          /\ UNCHANGED <<pc, jobs, known, igniters>>
          /\ Happens({k \in {"boot"} : \E p \in Procs : pc[p] = "registers"})
      BY <1>20 DEF RemoveDir
    <2>2. \A q \in Procs : pc[q] # "registers"
      BY <2>1 DEF Happens, Never
    <2>3. \A q \in Procs : Listens(q) => "data" \in news'[q]
      BY <2>1 DEF Changed
    <2>4. ASSUME NEW q \in Procs
          PROVE  ListOf(q)'
      <3>1. ListOf(q) /\ heard'[q] = heard[q] \ {s}
        BY <1>2, <2>1
      <3> QED
        BY <2>1, <2>2, <2>3, <3>1 DEF ListOf, Listens, Pending
    <2> QED
      BY <2>4
  <1>21. ASSUME NEW s \in Services, AddIgniter(s)
         PROVE  \A q \in Procs : ListOf(q)'
    <2>1. /\ igniters' = igniters \cup {s} /\ UNCHANGED <<pc, jobs, memory, ears, dirs>>
          /\ Happens({k \in {"late"} : \E p \in Procs : s \in known[p]})
      BY <1>21 DEF AddIgniter
    <2>2. \A q \in Procs : s \notin known[q]
      BY <2>1 DEF Happens, Never
    <2>3. ASSUME NEW q \in Procs
          PROVE  ListOf(q)'
      <3>1. ListOf(q)
        BY <1>2
      <3> QED
        BY <2>1, <2>2, <3>1 DEF ListOf, Listens, Pending, memory, ears
    <2> QED
      BY <2>3
  <1>22. ASSUME UNCHANGED <<pc, jobs, memory, dirs, igniters>>,
                \A q \in Procs : "data" \in news[q] => "data" \in news'[q]
         PROVE  \A q \in Procs : ListOf(q)'
    BY <1>5, <1>22 DEF memory
  <1>23. ASSUME NEW s \in Services, NEW t, Touch(s, t) \/ ProcessDies(s)
         PROVE  \A q \in Procs : ListOf(q)'
    BY <1>22, <1>23 DEF Touch, ProcessDies, memory, ears, disk
  <1>24. CASE DamagePidFile \/ PidReused \/ UNCHANGED vars
    BY <1>22, <1>24 DEF DamagePidFile, PidReused, vars, memory, ears, disk
  <1>25. ASSUME NEW f, TouchControl(f)
         PROVE  \A q \in Procs : ListOf(q)'
    BY <1>3, <1>22, <1>25 DEF TouchControl, Changed, disk
  <1>26. ASSUME NEW p \in Procs, Step(p)
         PROVE  \A q \in Procs : ListOf(q)'
    BY <1>6, <1>9, <1>11, <1>13, <1>14, <1>18, <1>26 DEF Step
  <1>27. CASE Launch \/ LaunchAgain
    BY <1>6, <1>27 DEF Launch, LaunchAgain
  <1> QED
    BY <1>10, <1>16, <1>17, <1>18, <1>19, <1>20, <1>21, <1>23, <1>24, <1>25, <1>26, <1>27 DEF Next

(* At its loop, with nothing left to look at, svdss listens to every       *)
(* service directory with an igniter, except after the events that         *)
(* ServicesHeard names.                                                    *)
THEOREM HeardCorrect == Spec => []ServicesHeard
  <1>1. Init => ListKept
    BY DEF Init, ListKept, Listens
  <1>2. TypeOK /\ ListKept /\ [Next]_vars => ListKept'
    BY ListInductive
  <1>3. TypeOK /\ ListKept => ServicesHeard
    <2> SUFFICES ASSUME TypeOK, ListKept, Never({"late", "swap", "boot"}),
                        NEW p \in Procs, At(p, "loops"), "data" \notin news[p]
                 PROVE  dirs \cap igniters \subseteq heard[p]
      BY DEF ServicesHeard
    <2>1. jobs[p] = <<>> /\ pc[p] = "loops"
      BY DEF At
    <2>2. \A s : ~Pending(p, s)
      <3>1. Len(<<>>) = 0
        OBVIOUS
      <3> QED
        BY <2>1, <3>1 DEF Pending
    <2>3. known[p] = dirs
      BY <2>1 DEF ListKept, Listens
    <2> QED
      BY <2>2, <2>3 DEF ListKept
  <1> QED
    BY <1>1, <1>2, <1>3, SpawnerTypeCorrect, PTL DEF Spec

-----------------------------------------------------------------------------
(* No trigger lies unnoticed.                                              *)

(* A trigger lies in a directory; a svdss at its loop has noticed it, or   *)
(* its service had no igniter when svdss made its list.                    *)
TriggersKept ==
    /\ \A t \in triggers : t[1] \in dirs
    /\ Never({"late", "swap", "boot", "early"}) =>
         \A p \in Procs : Listens(p) =>
           \A t \in triggers : t[1] \in noticed[p] \/ t[1] \in known[p] \ igniters

LEMMA TriggersInductive ==
    ASSUME TypeOK, ListKept, TriggersKept, [Next]_vars
    PROVE  TriggersKept'
  <1> DEFINE Rested == \A t \in triggers : t[1] \in dirs
             Waits(p) == Listens(p) =>
                           \A t \in triggers : t[1] \in noticed[p] \/ t[1] \in known[p] \ igniters
             Calm == Never({"late", "swap", "boot", "early"})
  <1>1. Calm' => Calm /\ Never({"late", "swap", "boot"}) /\ \A k \in {"late", "early"} : k \notin happened'
    BY HappenedGrows DEF Never
  <1>2. Rested /\ (Calm => \A p \in Procs : Waits(p))
    BY DEF TriggersKept
  <1>3. /\ pc \in [Procs -> {"off", "reads", "writes", "collects", "registers", "loops", "stops"}]
        /\ known \in [Procs -> SUBSET Services] /\ noticed \in [Procs -> SUBSET Services]
        /\ jobs \in [Procs -> Seq(Job)] /\ triggers \subseteq Services \X {"start", "stop"}
    BY DEF TypeOK
  <1> SUFFICES Rested' /\ (Calm' => \A p \in Procs : Waits(p)')
    BY DEF TriggersKept
  <1> HIDE DEF Calm
  <1>4. ASSUME triggers' \subseteq triggers, dirs \subseteq dirs', UNCHANGED igniters,
               \A p \in Procs : /\ Listens(p)' => Listens(p)
                                /\ known'[p] = known[p] \/ ~Listens(p)'
                                /\ noticed[p] \subseteq noticed'[p] \/ ~Listens(p)'
        PROVE  Rested' /\ (Calm' => \A p \in Procs : Waits(p)')
    BY <1>1, <1>2, <1>4
  <1>5. ASSUME NEW p \in Procs, Register(p)
        PROVE  Rested' /\ (Calm' => \A q \in Procs : Waits(q)')
    <2>1. /\ pc[p] = "registers" /\ jobs[p] = <<>> /\ GoTo(p, "loops")
          /\ noticed' = [noticed EXCEPT ![p] = @ \cup {s \in heard[p] \cap known[p] :
                                                         \E t \in triggers : t[1] = s}]
          /\ UNCHANGED <<known, dirs, igniters, triggers>>
      BY <1>5 DEF Register, At, memory, disk
    <2>2. ASSUME Calm', NEW q \in Procs, q # p
          PROVE  Waits(q)'
      <3>1. pc'[q] = pc[q] /\ noticed'[q] = noticed[q]
        BY <1>3, <2>1, <2>2 DEF GoTo
      <3> QED
        BY <1>1, <1>2, <2>1, <2>2, <3>1 DEF Listens
    <2>3. ASSUME Calm'
          PROVE  Waits(p)'
      <3>1. \A s : ~Pending(p, s)
        <4>1. Len(<<>>) = 0
          OBVIOUS
        <4> QED
          BY <2>1, <4>1 DEF Pending
      <3>2. known[p] = dirs /\ \A s \in dirs \cap igniters : s \in heard[p]
        BY <1>1, <2>1, <2>3, <3>1 DEF ListKept
      <3>3. noticed'[p] = noticed[p] \cup {s \in heard[p] \cap known[p] : \E t \in triggers : t[1] = s}
        BY <1>3, <2>1
      <3> QED
        BY <1>2, <2>1, <3>2, <3>3
    <2> QED
      BY <1>2, <2>1, <2>2, <2>3
  <1>6. ASSUME NEW p \in Procs, DataChanged(p)
        PROVE  Rested' /\ (Calm' => \A q \in Procs : Waits(q)')
    <2>1. /\ known' = [known EXCEPT ![p] = dirs]
          /\ UNCHANGED <<pc, noticed, dirs, igniters, triggers>>
      BY <1>6 DEF DataChanged, CollectServices, disk
    <2>2. known'[p] = dirs /\ \A q \in Procs : q # p => known'[q] = known[q]
      BY <1>3, <2>1
    <2> QED
      BY <1>1, <1>2, <2>1, <2>2 DEF Listens
  <1>7. ASSUME NEW p \in Procs, NEW s \in Services, Obey(p, s)
        PROVE  Rested' /\ (Calm' => \A q \in Procs : Waits(q)')
    <2>1. UNCHANGED <<pc, known, dirs, igniters>> /\ triggers' \subseteq triggers
      BY <1>7 DEF Obey, memory
    <2>2. CASE Notices(s)
      <3>1. \A q \in Procs : noticed[q] \subseteq noticed'[q]
        BY <1>3, <2>2 DEF Notices
      <3> QED
        BY <1>4, <2>1, <3>1 DEF Listens
    <2>3. CASE /\ <<s, "start">> \notin triggers /\ <<s, "stop">> \notin triggers
               /\ noticed' = [noticed EXCEPT ![p] = @ \ {s}]
               /\ UNCHANGED triggers
      <3>1. \A t \in triggers : t[1] # s
        <4>1. \A t \in triggers : \E x \in Services, tr \in {"start", "stop"} : t = <<x, tr>>
          BY <1>3
        <4> QED
          BY <2>3, <4>1
      <3>2. \A q \in Procs : noticed[q] \ {s} \subseteq noticed'[q]
        BY <1>3, <2>3
      <3>3. ASSUME Calm', NEW q \in Procs
            PROVE  Waits(q)'
        <4>1. Waits(q)
          BY <1>1, <1>2, <3>3
        <4> QED
          BY <2>1, <2>3, <3>1, <3>2, <4>1 DEF Listens
      <3> QED
        BY <1>2, <2>1, <2>3, <3>3
    <2> QED
      BY <1>7, <2>2, <2>3 DEF Obey
  <1>8. ASSUME NEW s \in Services, NEW tr \in {"start", "stop"}, Touch(s, tr)
        PROVE  Rested' /\ (Calm' => \A q \in Procs : Waits(q)')
    <2>1. /\ triggers' = triggers \cup {<<s, tr>>} /\ s \in dirs
          /\ Notices(s) /\ UNCHANGED <<pc, known, dirs, igniters>>
          /\ Happens(IF \E p \in Procs : Listens(p) /\ s \notin heard[p] THEN {"early"} ELSE {})
      BY <1>8 DEF Touch, memory
    <2>2. \A q \in Procs : noticed[q] \subseteq noticed'[q]
      BY <1>3, <2>1 DEF Notices
    <2>3. ASSUME Calm', NEW q \in Procs, Listens(q)
          PROVE  s \in noticed'[q]
      <3>1. "early" \notin happened'
        BY <1>1, <2>3
      <3>2. s \in heard[q]
        BY <2>1, <2>3, <3>1 DEF Happens
      <3> QED
        BY <2>1, <2>3, <3>2 DEF Notices
    <2>4. \A t \in triggers' : t \in triggers \/ t[1] = s
      BY <2>1
    <2>5. ASSUME Calm', NEW q \in Procs
          PROVE  Waits(q)'
      <3>1. Waits(q)
        BY <1>1, <1>2, <2>5
      <3> QED
        BY <2>1, <2>2, <2>3, <2>4, <2>5, <3>1 DEF Listens
    <2> QED
      BY <1>2, <2>1, <2>4, <2>5
  <1>9. ASSUME NEW s \in Services, RemoveDir(s)
        PROVE  Rested' /\ (Calm' => \A q \in Procs : Waits(q)')
    <2>1. /\ dirs' = dirs \ {s} /\ triggers' = {t \in triggers : t[1] # s}
          /\ Notices(s) /\ UNCHANGED <<pc, known, igniters>>
      BY <1>9 DEF RemoveDir
    <2>2. \A q \in Procs : noticed[q] \subseteq noticed'[q]
      BY <1>3, <2>1 DEF Notices
    <2>3. ASSUME Calm', NEW q \in Procs
          PROVE  Waits(q)'
      <3>1. Waits(q)
        BY <1>1, <1>2, <2>3
      <3> QED
        BY <2>1, <2>2, <3>1 DEF Listens
    <2> QED
      BY <1>2, <2>1, <2>3
  <1>10. ASSUME NEW s \in Services, AddIgniter(s)
         PROVE  Rested' /\ (Calm' => \A q \in Procs : Waits(q)')
    <2>1. /\ igniters' = igniters \cup {s} /\ UNCHANGED <<pc, known, noticed, dirs, triggers>>
          /\ Happens({k \in {"late"} : \E p \in Procs : s \in known[p]})
      BY <1>10 DEF AddIgniter, memory, ears
    <2>2. ASSUME Calm', NEW q \in Procs
          PROVE  Waits(q)'
      <3>1. "late" \notin happened'
        BY <1>1, <2>2
      <3>2. s \notin known[q]
        BY <2>1, <2>2, <3>1 DEF Happens
      <3>3. Waits(q)
        BY <1>1, <1>2, <2>2
      <3> QED
        BY <2>1, <3>2, <3>3 DEF Listens
    <2> QED
      BY <1>2, <2>1, <2>2
  <1>11. ASSUME NEW p \in Procs, NEW stage \in {"off", "reads", "writes", "collects", "registers", "stops"},
                GoTo(p, stage), stage = "stops" => pc[p] = "loops",
                UNCHANGED <<disk, noticed>>, \A q \in Procs : q # p => known'[q] = known[q],
                known'[p] = known[p] \/ stage # "stops"
         PROVE  Rested' /\ (Calm' => \A q \in Procs : Waits(q)')
    <2>1. pc'[p] = stage /\ \A q \in Procs : q # p => pc'[q] = pc[q]
      BY <1>3, <1>11 DEF GoTo
    <2> QED
      BY <1>4, <1>11, <2>1 DEF Listens, disk
  <1>12. ASSUME NEW p \in Procs,
                LaunchAs(p) \/ TestLock(p) \/ WriteLock(p) \/ Collect(p)
         PROVE  Rested' /\ (Calm' => \A q \in Procs : Waits(q)')
    <2>1. UNCHANGED <<disk, noticed>> /\ \A q \in Procs : q # p => known'[q] = known[q]
      BY <1>3, <1>12 DEF LaunchAs, TestLock, WriteLock, Collect, CollectServices, memory, ears
    <2>2. GoTo(p, "reads") \/ GoTo(p, "off") \/ GoTo(p, "writes") \/ GoTo(p, "collects")
          \/ GoTo(p, "registers")
      BY <1>12 DEF LaunchAs, TestLock, WriteLock, Collect
    <2> QED
      BY <1>11, <2>1, <2>2
  <1>13. ASSUME NEW p \in Procs, Gone(p), UNCHANGED disk, noticed' = [noticed EXCEPT ![p] = {}]
         PROVE  Rested' /\ (Calm' => \A q \in Procs : Waits(q)')
    <2>1. pc'[p] = "off" /\ \A q \in Procs : q # p => /\ pc'[q] = pc[q] /\ known'[q] = known[q]
                                                      /\ noticed'[q] = noticed[q]
      BY <1>3, <1>13 DEF Gone
    <2> QED
      BY <1>4, <1>13, <2>1 DEF Listens, disk
  <1>14. ASSUME NEW p \in Procs, HomeChanged(p)
         PROVE  Rested' /\ (Calm' => \A q \in Procs : Waits(q)')
    <2>1. pc[p] = "loops" /\ UNCHANGED disk
      BY <1>14 DEF HomeChanged, At
    <2>2. CASE UNCHANGED <<pc, memory, noticed>>
      BY <1>4, <2>1, <2>2 DEF Listens, memory, disk
    <2>3. CASE GoTo(p, "stops") /\ UNCHANGED <<memory, noticed>>
      BY <1>11, <2>1, <2>3 DEF memory
    <2>4. CASE Gone(p) /\ noticed' = [noticed EXCEPT ![p] = {}]
      BY <1>13, <2>1, <2>4
    <2> QED
      BY <1>14, <2>2, <2>3, <2>4 DEF HomeChanged, Deaf
  <1>15. ASSUME NEW p \in Procs, Exit(p) \/ Killed(p)
         PROVE  Rested' /\ (Calm' => \A q \in Procs : Waits(q)')
    BY <1>13, <1>15 DEF Exit, Killed, Deaf
  <1>16. ASSUME UNCHANGED <<pc, known, igniters, triggers>>, dirs \subseteq dirs',
                \A q \in Procs : noticed[q] \subseteq noticed'[q]
         PROVE  Rested' /\ (Calm' => \A q \in Procs : Waits(q)')
    BY <1>4, <1>16 DEF Listens
  <1>17. ASSUME NEW p \in Procs, NEW s \in Services,
                \/ Watch(p, s) \/ StartSlot(p, s) \/ StartDone(p, s)
                \/ StopSlot(p, s) \/ StopDone(p, s) \/ BabySitterSlot(p, s)
         PROVE  Rested' /\ (Calm' => \A q \in Procs : Waits(q)')
    <2>1. UNCHANGED <<pc, known, igniters, triggers>> /\ dirs \subseteq dirs'
      BY <1>17 DEF Watch, StartSlot, StartDone, StopSlot, StopDone, BabySitterSlot, memory, disk
    <2>2. UNCHANGED noticed \/ Notices(s)
      BY <1>17 DEF Watch, StartSlot, StartDone, StopSlot, StopDone, BabySitterSlot, ears
    <2>3. \A q \in Procs : noticed[q] \subseteq noticed'[q]
      BY <1>3, <2>2 DEF Notices
    <2> QED
      BY <1>16, <2>1, <2>3
  <1>18. CASE \/ DamagePidFile \/ PidReused \/ UNCHANGED vars
              \/ \E f \in {"shutdown", "shutdownGracefully"} : TouchControl(f)
              \/ \E s \in Services : MakeDir(s) \/ ProcessDies(s)
    <2>1. UNCHANGED <<pc, known, igniters, triggers, noticed>> /\ dirs \subseteq dirs'
      BY <1>18 DEF DamagePidFile, PidReused, TouchControl, MakeDir, ProcessDies, vars, memory, ears, disk
    <2> QED
      BY <1>16, <2>1
  <1>19. ASSUME NEW p \in Procs, Step(p)
         PROVE  Rested' /\ (Calm' => \A q \in Procs : Waits(q)')
    BY <1>5, <1>12, <1>15, <1>17, <1>19 DEF Step
  <1>20. CASE Launch \/ LaunchAgain
    BY <1>12, <1>20 DEF Launch, LaunchAgain
  <1> QED
    BY <1>6, <1>7, <1>8, <1>9, <1>10, <1>14, <1>15, <1>17, <1>18, <1>19, <1>20 DEF Next

(* A svdss at its loop has noticed every trigger of a service with an      *)
(* igniter, also those that came while it was down, busy or starting.      *)
THEOREM NoticedCorrect == Spec => []TriggersNoticed
  <1>1. Init => ListKept /\ TriggersKept
    BY DEF Init, ListKept, TriggersKept, Listens
  <1>2. TypeOK /\ ListKept /\ TriggersKept /\ [Next]_vars => ListKept' /\ TriggersKept'
    BY ListInductive, TriggersInductive
  <1>3. TypeOK /\ ListKept /\ TriggersKept => TriggersNoticed
    BY DEF TriggersKept, TriggersNoticed, At, Listens
  <1> QED
    BY <1>1, <1>2, <1>3, SpawnerTypeCorrect, PTL DEF Spec

===============================================================================
