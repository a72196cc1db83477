------------------------- MODULE DependenciesTree_proofs -------------------------
(***************************************************************************)
(* Proofs that Dependencies keeps its services in line with the graph of   *)
(* what they require: what runs has its dependencies (DependenciesRun),    *)
(* a dependency nobody asked for is needed (NoneLeftBehind), and a service *)
(* is launched after its dependencies (LaunchedLast). The tasks are read   *)
(* as a promise: Sure and Due say what they will have brought up once they *)
(* are done, so that each action need only keep that promise.              *)
(***************************************************************************)
EXTENDS Dependencies_proofs

Starts == {"start", "startDep", "launch"}

(* What may stand before what in the thread's tasks. Nothing comes after   *)
(* the exit, only stops before a stop that is to end or before the exit,   *)
(* and only starts before a launch.                                        *)
Precedes(t, u) ==
    /\ t.do # "exit"
    /\ u.do \in Stops \cup {"exit"} => t.do \in Stops
    /\ u.do = "launch" => t.do \in Starts

Ordered == \A i, j \in DOMAIN tasks : j < i => Precedes(tasks[j], tasks[i])

(* Every dependency about to be started is one of a service whose launch   *)
(* comes later.                                                            *)
LaunchAfter(q, i) ==
    \E k \in DOMAIN q : k > i /\ q[k].do = "launch" /\ q[k].at = q[i].at

Expected(q, objects) ==
    \A i \in DOMAIN q : q[i].do = "startDep" =>
        q[i].service \in Needs(objects[q[i].at].of) /\ LaunchAfter(q, i)

(* Without requests for a service alone, slots serve dependencies too.     *)
Deep(t) == t.do \in {"start", "stop"} => t.deps = TRUE

Whole == "alone" \notin happened => \A i \in DOMAIN tasks : Deep(tasks[i])

(* A launch finds its dependencies running, or the tasks before bring them.*)
Brings(t, d, objects) ==
    \/ t.do = "startDep" /\ t.service = d
    \/ t.do \in {"start", "launch"} /\ objects[t.at].of = d

Provided(q, objects, marked) ==
    \A i \in DOMAIN q : q[i].do = "launch" =>
        \A d \in Needs(objects[q[i].at].of) :
            d \in marked \/ \E j \in DOMAIN q : j < i /\ Brings(q[j], d, objects)

ProvidedInv == {"alone", "refuse"} \cap happened = {} => Provided(tasks, heap, running)

Idle == up \/ tasks = <<>>

OrderInv == Ordered /\ Expected(tasks, heap) /\ Whole /\ ProvidedInv /\ Idle

-----------------------------------------------------------------------------
(* What follows the head of the tasks keeps its place behind what the head *)
(* calls.                                                                  *)
LEMMA Sequel ==
    ASSUME ThreadOK, tasks # <<>>, NEW first \in Seq(Task), Calls(first)
    PROVE  /\ Len(first) \in Nat /\ Len(tasks) \in Nat \ {0}
           /\ DOMAIN tasks = 1..Len(tasks) /\ Head(tasks) = tasks[1]
           /\ DOMAIN first = 1..Len(first)
           /\ \A i \in DOMAIN tasks' :
                 /\ i \in Nat
                 /\ \/ i \in 1..Len(first) /\ tasks'[i] = first[i]
                    \/ \E k \in 2..Len(tasks) : i = Len(first) + k - 1 /\ tasks'[i] = tasks[k]
           /\ \A i \in 1..Len(first) : i \in DOMAIN tasks' /\ tasks'[i] = first[i]
           /\ \A k \in 2..Len(tasks) :
                 /\ Len(first) + k - 1 \in DOMAIN tasks'
                 /\ tasks'[Len(first) + k - 1] = tasks[k]
  <1>1. /\ Len(first) \in Nat /\ Len(tasks) \in Nat \ {0}
        /\ DOMAIN tasks = 1..Len(tasks) /\ Head(tasks) = tasks[1]
        /\ DOMAIN first = 1..Len(first)
    BY DEF ThreadOK
  <1>2. /\ tasks' \in Seq(Task) /\ Len(tasks') = Len(first) + Len(tasks) - 1
        /\ \A i \in 1..Len(first) : tasks'[i] = first[i]
        /\ \A i \in (Len(first) + 1)..Len(tasks') :
              /\ i - Len(first) + 1 \in 2..Len(tasks)
              /\ tasks'[i] = tasks[i - Len(first) + 1]
    BY CallsType
  <1>3. DOMAIN tasks' = 1..(Len(first) + Len(tasks) - 1)
    BY <1>2
  <1>4. ASSUME NEW i \in DOMAIN tasks'
        PROVE  /\ i \in Nat
               /\ \/ i \in 1..Len(first) /\ tasks'[i] = first[i]
                  \/ \E k \in 2..Len(tasks) : i = Len(first) + k - 1 /\ tasks'[i] = tasks[k]
    <2>1. i \in Nat /\ (i \in 1..Len(first) \/ i \in (Len(first) + 1)..Len(tasks'))
      BY <1>1, <1>2, <1>3
    <2>2. CASE i \in (Len(first) + 1)..Len(tasks')
      <3>1. i - Len(first) + 1 \in 2..Len(tasks) /\ tasks'[i] = tasks[i - Len(first) + 1]
        BY <1>2, <2>2
      <3>2. i = Len(first) + (i - Len(first) + 1) - 1
        BY <1>1, <2>1
      <3> QED
        BY <2>1, <3>1, <3>2
    <2> QED
      BY <1>2, <2>1, <2>2
  <1>5. ASSUME NEW k \in 2..Len(tasks)
        PROVE  /\ Len(first) + k - 1 \in DOMAIN tasks'
               /\ tasks'[Len(first) + k - 1] = tasks[k]
    <2>1. /\ Len(first) + k - 1 \in (Len(first) + 1)..Len(tasks')
          /\ Len(first) + k - 1 \in DOMAIN tasks'
          /\ (Len(first) + k - 1) - Len(first) + 1 = k
      BY <1>1, <1>2, <1>3
    <2> QED
      BY <1>2, <2>1
  <1>6. \A i \in 1..Len(first) : i \in DOMAIN tasks' /\ tasks'[i] = first[i]
    BY <1>1, <1>2, <1>3
  <1> QED
    BY <1>1, <1>4, <1>5, <1>6

(* What the head calls may stand where the head stood.                     *)
InPlaceOf(t, h) ==
    \/ t.do \in Stops /\ h.do \in Stops
    \/ t.do \in Starts /\ h.do \in Starts
    \/ t.do \notin Stops \cup {"exit"} /\ h.do \in {"watch", "resume", "listen"}

LEMMA InPlace ==
    \A h, t, u : Precedes(h, u) /\ InPlaceOf(t, h) => Precedes(t, u)
  BY DEF Precedes, InPlaceOf, Stops, Starts

LEMMA OrderCalls ==
    ASSUME ThreadOK, tasks # <<>>, NEW first \in Seq(Task), Calls(first), Ordered,
           \A i, j \in DOMAIN first : j < i => Precedes(first[j], first[i]),
           \A i \in DOMAIN first : InPlaceOf(first[i], Head(tasks))
    PROVE  Ordered'
  <1> SUFFICES ASSUME NEW i \in DOMAIN tasks', NEW j \in DOMAIN tasks', j < i
               PROVE  Precedes(tasks'[j], tasks'[i])
    BY DEF Ordered, Precedes
  <1>1. CASE i \in 1..Len(first)
    <2>1. j \in 1..Len(first)
      BY <1>1, Sequel
    <2> QED
      BY <1>1, <2>1, Sequel
  <1>2. ASSUME NEW k \in 2..Len(tasks), i = Len(first) + k - 1, tasks'[i] = tasks[k]
        PROVE  Precedes(tasks'[j], tasks'[i])
    <2>1. k \in DOMAIN tasks /\ 1 \in DOMAIN tasks /\ 1 < k
      BY Sequel
    <2>2. CASE j \in 1..Len(first)
      <3>1. Precedes(Head(tasks), tasks[k])
        BY <2>1, Sequel DEF Ordered
      <3>2. InPlaceOf(first[j], Head(tasks)) /\ tasks'[j] = first[j]
        BY <2>2, Sequel
      <3> QED
        BY <1>2, <3>1, <3>2, InPlace
    <2>3. ASSUME NEW m \in 2..Len(tasks), j = Len(first) + m - 1, tasks'[j] = tasks[m]
          PROVE  Precedes(tasks'[j], tasks'[i])
      <3>1. m \in DOMAIN tasks /\ m < k
        BY <1>2, <2>3, Sequel
      <3> QED
        BY <1>2, <2>1, <2>3, <3>1 DEF Ordered
    <2> QED
      BY <2>2, <2>3, Sequel
  <1> QED
    BY <1>1, <1>2, Sequel

(* The services of the tasks are those of the objects.                     *)
LEMMA AimKept ==
    ASSUME ThreadOK, HeapGrows, NEW k \in DOMAIN tasks, tasks[k].do \in ObjectTasks
    PROVE  heap'[tasks[k].at].of = heap[tasks[k].at].of
  BY DEF ThreadOK, Aimed, HeapGrows

LEMMA ExpectedCalls ==
    ASSUME ThreadOK, HeapGrows, tasks # <<>>, NEW first \in Seq(Task), Calls(first),
           Expected(tasks, heap), Expected(first, heap')
    PROVE  Expected(tasks', heap')
  <1> SUFFICES ASSUME NEW i \in DOMAIN tasks', tasks'[i].do = "startDep"
               PROVE  /\ tasks'[i].service \in Needs(heap'[tasks'[i].at].of)
                      /\ LaunchAfter(tasks', i)
    BY DEF Expected
  <1>1. CASE i \in 1..Len(first) /\ tasks'[i] = first[i]
    <2>1. first[i].service \in Needs(heap'[first[i].at].of) /\ LaunchAfter(first, i)
      BY <1>1, Sequel DEF Expected
    <2>2. PICK k \in DOMAIN first : k > i /\ first[k].do = "launch" /\ first[k].at = first[i].at
      BY <2>1 DEF LaunchAfter
    <2>3. k \in DOMAIN tasks' /\ tasks'[k] = first[k]
      BY <2>2, Sequel
    <2> QED
      BY <1>1, <2>1, <2>2, <2>3 DEF LaunchAfter
  <1>2. ASSUME NEW k \in 2..Len(tasks), i = Len(first) + k - 1, tasks'[i] = tasks[k]
        PROVE  /\ tasks'[i].service \in Needs(heap'[tasks'[i].at].of)
               /\ LaunchAfter(tasks', i)
    <2>1. k \in DOMAIN tasks /\ tasks[k].do = "startDep"
      BY <1>2, Sequel
    <2>2. tasks[k].service \in Needs(heap[tasks[k].at].of) /\ LaunchAfter(tasks, k)
      BY <2>1 DEF Expected
    <2>3. heap'[tasks[k].at].of = heap[tasks[k].at].of
      BY <2>1, AimKept DEF ObjectTasks
    <2>4. PICK m \in DOMAIN tasks : m > k /\ tasks[m].do = "launch" /\ tasks[m].at = tasks[k].at
      BY <2>2 DEF LaunchAfter
    <2>5. m \in 2..Len(tasks) /\ Len(first) + m - 1 > i
      BY <1>2, <2>4, Sequel
    <2>6. Len(first) + m - 1 \in DOMAIN tasks' /\ tasks'[Len(first) + m - 1] = tasks[m]
      BY <2>5, Sequel
    <2>7. LaunchAfter(tasks', i)
      BY <1>2, <2>4, <2>5, <2>6 DEF LaunchAfter
    <2> QED
      BY <1>2, <2>2, <2>3, <2>7
  <1> QED
    BY <1>1, <1>2, Sequel

LEMMA WholeCalls ==
    ASSUME ThreadOK, tasks # <<>>, NEW first \in Seq(Task), Calls(first), Whole,
           happened \subseteq happened',
           "alone" \notin happened' => \A i \in DOMAIN first : Deep(first[i])
    PROVE  Whole'
  <1> SUFFICES ASSUME "alone" \notin happened', NEW i \in DOMAIN tasks' PROVE Deep(tasks'[i])
    BY DEF Whole, Deep
  <1>1. CASE i \in 1..Len(first) /\ tasks'[i] = first[i]
    BY <1>1, Sequel
  <1>2. ASSUME NEW k \in 2..Len(tasks), tasks'[i] = tasks[k] PROVE Deep(tasks'[i])
    <2>1. k \in DOMAIN tasks
      BY Sequel
    <2> QED
      BY <1>2, <2>1 DEF Whole
  <1> QED
    BY <1>1, <1>2, Sequel

(* No launch comes after anything but starts.                              *)
LEMMA NoLaunch ==
    ASSUME ThreadOK, tasks # <<>>, Ordered, NEW k \in 2..Len(tasks), tasks[k].do = "launch"
    PROVE  Head(tasks).do \in Starts
  <1>1. k \in DOMAIN tasks /\ 1 \in DOMAIN tasks /\ 1 < k /\ Head(tasks) = tasks[1]
    BY DEF ThreadOK
  <1> QED
    BY <1>1 DEF Ordered, Precedes

LEMMA ProvidedCalls ==
    ASSUME ThreadOK, HeapGrows, tasks # <<>>, NEW first \in Seq(Task), Calls(first), Ordered,
           Provided(tasks, heap, running), Provided(first, heap', running'),
           Head(tasks).do \in Starts =>
               /\ running \subseteq running'
               /\ \A d : Brings(Head(tasks), d, heap) =>
                     d \in running' \/ \E i \in DOMAIN first : Brings(first[i], d, heap')
    PROVE  Provided(tasks', heap', running')
  <1> SUFFICES ASSUME NEW i \in DOMAIN tasks', tasks'[i].do = "launch",
                      NEW d \in Needs(heap'[tasks'[i].at].of), d \notin running'
               PROVE  \E j \in DOMAIN tasks' : j < i /\ Brings(tasks'[j], d, heap')
    BY DEF Provided
  <1>1. CASE i \in 1..Len(first) /\ tasks'[i] = first[i]
    <2>1. PICK j \in DOMAIN first : j < i /\ Brings(first[j], d, heap')
      BY <1>1, Sequel DEF Provided
    <2>2. j \in DOMAIN tasks' /\ tasks'[j] = first[j]
      BY Sequel
    <2> QED
      BY <2>1, <2>2
  <1>2. ASSUME NEW k \in 2..Len(tasks), i = Len(first) + k - 1, tasks'[i] = tasks[k]
        PROVE  \E j \in DOMAIN tasks' : j < i /\ Brings(tasks'[j], d, heap')
    <2>1. k \in DOMAIN tasks /\ tasks[k].do = "launch"
      BY <1>2, Sequel
    <2>2. /\ running \subseteq running'
          /\ \A e : Brings(Head(tasks), e, heap) =>
                e \in running' \/ \E n \in DOMAIN first : Brings(first[n], e, heap')
      BY <2>1, NoLaunch
    <2>3. d \in Needs(heap[tasks[k].at].of)
      BY <1>2, <2>1, AimKept DEF ObjectTasks
    <2>4. PICK m \in DOMAIN tasks : m < k /\ Brings(tasks[m], d, heap)
      BY <2>1, <2>2, <2>3 DEF Provided
    <2>5. CASE m = 1
      <3>1. PICK n \in DOMAIN first : Brings(first[n], d, heap')
        BY <2>2, <2>4, <2>5, Sequel
      <3>2. n \in DOMAIN tasks' /\ tasks'[n] = first[n] /\ n < i
        BY <1>2, Sequel
      <3> QED
        BY <3>1, <3>2
    <2>6. CASE m # 1
      <3>1. m \in 2..Len(tasks) /\ Len(first) + m - 1 < i
        BY <1>2, <2>4, <2>6, Sequel
      <3>2. Len(first) + m - 1 \in DOMAIN tasks' /\ tasks'[Len(first) + m - 1] = tasks[m]
        BY <3>1, Sequel
      <3>3. Brings(tasks[m], d, heap')
        BY <2>4, AimKept DEF Brings, ObjectTasks
      <3> QED
        BY <3>1, <3>2, <3>3
    <2> QED
      BY <2>5, <2>6
  <1> QED
    BY <1>1, <1>2, Sequel

-----------------------------------------------------------------------------
(* What a slot calls keeps all of the order.                               *)
HandsOver(first) ==
    /\ \A i, j \in DOMAIN first : j < i => Precedes(first[j], first[i])
    /\ \A i \in DOMAIN first : InPlaceOf(first[i], Head(tasks))
    /\ Expected(first, heap')
    /\ "alone" \notin happened' => \A i \in DOMAIN first : Deep(first[i])
    /\ {"alone", "refuse"} \cap happened' = {} =>
          /\ Provided(first, heap', running')
          /\ Head(tasks).do \in Starts =>
                /\ running \subseteq running'
                /\ \A d : Brings(Head(tasks), d, heap) =>
                      d \in running' \/ \E i \in DOMAIN first : Brings(first[i], d, heap')

HandedOver == \E first \in Seq(Task) : Calls(first) /\ HandsOver(first)

LEMMA OrderHanded ==
    ASSUME ThreadOK, HeapGrows, tasks # <<>>, OrderInv, HandedOver,
           happened \subseteq happened', up' = up
    PROVE  OrderInv'
  <1>1. PICK first \in Seq(Task) : Calls(first) /\ HandsOver(first)
    BY DEF HandedOver
  <1>2. Ordered /\ Expected(tasks, heap) /\ Whole /\ ProvidedInv /\ Idle
    BY DEF OrderInv
  <1>3. Ordered'
    BY <1>1, <1>2, OrderCalls DEF HandsOver
  <1>4. Expected(tasks', heap')
    BY <1>1, <1>2, ExpectedCalls DEF HandsOver
  <1>5. Whole'
    BY <1>1, <1>2, WholeCalls DEF HandsOver
  <1>6. ProvidedInv'
    <2> SUFFICES ASSUME {"alone", "refuse"} \cap happened' = {}
                 PROVE  Provided(tasks', heap', running')
      BY DEF ProvidedInv
    <2>1. Provided(tasks, heap, running)
      BY <1>2 DEF ProvidedInv
    <2> QED
      BY <1>1, <1>2, <2>1, ProvidedCalls DEF HandsOver
  <1>7. Idle'
    BY <1>2 DEF Idle
  <1> QED
    BY <1>3, <1>4, <1>5, <1>6, <1>7 DEF OrderInv

(* A slot that calls nothing, or one slot that starts.                     *)
LEMMA HandsNothing ==
    ASSUME Returns,
           {"alone", "refuse"} \cap happened' = {} /\ Head(tasks).do \in Starts =>
               /\ running \subseteq running'
               /\ \A d : Brings(Head(tasks), d, heap) => d \in running'
    PROVE  HandedOver
  <1>1. <<>> \in Seq(Task) /\ DOMAIN <<>> = {} /\ Calls(<<>>)
    BY DEF Returns
  <1>2. HandsOver(<<>>)
    BY <1>1 DEF HandsOver, Expected, Provided
  <1> QED
    BY <1>1, <1>2 DEF HandedOver

LEMMA StoppingWhole ==
    ASSUME NEW o \in Nat, NEW deps \in Seq(Nat)
    PROVE  \A i \in DOMAIN Stopping(o, deps) :
              Stopping(o, deps)[i].do \in Stops /\ Deep(Stopping(o, deps)[i])
  <1> DEFINE called == [i \in DOMAIN deps |-> Call("stop", deps[i], TRUE)]
             last == [do |-> "afterStop", at |-> o]
  <1>1. \A i \in DOMAIN deps : Call("stop", deps[i], TRUE) \in Task
    BY DEF Task, Call
  <1>2. DOMAIN deps = 1..Len(deps) /\ Len(deps) \in Nat
    OBVIOUS
  <1>3. called = [i \in 1..Len(deps) |-> Call("stop", deps[i], TRUE)]
    BY <1>2
  <1>4. \A i \in 1..Len(deps) : /\ called[i] = Call("stop", deps[i], TRUE)
                                /\ Call("stop", deps[i], TRUE).do = "stop"
                                /\ Call("stop", deps[i], TRUE).deps = TRUE
    BY <1>3 DEF Call
  <1>5. last \in Task /\ last.do = "afterStop"
    BY DEF Task
  <1> HIDE DEF called, last
  <1>6. called \in [1..Len(deps) -> Task]
    BY <1>1, <1>2, <1>3
  <1>7. called \in Seq(Task) /\ Len(called) = Len(deps)
    BY <1>2, <1>6
  <1>8. Stopping(o, deps) = called \o <<last>>
    BY DEF Stopping, called, last
  <1> DEFINE all == called \o <<last>>
  <1>9. /\ all \in Seq(Task) /\ Len(all) = Len(deps) + 1
        /\ \A i \in 1..Len(deps) : all[i] = called[i]
        /\ all[Len(deps) + 1] = last
    <2>1. /\ all \in Seq(Task) /\ Len(all) = Len(called) + 1
          /\ \A i \in 1..Len(called) : all[i] = called[i]
          /\ all[Len(called) + 1] = last
      <3> HIDE DEF all
      <3>1. \A q \in Seq(Task), t \in Task :
               /\ q \o <<t>> \in Seq(Task) /\ Len(q \o <<t>>) = Len(q) + 1
               /\ \A i \in 1..Len(q) : (q \o <<t>>)[i] = q[i]
               /\ (q \o <<t>>)[Len(q) + 1] = t
        BY SnocSeq
      <3> QED
        BY <1>5, <1>7, <3>1, SMT DEF all
    <2> HIDE DEF all
    <2> QED
      BY <1>7, <2>1
  <1> HIDE DEF all
  <1>10. \A i \in DOMAIN all : i \in 1..Len(deps) \/ i = Len(deps) + 1
    BY <1>2, <1>9
  <1>11. \A i \in DOMAIN all : all[i].do \in Stops /\ Deep(all[i])
    <2> SUFFICES ASSUME NEW i \in DOMAIN all PROVE all[i].do \in Stops /\ Deep(all[i])
      OBVIOUS
    <2>1. CASE i \in 1..Len(deps)
      <3>1. all[i] = Call("stop", deps[i], TRUE)
        BY <1>4, <1>9, <2>1
      <3> QED
        BY <3>1 DEF Call, Stops, Deep
    <2>2. CASE i = Len(deps) + 1
      BY <1>5, <1>9, <2>2 DEF Stops, Deep
    <2> QED
      BY <1>10, <2>1, <2>2
  <1> QED
    BY <1>8, <1>11 DEF all

LEMMA HandsOne ==
    ASSUME NEW t \in Task, t.do \in {"start", "resume"}, Calls(<<t>>), InPlaceOf(t, Head(tasks)),
           "alone" \notin happened' => Deep(t),
           {"alone", "refuse"} \cap happened' = {} /\ Head(tasks).do \in Starts =>
               /\ running \subseteq running'
               /\ \A d : Brings(Head(tasks), d, heap) => d \in running' \/ Brings(t, d, heap')
    PROVE  HandedOver
  <1> DEFINE first == <<t>>
  <1>1. first \in Seq(Task) /\ DOMAIN first = {1} /\ first[1] = t /\ Calls(first)
    OBVIOUS
  <1> HIDE DEF first
  <1>2. /\ \A i, j \in DOMAIN first : ~(j < i)
        /\ \A i \in DOMAIN first : first[i] = t
    BY <1>1
  <1>3. HandsOver(first)
    BY <1>1, <1>2 DEF HandsOver, Expected, Provided
  <1> QED
    BY <1>1, <1>3 DEF HandedOver

LEMMA LaunchingHands ==
    ASSUME TypeOK, NEW o \in DOMAIN heap, heap' = heap, running' = running,
           NEW need \in Seq(Services), Range(need) \subseteq Needs(Of(o)),
           {"alone", "refuse"} \cap happened' = {} => Needs(Of(o)) \subseteq Range(need),
           Head(tasks).do = "start", Head(tasks).at = o, Calls(Launching(o, need))
    PROVE  HandedOver
  <1> DEFINE first == Launching(o, need)  n == Len(need) + 1
  <1>1. o \in Nat
    BY TypeSplit DEF HeapOK
  <1>2. Calls(first)
    OBVIOUS
  <1>3. /\ first \in Seq(Task) /\ Len(first) = n /\ Len(need) \in Nat
        /\ \A i \in 1..Len(need) : /\ first[i].do = "startDep"
                                   /\ first[i].service = need[i]
        /\ \A i \in 1..Len(first) : first[i].at = o
        /\ first[n].do = "launch"
    BY <1>1, LaunchingType
  <1> HIDE DEF first
  <1>4. /\ DOMAIN first = 1..n /\ n \in DOMAIN first
        /\ DOMAIN need = 1..Len(need)
        /\ \A i \in DOMAIN first : i = n \/ (i \in DOMAIN need /\ i < n)
    <2>1. DOMAIN first = 1..n
      BY <1>3
    <2>2. DOMAIN need = 1..Len(need)
      OBVIOUS
    <2>3. Len(need) \in Nat
      BY <1>3
    <2>4. n \in 1..n /\ \A i \in 1..n : i = n \/ (i \in 1..Len(need) /\ i < n)
      BY <2>3
    <2> HIDE DEF n
    <2> QED
      BY <2>1, <2>2, <2>4
  <1>5. \A i \in DOMAIN first : first[i].do \in Starts \ {"start"}
    BY <1>3, <1>4 DEF Starts
  <1>6. \A i \in DOMAIN first : first[i].do = "launch" <=> i = n
    BY <1>3, <1>4
  <1>7. \A i, j \in DOMAIN first : j < i => Precedes(first[j], first[i])
    BY <1>5 DEF Precedes, Starts, Stops
  <1>8. \A i \in DOMAIN first : InPlaceOf(first[i], Head(tasks))
    BY <1>5 DEF InPlaceOf, Starts
  <1>9. Expected(first, heap')
    <2> SUFFICES ASSUME NEW i \in DOMAIN first, first[i].do = "startDep"
                 PROVE  first[i].service \in Needs(heap[first[i].at].of) /\ LaunchAfter(first, i)
      BY DEF Expected
    <2>1. i \in DOMAIN need /\ i < n
      BY <1>4, <1>6
    <2>2. first[i].service \in Range(need) /\ first[i].at = o /\ first[n].at = o
      BY <1>3, <1>4, <2>1 DEF Range
    <2>3. LaunchAfter(first, i)
      BY <1>3, <1>4, <2>1, <2>2 DEF LaunchAfter
    <2> QED
      BY <2>2, <2>3 DEF Of
  <1>10. \A i \in DOMAIN first : Deep(first[i])
    BY <1>5 DEF Deep, Starts
  <1>11. ASSUME {"alone", "refuse"} \cap happened' = {} PROVE Provided(first, heap', running')
    <2> SUFFICES ASSUME NEW i \in DOMAIN first, first[i].do = "launch",
                        NEW d \in Needs(heap[first[i].at].of)
                 PROVE  \E j \in DOMAIN first : j < i /\ Brings(first[j], d, heap')
      BY DEF Provided
    <2>1. i = n /\ first[i].at = o
      BY <1>3, <1>4, <1>6
    <2>2. d \in Range(need)
      BY <1>11, <2>1 DEF Of
    <2>3. PICK j \in DOMAIN need : need[j] = d
      BY <2>2 DEF Range
    <2>4. j \in DOMAIN first /\ j < i /\ first[j].do = "startDep" /\ first[j].service = d
      BY <1>3, <1>4, <2>1, <2>3
    <2> QED
      BY <2>4 DEF Brings
  <1>12. \A d : Brings(Head(tasks), d, heap) => Brings(first[n], d, heap')
    BY <1>3, <1>4 DEF Brings
  <1>13. HandsOver(first)
    BY <1>4, <1>7, <1>8, <1>9, <1>10, <1>11, <1>12 DEF HandsOver
  <1> QED
    BY <1>2, <1>3, <1>13 DEF HandedOver

LEMMA StartOrder == ASSUME TypeOK, OrderInv, Start PROVE HandedOver
  <1> DEFINE o == Head(tasks).at
             need == IF Head(tasks).deps THEN Requires[Of(o)] ELSE <<>>
  <1>1. /\ ThreadOK /\ HeapOK /\ tasks # <<>> /\ Head(tasks).do = "start"
        /\ o \in DOMAIN heap /\ Head(tasks).deps \in BOOLEAN
    BY TypeSplit, HeadTask DEF Start, Doing, ObjectTasks
  <1>2. Requires[Of(o)] \in Seq(Services)
    BY <1>1, ObjectOf
  <1>3. running' = running
    BY DEF Start
  <1>4. CASE Returns /\ (Of(o) \in running \/ "refuse" \in happened')
    <2>1. Of(o) \in running' => \A d : Brings(Head(tasks), d, heap) => d \in running'
      BY <1>1 DEF Brings, Of
    <2> QED
      BY <1>3, <1>4, <2>1, HandsNothing
  <1>5. CASE Calls(Launching(o, need)) /\ heap' = heap /\ happened' = happened
    <2>1. need \in Seq(Services) /\ Range(need) \subseteq Needs(Of(o))
      <3>1. CASE Head(tasks).deps
        BY <1>2, <3>1 DEF Needs
      <3>2. CASE ~Head(tasks).deps
        BY <3>2 DEF Range
      <3> QED
        BY <3>1, <3>2
    <2>2. ASSUME "alone" \notin happened PROVE Needs(Of(o)) \subseteq Range(need)
      <3>1. Head(tasks).deps = TRUE
        BY <1>1, <2>2, HeadType DEF OrderInv, Whole, Deep
      <3> QED
        BY <3>1 DEF Needs
    <2> HIDE DEF need
    <2> QED
      BY <1>1, <1>3, <1>5, <2>1, <2>2, LaunchingHands
  <1> QED
    BY <1>4, <1>5 DEF Start, Launching, Happens

LEMMA StartDepOrder == ASSUME TypeOK, OrderInv, StartDep PROVE HandedOver
  <1> DEFINE d == Head(tasks).service  child == Len(heap) + 1  t == Call("start", child, TRUE)
  <1>1. /\ ThreadOK /\ HeapOK /\ tasks # <<>> /\ Head(tasks).do = "startDep"
        /\ Head(tasks).at \in DOMAIN heap /\ d \in Services
    BY TypeSplit, HeadTask DEF StartDep, Doing, ObjectTasks
  <1>2. running' = running /\ \A e : Brings(Head(tasks), e, heap) => e = d
    BY <1>1 DEF StartDep, marks, Brings
  <1>3. CASE Returns /\ d \in running
    BY <1>2, <1>3, HandsNothing
  <1>4. CASE /\ heap' = Append([heap EXCEPT ![Head(tasks).at].deps = Append(@, child)], New(d, FALSE))
             /\ Calls(<<t>>)
    <2>1. heap'[child] = New(d, FALSE)
      BY <1>1, <1>4, ChildType
    <2>2. heap'[child].of = d
      BY <1>1, <2>1, NewType
    <2>3. t \in Task /\ t.do = "start" /\ t.at = child /\ t.deps = TRUE
      BY <1>1 DEF Call, Task, HeapOK
    <2>4. Calls(<<t>>)
      BY <1>4
    <2> HIDE DEF t
    <2>5. Brings(t, d, heap') /\ Deep(t) /\ InPlaceOf(t, Head(tasks))
      BY <1>1, <2>2, <2>3 DEF Brings, Deep, InPlaceOf, Starts
    <2> QED
      BY <1>2, <2>3, <2>4, <2>5, HandsOne
  <1> QED
    BY <1>3, <1>4 DEF StartDep

LEMMA LaunchOrder == ASSUME TypeOK, OrderInv, Launch PROVE HandedOver
  <1>1. Returns /\ Head(tasks).do = "launch"
    BY DEF Launch, Doing
  <1>2. "refuse" \notin happened' => running' = running \cup {Of(Head(tasks).at)}
    BY DEF Launch, Happens
  <1>3. \A d : Brings(Head(tasks), d, heap) => d = Of(Head(tasks).at)
    BY <1>1 DEF Brings, Of
  <1> QED
    BY <1>1, <1>2, <1>3, HandsNothing

LEMMA StopOrder == ASSUME TypeOK, OrderInv, Stop PROVE HandedOver
  <1> DEFINE o == Head(tasks).at
             deps == IF Head(tasks).deps THEN heap[o].deps ELSE <<>>
  <1>1. /\ ThreadOK /\ HeapOK /\ tasks # <<>> /\ o \in DOMAIN heap
        /\ Head(tasks).do = "stop" /\ Head(tasks).deps \in BOOLEAN
        /\ Head(tasks).do \notin Starts
    BY TypeSplit, HeadTask DEF Stop, Doing, ObjectTasks, Starts
  <1>2. CASE Returns
    BY <1>1, <1>2, HandsNothing
  <1>3. CASE Calls(Stopping(o, deps))
    <2>1. o \in Nat /\ deps \in Seq(Nat)
      BY <1>1, ObjectOf
    <2> DEFINE first == Stopping(o, deps)  n == Len(deps) + 1
    <2>2. Calls(first)
      BY <1>3
    <2> HIDE DEF deps
    <2>3. \A i \in DOMAIN first : first[i].do \in Stops /\ Deep(first[i])
      BY <2>1, StoppingWhole
    <2>4. first \in Seq(Task)
      BY <2>1, StoppingType
    <2> HIDE DEF first
    <2>5. \A i \in DOMAIN first : /\ first[i].do \notin {"startDep", "launch", "exit"}
                                  /\ InPlaceOf(first[i], Head(tasks))
      BY <1>1, <2>3 DEF InPlaceOf, Stops
    <2>6. \A i, j \in DOMAIN first : Precedes(first[j], first[i])
      BY <2>3, <2>5 DEF Precedes
    <2>7. HandsOver(first)
      BY <1>1, <2>3, <2>5, <2>6 DEF HandsOver, Expected, Provided
    <2> QED
      BY <2>2, <2>4, <2>7 DEF HandedOver
  <1> QED
    BY <1>2, <1>3 DEF Stop, Stopping

LEMMA WatchOrder == ASSUME TypeOK, OrderInv, Watch PROVE HandedOver
  <1> DEFINE s == Head(tasks).service  o == Len(heap) + 1
             start == Call("start", o, TRUE)
             resume == [do |-> "resume", at |-> o]
             first == (IF s \in Autostart THEN <<start>> ELSE <<>>) \o <<resume>>
  <1>1. ThreadOK /\ HeapOK /\ tasks # <<>> /\ Head(tasks).do = "watch"
    BY TypeSplit DEF Watch, Doing
  <1>2. Calls(first)
    BY DEF Watch
  <1>3. start \in Task /\ resume \in Task /\ start.do = "start" /\ resume.do = "resume" /\ start.deps = TRUE
    BY <1>1 DEF Call, Task, HeapOK
  <1> HIDE DEF start, resume
  <1>4. \A t \in {start, resume} : Deep(t) /\ InPlaceOf(t, Head(tasks))
    BY <1>1, <1>3 DEF Deep, InPlaceOf, Stops
  <1>5. CASE s \in Autostart
    <2>1. first = <<start>> \o <<resume>>
      BY <1>5
    <2> HIDE DEF first
    <2>2. /\ first \in Seq(Task) /\ DOMAIN first = {1, 2}
          /\ first[1] = start /\ first[2] = resume
      BY <1>3, <2>1
    <2>3. \A i, j \in DOMAIN first : j < i => Precedes(first[j], first[i])
      BY <1>3, <2>2 DEF Precedes, Stops
    <2>4. HandsOver(first)
      BY <1>1, <1>3, <1>4, <2>2, <2>3 DEF HandsOver, Expected, Provided, Starts
    <2> QED
      BY <1>2, <2>2, <2>4 DEF HandedOver
  <1>6. CASE s \notin Autostart
    <2>1. first = <<>> \o <<resume>>
      BY <1>6
    <2> HIDE DEF first
    <2>2. first = <<resume>>
      BY <1>3, <2>1, TwoFirst
    <2> QED
      BY <1>1, <1>2, <1>3, <1>4, <2>2, HandsOne DEF Starts
  <1> QED
    BY <1>5, <1>6

LEMMA OtherOrder ==
    ASSUME TypeOK, OrderInv, AfterStop \/ Resume \/ Listen PROVE HandedOver
  <1> DEFINE o == Head(tasks).at  t == Call("start", o, TRUE)
  <1>1. /\ ThreadOK /\ HeapOK /\ tasks # <<>>
        /\ Head(tasks).do \in {"afterStop", "resume", "listen"} /\ Head(tasks).do \notin Starts
    BY TypeSplit DEF AfterStop, Resume, Listen, Doing, Starts
  <1>2. CASE Returns
    BY <1>1, <1>2, HandsNothing
  <1>3. CASE Resume /\ Calls(<<t>>)
    <2>1. Head(tasks).do = "resume" /\ o \in DOMAIN heap
      BY <1>1, <1>3, HeadTask DEF Resume, Doing, ObjectTasks
    <2>2. t \in Task /\ t.do = "start" /\ t.deps = TRUE
      BY <1>1, <2>1 DEF Call, Task, HeapOK
    <2>3. Calls(<<t>>)
      BY <1>3
    <2> HIDE DEF t
    <2>4. Deep(t) /\ InPlaceOf(t, Head(tasks))
      BY <2>1, <2>2 DEF Deep, InPlaceOf, Stops
    <2> QED
      BY <1>1, <2>2, <2>3, <2>4, HandsOne
  <1> QED
    BY <1>2, <1>3 DEF AfterStop, Resume, Listen, Returns

LEMMA SlotOrder ==
    ASSUME TypeOK, OrderInv, SlotStep, ~Exit PROVE OrderInv'
  <1>1. ThreadOK /\ HeapGrows /\ tasks # <<>>
    BY SlotCalls, TypeSplit
  <1>2. happened \subseteq happened' /\ up' = up
    BY DEF SlotStep, Start, StartDep, Launch, Stop, AfterStop, Watch, Resume, Listen, Happens, history
  <1>3. HandedOver
    BY StartOrder, StartDepOrder, LaunchOrder, StopOrder, WatchOrder, OtherOrder DEF SlotStep
  <1> QED
    BY <1>1, <1>2, <1>3, OrderHanded

(* What the loop and its timers ask of the thread about one object.        *)
Served(o, deps) ==
    \/ tasks' = <<>> /\ wanted' = wanted
    \/ tasks' = <<Call("start", o, deps)>> /\ wanted' = wanted \cup {Of(o)}
    \/ tasks' = <<Call("stop", o, deps)>> /\ wanted' = wanted \ {Of(o)}
    \/ /\ tasks' = <<Call("stop", o, deps), Call("start", o, deps)>>
       /\ wanted \subseteq wanted' /\ Of(o) \in running \cup wanted'

LoopServes ==
    \E o \in DOMAIN heap, deps \in BOOLEAN :
        Served(o, deps) /\ ("alone" \notin happened' => deps = TRUE)

LEMMA ObeyServes == ASSUME TypeOK, WatchersInv, Obey PROVE LoopServes
  <1>1. PICK s \in Services, t \in TriggerNames :
          /\ <<s, t>> \in triggers
          /\ triggers' = triggers \ {<<s, t>>}
          /\ \/ /\ Refused(s, t)
                /\ UNCHANGED <<tasks, happened, wanted>>
             \/ /\ ~Refused(s, t)
                /\ tasks' = Slot(t, Watcher(s))
                /\ Happens(IF Alone(t) THEN {"alone"} ELSE {})
                /\ wanted' = CASE t \in StopTriggers -> wanted \ {s}
                               [] tasks' # <<>> /\ s \notin running -> wanted \cup {s}
                               [] OTHER -> wanted
    BY DEF Obey
  <1> DEFINE o == Watcher(s)  deps == ~Alone(t)
  <1>2. o \in DOMAIN heap /\ Of(o) = s /\ deps \in BOOLEAN /\ tasks = <<>>
    BY WatcherExists DEF Obey, AtLoop, Alone
  <1> HIDE DEF o
  <1>3. CASE Refused(s, t) /\ UNCHANGED <<tasks, happened, wanted>>
    <2>1. Served(o, TRUE)
      BY <1>2, <1>3 DEF Served
    <2> QED
      BY <1>2, <2>1 DEF LoopServes
  <1>4. CASE ~Refused(s, t) /\ tasks' = Slot(t, o)
    <2>1. "alone" \notin happened' => deps = TRUE
      BY <1>1, <1>4 DEF Happens
    <2>2. wanted' = CASE t \in StopTriggers -> wanted \ {s}
                      [] tasks' # <<>> /\ s \notin running -> wanted \cup {s}
                      [] OTHER -> wanted
      BY <1>1, <1>4
    <2> HIDE DEF deps
    <2>3. CASE t \in StartTriggers
      <3>1. tasks' = <<Call("start", o, deps)>> /\ t \notin StopTriggers /\ s \notin running
        BY <1>4, <2>3 DEF Slot, Refused, StartTriggers, StopTriggers, RestartTriggers, deps
      <3>2. wanted' = wanted \cup {s}
        BY <2>2, <3>1
      <3> QED
        BY <1>2, <2>1, <3>1, <3>2 DEF Served, LoopServes
    <2>4. CASE t \in StopTriggers
      <3>1. tasks' = <<Call("stop", o, deps)>>
        BY <1>4, <2>4 DEF Slot, StartTriggers, StopTriggers, RestartTriggers, deps
      <3>2. s \in running
        BY <1>4, <2>4 DEF Refused
      <3>3. wanted' = wanted \ {s}
        BY <2>2, <2>4, <3>2
      <3> QED
        BY <1>2, <2>1, <3>1, <3>3 DEF Served, LoopServes
    <2>5. CASE t \in RestartTriggers
      <3>1. tasks' = Restart(o, deps) /\ t \notin StopTriggers
        BY <1>4, <2>5 DEF Slot, StartTriggers, StopTriggers, RestartTriggers, deps
      <3>2. CASE tasks' = <<>>
        <4>1. wanted' = wanted
          BY <2>2, <3>1, <3>2
        <4> QED
          BY <1>2, <2>1, <3>2, <4>1 DEF Served, LoopServes
      <3>3. CASE tasks' = <<Call("stop", o, deps), Call("start", o, deps)>>
        <4>1. tasks' # <<>>
          BY <3>3
        <4>2. wanted \subseteq wanted' /\ s \in running \cup wanted'
          BY <2>2, <3>1, <4>1
        <4> QED
          BY <1>2, <2>1, <3>3, <4>2 DEF Served, LoopServes
      <3> QED
        BY <3>1, <3>2, <3>3 DEF Restart
    <2> QED
      BY <2>3, <2>4, <2>5 DEF TriggerNames
  <1> QED
    BY <1>1, <1>3, <1>4 DEF o

LEMMA BabySittersServe == ASSUME TypeOK, BabySitters PROVE LoopServes
  <1>1. PICK o \in DOMAIN heap : BabySitterSlot(o)
    BY DEF BabySitters
  <1>2. tasks = <<>> /\ wanted' = wanted
    BY <1>1 DEF BabySitters, AtLoop, BabySitterSlot, history
  <1>3. CASE tasks' = <<>>
    BY <1>1, <1>2, <1>3 DEF Served, LoopServes
  <1>4. CASE Of(o) \in running /\ tasks' = Restart(o, TRUE)
    <2>1. Served(o, TRUE)
      BY <1>2, <1>4 DEF Restart, Served
    <2> QED
      BY <1>1, <2>1 DEF LoopServes
  <1> QED
    BY <1>1, <1>2, <1>3, <1>4 DEF BabySitterSlot

LEMMA FreshOrder ==
    ASSUME \A i \in DOMAIN tasks' : tasks'[i].do \notin {"startDep", "launch"},
           Ordered', Whole', Idle'
    PROVE  OrderInv'
  BY DEF OrderInv, Expected, ProvidedInv, Provided

LEMMA LoopOrder ==
    ASSUME TypeOK, LoopServes, up' = TRUE PROVE OrderInv'
  <1>1. PICK o \in DOMAIN heap, deps \in BOOLEAN :
           Served(o, deps) /\ ("alone" \notin happened' => deps = TRUE)
    BY DEF LoopServes
  <1> DEFINE stop == Call("stop", o, deps)  start == Call("start", o, deps)
  <1>2. /\ stop.do = "stop" /\ start.do = "start"
        /\ "alone" \notin happened' => Deep(stop) /\ Deep(start)
    BY <1>1 DEF Call, Deep
  <1>3. tasks' \in {<<>>, <<start>>, <<stop>>, <<stop, start>>}
    BY <1>1 DEF Served
  <1> HIDE DEF start, stop
  <1>4. /\ \A i \in DOMAIN tasks' : tasks'[i] \in {start, stop}
        /\ \A i, j \in DOMAIN tasks' : j < i => tasks'[j] = stop
    BY <1>3
  <1>5. Ordered'
    BY <1>2, <1>4 DEF Ordered, Precedes, Stops
  <1>6. Whole'
    BY <1>2, <1>4 DEF Whole
  <1>7. \A i \in DOMAIN tasks' : tasks'[i].do \notin {"startDep", "launch"}
    BY <1>2, <1>4
  <1> QED
    BY <1>5, <1>6, <1>7, FreshOrder DEF Idle

LEMMA EndingWhole ==
    ASSUME HeapOK, WatchersInv, AtLoop PROVE \A i \in DOMAIN Ending : Deep(Ending[i])
  <1> DEFINE called == [i \in DOMAIN Names |-> Call("stop", Watcher(Names[i]), TRUE)]
             last == [do |-> "exit"]
  <1>1. \A i \in 1..Len(Names) : Watcher(Names[i]) \in Nat
    <2>1. \A i \in 1..Len(Names) : Watcher(Names[i]) \in DOMAIN heap
      BY NamesDomain, WatcherExists
    <2> QED
      BY <2>1 DEF HeapOK
  <1>2. \A i \in 1..Len(Names) : Call("stop", Watcher(Names[i]), TRUE) \in Task
    BY <1>1 DEF Task, Call
  <1>3. called = [i \in 1..Len(Names) |-> Call("stop", Watcher(Names[i]), TRUE)]
    BY NamesLength
  <1>4. \A i \in 1..Len(Names) : Deep(called[i])
    BY <1>3 DEF Call, Deep
  <1>5. last \in Task /\ Deep(last)
    BY DEF Task, Deep
  <1> HIDE DEF called, last
  <1>6. called \in [1..Len(Names) -> Task]
    BY <1>2, <1>3
  <1>7. called \in Seq(Task) /\ Len(called) = Len(Names)
    BY <1>6, NamesLength
  <1>8. Ending = called \o <<last>>
    BY DEF Ending, called, last
  <1>9. /\ \A i \in 1..Len(called) : Ending[i] = called[i]
        /\ Ending[Len(called) + 1] = last
    BY <1>5, <1>7, <1>8, SnocSeq
  <1>10. \A i \in DOMAIN Ending : i \in 1..Len(Names) \/ i = Len(Names) + 1
    BY EndingType, NamesLength
  <1> QED
    BY <1>4, <1>5, <1>7, <1>9, <1>10

LEMMA ControlOrder ==
    ASSUME TypeOK, WatchersInv, CheckUserControlTriggers PROVE OrderInv'
  <1>1. HeapOK /\ AtLoop
    BY TypeSplit DEF CheckUserControlTriggers
  <1>2. CASE Gone
    BY <1>2, FreshOrder DEF Gone, Ordered, Whole, Idle
  <1>3. CASE tasks' = Ending /\ up' = up
    <2>1. /\ DOMAIN Ending = 1..(Len(Names) + 1) /\ Len(Names) \in Nat
          /\ \A i \in 1..Len(Names) : Ending[i].do = "stop"
          /\ Ending[Len(Names) + 1].do = "exit"
      BY <1>1, EndingType, NamesLength
    <2>2. \A i \in DOMAIN Ending : Ending[i].do \in {"stop", "exit"}
      BY <2>1
    <2>3. \A i, j \in DOMAIN Ending : j < i => Ending[j].do = "stop"
      BY <2>1
    <2>4. Ordered'
      BY <1>3, <2>2, <2>3 DEF Ordered, Precedes, Stops
    <2>5. Whole' /\ Idle'
      BY <1>1, <1>3, EndingWhole DEF Whole, Idle, AtLoop
    <2> QED
      BY <1>3, <2>2, <2>4, <2>5, FreshOrder
  <1> QED
    BY <1>2, <1>3 DEF CheckUserControlTriggers, Ending

LEMMA BootOrder == ASSUME Boot PROVE OrderInv'
  <1>1. tasks' = Booting /\ up' = TRUE
    BY DEF Boot, Booting
  <1>2. DOMAIN Booting = 1..(Len(Names) + 1) /\ Len(Names) \in Nat
    BY BootingType, NamesLength
  <1>3. \A i \in DOMAIN Booting : Booting[i].do \in {"watch", "listen"}
    BY <1>2, BootingType
  <1>4. Ordered'
    BY <1>1, <1>3 DEF Ordered, Precedes, Stops
  <1>5. Whole'
    BY <1>1, <1>3 DEF Whole, Deep
  <1> QED
    BY <1>1, <1>3, <1>4, <1>5, FreshOrder DEF Idle

(* Steps that leave the thread, its objects and the marks alone.           *)
Elsewhere ==
    \/ \E s \in Services, t \in TriggerNames : Touch(s, t)
    \/ \E f \in {"shutdown", "shutdownGracefully"} : TouchControl(f)
    \/ \E s \in Services : ProcessDies(s)
    \/ UNCHANGED vars

LEMMA ElsewhereKept ==
    ASSUME Elsewhere
    PROVE  /\ tasks' = tasks /\ heap' = heap /\ running' = running /\ up' = up
           /\ happened' = happened /\ wanted' = wanted
  BY DEF Elsewhere, Touch, TouchControl, ProcessDies, vars, memory, marks, history

LEMMA OrderInit == Init => OrderInv
  BY DEF Init, OrderInv, Ordered, Expected, Whole, ProvidedInv, Provided, Idle

LEMMA OrderStep == BaseInv /\ OrderInv /\ [Next]_vars => OrderInv'
  <1> SUFFICES ASSUME TypeOK, WatchersInv, OrderInv, [Next]_vars PROVE OrderInv'
    BY DEF BaseInv
  <1>1. CASE SlotStep /\ ~Exit
    BY <1>1, SlotOrder
  <1>2. CASE Exit \/ Killed
    BY <1>2, FreshOrder DEF Exit, Killed, Gone, Ordered, Whole, Idle
  <1>3. CASE Obey
    BY <1>3, ObeyServes, LoopOrder DEF Obey, AtLoop
  <1>4. CASE BabySitters
    <2>1. up' = TRUE
      BY <1>4 DEF BabySitters, BabySitterSlot, AtLoop
    <2> QED
      BY <1>4, <2>1, BabySittersServe, LoopOrder
  <1>5. CASE CheckUserControlTriggers
    BY <1>5, ControlOrder
  <1>6. CASE Boot
    BY <1>6, BootOrder
  <1>7. CASE Elsewhere
    BY <1>7, ElsewhereKept DEF OrderInv, Ordered, Whole, ProvidedInv, Idle
  <1> QED
    BY <1>1, <1>2, <1>3, <1>4, <1>5, <1>6, <1>7 DEF Next, Elsewhere

-----------------------------------------------------------------------------
(* What is up, and what is sure to come up.                                *)

(* The services that the tasks of q bring up, and those that they end.     *)
Aims(q, objects) == {d \in Services : \E i \in DOMAIN q : Brings(q[i], d, objects)}

Targets(do, q, objects) ==
    {d \in Services : \E i \in DOMAIN q : q[i].do = do /\ objects[q[i].at].of = d}

Aim == Aims(tasks, heap)

(* Marked running, and not about to lose the mark.                         *)
Up == running \ Targets("afterStop", tasks, heap)

(* X holds what is aimed at, and the dependencies of what in it is not up. *)
Cover(X, A, U) == A \subseteq X /\ \A x \in X \ U : Needs(x) \subseteq X

Sure(d, A, U) == \A X \in SUBSET Services : Cover(X, A, U) => d \in U \cup X

Due(d, A, U) == \A X \in SUBSET Services : Cover(X, A, U) => d \in X

LEMMA NeedsType == \A s \in Services : Needs(s) \subseteq Services
  BY RequiresType DEF Needs, Range

(* What is sure stays sure when services come up after their dependencies. *)
LEMMA SureGrows ==
    ASSUME NEW A, NEW U, NEW A2, NEW U2 \in SUBSET Services,
           U \subseteq U2, A \subseteq A2 \cup U2,
           \A s \in U2 \ U : Needs(s) \subseteq U2,
           NEW d, Sure(d, A, U)
    PROVE  Sure(d, A2, U2)
  <1> SUFFICES ASSUME NEW X \in SUBSET Services, Cover(X, A2, U2) PROVE d \in U2 \cup X
    BY DEF Sure
  <1>1. Cover(X \cup U2, A, U)
    BY DEF Cover
  <1> QED
    BY <1>1 DEF Sure

(* And when one goes down that is not the one, or is due to come back.     *)
LEMMA SureStops ==
    ASSUME NEW A, NEW U, NEW A2, NEW U2, NEW s, U2 = U \ {s}, A \subseteq A2,
           NEW d, Sure(d, A, U), d = s => Due(s, A2, U2)
    PROVE  Sure(d, A2, U2)
  <1> SUFFICES ASSUME NEW X \in SUBSET Services, Cover(X, A2, U2) PROVE d \in U2 \cup X
    BY DEF Sure
  <1>1. Cover(X, A, U)
    BY DEF Cover
  <1> QED
    BY <1>1 DEF Sure, Due

LEMMA DueStops ==
    ASSUME NEW A, NEW U, NEW A2, NEW U2, U2 \subseteq U, A \subseteq A2, NEW d, Due(d, A, U)
    PROVE  Due(d, A2, U2)
  <1> SUFFICES ASSUME NEW X \in SUBSET Services, Cover(X, A2, U2) PROVE d \in X
    BY DEF Due
  <1>1. Cover(X, A, U)
    BY DEF Cover
  <1> QED
    BY <1>1 DEF Due

LEMMA DueNeeds ==
    ASSUME NEW A, NEW U, NEW s, Due(s, A, U), s \notin U, NEW d \in Needs(s)
    PROVE  Due(d, A, U)
  BY DEF Due, Cover

(* The tasks of a slot, with those before and behind.                      *)
LEMMA TailKept ==
    ASSUME ThreadOK, tasks # <<>>
    PROVE  /\ DOMAIN Tail(tasks) = 1..(Len(tasks) - 1) /\ Len(tasks) \in Nat \ {0}
           /\ \A k \in 2..Len(tasks) :
                 k - 1 \in DOMAIN Tail(tasks) /\ Tail(tasks)[k - 1] = tasks[k]
           /\ \A k \in DOMAIN Tail(tasks) :
                 /\ k + 1 \in DOMAIN tasks /\ k + 1 \in 2..Len(tasks)
                 /\ Tail(tasks)[k] = tasks[k + 1]
  <1>1. /\ Len(tasks) \in Nat \ {0} /\ DOMAIN tasks = 1..Len(tasks)
        /\ DOMAIN Tail(tasks) = 1..(Len(tasks) - 1)
        /\ \A k \in 1..(Len(tasks) - 1) : Tail(tasks)[k] = tasks[k + 1]
    BY DEF ThreadOK
  <1>2. /\ \A k \in 2..Len(tasks) : k - 1 \in 1..(Len(tasks) - 1) /\ k - 1 + 1 = k
        /\ \A k \in 1..(Len(tasks) - 1) : k + 1 \in 1..Len(tasks) /\ k + 1 \in 2..Len(tasks)
    BY <1>1
  <1> QED
    BY <1>1, <1>2

LEMMA AimsCalls ==
    ASSUME ThreadOK, HeapGrows, tasks # <<>>, NEW first \in Seq(Task), Calls(first)
    PROVE  /\ Aims(tasks', heap') = Aims(first, heap') \cup Aims(Tail(tasks), heap)
           /\ Aim = {d \in Services : Brings(Head(tasks), d, heap)} \cup Aims(Tail(tasks), heap)
  <1>1. ASSUME NEW k \in DOMAIN tasks, NEW d PROVE Brings(tasks[k], d, heap') <=> Brings(tasks[k], d, heap)
    BY AimKept DEF Brings, ObjectTasks
  <1>2. ASSUME NEW d \in Aims(tasks', heap')
        PROVE  d \in Aims(first, heap') \cup Aims(Tail(tasks), heap)
    <2>1. PICK i \in DOMAIN tasks' : Brings(tasks'[i], d, heap')
      BY <1>2 DEF Aims
    <2>2. CASE i \in 1..Len(first) /\ tasks'[i] = first[i]
      BY <1>2, <2>1, <2>2, Sequel DEF Aims
    <2>3. ASSUME NEW k \in 2..Len(tasks), tasks'[i] = tasks[k]
          PROVE  d \in Aims(Tail(tasks), heap)
      <3>1. k \in DOMAIN tasks
        BY Sequel
      <3>2. Brings(tasks[k], d, heap)
        BY <1>1, <2>1, <2>3, <3>1
      <3> QED
        BY <1>2, <3>2, TailKept DEF Aims
    <2> QED
      BY <2>2, <2>3, Sequel
  <1>3. ASSUME NEW d \in Aims(first, heap') PROVE d \in Aims(tasks', heap')
    BY <1>3, Sequel DEF Aims
  <1>4. ASSUME NEW d \in Aims(Tail(tasks), heap) PROVE d \in Aims(tasks', heap')
    <2>1. PICK k \in DOMAIN Tail(tasks) : Brings(Tail(tasks)[k], d, heap)
      BY <1>4 DEF Aims
    <2>2. k + 1 \in 2..Len(tasks) /\ Brings(tasks[k + 1], d, heap) /\ k + 1 \in DOMAIN tasks
      BY <2>1, TailKept
    <2>3. Brings(tasks[k + 1], d, heap')
      BY <1>1, <2>2
    <2> QED
      BY <1>4, <2>2, <2>3, Sequel DEF Aims
  <1>5. Aim = {d \in Services : Brings(Head(tasks), d, heap)} \cup Aims(Tail(tasks), heap)
    <2>1. ASSUME NEW d \in Aim
          PROVE  Brings(Head(tasks), d, heap) \/ d \in Aims(Tail(tasks), heap)
      <3>1. PICK k \in DOMAIN tasks : Brings(tasks[k], d, heap)
        BY <2>1 DEF Aim, Aims
      <3>2. CASE k = 1
        BY <3>1, <3>2, Sequel
      <3>3. CASE k \in 2..Len(tasks)
        BY <2>1, <3>1, <3>3, TailKept DEF Aim, Aims
      <3> QED
        BY <3>2, <3>3, Sequel
    <2>2. ASSUME NEW d \in Services, Brings(Head(tasks), d, heap) PROVE d \in Aim
      BY <2>2, HeadType DEF Aim, Aims
    <2>3. ASSUME NEW d \in Aims(Tail(tasks), heap) PROVE d \in Aim
      BY <2>3, TailKept DEF Aim, Aims
    <2>4. Aim \subseteq Services
      BY DEF Aim, Aims
    <2> QED
      BY <2>1, <2>2, <2>3, <2>4
  <1> QED
    BY <1>2, <1>3, <1>4, <1>5

LEMMA TargetsCalls ==
    ASSUME ThreadOK, HeapGrows, tasks # <<>>, NEW first \in Seq(Task), Calls(first),
           NEW do \in ObjectTasks
    PROVE  /\ Targets(do, tasks', heap') = Targets(do, first, heap') \cup Targets(do, Tail(tasks), heap)
           /\ Targets(do, tasks, heap) =
                 {d \in Services : Head(tasks).do = do /\ Of(Head(tasks).at) = d}
                 \cup Targets(do, Tail(tasks), heap)
  <1>1. ASSUME NEW k \in DOMAIN tasks, tasks[k].do = do
        PROVE  heap'[tasks[k].at].of = heap[tasks[k].at].of
    BY <1>1, AimKept
  <1>2. ASSUME NEW d \in Targets(do, tasks', heap')
        PROVE  d \in Targets(do, first, heap') \cup Targets(do, Tail(tasks), heap)
    <2>1. PICK i \in DOMAIN tasks' : tasks'[i].do = do /\ heap'[tasks'[i].at].of = d
      BY <1>2 DEF Targets
    <2>2. CASE i \in 1..Len(first) /\ tasks'[i] = first[i]
      BY <1>2, <2>1, <2>2, Sequel DEF Targets
    <2>3. ASSUME NEW k \in 2..Len(tasks), tasks'[i] = tasks[k]
          PROVE  d \in Targets(do, Tail(tasks), heap)
      <3>1. k \in DOMAIN tasks
        BY Sequel
      <3>2. tasks[k].do = do /\ heap[tasks[k].at].of = d
        BY <1>1, <2>1, <2>3, <3>1
      <3> QED
        BY <1>2, <3>2, TailKept DEF Targets
    <2> QED
      BY <2>2, <2>3, Sequel
  <1>3. ASSUME NEW d \in Targets(do, first, heap') PROVE d \in Targets(do, tasks', heap')
    BY <1>3, Sequel DEF Targets
  <1>4. ASSUME NEW d \in Targets(do, Tail(tasks), heap) PROVE d \in Targets(do, tasks', heap')
    <2>1. PICK k \in DOMAIN Tail(tasks) : Tail(tasks)[k].do = do /\ heap[Tail(tasks)[k].at].of = d
      BY <1>4 DEF Targets
    <2>2. /\ k + 1 \in 2..Len(tasks) /\ k + 1 \in DOMAIN tasks
          /\ tasks[k + 1].do = do /\ heap[tasks[k + 1].at].of = d
      BY <2>1, TailKept
    <2>3. heap'[tasks[k + 1].at].of = d
      BY <1>1, <2>2
    <2> QED
      BY <1>4, <2>2, <2>3, Sequel DEF Targets
  <1>5. Targets(do, tasks, heap) =
           {d \in Services : Head(tasks).do = do /\ Of(Head(tasks).at) = d}
           \cup Targets(do, Tail(tasks), heap)
    <2>1. ASSUME NEW d \in Targets(do, tasks, heap)
          PROVE  \/ Head(tasks).do = do /\ Of(Head(tasks).at) = d
                 \/ d \in Targets(do, Tail(tasks), heap)
      <3>1. PICK k \in DOMAIN tasks : tasks[k].do = do /\ heap[tasks[k].at].of = d
        BY <2>1 DEF Targets
      <3>2. CASE k = 1
        BY <3>1, <3>2, Sequel DEF Of
      <3>3. CASE k \in 2..Len(tasks)
        BY <2>1, <3>1, <3>3, TailKept DEF Targets
      <3> QED
        BY <3>2, <3>3, Sequel
    <2>2. ASSUME NEW d \in Services, Head(tasks).do = do, Of(Head(tasks).at) = d
          PROVE  d \in Targets(do, tasks, heap)
      BY <2>2, HeadType DEF Targets, Of
    <2>3. ASSUME NEW d \in Targets(do, Tail(tasks), heap) PROVE d \in Targets(do, tasks, heap)
      BY <2>3, TailKept DEF Targets
    <2>4. Targets(do, tasks, heap) \subseteq Services
      BY DEF Targets
    <2> QED
      BY <2>1, <2>2, <2>3, <2>4
  <1> QED
    BY <1>2, <1>3, <1>4, <1>5

-----------------------------------------------------------------------------
(* An object lists dependencies of its service only, and drops none.       *)
ListsInv == \A o \in DOMAIN heap : Adopted(o) \subseteq Needs(Of(o))

ListsGrow == \A o \in DOMAIN heap : Adopted(o) \subseteq Adopted(o)'

LEMMA ListSame ==
    ASSUME HeapOK, HeapGrows, NEW o \in DOMAIN heap, heap'[o].deps = heap[o].deps
    PROVE  Adopted(o)' = Adopted(o)
  <1>1. \A i \in DOMAIN heap[o].deps : heap[o].deps[i] \in DOMAIN heap
    BY DEF HeapOK, Range
  <1>2. \A i \in DOMAIN heap[o].deps : heap'[heap[o].deps[i]].of = heap[heap[o].deps[i]].of
    BY <1>1 DEF HeapGrows
  <1> QED
    BY <1>2 DEF Adopted, Of

LEMMA ListsSame ==
    ASSUME HeapOK, HeapGrows, ListsInv, \A o \in DOMAIN heap : heap'[o].deps = heap[o].deps,
           \A o \in DOMAIN heap' \ DOMAIN heap : DOMAIN heap'[o].deps = {}
    PROVE  ListsInv' /\ ListsGrow
  <1>1. \A o \in DOMAIN heap : Adopted(o)' = Adopted(o) /\ heap'[o].of = heap[o].of
    BY ListSame DEF HeapGrows
  <1>2. \A o \in DOMAIN heap' \ DOMAIN heap : Adopted(o)' = {}
    BY DEF Adopted
  <1>3. ListsGrow
    BY <1>1 DEF ListsGrow
  <1>4. ASSUME NEW o \in DOMAIN heap' PROVE Adopted(o)' \subseteq Needs(heap'[o].of)
    BY <1>1, <1>2 DEF ListsInv, Of
  <1>5. ListsInv'
    BY <1>4 DEF ListsInv, Of
  <1> QED
    BY <1>3, <1>5

LEMMA ListsUnchanged ==
    ASSUME HeapOK, ListsInv, heap' = heap PROVE ListsInv' /\ ListsGrow
  BY HeapKept, ListsSame

LEMMA ListsSits ==
    ASSUME HeapOK, ListsInv, NEW o \in DOMAIN heap, NEW active \in BOOLEAN, Sits(o, active)
    PROVE  ListsInv' /\ ListsGrow
  BY SitsType, ListsSame

LEMMA ListsAppend ==
    ASSUME HeapOK, ListsInv, NEW s \in Services, NEW w \in BOOLEAN, heap' = Append(heap, New(s, w))
    PROVE  ListsInv' /\ ListsGrow
  <1>1. /\ HeapGrows /\ DOMAIN heap' = DOMAIN heap \cup {Len(heap) + 1}
        /\ \A p \in DOMAIN heap : heap'[p] = heap[p]
        /\ heap'[Len(heap) + 1] = New(s, w)
    BY AppendType
  <1>2. DOMAIN New(s, w).deps = {}
    BY DEF New
  <1> QED
    BY <1>1, <1>2, ListsSame

LEMMA ListsChild ==
    ASSUME HeapOK, ListsInv, NEW s \in Services, NEW o \in DOMAIN heap, s \in Needs(Of(o)),
           heap' = Append([heap EXCEPT ![o].deps = Append(@, Len(heap) + 1)], New(s, FALSE))
    PROVE  ListsInv' /\ ListsGrow /\ s \in Adopted(o)'
  <1> DEFINE child == Len(heap) + 1  before == heap[o].deps  after == heap'[o].deps
  <1>1. /\ HeapGrows /\ DOMAIN heap' = DOMAIN heap \cup {child}
        /\ after = Append(before, child)
        /\ \A p \in DOMAIN heap : p # o => heap'[p].deps = heap[p].deps
        /\ heap'[child] = New(s, FALSE)
    BY ChildType
  <1>2. before \in Seq(Nat) /\ child \in Nat
    BY ObjectOf DEF HeapOK
  <1>3. heap'[child].of = s /\ DOMAIN heap'[child].deps = {}
    BY <1>1, NewType DEF New
  <1>4. \A i \in DOMAIN before : before[i] \in DOMAIN heap
    BY DEF HeapOK, Range
  <1>5. \A i \in DOMAIN before : heap'[before[i]].of = heap[before[i]].of
    BY <1>1, <1>4 DEF HeapGrows
  <1> DEFINE n == Len(before) + 1
  <1>6. /\ \A i \in DOMAIN before : i \in DOMAIN after /\ after[i] = before[i]
        /\ \A i \in DOMAIN after : i \in DOMAIN before \/ i = n
        /\ n \in DOMAIN after /\ after[n] = child
    <2> HIDE DEF before, after, child
    <2>1. /\ DOMAIN before = 1..Len(before) /\ DOMAIN after = 1..n /\ Len(before) \in Nat
          /\ \A i \in 1..Len(before) : after[i] = before[i]
          /\ after[n] = child
      BY <1>1, <1>2, AppendSeq
    <2> HIDE DEF after
    <2> QED
      BY <2>1
  <1>7. Adopted(o)' = Adopted(o) \cup {s}
    <2>1. ASSUME NEW i \in DOMAIN before
          PROVE  /\ i \in DOMAIN after /\ heap'[after[i]].of = heap[before[i]].of
      BY <1>5, <1>6
    <2>2. n \in DOMAIN after /\ heap'[after[n]].of = s
      BY <1>3, <1>6
    <2>3. Adopted(o) = {heap[before[i]].of : i \in DOMAIN before}
      BY DEF Adopted, Of
    <2>4. Adopted(o)' = {heap'[after[i]].of : i \in DOMAIN after}
      BY DEF Adopted, Of
    <2> HIDE DEF before, after, n
    <2>5. ASSUME NEW d \in Adopted(o) PROVE d \in Adopted(o)'
      <3>1. PICK i \in DOMAIN before : d = heap[before[i]].of
        BY <2>3, <2>5
      <3> QED
        BY <2>1, <2>4, <3>1
    <2>6. ASSUME NEW d \in Adopted(o)' PROVE d \in Adopted(o) \cup {s}
      <3>1. PICK i \in DOMAIN after : d = heap'[after[i]].of
        BY <2>4, <2>6
      <3>2. CASE i \in DOMAIN before
        BY <2>1, <2>3, <3>1, <3>2
      <3> QED
        BY <1>6, <2>2, <3>1, <3>2
    <2> QED
      BY <2>2, <2>4, <2>5, <2>6
  <1>8. \A p \in DOMAIN heap : p # o => Adopted(p)' = Adopted(p)
    BY <1>1, ListSame
  <1>9. \A p \in DOMAIN heap' \ DOMAIN heap : Adopted(p)' = {}
    BY <1>1, <1>3 DEF Adopted
  <1>10. \A p \in DOMAIN heap : heap'[p].of = heap[p].of
    BY <1>1 DEF HeapGrows
  <1>11. ListsGrow
    BY <1>7, <1>8 DEF ListsGrow
  <1>12. ASSUME NEW p \in DOMAIN heap' PROVE Adopted(p)' \subseteq Needs(heap'[p].of)
    <2>1. CASE p = o
      BY <1>7, <1>10, <2>1 DEF ListsInv, Of
    <2>2. CASE p \in DOMAIN heap /\ p # o
      BY <1>8, <1>10, <2>2 DEF ListsInv, Of
    <2>3. CASE p \notin DOMAIN heap
      BY <1>9, <2>3
    <2> QED
      BY <2>1, <2>2, <2>3
  <1>13. ListsInv'
    BY <1>12 DEF ListsInv, Of
  <1> QED
    BY <1>7, <1>11, <1>13

LEMMA ListsAdopt ==
    ASSUME HeapOK, ListsInv, NEW o \in DOMAIN heap, NEW q \in Adoptions(o),
           heap' = [heap EXCEPT ![o].deps = @ \o [i \in DOMAIN q |-> Len(heap) + i]]
                   \o [i \in DOMAIN q |-> New(q[i], FALSE)]
    PROVE  ListsInv' /\ ListsGrow
  <1> DEFINE before == heap[o].deps  after == heap'[o].deps
  <1>1. /\ HeapGrows
        /\ \A p \in DOMAIN heap : p # o => heap'[p].deps = heap[p].deps
        /\ \A i \in DOMAIN before : i \in DOMAIN after /\ after[i] = before[i]
        /\ \A i \in DOMAIN after \ DOMAIN before : heap'[after[i]].of \in Orphans(o)
        /\ \A p \in DOMAIN heap' \ DOMAIN heap : DOMAIN heap'[p].deps = {}
    BY AdoptType
  <1>2. \A i \in DOMAIN before : before[i] \in DOMAIN heap
    BY DEF HeapOK, Range
  <1>3. \A i \in DOMAIN before : heap'[before[i]].of = heap[before[i]].of
    BY <1>1, <1>2 DEF HeapGrows
  <1>4. Adopted(o) \subseteq Adopted(o)' /\ Adopted(o)' \subseteq Adopted(o) \cup Orphans(o)
    <2>1. Adopted(o) = {heap[before[i]].of : i \in DOMAIN before}
      BY DEF Adopted, Of
    <2>2. Adopted(o)' = {heap'[after[i]].of : i \in DOMAIN after}
      BY DEF Adopted, Of
    <2> HIDE DEF before, after
    <2>3. ASSUME NEW d \in Adopted(o) PROVE d \in Adopted(o)'
      <3>1. PICK i \in DOMAIN before : d = heap[before[i]].of
        BY <2>1, <2>3
      <3> QED
        BY <1>1, <1>3, <2>2, <3>1
    <2>4. ASSUME NEW d \in Adopted(o)' PROVE d \in Adopted(o) \cup Orphans(o)
      <3>1. PICK i \in DOMAIN after : d = heap'[after[i]].of
        BY <2>2, <2>4
      <3>2. CASE i \in DOMAIN before
        BY <1>1, <1>3, <2>1, <3>1, <3>2
      <3> QED
        BY <1>1, <3>1, <3>2
    <2> QED
      BY <2>3, <2>4
  <1>5. Orphans(o) \subseteq Needs(Of(o))
    BY DEF Orphans
  <1>6. \A p \in DOMAIN heap : p # o => Adopted(p)' = Adopted(p)
    BY <1>1, ListSame
  <1>7. \A p \in DOMAIN heap' \ DOMAIN heap : Adopted(p)' = {}
    BY <1>1 DEF Adopted
  <1>8. \A p \in DOMAIN heap : heap'[p].of = heap[p].of
    BY <1>1 DEF HeapGrows
  <1>9. ListsGrow
    BY <1>4, <1>6 DEF ListsGrow
  <1>10. ASSUME NEW p \in DOMAIN heap' PROVE Adopted(p)' \subseteq Needs(heap'[p].of)
    <2>1. CASE p = o
      BY <1>4, <1>5, <1>8, <2>1 DEF ListsInv, Of
    <2>2. CASE p \in DOMAIN heap /\ p # o
      BY <1>6, <1>8, <2>2 DEF ListsInv, Of
    <2>3. CASE p \notin DOMAIN heap
      BY <1>7, <2>3
    <2> QED
      BY <2>1, <2>2, <2>3
  <1>11. ListsInv'
    BY <1>10 DEF ListsInv, Of
  <1> QED
    BY <1>9, <1>11

(* A dependency about to be started is listed by one about to be launched. *)
LEMMA StartDepExpects ==
    ASSUME TypeOK, OrderInv, Doing("startDep")
    PROVE  /\ Head(tasks).at \in DOMAIN heap /\ Head(tasks).service \in Services
           /\ Head(tasks).service \in Needs(Of(Head(tasks).at))
           /\ \E k \in DOMAIN Tail(tasks) :
                 Tail(tasks)[k].do = "launch" /\ Tail(tasks)[k].at = Head(tasks).at
  <1>1. ThreadOK /\ tasks # <<>> /\ Head(tasks).do = "startDep"
    BY TypeSplit DEF Doing
  <1>2. Head(tasks) = tasks[1] /\ 1 \in DOMAIN tasks
    BY <1>1, HeadType
  <1>3. /\ tasks[1].service \in Needs(heap[tasks[1].at].of) /\ LaunchAfter(tasks, 1)
    BY <1>1, <1>2 DEF OrderInv, Expected
  <1>4. PICK k \in DOMAIN tasks : k > 1 /\ tasks[k].do = "launch" /\ tasks[k].at = tasks[1].at
    BY <1>3 DEF LaunchAfter
  <1>5. k \in 2..Len(tasks)
    BY <1>1, <1>4 DEF ThreadOK
  <1>6. k - 1 \in DOMAIN Tail(tasks) /\ Tail(tasks)[k - 1] = tasks[k]
    BY <1>1, <1>5, TailKept
  <1> QED
    BY <1>1, <1>2, <1>3, <1>4, <1>6, HeadTask DEF ObjectTasks, Of

LEMMA SlotLists ==
    ASSUME TypeOK, OrderInv, ListsInv, SlotStep, ~Exit PROVE ListsInv' /\ ListsGrow
  <1> DEFINE o == Head(tasks).at
  <1>1. ThreadOK /\ HeapOK /\ tasks # <<>>
    BY SlotCalls, TypeSplit
  <1>2. CASE heap' = heap
    BY <1>1, <1>2, ListsUnchanged
  <1>3. CASE \E active \in BOOLEAN : o \in DOMAIN heap /\ Sits(o, active)
    BY <1>1, <1>3, ListsSits
  <1>4. CASE Start \/ Launch \/ Stop
    <2>1. o \in DOMAIN heap
      BY <1>1, <1>4, HeadTask DEF Start, Launch, Stop, Doing, ObjectTasks
    <2> QED
      BY <1>2, <1>3, <1>4, <2>1 DEF Start, Launch, Stop
  <1>5. CASE StartDep
    <2>1. Doing("startDep")
      BY <1>5 DEF StartDep
    <2>2. /\ o \in DOMAIN heap /\ Head(tasks).service \in Services
          /\ Head(tasks).service \in Needs(Of(o))
      BY <2>1, StartDepExpects
    <2> HIDE DEF o
    <2> QED
      BY <1>1, <1>2, <1>5, <2>2, ListsChild DEF StartDep, o
  <1>6. CASE Watch
    <2>1. Head(tasks).service \in Services
      BY <1>1, <1>6, HeadTask DEF Watch, Doing
    <2> QED
      BY <1>1, <1>6, <2>1, ListsAppend DEF Watch
  <1>7. CASE AfterStop \/ Resume \/ Listen
    BY <1>2, <1>7 DEF AfterStop, Resume, Listen
  <1> QED
    BY <1>4, <1>5, <1>6, <1>7 DEF SlotStep

LEMMA BabySittersLists ==
    ASSUME TypeOK, ListsInv, BabySitters PROVE ListsInv' /\ ListsGrow
  <1>1. HeapOK
    BY TypeSplit
  <1>2. PICK o \in DOMAIN heap : BabySitterSlot(o)
    BY DEF BabySitters
  <1>3. CASE Sits(o, FALSE)
    BY <1>1, <1>3, ListsSits
  <1>4. CASE heap' = heap
    BY <1>1, <1>4, ListsUnchanged
  <1>5. ASSUME NEW q \in Adoptions(o),
               heap' = [heap EXCEPT ![o].deps = @ \o [i \in DOMAIN q |-> Len(heap) + i]]
                       \o [i \in DOMAIN q |-> New(q[i], FALSE)]
        PROVE  ListsInv' /\ ListsGrow
    BY <1>1, <1>5, ListsAdopt
  <1> QED
    BY <1>2, <1>3, <1>4, <1>5 DEF BabySitterSlot

LEMMA ListsStep == BaseInv /\ OrderInv /\ ListsInv /\ [Next]_vars => ListsInv'
  <1> SUFFICES ASSUME TypeOK, OrderInv, ListsInv, [Next]_vars PROVE ListsInv'
    BY DEF BaseInv
  <1>0. HeapOK
    BY TypeSplit
  <1>1. CASE SlotStep /\ ~Exit
    BY <1>1, SlotLists
  <1>2. CASE Gone
    BY <1>2 DEF Gone, ListsInv
  <1>3. CASE BabySitters
    BY <1>3, BabySittersLists
  <1>4. CASE heap' = heap
    BY <1>0, <1>4, ListsUnchanged
  <1>5. Exit \/ Killed => Gone
    BY DEF Exit, Killed
  <1>6. Obey \/ Boot => heap' = heap
    BY DEF Obey, Boot
  <1>7. CheckUserControlTriggers => Gone \/ heap' = heap
    BY DEF CheckUserControlTriggers
  <1>8. Elsewhere => heap' = heap
    BY ElsewhereKept
  <1> QED
    BY <1>1, <1>2, <1>3, <1>4, <1>5, <1>6, <1>7, <1>8 DEF Next, Elsewhere

-----------------------------------------------------------------------------
(* Back at the loop, what runs has its dependencies; amid the tasks, they  *)
(* are sure to come up.                                                    *)
SureInv ==
    {"cut", "refuse", "alone", "under"} \cap happened = {} =>
        \A t \in Up : \A d \in Needs(t) : Sure(d, Aim, Up)

(* What is stopped while a start is pending is due to come back.           *)
Starting == \E i \in DOMAIN tasks : tasks[i].do = "start"

DueInv == Starting => \A d \in Targets("stop", tasks, heap) : Due(d, Aim, Up)

(* A service that nobody asked for is in the list of an object of one that *)
(* is up or sure to come up, or else it is about to be stopped.            *)
Concerned == Up \cup Targets("start", tasks, heap) \cup Targets("launch", tasks, heap)

Kept(d) == \E o \in DOMAIN heap : d \in Adopted(o) /\ Sure(Of(o), Aim, Up)

Leaving(d) == ~Starting /\ d \in Targets("stop", tasks, heap)

KeptInv ==
    {"down", "alone", "refuse", "forget"} \cap happened = {} =>
        \A d \in Concerned \ (wanted \cup Autostart) : Kept(d) \/ Leaving(d)

TreeInv == SureInv /\ DueInv /\ KeptInv

(* A step that only brings services up, after their dependencies.          *)
Grows ==
    /\ Up \subseteq Up' /\ Aim \subseteq Aim' \cup Up' /\ Up' \subseteq Services
    /\ \A s \in Up' \ Up : Needs(s) \subseteq Up'

(* No start was refused, and none left the dependencies out.               *)
Granted == {"alone", "refuse"} \cap happened = {}

LEMMA SureStays ==
    ASSUME Grows, NEW d, Sure(d, Aim, Up) PROVE Sure(d, Aim', Up')
  <1> DEFINE A == Aim  U == Up  A2 == Aim'  U2 == Up'
  <1>1. /\ U \subseteq U2 /\ A \subseteq A2 \cup U2 /\ U2 \in SUBSET Services
        /\ \A s \in U2 \ U : Needs(s) \subseteq U2
        /\ Sure(d, A, U)
    BY DEF Grows
  <1> HIDE DEF A, U, A2, U2
  <1>2. Sure(d, A2, U2)
    BY <1>1, SureGrows
  <1> QED
    BY <1>2 DEF A2, U2

LEMMA SureGrown ==
    ASSUME SureInv, happened \subseteq happened', Granted' => Grows PROVE SureInv'
  <1> SUFFICES ASSUME {"cut", "refuse", "alone", "under"} \cap happened' = {},
                      NEW t \in Up', NEW d \in Needs(t)
               PROVE  Sure(d, Aim', Up')
    BY DEF SureInv
  <1>1. Grows
    BY DEF Granted
  <1>2. CASE t \in Up
    <2>1. Sure(d, Aim, Up)
      BY <1>2 DEF SureInv
    <2> QED
      BY <1>1, <2>1, SureStays
  <1>3. CASE t \notin Up
    <2>1. d \in Up'
      BY <1>1, <1>3 DEF Grows
    <2> QED
      BY <2>1 DEF Sure
  <1> QED
    BY <1>2, <1>3

LEMMA KeptStays ==
    ASSUME Grows, HeapGrows, ListsGrow, NEW d, Kept(d) PROVE Kept(d)'
  <1>1. PICK o \in DOMAIN heap : d \in Adopted(o) /\ Sure(Of(o), Aim, Up)
    BY DEF Kept
  <1>2. o \in DOMAIN heap' /\ heap'[o].of = heap[o].of /\ d \in Adopted(o)'
    BY <1>1 DEF HeapGrows, ListsGrow
  <1>3. Sure(heap'[o].of, Aim', Up')
    BY <1>1, <1>2, SureStays DEF Of
  <1> QED
    BY <1>2, <1>3 DEF Kept, Of

LEMMA KeptGrown ==
    ASSUME KeptInv, happened \subseteq happened', HeapGrows, ListsGrow, Granted' => Grows,
           Targets("stop", tasks, heap) = {},
           Granted' => \A d \in Concerned' \ (wanted' \cup Autostart) :
                        d \in Concerned \ wanted \/ Kept(d)' \/ Leaving(d)'
    PROVE  KeptInv'
  <1> SUFFICES ASSUME {"down", "alone", "refuse", "forget"} \cap happened' = {},
                      NEW d \in Concerned' \ (wanted' \cup Autostart)
               PROVE  Kept(d)' \/ Leaving(d)'
    BY DEF KeptInv
  <1>1. Grows /\ (d \in Concerned \ wanted \/ Kept(d)' \/ Leaving(d)')
    BY DEF Granted
  <1>2. CASE d \in Concerned \ wanted
    <2>1. Kept(d)
      BY <1>2 DEF KeptInv, Leaving
    <2> QED
      BY <1>1, <2>1, KeptStays
  <1> QED
    BY <1>1, <1>2

(* Slots that stop nothing find no stop among the tasks, and leave none.   *)
LEMMA NoStops ==
    ASSUME ThreadOK, tasks # <<>>, Ordered, Head(tasks).do \notin Stops
    PROVE  /\ \A do \in Stops : Targets(do, tasks, heap) = {}
           /\ Up = running \ {}
  <1>1. ASSUME NEW k \in DOMAIN tasks PROVE tasks[k].do \notin Stops
    <2>1. CASE k = 1
      BY <2>1, HeadType
    <2>2. CASE k # 1
      <3>1. 1 \in DOMAIN tasks /\ 1 < k /\ Head(tasks) = tasks[1]
        BY <2>2 DEF ThreadOK
      <3> QED
        BY <3>1 DEF Ordered, Precedes
    <2> QED
      BY <2>1, <2>2
  <1>2. \A do \in Stops : Targets(do, tasks, heap) = {}
    BY <1>1 DEF Targets
  <1> QED
    BY <1>2 DEF Up, Stops

LEMMA HandedGrows ==
    ASSUME TypeOK, TypeOK', HeapGrows, tasks # <<>>, OrderInv, HandedOver,
           Head(tasks).do \notin Stops \cup {"exit"},
           Granted' => \A s \in running' \ running : Needs(s) \subseteq running',
           Granted' => running \subseteq running'
    PROVE  /\ Granted' => Grows
           /\ Up = running /\ Up' = running'
           /\ \A do \in Stops : Targets(do, tasks, heap) = {} /\ Targets(do, tasks', heap') = {}
  <1>1. ThreadOK /\ Ordered /\ running' \subseteq Services
    BY TypeSplit DEF OrderInv, TypeOK
  <1>2. PICK first \in Seq(Task) : Calls(first) /\ HandsOver(first)
    BY DEF HandedOver
  <1>3. /\ \A do \in Stops : Targets(do, tasks, heap) = {}
        /\ Up = running
    BY <1>1, NoStops
  <1>4. \A do \in Stops : Targets(do, first, heap') = {}
    <2>1. \A i \in DOMAIN first : first[i].do \notin Stops
      BY <1>2 DEF HandsOver, InPlaceOf, Stops, Starts
    <2> QED
      BY <2>1 DEF Targets
  <1>5. \A do \in Stops : Targets(do, tasks', heap') = {}
    <2> SUFFICES ASSUME NEW do \in Stops PROVE Targets(do, tasks', heap') = {}
      OBVIOUS
    <2>1. do \in ObjectTasks
      BY DEF Stops, ObjectTasks
    <2> QED
      BY <1>1, <1>2, <1>3, <1>4, <2>1, TargetsCalls
  <1>6. Up' = running'
    BY <1>5 DEF Up, Stops
  <1>7. ASSUME Granted' PROVE Aim \subseteq Aim' \cup running'
    <2>1. /\ Aims(tasks', heap') = Aims(first, heap') \cup Aims(Tail(tasks), heap)
          /\ Aim = {d \in Services : Brings(Head(tasks), d, heap)} \cup Aims(Tail(tasks), heap)
      BY <1>1, <1>2, AimsCalls
    <2>2. ASSUME NEW d \in Services, Brings(Head(tasks), d, heap), d \notin running'
          PROVE  d \in Aims(first, heap')
      <3>1. Head(tasks).do \in Starts
        BY <2>2 DEF Brings, Starts
      <3>2. \E i \in DOMAIN first : Brings(first[i], d, heap')
        BY <1>2, <1>7, <2>2, <3>1 DEF HandsOver, Granted
      <3> QED
        BY <3>2 DEF Aims
    <2> QED
      BY <2>1, <2>2 DEF Aim
  <1>8. ASSUME Granted' PROVE Grows
    BY <1>1, <1>3, <1>6, <1>7, <1>8 DEF Grows
  <1> QED
    BY <1>3, <1>5, <1>6, <1>8

(* Without stops, nothing that is stopped has to come back.                *)
LEMMA DueNone ==
    ASSUME Targets("stop", tasks', heap') = {} PROVE DueInv'
  BY DEF DueInv

(* What the tasks are about, one slot later.                               *)
LEMMA ConcernedCalls ==
    ASSUME ThreadOK, HeapGrows, tasks # <<>>, NEW first \in Seq(Task), Calls(first)
    PROVE  /\ Targets("start", tasks', heap') \cup Targets("launch", tasks', heap') \subseteq
                 Targets("start", first, heap') \cup Targets("launch", first, heap') \cup Concerned
           /\ Head(tasks).do \in {"start", "launch"} /\ Of(Head(tasks).at) \in Services =>
                 Of(Head(tasks).at) \in Concerned
  <1>1. "start" \in ObjectTasks /\ "launch" \in ObjectTasks
    BY DEF ObjectTasks
  <1>2. \A do \in {"start", "launch"} :
           /\ Targets(do, tasks', heap') = Targets(do, first, heap') \cup Targets(do, Tail(tasks), heap)
           /\ Targets(do, tasks, heap) =
                 {d \in Services : Head(tasks).do = do /\ Of(Head(tasks).at) = d}
                 \cup Targets(do, Tail(tasks), heap)
    BY <1>1, TargetsCalls
  <1> QED
    BY <1>2 DEF Concerned

LEMMA TreeHanded ==
    ASSUME TypeOK, TypeOK', HeapGrows, ListsGrow, tasks # <<>>, OrderInv, HandedOver, TreeInv,
           Head(tasks).do \notin Stops \cup {"exit"},
           happened \subseteq happened', wanted' = wanted,
           Granted' => running \subseteq running',
           Granted' => \A s \in running' \ running : Needs(s) \subseteq running',
           Granted' => \A d \in Concerned' \ Autostart : d \in Concerned \/ Kept(d)'
    PROVE  TreeInv'
  <1>1. /\ Granted' => Grows
        /\ \A do \in Stops : Targets(do, tasks, heap) = {} /\ Targets(do, tasks', heap') = {}
    BY HandedGrows
  <1>2. SureInv'
    BY <1>1, SureGrown DEF TreeInv
  <1>3. DueInv'
    BY <1>1, DueNone DEF Stops
  <1>4. KeptInv'
    <2>1. Granted' => \A d \in Concerned' \ (wanted' \cup Autostart) :
                       d \in Concerned \ wanted \/ Kept(d)' \/ Leaving(d)'
      OBVIOUS
    <2>2. Targets("stop", tasks, heap) = {}
      BY <1>1 DEF Stops
    <2> QED
      BY <1>1, <2>1, <2>2, KeptGrown DEF TreeInv
  <1> QED
    BY <1>2, <1>3, <1>4 DEF TreeInv

(* The services that the first tasks start or launch.                      *)
Calling(q, objects) == Targets("start", q, objects) \cup Targets("launch", q, objects)

LEMMA CallingNothing == ASSUME NEW objects PROVE Calling(<<>>, objects) = {}
  BY DEF Calling, Targets

LEMMA ConcernedGrows ==
    ASSUME ThreadOK, HeapGrows, tasks # <<>>, NEW first \in Seq(Task), Calls(first),
           NEW d \in Concerned', d \notin Concerned
    PROVE  d \in running' \ running \/ d \in Calling(first, heap') \/ d \in running \ Up
  BY ConcernedCalls DEF Concerned, Calling, Up

LEMMA StartTree ==
    ASSUME TypeOK, TypeOK', OrderInv, ListsGrow, TreeInv, Start, HeapGrows PROVE TreeInv'
  <1> DEFINE o == Head(tasks).at
             need == IF Head(tasks).deps THEN Requires[Of(o)] ELSE <<>>
  <1>1. /\ ThreadOK /\ HeapOK /\ tasks # <<>> /\ Head(tasks).do = "start"
        /\ o \in DOMAIN heap /\ Head(tasks).deps \in BOOLEAN
        /\ Head(tasks).do \notin Stops \cup {"exit"}
    BY TypeSplit, HeadTask DEF Start, Doing, ObjectTasks, Stops
  <1>2. /\ Of(o) \in Services /\ Requires[Of(o)] \in Seq(Services) /\ o \in Nat
        /\ need \in Seq(Services)
    BY <1>1, ObjectOf
  <1>3. /\ HandedOver /\ running' = running /\ wanted' = wanted /\ happened \subseteq happened'
    BY StartOrder DEF Start, Happens
  <1>4. Up = running
    BY <1>1, NoStops DEF OrderInv
  <1>5. \E first \in Seq(Task) : Calls(first) /\ Calling(first, heap') \subseteq {Of(o)}
    <2>1. CASE Returns
      <3>1. <<>> \in Seq(Task) /\ Calls(<<>>) /\ Calling(<<>>, heap') = {}
        BY <2>1, CallingNothing DEF Returns
      <3> QED
        BY <3>1
    <2>2. CASE Calls(Launching(o, need)) /\ heap' = heap
      <3> DEFINE first == Launching(o, need)
      <3>1. Calls(first)
        BY <2>2
      <3> HIDE DEF need
      <3>2. first \in Seq(Task) /\ \A i \in 1..Len(first) : first[i].at = o
        BY <1>2, LaunchingType
      <3> HIDE DEF first
      <3>3. \A i \in DOMAIN first : first[i].at = o
        BY <3>2
      <3>4. Calling(first, heap') \subseteq {Of(o)}
        BY <2>2, <3>3 DEF Calling, Targets, Of
      <3> QED
        BY <3>1, <3>2, <3>4
    <2> QED
      BY <2>1, <2>2 DEF Start, Launching
  <1>6. PICK first \in Seq(Task) : Calls(first) /\ Calling(first, heap') \subseteq {Of(o)}
    BY <1>5
  <1>7. Of(o) \in Concerned
    BY <1>1, <1>2, <1>6, ConcernedCalls
  <1>8. \A d \in Concerned' : d \in Concerned
    BY <1>1, <1>3, <1>4, <1>6, <1>7, ConcernedGrows
  <1> QED
    BY <1>1, <1>3, <1>8, TreeHanded

LEMMA StartDepTree ==
    ASSUME TypeOK, TypeOK', OrderInv, ListsInv, ListsGrow, TreeInv, StartDep, HeapGrows
    PROVE  TreeInv'
  <1>a. PICK o, s, child : o = Head(tasks).at /\ s = Head(tasks).service /\ child = Len(heap) + 1
    OBVIOUS
  <1> DEFINE t == Call("start", child, TRUE)
  <1>1. /\ ThreadOK /\ HeapOK /\ tasks # <<>> /\ Head(tasks).do = "startDep"
        /\ Head(tasks).do \notin Stops \cup {"exit"}
    BY TypeSplit DEF StartDep, Doing, Stops
  <1>2. /\ o \in DOMAIN heap /\ s \in Services /\ s \in Needs(Of(o))
        /\ \E k \in DOMAIN Tail(tasks) : Tail(tasks)[k].do = "launch" /\ Tail(tasks)[k].at = o
    BY <1>a, StartDepExpects DEF StartDep
  <1>3. /\ HandedOver /\ running' = running /\ wanted' = wanted /\ happened' = happened
    BY StartDepOrder DEF StartDep, marks, history
  <1>4. Up = running
    BY <1>1, NoStops DEF OrderInv
  <1>5. CASE Returns
    <2>1. <<>> \in Seq(Task) /\ Calls(<<>>) /\ Calling(<<>>, heap') = {}
      BY <1>5, CallingNothing DEF Returns
    <2>2. \A d \in Concerned' : d \in Concerned
      BY <1>1, <1>3, <1>4, <2>1, ConcernedGrows
    <2> QED
      BY <1>1, <1>3, <2>2, TreeHanded
  <1>6. CASE /\ heap' = Append([heap EXCEPT ![o].deps = Append(@, child)], New(s, FALSE))
             /\ Calls(<<t>>)
    <2>1. s \in Adopted(o)'
      <3>1. heap' = Append([heap EXCEPT ![o].deps = Append(@, Len(heap) + 1)], New(s, FALSE))
        BY <1>6, <1>a
      <3> QED
        BY <1>1, <1>2, <3>1, ListsChild
    <2> DEFINE first == <<t>>
    <2>2. t \in Task /\ t.at = child /\ heap'[child].of = s
      <3>1. heap'[child] = New(s, FALSE)
        BY <1>1, <1>2, <1>6, <1>a, ChildType
      <3>2. child \in Nat
        BY <1>1, <1>a DEF HeapOK
      <3> QED
        BY <1>2, <3>1, <3>2, NewType DEF Call, Task
    <2>3. Calls(first)
      BY <1>6
    <2> HIDE DEF t
    <2>4. first \in Seq(Task) /\ \A i \in DOMAIN first : first[i] = t
      BY <2>2
    <2> HIDE DEF first
    <2>5. Calling(first, heap') \subseteq {s}
      BY <2>2, <2>4 DEF Calling, Targets
    <2>6. Of(o) \in Aim' /\ o \in DOMAIN heap' /\ heap'[o].of = Of(o) /\ Of(o) \in Services
      <3>1. PICK k \in DOMAIN Tail(tasks) : Tail(tasks)[k].do = "launch" /\ Tail(tasks)[k].at = o
        BY <1>2
      <3>2. Of(o) \in Services
        BY <1>1, <1>2, ObjectOf
      <3>3. Of(o) \in Aims(Tail(tasks), heap)
        BY <3>1, <3>2 DEF Aims, Brings, Of
      <3>4. Of(o) \in Aims(tasks', heap')
        BY <1>1, <2>3, <2>4, <3>3, AimsCalls
      <3> QED
        BY <1>2, <3>2, <3>4 DEF Aim, HeapGrows, Of
    <2>7. Sure(heap'[o].of, Aim', Up')
      BY <2>6 DEF Sure, Cover
    <2>8. Kept(s)'
      BY <2>1, <2>6, <2>7 DEF Kept, Of
    <2>9. \A d \in Concerned' : d \in Concerned \/ Kept(d)'
      <3> SUFFICES ASSUME NEW d \in Concerned', d \notin Concerned PROVE Kept(d)'
        OBVIOUS
      <3>1. d \in Calling(first, heap')
        BY <1>1, <1>3, <1>4, <2>3, <2>4, ConcernedGrows
      <3>2. d = s
        BY <2>5, <3>1
      <3> QED
        BY <2>8, <3>2
    <2> QED
      BY <1>1, <1>3, <2>9, TreeHanded
  <1> QED
    BY <1>5, <1>6, <1>a DEF StartDep

LEMMA LaunchTree ==
    ASSUME TypeOK, TypeOK', OrderInv, ListsGrow, TreeInv, Launch, HeapGrows PROVE TreeInv'
  <1>1. /\ ThreadOK /\ HeapOK /\ tasks # <<>> /\ Head(tasks).do = "launch"
        /\ Head(tasks).do \notin Stops \cup {"exit"}
    BY TypeSplit DEF Launch, Doing, Stops
  <1>2. PICK s : s = Of(Head(tasks).at)
    OBVIOUS
  <1>3. /\ HandedOver /\ wanted' = wanted /\ happened \subseteq happened'
        /\ Granted' => running' = running \cup {s}
    BY <1>2, LaunchOrder DEF Launch, Happens, Granted
  <1>4. Up = running /\ s \in Services /\ Head(tasks) = tasks[1] /\ 1 \in DOMAIN tasks
    BY <1>1, <1>2, NoStops, HeadTask, ObjectOf, HeadType DEF OrderInv, ObjectTasks
  <1>5. Granted' => Needs(s) \subseteq running
    <2> SUFFICES ASSUME Granted', NEW d \in Needs(s), d \notin running PROVE FALSE
      OBVIOUS
    <2>1. Provided(tasks, heap, running)
      BY <1>3 DEF OrderInv, ProvidedInv, Granted
    <2>2. PICK j \in DOMAIN tasks : j < 1
      BY <1>1, <1>2, <1>4, <2>1 DEF Provided, Of
    <2> QED
      BY <1>1, <2>2 DEF ThreadOK
  <1>6. <<>> \in Seq(Task) /\ Calls(<<>>) /\ Calling(<<>>, heap') = {}
    BY CallingNothing DEF Launch, Returns
  <1>7. Granted' => \A d \in Concerned' : d \in Concerned
    <2>1. s \in Concerned
      BY <1>1, <1>2, <1>4, <1>6, ConcernedCalls
    <2> QED
      BY <1>1, <1>3, <1>4, <1>6, <2>1, ConcernedGrows
  <1> QED
    BY <1>1, <1>3, <1>5, <1>7, TreeHanded

LEMMA WatchTree ==
    ASSUME TypeOK, TypeOK', OrderInv, ListsGrow, TreeInv, Watch, HeapGrows PROVE TreeInv'
  <1> DEFINE s == Head(tasks).service  o == Len(heap) + 1
             start == Call("start", o, TRUE)
             resume == [do |-> "resume", at |-> o]
             first == (IF s \in Autostart THEN <<start>> ELSE <<>>) \o <<resume>>
  <1>1. /\ ThreadOK /\ HeapOK /\ tasks # <<>> /\ Head(tasks).do = "watch"
        /\ Head(tasks).do \notin Stops \cup {"exit"} /\ s \in Services
    BY TypeSplit, HeadTask DEF Watch, Doing, Stops
  <1>2. /\ HandedOver /\ running' = running /\ wanted' = wanted /\ happened' = happened
    BY WatchOrder DEF Watch, marks, history
  <1>3. Up = running
    BY <1>1, NoStops DEF OrderInv
  <1>4. Calls(first) /\ heap'[o] = New(s, TRUE)
    BY <1>1, AppendType DEF Watch
  <1>5. heap'[o].of = s
    BY <1>1, <1>4, NewType
  <1>6. start \in Task /\ resume \in Task /\ start.at = o /\ resume.do = "resume"
    BY <1>1 DEF Call, Task, HeapOK
  <1> HIDE DEF start, resume
  <1>7. first \in Seq(Task) /\ Calling(first, heap') \subseteq Autostart
    <2>1. CASE s \in Autostart
      <3>1. first = <<start>> \o <<resume>>
        BY <2>1
      <3> HIDE DEF first
      <3>2. first \in Seq(Task) /\ \A i \in DOMAIN first : first[i] \in {start, resume}
        BY <1>6, <3>1
      <3>3. Calling(first, heap') \subseteq {s}
        BY <1>5, <1>6, <3>2 DEF Calling, Targets
      <3> QED
        BY <2>1, <3>2, <3>3
    <2>2. CASE s \notin Autostart
      <3>1. first = <<>> \o <<resume>>
        BY <2>2
      <3> HIDE DEF first
      <3>2. first = <<resume>>
        BY <1>6, <3>1, TwoFirst
      <3>3. first \in Seq(Task) /\ \A i \in DOMAIN first : first[i] = resume
        BY <1>6, <3>2
      <3>4. Calling(first, heap') = {}
        BY <1>6, <3>3 DEF Calling, Targets
      <3> QED
        BY <3>3, <3>4
    <2> QED
      BY <2>1, <2>2
  <1> HIDE DEF first
  <1>8. \A d \in Concerned' \ Autostart : d \in Concerned
    BY <1>1, <1>2, <1>3, <1>4, <1>7, ConcernedGrows
  <1> QED
    BY <1>1, <1>2, <1>8, TreeHanded

LEMMA ResumeTree ==
    ASSUME TypeOK, TypeOK', OrderInv, ListsGrow, TreeInv, Resume \/ Listen, HeapGrows
    PROVE  TreeInv'
  <1> DEFINE o == Head(tasks).at  t == Call("start", o, TRUE)
  <1>1. /\ ThreadOK /\ HeapOK /\ tasks # <<>>
        /\ Head(tasks).do \in {"resume", "listen"} /\ Head(tasks).do \notin Stops \cup {"exit"}
    BY TypeSplit DEF Resume, Listen, Doing, Stops
  <1>2. /\ HandedOver /\ running' = running /\ wanted' = wanted /\ happened \subseteq happened'
        /\ heap' = heap
    BY OtherOrder DEF Resume, Listen, marks, history, Happens
  <1>3. Up = running
    BY <1>1, NoStops DEF OrderInv
  <1>4. \E first \in Seq(Task) : Calls(first) /\ Calling(first, heap') \subseteq running
    <2>1. CASE Returns
      <3>1. <<>> \in Seq(Task) /\ Calls(<<>>) /\ Calling(<<>>, heap') = {}
        BY <2>1, CallingNothing DEF Returns
      <3> QED
        BY <3>1
    <2>2. CASE Resume /\ Of(o) \in running /\ Calls(<<t>>)
      <3>1. o \in DOMAIN heap
        BY <1>1, <2>2, HeadTask DEF Resume, Doing, ObjectTasks
      <3>2. t \in Task /\ t.at = o
        BY <1>1, <3>1 DEF Call, Task, HeapOK
      <3> DEFINE first == <<t>>
      <3>3. Calls(first)
        BY <2>2
      <3> HIDE DEF t
      <3>4. first \in Seq(Task) /\ \A i \in DOMAIN first : first[i] = t
        BY <3>2
      <3> HIDE DEF first
      <3>5. Calling(first, heap') \subseteq {Of(o)}
        BY <1>2, <3>2, <3>4 DEF Calling, Targets, Of
      <3> QED
        BY <2>2, <3>3, <3>4, <3>5
    <2> QED
      BY <2>1, <2>2 DEF Resume, Listen, Returns
  <1>5. \A d \in Concerned' : d \in Concerned
    <2>1. PICK first \in Seq(Task) : Calls(first) /\ Calling(first, heap') \subseteq running
      BY <1>4
    <2>2. running \subseteq Concerned
      BY <1>3 DEF Concerned
    <2> QED
      BY <1>1, <1>2, <1>3, <2>1, <2>2, ConcernedGrows
  <1> QED
    BY <1>1, <1>2, <1>5, TreeHanded

-----------------------------------------------------------------------------
(* A stop that leaves alone what is up and what is sure to come up.        *)
LEMMA TreeSame ==
    ASSUME HeapGrows, ListsGrow, TreeInv, Aim' = Aim, Up' = Up, Starting' = Starting,
           happened \subseteq happened', wanted' = wanted,
           Concerned' = Concerned,
           Targets("stop", tasks', heap') \subseteq Targets("stop", tasks, heap),
           ~Starting => Targets("stop", tasks, heap) \cap Concerned
                           \subseteq Targets("stop", tasks', heap')
    PROVE  TreeInv'
  <1>1. SureInv'
    <2> SUFFICES ASSUME {"cut", "refuse", "alone", "under"} \cap happened' = {}
                 PROVE  \A t \in Up' : \A d \in Needs(t) : Sure(d, Aim', Up')
      BY DEF SureInv
    <2>1. \A t \in Up : \A d \in Needs(t) : Sure(d, Aim, Up)
      BY DEF TreeInv, SureInv
    <2> QED
      BY <2>1
  <1>2. DueInv'
    <2> SUFFICES ASSUME Starting', NEW d \in Targets("stop", tasks', heap')
                 PROVE  Due(d, Aim', Up')
      BY DEF DueInv
    <2>1. Due(d, Aim, Up)
      BY DEF TreeInv, DueInv
    <2> QED
      BY <2>1
  <1>3. KeptInv'
    <2> SUFFICES ASSUME {"down", "alone", "refuse", "forget"} \cap happened' = {},
                        NEW d \in Concerned \ (wanted \cup Autostart)
                 PROVE  Kept(d)' \/ Leaving(d)'
      BY DEF KeptInv
    <2>1. Kept(d) \/ Leaving(d)
      BY DEF TreeInv, KeptInv
    <2>2. CASE Kept(d)
      <3>1. PICK o \in DOMAIN heap : d \in Adopted(o) /\ Sure(Of(o), Aim, Up)
        BY <2>2 DEF Kept
      <3>2. o \in DOMAIN heap' /\ heap'[o].of = Of(o) /\ d \in Adopted(o)'
        BY <3>1 DEF HeapGrows, ListsGrow, Of
      <3>3. Sure(heap'[o].of, Aim', Up')
        BY <3>1, <3>2
      <3> QED
        BY <3>2, <3>3 DEF Kept, Of
    <2>3. CASE Leaving(d)
      BY <2>3 DEF Leaving
    <2> QED
      BY <2>1, <2>2, <2>3
  <1> QED
    BY <1>1, <1>2, <1>3 DEF TreeInv

(* While the next task stops something, nothing is launched, and stops     *)
(* only change what is stopped.                                            *)
LEMMA StopsAims ==
    ASSUME TypeOK, OrderInv, tasks # <<>>, Head(tasks).do \in Stops
    PROVE  /\ Targets("launch", tasks, heap) = {}
           /\ ~Starting => Aim = {} /\ Targets("start", tasks, heap) = {}
  <1>1. ThreadOK /\ Ordered /\ Expected(tasks, heap)
    BY TypeSplit DEF OrderInv
  <1>2. \A k \in DOMAIN tasks : (k = 1 /\ tasks[k] = Head(tasks)) \/ k \in 2..Len(tasks)
    BY <1>1, HeadType DEF ThreadOK
  <1>3. \A k \in DOMAIN tasks : tasks[k].do # "launch"
    <2> SUFFICES ASSUME NEW k \in DOMAIN tasks, tasks[k].do = "launch" PROVE FALSE
      OBVIOUS
    <2>1. CASE k = 1 /\ tasks[k] = Head(tasks)
      BY <2>1 DEF Stops
    <2>2. CASE k \in 2..Len(tasks)
      BY <1>1, <2>2, NoLaunch DEF Stops, Starts
    <2> QED
      BY <1>2, <2>1, <2>2
  <1>4. \A k \in DOMAIN tasks : tasks[k].do # "startDep"
    BY <1>1, <1>3 DEF Expected, LaunchAfter
  <1> QED
    BY <1>3, <1>4 DEF Targets, Starting, Aim, Aims, Brings

LEMMA StopsKeep ==
    ASSUME TypeOK, HeapGrows, tasks # <<>>, Head(tasks).do \in Stops,
           NEW first \in Seq(Task), Calls(first),
           \A i \in DOMAIN first : first[i].do \in Stops
    PROVE  /\ Aim' = Aim /\ Starting' = Starting
           /\ \A do \in {"start", "launch"} :
                 Targets(do, tasks', heap') = Targets(do, tasks, heap)
  <1>1. ThreadOK
    BY TypeSplit
  <1>2. Aim' = Aim
    <2>1. \A d : ~Brings(Head(tasks), d, heap)
      BY DEF Brings, Stops
    <2>2. Aims(first, heap') = {}
      BY DEF Aims, Brings, Stops
    <2>3. /\ Aims(tasks', heap') = Aims(first, heap') \cup Aims(Tail(tasks), heap)
          /\ Aim = {d \in Services : Brings(Head(tasks), d, heap)} \cup Aims(Tail(tasks), heap)
      BY <1>1, AimsCalls
    <2> QED
      BY <2>1, <2>2, <2>3 DEF Aim
  <1>3. Starting' <=> Starting
    <2>1. ASSUME NEW k \in DOMAIN tasks, tasks[k].do = "start" PROVE Starting'
      <3>1. k # 1 /\ k \in 2..Len(tasks)
        BY <1>1, <2>1, HeadType DEF Stops, ThreadOK
      <3> QED
        BY <1>1, <2>1, <3>1, Sequel DEF Starting
    <2>2. ASSUME NEW i \in DOMAIN tasks', tasks'[i].do = "start" PROVE Starting
      <3>1. CASE i \in 1..Len(first) /\ tasks'[i] = first[i]
        BY <1>1, <2>2, <3>1, Sequel DEF Stops
      <3>2. ASSUME NEW k \in 2..Len(tasks), tasks'[i] = tasks[k] PROVE Starting
        BY <1>1, <2>2, <3>2, Sequel DEF Starting
      <3> QED
        BY <1>1, <3>1, <3>2, Sequel
    <2> QED
      BY <2>1, <2>2 DEF Starting
  <1>4. ASSUME NEW do \in {"start", "launch"}
        PROVE  Targets(do, tasks', heap') = Targets(do, tasks, heap)
    <2>1. do \in ObjectTasks /\ do \notin Stops
      BY DEF ObjectTasks, Stops
    <2>2. Targets(do, first, heap') = {}
      BY <2>1 DEF Targets
    <2>3. /\ Targets(do, tasks', heap') = Targets(do, first, heap') \cup Targets(do, Tail(tasks), heap)
          /\ Targets(do, tasks, heap) =
                {d \in Services : Head(tasks).do = do /\ Of(Head(tasks).at) = d}
                \cup Targets(do, Tail(tasks), heap)
      BY <1>1, <2>1, TargetsCalls
    <2> QED
      BY <2>1, <2>2, <2>3
  <1> QED
    BY <1>2, <1>3, <1>4 DEF Starting

LEMMA AfterStopTree ==
    ASSUME TypeOK, ClearInv, OrderInv, TreeInv, AfterStop PROVE TreeInv'
  <1>a. PICK s : s = Of(Head(tasks).at)
    OBVIOUS
  <1>1. /\ ThreadOK /\ HeapOK /\ tasks # <<>> /\ Head(tasks).do = "afterStop"
        /\ Head(tasks).do \in Stops /\ Calls(<<>>) /\ <<>> \in Seq(Task)
        /\ \A i \in DOMAIN <<>> : FALSE
    BY TypeSplit DEF AfterStop, Doing, Stops, Returns
  <1>2. heap' = heap /\ running' = running \ {s} /\ happened' = happened /\ wanted' = wanted
    BY <1>a, AfterStopUnmarks DEF AfterStop, history
  <1>3. HeapGrows /\ ListsGrow
    BY <1>1, <1>2, HeapKept DEF ListsGrow, Adopted, Of
  <1>4. s \in Services
    BY <1>1, <1>a, HeadTask, ObjectOf DEF ObjectTasks
  <1>5. /\ Aim' = Aim /\ Starting' = Starting
        /\ \A do \in {"start", "launch"} :
              Targets(do, tasks', heap') = Targets(do, tasks, heap)
    BY <1>1, <1>3, StopsKeep
  <1>6. \A do : Targets(do, <<>>, heap') = {}
    BY DEF Targets
  <1>7. /\ Targets("stop", tasks', heap') = Targets("stop", tasks, heap)
        /\ Targets("afterStop", tasks, heap) = {s} \cup Targets("afterStop", tasks', heap')
    <2>1. "stop" \in ObjectTasks /\ "afterStop" \in ObjectTasks
      BY DEF ObjectTasks
    <2>2. \A do \in {"stop", "afterStop"} :
             /\ Targets(do, tasks', heap') = Targets(do, <<>>, heap') \cup Targets(do, Tail(tasks), heap)
             /\ Targets(do, tasks, heap) =
                   {d \in Services : Head(tasks).do = do /\ Of(Head(tasks).at) = d}
                   \cup Targets(do, Tail(tasks), heap)
      BY <1>1, <1>3, <2>1, TargetsCalls
    <2> QED
      BY <1>1, <1>4, <1>6, <1>a, <2>2
  <1>8. Up' = Up
    BY <1>2, <1>7 DEF Up
  <1>9. Concerned' = Concerned
    BY <1>5, <1>8 DEF Concerned
  <1> QED
    BY <1>2, <1>3, <1>5, <1>7, <1>8, <1>9, TreeSame

LEMMA StopIdleTree ==
    ASSUME TypeOK, OrderInv, TreeInv, Stop, Of(Head(tasks).at) \notin running,
           HeapGrows, ListsGrow
    PROVE  TreeInv'
  <1>a. PICK s : s = Of(Head(tasks).at)
    OBVIOUS
  <1>1. /\ ThreadOK /\ tasks # <<>> /\ Head(tasks).do = "stop"
        /\ Head(tasks).do \in Stops /\ Calls(<<>>) /\ <<>> \in Seq(Task)
        /\ \A i \in DOMAIN <<>> : FALSE
    BY TypeSplit DEF Stop, Doing, Stops, Returns
  <1>2. running' = running /\ happened' = happened /\ wanted' = wanted /\ s \notin running
    BY <1>a DEF Stop
  <1>3. /\ Aim' = Aim /\ Starting' = Starting
        /\ \A do \in {"start", "launch"} :
              Targets(do, tasks', heap') = Targets(do, tasks, heap)
    BY <1>1, StopsKeep
  <1>4. \A do : Targets(do, <<>>, heap') = {}
    BY DEF Targets
  <1>5. /\ Targets("afterStop", tasks', heap') = Targets("afterStop", tasks, heap)
        /\ Targets("stop", tasks', heap') \subseteq Targets("stop", tasks, heap)
        /\ Targets("stop", tasks, heap) \subseteq {s} \cup Targets("stop", tasks', heap')
    <2>1. "stop" \in ObjectTasks /\ "afterStop" \in ObjectTasks
      BY DEF ObjectTasks
    <2>2. \A do \in {"stop", "afterStop"} :
             /\ Targets(do, tasks', heap') = Targets(do, <<>>, heap') \cup Targets(do, Tail(tasks), heap)
             /\ Targets(do, tasks, heap) =
                   {d \in Services : Head(tasks).do = do /\ Of(Head(tasks).at) = d}
                   \cup Targets(do, Tail(tasks), heap)
      BY <1>1, <2>1, TargetsCalls
    <2> QED
      BY <1>1, <1>4, <1>a, <2>2
  <1>6. Up' = Up
    BY <1>2, <1>5 DEF Up
  <1>7. Concerned' = Concerned
    BY <1>3, <1>6 DEF Concerned
  <1>8. ~Starting => s \notin Concerned
    BY <1>1, <1>2, StopsAims DEF Concerned, Up
  <1>9. ~Starting => Targets("stop", tasks, heap) \cap Concerned
                        \subseteq Targets("stop", tasks', heap')
    BY <1>5, <1>8
  <1> QED
    BY <1>2, <1>3, <1>5, <1>6, <1>7, <1>9, TreeSame

(* What a stop of a running service changes: it is no longer up, and the   *)
(* services of the objects in the list are about to be stopped.            *)
LEMMA StopDownTargets ==
    ASSUME TypeOK, OrderInv, Stop, HeapGrows, ListsGrow,
           NEW o, o = Head(tasks).at, NEW s, s = Of(o), s \in running
    PROVE  /\ Aim' = Aim /\ Starting' = Starting
           /\ \A do \in {"start", "launch"} :
                 Targets(do, tasks', heap') = Targets(do, tasks, heap)
           /\ Up' = Up \ {s}
           /\ Targets("stop", tasks, heap) \subseteq {s} \cup Targets("stop", tasks', heap')
           /\ s \in Targets("stop", tasks, heap)
           /\ Targets("stop", tasks', heap') \subseteq Targets("stop", tasks, heap) \cup Adopted(o)
           /\ "alone" \notin happened => Adopted(o) \subseteq Targets("stop", tasks', heap')
  <1> DEFINE deps == IF Head(tasks).deps THEN heap[o].deps ELSE <<>>
             first == Stopping(o, deps)
  <1>1. /\ ThreadOK /\ HeapOK /\ tasks # <<>> /\ o \in DOMAIN heap
        /\ Head(tasks).do = "stop" /\ Head(tasks).deps \in BOOLEAN
        /\ Head(tasks).do \in Stops
    BY TypeSplit, HeadTask DEF Stop, Doing, ObjectTasks, Stops
  <1>2. /\ Calls(first) /\ running' = running \ ({s} \cap pids)
    BY DEF Stop, Stopping
  <1>3. o \in Nat /\ s \in Services /\ heap[o].deps \in Seq(Nat)
        /\ \A i \in DOMAIN heap[o].deps : heap[o].deps[i] \in DOMAIN heap
    BY <1>1, ObjectOf DEF HeapOK, Range
  <1>4. deps \in Seq(Nat)
    BY <1>1, <1>3
  <1>5. \A i \in DOMAIN deps : heap'[deps[i]].of \in Adopted(o)
    <2>1. \A i \in DOMAIN heap[o].deps : Of(heap[o].deps[i]) \in Adopted(o)
      BY DEF Adopted, Of
    <2>2. \A i \in DOMAIN heap[o].deps : heap'[heap[o].deps[i]].of = Of(heap[o].deps[i])
      BY <1>3 DEF HeapGrows, Of
    <2> QED
      BY <1>1, <2>1, <2>2
  <1>6. "alone" \notin happened => deps = heap[o].deps
    BY <1>1, HeadType DEF OrderInv, Whole, Deep
  <1> HIDE DEF deps
  <1>7. /\ first \in Seq(Task) /\ Len(first) = Len(deps) + 1
        /\ \A i \in 1..Len(deps) : first[i].do = "stop" /\ first[i].at = deps[i]
        /\ first[Len(deps) + 1].do = "afterStop" /\ first[Len(deps) + 1].at = o
    BY <1>3, <1>4, StoppingType
  <1> HIDE DEF first
  <1>8. /\ DOMAIN first = 1..(Len(deps) + 1) /\ DOMAIN deps = 1..Len(deps) /\ Len(deps) \in Nat
        /\ \A i \in DOMAIN first : i \in DOMAIN deps \/ i = Len(deps) + 1
        /\ \A i \in DOMAIN deps : i \in DOMAIN first
        /\ Len(deps) + 1 \in DOMAIN first
    <2>1. DOMAIN first = 1..Len(first) /\ DOMAIN deps = 1..Len(deps) /\ Len(deps) \in Nat
      BY <1>4, <1>7
    <2> QED
      BY <1>7, <2>1
  <1>9. heap'[o].of = s
    BY <1>1 DEF HeapGrows, Of
  <1>10. \A i \in DOMAIN first :
            \/ i \in DOMAIN deps /\ first[i].do = "stop" /\ first[i].at = deps[i]
            \/ first[i].do = "afterStop" /\ first[i].at = o
    BY <1>7, <1>8
  <1>11. Targets("stop", first, heap') \subseteq Adopted(o)
    <2> SUFFICES ASSUME NEW d \in Targets("stop", first, heap') PROVE d \in Adopted(o)
      OBVIOUS
    <2>1. PICK i \in DOMAIN first : first[i].do = "stop" /\ heap'[first[i].at].of = d
      BY DEF Targets
    <2>2. i \in DOMAIN deps /\ first[i].at = deps[i]
      BY <1>10, <2>1
    <2> QED
      BY <1>5, <2>1, <2>2
  <1>12. Targets("afterStop", first, heap') = {s}
    <2>1. \A d \in Targets("afterStop", first, heap') : d = s
      BY <1>9, <1>10 DEF Targets
    <2>2. s \in Targets("afterStop", first, heap')
      BY <1>3, <1>7, <1>8, <1>9 DEF Targets
    <2> QED
      BY <2>1, <2>2
  <1>13. ASSUME "alone" \notin happened, NEW d \in Adopted(o)
         PROVE  d \in Targets("stop", first, heap')
    <2>1. PICK i \in DOMAIN heap[o].deps : d = Of(heap[o].deps[i])
      BY DEF Adopted, Of
    <2>2. i \in DOMAIN deps /\ first[i].do = "stop" /\ first[i].at = heap[o].deps[i]
      BY <1>6, <1>7, <1>8, <1>13, <2>1
    <2>3. heap'[first[i].at].of = d /\ d \in Services
      BY <1>1, <1>3, <2>1, <2>2, ObjectOf DEF HeapGrows, Of
    <2> QED
      BY <1>8, <2>2, <2>3 DEF Targets
  <1>14. /\ Aim' = Aim /\ Starting' = Starting
         /\ \A do \in {"start", "launch"} :
               Targets(do, tasks', heap') = Targets(do, tasks, heap)
    <2>1. \A i \in DOMAIN first : first[i].do \in Stops
      BY <1>10 DEF Stops
    <2> QED
      BY <1>1, <1>2, <1>7, <2>1, StopsKeep
  <1>15. \A do \in {"stop", "afterStop"} :
            /\ Targets(do, tasks', heap') = Targets(do, first, heap') \cup Targets(do, Tail(tasks), heap)
            /\ Targets(do, tasks, heap) =
                  {d \in Services : Head(tasks).do = do /\ Of(Head(tasks).at) = d}
                  \cup Targets(do, Tail(tasks), heap)
    <2>1. "stop" \in ObjectTasks /\ "afterStop" \in ObjectTasks
      BY DEF ObjectTasks
    <2> QED
      BY <1>1, <1>2, <1>7, <2>1, TargetsCalls
  <1>16. Up' = Up \ {s}
    <2>1. Targets("afterStop", tasks', heap') = {s} \cup Targets("afterStop", tasks, heap)
      BY <1>1, <1>12, <1>15
    <2> QED
      BY <1>2, <2>1 DEF Up
  <1>17. /\ Targets("stop", tasks, heap) \subseteq {s} \cup Targets("stop", tasks', heap')
         /\ s \in Targets("stop", tasks, heap)
         /\ Targets("stop", tasks', heap') \subseteq Targets("stop", tasks, heap) \cup Adopted(o)
         /\ "alone" \notin happened => Adopted(o) \subseteq Targets("stop", tasks', heap')
    BY <1>1, <1>3, <1>11, <1>13, <1>15
  <1> QED
    BY <1>14, <1>16, <1>17

LEMMA StopDownTree ==
    ASSUME TypeOK, OrderInv, ListsInv, TreeInv, Stop, HeapGrows, ListsGrow,
           Of(Head(tasks).at) \in running
    PROVE  TreeInv'
  <1>a. PICK o, s : o = Head(tasks).at /\ s = Of(o)
    OBVIOUS
  <1>1. /\ ThreadOK /\ HeapOK /\ tasks # <<>> /\ o \in DOMAIN heap
        /\ Head(tasks).do = "stop" /\ Head(tasks).do \in Stops
        /\ running \subseteq Services
    BY <1>a, TypeSplit, HeadTask DEF Stop, Doing, ObjectTasks, Stops, TypeOK
  <1>2. /\ s \in running /\ wanted' = wanted
        /\ happened' = happened \cup ((IF Under(s) THEN {"under"} ELSE {})
                                      \cup (IF Forgets(o) THEN {"forget"} ELSE {}))
    BY <1>a DEF Stop, Happens
  <1>3. /\ Aim' = Aim /\ Starting' = Starting /\ Up' = Up \ {s}
        /\ \A do \in {"start", "launch"} :
              Targets(do, tasks', heap') = Targets(do, tasks, heap)
        /\ Targets("stop", tasks, heap) \subseteq {s} \cup Targets("stop", tasks', heap')
        /\ s \in Targets("stop", tasks, heap)
        /\ Targets("stop", tasks', heap') \subseteq Targets("stop", tasks, heap) \cup Adopted(o)
        /\ "alone" \notin happened => Adopted(o) \subseteq Targets("stop", tasks', heap')
    BY <1>a, <1>2, StopDownTargets
  <1> DEFINE U == Up  A == Aim  U2 == Up'
  <1>4. U2 = U \ {s} /\ U2 \subseteq U /\ s \notin U2 /\ U \subseteq running
    BY <1>3 DEF Up
  <1>5. Starting => Due(s, A, U2)
    <2>1. Starting => Due(s, A, U)
      BY <1>3 DEF TreeInv, DueInv
    <2> HIDE DEF A, U, U2
    <2> QED
      BY <1>4, <2>1, DueStops
  <1>6. ASSUME NEW d, Sure(d, A, U), d # s \/ Starting PROVE Sure(d, A, U2)
    <2> HIDE DEF A, U, U2
    <2> QED
      BY <1>4, <1>5, <1>6, SureStops
  <1>7. ~Starting => Pending("start") = {}
    BY DEF Starting, Pending
  <1>8. SureInv'
    <2> SUFFICES ASSUME {"cut", "refuse", "alone", "under"} \cap happened' = {},
                        NEW t \in U2, NEW d \in Needs(t)
                 PROVE  Sure(d, A, U2)
      BY <1>3 DEF SureInv
    <2>1. t \in U /\ Sure(d, A, U)
      BY <1>2, <1>4 DEF TreeInv, SureInv
    <2>2. CASE d = s /\ ~Starting
      <3>1. t \in running /\ t \in Services /\ t \notin Targets("afterStop", tasks, heap)
        BY <1>1, <2>1 DEF Up
      <3>2. t \notin {Of(tasks[i].at) : i \in Pending("afterStop")}
        BY <3>1 DEF Pending, Targets, Of
      <3>3. Under(s)
        BY <1>7, <2>2, <3>1, <3>2 DEF Under
      <3> QED
        BY <1>2, <3>3
    <2> QED
      BY <1>6, <2>1, <2>2
  <1>9. DueInv'
    <2> SUFFICES ASSUME Starting, NEW d \in Targets("stop", tasks', heap')
                 PROVE  Due(d, A, U2)
      BY <1>3 DEF DueInv
    <2>1. CASE d \in Targets("stop", tasks, heap)
      <3>1. Due(d, A, U)
        BY <2>1 DEF TreeInv, DueInv
      <3> HIDE DEF A, U, U2
      <3> QED
        BY <1>4, <3>1, DueStops
    <2>2. CASE d \in Adopted(o)
      <3>1. d \in Needs(s) /\ Due(s, A, U2)
        BY <1>1, <1>5, <1>a, <2>2 DEF ListsInv
      <3> HIDE DEF A, U2
      <3> QED
        BY <1>4, <3>1, DueNeeds
    <2> QED
      BY <1>3, <2>1, <2>2
  <1>10. KeptInv'
    <2> SUFFICES ASSUME {"down", "alone", "refuse", "forget"} \cap happened' = {},
                        NEW d \in Concerned' \ (wanted \cup Autostart)
                 PROVE  Kept(d)' \/ Leaving(d)'
      BY <1>2 DEF KeptInv
    <2>1. d \in Concerned
      BY <1>3 DEF Concerned
    <2>2. Kept(d) \/ Leaving(d)
      BY <1>2, <2>1 DEF TreeInv, KeptInv
    <2>3. ASSUME NEW p \in DOMAIN heap, d \in Adopted(p), Sure(Of(p), A, U2) PROVE Kept(d)'
      <3>1. p \in DOMAIN heap' /\ heap'[p].of = Of(p) /\ d \in Adopted(p)'
        BY <2>3 DEF HeapGrows, ListsGrow, Of
      <3>2. Sure(heap'[p].of, Aim', Up')
        BY <1>3, <2>3, <3>1
      <3> QED
        BY <3>1, <3>2 DEF Kept, Of
    <2>4. CASE Kept(d)
      <3>1. PICK p \in DOMAIN heap : d \in Adopted(p) /\ Sure(Of(p), A, U)
        BY <2>4 DEF Kept
      <3>2. CASE Of(p) # s \/ Starting
        BY <1>6, <2>3, <3>1, <3>2
      <3>3. CASE Of(p) = s /\ ~Starting
        <4>1. d \in running
          BY <1>1, <1>4, <2>1, <3>3, StopsAims DEF Concerned
        <4>2. ~Forgets(o)
          BY <1>2
        <4>3. d \in Adopted(o)
          BY <1>7, <1>a, <3>1, <3>3, <4>1, <4>2 DEF Forgets
        <4>4. d \in Targets("stop", tasks', heap')
          BY <1>2, <1>3, <4>3
        <4> QED
          BY <1>3, <3>3, <4>4 DEF Leaving
      <3> QED
        BY <3>2, <3>3
    <2>5. CASE Leaving(d)
      <3>1. ~Starting /\ d \in Targets("stop", tasks, heap)
        BY <2>5 DEF Leaving
      <3>2. Concerned' = Up'
        BY <1>1, <1>3, <3>1, StopsAims DEF Concerned
      <3>3. d # s
        BY <1>4, <3>2
      <3> QED
        BY <1>3, <3>1, <3>3 DEF Leaving
    <2> QED
      BY <2>2, <2>4, <2>5
  <1> QED
    BY <1>8, <1>9, <1>10 DEF TreeInv

LEMMA SlotTree ==
    ASSUME TypeOK, TypeOK', ClearInv, OrderInv, ListsInv, TreeInv, SlotStep, ~Exit
    PROVE  TreeInv'
  <1>1. HeapGrows /\ ListsGrow
    BY SlotCalls, SlotLists
  <1>2. CASE Start \/ StartDep \/ Launch
    BY <1>1, <1>2, StartTree, StartDepTree, LaunchTree
  <1>3. CASE Stop
    BY <1>1, <1>3, StopIdleTree, StopDownTree
  <1>4. CASE AfterStop
    BY <1>4, AfterStopTree
  <1>5. CASE Watch \/ Resume \/ Listen
    BY <1>1, <1>5, WatchTree, ResumeTree
  <1> QED
    BY <1>2, <1>3, <1>4, <1>5 DEF SlotStep

-----------------------------------------------------------------------------
(* The loop: nothing is pending, and what is up is what is marked running. *)
LEMMA LoopCalm ==
    ASSUME \A i \in DOMAIN tasks : tasks[i].do \in {"watch", "listen", "exit"}
    PROVE  /\ Aim = {} /\ Up = running \ {} /\ Concerned = running \ {} /\ ~Starting
           /\ \A do \in ObjectTasks : Targets(do, tasks, heap) = {}
  <1>1. \A do \in ObjectTasks : Targets(do, tasks, heap) = {}
    BY DEF Targets, ObjectTasks
  <1> QED
    BY <1>1 DEF Aim, Aims, Brings, Up, Concerned, Starting, ObjectTasks

LEMMA FreshTree ==
    ASSUME TypeOK', TreeInv, tasks = <<>>, running' = running, HeapGrows, ListsGrow,
           happened \subseteq happened',
           \A i \in DOMAIN tasks' : tasks'[i].do # "afterStop",
           Starting' => Targets("stop", tasks', heap') \subseteq Aim',
           \A d \in Concerned' \ (wanted' \cup Autostart) : d \in running \ wanted \/ Leaving(d)'
    PROVE  TreeInv'
  <1>1. /\ Aim = {} /\ Up = running /\ Concerned = running
        /\ Targets("stop", tasks, heap) = {}
    BY LoopCalm DEF ObjectTasks
  <1>2. Up' = running /\ running \subseteq Services
    BY DEF Up, Targets, TypeOK
  <1>3. Grows
    BY <1>1, <1>2 DEF Grows
  <1>4. SureInv'
    BY <1>3, SureGrown DEF TreeInv
  <1>5. DueInv'
    BY DEF DueInv, Due, Cover
  <1>6. KeptInv'
    BY <1>1, <1>3, KeptGrown DEF TreeInv
  <1> QED
    BY <1>4, <1>5, <1>6 DEF TreeInv

LEMMA LoopTree ==
    ASSUME TypeOK, TypeOK', TreeInv, LoopServes, tasks = <<>>, running' = running,
           HeapGrows, ListsGrow, happened \subseteq happened'
    PROVE  TreeInv'
  <1>1. PICK o \in DOMAIN heap, deps \in BOOLEAN : Served(o, deps)
    BY DEF LoopServes
  <1>2. PICK s : s = Of(o)
    OBVIOUS
  <1>3. heap'[o].of = s /\ s \in Services
    BY <1>2, TypeSplit, ObjectOf DEF HeapGrows, Of
  <1> DEFINE stop == Call("stop", o, deps)  start == Call("start", o, deps)
  <1>4. /\ stop.do = "stop" /\ start.do = "start" /\ stop.at = o /\ start.at = o
    BY DEF Call
  <1>5. /\ tasks' \in {<<>>, <<start>>, <<stop>>, <<stop, start>>}
        /\ tasks' = <<>> => wanted' = wanted
        /\ tasks' = <<start>> => wanted' = wanted \cup {s}
        /\ tasks' = <<stop>> => wanted' = wanted \ {s}
        /\ tasks' = <<stop, start>> => wanted \subseteq wanted' /\ s \in running \cup wanted'
    BY <1>1, <1>2, <1>4 DEF Served
  <1> HIDE DEF start, stop
  <1>6. /\ tasks' = <<>> => \A i \in DOMAIN tasks' : FALSE
        /\ tasks' = <<start>> => \A i \in DOMAIN tasks' : tasks'[i] = start
        /\ tasks' = <<stop>> => /\ \A i \in DOMAIN tasks' : tasks'[i] = stop
                                /\ 1 \in DOMAIN tasks'
        /\ tasks' = <<stop, start>> => /\ \A i \in DOMAIN tasks' : tasks'[i] \in {stop, start}
                                       /\ \E i \in DOMAIN tasks' : tasks'[i] = start
    BY <1>5
  <1>7. \A i \in DOMAIN tasks' : tasks'[i].do # "afterStop"
    BY <1>4, <1>5, <1>6
  <1>8. Up' = running
    BY <1>7 DEF Up, Targets
  <1>9. /\ \A d \in Targets("stop", tasks', heap') : d = s
        /\ \A d \in Targets("start", tasks', heap') : d = s
        /\ Targets("launch", tasks', heap') = {}
    BY <1>3, <1>4, <1>5, <1>6 DEF Targets
  <1>10. Concerned' \subseteq running \cup {s}
    BY <1>8, <1>9 DEF Concerned
  <1>11. ASSUME Starting', NEW d \in Targets("stop", tasks', heap') PROVE d \in Aim'
    <2>1. d = s
      BY <1>9
    <2>2. PICK i \in DOMAIN tasks' : tasks'[i] = start
      BY <1>4, <1>5, <1>6, <1>11 DEF Starting
    <2> QED
      BY <1>3, <1>4, <2>1, <2>2 DEF Aim, Aims, Brings
  <1>12. ASSUME NEW d \in Concerned' \ (wanted' \cup Autostart)
         PROVE  d \in running \ wanted \/ Leaving(d)'
    <2>1. CASE tasks' = <<>>
      <3>1. Concerned' = running
        BY <1>6, <1>8, <2>1 DEF Concerned, Targets
      <3> QED
        BY <1>5, <1>12, <2>1, <3>1
    <2>2. CASE tasks' = <<start>>
      BY <1>5, <1>10, <1>12, <2>2
    <2>3. CASE tasks' = <<stop>>
      <3>1. /\ Concerned' = running /\ ~Starting'
            /\ s \in Targets("stop", tasks', heap')
        BY <1>3, <1>4, <1>6, <1>8, <2>3 DEF Concerned, Targets, Starting
      <3> QED
        BY <1>5, <1>12, <2>3, <3>1 DEF Leaving
    <2>4. CASE tasks' = <<stop, start>>
      BY <1>5, <1>10, <1>12, <2>4
    <2> QED
      BY <1>5, <2>1, <2>2, <2>3, <2>4
  <1> QED
    BY <1>7, <1>11, <1>12, FreshTree

LEMMA QuietTree ==
    ASSUME TypeOK', TreeInv, tasks = <<>>, running' = running, HeapGrows, ListsGrow,
           happened \subseteq happened', wanted' = wanted,
           \A i \in DOMAIN tasks' : tasks'[i].do \in {"watch", "listen", "stop", "exit"}
    PROVE  TreeInv'
  <1>1. /\ Up' = running /\ Concerned' = running /\ ~Starting'
        /\ \A i \in DOMAIN tasks' : tasks'[i].do # "afterStop"
    BY DEF Up, Concerned, Targets, Starting
  <1> QED
    BY <1>1, FreshTree

LEMMA ControlTree ==
    ASSUME TypeOK, TypeOK', WatchersInv, ListsInv, TreeInv, CheckUserControlTriggers, ~Gone
    PROVE  TreeInv'
  <1>1. /\ HeapOK /\ AtLoop /\ tasks = <<>> /\ running' = running /\ wanted' = wanted
        /\ tasks' = Ending /\ heap' = heap /\ happened' = happened
    BY TypeSplit DEF CheckUserControlTriggers, AtLoop, Ending, marks
  <1>2. HeapGrows /\ ListsGrow
    BY <1>1, HeapKept, ListsUnchanged
  <1>3. /\ DOMAIN Ending = 1..(Len(Names) + 1) /\ Len(Names) \in Nat
        /\ \A i \in 1..Len(Names) : Ending[i].do = "stop"
        /\ Ending[Len(Names) + 1].do = "exit"
    BY <1>1, EndingType, NamesLength
  <1>4. \A i \in DOMAIN tasks' : tasks'[i].do \in {"watch", "listen", "stop", "exit"}
    BY <1>1, <1>3
  <1> QED
    BY <1>1, <1>2, <1>4, QuietTree

LEMMA BootTree ==
    ASSUME TypeOK, TypeOK', OrderInv, ListsInv, TreeInv, Boot PROVE TreeInv'
  <1>1. /\ HeapOK /\ tasks = <<>> /\ running' = running /\ wanted' = wanted
        /\ tasks' = Booting /\ heap' = heap /\ happened' = happened
    BY TypeSplit DEF Boot, Booting, OrderInv, Idle, marks, history
  <1>2. HeapGrows /\ ListsGrow
    BY <1>1, HeapKept, ListsUnchanged
  <1>3. DOMAIN Booting = 1..(Len(Names) + 1) /\ Len(Names) \in Nat
    BY BootingType, NamesLength
  <1>4. \A i \in DOMAIN tasks' : tasks'[i].do \in {"watch", "listen", "stop", "exit"}
    BY <1>1, <1>3, BootingType
  <1> QED
    BY <1>1, <1>2, <1>4, QuietTree

(* With svdss go its tasks, and none of them was about what it leaves.     *)
LEMMA GoneTree ==
    ASSUME TypeOK', TreeInv, Gone, happened \subseteq happened', "down" \in happened',
           "cut" \notin happened' =>
               /\ running' = running
               /\ \A i \in DOMAIN tasks : tasks[i].do \in {"watch", "listen", "exit"}
    PROVE  TreeInv'
  <1>1. tasks' = <<>> /\ DOMAIN tasks' = {}
    BY DEF Gone
  <1>2. Up' = running' /\ Aim' = {} /\ ~Starting'
    BY <1>1 DEF Up, Aim, Aims, Starting, Targets
  <1>3. SureInv'
    <2> SUFFICES ASSUME {"cut", "refuse", "alone", "under"} \cap happened' = {}
                 PROVE  \A t \in Up' : \A d \in Needs(t) : Sure(d, Aim', Up')
      BY DEF SureInv
    <2>1. \A t \in Up : \A d \in Needs(t) : Sure(d, Aim, Up)
      BY DEF TreeInv, SureInv
    <2>2. Up = running /\ Aim = {} /\ running' = running
      BY LoopCalm
    <2> QED
      BY <1>2, <2>1, <2>2
  <1> QED
    BY <1>2, <1>3 DEF TreeInv, DueInv, KeptInv

LEMMA DeathTree ==
    ASSUME TypeOK, TypeOK', OrderInv, TreeInv,
           Exit \/ Killed \/ (CheckUserControlTriggers /\ Gone)
    PROVE  TreeInv'
  <1>1. /\ Gone /\ happened \subseteq happened' /\ "down" \in happened'
        /\ running' = running \/ (tasks # <<>> /\ Killed)
    <2>1. CASE Exit
      BY <2>1 DEF Exit, Happens, marks
    <2>2. CASE Killed
      <3>1. Gone /\ happened \subseteq happened' /\ "down" \in happened'
        BY <2>2 DEF Killed, Happens
      <3>2. tasks = <<>> => running' = running
        BY <2>2 DEF Killed, HalfStarted, HalfLaunched, HalfStopped, HalfAfterStopped,
                    Unmarked, Doing, marks
      <3> QED
        BY <2>2, <3>1, <3>2
    <2>3. CASE CheckUserControlTriggers /\ Gone
      <3>1. up /\ ~up' /\ running' = running
        BY <2>3 DEF CheckUserControlTriggers, AtLoop, Gone, marks
      <3> QED
        BY <2>3, <3>1 DEF CheckUserControlTriggers, Happens
    <2> QED
      BY <2>1, <2>2, <2>3
  <1>2. CASE tasks = <<>>
    BY <1>1, <1>2, GoneTree
  <1>3. CASE tasks # <<>> /\ Killed
    <2>1. "cut" \in happened'
      BY <1>3 DEF Killed, Unmarked, Happens
    <2> QED
      BY <1>1, <2>1, GoneTree
  <1>4. CASE tasks # <<>> /\ Exit
    <2>1. ThreadOK /\ Head(tasks).do = "exit" /\ Head(tasks) = tasks[1] /\ 1 \in DOMAIN tasks
      BY <1>4, TypeSplit, HeadType DEF Exit, Doing
    <2>2. \A i \in DOMAIN tasks : i = 1 \/ 1 < i
      BY <2>1 DEF ThreadOK
    <2>3. \A i \in DOMAIN tasks : i = 1
      BY <2>1, <2>2 DEF OrderInv, Ordered, Precedes
    <2>4. \A i \in DOMAIN tasks : tasks[i].do \in {"watch", "listen", "exit"}
      BY <2>1, <2>3
    <2>5. running' = running
      BY <1>4 DEF Exit, marks
    <2> QED
      BY <1>1, <2>4, <2>5, GoneTree
  <1> QED
    BY <1>2, <1>3, <1>4 DEF CheckUserControlTriggers, AtLoop

LEMMA TreeInit == Init => TreeInv
  <1> SUFFICES ASSUME Init PROVE TreeInv
    OBVIOUS
  <1>1. Up = {} /\ Concerned = {} /\ ~Starting
    BY LoopCalm DEF Init
  <1> QED
    BY <1>1 DEF TreeInv, SureInv, DueInv, KeptInv

LEMMA TreeStep ==
    BaseInv /\ OrderInv /\ ListsInv /\ TreeInv /\ [Next]_vars => TreeInv'
  <1> SUFFICES ASSUME BaseInv, OrderInv, ListsInv, TreeInv, [Next]_vars PROVE TreeInv'
    OBVIOUS
  <1>0. TypeOK /\ WatchersInv /\ ClearInv /\ TypeOK' /\ HeapOK
    BY BaseStep, TypeSplit DEF BaseInv
  <1>1. CASE SlotStep /\ ~Exit
    BY <1>0, <1>1, SlotTree
  <1>2. CASE Exit \/ Killed \/ (CheckUserControlTriggers /\ Gone)
    BY <1>0, <1>2, DeathTree
  <1>3. CASE Obey
    <2>1. /\ HeapGrows /\ LoopServes /\ tasks = <<>> /\ running' = running /\ heap' = heap
          /\ happened \subseteq happened'
      BY <1>0, <1>3, ObeyType, ObeyServes DEF Obey, AtLoop, marks, Happens
    <2>2. ListsGrow
      BY <1>0, <2>1, ListsUnchanged
    <2> QED
      BY <1>0, <2>1, <2>2, LoopTree
  <1>4. CASE BabySitters
    <2>1. /\ HeapGrows /\ LoopServes /\ ListsGrow /\ tasks = <<>>
      BY <1>0, <1>4, BabySittersType, BabySittersServe, BabySittersLists DEF BabySitters, AtLoop
    <2>2. running' = running /\ happened \subseteq happened'
      BY <1>4 DEF BabySitters, BabySitterSlot, marks, history
    <2> QED
      BY <1>0, <2>1, <2>2, LoopTree
  <1>5. CASE CheckUserControlTriggers /\ ~Gone
    BY <1>0, <1>5, ControlTree
  <1>6. CASE Boot
    BY <1>0, <1>6, BootTree
  <1>7. CASE Elsewhere
    <2>1. /\ tasks' = tasks /\ heap' = heap /\ running' = running
          /\ happened' = happened /\ wanted' = wanted
      BY <1>7, ElsewhereKept
    <2>2. HeapGrows /\ ListsGrow
      BY <1>0, <2>1, HeapKept, ListsUnchanged
    <2>3. Aim' = Aim /\ Up' = Up /\ Starting' = Starting /\ Concerned' = Concerned
      BY <2>1 DEF Aim, Up, Starting, Concerned
    <2> QED
      BY <2>1, <2>2, <2>3, TreeSame
  <1> QED
    BY <1>1, <1>2, <1>3, <1>4, <1>5, <1>6, <1>7 DEF Next, Elsewhere

-----------------------------------------------------------------------------
GraphInv == BaseInv /\ OrderInv /\ ListsInv /\ TreeInv

LEMMA GraphInit == Init => GraphInv
  <1>1. Init => ListsInv
    BY DEF Init, ListsInv
  <1> QED
    BY <1>1, BaseInit, OrderInit, TreeInit DEF GraphInv

LEMMA GraphStep == GraphInv /\ [Next]_vars => GraphInv'
  BY BaseStep, OrderStep, ListsStep, TreeStep DEF GraphInv

(* At the loop nothing is aimed at, so that what is sure to come up is up. *)
LEMMA SureAtLoop ==
    ASSUME GraphInv, AtLoop
    PROVE  /\ Up = running /\ Concerned = running
           /\ \A d : Sure(d, Aim, Up) => d \in running
           /\ \A d : ~Leaving(d)
  <1>1. /\ Aim = {} /\ Up = running /\ Concerned = running
        /\ Targets("stop", tasks, heap) = {}
    BY LoopCalm DEF AtLoop, ObjectTasks
  <1>2. Cover({}, Aim, Up)
    BY <1>1 DEF Cover
  <1>3. \A d : Sure(d, Aim, Up) => d \in running
    BY <1>1, <1>2 DEF Sure
  <1> QED
    BY <1>1, <1>3 DEF Leaving

(* Whenever svdss is back at its loop, each service marked running has its *)
(* direct dependencies marked running, for every graph of dependencies,    *)
(* cycles and shared dependencies included, and every sequence of starts,  *)
(* stops, restarts, deaths and reboots without one of the Rough things     *)
(* that the property names (service.cc:699-721, 938-950).                  *)
THEOREM DependenciesRunCorrect == Spec => []DependenciesRun
  <1>1. GraphInv => DependenciesRun
    <2> SUFFICES ASSUME GraphInv, AtLoop, Never({"cut", "refuse", "alone", "under"}),
                        NEW s \in running, NEW d \in Needs(s)
                 PROVE  d \in running
      BY DEF DependenciesRun
    <2>1. Up = running /\ (Sure(d, Aim, Up) => d \in running)
      BY SureAtLoop
    <2> QED
      BY <2>1 DEF GraphInv, TreeInv, SureInv, Never
  <1> QED
    BY <1>1, GraphInit, GraphStep, PTL DEF Spec

(* A dependency that nobody asked for never outlives the last service that *)
(* needs it, for every graph of dependencies, as long as no service is     *)
(* stopped by an object that lacks what another of its objects lists       *)
(* (service.cc:938-950).                                                   *)
THEOREM NoneLeftCorrect == Spec => []NoneLeftBehind
  <1>1. GraphInv => NoneLeftBehind
    <2> SUFFICES ASSUME GraphInv, AtLoop, Never({"down", "alone", "refuse", "forget"}),
                        NEW d \in running \ (wanted \cup Autostart)
                 PROVE  \E s \in running : d \in Needs(s)
      BY DEF NoneLeftBehind
    <2>1. Kept(d)
      BY SureAtLoop DEF GraphInv, TreeInv, KeptInv, Never
    <2>2. PICK o \in DOMAIN heap : d \in Adopted(o) /\ Sure(Of(o), Aim, Up)
      BY <2>1 DEF Kept
    <2>3. d \in Needs(Of(o)) /\ Of(o) \in running
      BY <2>2, SureAtLoop DEF GraphInv, ListsInv
    <2> QED
      BY <2>3
  <1> QED
    BY <1>1, GraphInit, GraphStep, PTL DEF Spec

-----------------------------------------------------------------------------
(* A service is launched only when its dependencies are marked running.    *)
LaunchedLast ==
    Doing("launch") /\ Never({"alone", "refuse"}) =>
        Needs(Of(Head(tasks).at)) \subseteq running

(* startSlot brings the dependencies up first, however deep and entangled  *)
(* their graph: whenever a start hook is about to run, all that the        *)
(* service requires is marked running, unless it is started without its    *)
(* dependencies or a start was refused (service.cc:699-721).               *)
THEOREM LaunchedLastCorrect == Spec => []LaunchedLast
  <1>1. BaseInv /\ OrderInv => LaunchedLast
    <2> SUFFICES ASSUME BaseInv, OrderInv, Doing("launch"), Never({"alone", "refuse"}),
                        NEW d \in Needs(Of(Head(tasks).at)), d \notin running
                 PROVE  FALSE
      BY DEF LaunchedLast
    <2>1. ThreadOK /\ tasks # <<>> /\ Head(tasks).do = "launch"
      BY TypeSplit DEF BaseInv, Doing
    <2>2. Head(tasks) = tasks[1] /\ 1 \in DOMAIN tasks
      BY <2>1, HeadType
    <2>3. Provided(tasks, heap, running)
      BY DEF OrderInv, ProvidedInv, Never
    <2>4. PICK j \in DOMAIN tasks : j < 1
      BY <2>1, <2>2, <2>3 DEF Provided, Of
    <2> QED
      BY <2>1, <2>4 DEF ThreadOK
  <1> QED
    BY <1>1, BaseInit, BaseStep, OrderInit, OrderStep, PTL DEF Spec
=============================================================================
