--------------------------- MODULE Dependencies_proofs ---------------------------
(***************************************************************************)
(* Proofs about Dependencies, for every set of services and every graph of *)
(* dependencies between them, cyclic ones included.                        *)
(***************************************************************************)
EXTENDS Dependencies, TLAPS

(* A task with what it is about in place.                                  *)
Aimed(t, objects) == t \in Task /\ (t.do \in ObjectTasks => t.at \in DOMAIN objects)

ThreadOK == /\ tasks \in Seq(Task)
            /\ \A i \in DOMAIN tasks : Aimed(tasks[i], heap)

HeapOK == /\ heap \in Seq(Object)
          /\ \A o \in DOMAIN heap : Range(heap[o].deps) \subseteq DOMAIN heap

LEMMA TypeParts ==
    TypeOK <=> /\ up \in BOOLEAN /\ ThreadOK /\ HeapOK
               /\ configured \subseteq Services /\ running \subseteq Services
               /\ leftovers \subseteq Services \X Indicators
               /\ alive \subseteq pids /\ pids \subseteq Services
               /\ triggers \subseteq Services \X TriggerNames
               /\ control \subseteq {"shutdown", "shutdownGracefully"}
               /\ spent \in 0..MaxEvents
               /\ happened \subseteq Rough
               /\ wanted \subseteq Services
  BY DEF TypeOK, ThreadOK, HeapOK, Aimed

LEMMA RequiresType == \A s \in Services : Requires[s] \in Seq(Services)
  BY DependenciesAssumption

(* What may follow the head of the thread's tasks.                         *)
LEMMA CallsType ==
    ASSUME ThreadOK, tasks # <<>>, NEW first \in Seq(Task), Calls(first)
    PROVE  /\ tasks' \in Seq(Task)
           /\ Len(tasks') = Len(first) + Len(tasks) - 1
           /\ \A i \in 1..Len(first) : tasks'[i] = first[i]
           /\ \A i \in (Len(first) + 1)..Len(tasks') :
                 /\ i - Len(first) + 1 \in 2..Len(tasks)
                 /\ tasks'[i] = tasks[i - Len(first) + 1]
  <1>1. tasks \in Seq(Task) /\ tasks' = first \o Tail(tasks)
    BY DEF ThreadOK, Calls
  <1>2. /\ Tail(tasks) \in Seq(Task) /\ Len(Tail(tasks)) = Len(tasks) - 1
        /\ \A i \in 1..(Len(tasks) - 1) : Tail(tasks)[i] = tasks[i + 1]
    BY <1>1
  <1> QED
    BY <1>1, <1>2

(* The head of the tasks gives way to what it calls, and no afterStop that *)
(* is called finds that its service seems to be at it.                     *)
Clear(t, objects, left) ==
    t.do = "afterStop" => <<objects[t.at].of, "afterStopping">> \notin left

Puts == \E first \in Seq(Task) :
           Calls(first) /\ \A i \in 1..Len(first) : Clear(first[i], heap', leftovers')

LEMMA CallsThread ==
    ASSUME ThreadOK, tasks # <<>>, NEW first \in Seq(Task), Calls(first),
           DOMAIN heap \subseteq DOMAIN heap',
           \A i \in 1..Len(first) : first[i].do \in ObjectTasks => first[i].at \in DOMAIN heap',
           \A i \in 1..Len(first) : Clear(first[i], heap', leftovers')
    PROVE  ThreadOK' /\ Puts
  <1>1. \A i \in DOMAIN tasks' : Aimed(tasks'[i], heap')
    <2> SUFFICES ASSUME NEW i \in DOMAIN tasks' PROVE Aimed(tasks'[i], heap')
      OBVIOUS
    <2>1. i \in 1..Len(tasks') /\ Len(first) \in Nat
      BY CallsType
    <2>2. CASE i \in 1..Len(first)
      BY <2>2, CallsType DEF Aimed
    <2>3. CASE i \in (Len(first) + 1)..Len(tasks')
      <3>1. /\ i - Len(first) + 1 \in 2..Len(tasks)
            /\ tasks'[i] = tasks[i - Len(first) + 1]
        BY <2>3, CallsType
      <3>2. \A j \in 2..Len(tasks) : j \in DOMAIN tasks
        BY DEF ThreadOK
      <3> QED
        BY <3>1, <3>2 DEF ThreadOK, Aimed
    <2> QED
      BY <2>1, <2>2, <2>3
  <1> QED
    BY <1>1, CallsType DEF ThreadOK, Puts

(* The next task. *)
LEMMA HeadType ==
    ASSUME ThreadOK, tasks # <<>>
    PROVE  /\ Head(tasks) = tasks[1] /\ 1 \in DOMAIN tasks
           /\ Aimed(Head(tasks), heap)
  BY DEF ThreadOK

(* The objects keep what they are of, and their number only grows.         *)
HeapGrows ==
    /\ HeapOK'
    /\ DOMAIN heap \subseteq DOMAIN heap'
    /\ \A o \in DOMAIN heap : /\ heap'[o].of = heap[o].of
                              /\ heap'[o].watcher = heap[o].watcher

LEMMA HeapKept == ASSUME HeapOK, heap' = heap PROVE HeapGrows
  BY DEF HeapOK, HeapGrows

LEMMA SitsType ==
    ASSUME HeapOK, NEW o \in DOMAIN heap, NEW active \in BOOLEAN, Sits(o, active)
    PROVE  /\ HeapGrows
           /\ DOMAIN heap' = DOMAIN heap
           /\ \A p \in DOMAIN heap : /\ heap'[p].sits = IF p = o THEN active ELSE heap[p].sits
                                     /\ heap'[p].deps = heap[p].deps
  <1>1. /\ heap \in Seq(Object) /\ heap[o] \in Object
        /\ heap' = [heap EXCEPT ![o] = [heap[o] EXCEPT !.sits = active]]
    BY DEF HeapOK, Sits
  <1>2. /\ [heap[o] EXCEPT !.sits = active] \in Object
        /\ [heap[o] EXCEPT !.sits = active].of = heap[o].of
        /\ [heap[o] EXCEPT !.sits = active].watcher = heap[o].watcher
        /\ [heap[o] EXCEPT !.sits = active].deps = heap[o].deps
        /\ [heap[o] EXCEPT !.sits = active].sits = active
    BY <1>1 DEF Object
  <1>3. heap' \in Seq(Object) /\ DOMAIN heap' = DOMAIN heap
    BY <1>1, <1>2
  <1>4. \A p \in DOMAIN heap :
           /\ heap'[p].of = heap[p].of /\ heap'[p].watcher = heap[p].watcher
           /\ heap'[p].deps = heap[p].deps
           /\ heap'[p].sits = IF p = o THEN active ELSE heap[p].sits
    BY <1>1, <1>2
  <1> QED
    BY <1>3, <1>4 DEF HeapGrows, HeapOK

LEMMA NewType ==
    \A s \in Services, w \in BOOLEAN :
       /\ New(s, w) \in Object /\ Range(New(s, w).deps) = {}
       /\ New(s, w).of = s /\ New(s, w).watcher = w /\ New(s, w).sits = FALSE
  BY DEF New, Object, Range

LEMMA AppendSeq ==
    ASSUME NEW S, NEW q \in Seq(S), NEW e \in S
    PROVE  /\ Append(q, e) \in Seq(S)
           /\ Len(q) \in Nat /\ DOMAIN q = 1..Len(q)
           /\ Len(Append(q, e)) = Len(q) + 1
           /\ DOMAIN Append(q, e) = 1..(Len(q) + 1)
           /\ \A i \in 1..Len(q) : Append(q, e)[i] = q[i]
           /\ Append(q, e)[Len(q) + 1] = e
  OBVIOUS

LEMMA AppendRange ==
    ASSUME NEW S, NEW q \in Seq(S), NEW e \in S
    PROVE  Range(Append(q, e)) \subseteq Range(q) \cup {e}
  <1> SUFFICES ASSUME NEW i \in DOMAIN Append(q, e)
               PROVE  Append(q, e)[i] \in Range(q) \cup {e}
    BY DEF Range
  <1>1. CASE i \in 1..Len(q)
    BY <1>1, AppendSeq DEF Range
  <1>2. CASE i = Len(q) + 1
    BY <1>2, AppendSeq
  <1> QED
    BY <1>1, <1>2, AppendSeq

LEMMA AppendType ==
    ASSUME HeapOK, NEW s \in Services, NEW w \in BOOLEAN, heap' = Append(heap, New(s, w))
    PROVE  /\ HeapGrows
           /\ DOMAIN heap' = DOMAIN heap \cup {Len(heap) + 1}
           /\ \A p \in DOMAIN heap : heap'[p] = heap[p]
           /\ heap'[Len(heap) + 1] = New(s, w)
  <1>1. New(s, w) \in Object /\ Range(New(s, w).deps) = {} /\ heap \in Seq(Object)
    BY NewType DEF HeapOK
  <1>2. /\ heap' \in Seq(Object) /\ DOMAIN heap = 1..Len(heap) /\ Len(heap) \in Nat
        /\ DOMAIN heap' = 1..(Len(heap) + 1)
        /\ \A p \in DOMAIN heap : heap'[p] = heap[p]
        /\ heap'[Len(heap) + 1] = New(s, w)
    BY <1>1, AppendSeq
  <1>3. DOMAIN heap' = DOMAIN heap \cup {Len(heap) + 1}
    BY <1>2
  <1>4. \A p \in DOMAIN heap' : Range(heap'[p].deps) \subseteq DOMAIN heap'
    <2> SUFFICES ASSUME NEW p \in DOMAIN heap' PROVE Range(heap'[p].deps) \subseteq DOMAIN heap'
      OBVIOUS
    <2>1. CASE p = Len(heap) + 1
      BY <2>1, <1>1, <1>2
    <2>2. CASE p \in DOMAIN heap
      <3>1. Range(heap'[p].deps) \subseteq DOMAIN heap
        BY <2>2, <1>2 DEF HeapOK
      <3> QED
        BY <3>1, <1>3
    <2> QED
      BY <2>1, <2>2, <1>3
  <1> QED
    BY <1>1, <1>2, <1>3, <1>4 DEF HeapGrows, HeapOK

(* A child in the list of the object that launched it. *)
LEMMA ChildType ==
    ASSUME HeapOK, NEW s \in Services, NEW o \in DOMAIN heap,
           heap' = Append([heap EXCEPT ![o].deps = Append(@, Len(heap) + 1)], New(s, FALSE))
    PROVE  /\ HeapGrows
           /\ DOMAIN heap' = DOMAIN heap \cup {Len(heap) + 1}
           /\ \A p \in DOMAIN heap : heap'[p].sits = heap[p].sits
           /\ heap'[o].deps = Append(heap[o].deps, Len(heap) + 1)
           /\ \A p \in DOMAIN heap : p # o => heap'[p].deps = heap[p].deps
           /\ heap'[Len(heap) + 1] = New(s, FALSE)
  <1> DEFINE child == Len(heap) + 1
             list == Append(heap[o].deps, child)
             longer == [heap[o] EXCEPT !.deps = list]
             marked == [heap EXCEPT ![o] = longer]
  <1>1. /\ heap \in Seq(Object) /\ heap[o] \in Object
        /\ child \in Nat /\ Len(heap) \in Nat /\ DOMAIN heap = 1..Len(heap)
    BY DEF HeapOK
  <1>2. heap' = Append(marked, New(s, FALSE))
    OBVIOUS
  <1>3. /\ heap[o].deps \in Seq(Nat)
        /\ list \in Seq(Nat)
        /\ Range(list) \subseteq Range(heap[o].deps) \cup {child}
    <2>1. heap[o].deps \in Seq(Nat)
      BY <1>1 DEF Object
    <2> QED
      BY <2>1, <1>1, AppendSeq, AppendRange
  <1> HIDE DEF list
  <1>4. /\ longer \in Object
        /\ longer.of = heap[o].of /\ longer.watcher = heap[o].watcher
        /\ longer.sits = heap[o].sits
        /\ longer.deps = list
    BY <1>1, <1>3 DEF Object
  <1> HIDE DEF longer
  <1>5. /\ marked \in Seq(Object) /\ DOMAIN marked = DOMAIN heap /\ Len(marked) = Len(heap)
        /\ marked[o] = longer
        /\ \A p \in DOMAIN heap : p # o => marked[p] = heap[p]
    BY <1>1, <1>4
  <1> HIDE DEF marked
  <1>6. New(s, FALSE) \in Object /\ Range(New(s, FALSE).deps) = {}
    BY NewType
  <1>7. /\ heap' \in Seq(Object) /\ DOMAIN heap' = 1..child
        /\ \A p \in DOMAIN heap : heap'[p] = marked[p]
        /\ heap'[child] = New(s, FALSE)
    <2> DEFINE made == New(s, FALSE)
    <2>1. made \in Object /\ marked \in Seq(Object)
      BY <1>5, <1>6
    <2> HIDE DEF made
    <2>2. /\ Append(marked, made) \in Seq(Object)
          /\ DOMAIN Append(marked, made) = 1..(Len(marked) + 1)
          /\ \A p \in 1..Len(marked) : Append(marked, made)[p] = marked[p]
          /\ Append(marked, made)[Len(marked) + 1] = made
      BY <2>1, AppendSeq
    <2>3. heap' = Append(marked, made)
      BY <1>2 DEF made
    <2> QED
      BY <1>1, <1>5, <2>2, <2>3 DEF made
  <1>8. DOMAIN heap' = DOMAIN heap \cup {child}
    BY <1>1, <1>7
  <1>9. \A p \in DOMAIN heap' : Range(heap'[p].deps) \subseteq DOMAIN heap'
    <2> SUFFICES ASSUME NEW p \in DOMAIN heap' PROVE Range(heap'[p].deps) \subseteq DOMAIN heap'
      OBVIOUS
    <2>1. CASE p = child
      BY <2>1, <1>6, <1>7
    <2>2. CASE p = o
      <3>1. Range(heap'[p].deps) \subseteq Range(heap[o].deps) \cup {child}
        BY <2>2, <1>3, <1>4, <1>5, <1>7
      <3> QED
        BY <3>1, <1>8 DEF HeapOK
    <2>3. CASE p \in DOMAIN heap /\ p # o
      <3>1. heap'[p] = heap[p]
        BY <2>3, <1>5, <1>7
      <3> QED
        BY <3>1, <2>3, <1>8 DEF HeapOK
    <2> QED
      BY <1>8, <2>1, <2>2, <2>3
  <1>10. \A p \in DOMAIN heap : /\ heap'[p].of = heap[p].of
                                /\ heap'[p].watcher = heap[p].watcher
                                /\ heap'[p].sits = heap[p].sits
    BY <1>4, <1>5, <1>7
  <1>11. heap'[o].deps = Append(heap[o].deps, child)
    BY <1>4, <1>5, <1>7 DEF list
  <1>12. \A p \in DOMAIN heap : p # o => heap'[p].deps = heap[p].deps
    BY <1>5, <1>7
  <1> QED
    BY <1>7, <1>8, <1>9, <1>10, <1>11, <1>12 DEF HeapGrows, HeapOK

LEMMA ConcatSeq ==
    ASSUME NEW S, NEW q \in Seq(S), NEW r \in Seq(S)
    PROVE  /\ q \o r \in Seq(S)
           /\ Len(q) \in Nat /\ Len(r) \in Nat /\ DOMAIN q = 1..Len(q)
           /\ Len(q \o r) = Len(q) + Len(r)
           /\ DOMAIN (q \o r) = 1..(Len(q) + Len(r))
           /\ \A i \in 1..Len(q) : (q \o r)[i] = q[i]
           /\ \A i \in 1..Len(r) : (q \o r)[Len(q) + i] = r[i]
           /\ \A i \in (Len(q) + 1)..(Len(q) + Len(r)) :
                 i - Len(q) \in 1..Len(r) /\ (q \o r)[i] = r[i - Len(q)]
  OBVIOUS

LEMMA ConcatRange ==
    ASSUME NEW S, NEW q \in Seq(S), NEW r \in Seq(S), NEW T,
           Range(q) \subseteq T, Range(r) \subseteq T
    PROVE  Range(q \o r) \subseteq T
  <1> SUFFICES ASSUME NEW i \in DOMAIN (q \o r) PROVE (q \o r)[i] \in T
    BY DEF Range
  <1>1. CASE i \in 1..Len(q)
    BY <1>1, ConcatSeq DEF Range
  <1>2. CASE i \in (Len(q) + 1)..(Len(q) + Len(r))
    <2>1. i - Len(q) \in DOMAIN r /\ (q \o r)[i] = r[i - Len(q)]
      BY <1>2, ConcatSeq
    <2> QED
      BY <2>1 DEF Range
  <1> QED
    BY <1>1, <1>2, ConcatSeq

(* The babysitter adopts objects of the services that nobody is of.        *)
LEMMA AdoptType ==
    ASSUME HeapOK, NEW o \in DOMAIN heap, NEW q \in Adoptions(o),
           heap' = [heap EXCEPT ![o].deps = @ \o [i \in DOMAIN q |-> Len(heap) + i]]
                   \o [i \in DOMAIN q |-> New(q[i], FALSE)]
    PROVE  /\ HeapGrows
           /\ \A p \in DOMAIN heap : heap'[p].sits = heap[p].sits
           /\ \A p \in DOMAIN heap : p # o => heap'[p].deps = heap[p].deps
           /\ \A i \in DOMAIN heap[o].deps : /\ i \in DOMAIN heap'[o].deps
                                             /\ heap'[o].deps[i] = heap[o].deps[i]
           /\ \A i \in DOMAIN heap'[o].deps \ DOMAIN heap[o].deps :
                 heap'[heap'[o].deps[i]].of \in Orphans(o)
           /\ \A p \in DOMAIN heap' \ DOMAIN heap : DOMAIN heap'[p].deps = {}
  <1> DEFINE places == [i \in DOMAIN q |-> Len(heap) + i]
             list == heap[o].deps \o places
             longer == [heap[o] EXCEPT !.deps = list]
             marked == [heap EXCEPT ![o] = longer]
             made == [i \in DOMAIN q |-> New(q[i], FALSE)]
  <1>1. /\ heap \in Seq(Object) /\ heap[o] \in Object
        /\ Len(heap) \in Nat /\ DOMAIN heap = 1..Len(heap)
    BY DEF HeapOK
  <1>2. heap[o].of \in Services /\ heap[o].deps \in Seq(Nat)
    BY <1>1 DEF Object
  <1>3. q \in Seq(Services) /\ Len(q) \in Nat /\ DOMAIN q = 1..Len(q)
    <2>1. Requires[Of(o)] \in Seq(Services)
      BY <1>2, RequiresType DEF Of
    <2>2. Len(Requires[Of(o)]) \in Nat
      BY <2>1
    <2>3. Orphans(o) \subseteq Services
      BY <2>1 DEF Orphans, Needs, Range
    <2>4. PICK n \in 0..Len(Requires[Of(o)]) : q \in [1..n -> Orphans(o)]
      BY DEF Adoptions
    <2>5. n \in Nat /\ q \in [1..n -> Services]
      BY <2>2, <2>3, <2>4
    <2> QED
      BY <2>5
  <1>a. /\ 1..Len(heap) \subseteq 1..(Len(heap) + Len(q))
        /\ \A p \in 1..(Len(heap) + Len(q)) :
              p \in 1..Len(heap) \/ p \in (Len(heap) + 1)..(Len(heap) + Len(q))
    BY <1>1, <1>3
  <1>4. heap' = marked \o made
    OBVIOUS
  <1>5. /\ places \in Seq(Nat)
        /\ Range(places) \subseteq 1..(Len(heap) + Len(q))
    <2>1. \A i \in DOMAIN q : Len(heap) + i \in Nat /\ Len(heap) + i \in 1..(Len(heap) + Len(q))
      BY <1>1, <1>3
    <2>2. places \in [1..Len(q) -> Nat]
      BY <1>3, <2>1
    <2> QED
      BY <1>3, <2>1, <2>2 DEF Range
  <1>6. /\ made \in Seq(Object) /\ Len(made) = Len(q)
        /\ \A i \in 1..Len(q) : made[i] = New(q[i], FALSE) /\ q[i] \in Services
    <2>1. \A i \in 1..Len(q) : q[i] \in Services
      BY <1>3
    <2>2. \A i \in 1..Len(q) : New(q[i], FALSE) \in Object
      BY <2>1, NewType
    <2>3. made = [i \in 1..Len(q) |-> New(q[i], FALSE)]
      BY <1>3
    <2> HIDE DEF made
    <2>4. made \in [1..Len(q) -> Object]
      BY <2>2, <2>3
    <2>5. made \in Seq(Object) /\ Len(made) = Len(q)
      BY <1>3, <2>4
    <2> QED
      BY <2>1, <2>3, <2>5
  <1> HIDE DEF places, made
  <1>7. list \in Seq(Nat) /\ Range(list) \subseteq 1..(Len(heap) + Len(q))
    <2>1. Range(heap[o].deps) \subseteq 1..(Len(heap) + Len(q))
      BY <1>1, <1>a DEF HeapOK
    <2> DEFINE before == heap[o].deps
    <2>2. before \in Seq(Nat) /\ list = before \o places
      BY <1>2
    <2>3. Range(before) \subseteq 1..(Len(heap) + Len(q))
      BY <2>1
    <2> HIDE DEF before, list
    <2>4. list \in Seq(Nat)
      BY <1>5, <2>2, ConcatSeq
    <2> QED
      BY <1>5, <2>2, <2>3, <2>4, ConcatRange
  <1> HIDE DEF list
  <1>8. /\ longer \in Object
        /\ longer.of = heap[o].of /\ longer.watcher = heap[o].watcher
        /\ longer.sits = heap[o].sits
        /\ longer.deps = list
    BY <1>1, <1>7 DEF Object
  <1> HIDE DEF longer
  <1>9. /\ marked \in Seq(Object) /\ DOMAIN marked = DOMAIN heap /\ Len(marked) = Len(heap)
        /\ marked[o] = longer
        /\ \A p \in DOMAIN heap : p # o => marked[p] = heap[p]
    BY <1>1, <1>8
  <1> HIDE DEF marked
  <1>10. /\ heap' \in Seq(Object)
         /\ DOMAIN heap' = 1..(Len(heap) + Len(q))
         /\ \A p \in DOMAIN heap : heap'[p] = marked[p]
         /\ \A p \in (Len(heap) + 1)..(Len(heap) + Len(q)) :
               p - Len(heap) \in 1..Len(q) /\ heap'[p] = made[p - Len(heap)]
    <2>0. marked \in Seq(Object) /\ made \in Seq(Object)
      BY <1>6, <1>9
    <2>1. /\ marked \o made \in Seq(Object)
          /\ DOMAIN (marked \o made) = 1..(Len(marked) + Len(made))
          /\ \A p \in 1..Len(marked) : (marked \o made)[p] = marked[p]
          /\ \A p \in (Len(marked) + 1)..(Len(marked) + Len(made)) :
                p - Len(marked) \in 1..Len(made) /\ (marked \o made)[p] = made[p - Len(marked)]
      BY <2>0, ConcatSeq
    <2> QED
      BY <1>1, <1>4, <1>6, <1>9, <2>1
  <1>11. \A p \in DOMAIN heap' : Range(heap'[p].deps) \subseteq DOMAIN heap'
    <2> SUFFICES ASSUME NEW p \in DOMAIN heap' PROVE Range(heap'[p].deps) \subseteq DOMAIN heap'
      OBVIOUS
    <2>1. CASE p \in (Len(heap) + 1)..(Len(heap) + Len(q))
      <3>1. PICK s \in Services : heap'[p] = New(s, FALSE)
        BY <2>1, <1>6, <1>10
      <3> QED
        BY <3>1, NewType
    <2>2. CASE p = o
      BY <2>2, <1>7, <1>8, <1>9, <1>10
    <2>3. CASE p \in DOMAIN heap /\ p # o
      <3>1. Range(heap'[p].deps) \subseteq DOMAIN heap
        BY <2>3, <1>9, <1>10 DEF HeapOK
      <3> QED
        BY <3>1, <1>1, <1>a, <1>10
    <2> QED
      BY <2>1, <2>2, <2>3, <1>1, <1>a, <1>10
  <1>12. \A p \in DOMAIN heap : /\ heap'[p].of = heap[p].of
                                /\ heap'[p].watcher = heap[p].watcher
                                /\ heap'[p].sits = heap[p].sits
    BY <1>8, <1>9, <1>10
  <1>13. DOMAIN heap \subseteq DOMAIN heap'
    BY <1>1, <1>a, <1>10
  <1>14. \A p \in DOMAIN heap : p # o => heap'[p].deps = heap[p].deps
    BY <1>9, <1>10
  <1>15. heap'[o].deps = heap[o].deps \o places
    BY <1>8, <1>9, <1>10 DEF list
  <1>16. /\ \A i \in DOMAIN heap[o].deps : /\ i \in DOMAIN heap'[o].deps
                                            /\ heap'[o].deps[i] = heap[o].deps[i]
         /\ \A i \in DOMAIN heap'[o].deps \ DOMAIN heap[o].deps :
               \E k \in DOMAIN places : heap'[o].deps[i] = places[k]
    <2> DEFINE before == heap[o].deps  after == heap'[o].deps
    <2>1. before \in Seq(Nat) /\ after = before \o places
      BY <1>2, <1>15
    <2> HIDE DEF before, after
    <2>2. /\ DOMAIN before = 1..Len(before) /\ DOMAIN places = 1..Len(places)
          /\ DOMAIN after = 1..(Len(before) + Len(places))
          /\ Len(before) \in Nat /\ Len(places) \in Nat
          /\ \A i \in 1..Len(before) : after[i] = before[i]
          /\ \A i \in (Len(before) + 1)..(Len(before) + Len(places)) :
                i - Len(before) \in 1..Len(places) /\ after[i] = places[i - Len(before)]
      BY <1>5, <2>1, ConcatSeq
    <2>3. \A i \in DOMAIN after \ DOMAIN before :
             i \in (Len(before) + 1)..(Len(before) + Len(places))
      BY <2>2
    <2>4. \A i \in DOMAIN after \ DOMAIN before : \E k \in DOMAIN places : after[i] = places[k]
      BY <2>2, <2>3
    <2>5. \A i \in DOMAIN before : i \in DOMAIN after /\ after[i] = before[i]
      BY <2>2
    <2> QED
      BY <2>4, <2>5 DEF before, after
  <1>17. \A k \in DOMAIN places : heap'[places[k]].of \in Orphans(o)
    <2> SUFFICES ASSUME NEW k \in DOMAIN places PROVE heap'[places[k]].of \in Orphans(o)
      OBVIOUS
    <2>1. k \in 1..Len(q) /\ places[k] = Len(heap) + k
      BY <1>3 DEF places
    <2>2. /\ places[k] \in (Len(heap) + 1)..(Len(heap) + Len(q))
          /\ places[k] - Len(heap) = k
      BY <1>1, <1>3, <2>1
    <2>3. heap'[places[k]] = made[k]
      BY <1>10, <2>2
    <2>4. made[k] = New(q[k], FALSE) /\ q[k] \in Services
      BY <1>6, <2>1
    <2>6. heap'[places[k]].of = q[k]
      <3>1. New(q[k], FALSE).of = q[k]
        BY <2>4, NewType
      <3> HIDE DEF places, made
      <3> QED
        BY <2>3, <2>4, <3>1, Zenon
    <2>5. q[k] \in Orphans(o)
      BY <1>3, <2>1 DEF Adoptions, Range
    <2> QED
      BY <2>5, <2>6
  <1>18. \A p \in DOMAIN heap' \ DOMAIN heap : DOMAIN heap'[p].deps = {}
    <2> SUFFICES ASSUME NEW p \in DOMAIN heap' \ DOMAIN heap PROVE DOMAIN heap'[p].deps = {}
      OBVIOUS
    <2>1. p \in (Len(heap) + 1)..(Len(heap) + Len(q))
      BY <1>1, <1>a, <1>10
    <2>2. p - Len(heap) \in 1..Len(q) /\ heap'[p] = made[p - Len(heap)]
      BY <1>10, <2>1
    <2>3. heap'[p] = New(q[p - Len(heap)], FALSE)
      BY <1>6, <2>2
    <2>4. DOMAIN New(q[p - Len(heap)], FALSE).deps = {}
      BY DEF New
    <2> QED
      BY <2>3, <2>4
  <1>19. \A i \in DOMAIN heap'[o].deps \ DOMAIN heap[o].deps :
            heap'[heap'[o].deps[i]].of \in Orphans(o)
    BY <1>16, <1>17
  <1> QED
    BY <1>10, <1>11, <1>12, <1>13, <1>14, <1>16, <1>18, <1>19 DEF HeapGrows, HeapOK

-----------------------------------------------------------------------------
(* The tasks that slots put in front of the others. *)
Launching(o, need) ==
    [i \in DOMAIN need |-> [do |-> "startDep", at |-> o, service |-> need[i]]]
    \o <<[do |-> "launch", at |-> o]>>

Stopping(o, deps) ==
    [i \in DOMAIN deps |-> Call("stop", deps[i], TRUE)] \o <<[do |-> "afterStop", at |-> o]>>


LEMMA SnocSeq ==
    ASSUME NEW S, NEW q \in Seq(S), NEW e \in S
    PROVE  /\ q \o <<e>> \in Seq(S)
           /\ Len(q) \in Nat /\ Len(q \o <<e>>) = Len(q) + 1
           /\ \A i \in 1..Len(q) : (q \o <<e>>)[i] = q[i]
           /\ (q \o <<e>>)[Len(q) + 1] = e
  OBVIOUS

LEMMA LaunchingType ==
    ASSUME NEW o \in Nat, NEW need \in Seq(Services)
    PROVE  /\ Launching(o, need) \in Seq(Task)
           /\ \A i \in 1..Len(Launching(o, need)) :
                 /\ Launching(o, need)[i].do \in {"startDep", "launch"}
                 /\ Launching(o, need)[i].at = o
           /\ Len(Launching(o, need)) = Len(need) + 1 /\ Len(need) \in Nat
           /\ \A i \in 1..Len(need) : /\ Launching(o, need)[i].do = "startDep"
                                      /\ Launching(o, need)[i].service = need[i]
           /\ Launching(o, need)[Len(need) + 1].do = "launch"
  <1> DEFINE first == [i \in DOMAIN need |-> [do |-> "startDep", at |-> o, service |-> need[i]]]
             last == [do |-> "launch", at |-> o]
  <1>1. \A i \in DOMAIN need : [do |-> "startDep", at |-> o, service |-> need[i]] \in Task
    BY DEF Task
  <1>2. first \in Seq(Task) /\ Len(first) = Len(need)
    BY <1>1
  <1>3. last \in Task
    BY DEF Task
  <1>4. /\ \A i \in 1..Len(first) : /\ first[i].do = "startDep" /\ first[i].at = o
                                    /\ first[i].service = need[i]
        /\ last.do = "launch" /\ last.at = o
    BY <1>2
  <1> HIDE DEF first, last
  <1>5. /\ first \o <<last>> \in Seq(Task)
        /\ Len(first \o <<last>>) = Len(first) + 1
        /\ \A i \in 1..Len(first) : (first \o <<last>>)[i] = first[i]
        /\ (first \o <<last>>)[Len(first) + 1] = last
    BY <1>2, <1>3, SnocSeq
  <1>6. Launching(o, need) = first \o <<last>>
    BY DEF Launching, first, last
  <1> QED
    BY <1>2, <1>4, <1>5, <1>6

LEMMA StoppingType ==
    ASSUME NEW o \in Nat, NEW deps \in Seq(Nat)
    PROVE  /\ Stopping(o, deps) \in Seq(Task)
           /\ Len(Stopping(o, deps)) = Len(deps) + 1 /\ Len(deps) \in Nat
           /\ \A i \in 1..Len(deps) : /\ Stopping(o, deps)[i].do = "stop"
                                      /\ Stopping(o, deps)[i].at = deps[i]
           /\ Stopping(o, deps)[Len(deps) + 1].do = "afterStop"
           /\ Stopping(o, deps)[Len(deps) + 1].at = o
  <1> DEFINE first == [i \in DOMAIN deps |-> Call("stop", deps[i], TRUE)]
             last == [do |-> "afterStop", at |-> o]
  <1>1. \A i \in DOMAIN deps : Call("stop", deps[i], TRUE) \in Task
    BY DEF Task, Call
  <1>2. first \in Seq(Task) /\ Len(first) = Len(deps)
    <2>1. DOMAIN deps = 1..Len(deps) /\ Len(deps) \in Nat
      OBVIOUS
    <2>2. first = [i \in 1..Len(deps) |-> Call("stop", deps[i], TRUE)]
      BY <2>1
    <2> HIDE DEF first
    <2>3. first \in [1..Len(deps) -> Task]
      BY <1>1, <2>1, <2>2
    <2> QED
      BY <2>1, <2>3
  <1>3. last \in Task
    BY DEF Task
  <1>4. /\ \A i \in 1..Len(first) : first[i].do = "stop" /\ first[i].at = deps[i]
        /\ last.do = "afterStop" /\ last.at = o
    BY <1>2 DEF Call
  <1> HIDE DEF first, last
  <1>5. /\ first \o <<last>> \in Seq(Task)
        /\ Len(first \o <<last>>) = Len(first) + 1
        /\ \A i \in 1..Len(first) : (first \o <<last>>)[i] = first[i]
        /\ (first \o <<last>>)[Len(first) + 1] = last
    BY <1>2, <1>3, SnocSeq
  <1>6. Stopping(o, deps) = first \o <<last>>
    BY DEF Stopping, first, last
  <1> QED
    BY <1>2, <1>4, <1>5, <1>6

-----------------------------------------------------------------------------
(* Type correctness. What is left when the thread's own part is typed.     *)
RestOK ==
    /\ configured \subseteq Services /\ running \subseteq Services
    /\ leftovers \subseteq Services \X Indicators
    /\ alive \subseteq pids /\ pids \subseteq Services
    /\ triggers \subseteq Services \X TriggerNames
    /\ control \subseteq {"shutdown", "shutdownGracefully"}
    /\ spent \in 0..MaxEvents
    /\ happened \subseteq Rough
    /\ wanted \subseteq Services

LEMMA TypeSplit == TypeOK <=> up \in BOOLEAN /\ ThreadOK /\ HeapOK /\ RestOK
  BY TypeParts DEF RestOK

LEMMA EventType ==
    ASSUME spent \in 0..MaxEvents, NEW kind, Event(kind) PROVE spent' \in 0..MaxEvents
  BY DependenciesAssumption DEF Event

LEMMA HappensType ==
    ASSUME happened \subseteq Rough, NEW kinds \in SUBSET Rough, Happens(kinds)
    PROVE  happened' \subseteq Rough
  BY DEF Happens

(* The head of the tasks, by what it is to do.                             *)
LEMMA HeadTask ==
    ASSUME ThreadOK, tasks # <<>>
    PROVE  /\ Head(tasks).do \in ObjectTasks => Head(tasks).at \in DOMAIN heap
           /\ Head(tasks).do \in {"start", "stop"} => Head(tasks).deps \in BOOLEAN
           /\ Head(tasks).do \in {"watch", "startDep"} => Head(tasks).service \in Services
  <1>1. Head(tasks) \in Task /\ (Head(tasks).do \in ObjectTasks => Head(tasks).at \in DOMAIN heap)
    BY HeadType DEF Aimed
  <1>2. Head(tasks).do \in {"start", "stop"} => Head(tasks).deps \in BOOLEAN
    BY <1>1 DEF Task
  <1>3. Head(tasks).do \in {"watch", "startDep"} => Head(tasks).service \in Services
    BY <1>1 DEF Task
  <1> QED
    BY <1>1, <1>2, <1>3

LEMMA ObjectOf ==
    ASSUME HeapOK, NEW o \in DOMAIN heap
    PROVE  /\ o \in Nat /\ Of(o) \in Services /\ heap[o].deps \in Seq(Nat)
           /\ Requires[Of(o)] \in Seq(Services)
           /\ \A i \in 1..Len(heap[o].deps) : heap[o].deps[i] \in DOMAIN heap
  <1>1. heap \in Seq(Object) /\ heap[o] \in Object /\ o \in Nat
    BY DEF HeapOK
  <1>2. Of(o) \in Services /\ heap[o].deps \in Seq(Nat)
    BY <1>1 DEF Object, Of
  <1>3. \A i \in 1..Len(heap[o].deps) : heap[o].deps[i] \in DOMAIN heap
    BY <1>2 DEF HeapOK, Range
  <1> QED
    BY <1>1, <1>2, <1>3, RequiresType

LEMMA EmptyFirst == <<>> \in Seq(Task) /\ Len(<<>>) = 0
  OBVIOUS

LEMMA OneFirst ==
    ASSUME NEW t \in Task PROVE <<t>> \in Seq(Task) /\ Len(<<t>>) = 1 /\ <<t>>[1] = t
  OBVIOUS

LEMMA TwoFirst ==
    ASSUME NEW t \in Task, NEW u \in Task
    PROVE  /\ <<t>> \o <<u>> \in Seq(Task) /\ Len(<<t>> \o <<u>>) = 2
           /\ (<<t>> \o <<u>>)[1] = t /\ (<<t>> \o <<u>>)[2] = u
           /\ <<>> \o <<u>> = <<u>>
  OBVIOUS

LEMMA ReturnsThread ==
    ASSUME ThreadOK, tasks # <<>>, Returns, DOMAIN heap \subseteq DOMAIN heap'
    PROVE  ThreadOK' /\ Puts
  <1>1. Calls(<<>>) /\ \A i \in 1..Len(<<>>) : FALSE
    BY EmptyFirst DEF Returns
  <1> QED
    BY <1>1, EmptyFirst, CallsThread

LEMMA CallOneThread ==
    ASSUME ThreadOK, tasks # <<>>, NEW t \in Task, Calls(<<t>>),
           DOMAIN heap \subseteq DOMAIN heap', t.do \in ObjectTasks => t.at \in DOMAIN heap',
           t.do # "afterStop"
    PROVE  ThreadOK' /\ Puts
  <1>1. \A i \in 1..Len(<<t>>) : <<t>>[i] = t
    BY OneFirst
  <1>2. \A i \in 1..Len(<<t>>) : Clear(<<t>>[i], heap', leftovers')
    BY <1>1 DEF Clear
  <1> QED
    BY <1>1, <1>2, OneFirst, CallsThread

LEMMA StartType == ASSUME TypeOK, Start PROVE TypeOK' /\ HeapGrows /\ Puts
  <1> DEFINE o == Head(tasks).at
             need == IF Head(tasks).deps THEN Requires[Of(o)] ELSE <<>>
  <1>1. ThreadOK /\ HeapOK /\ RestOK /\ up \in BOOLEAN
    BY TypeSplit
  <1>2. tasks # <<>> /\ o \in DOMAIN heap /\ Head(tasks).deps \in BOOLEAN
    BY <1>1, HeadTask DEF Start, Doing, ObjectTasks
  <1>3. o \in Nat /\ Of(o) \in Services /\ need \in Seq(Services) /\ Range(need) \subseteq Services
    <2>1. o \in Nat /\ Of(o) \in Services /\ Requires[Of(o)] \in Seq(Services)
      BY <1>1, <1>2, ObjectOf
    <2>2. need \in Seq(Services)
      BY <2>1
    <2> QED
      BY <2>1, <2>2 DEF Range
  <1>4. HeapGrows
    BY <1>1, <1>2, HeapKept, SitsType DEF Start
  <1>5. ThreadOK' /\ Puts
    <2>1. CASE Returns
      BY <1>1, <1>2, <1>4, <2>1, ReturnsThread DEF HeapGrows
    <2>2. CASE Calls(Launching(o, need))
      <3> DEFINE first == Launching(o, need)
      <3> HIDE DEF need
      <3>1. /\ first \in Seq(Task)
            /\ \A i \in 1..Len(first) : first[i].at = o /\ first[i].do \in {"startDep", "launch"}
        BY <1>3, LaunchingType
      <3>4. \A i \in 1..Len(first) : Clear(first[i], heap', leftovers')
        BY <3>1 DEF Clear
      <3>2. o \in DOMAIN heap' /\ DOMAIN heap \subseteq DOMAIN heap'
        BY <1>2, <1>4 DEF HeapGrows
      <3> HIDE DEF first, o
      <3>3. Calls(first)
        BY <2>2 DEF first
      <3> QED
        BY <1>1, <1>2, <3>1, <3>2, <3>3, <3>4, CallsThread
    <2> QED
      BY <2>1, <2>2 DEF Start, Launching
  <1>6. /\ configured' \subseteq Services /\ leftovers' \subseteq Services \X Indicators
        /\ spent' \in 0..MaxEvents /\ happened' \subseteq Rough
    <2>1. configured' \subseteq Services /\ leftovers' \subseteq Services \X Indicators
      BY <1>1, <1>3 DEF Start, RestOK
    <2>2. spent' \in 0..MaxEvents
      BY <1>1, EventType DEF Start, RestOK
    <2>3. happened' \subseteq Rough
      BY <1>1, HappensType DEF Start, RestOK, Rough
    <2> QED
      BY <2>1, <2>2, <2>3
  <1>7. RestOK' /\ up' \in BOOLEAN
    BY <1>1, <1>6 DEF Start, RestOK, processes, asked
  <1> QED
    BY <1>4, <1>5, <1>7, TypeSplit DEF TypeOK, HeapGrows, HeapOK, ThreadOK, RestOK, Aimed

LEMMA StartDepType == ASSUME TypeOK, StartDep PROVE TypeOK' /\ HeapGrows /\ Puts
  <1> DEFINE o == Head(tasks).at  d == Head(tasks).service  child == Len(heap) + 1
  <1>1. ThreadOK /\ HeapOK /\ RestOK /\ up \in BOOLEAN
    BY TypeSplit
  <1>2. tasks # <<>> /\ o \in DOMAIN heap /\ d \in Services
    BY <1>1, HeadTask DEF StartDep, Doing, ObjectTasks
  <1>3. RestOK' /\ up' \in BOOLEAN
    BY <1>1 DEF StartDep, RestOK, marks, processes, asked, history
  <1>4. CASE heap' = heap /\ Returns
    <2>1. HeapGrows
      BY <1>1, <1>4, HeapKept
    <2>2. ThreadOK' /\ Puts
      BY <1>1, <1>2, <1>4, <2>1, ReturnsThread DEF HeapGrows
    <2> QED
      BY <1>3, <2>1, <2>2 DEF TypeOK, HeapGrows, HeapOK, ThreadOK, RestOK, Aimed
  <1>5. CASE /\ heap' = Append([heap EXCEPT ![o].deps = Append(@, child)], New(d, FALSE))
             /\ Calls(<<Call("start", child, TRUE)>>)
    <2>1. HeapGrows /\ child \in DOMAIN heap'
      BY <1>1, <1>2, <1>5, ChildType
    <2>2. child \in Nat
      BY <1>1 DEF HeapOK
    <2>3. /\ Call("start", child, TRUE) \in Task
          /\ Call("start", child, TRUE).at = child /\ Call("start", child, TRUE).do = "start"
      BY <2>2 DEF Call, Task
    <2>4. ThreadOK' /\ Puts
      BY <1>1, <1>2, <1>5, <2>1, <2>3, CallOneThread DEF HeapGrows
    <2> QED
      BY <1>3, <2>1, <2>4 DEF TypeOK, HeapGrows, HeapOK, ThreadOK, RestOK, Aimed
  <1> QED
    BY <1>4, <1>5 DEF StartDep

LEMMA LaunchType == ASSUME TypeOK, Launch PROVE TypeOK' /\ HeapGrows /\ Puts
  <1> DEFINE o == Head(tasks).at
  <1>1. ThreadOK /\ HeapOK /\ RestOK /\ up \in BOOLEAN
    BY TypeSplit
  <1>2. tasks # <<>> /\ o \in DOMAIN heap /\ Of(o) \in Services
    BY <1>1, HeadTask, ObjectOf DEF Launch, Doing, ObjectTasks
  <1>3. HeapGrows
    BY <1>1, <1>2, HeapKept, SitsType DEF Launch
  <1>4. ThreadOK' /\ Puts
    BY <1>1, <1>2, <1>3, ReturnsThread DEF Launch, HeapGrows
  <1>5. spent' \in 0..MaxEvents /\ happened' \subseteq Rough
    BY <1>1, EventType, HappensType DEF Launch, RestOK, Rough
  <1>6. RestOK' /\ up' \in BOOLEAN
    BY <1>1, <1>2, <1>5 DEF Launch, Lives, RestOK, processes, asked
  <1> QED
    BY <1>3, <1>4, <1>6 DEF TypeOK, HeapGrows, HeapOK, ThreadOK, RestOK, Aimed

LEMMA StopType == ASSUME TypeOK, Stop PROVE TypeOK' /\ HeapGrows /\ Puts
  <1> DEFINE o == Head(tasks).at
             deps == IF Head(tasks).deps THEN heap[o].deps ELSE <<>>
  <1>1. ThreadOK /\ HeapOK /\ RestOK /\ up \in BOOLEAN
    BY TypeSplit
  <1>2. tasks # <<>> /\ o \in DOMAIN heap /\ Head(tasks).deps \in BOOLEAN
    BY <1>1, HeadTask DEF Stop, Doing, ObjectTasks
  <1>3. /\ o \in Nat /\ deps \in Seq(Nat)
        /\ \A i \in 1..Len(deps) : deps[i] \in DOMAIN heap
    <2>1. CASE deps = heap[o].deps
      BY <1>1, <1>2, <2>1, ObjectOf
    <2>2. CASE deps = <<>>
      BY <1>1, <1>2, <2>2, ObjectOf
    <2> QED
      BY <1>2, <2>1, <2>2
  <1>4. HeapGrows
    BY <1>1, <1>2, SitsType DEF Stop
  <1>5. ThreadOK' /\ Puts
    <2>1. CASE Of(o) \notin running
      <3>1. Returns
        BY <2>1 DEF Stop
      <3> QED
        BY <1>1, <1>2, <1>4, <3>1, ReturnsThread DEF HeapGrows
    <2>2. CASE Of(o) \in running
      <3> DEFINE first == Stopping(o, deps)
      <3>0. o \in DOMAIN heap' /\ DOMAIN heap \subseteq DOMAIN heap'
        BY <1>2, <1>4 DEF HeapGrows
      <3>1. \A i \in 1..Len(deps) : deps[i] \in DOMAIN heap'
        BY <1>3, <3>0
      <3>2. Calls(first)
        BY <2>2 DEF Stop, Stopping
      <3>5. <<heap'[o].of, "afterStopping">> \notin leftovers'
        BY <1>2, <1>4, <2>2 DEF Stop, Indicators, HeapGrows, Of
      <3> HIDE DEF deps, o
      <3>3. /\ first \in Seq(Task) /\ Len(first) = Len(deps) + 1 /\ Len(deps) \in Nat
            /\ \A i \in 1..Len(deps) : first[i].at = deps[i] /\ first[i].do = "stop"
            /\ first[Len(deps) + 1].at = o
        BY <1>3, StoppingType
      <3> HIDE DEF first
      <3>4. \A i \in 1..Len(first) : first[i].at \in DOMAIN heap'
        BY <3>0, <3>1, <3>3
      <3>6. \A i \in 1..Len(first) : Clear(first[i], heap', leftovers')
        BY <3>3, <3>5 DEF Clear
      <3> QED
        BY <1>1, <1>2, <3>0, <3>2, <3>3, <3>4, <3>6, CallsThread
    <2> QED
      BY <2>1, <2>2
  <1>6. happened' \subseteq Rough
    BY <1>1, HappensType DEF Stop, RestOK, Rough
  <1>7. RestOK' /\ up' \in BOOLEAN
    BY <1>1, <1>6 DEF Stop, RestOK, asked
  <1> QED
    BY <1>4, <1>5, <1>7 DEF TypeOK, HeapGrows, HeapOK, ThreadOK, RestOK, Aimed

LEMMA WatchType == ASSUME TypeOK, Watch PROVE TypeOK' /\ HeapGrows /\ Puts
  <1> DEFINE s == Head(tasks).service  o == Len(heap) + 1
             first == (IF s \in Autostart THEN <<Call("start", o, TRUE)>> ELSE <<>>)
                      \o <<[do |-> "resume", at |-> o]>>
  <1>1. ThreadOK /\ HeapOK /\ RestOK /\ up \in BOOLEAN
    BY TypeSplit
  <1>2. tasks # <<>> /\ s \in Services
    BY <1>1, HeadTask DEF Watch, Doing
  <1>3. HeapGrows /\ o \in DOMAIN heap'
    BY <1>1, <1>2, AppendType DEF Watch
  <1>4. o \in Nat
    BY <1>1 DEF HeapOK
  <1>5. first \in Seq(Task) /\ \A i \in 1..Len(first) : first[i].at = o /\ Clear(first[i], heap', leftovers')
    <2> DEFINE resume == [do |-> "resume", at |-> o]
    <2>1. Call("start", o, TRUE) \in Task /\ resume \in Task
      BY <1>4 DEF Call, Task
    <2>2. /\ Call("start", o, TRUE).at = o /\ Call("start", o, TRUE).do = "start"
          /\ resume.at = o /\ resume.do = "resume"
      BY DEF Call
    <2>3. CASE s \in Autostart
      <3> DEFINE start == Call("start", o, TRUE)
      <3>1. first = <<start>> \o <<resume>>
        BY <2>3
      <3> HIDE DEF start, resume, first
      <3>2. /\ start \in Task /\ start.at = o /\ start.do = "start"
            /\ resume \in Task /\ resume.at = o /\ resume.do = "resume"
        BY <2>1, <2>2 DEF start
      <3>3. /\ first \in Seq(Task) /\ Len(first) = 2
            /\ first[1] = start /\ first[2] = resume
        BY <3>1, <3>2, TwoFirst
      <3> QED
        BY <3>2, <3>3 DEF Clear
    <2>4. CASE s \notin Autostart
      <3>1. first = <<>> \o <<resume>>
        BY <2>4
      <3> HIDE DEF resume, first
      <3>2. first = <<resume>>
        BY <2>1, <3>1, TwoFirst
      <3>3. first \in Seq(Task) /\ Len(first) = 1 /\ first[1] = resume
        BY <2>1, <3>2, OneFirst
      <3> QED
        BY <2>2, <3>3 DEF Clear
    <2> QED
      BY <2>3, <2>4
  <1>6. Calls(first)
    BY DEF Watch
  <1> HIDE DEF first, o
  <1>7. ThreadOK' /\ Puts
    BY <1>1, <1>2, <1>3, <1>5, <1>6, CallsThread DEF HeapGrows
  <1>8. RestOK' /\ up' \in BOOLEAN
    BY <1>1 DEF Watch, RestOK, marks, processes, asked, history
  <1> QED
    BY <1>3, <1>7, <1>8 DEF TypeOK, HeapGrows, HeapOK, ThreadOK, RestOK, Aimed

LEMMA OtherSlotType ==
    ASSUME TypeOK, AfterStop \/ Resume \/ Listen PROVE TypeOK' /\ HeapGrows /\ Puts
  <1>1. ThreadOK /\ HeapOK /\ RestOK /\ up \in BOOLEAN
    BY TypeSplit
  <1>2. tasks # <<>> /\ HeapGrows
    BY <1>1, HeapKept DEF AfterStop, Resume, Listen, Doing
  <1>3. ThreadOK' /\ Puts
    <2>1. CASE Returns
      BY <1>1, <1>2, <2>1, ReturnsThread DEF HeapGrows
    <2>2. CASE Resume /\ Calls(<<Call("start", Head(tasks).at, TRUE)>>)
      <3> DEFINE o == Head(tasks).at
      <3>1. o \in DOMAIN heap
        BY <1>1, <1>2, <2>2, HeadTask DEF Resume, Doing, ObjectTasks
      <3>2. o \in Nat
        BY <1>1, <3>1 DEF HeapOK
      <3>3. /\ Call("start", o, TRUE) \in Task
            /\ Call("start", o, TRUE).at = o /\ Call("start", o, TRUE).do = "start"
        BY <3>2 DEF Call, Task
      <3> QED
        BY <1>1, <1>2, <2>2, <3>1, <3>3, CallOneThread DEF HeapGrows
    <2> QED
      BY <2>1, <2>2 DEF AfterStop, Resume, Listen, Returns
  <1>4. happened' \subseteq Rough
    BY <1>1, HappensType DEF AfterStop, Resume, Listen, RestOK, Rough, history
  <1>5. RestOK' /\ up' \in BOOLEAN
    BY <1>1, <1>4 DEF AfterStop, Resume, Listen, RestOK, marks, processes, asked, history
  <1> QED
    BY <1>2, <1>3, <1>5 DEF TypeOK, HeapGrows, HeapOK, ThreadOK, RestOK, Aimed

LEMMA GoneType ==
    ASSUME Gone PROVE ThreadOK' /\ HeapOK' /\ up' \in BOOLEAN
  <1>1. tasks' = <<>> /\ heap' = <<>> /\ up' = FALSE
    BY DEF Gone
  <1>2. <<>> \in Seq(Task) /\ <<>> \in Seq(Object) /\ DOMAIN <<>> = {}
    OBVIOUS
  <1> QED
    BY <1>1, <1>2 DEF ThreadOK, HeapOK

-----------------------------------------------------------------------------
(* Every service has a watcher's object, or its watcher is still to come.  *)
HasWatcher(s, objects) == \E o \in DOMAIN objects : objects[o].of = s /\ objects[o].watcher

WatchersInv ==
    up => \A s \in Services :
             \/ HasWatcher(s, heap)
             \/ \E i \in DOMAIN tasks : tasks[i].do = "watch" /\ tasks[i].service = s

LEMMA CallsTail ==
    ASSUME ThreadOK, tasks # <<>>, NEW first \in Seq(Task), Calls(first)
    PROVE  /\ \A j \in 2..Len(tasks) : \E i \in DOMAIN tasks' : tasks'[i] = tasks[j]
           /\ DOMAIN tasks = {1} \cup 2..Len(tasks)
  <1>1. tasks \in Seq(Task) /\ tasks' = first \o Tail(tasks)
    BY DEF ThreadOK, Calls
  <1>2. /\ Tail(tasks) \in Seq(Task) /\ Len(Tail(tasks)) = Len(tasks) - 1
        /\ \A i \in 1..(Len(tasks) - 1) : Tail(tasks)[i] = tasks[i + 1]
        /\ Len(tasks) \in Nat /\ Len(tasks) # 0 /\ DOMAIN tasks = 1..Len(tasks)
    BY <1>1
  <1>3. /\ \A i \in 1..Len(Tail(tasks)) : (first \o Tail(tasks))[Len(first) + i] = Tail(tasks)[i]
        /\ DOMAIN (first \o Tail(tasks)) = 1..(Len(first) + Len(Tail(tasks)))
        /\ Len(first) \in Nat
    BY <1>2, ConcatSeq
  <1>4. ASSUME NEW j \in 2..Len(tasks) PROVE \E i \in DOMAIN tasks' : tasks'[i] = tasks[j]
    <2>1. j - 1 \in 1..(Len(tasks) - 1) /\ j - 1 + 1 = j
      BY <1>2
    <2>2. tasks'[Len(first) + (j - 1)] = tasks[j]
      BY <1>1, <1>2, <1>3, <2>1
    <2>3. Len(first) + (j - 1) \in DOMAIN tasks'
      BY <1>1, <1>2, <1>3, <2>1
    <2> QED
      BY <2>2, <2>3
  <1> QED
    BY <1>2, <1>4

LEMMA CallsWatchers ==
    ASSUME ThreadOK, tasks # <<>>, NEW first \in Seq(Task), Calls(first),
           WatchersInv, HeapGrows, up' = up,
           Head(tasks).do = "watch" => HasWatcher(Head(tasks).service, heap')
    PROVE  WatchersInv'
  <1> SUFFICES ASSUME up, NEW s \in Services
               PROVE  \/ HasWatcher(s, heap')
                      \/ \E i \in DOMAIN tasks' : tasks'[i].do = "watch" /\ tasks'[i].service = s
    BY DEF WatchersInv
  <1>1. CASE HasWatcher(s, heap)
    BY <1>1 DEF HasWatcher, HeapGrows
  <1>2. ASSUME NEW j \in DOMAIN tasks, tasks[j].do = "watch", tasks[j].service = s
        PROVE  \/ HasWatcher(s, heap')
               \/ \E i \in DOMAIN tasks' : tasks'[i].do = "watch" /\ tasks'[i].service = s
    <2>1. CASE j = 1
      BY <1>2, <2>1, HeadType
    <2>2. CASE j \in 2..Len(tasks)
      BY <1>2, <2>2, CallsTail
    <2> QED
      BY <1>2, <2>1, <2>2, CallsTail
  <1> QED
    BY <1>1, <1>2 DEF WatchersInv

(* Every slot calls tasks in front of the others.                          *)
LEMMA SlotCalls ==
    ASSUME TypeOK, SlotStep, ~Exit
    PROVE  TypeOK' /\ tasks # <<>> /\ HeapGrows /\ Puts
  <1>1. tasks # <<>>
    BY DEF SlotStep, Start, StartDep, Launch, Stop, AfterStop, Watch, Resume, Listen, Doing
  <1>2. TypeOK' /\ HeapGrows /\ Puts
    BY StartType, StartDepType, LaunchType, StopType, WatchType, OtherSlotType DEF SlotStep
  <1> QED
    BY <1>1, <1>2

LEMMA SlotWatchers ==
    ASSUME TypeOK, WatchersInv, SlotStep, ~Exit PROVE WatchersInv'
  <1>1. tasks # <<>> /\ HeapGrows /\ Puts /\ ThreadOK
    BY SlotCalls, TypeSplit
  <1>2. up' = up
    BY DEF SlotStep, Start, StartDep, Launch, Stop, AfterStop, Watch, Resume, Listen
  <1>3. Head(tasks).do = "watch" => HasWatcher(Head(tasks).service, heap')
    <2>1. SUFFICES ASSUME Head(tasks).do = "watch"
                   PROVE  HasWatcher(Head(tasks).service, heap')
      OBVIOUS
    <2>2. Watch
      BY <2>1 DEF SlotStep, Start, StartDep, Launch, Stop, AfterStop, Watch, Resume, Listen, Doing
    <2>3. HeapOK /\ Head(tasks).service \in Services
      BY <1>1, <2>1, TypeSplit, HeadTask
    <2>4. /\ Len(heap) + 1 \in DOMAIN heap'
          /\ heap'[Len(heap) + 1] = New(Head(tasks).service, TRUE)
      BY <2>2, <2>3, AppendType DEF Watch
    <2> QED
      BY <2>3, <2>4, NewType DEF HasWatcher
  <1> QED
    BY <1>1, <1>2, <1>3, CallsWatchers DEF Puts

LEMMA WatcherExists ==
    ASSUME WatchersInv, AtLoop, NEW s \in Services
    PROVE  Watcher(s) \in DOMAIN heap /\ Of(Watcher(s)) = s
  <1>1. HasWatcher(s, heap)
    BY DEF WatchersInv, AtLoop
  <1> QED
    BY <1>1 DEF HasWatcher, Watcher, Of

(* What the loop hands to the idle thread.                                 *)
Fresh(first, objects) ==
    first \in Seq(Task) /\ \A i \in DOMAIN first : Aimed(first[i], objects)

LEMMA CallAimed ==
    ASSUME HeapOK, NEW o \in DOMAIN heap, NEW deps \in BOOLEAN, NEW do \in {"start", "stop"}
    PROVE  Aimed(Call(do, o, deps), heap)
  <1>1. o \in Nat
    BY DEF HeapOK
  <1>2. /\ Call(do, o, deps) \in Task
        /\ Call(do, o, deps).at = o
    BY <1>1 DEF Call, Task
  <1> QED
    BY <1>2 DEF Aimed

LEMMA FreshOne == ASSUME NEW t, NEW objects, Aimed(t, objects) PROVE Fresh(<<t>>, objects)
  BY DEF Aimed, Fresh

LEMMA FreshTwo ==
    ASSUME NEW t, NEW u, NEW objects, Aimed(t, objects), Aimed(u, objects)
    PROVE  Fresh(<<t, u>>, objects)
  BY DEF Aimed, Fresh

LEMMA RestartType ==
    ASSUME HeapOK, NEW o \in DOMAIN heap, NEW deps \in BOOLEAN
    PROVE  Fresh(Restart(o, deps), heap)
  <1>1. CASE Restart(o, deps) = <<>>
    BY <1>1, EmptyFirst DEF Fresh
  <1>2. CASE Restart(o, deps) = <<Call("stop", o, deps), Call("start", o, deps)>>
    <2>1. Aimed(Call("stop", o, deps), heap) /\ Aimed(Call("start", o, deps), heap)
      BY CallAimed
    <2> QED
      BY <1>2, <2>1, FreshTwo
  <1> QED
    BY <1>1, <1>2 DEF Restart

LEMMA SlotType ==
    ASSUME HeapOK, NEW o \in DOMAIN heap, NEW t \in TriggerNames
    PROVE  Fresh(Slot(t, o), heap)
  <1>0. (~Alone(t)) \in BOOLEAN
    BY DEF Alone
  <1>1. CASE t \in StartTriggers
    <2>1. Slot(t, o) = <<Call("start", o, ~Alone(t))>>
      BY <1>1 DEF Slot, StartTriggers, StopTriggers, RestartTriggers
    <2>2. Aimed(Call("start", o, ~Alone(t)), heap)
      BY <1>0, CallAimed
    <2> QED
      BY <2>1, <2>2, FreshOne
  <1>2. CASE t \in StopTriggers
    <2>1. Slot(t, o) = <<Call("stop", o, ~Alone(t))>>
      BY <1>2 DEF Slot, StartTriggers, StopTriggers, RestartTriggers
    <2>2. Aimed(Call("stop", o, ~Alone(t)), heap)
      BY <1>0, CallAimed
    <2> QED
      BY <2>1, <2>2, FreshOne
  <1>3. CASE t \in RestartTriggers
    <2>1. Slot(t, o) = Restart(o, ~Alone(t))
      BY <1>3 DEF Slot, StartTriggers, StopTriggers, RestartTriggers
    <2> QED
      BY <1>0, <2>1, RestartType
  <1> QED
    BY <1>1, <1>2, <1>3 DEF TriggerNames

LEMMA FreshThread ==
    ASSUME NEW objects, Fresh(tasks', objects), DOMAIN objects \subseteq DOMAIN heap'
    PROVE  ThreadOK'
  BY DEF Fresh, ThreadOK, Aimed

LEMMA LoopWatchers ==
    ASSUME WatchersInv, HeapGrows, AtLoop, up' = up PROVE WatchersInv'
  BY DEF WatchersInv, HasWatcher, HeapGrows, AtLoop

LEMMA ObeyType ==
    ASSUME TypeOK, WatchersInv, Obey PROVE TypeOK' /\ HeapGrows /\ WatchersInv'
  <1>1. ThreadOK /\ HeapOK /\ RestOK /\ up \in BOOLEAN
    BY TypeSplit
  <1>2. HeapGrows /\ up' = up /\ AtLoop
    BY <1>1, HeapKept DEF Obey
  <1>3. WatchersInv'
    BY <1>2, LoopWatchers
  <1>4. PICK s \in Services, t \in TriggerNames :
          /\ triggers' = triggers \ {<<s, t>>}
          /\ \/ UNCHANGED <<tasks, happened, wanted>>
             \/ /\ tasks' = Slot(t, Watcher(s))
                /\ Happens(IF Alone(t) THEN {"alone"} ELSE {})
                /\ wanted' \in {wanted, wanted \ {s}, wanted \cup {s}}
    BY DEF Obey
  <1>5. ThreadOK'
    <2>1. CASE tasks' = tasks
      BY <1>1, <1>2, <2>1 DEF ThreadOK, HeapGrows, Aimed
    <2>2. CASE tasks' = Slot(t, Watcher(s))
      <3>1. Fresh(tasks', heap)
        BY <1>1, <1>2, <2>2, WatcherExists, SlotType
      <3> QED
        BY <1>2, <3>1, FreshThread DEF HeapGrows
    <2> QED
      BY <1>4, <2>1, <2>2
  <1>6. happened' \subseteq Rough /\ wanted' \subseteq Services
    BY <1>1, <1>4, HappensType DEF RestOK, Rough
  <1>7. RestOK' /\ up' \in BOOLEAN
    BY <1>1, <1>2, <1>4, <1>6 DEF Obey, RestOK, marks, processes
  <1> QED
    BY <1>2, <1>3, <1>5, <1>7 DEF TypeOK, HeapGrows, HeapOK, ThreadOK, RestOK, Aimed

LEMMA BabySittersType ==
    ASSUME TypeOK, WatchersInv, BabySitters PROVE TypeOK' /\ HeapGrows /\ WatchersInv'
  <1>1. ThreadOK /\ HeapOK /\ RestOK /\ up \in BOOLEAN
    BY TypeSplit
  <1>2. PICK o \in DOMAIN heap : BabySitterSlot(o)
    BY DEF BabySitters
  <1>3. HeapGrows
    <2>1. CASE Sits(o, FALSE)
      BY <1>1, <2>1, SitsType
    <2>2. CASE heap' = heap
      BY <1>1, <2>2, HeapKept
    <2>3. ASSUME NEW q \in Adoptions(o),
                 heap' = [heap EXCEPT ![o].deps = @ \o [i \in DOMAIN q |-> Len(heap) + i]]
                         \o [i \in DOMAIN q |-> New(q[i], FALSE)]
          PROVE  HeapGrows
      BY <1>1, <2>3, AdoptType
    <2> QED
      BY <1>2, <2>1, <2>2, <2>3 DEF BabySitterSlot
  <1>4. ThreadOK'
    <2>1. CASE tasks' = tasks
      BY <1>1, <1>3, <2>1 DEF ThreadOK, HeapGrows, Aimed
    <2>2. CASE tasks' = Restart(o, TRUE)
      <3>1. Fresh(tasks', heap)
        BY <1>1, <2>2, RestartType
      <3> QED
        BY <1>3, <3>1, FreshThread DEF HeapGrows
    <2> QED
      BY <1>2, <2>1, <2>2 DEF BabySitterSlot
  <1>6. RestOK' /\ up' \in BOOLEAN /\ up' = up
    BY <1>1, <1>2 DEF BabySitterSlot, RestOK, marks, processes, asked, history
  <1>7. WatchersInv'
    BY <1>3, <1>6, LoopWatchers DEF BabySitters
  <1> QED
    BY <1>3, <1>4, <1>6, <1>7 DEF TypeOK, HeapGrows, HeapOK, ThreadOK, RestOK, Aimed

(* The watchers' services, one task each, in the order of their names.     *)
LEMMA NamesDomain ==
    Names \in Seq(Services) /\ \A i \in 1..Len(Names) : Names[i] \in Services
  <1>1. Names \in Seq(Services)
    BY DependenciesAssumption
  <1> QED
    BY <1>1

LEMMA EveryName == \A s \in Services : \E i \in DOMAIN Names : Names[i] = s
  BY DEF Services, Range

Ending == [i \in DOMAIN Names |-> Call("stop", Watcher(Names[i]), TRUE)]
          \o <<[do |-> "exit"]>>

Booting == [i \in DOMAIN Names |-> [do |-> "watch", service |-> Names[i]]]
           \o <<[do |-> "listen"]>>

LEMMA NamesLength == DOMAIN Names = 1..Len(Names) /\ Len(Names) \in Nat
  BY NamesDomain

LEMMA EndingType ==
    ASSUME HeapOK, WatchersInv, AtLoop
    PROVE  /\ Ending \in Seq(Task) /\ Len(Ending) = Len(Names) + 1
           /\ \A i \in 1..Len(Names) : /\ Ending[i].do = "stop"
                                       /\ Ending[i].at \in DOMAIN heap
                                       /\ Of(Ending[i].at) = Names[i]
           /\ Ending[Len(Names) + 1].do = "exit"
  <1> DEFINE first == [i \in DOMAIN Names |-> Call("stop", Watcher(Names[i]), TRUE)]
             last == [do |-> "exit"]
  <1>1. \A i \in 1..Len(Names) : /\ Watcher(Names[i]) \in DOMAIN heap
                                 /\ Watcher(Names[i]) \in Nat
                                 /\ Of(Watcher(Names[i])) = Names[i]
    <2>1. \A i \in 1..Len(Names) : Watcher(Names[i]) \in DOMAIN heap /\ Of(Watcher(Names[i])) = Names[i]
      BY NamesDomain, WatcherExists
    <2> QED
      BY <2>1 DEF HeapOK
  <1>2. \A i \in 1..Len(Names) : Call("stop", Watcher(Names[i]), TRUE) \in Task
    BY <1>1 DEF Task, Call
  <1>3. first = [i \in 1..Len(Names) |-> Call("stop", Watcher(Names[i]), TRUE)]
    BY NamesLength
  <1>4. \A i \in 1..Len(Names) : first[i].do = "stop" /\ first[i].at = Watcher(Names[i])
    BY <1>3 DEF Call
  <1> HIDE DEF first
  <1>5. first \in [1..Len(Names) -> Task]
    BY <1>2, <1>3
  <1>6. first \in Seq(Task) /\ Len(first) = Len(Names)
    BY <1>5, NamesLength
  <1>7. last \in Task /\ last.do = "exit"
    BY DEF Task
  <1> HIDE DEF last
  <1>8. /\ first \o <<last>> \in Seq(Task)
        /\ Len(first \o <<last>>) = Len(first) + 1
        /\ \A i \in 1..Len(first) : (first \o <<last>>)[i] = first[i]
        /\ (first \o <<last>>)[Len(first) + 1] = last
    BY <1>6, <1>7, SnocSeq
  <1>9. Ending = first \o <<last>>
    BY DEF Ending, first, last
  <1> QED
    BY <1>1, <1>4, <1>6, <1>7, <1>8, <1>9

LEMMA BootingType ==
    /\ Booting \in Seq(Task) /\ Len(Booting) = Len(Names) + 1
    /\ \A i \in 1..Len(Names) : Booting[i].do = "watch" /\ Booting[i].service = Names[i]
    /\ Booting[Len(Names) + 1].do = "listen"
  <1> DEFINE first == [i \in DOMAIN Names |-> [do |-> "watch", service |-> Names[i]]]
             last == [do |-> "listen"]
  <1>1. \A i \in 1..Len(Names) : [do |-> "watch", service |-> Names[i]] \in Task
    BY NamesDomain DEF Task
  <1>2. first = [i \in 1..Len(Names) |-> [do |-> "watch", service |-> Names[i]]]
    BY NamesLength
  <1>3. \A i \in 1..Len(Names) : first[i].do = "watch" /\ first[i].service = Names[i]
    BY <1>2
  <1> HIDE DEF first
  <1>4. first \in [1..Len(Names) -> Task]
    BY <1>1, <1>2
  <1>5. first \in Seq(Task) /\ Len(first) = Len(Names)
    BY <1>4, NamesLength
  <1>6. last \in Task /\ last.do = "listen"
    BY DEF Task
  <1> HIDE DEF last
  <1>7. /\ first \o <<last>> \in Seq(Task)
        /\ Len(first \o <<last>>) = Len(first) + 1
        /\ \A i \in 1..Len(first) : (first \o <<last>>)[i] = first[i]
        /\ (first \o <<last>>)[Len(first) + 1] = last
    BY <1>5, <1>6, SnocSeq
  <1>8. Booting = first \o <<last>>
    BY DEF Booting, first, last
  <1> QED
    BY <1>3, <1>5, <1>6, <1>7, <1>8

-----------------------------------------------------------------------------
LEMMA BootType ==
    ASSUME TypeOK, Boot PROVE TypeOK' /\ WatchersInv'
  <1>1. ThreadOK /\ HeapOK /\ RestOK /\ up' = TRUE /\ heap' = heap /\ tasks' = Booting
    BY TypeSplit DEF Boot, Booting
  <1>2. DOMAIN Booting = 1..(Len(Names) + 1) /\ Len(Names) \in Nat
    BY BootingType, NamesLength
  <1>3. \A i \in DOMAIN Booting : Aimed(Booting[i], heap)
    <2> SUFFICES ASSUME NEW i \in DOMAIN Booting PROVE Aimed(Booting[i], heap)
      OBVIOUS
    <2>1. Booting[i] \in Task
      BY <1>2, BootingType
    <2>2. i \in 1..Len(Names) \/ i = Len(Names) + 1
      BY <1>2
    <2>3. Booting[i].do \in {"watch", "listen"}
      BY <2>2, BootingType
    <2> QED
      BY <2>1, <2>3 DEF Aimed, ObjectTasks
  <1>4. ThreadOK' /\ HeapOK'
    BY <1>1, <1>3, BootingType DEF ThreadOK, HeapOK
  <1>5. RestOK'
    BY <1>1 DEF Boot, RestOK, marks, processes, asked, history
  <1>6. WatchersInv'
    <2> SUFFICES ASSUME NEW s \in Services
                 PROVE  \E i \in DOMAIN tasks' : tasks'[i].do = "watch" /\ tasks'[i].service = s
      BY DEF WatchersInv
    <2>1. PICK i \in 1..Len(Names) : Names[i] = s
      BY EveryName, NamesLength
    <2>2. i \in DOMAIN Booting
      BY <1>2
    <2> QED
      BY <1>1, <2>1, <2>2, BootingType
  <1> QED
    BY <1>1, <1>4, <1>5, <1>6 DEF TypeOK, HeapOK, ThreadOK, RestOK, Aimed

LEMMA GoneKept ==
    ASSUME Gone, RestOK' PROVE TypeOK' /\ WatchersInv'
  BY GoneType DEF Gone, WatchersInv, TypeOK, HeapOK, ThreadOK, RestOK, Aimed

LEMMA ControlType ==
    ASSUME TypeOK, WatchersInv, CheckUserControlTriggers PROVE TypeOK' /\ WatchersInv'
  <1>1. ThreadOK /\ HeapOK /\ RestOK /\ up \in BOOLEAN /\ AtLoop
    BY TypeSplit DEF CheckUserControlTriggers
  <1>2. happened' \subseteq Rough
    BY <1>1, HappensType DEF CheckUserControlTriggers, RestOK, Rough
  <1>3. RestOK'
    BY <1>1, <1>2 DEF CheckUserControlTriggers, RestOK, marks, processes
  <1>4. CASE Gone
    BY <1>3, <1>4, GoneKept
  <1>5. CASE tasks' = Ending /\ UNCHANGED <<up, heap>>
    <2>1. HeapGrows
      BY <1>1, <1>5, HeapKept
    <2>2. Fresh(Ending, heap)
      <3>1. DOMAIN Ending = 1..(Len(Names) + 1) /\ Len(Names) \in Nat
        BY <1>1, EndingType, NamesLength
      <3> SUFFICES ASSUME NEW i \in DOMAIN Ending PROVE Aimed(Ending[i], heap)
        BY <1>1, EndingType DEF Fresh
      <3>2. Ending[i] \in Task
        BY <1>1, <3>1, EndingType
      <3>3. CASE i \in 1..Len(Names)
        BY <1>1, <3>2, <3>3, EndingType DEF Aimed
      <3>4. CASE i = Len(Names) + 1
        BY <1>1, <3>2, <3>4, EndingType DEF Aimed, ObjectTasks
      <3> QED
        BY <3>1, <3>3, <3>4
    <2>3. ThreadOK'
      BY <1>5, <2>2, FreshThread
    <2>4. WatchersInv'
      BY <1>1, <1>5, <2>1, LoopWatchers
    <2> QED
      BY <1>1, <1>3, <1>5, <2>1, <2>3, <2>4
         DEF TypeOK, HeapGrows, HeapOK, ThreadOK, RestOK, Aimed
  <1> QED
    BY <1>4, <1>5 DEF CheckUserControlTriggers, Ending

LEMMA EnvironmentType ==
    ASSUME TypeOK, WatchersInv,
           \/ \E s \in Services, t \in TriggerNames : Touch(s, t)
           \/ \E f \in {"shutdown", "shutdownGracefully"} : TouchControl(f)
           \/ \E s \in Services : ProcessDies(s)
           \/ UNCHANGED vars
    PROVE  TypeOK' /\ WatchersInv'
  <1>1. ThreadOK /\ HeapOK /\ RestOK /\ up \in BOOLEAN
    BY TypeSplit
  <1>2. up' = up /\ tasks' = tasks /\ heap' = heap
    BY DEF Touch, TouchControl, ProcessDies, vars, memory
  <1>3. spent' \in 0..MaxEvents
    BY <1>1, EventType DEF Touch, TouchControl, ProcessDies, RestOK, vars, history
  <1>4. RestOK'
    <2>1. ASSUME NEW s \in Services, NEW t \in TriggerNames, Touch(s, t)
          PROVE  RestOK'
      BY <1>1, <1>3, <2>1 DEF Touch, RestOK, marks, processes
    <2>2. ASSUME NEW f \in {"shutdown", "shutdownGracefully"}, TouchControl(f)
          PROVE  RestOK'
      BY <1>1, <1>3, <2>2 DEF TouchControl, RestOK, marks, processes
    <2>3. ASSUME NEW s \in Services, ProcessDies(s)
          PROVE  RestOK'
      BY <1>1, <1>3, <2>3 DEF ProcessDies, RestOK, marks, asked
    <2>4. CASE UNCHANGED vars
      BY <1>1, <1>3, <2>4 DEF RestOK, vars, marks, processes, asked, history
    <2> QED
      BY <2>1, <2>2, <2>3, <2>4
  <1>5. ThreadOK' /\ HeapOK' /\ up' \in BOOLEAN
    BY <1>1, <1>2 DEF HeapOK, ThreadOK, Aimed
  <1>6. WatchersInv'
    BY <1>2 DEF WatchersInv, HasWatcher
  <1> QED
    BY <1>4, <1>5, <1>6 DEF TypeOK, HeapOK, ThreadOK, RestOK, Aimed

(* An afterStop that is still to come finds no indicator of another one:   *)
(* its stop has removed it, and only a death of svdss leaves indicators.   *)
ClearInv == \A i \in DOMAIN tasks : Clear(tasks[i], heap, leftovers)

LEMMA AfterStopUnmarks ==
    ASSUME TypeOK, ClearInv, AfterStop PROVE running' = running \ {Of(Head(tasks).at)}
  <1>1. ThreadOK /\ tasks # <<>> /\ Head(tasks).do = "afterStop"
    BY TypeSplit DEF AfterStop, Doing
  <1>2. Clear(Head(tasks), heap, leftovers)
    BY <1>1, HeadType DEF ClearInv
  <1> QED
    BY <1>1, <1>2 DEF AfterStop, Clear, Of

LEMMA SlotClear ==
    ASSUME TypeOK, ClearInv, SlotStep, ~Exit PROVE ClearInv'
  <1>1. ThreadOK /\ tasks # <<>> /\ HeapGrows /\ Puts
    BY SlotCalls, TypeSplit
  <1>2. leftovers' \subseteq leftovers
    BY DEF SlotStep, Start, StartDep, Launch, Stop, AfterStop, Watch, Resume, Listen, marks
  <1>3. PICK first \in Seq(Task) :
          Calls(first) /\ \A i \in 1..Len(first) : Clear(first[i], heap', leftovers')
    BY <1>1 DEF Puts
  <1>4. ASSUME NEW i \in DOMAIN tasks' PROVE Clear(tasks'[i], heap', leftovers')
    <2>1. i \in 1..Len(first) \/ i \in (Len(first) + 1)..Len(tasks')
      BY <1>1, <1>3, CallsType
    <2>2. CASE i \in 1..Len(first)
      BY <1>1, <1>3, <2>2, CallsType
    <2>3. CASE i \in (Len(first) + 1)..Len(tasks')
      <3>1. PICK j \in DOMAIN tasks : tasks'[i] = tasks[j]
        BY <1>1, <1>3, <2>3, CallsType DEF ThreadOK
      <3>2. Clear(tasks[j], heap, leftovers) /\ Aimed(tasks[j], heap)
        BY <1>1 DEF ClearInv, ThreadOK
      <3> QED
        BY <1>1, <1>2, <3>1, <3>2 DEF Clear, Aimed, HeapGrows, ObjectTasks
    <2> QED
      BY <2>1, <2>2, <2>3
  <1> QED
    BY <1>4 DEF ClearInv

LEMMA LoopClear ==
    ASSUME TypeOK, WatchersInv, ClearInv,
           \/ Obey \/ BabySitters \/ CheckUserControlTriggers \/ Boot
           \/ \E s \in Services, t \in TriggerNames : Touch(s, t)
           \/ \E f \in {"shutdown", "shutdownGracefully"} : TouchControl(f)
           \/ \E s \in Services : ProcessDies(s)
           \/ UNCHANGED vars
    PROVE  ClearInv'
  <1>1. CASE tasks' = tasks /\ heap' = heap /\ leftovers' = leftovers
    BY <1>1 DEF ClearInv
  <1>2. CASE \A i \in DOMAIN tasks' : tasks'[i].do # "afterStop"
    BY <1>2 DEF ClearInv, Clear
  <1>3. \A o, deps : \A i \in DOMAIN Restart(o, deps) : Restart(o, deps)[i].do # "afterStop"
    BY DEF Restart, Call
  <1>4. CASE Obey
    <2>1. \/ tasks' = tasks
          \/ \E o, t : t \in TriggerNames /\ tasks' = Slot(t, o)
      BY <1>4 DEF Obey
    <2>2. CASE tasks' = tasks
      BY <1>1, <1>4, <2>2 DEF Obey, marks
    <2>3. ASSUME NEW o, NEW t \in TriggerNames, tasks' = Slot(t, o) PROVE ClearInv'
      <3>1. CASE t \in StartTriggers
        <4>1. \E deps : tasks' = <<Call("start", o, deps)>>
          BY <2>3, <3>1 DEF Slot, StartTriggers, StopTriggers, RestartTriggers
        <4>2. \A i \in DOMAIN tasks' : tasks'[i].do # "afterStop"
          BY <4>1 DEF Call
        <4> QED
          BY <1>2, <4>2
      <3>2. CASE t \in StopTriggers
        <4>1. \E deps : tasks' = <<Call("stop", o, deps)>>
          BY <2>3, <3>2 DEF Slot, StartTriggers, StopTriggers, RestartTriggers
        <4>2. \A i \in DOMAIN tasks' : tasks'[i].do # "afterStop"
          BY <4>1 DEF Call
        <4> QED
          BY <1>2, <4>2
      <3>3. CASE t \in RestartTriggers
        <4>1. Slot(t, o) = Restart(o, ~Alone(t))
          BY <3>3 DEF Slot, StartTriggers, StopTriggers, RestartTriggers
        <4> QED
          BY <1>2, <1>3, <2>3, <4>1
      <3> QED
        BY <3>1, <3>2, <3>3 DEF TriggerNames
    <2> QED
      BY <2>1, <2>2, <2>3
  <1>5. CASE BabySitters
    <2>1. tasks = <<>> /\ (tasks' = tasks \/ \E o : tasks' = Restart(o, TRUE))
      BY <1>5 DEF BabySitters, BabySitterSlot, AtLoop
    <2>2. CASE tasks' = <<>>
      BY <1>2, <2>2
    <2>3. ASSUME NEW o, tasks' = Restart(o, TRUE) PROVE ClearInv'
      BY <1>2, <1>3, <2>3
    <2> QED
      BY <2>1, <2>2, <2>3
  <1>6. CASE CheckUserControlTriggers
    <2>1. AtLoop /\ HeapOK /\ (tasks' = <<>> \/ tasks' = Ending)
      BY <1>6, TypeSplit DEF CheckUserControlTriggers, Gone, Ending
    <2>2. \A i \in DOMAIN Ending : Ending[i].do # "afterStop"
      <3>1. DOMAIN Ending = 1..(Len(Names) + 1) /\ Len(Names) \in Nat
        BY <2>1, EndingType, NamesLength
      <3>2. \A i \in DOMAIN Ending : i \in 1..Len(Names) \/ i = Len(Names) + 1
        BY <3>1
      <3> QED
        BY <2>1, <3>2, EndingType
    <2> QED
      BY <1>2, <2>1, <2>2
  <1>7. CASE Boot
    <2>1. tasks' = Booting
      BY <1>7 DEF Boot, Booting
    <2>2. \A i \in DOMAIN Booting : i \in 1..Len(Names) \/ i = Len(Names) + 1
      BY BootingType, NamesLength
    <2> QED
      BY <1>2, <2>1, <2>2, BootingType
  <1>8. CASE \/ \E s \in Services, t \in TriggerNames : Touch(s, t)
             \/ \E f \in {"shutdown", "shutdownGracefully"} : TouchControl(f)
             \/ \E s \in Services : ProcessDies(s)
             \/ UNCHANGED vars
    BY <1>1, <1>8 DEF Touch, TouchControl, ProcessDies, vars, memory, marks
  <1> QED
    BY <1>4, <1>5, <1>6, <1>7, <1>8

(* What a death amid a slot leaves of it. *)
LEMMA HalfType ==
    ASSUME TypeOK,
           HalfStarted \/ HalfLaunched \/ Unmarked \/ HalfStopped \/ HalfAfterStopped
    PROVE  /\ configured' \subseteq Services /\ running' \subseteq Services
           /\ leftovers' \subseteq Services \X Indicators
           /\ alive' \subseteq pids' /\ pids' \subseteq Services
           /\ tasks # <<>>
  <1>1. ThreadOK /\ HeapOK /\ RestOK
    BY TypeSplit
  <1>2. /\ tasks # <<>>
        /\ Head(tasks).do \in {"start", "launch", "stop", "afterStop"}
    BY DEF HalfStarted, HalfLaunched, Unmarked, HalfStopped, HalfAfterStopped, Doing
  <1>3. Of(Head(tasks).at) \in Services /\ Requires[Of(Head(tasks).at)] \in Seq(Services)
    BY <1>1, <1>2, HeadTask, ObjectOf DEF ObjectTasks
  <1>4. CASE HalfStarted
    <2> DEFINE s == Of(Head(tasks).at)
               targets == {s} \cup (IF Head(tasks).deps THEN Needs(s) ELSE {})
               free == {t \in targets : <<t, "configuring">> \notin leftovers}
    <2>1. Needs(s) \subseteq Services
      BY <1>3 DEF Needs, Range
    <2>2. targets \subseteq Services /\ free \subseteq targets
      BY <1>3, <2>1
    <2>3. PICK t \in targets, done \in SUBSET targets, f \in {"installing", "configuring"} :
             /\ \E met \in SUBSET (done \cap free) : configured' = configured \cup met
             /\ leftovers' = leftovers \cup {<<t, f>>}
      BY <1>4 DEF HalfStarted
    <2>4. UNCHANGED <<running, processes>>
      BY <1>4 DEF HalfStarted
    <2> HIDE DEF targets, free
    <2>5. configured' \subseteq Services
      BY <1>1, <2>2, <2>3 DEF RestOK
    <2>6. leftovers' \subseteq Services \X Indicators
      BY <1>1, <2>2, <2>3 DEF RestOK, Indicators
    <2> QED
      BY <1>1, <1>2, <2>4, <2>5, <2>6 DEF RestOK, processes
  <1>5. CASE HalfLaunched
    BY <1>1, <1>2, <1>3, <1>5 DEF HalfLaunched, Lives, RestOK, Indicators, processes
  <1>6. CASE Unmarked \/ HalfStopped
    BY <1>1, <1>2, <1>3, <1>6 DEF Unmarked, HalfStopped, Lives, RestOK, marks
  <1>7. CASE HalfAfterStopped
    BY <1>1, <1>2, <1>3, <1>7 DEF HalfAfterStopped, RestOK, Indicators, processes
  <1> QED
    BY <1>4, <1>5, <1>6, <1>7

LEMMA DeathType ==
    ASSUME TypeOK, Exit \/ Killed PROVE TypeOK' /\ WatchersInv' /\ ClearInv'
  <1>1. RestOK /\ Gone
    BY TypeSplit DEF Exit, Killed
  <1>2. spent' \in 0..MaxEvents
    BY <1>1, EventType DEF Exit, Killed, RestOK
  <1>3. happened' \subseteq Rough
    BY <1>1, HappensType DEF Exit, Killed, RestOK, Rough
  <1>4. /\ configured' \subseteq Services /\ running' \subseteq Services
        /\ leftovers' \subseteq Services \X Indicators
        /\ alive' \subseteq pids' /\ pids' \subseteq Services
    <2>1. CASE UNCHANGED <<marks, processes>>
      BY <1>1, <2>1 DEF RestOK, marks, processes
    <2>2. CASE ~UNCHANGED <<marks, processes>>
      <3>1. HalfStarted \/ HalfLaunched \/ Unmarked \/ HalfStopped \/ HalfAfterStopped
        BY <2>2 DEF Exit, Killed
      <3> QED
        BY <3>1, HalfType
    <2> QED
      BY <2>1, <2>2
  <1>5. RestOK'
    BY <1>1, <1>2, <1>3, <1>4 DEF Exit, Killed, RestOK, asked
  <1>6. ClearInv'
    BY <1>1 DEF Gone, ClearInv
  <1> QED
    BY <1>1, <1>5, <1>6, GoneKept

BaseInv == TypeOK /\ WatchersInv /\ ClearInv

LEMMA BaseInit == Init => BaseInv
  <1> SUFFICES ASSUME Init PROVE BaseInv
    OBVIOUS
  <1>1. <<>> \in Seq(Task) /\ <<>> \in Seq(Object) /\ DOMAIN <<>> = {}
    OBVIOUS
  <1>2. ThreadOK /\ HeapOK
    BY <1>1 DEF Init, ThreadOK, HeapOK
  <1>3. RestOK
    BY DependenciesAssumption DEF Init, RestOK
  <1>4. WatchersInv
    BY DEF Init, WatchersInv
  <1>5. ClearInv
    BY <1>1 DEF Init, ClearInv
  <1> QED
    BY <1>2, <1>3, <1>4, <1>5, TypeSplit DEF BaseInv, Init

LEMMA BaseStep == BaseInv /\ [Next]_vars => BaseInv'
  <1> SUFFICES ASSUME BaseInv, [Next]_vars PROVE TypeOK' /\ WatchersInv' /\ ClearInv'
    BY DEF BaseInv
  <1>0. TypeOK /\ WatchersInv /\ ClearInv
    BY DEF BaseInv
  <1>1. CASE SlotStep /\ ~Exit
    BY <1>0, <1>1, SlotCalls, SlotWatchers, SlotClear
  <1>2. CASE Exit \/ Killed
    BY <1>0, <1>2, DeathType
  <1>3. CASE Obey
    BY <1>0, <1>3, ObeyType, LoopClear
  <1>4. CASE BabySitters
    BY <1>0, <1>4, BabySittersType, LoopClear
  <1>5. CASE CheckUserControlTriggers
    BY <1>0, <1>5, ControlType, LoopClear
  <1>6. CASE Boot
    BY <1>0, <1>6, BootType, LoopClear
  <1>7. CASE \/ \E s \in Services, t \in TriggerNames : Touch(s, t)
             \/ \E f \in {"shutdown", "shutdownGracefully"} : TouchControl(f)
             \/ \E s \in Services : ProcessDies(s)
             \/ UNCHANGED vars
    BY <1>0, <1>7, EnvironmentType, LoopClear
  <1> QED
    BY <1>1, <1>2, <1>3, <1>4, <1>5, <1>6, <1>7 DEF Next

(* svdss never has a task about an object that is not there, and no object *)
(* has a dependency that is not there, for every graph of dependencies     *)
(* (service.cc:692-721, 938-950, 481-495).                                 *)
THEOREM DependenciesTypeCorrect == Spec => []TypeOK
  <1>1. BaseInv => TypeOK
    BY DEF BaseInv
  <1> QED
    BY <1>1, BaseInit, BaseStep, PTL DEF Spec

-----------------------------------------------------------------------------
(* RunningIsSat: a service marked running is sat by an object, or a task   *)
(* of the thread will see to it.                                           *)
SatBy(s, objects) == \E o \in DOMAIN objects : objects[o].of = s /\ objects[o].sits

Sees(t, s, objects) ==
    \/ t.do = "watch" /\ t.service = s
    \/ t.do \in {"resume", "start", "afterStop"} /\ objects[t.at].of = s

Sat(s) == SatBy(s, heap) \/ \E i \in DOMAIN tasks : Sees(tasks[i], s, heap)

(* No start hook has missed what it expects, and no service that runs was  *)
(* left to a full disk.                                                    *)
Watched == Never({"full", "missed"})

SatInv == up /\ Watched => \A s \in running : Sat(s)

(* What a slot puts in front is the beginning of the tasks.                *)
LEMMA FirstPlaced ==
    ASSUME ThreadOK, tasks # <<>>, NEW first \in Seq(Task), Calls(first)
    PROVE  \A i \in 1..Len(first) : i \in DOMAIN tasks' /\ tasks'[i] = first[i]
  <1>1. /\ tasks' \in Seq(Task) /\ Len(tasks') = Len(first) + Len(tasks) - 1
        /\ \A i \in 1..Len(first) : tasks'[i] = first[i]
    BY CallsType
  <1>2. Len(tasks) \in Nat \ {0} /\ Len(first) \in Nat
    BY DEF ThreadOK
  <1>3. DOMAIN tasks' = 1..(Len(first) + Len(tasks) - 1)
    BY <1>1
  <1> QED
    BY <1>1, <1>2, <1>3

LEMMA SatKept ==
    ASSUME ThreadOK, tasks # <<>>, Puts, HeapGrows, NEW s, Sat(s),
           SatBy(s, heap) => Sat(s)',
           Sees(Head(tasks), s, heap) => Sat(s)'
    PROVE  Sat(s)'
  <1> SUFFICES ASSUME NEW j \in DOMAIN tasks, Sees(tasks[j], s, heap) PROVE Sat(s)'
    BY DEF Sat
  <1>1. PICK first \in Seq(Task) : Calls(first)
    BY DEF Puts
  <1>2. CASE j = 1
    BY <1>2, HeadType
  <1>3. CASE j \in 2..Len(tasks)
    <2>1. PICK i \in DOMAIN tasks' : tasks'[i] = tasks[j]
      BY <1>1, <1>3, CallsTail
    <2>2. Aimed(tasks[j], heap)
      BY DEF ThreadOK
    <2>3. Sees(tasks'[i], s, heap')
      BY <2>1, <2>2 DEF Sees, Aimed, HeapGrows, ObjectTasks
    <2> QED
      BY <2>3 DEF Sat
  <1> QED
    BY <1>1, <1>2, <1>3, CallsTail

LEMMA SatStart ==
    ASSUME TypeOK, SatInv, Start PROVE SatInv'
  <1> DEFINE o == Head(tasks).at
  <1>1. /\ ThreadOK /\ HeapOK /\ tasks # <<>> /\ HeapGrows /\ Puts
        /\ o \in DOMAIN heap /\ Head(tasks).do = "start"
    BY TypeSplit, StartType, HeadTask DEF Start, Doing, ObjectTasks
  <1>2. running' = running /\ up' = up /\ happened \subseteq happened'
    BY DEF Start, Happens
  <1> SUFFICES ASSUME up, Watched', NEW s \in running PROVE Sat(s)'
    BY <1>2 DEF SatInv
  <1>3. Sat(s)
    BY <1>2 DEF SatInv, Watched, Never
  <1>4. SatBy(s, heap) => Sat(s)'
    <2>1. CASE Sits(o, TRUE)
      <3>1. \A p \in DOMAIN heap : p \in DOMAIN heap' /\ (heap[p].sits => heap'[p].sits)
        BY <1>1, <2>1, SitsType
      <3> QED
        BY <1>1, <3>1 DEF SatBy, Sat, HeapGrows
    <2>2. CASE heap' = heap
      BY <2>2 DEF SatBy, Sat
    <2> QED
      BY <2>1, <2>2 DEF Start
  <1>5. Sees(Head(tasks), s, heap) => Sat(s)'
    <2> SUFFICES ASSUME heap[o].of = s PROVE Sat(s)'
      BY <1>1 DEF Sees
    <2>1. Sits(o, TRUE)
      BY DEF Start, Of, Happens, Watched, Never
    <2>2. heap'[o].sits = TRUE /\ heap'[o].of = s /\ o \in DOMAIN heap'
      BY <1>1, <2>1, SitsType DEF HeapGrows
    <2> QED
      BY <2>2 DEF Sat, SatBy
  <1> QED
    BY <1>1, <1>3, <1>4, <1>5, SatKept

LEMMA SatStartDep ==
    ASSUME TypeOK, SatInv, StartDep PROVE SatInv'
  <1> DEFINE o == Head(tasks).at  d == Head(tasks).service
  <1>1. /\ ThreadOK /\ HeapOK /\ tasks # <<>> /\ HeapGrows /\ Puts
        /\ o \in DOMAIN heap /\ d \in Services /\ Head(tasks).do = "startDep"
    BY TypeSplit, StartDepType, HeadTask DEF StartDep, Doing, ObjectTasks
  <1>2. running' = running /\ up' = up /\ happened' = happened
    BY DEF StartDep, marks, history
  <1> SUFFICES ASSUME up, Watched, NEW s \in running PROVE Sat(s)'
    BY <1>2 DEF SatInv, Watched, Never
  <1>3. Sat(s)
    BY DEF SatInv
  <1>4. \A p \in DOMAIN heap : heap'[p].sits = heap[p].sits
    BY <1>1, ChildType DEF StartDep
  <1>5. SatBy(s, heap) => Sat(s)'
    BY <1>1, <1>4 DEF SatBy, Sat, HeapGrows
  <1>6. ~Sees(Head(tasks), s, heap)
    BY <1>1 DEF Sees
  <1> QED
    BY <1>1, <1>3, <1>5, <1>6, SatKept

LEMMA SatLaunch ==
    ASSUME TypeOK, SatInv, Launch PROVE SatInv'
  <1> DEFINE o == Head(tasks).at
  <1>1. /\ ThreadOK /\ HeapOK /\ tasks # <<>> /\ HeapGrows /\ Puts
        /\ o \in DOMAIN heap /\ Head(tasks).do = "launch"
    BY TypeSplit, LaunchType, HeadTask DEF Launch, Doing, ObjectTasks
  <1>2. up' = up /\ happened \subseteq happened'
    BY DEF Launch, Happens
  <1> SUFFICES ASSUME up, Watched', NEW s \in running' PROVE Sat(s)'
    BY <1>2 DEF SatInv
  <1>3. ASSUME s \in running PROVE Sat(s)'
    <2>1. Sat(s)
      BY <1>2, <1>3 DEF SatInv, Watched, Never
    <2>2. \A p \in DOMAIN heap : heap[p].sits => heap'[p].sits
      BY <1>1, SitsType DEF Launch
    <2>3. SatBy(s, heap) => Sat(s)'
      BY <1>1, <2>2 DEF SatBy, Sat, HeapGrows
    <2>4. ~Sees(Head(tasks), s, heap)
      BY <1>1 DEF Sees
    <2> QED
      BY <1>1, <2>1, <2>3, <2>4, SatKept
  <1>4. ASSUME s \notin running PROVE Sat(s)'
    <2>1. Sits(o, TRUE) /\ s = Of(o)
      BY <1>4 DEF Launch, Happens, Watched, Never
    <2>2. heap'[o].sits = TRUE /\ heap'[o].of = s /\ o \in DOMAIN heap'
      BY <1>1, <2>1, SitsType DEF HeapGrows, Of
    <2> QED
      BY <2>2 DEF Sat, SatBy
  <1> QED
    BY <1>3, <1>4

LEMMA SatStop ==
    ASSUME TypeOK, SatInv, Stop PROVE SatInv'
  <1> DEFINE o == Head(tasks).at
             deps == IF Head(tasks).deps THEN heap[o].deps ELSE <<>>
  <1>1. /\ ThreadOK /\ HeapOK /\ tasks # <<>> /\ HeapGrows /\ Puts
        /\ o \in DOMAIN heap /\ Head(tasks).do = "stop" /\ Head(tasks).deps \in BOOLEAN
    BY TypeSplit, StopType, HeadTask DEF Stop, Doing, ObjectTasks
  <1>2. running' \subseteq running /\ up' = up /\ happened \subseteq happened'
    BY DEF Stop, Happens
  <1> SUFFICES ASSUME up, Watched, NEW s \in running, s \in running' PROVE Sat(s)'
    BY <1>2 DEF SatInv, Watched, Never
  <1>3. CASE s = Of(o)
    <2>1. Calls(Stopping(o, deps))
      BY <1>3 DEF Stop, Stopping
    <2>2. o \in Nat /\ deps \in Seq(Nat)
      BY <1>1, ObjectOf, EmptyFirst
    <2> DEFINE first == Stopping(o, deps)  n == Len(deps) + 1
    <2> HIDE DEF deps
    <2>3. /\ first \in Seq(Task) /\ n \in 1..Len(first)
          /\ first[n].do = "afterStop" /\ first[n].at = o
      BY <2>2, StoppingType
    <2> HIDE DEF first, n
    <2>4. n \in DOMAIN tasks' /\ tasks'[n] = first[n]
      BY <1>1, <2>1, <2>3, FirstPlaced DEF first
    <2>5. heap'[o].of = s
      BY <1>1, <1>3 DEF HeapGrows, Of
    <2> QED
      BY <2>3, <2>4, <2>5 DEF Sat, Sees
  <1>4. CASE s # Of(o)
    <2>1. Sat(s)
      BY DEF SatInv
    <2>2. \A p \in DOMAIN heap : p \in DOMAIN heap' /\ (p # o => heap'[p].sits = heap[p].sits)
      BY <1>1, SitsType DEF Stop
    <2>3. SatBy(s, heap) => Sat(s)'
      BY <1>1, <1>4, <2>2 DEF SatBy, Sat, HeapGrows, Of
    <2>4. ~Sees(Head(tasks), s, heap)
      BY <1>1 DEF Sees
    <2> QED
      BY <1>1, <2>1, <2>3, <2>4, SatKept
  <1> QED
    BY <1>3, <1>4

LEMMA SatWatch ==
    ASSUME TypeOK, SatInv, Watch PROVE SatInv'
  <1> DEFINE d == Head(tasks).service  o == Len(heap) + 1
             start == Call("start", o, TRUE)
             resume == [do |-> "resume", at |-> o]
             first == (IF d \in Autostart THEN <<start>> ELSE <<>>) \o <<resume>>
  <1>1. /\ ThreadOK /\ HeapOK /\ tasks # <<>> /\ HeapGrows /\ Puts
        /\ d \in Services /\ Head(tasks).do = "watch"
    BY TypeSplit, WatchType, HeadTask DEF Watch, Doing
  <1>2. running' = running /\ up' = up /\ happened' = happened
    BY DEF Watch, marks, history
  <1> SUFFICES ASSUME up, Watched, NEW s \in running PROVE Sat(s)'
    BY <1>2 DEF SatInv, Watched, Never
  <1>3. Sat(s)
    BY DEF SatInv
  <1>4. /\ \A p \in DOMAIN heap : heap'[p] = heap[p]
        /\ heap'[o] = New(d, TRUE) /\ heap'[o].of = d
    BY <1>1, AppendType, NewType DEF Watch
  <1>5. SatBy(s, heap) => Sat(s)'
    BY <1>1, <1>4 DEF SatBy, Sat, HeapGrows
  <1>6. CASE s = d
    <2>1. Calls(first)
      BY DEF Watch
    <2>2. start \in Task /\ resume \in Task /\ resume.at = o /\ resume.do = "resume"
      <3>1. o \in Nat
        BY <1>1 DEF HeapOK
      <3> QED
        BY <3>1 DEF Call, Task
    <2> HIDE DEF start, resume
    <2>3. /\ first \in Seq(Task)
          /\ \E i \in 1..Len(first) : first[i] = resume
      <3>1. CASE d \in Autostart
        <4>1. first = <<start>> \o <<resume>>
          BY <3>1
        <4> HIDE DEF first
        <4>2. /\ first \in Seq(Task) /\ Len(first) = 2 /\ first[2] = resume
          BY <2>2, <4>1, TwoFirst
        <4> QED
          BY <4>2
      <3>2. CASE d \notin Autostart
        <4>1. first = <<>> \o <<resume>>
          BY <3>2
        <4> HIDE DEF first
        <4>2. first = <<resume>>
          BY <2>2, <4>1, TwoFirst
        <4>3. /\ first \in Seq(Task) /\ Len(first) = 1 /\ first[1] = resume
          BY <2>2, <4>2, OneFirst
        <4> QED
          BY <4>3
      <3> QED
        BY <3>1, <3>2
    <2> HIDE DEF first
    <2>4. PICK i \in 1..Len(first) : first[i] = resume
      BY <2>3
    <2>5. i \in DOMAIN tasks' /\ tasks'[i] = resume
      BY <1>1, <2>1, <2>3, <2>4, FirstPlaced
    <2> QED
      BY <1>4, <1>6, <2>2, <2>5 DEF Sat, Sees
  <1>7. CASE s # d
    <2>1. ~Sees(Head(tasks), s, heap)
      BY <1>1, <1>7 DEF Sees
    <2> QED
      BY <1>1, <1>3, <1>5, <2>1, SatKept
  <1> QED
    BY <1>6, <1>7

LEMMA SatOther ==
    ASSUME TypeOK, ClearInv, SatInv, AfterStop \/ Resume \/ Listen PROVE SatInv'
  <1> DEFINE o == Head(tasks).at
  <1>1. ThreadOK /\ HeapOK /\ tasks # <<>> /\ HeapGrows /\ Puts
    BY TypeSplit, OtherSlotType DEF AfterStop, Resume, Listen, Doing
  <1>2. /\ running' \subseteq running /\ up' = up /\ happened \subseteq happened'
        /\ heap' = heap
    BY DEF AfterStop, Resume, Listen, marks, history, Happens
  <1> SUFFICES ASSUME up, Watched, NEW s \in running, s \in running' PROVE Sat(s)'
    BY <1>2 DEF SatInv, Watched, Never
  <1>3. Sat(s)
    BY DEF SatInv
  <1>4. SatBy(s, heap) => Sat(s)'
    BY <1>2 DEF SatBy, Sat
  <1>5. Sees(Head(tasks), s, heap) => Sat(s)'
    <2> SUFFICES ASSUME Sees(Head(tasks), s, heap) PROVE Sat(s)'
      OBVIOUS
    <2>1. CASE AfterStop
      BY <2>1, AfterStopUnmarks DEF AfterStop, Doing, Sees, Of
    <2>2. CASE Listen
      BY <2>2 DEF Listen, Doing, Sees
    <2>3. CASE Resume
      <3>1. o \in DOMAIN heap /\ heap[o].of = s
        BY <1>1, <2>3, HeadTask DEF Resume, Doing, Sees, ObjectTasks
      <3>2. Calls(<<Call("start", o, TRUE)>>)
        BY <2>3, <3>1 DEF Resume, Of
      <3>3. o \in Nat
        BY <1>1, <3>1 DEF HeapOK
      <3> DEFINE t == Call("start", o, TRUE)
      <3>4. t \in Task /\ t.do = "start" /\ t.at = o
        BY <3>3 DEF Call, Task
      <3> DEFINE first == <<t>>
      <3>5. Calls(first)
        BY <3>2
      <3> HIDE DEF t
      <3>6. first \in Seq(Task) /\ Len(first) = 1 /\ first[1] = t
        BY <3>4, OneFirst
      <3> HIDE DEF first
      <3>7. 1 \in DOMAIN tasks' /\ tasks'[1] = t
        BY <1>1, <3>5, <3>6, FirstPlaced
      <3> QED
        BY <1>2, <3>1, <3>4, <3>7 DEF Sat, Sees
    <2> QED
      BY <2>1, <2>2, <2>3
  <1> QED
    BY <1>1, <1>3, <1>4, <1>5, SatKept

(* A step that takes no babysitter from a service that is marked running.  *)
LEMMA SatLoop ==
    ASSUME SatInv, AtLoop, HeapGrows, running' = running, happened \subseteq happened',
           \A p \in DOMAIN heap : heap[p].sits /\ heap[p].of \in running => heap'[p].sits
    PROVE  SatInv'
  <1> SUFFICES ASSUME Watched, NEW s \in running PROVE SatBy(s, heap')
    BY DEF SatInv, Sat, Watched, Never
  <1>1. SatBy(s, heap)
    BY DEF SatInv, Sat, AtLoop
  <1> QED
    BY <1>1 DEF SatBy, HeapGrows

LEMMA SatBabySitters ==
    ASSUME TypeOK, WatchersInv, SatInv, BabySitters PROVE SatInv'
  <1>1. HeapOK /\ HeapGrows /\ AtLoop
    BY TypeSplit, BabySittersType DEF BabySitters
  <1>2. PICK o \in DOMAIN heap : BabySitterSlot(o)
    BY DEF BabySitters
  <1>3. running' = running /\ happened \subseteq happened'
    BY <1>2 DEF BabySitterSlot, marks, history
  <1>4. \A p \in DOMAIN heap : heap[p].sits /\ heap[p].of \in running => heap'[p].sits
    <2>1. CASE Of(o) \notin running /\ Sits(o, FALSE)
      BY <1>1, <2>1, SitsType DEF Of
    <2>2. CASE heap' = heap
      BY <2>2
    <2>3. ASSUME NEW q \in Adoptions(o),
                 heap' = [heap EXCEPT ![o].deps = @ \o [i \in DOMAIN q |-> Len(heap) + i]]
                         \o [i \in DOMAIN q |-> New(q[i], FALSE)]
          PROVE  \A p \in DOMAIN heap : heap'[p].sits = heap[p].sits
      BY <1>1, <2>3, AdoptType
    <2> QED
      BY <1>2, <2>1, <2>2, <2>3 DEF BabySitterSlot
  <1> QED
    BY <1>1, <1>3, <1>4, SatLoop

LEMMA SatBoot == ASSUME TypeOK, Boot PROVE SatInv'
  <1>1. tasks' = Booting /\ running' = running /\ running \subseteq Services
    BY TypeSplit DEF Boot, Booting, marks, RestOK
  <1> SUFFICES ASSUME NEW s \in running PROVE Sat(s)'
    BY <1>1 DEF SatInv
  <1>2. PICK i \in 1..Len(Names) : Names[i] = s
    BY <1>1, EveryName, NamesLength
  <1>3. i \in DOMAIN Booting
    BY BootingType, NamesLength
  <1> QED
    BY <1>1, <1>2, <1>3, BootingType DEF Sat, Sees

LEMMA SatStep == BaseInv /\ SatInv /\ [Next]_vars => SatInv'
  <1> SUFFICES ASSUME TypeOK, WatchersInv, ClearInv, SatInv, [Next]_vars PROVE SatInv'
    BY DEF BaseInv
  <1>1. CASE SlotStep /\ ~Exit
    BY <1>1, SatStart, SatStartDep, SatLaunch, SatStop, SatWatch, SatOther DEF SlotStep
  <1>2. CASE Exit \/ Killed
    BY <1>2 DEF Exit, Killed, Gone, SatInv
  <1>3. CASE Obey \/ (CheckUserControlTriggers /\ UNCHANGED heap)
    <2>1. HeapGrows /\ AtLoop /\ running' = running /\ happened \subseteq happened' /\ heap' = heap
      BY <1>3, HeapKept, TypeSplit DEF Obey, CheckUserControlTriggers, marks, Happens, Gone
    <2> QED
      BY <2>1, SatLoop
  <1>4. CASE BabySitters
    BY <1>4, SatBabySitters
  <1>5. CASE CheckUserControlTriggers /\ Gone
    BY <1>5 DEF Gone, SatInv
  <1>6. CASE Boot
    BY <1>6, SatBoot
  <1>7. CASE \/ \E s \in Services, t \in TriggerNames : Touch(s, t)
             \/ \E f \in {"shutdown", "shutdownGracefully"} : TouchControl(f)
             \/ \E s \in Services : ProcessDies(s)
             \/ UNCHANGED vars
    <2>1. /\ up' = up /\ tasks' = tasks /\ heap' = heap
          /\ running' = running /\ happened' = happened
      BY <1>7 DEF Touch, TouchControl, ProcessDies, vars, memory, marks, history
    <2> QED
      BY <2>1 DEF SatInv, Sat, SatBy, Watched, Never
  <1>8. CheckUserControlTriggers => UNCHANGED heap \/ Gone
    BY DEF CheckUserControlTriggers
  <1> QED
    BY <1>1, <1>2, <1>3, <1>4, <1>5, <1>6, <1>7, <1>8 DEF Next

(* Whatever is marked running when svdss is at its loop has a babysitter,  *)
(* for every graph of dependencies and through deaths of svdss amid its    *)
(* slots (service.cc:299-329, 661-663, 750-753), unless a start hook has   *)
(* missed what it expects (746-749, 768) or the disk was full.             *)
THEOREM RunningSatCorrect == Spec => []RunningIsSat
  <1>1. Init => BaseInv /\ SatInv
    BY BaseInit DEF Init, SatInv
  <1>2. BaseInv /\ SatInv /\ [Next]_vars => (BaseInv /\ SatInv)'
    BY BaseStep, SatStep
  <1>3. BaseInv /\ SatInv => RunningIsSat
    <2> SUFFICES ASSUME SatInv, AtLoop, Watched, NEW s \in running
                 PROVE  \E o \in DOMAIN heap : Of(o) = s /\ heap[o].sits
      BY DEF RunningIsSat, Watched
    <2> QED
      BY DEF SatInv, Sat, SatBy, AtLoop, Of
  <1> QED
    BY <1>1, <1>2, <1>3, PTL DEF Spec

-----------------------------------------------------------------------------
(* GracefulExitStopsAll: what comes before the exit stops every service    *)
(* that still runs, and nothing launches a service while one is stopped.   *)
Stops == {"stop", "afterStop"}

Winding(q, j) == \A i \in 1..(j - 1) : q[i].do \in Stops

Last(j) == Winding(tasks, j) /\ \A s \in running : \E i \in 1..(j - 1) : Of(tasks[i].at) = s

(* Every process is of a service that is marked running, unless svdss died *)
(* between a start hook and the mark.                                      *)
Marked == Never({"stray"}) => alive \subseteq running

ExitInv ==
    /\ Marked
    /\ \A j \in DOMAIN tasks :
          /\ tasks[j].do = "afterStop" => Winding(tasks, j) /\ Of(tasks[j].at) \notin alive
          /\ tasks[j].do = "exit" => Last(j)

(* The slots that stop nothing run when no stop and no exit is under way.  *)
Ordinary(do) == do \notin {"afterStop", "exit"}

LEMMA ExitOrdinary ==
    ASSUME ThreadOK, tasks # <<>>, ExitInv, Marked',
           Head(tasks).do \notin {"stop", "afterStop", "exit"},
           NEW first \in Seq(Task), Calls(first),
           \A i \in 1..Len(first) : Ordinary(first[i].do)
    PROVE  ExitInv'
  <1>1. /\ tasks' \in Seq(Task)
        /\ \A i \in 1..Len(first) : tasks'[i] = first[i]
        /\ \A i \in (Len(first) + 1)..Len(tasks') :
              /\ i - Len(first) + 1 \in 2..Len(tasks)
              /\ tasks'[i] = tasks[i - Len(first) + 1]
    BY CallsType
  <1>2. \A j \in 2..Len(tasks) : Ordinary(tasks[j].do)
    <2> SUFFICES ASSUME NEW j \in 2..Len(tasks), ~Ordinary(tasks[j].do) PROVE FALSE
      OBVIOUS
    <2>1. j \in DOMAIN tasks /\ 1 \in 1..(j - 1) /\ Head(tasks) = tasks[1]
      BY HeadType, CallsTail DEF ThreadOK
    <2>2. Winding(tasks, j)
      BY <2>1 DEF ExitInv, Ordinary, Last
    <2> QED
      BY <2>1, <2>2 DEF Winding, Stops
  <1>3. ASSUME NEW j \in DOMAIN tasks' PROVE Ordinary(tasks'[j].do)
    <2>1. j \in 1..Len(first) \/ j \in (Len(first) + 1)..Len(tasks')
      BY <1>1
    <2> QED
      BY <1>1, <1>2, <2>1
  <1> QED
    BY <1>3 DEF ExitInv, Ordinary

LEMMA ExitReturns ==
    ASSUME ThreadOK, tasks # <<>>, ExitInv, Marked',
           Head(tasks).do \notin {"stop", "afterStop", "exit"}, Returns
    PROVE  ExitInv'
  <1>1. Calls(<<>>) /\ <<>> \in Seq(Task) /\ \A i \in 1..Len(<<>>) : FALSE
    BY EmptyFirst DEF Returns
  <1> QED
    BY <1>1, ExitOrdinary

LEMMA ExitOne ==
    ASSUME ThreadOK, tasks # <<>>, ExitInv, Marked',
           Head(tasks).do \notin {"stop", "afterStop", "exit"},
           NEW t \in Task, Ordinary(t.do), Calls(<<t>>)
    PROVE  ExitInv'
  <1> DEFINE first == <<t>>
  <1>1. first \in Seq(Task) /\ Len(first) = 1 /\ first[1] = t
    BY OneFirst
  <1>2. Calls(first)
    OBVIOUS
  <1> HIDE DEF first
  <1>3. \A i \in 1..Len(first) : Ordinary(first[i].do)
    BY <1>1
  <1> QED
    BY <1>1, <1>2, <1>3, ExitOrdinary

LEMMA CallTask ==
    ASSUME HeapOK, NEW o \in DOMAIN heap \cup {Len(heap) + 1},
           NEW deps \in BOOLEAN, NEW do \in {"start", "stop"}
    PROVE  Call(do, o, deps) \in Task /\ Call(do, o, deps).do = do
  <1>1. o \in Nat
    BY DEF HeapOK
  <1> QED
    BY <1>1 DEF Call, Task

(* A launch marks the service whose process it starts.                     *)
LEMMA MarkedLaunch ==
    ASSUME Marked, Launch PROVE Marked'
  <1> DEFINE s == Of(Head(tasks).at)
  <1>1. happened \subseteq happened'
    BY DEF Launch, Happens, Event
  <1>2. \/ alive' = alive /\ running' = running
        \/ alive' \subseteq alive \cup {s} /\ running' = running \cup {s}
    BY DEF Launch, Lives, processes
  <1> HIDE DEF s
  <1> QED
    BY <1>1, <1>2 DEF Marked, Never

(* What leaves marks and processes alone, or ends processes of services    *)
(* that it also unmarks, disturbs nothing.                                 *)
LEMMA MarkedStays ==
    ASSUME Marked, happened \subseteq happened', NEW gone,
           alive' \subseteq alive \ gone, running \ gone \subseteq running'
    PROVE  Marked'
  BY DEF Marked, Never

LEMMA ExitStarts ==
    ASSUME TypeOK, ExitInv, Start \/ StartDep \/ Launch \/ Resume \/ Listen PROVE ExitInv'
  <1> DEFINE o == Head(tasks).at
             need == IF Head(tasks).deps THEN Requires[Of(o)] ELSE <<>>
  <1>1. /\ ThreadOK /\ HeapOK /\ tasks # <<>>
        /\ Head(tasks).do \in {"start", "startDep", "launch", "resume", "listen"}
    BY TypeSplit DEF Start, StartDep, Launch, Resume, Listen, Doing
  <1>2. Head(tasks).do \notin {"stop", "afterStop", "exit"}
    BY <1>1
  <1>3. Marked'
    <2>1. CASE Start \/ StartDep \/ Resume \/ Listen
      <3>1. /\ alive' \subseteq alive \ {} /\ running \ {} \subseteq running'
            /\ happened \subseteq happened'
        BY <2>1 DEF Start, StartDep, Resume, Listen, marks, processes, history, Happens
      <3> QED
        BY <3>1, MarkedStays DEF ExitInv
    <2> QED
      BY <2>1, MarkedLaunch DEF ExitInv
  <1>4. CASE Returns
    BY <1>1, <1>2, <1>3, <1>4, ExitReturns
  <1>5. CASE Start /\ Calls(Launching(o, need))
    <2>1. o \in DOMAIN heap /\ Head(tasks).deps \in BOOLEAN
      BY <1>1, <1>5, HeadTask DEF Start, Doing, ObjectTasks
    <2>2. o \in Nat /\ need \in Seq(Services)
      BY <1>1, <2>1, ObjectOf, EmptyFirst
    <2> DEFINE first == Launching(o, need)
    <2>3. Calls(first)
      BY <1>5
    <2> HIDE DEF need
    <2>4. first \in Seq(Task) /\ \A i \in 1..Len(first) : first[i].do \in {"startDep", "launch"}
      BY <2>2, LaunchingType
    <2> HIDE DEF first
    <2>5. \A i \in 1..Len(first) : Ordinary(first[i].do)
      BY <2>4 DEF Ordinary
    <2> QED
      BY <1>1, <1>2, <1>3, <2>3, <2>4, <2>5, ExitOrdinary
  <1>6. CASE \E p \in DOMAIN heap \cup {Len(heap) + 1} : Calls(<<Call("start", p, TRUE)>>)
    <2>1. PICK p \in DOMAIN heap \cup {Len(heap) + 1} : Calls(<<Call("start", p, TRUE)>>)
      BY <1>6
    <2> DEFINE t == Call("start", p, TRUE)
    <2>2. t \in Task /\ t.do = "start"
      BY <1>1, CallTask
    <2>3. Calls(<<t>>)
      BY <2>1
    <2> HIDE DEF t
    <2>4. Ordinary(t.do)
      BY <2>2 DEF Ordinary
    <2> QED
      BY <1>1, <1>2, <1>3, <2>2, <2>3, <2>4, ExitOne
  <1>7. Resume => o \in DOMAIN heap
    BY <1>1, HeadTask DEF Resume, Doing, ObjectTasks
  <1>8. Resume => Returns \/ Calls(<<Call("start", o, TRUE)>>)
    BY DEF Resume, Returns
  <1> QED
    BY <1>4, <1>5, <1>6, <1>7, <1>8 DEF Start, StartDep, Launch, Listen, Launching

LEMMA ExitWatch ==
    ASSUME TypeOK, ExitInv, Watch PROVE ExitInv'
  <1> DEFINE d == Head(tasks).service  o == Len(heap) + 1
             start == Call("start", o, TRUE)
             resume == [do |-> "resume", at |-> o]
             first == (IF d \in Autostart THEN <<start>> ELSE <<>>) \o <<resume>>
  <1>1. ThreadOK /\ HeapOK /\ tasks # <<>> /\ Head(tasks).do = "watch"
    BY TypeSplit DEF Watch, Doing
  <1>2. Marked' /\ Head(tasks).do \notin {"stop", "afterStop", "exit"}
    BY <1>1 DEF Watch, marks, processes, history, ExitInv, Marked, Never
  <1>3. Calls(first)
    BY DEF Watch
  <1>4. start \in Task /\ resume \in Task /\ Ordinary(start.do) /\ Ordinary(resume.do)
    <2>1. o \in Nat
      BY <1>1 DEF HeapOK
    <2> QED
      BY <2>1 DEF Call, Task, Ordinary
  <1> HIDE DEF start, resume
  <1>5. first = <<start>> \o <<resume>> \/ first = <<resume>>
    BY <1>4, TwoFirst
  <1> HIDE DEF first
  <1>6. first \in Seq(Task) /\ \A i \in 1..Len(first) : Ordinary(first[i].do)
    <2>1. CASE first = <<start>> \o <<resume>>
      <3>1. /\ first \in Seq(Task) /\ Len(first) = 2
            /\ first[1] = start /\ first[2] = resume
        BY <1>4, <2>1, TwoFirst
      <3> QED
        BY <1>4, <3>1
    <2>2. CASE first = <<resume>>
      <3>1. first \in Seq(Task) /\ Len(first) = 1 /\ first[1] = resume
        BY <1>4, <2>2, OneFirst
      <3> QED
        BY <1>4, <3>1
    <2> QED
      BY <1>5, <2>1, <2>2
  <1> QED
    BY <1>1, <1>2, <1>3, <1>6, ExitOrdinary

(* A slot that stops puts stops in front of stops.                         *)
LEMMA ExitStops ==
    ASSUME ThreadOK, tasks # <<>>, ExitInv, HeapGrows, Head(tasks).do \in Stops,
           Marked', running' \subseteq running, alive' \subseteq alive,
           NEW first \in Seq(Task), Calls(first),
           \A i \in 1..Len(first) :
              /\ first[i].do \in Stops
              /\ first[i].do = "afterStop" => heap'[first[i].at].of \notin alive',
           Of(Head(tasks).at) \in running' =>
              \E i \in 1..Len(first) : heap'[first[i].at].of = Of(Head(tasks).at)
    PROVE  ExitInv'
  <1>1. /\ tasks' \in Seq(Task)
        /\ Len(tasks') = Len(first) + Len(tasks) - 1
        /\ Len(first) \in Nat /\ Len(tasks) \in Nat \ {0}
        /\ DOMAIN tasks = 1..Len(tasks) /\ DOMAIN tasks' = 1..Len(tasks')
        /\ Head(tasks) = tasks[1]
    <2>1. tasks' \in Seq(Task) /\ Len(tasks') = Len(first) + Len(tasks) - 1
      BY CallsType
    <2> QED
      BY <2>1, HeadType DEF ThreadOK
  <1>2. /\ \A i \in 1..Len(first) : tasks'[i] = first[i]
        /\ \A i \in (Len(first) + 1)..Len(tasks') :
              /\ i - Len(first) + 1 \in 2..Len(tasks)
              /\ tasks'[i] = tasks[i - Len(first) + 1]
    BY CallsType
  <1>3. \A i \in DOMAIN tasks : tasks[i].do \in Stops =>
           tasks[i].at \in DOMAIN heap /\ heap'[tasks[i].at].of = heap[tasks[i].at].of
    BY DEF ThreadOK, Aimed, Stops, ObjectTasks, HeapGrows
  <1> SUFFICES ASSUME NEW j \in DOMAIN tasks'
               PROVE  /\ tasks'[j].do = "afterStop" =>
                            Winding(tasks', j) /\ heap'[tasks'[j].at].of \notin alive'
                      /\ tasks'[j].do = "exit" => Last(j)'
    BY DEF ExitInv, Of
  <1>4. j \in 1..Len(tasks')
    BY <1>1
  <1>5. CASE j \in 1..Len(first)
    <2>1. tasks'[j] = first[j] /\ first[j].do \in Stops
      BY <1>2, <1>5
    <2>2. Winding(tasks', j)
      <3> SUFFICES ASSUME NEW i \in 1..(j - 1) PROVE tasks'[i].do \in Stops
        BY DEF Winding
      <3>1. i \in 1..Len(first)
        BY <1>1, <1>5
      <3> QED
        BY <1>2, <3>1
    <2> QED
      BY <1>5, <2>1, <2>2 DEF Stops
  <1>6. CASE j \in (Len(first) + 1)..Len(tasks')
    <2> DEFINE k == j - Len(first) + 1
    <2>1. k \in 2..Len(tasks) /\ tasks'[j] = tasks[k] /\ k \in DOMAIN tasks
      BY <1>1, <1>2, <1>6
    <2>2. ASSUME Winding(tasks, k) PROVE Winding(tasks', j)
      <3> SUFFICES ASSUME NEW i \in 1..(j - 1) PROVE tasks'[i].do \in Stops
        BY DEF Winding
      <3>1. CASE i \in 1..Len(first)
        BY <1>2, <3>1
      <3>2. CASE i \notin 1..Len(first)
        <4>1. i \in (Len(first) + 1)..Len(tasks') /\ i - Len(first) + 1 \in 1..(k - 1)
          BY <1>1, <1>4, <3>2
        <4> QED
          BY <1>2, <2>2, <4>1 DEF Winding
      <3> QED
        BY <3>1, <3>2
    <2>3. ASSUME tasks'[j].do = "afterStop"
          PROVE  Winding(tasks', j) /\ heap'[tasks'[j].at].of \notin alive'
      <3>1. Winding(tasks, k) /\ heap[tasks[k].at].of \notin alive
        BY <2>1, <2>3 DEF ExitInv, Of
      <3>2. heap'[tasks[k].at].of = heap[tasks[k].at].of
        BY <1>3, <2>1, <2>3 DEF Stops
      <3> QED
        BY <2>1, <2>2, <3>1, <3>2
    <2>4. ASSUME tasks'[j].do = "exit" PROVE Last(j)'
      <3>1. Winding(tasks, k) /\ \A x \in running : \E i \in 1..(k - 1) : Of(tasks[i].at) = x
        BY <2>1, <2>4 DEF ExitInv, Last
      <3>2. ASSUME NEW x \in running' PROVE \E i \in 1..(j - 1) : heap'[tasks'[i].at].of = x
        <4>1. PICK i \in 1..(k - 1) : Of(tasks[i].at) = x
          BY <3>1, <3>2
        <4>2. CASE i = 1
          <5>1. PICK n \in 1..Len(first) : heap'[first[n].at].of = x
            BY <1>1, <3>2, <4>1, <4>2
          <5>2. n \in 1..(j - 1)
            BY <1>1, <1>6
          <5> QED
            BY <1>2, <5>1, <5>2
        <4>3. CASE i # 1
          <5>1. /\ Len(first) + i - 1 \in (Len(first) + 1)..Len(tasks')
                /\ Len(first) + i - 1 \in 1..(j - 1)
                /\ Len(first) + i - 1 - Len(first) + 1 = i
                /\ i \in DOMAIN tasks
            BY <1>1, <1>4, <1>6, <2>1, <4>1, <4>3
          <5>2. tasks'[Len(first) + i - 1] = tasks[i]
            BY <1>2, <5>1, SMTT(40)
          <5>3. heap'[tasks[i].at].of = x
            BY <1>3, <3>1, <4>1, <5>1 DEF Winding, Of
          <5> QED
            BY <5>1, <5>2, <5>3
        <4> QED
          BY <4>2, <4>3
      <3> QED
        BY <2>2, <3>1, <3>2 DEF Last, Of
    <2> QED
      BY <2>3, <2>4
  <1> QED
    BY <1>1, <1>4, <1>5, <1>6

LEMMA ExitStop ==
    ASSUME TypeOK, ExitInv, Stop PROVE ExitInv'
  <1> DEFINE o == Head(tasks).at
             deps == IF Head(tasks).deps THEN heap[o].deps ELSE <<>>
  <1>1. /\ ThreadOK /\ HeapOK /\ tasks # <<>> /\ HeapGrows
        /\ o \in DOMAIN heap /\ Head(tasks).do = "stop" /\ Head(tasks).deps \in BOOLEAN
    BY TypeSplit, StopType, HeadTask DEF Stop, Doing, ObjectTasks
  <1>2. /\ Marked' /\ running' \subseteq running /\ alive' \subseteq alive
        /\ Head(tasks).do \in Stops
    <2>1. /\ running' \subseteq running /\ alive' \subseteq alive
          /\ happened \subseteq happened'
          /\ \/ running' = running /\ alive' = alive
             \/ alive' = alive \ {Of(o)} /\ running \ {Of(o)} \subseteq running'
      BY DEF Stop, Happens
    <2> QED
      BY <1>1, <2>1 DEF ExitInv, Marked, Never, Stops
  <1>3. CASE Of(o) \notin running
    <2>1. Calls(<<>>) /\ <<>> \in Seq(Task) /\ \A i \in 1..Len(<<>>) : FALSE
      BY <1>3, EmptyFirst DEF Stop, Returns
    <2> QED
      BY <1>1, <1>2, <1>3, <2>1, ExitStops
  <1>4. CASE Of(o) \in running
    <2>1. Calls(Stopping(o, deps)) /\ Of(o) \notin alive'
      BY <1>4 DEF Stop, Stopping
    <2>2. o \in Nat /\ deps \in Seq(Nat)
      BY <1>1, ObjectOf, EmptyFirst
    <2> DEFINE first == Stopping(o, deps)  n == Len(deps) + 1
    <2> HIDE DEF deps
    <2>3. /\ first \in Seq(Task) /\ Len(first) = n /\ n \in Nat \ {0}
          /\ \A i \in 1..(n - 1) : first[i].do = "stop"
          /\ first[n].do = "afterStop" /\ first[n].at = o
      <3>1. n - 1 = Len(deps)
        BY <2>2
      <3> QED
        BY <2>2, <3>1, StoppingType
    <2>4. heap'[o].of = Of(o)
      BY <1>1 DEF HeapGrows, Of
    <2>5. Calls(first)
      BY <2>1
    <2> HIDE DEF first, n
    <2>6. \A i \in 1..Len(first) :
             /\ first[i].do \in Stops
             /\ first[i].do = "afterStop" => heap'[first[i].at].of \notin alive'
      <3> SUFFICES ASSUME NEW i \in 1..Len(first)
                   PROVE  /\ first[i].do \in Stops
                          /\ first[i].do = "afterStop" => heap'[first[i].at].of \notin alive'
        OBVIOUS
      <3>1. i \in 1..(n - 1) \/ i = n
        BY <2>3
      <3> QED
        BY <2>1, <2>3, <2>4, <3>1 DEF Stops
    <2>7. \E i \in 1..Len(first) : heap'[first[i].at].of = Of(o)
      BY <2>3, <2>4
    <2> QED
      BY <1>1, <1>2, <2>3, <2>5, <2>6, <2>7, ExitStops
  <1> QED
    BY <1>3, <1>4

LEMMA ExitAfterStop ==
    ASSUME TypeOK, ClearInv, ExitInv, AfterStop PROVE ExitInv'
  <1>1. ThreadOK /\ HeapOK /\ tasks # <<>> /\ HeapGrows /\ Head(tasks).do = "afterStop"
    BY TypeSplit, OtherSlotType DEF AfterStop, Doing
  <1>2. Of(Head(tasks).at) \notin alive
    BY <1>1, HeadType DEF ExitInv
  <1>3. /\ Marked' /\ running' \subseteq running /\ alive' \subseteq alive
        /\ Head(tasks).do \in Stops /\ Of(Head(tasks).at) \notin running'
    <2>1. /\ running' = running \ {Of(Head(tasks).at)}
          /\ alive' = alive /\ happened' = happened
      BY AfterStopUnmarks DEF AfterStop, processes, history
    <2> QED
      BY <1>1, <1>2, <2>1 DEF ExitInv, Marked, Never, Stops
  <1>4. Calls(<<>>) /\ <<>> \in Seq(Task) /\ \A i \in 1..Len(<<>>) : FALSE
    BY EmptyFirst DEF AfterStop, Returns
  <1> QED
    BY <1>1, <1>3, <1>4, ExitStops

LEMMA ExitFresh ==
    ASSUME Marked', \A j \in DOMAIN tasks' : Ordinary(tasks'[j].do)
    PROVE  ExitInv'
  BY DEF ExitInv, Ordinary

LEMMA ExitLoop ==
    ASSUME TypeOK, ExitInv, Obey \/ BabySitters PROVE ExitInv'
  <1>1. /\ tasks = <<>> /\ alive' = alive /\ running' = running
        /\ happened \subseteq happened'
    BY DEF Obey, BabySitters, BabySitterSlot, AtLoop, processes, marks, history, Happens
  <1>2. Marked'
    BY <1>1 DEF ExitInv, Marked, Never
  <1>3. CASE tasks' = <<>>
    BY <1>2, <1>3, ExitFresh
  <1>4. ASSUME NEW o, NEW deps, tasks' = <<Call("start", o, deps)>> PROVE ExitInv'
    <2>1. \A j \in DOMAIN tasks' : tasks'[j].do = "start"
      BY <1>4 DEF Call
    <2> QED
      BY <1>2, <2>1, ExitFresh DEF Ordinary
  <1>5. ASSUME NEW o, NEW deps, tasks' = <<Call("stop", o, deps)>> PROVE ExitInv'
    <2>1. \A j \in DOMAIN tasks' : tasks'[j].do = "stop"
      BY <1>5 DEF Call
    <2> QED
      BY <1>2, <2>1, ExitFresh DEF Ordinary
  <1>6. ASSUME NEW o, NEW deps, tasks' = Restart(o, deps) PROVE ExitInv'
    <2>1. CASE tasks' = <<Call("stop", o, deps), Call("start", o, deps)>>
      <3>1. \A j \in DOMAIN tasks' : tasks'[j].do \in {"stop", "start"}
        BY <2>1 DEF Call
      <3> QED
        BY <1>2, <3>1, ExitFresh DEF Ordinary
    <2> QED
      BY <1>3, <1>6, <2>1 DEF Restart
  <1>7. CASE Obey
    <2>1. \/ tasks' = tasks
          \/ \E s \in Services, t \in TriggerNames : tasks' = Slot(t, Watcher(s))
      BY <1>7 DEF Obey
    <2>2. ASSUME NEW s \in Services, NEW t \in TriggerNames, tasks' = Slot(t, Watcher(s))
          PROVE  ExitInv'
      <3>1. CASE t \in StartTriggers
        BY <1>4, <2>2, <3>1 DEF Slot, StartTriggers, StopTriggers, RestartTriggers
      <3>2. CASE t \in StopTriggers
        BY <1>5, <2>2, <3>2 DEF Slot, StartTriggers, StopTriggers, RestartTriggers
      <3>3. CASE t \in RestartTriggers
        BY <1>6, <2>2, <3>3 DEF Slot, StartTriggers, StopTriggers, RestartTriggers
      <3> QED
        BY <3>1, <3>2, <3>3 DEF TriggerNames
    <2> QED
      BY <1>1, <1>3, <2>1, <2>2
  <1>8. CASE BabySitters
    <2>1. tasks' = tasks \/ \E o \in DOMAIN heap : tasks' = Restart(o, TRUE)
      BY <1>8 DEF BabySitters, BabySitterSlot
    <2> QED
      BY <1>1, <1>3, <1>6, <2>1
  <1> QED
    BY <1>7, <1>8

LEMMA ExitControl ==
    ASSUME TypeOK, WatchersInv, ExitInv, CheckUserControlTriggers PROVE ExitInv'
  <1>1. Marked' /\ running' = running /\ AtLoop /\ HeapOK
    <2>1. alive' = alive /\ running' = running /\ happened \subseteq happened'
      BY DEF CheckUserControlTriggers, processes, marks, Happens
    <2> QED
      BY <2>1, TypeSplit DEF CheckUserControlTriggers, ExitInv, Marked, Never
  <1>2. CASE Gone
    BY <1>1, <1>2, ExitFresh DEF Gone
  <1>3. CASE tasks' = Ending /\ heap' = heap
    <2>1. /\ DOMAIN Ending = 1..(Len(Names) + 1) /\ Len(Names) \in Nat
          /\ \A i \in 1..Len(Names) : /\ Ending[i].do = "stop"
                                      /\ heap[Ending[i].at].of = Names[i]
          /\ Ending[Len(Names) + 1].do = "exit"
      BY <1>1, EndingType, NamesLength DEF Of
    <2>2. ASSUME NEW j \in DOMAIN Ending, Ending[j].do \in {"afterStop", "exit"}
          PROVE  j = Len(Names) + 1 /\ Ending[j].do = "exit"
      <3>1. j \in 1..Len(Names) \/ j = Len(Names) + 1
        BY <2>1
      <3> QED
        BY <2>1, <2>2, <3>1
    <2>3. \A i \in 1..(Len(Names) + 1 - 1) : i \in 1..Len(Names)
      BY <2>1
    <2>4. Winding(tasks', Len(Names) + 1)
      BY <1>3, <2>1, <2>3 DEF Winding, Stops
    <2>5. \A x \in running : \E i \in 1..(Len(Names) + 1 - 1) : heap[Ending[i].at].of = x
      <3> SUFFICES ASSUME NEW x \in running
                   PROVE  \E i \in 1..(Len(Names) + 1 - 1) : heap[Ending[i].at].of = x
        OBVIOUS
      <3>1. x \in Services
        BY DEF TypeOK
      <3>2. PICK i \in 1..Len(Names) : Names[i] = x
        BY <3>1, EveryName, NamesLength
      <3>3. i \in 1..(Len(Names) + 1 - 1)
        BY <2>1
      <3> QED
        BY <2>1, <3>2, <3>3
    <2>6. Last(Len(Names) + 1)'
      BY <1>1, <1>3, <2>4, <2>5 DEF Last, Of
    <2> QED
      BY <1>1, <1>3, <2>2, <2>6 DEF ExitInv
  <1> QED
    BY <1>2, <1>3 DEF CheckUserControlTriggers, Ending

(* Whatever svdss dies amid, only a death between the start hook and the   *)
(* mark leaves a process of a service that is not marked.                  *)
LEMMA MarkedKilled ==
    ASSUME Marked, Killed PROVE Marked'
  <1>1. happened \subseteq happened'
    BY DEF Killed, Happens
  <1> DEFINE s == Of(Head(tasks).at)
  <1>2. CASE Happens({"down", "cut", "stray"})
    BY <1>2 DEF Happens, Marked, Never
  <1>3. CASE HalfStarted \/ HalfAfterStopped \/ UNCHANGED <<marks, processes>>
    BY <1>1, <1>3 DEF HalfStarted, HalfAfterStopped, marks, processes, Marked, Never
  <1>4. CASE HalfLaunched
    <2>1. \/ alive' = alive /\ running' = running
          \/ alive' = alive \cup {s} /\ running' = running \cup {s}
      BY <1>4 DEF HalfLaunched, Lives, processes
    <2> HIDE DEF s
    <2> QED
      BY <1>1, <2>1 DEF Marked, Never
  <1>5. CASE HalfStopped
    <2>1. alive' \subseteq alive \ {s} /\ running \ {s} \subseteq running'
      BY <1>5 DEF HalfStopped
    <2> HIDE DEF s
    <2> QED
      BY <1>1, <2>1, MarkedStays
  <1> QED
    BY <1>2, <1>3, <1>4, <1>5 DEF Killed

LEMMA ExitStep == BaseInv /\ ExitInv /\ [Next]_vars => ExitInv'
  <1> SUFFICES ASSUME TypeOK, WatchersInv, ClearInv, ExitInv, [Next]_vars PROVE ExitInv'
    BY DEF BaseInv
  <1>1. CASE SlotStep /\ ~Exit
    BY <1>1, ExitStarts, ExitWatch, ExitStop, ExitAfterStop DEF SlotStep
  <1>2. CASE Exit \/ Killed
    <2>1. tasks' = <<>> /\ happened \subseteq happened'
      BY <1>2 DEF Exit, Killed, Gone, Happens
    <2>2. Exit => Marked'
      BY <2>1 DEF Exit, ExitInv, Marked, Never, processes, marks
    <2>3. Killed => Marked'
      BY <2>1, MarkedKilled DEF ExitInv
    <2> QED
      BY <1>2, <2>1, <2>2, <2>3, ExitFresh
  <1>3. CASE Obey \/ BabySitters
    BY <1>3, ExitLoop
  <1>4. CASE CheckUserControlTriggers
    BY <1>4, ExitControl
  <1>5. CASE Boot
    <2>1. tasks' = Booting /\ Marked'
      BY <1>5 DEF Boot, Booting, ExitInv, Marked, Never, processes, marks, history
    <2>2. DOMAIN Booting = 1..(Len(Names) + 1) /\ Len(Names) \in Nat
      BY BootingType, NamesLength
    <2>3. ASSUME NEW j \in DOMAIN Booting PROVE Ordinary(Booting[j].do)
      <3>1. j \in 1..Len(Names) \/ j = Len(Names) + 1
        BY <2>2
      <3> QED
        BY <3>1, BootingType DEF Ordinary
    <2> QED
      BY <2>1, <2>3, ExitFresh
  <1>6. CASE \/ \E s \in Services, t \in TriggerNames : Touch(s, t)
             \/ \E f \in {"shutdown", "shutdownGracefully"} : TouchControl(f)
             \/ \E s \in Services : ProcessDies(s)
             \/ UNCHANGED vars
    <2>1. /\ tasks' = tasks /\ heap' = heap /\ running' = running /\ alive' \subseteq alive
          /\ happened' = happened
      BY <1>6 DEF Touch, TouchControl, ProcessDies, vars, memory, marks, processes, history
    <2> QED
      BY <2>1 DEF ExitInv, Marked, Never, Last, Winding, Of
  <1> QED
    BY <1>1, <1>2, <1>3, <1>4, <1>5, <1>6 DEF Next

(* A graceful shutdown leaves no process of any service behind, for every  *)
(* graph of dependencies (user_watcher.cc:223-228), whatever svdss died    *)
(* amid before, a launch past its hook and short of the mark excepted      *)
(* (service.cc:743-768).                                                   *)
THEOREM GracefulExitAllCorrect == Spec => []GracefulExitStopsAll
  <1>1. Init => BaseInv /\ ExitInv
    BY BaseInit DEF Init, ExitInv, Marked
  <1>2. BaseInv /\ ExitInv /\ [Next]_vars => (BaseInv /\ ExitInv)'
    BY BaseStep, ExitStep
  <1>3. BaseInv /\ ExitInv => GracefulExitStopsAll
    <2> SUFFICES ASSUME TypeOK, ExitInv, Doing("exit"), Never({"stray"})
                 PROVE  alive = {} /\ running = {}
      BY DEF BaseInv, GracefulExitStopsAll
    <2>1. tasks # <<>> /\ ThreadOK
      BY TypeSplit DEF Doing
    <2>2. 1 \in DOMAIN tasks /\ tasks[1].do = "exit"
      BY <2>1, HeadType DEF Doing
    <2>3. \A s \in running : \E i \in 1..(1 - 1) : Of(tasks[i].at) = s
      BY <2>2 DEF ExitInv, Last
    <2>4. running = {}
      BY <2>3
    <2> QED
      BY <2>4 DEF ExitInv, Marked
  <1> QED
    BY <1>1, <1>2, <1>3, PTL DEF Spec
=============================================================================
