-------------------------- MODULE CronSitter_proofs --------------------------
(***************************************************************************)
(* Proofs about the scheduler of a service, for every set of igniters,     *)
(* every start and every horizon. What is said of passes leaves open which *)
(* entries match at which minute (CronMatch) and which are continuous: the *)
(* proofs expand neither, so they hold for any entries. What the fields of *)
(* an entry mean is proved apart from that, at the end.                    *)
(***************************************************************************)
EXTENDS CronSitter, TLAPS

(* An entry that was invoked in this minute matches it and, unless it is   *)
(* continuous, still has its indicator.                                    *)
RanInv ==
    /\ \A e \in ran : CronMatch(e, now) /\ (IsContinuous(e) \/ e \in indicators)
    /\ \A e \in again : IsContinuous(e)

Good(s) == Distinct(s) /\ \A e \in EntriesOf(s) : ~Dense(e)

(* What a pass leaves of an entry: invoked if due, else without indicator. *)
Swept(e) ==
    /\ CronMatch(e, now) => e \in ran
    /\ e \in indicators => CronMatch(e, now) /\ ~IsContinuous(e)

PassInv ==
    /\ pc # "idle" => ~ticked
    /\ pc # "idle" => at \in Nat \ {0} /\ \A j \in 1..(at - 1) : j \in DOMAIN schedulers
    /\ pc = "spawned" => Entry \in indicators /\ (steady => Entry \in ran)

LeftInv ==
    /\ indicators # {} \/ pc # "idle" => igniter = schedulers
    /\ indicators \subseteq EntriesOf(schedulers)
    /\ up => \A e \in indicators : IsContinuous(e) => pc = "spawned" /\ e = Entry

Fresh == \A e \in indicators : CronMatch(e, now) => e \in ran

(* Entry i comes later in the pass under way. *)
Ahead(i) == at < i \/ (at = i /\ pc = "entry")

(* Whoever returns at entry i need not look at those behind it.            *)
Covered ==
    \A i, j \in DOMAIN schedulers :
        /\ schedulers[i] \in indicators /\ CronMatch(schedulers[i], now)
        /\ i < j
        /\ pc = "idle" \/ Ahead(i) \/ j < at
        => Swept(schedulers[j])

Visited == \A j \in DOMAIN schedulers : j < at => Swept(schedulers[j])

AllSwept == \A j \in DOMAIN schedulers : Swept(schedulers[j])

DuePart ==
    /\ Fresh
    /\ up => Covered
    /\ began /\ pc # "idle" => Visited
    /\ ticked /\ pc = "idle" => AllSwept

DueInv ==
    /\ PassInv
    /\ steady => LeftInv
    /\ steady /\ Good(schedulers) => DuePart

-----------------------------------------------------------------------------
LEMMA EntriesTyped ==
    ASSUME NEW s \in Schedules
    PROVE  EntriesOf(s) \subseteq Entries
  BY DEF Entries

(* TypeOK is inductive.                                                    *)
LEMMA TypeInductive == TypeOK /\ [Next]_vars => TypeOK'
<1> SUFFICES ASSUME TypeOK, [Next]_vars PROVE TypeOK'
    OBVIOUS
<1> USE DEF TypeOK
<1>1. CASE UNCHANGED vars
    BY <1>1 DEF vars, clock, slot, history
<1>2. CASE StartSlot
    BY <1>2 DEF StartSlot, AtLoop, slot
<1>3. CASE StopSlot
    BY <1>3 DEF StopSlot, AtLoop, Clean, Steady, slot
<1>4. CASE CronSitterSlot
  <2>1. CASE ~running
      BY <1>4, <2>1 DEF CronSitterSlot, AtLoop, slot
  <2>2. CASE running
    <3>1. at' \in Nat /\ at' \in 1..(Len(schedulers') + 1)
        BY <1>4, <2>2, CronAssumption DEF CronSitterSlot
    <3> QED
        BY <1>4, <2>2, <3>1 DEF CronSitterSlot, AtLoop
  <2> QED
      BY <2>1, <2>2
<1>5. CASE LastEntry
    BY <1>5 DEF LastEntry, EndOfPass, clock
<1>6. CASE AlreadyInvoked
    BY <1>6 DEF AlreadyInvoked, EndOfPass, clock
<1>7. CASE Invoke
  <2>1. Entry \in Entries
      BY <1>7, EntriesTyped DEF Invoke, AtEntry, Entry, EntriesOf
  <2>2. at \in DOMAIN schedulers /\ up
      BY <1>7 DEF Invoke, AtEntry
  <2>3. indicators' \subseteq Entries /\ ran' \subseteq Entries /\ again' \subseteq ran'
      BY <1>7, <2>1 DEF Invoke
  <2>4. UNCHANGED <<clock, at, igniter, schedulers, began, ticked, steady>> /\ pc' = "spawned"
      BY <1>7 DEF Invoke
  <2> QED
      BY <2>2, <2>3, <2>4 DEF clock
<1>8. CASE Started
  <2>1. at' \in 1..(Len(schedulers') + 1)
      BY <1>8, CronAssumption DEF Started
  <2> QED
      BY <1>8, <2>1 DEF Started, clock
<1>9. CASE NotDue
  <2>1. at' \in 1..(Len(schedulers') + 1)
      BY <1>9, CronAssumption DEF NotDue, AtEntry
  <2> QED
      BY <1>9, <2>1 DEF NotDue, AtEntry, clock
<1>10. CASE MinutePasses
  <2>1. now' \in FirstMinute..LastMinute
      BY <1>10, CronAssumption DEF MinutePasses
  <2> QED
      BY <1>10, <2>1 DEF MinutePasses, Steady, slot
<1>11. CASE \E s \in Schedules : EditIgniter(s)
    BY <1>11 DEF EditIgniter, Steady, clock, slot
<1>12. CASE PanelReset
    BY <1>12 DEF PanelReset, Steady, slot
<1>13. CASE Killed
    BY <1>13 DEF Killed
<1>14. CASE \E autostart \in BOOLEAN : Boot(autostart)
    BY <1>14 DEF Boot, Clean, Steady, slot
<1> QED
    BY <1>1, <1>2, <1>3, <1>4, <1>5, <1>6, <1>7, <1>8, <1>9, <1>10, <1>11,
       <1>12, <1>13, <1>14 DEF Next, SlotStep

(* The scheduler's variables keep their types, for every igniter.          *)
THEOREM CronTypeCorrect == Spec => []TypeOK
<1>1. Init => TypeOK
  <2> SUFFICES ASSUME Init PROVE TypeOK
      OBVIOUS
  <2>1. now \in FirstMinute..LastMinute /\ at \in Nat
      BY CronAssumption DEF Init
  <2> QED
      BY <2>1 DEF Init, TypeOK
<1> QED
    BY <1>1, TypeInductive, PTL DEF Spec

(* RanInv is inductive: the indicator of an entry that was invoked goes    *)
(* only with a cleaning or, once the entry is not due, by NotDue.          *)
LEMMA RanInductive == RanInv /\ [Next]_vars => RanInv'
<1> SUFFICES ASSUME RanInv, [Next]_vars PROVE RanInv'
    OBVIOUS
<1> USE DEF RanInv
<1>1. CASE UNCHANGED vars
    BY <1>1 DEF vars, clock, history
<1>2. CASE StartSlot
    BY <1>2 DEF StartSlot
<1>3. CASE StopSlot
    BY <1>3 DEF StopSlot, Clean
<1>4. CASE CronSitterSlot
    BY <1>4 DEF CronSitterSlot
<1>5. CASE LastEntry
    BY <1>5 DEF LastEntry, clock
<1>6. CASE AlreadyInvoked
    BY <1>6 DEF AlreadyInvoked, clock
<1>7. CASE Invoke
  <2>1. now' = now /\ indicators' = indicators \cup {Entry} /\ ran' = ran \cup {Entry}
        /\ again' = again \cup (ran \cap {Entry})
      BY <1>7 DEF Invoke, clock
  <2>2. CronMatch(Entry, now) /\ Entry \notin indicators
      BY <1>7 DEF Invoke
  <2> QED
      BY <2>1, <2>2
<1>8. CASE Started
    BY <1>8 DEF Started, clock
<1>9. CASE NotDue
    BY <1>9 DEF NotDue, clock
<1>10. CASE MinutePasses
    BY <1>10 DEF MinutePasses
<1>11. CASE \E s \in Schedules : EditIgniter(s)
    BY <1>11 DEF EditIgniter, clock
<1>12. CASE PanelReset
    BY <1>12 DEF PanelReset
<1>13. CASE Killed
    BY <1>13 DEF Killed
<1>14. CASE \E autostart \in BOOLEAN : Boot(autostart)
    BY <1>14 DEF Boot, Clean
<1> QED
    BY <1>1, <1>2, <1>3, <1>4, <1>5, <1>6, <1>7, <1>8, <1>9, <1>10, <1>11,
       <1>12, <1>13, <1>14 DEF Next, SlotStep

(* No entry is invoked twice in a minute unless its indicator was cleaned  *)
(* in between or it runs continuously, whatever the timer, the editor, the *)
(* panel and crashes of svdss do (service.cc:811-816).                     *)
THEOREM OnceCorrect == Spec => []OncePerMinute
<1>1. Init => RanInv
    BY DEF Init, RanInv
<1>2. RanInv => OncePerMinute
    BY DEF RanInv, OncePerMinute
<1> QED
    BY <1>1, <1>2, RanInductive, PTL DEF Spec

-----------------------------------------------------------------------------
LEMMA PassInductive == TypeOK /\ PassInv /\ [Next]_vars => PassInv'
<1> SUFFICES ASSUME TypeOK, PassInv, [Next]_vars PROVE PassInv'
    OBVIOUS
<1> USE DEF PassInv
<1>1. CASE UNCHANGED vars
    BY <1>1 DEF vars, clock, slot, history, Entry
<1>2. CASE StartSlot \/ StopSlot \/ \E autostart \in BOOLEAN : Boot(autostart)
  <2>1. pc' = "idle"
      BY <1>2 DEF TypeOK, StartSlot, StopSlot, Boot, AtLoop, slot
  <2> QED
      BY <2>1
<1>3. CASE CronSitterSlot
  <2>1. pc' \in {"idle", "entry"} /\ ticked' = FALSE
      BY <1>3 DEF CronSitterSlot, AtLoop, slot
  <2>2. pc' # "idle" => at' = 1
      BY <1>3 DEF CronSitterSlot, AtLoop, slot
  <2> QED
      BY <2>1, <2>2
<1>4. CASE LastEntry \/ AlreadyInvoked \/ Killed
  <2>1. pc' = "idle"
      BY <1>4 DEF LastEntry, AlreadyInvoked, EndOfPass, Killed
  <2> QED
      BY <2>1
<1>5. CASE Invoke
    BY <1>5 DEF Invoke, AtEntry, Entry, clock
<1>6. CASE Started
  <2>1. pc = "spawned" /\ pc' = "entry" /\ at' = at + 1 /\ UNCHANGED <<schedulers, ticked>>
      BY <1>6 DEF Started
  <2>2. at \in Nat \ {0} /\ at \in DOMAIN schedulers /\ \A j \in 1..(at - 1) : j \in DOMAIN schedulers
      BY <2>1 DEF TypeOK
  <2>3. ASSUME NEW j \in 1..at PROVE j \in DOMAIN schedulers
      BY <2>2
  <2> QED
      BY <2>1, <2>2, <2>3
<1>7. CASE NotDue
  <2>1. pc = "entry" /\ pc' = "entry" /\ at' = at + 1 /\ UNCHANGED <<schedulers, ticked>>
      BY <1>7 DEF NotDue, AtEntry
  <2>2. at \in Nat \ {0} /\ at \in DOMAIN schedulers /\ \A j \in 1..(at - 1) : j \in DOMAIN schedulers
      BY <2>1, <1>7 DEF TypeOK, NotDue, AtEntry
  <2>3. ASSUME NEW j \in 1..at PROVE j \in DOMAIN schedulers
      BY <2>2
  <2> QED
      BY <2>1, <2>2, <2>3
<1>8. CASE MinutePasses
    BY <1>8 DEF MinutePasses, Steady, slot, Entry
<1>9. CASE \E s \in Schedules : EditIgniter(s)
  <2>1. UNCHANGED <<pc, at, schedulers, indicators, ran, ticked>> /\ (steady' => steady)
      BY <1>9 DEF EditIgniter, slot
  <2> QED
      BY <2>1 DEF Entry
<1>10. CASE PanelReset
    BY <1>10 DEF PanelReset, slot, Entry
<1> QED
    BY <1>1, <1>2, <1>3, <1>4, <1>5, <1>6, <1>7, <1>8, <1>9, <1>10 DEF Next, SlotStep

(* While it is steady, what is left of indicators belongs to the entries   *)
(* of the igniter in force, so that a stop or a boot cleans all of them.   *)
LEMMA CleanLeavesNone ==
    ASSUME steady => LeftInv, Clean(EntriesOf(igniter)), steady
    PROVE  indicators' = {}
  BY DEF LeftInv, Clean

LEMMA BootLeavesNone ==
    ASSUME steady => LeftInv, NEW autostart \in BOOLEAN, Boot(autostart), steady'
    PROVE  indicators' = {}
<1>1. CASE steady /\ (running \/ autostart)
    BY <1>1, CleanLeavesNone DEF Boot
<1>2. CASE ~(steady /\ (running \/ autostart))
    BY <1>2 DEF Boot, Steady
<1> QED
    BY <1>1, <1>2

LEMMA LeftInductive ==
    TypeOK /\ PassInv /\ (steady => LeftInv) /\ [Next]_vars => (steady' => LeftInv')
<1> SUFFICES ASSUME TypeOK, PassInv, steady => LeftInv, [Next]_vars, steady' PROVE LeftInv'
    OBVIOUS
<1> USE DEF LeftInv
<1>0. ASSUME indicators' = {}, pc' = "idle" PROVE LeftInv'
    BY <1>0
<1>1. CASE UNCHANGED vars
    BY <1>1 DEF vars, clock, slot, history, Entry
<1>2. CASE StartSlot
    BY <1>2 DEF StartSlot, AtLoop, slot
<1>3. CASE StopSlot
  <2>1. pc' = "idle" /\ pc = "idle" /\ up /\ schedulers' = igniter /\ igniter' = igniter
      BY <1>3 DEF StopSlot, AtLoop, slot
  <2>2. CASE indicators' = {}
      BY <1>0, <2>1, <2>2
  <2>3. CASE indicators' # {}
    <3>1. steady
        BY <1>3, <2>3 DEF StopSlot, Steady
    <3>2. ~running
        BY <1>3, <2>3, <3>1, CleanLeavesNone DEF StopSlot
    <3>3. indicators' = indicators
        BY <1>3, <3>2 DEF StopSlot, Clean
    <3> QED
        BY <2>1, <3>1, <3>3
  <2> QED
      BY <2>2, <2>3
<1>4. CASE CronSitterSlot
    BY <1>4 DEF CronSitterSlot, AtLoop, slot
<1>5. CASE LastEntry
    BY <1>5 DEF LastEntry, EndOfPass, clock
<1>6. CASE AlreadyInvoked
    BY <1>6 DEF AlreadyInvoked, AtEntry, EndOfPass, clock
<1>7. CASE Invoke
  <2>1. /\ pc = "entry" /\ pc' = "spawned" /\ up
        /\ UNCHANGED <<up, at, igniter, schedulers, steady>>
        /\ indicators' = indicators \cup {Entry}
      BY <1>7 DEF Invoke, AtEntry, clock
  <2>2. Entry \in EntriesOf(schedulers) /\ Entry' = Entry
      BY <1>7, <2>1 DEF Invoke, AtEntry, Entry, EntriesOf
  <2> QED
      BY <2>1, <2>2
<1>8. CASE Started
  <2>1. /\ pc = "spawned" /\ pc' = "entry" /\ up
        /\ UNCHANGED <<up, igniter, schedulers, steady>>
        /\ indicators' = IF IsContinuous(Entry) THEN indicators \ {Entry} ELSE indicators
      BY <1>8 DEF Started, clock
  <2> QED
      BY <2>1
<1>9. CASE NotDue
  <2>1. /\ pc = "entry" /\ pc' = "entry" /\ up
        /\ UNCHANGED <<up, igniter, schedulers, steady>>
        /\ indicators' \subseteq indicators
      BY <1>9 DEF NotDue, AtEntry, clock
  <2> QED
      BY <2>1
<1>10. CASE MinutePasses
    BY <1>10 DEF MinutePasses, Steady, slot, Entry
<1>11. CASE \E s \in Schedules : EditIgniter(s)
    BY <1>11, <1>0 DEF EditIgniter, slot
<1>12. CASE PanelReset
    BY <1>12, <1>0 DEF PanelReset, slot
<1>13. CASE Killed
    BY <1>13 DEF Killed
<1>14. CASE \E autostart \in BOOLEAN : Boot(autostart)
  <2>1. pc' = "idle"
      BY <1>14 DEF TypeOK, Boot, slot
  <2>2. indicators' = {}
      BY <1>14, BootLeavesNone
  <2> QED
      BY <1>0, <2>1, <2>2
<1> QED
    BY <1>1, <1>2, <1>3, <1>4, <1>5, <1>6, <1>7, <1>8, <1>9, <1>10, <1>11,
       <1>12, <1>13, <1>14 DEF Next, SlotStep

-----------------------------------------------------------------------------
(* DuePart is inductive beside the other invariants. *)

IInv == TypeOK /\ RanInv /\ DueInv

(* A load of the configuration between passes changes it only when no      *)
(* indicator is left.                                                      *)
LEMMA DueWhenLoaded ==
    ASSUME IInv, steady, up, pc = "idle", pc' = "idle", schedulers' = igniter,
           UNCHANGED <<now, up, indicators, ran>>, ~ticked', Good(schedulers)'
    PROVE  DuePart'
<1>1. CASE indicators = {}
    BY <1>1 DEF DuePart, Fresh, Covered
<1>2. CASE indicators # {}
  <2>1. schedulers' = schedulers /\ Good(schedulers)
      BY <1>2 DEF IInv, DueInv, LeftInv, Good, Distinct, EntriesOf, Dense
  <2>2. Fresh /\ Covered
      BY <2>1 DEF IInv, DueInv, DuePart
  <2>3. Covered'
      BY <2>1, <2>2 DEF Covered, Swept
  <2>4. Fresh'
      BY <2>2 DEF Fresh
  <2> QED
      BY <2>3, <2>4 DEF DuePart
<1> QED
    BY <1>1, <1>2

(* The cases of the next lemma share their hypotheses.                     *)
LEMMA DueLastEntry ==
    ASSUME IInv, steady, Good(schedulers), LastEntry
    PROVE  DuePart'
<1>1. /\ pc = "entry" /\ up /\ at \notin DOMAIN schedulers /\ pc' = "idle"
      /\ UNCHANGED <<now, up, schedulers, indicators, ran>>
      /\ ticked' = (ticked \/ began)
    BY DEF LastEntry, EndOfPass, clock
<1>2. ~ticked /\ Fresh /\ Covered /\ (began => Visited)
    BY <1>1 DEF IInv, DueInv, DuePart, PassInv
<1>3. \A j \in DOMAIN schedulers : j < at
  <2>1. DOMAIN schedulers = 1..Len(schedulers) /\ Len(schedulers) \in Nat
      BY CronAssumption DEF IInv, TypeOK
  <2>2. at \in Nat \ {0}
      BY <1>1 DEF IInv, DueInv, PassInv
  <2> QED
      BY <1>1, <2>1, <2>2
<1>4. Fresh'
    BY <1>1, <1>2 DEF Fresh
<1>5. Covered'
    BY <1>1, <1>2, <1>3 DEF Covered, Swept
<1>6. ticked' => AllSwept'
    BY <1>1, <1>2, <1>3 DEF Visited, AllSwept, Swept
<1> QED
    BY <1>1, <1>4, <1>5, <1>6 DEF DuePart

LEMMA DueAlreadyInvoked ==
    ASSUME IInv, steady, Good(schedulers), AlreadyInvoked
    PROVE  DuePart'
<1>1. /\ pc = "entry" /\ up /\ at \in DOMAIN schedulers /\ pc' = "idle"
      /\ CronMatch(Entry, now) /\ Entry \in indicators
      /\ UNCHANGED <<now, up, schedulers, indicators, ran>>
      /\ ticked' = (ticked \/ began)
    BY DEF AlreadyInvoked, AtEntry, EndOfPass, clock
<1>2. ~ticked /\ Fresh /\ Covered /\ (began => Visited) /\ LeftInv
    BY <1>1 DEF IInv, DueInv, DuePart, PassInv
<1>3. Swept(Entry)
    BY <1>1, <1>2 DEF Swept, Fresh, LeftInv
<1>4. \A j \in DOMAIN schedulers : at < j => Swept(schedulers[j])
    BY <1>1, <1>2 DEF Covered, Entry, Ahead
<1>5. DOMAIN schedulers \subseteq Nat /\ at \in Nat
  <2>1. DOMAIN schedulers = 1..Len(schedulers) /\ Len(schedulers) \in Nat
      BY CronAssumption DEF IInv, TypeOK
  <2> QED
      BY <1>1, <2>1
<1>6. Fresh'
    BY <1>1, <1>2 DEF Fresh
<1>7. ASSUME NEW i \in DOMAIN schedulers, NEW j \in DOMAIN schedulers, i < j,
             schedulers[i] \in indicators, CronMatch(schedulers[i], now)
      PROVE  Swept(schedulers[j])
  <2>1. CASE at <= i
      BY <1>1, <1>2, <1>5, <1>7, <2>1 DEF Covered, Ahead
  <2>2. CASE j < at
      BY <1>2, <1>7, <2>2 DEF Covered
  <2>3. CASE j = at
      BY <1>3, <2>3 DEF Entry
  <2>4. CASE at < j
      BY <1>4, <2>4
  <2> QED
      BY <1>5, <2>2, <2>3, <2>4
<1>8. Covered'
    BY <1>1, <1>7 DEF Covered, Swept
<1>9. began => AllSwept'
  <2> SUFFICES ASSUME began, NEW j \in DOMAIN schedulers PROVE Swept(schedulers[j])
      BY <1>1 DEF AllSwept, Swept
  <2> QED
      BY <1>2, <1>3, <1>4, <1>5 DEF Visited, Entry
<1> QED
    BY <1>1, <1>2, <1>6, <1>8, <1>9 DEF DuePart

LEMMA DueInvoke ==
    ASSUME IInv, steady, Good(schedulers), Invoke
    PROVE  DuePart'
<1>1. /\ pc = "entry" /\ up /\ at \in DOMAIN schedulers /\ pc' = "spawned"
      /\ indicators' = indicators \cup {Entry} /\ ran' = ran \cup {Entry}
      /\ UNCHANGED <<now, up, at, schedulers, began>>
    BY DEF Invoke, AtEntry, clock
<1>2. Fresh /\ Covered /\ (began => Visited)
    BY <1>1 DEF IInv, DueInv, DuePart
<1>3. DOMAIN schedulers \subseteq Nat /\ at \in Nat
  <2>1. DOMAIN schedulers = 1..Len(schedulers) /\ Len(schedulers) \in Nat
      BY CronAssumption DEF IInv, TypeOK
  <2> QED
      BY <1>1, <2>1
<1>4. ASSUME NEW j \in DOMAIN schedulers, j # at
      PROVE  schedulers[j] # Entry
    BY <1>1, <1>4 DEF Good, Distinct, Entry
<1>5. ASSUME NEW j \in DOMAIN schedulers, j # at, Swept(schedulers[j])
      PROVE  Swept(schedulers[j])'
    BY <1>1, <1>4, <1>5 DEF Swept
<1>6. Fresh'
    BY <1>1, <1>2 DEF Fresh
<1>7. Covered'
  <2> SUFFICES ASSUME NEW i \in DOMAIN schedulers, NEW j \in DOMAIN schedulers,
                      schedulers[i] \in indicators', CronMatch(schedulers[i], now),
                      i < j, at < i \/ j < at
               PROVE  Swept(schedulers[j])'
      BY <1>1 DEF Covered, Ahead
  <2>1. i # at /\ j # at
      BY <1>3
  <2>2. schedulers[i] \in indicators
      BY <1>1, <1>4, <2>1
  <2>3. Swept(schedulers[j])
      BY <1>2, <2>2 DEF Covered, Ahead
  <2> QED
      BY <1>5, <2>1, <2>3
<1>8. began => Visited'
  <2> SUFFICES ASSUME began, NEW j \in DOMAIN schedulers, j < at
               PROVE  Swept(schedulers[j])'
      BY <1>1 DEF Visited
  <2> QED
      BY <1>2, <1>3, <1>5 DEF Visited
<1> QED
    BY <1>1, <1>6, <1>7, <1>8 DEF DuePart

(* A step to the next entry that removes at most the indicator of the one  *)
(* it leaves, and leaves it swept.                                         *)
LEMMA DueNextEntry ==
    ASSUME IInv, steady, Good(schedulers), pc # "idle", at \in DOMAIN schedulers,
           pc' = "entry", at' = at + 1,
           indicators' \in {indicators, indicators \ {Entry}},
           UNCHANGED <<now, up, schedulers, ran, began>>,
           CronMatch(Entry, now) => Entry \in ran,
           Entry \in indicators' => CronMatch(Entry, now) /\ ~IsContinuous(Entry)
    PROVE  DuePart'
<1>1. Fresh /\ (up => Covered) /\ (began => Visited)
    BY DEF IInv, DueInv, DuePart
<1>2. DOMAIN schedulers \subseteq Nat /\ at \in Nat
  <2>1. DOMAIN schedulers = 1..Len(schedulers) /\ Len(schedulers) \in Nat
      BY CronAssumption DEF IInv, TypeOK
  <2> QED
      BY <2>1
<1>3. ASSUME NEW j \in DOMAIN schedulers, Swept(schedulers[j]) \/ j = at
      PROVE  Swept(schedulers[j])'
    BY <1>3 DEF Swept, Entry
<1>4. Fresh'
    BY <1>1 DEF Fresh
<1>5. up => Covered'
  <2> SUFFICES ASSUME up, NEW i \in DOMAIN schedulers, NEW j \in DOMAIN schedulers,
                      schedulers[i] \in indicators', CronMatch(schedulers[i], now),
                      i < j, at + 1 <= i \/ j < at + 1
               PROVE  Swept(schedulers[j])'
      BY <1>2 DEF Covered, Ahead
  <2>1. j = at \/ j < at \/ at < i
      BY <1>2
  <2>2. CASE j = at
      BY <1>3, <2>2
  <2>3. CASE j < at \/ at < i
    <3>1. Swept(schedulers[j])
        BY <1>1, <2>3 DEF Covered, Ahead
    <3> QED
        BY <1>3, <3>1
  <2> QED
      BY <2>1, <2>2, <2>3
<1>6. began => Visited'
  <2> SUFFICES ASSUME began, NEW j \in DOMAIN schedulers, j < at + 1
               PROVE  Swept(schedulers[j])'
      BY DEF Visited
  <2>1. j = at \/ j < at
      BY <1>2
  <2> QED
      BY <1>1, <1>3, <2>1 DEF Visited
<1> QED
    BY <1>4, <1>5, <1>6 DEF DuePart

(* A new minute after a whole pass: an entry with an indicator was due in  *)
(* the minute before and is not due now.                                   *)
LEMMA DueMinutePasses ==
    ASSUME IInv, MinutePasses, steady', Good(schedulers)
    PROVE  DuePart'
<1>1. /\ now' = now + 1 /\ now < LastMinute /\ ~began' /\ ~ticked'
      /\ UNCHANGED <<up, pc, at, schedulers, indicators>>
    BY DEF MinutePasses, slot
<1>2. ASSUME NEW e \in indicators' PROVE ~CronMatch(e, now')
  <2>1. steady /\ ticked /\ pc = "idle"
      BY <1>1, <1>2 DEF MinutePasses, Steady
  <2>2. AllSwept /\ LeftInv
      BY <2>1 DEF IInv, DueInv, DuePart
  <2>3. PICK j \in DOMAIN schedulers : e = schedulers[j]
      BY <1>1, <1>2, <2>2 DEF LeftInv, EntriesOf
  <2>4. CronMatch(e, now) /\ ~IsContinuous(e)
      BY <1>1, <1>2, <2>2, <2>3 DEF AllSwept, Swept
  <2>5. ~Dense(e)
      BY <2>3 DEF Good, EntriesOf
  <2>6. now \in FirstMinute..(LastMinute - 1)
      BY <1>1, CronAssumption DEF IInv, TypeOK
  <2> QED
      BY <1>1, <2>4, <2>5, <2>6 DEF Dense
<1>3. Fresh'
    BY <1>2 DEF Fresh
<1>4. Covered'
    BY <1>2 DEF Covered
<1> QED
    BY <1>1, <1>3, <1>4 DEF DuePart

(* DuePart is inductive, whatever svdss, its timer, an editor or a panel   *)
(* does.                                                                   *)
LEMMA DueInductive == IInv /\ [Next]_vars => (steady' /\ Good(schedulers)' => DuePart')
<1> SUFFICES ASSUME IInv, [Next]_vars, steady', Good(schedulers)' PROVE DuePart'
    OBVIOUS
<1>0. ASSUME indicators' = {}, pc' = "idle", ~ticked' PROVE DuePart'
    BY <1>0 DEF DuePart, Fresh, Covered
<1>a. ASSUME steady, UNCHANGED <<now, up, slot, schedulers, indicators, ran, began, ticked>>
      PROVE  DuePart'
  <2>1. DuePart
      BY <1>a DEF IInv, DueInv, Good, Distinct, EntriesOf, Dense
  <2> QED
      BY <1>a, <2>1 DEF DuePart, Fresh, Covered, Visited, AllSwept, Swept, Ahead, slot
<1>b. ASSUME schedulers' = schedulers PROVE Good(schedulers)
    BY <1>b DEF Good, Distinct, EntriesOf, Dense
<1>1. CASE UNCHANGED vars
    BY <1>1, <1>a DEF vars, clock, history
<1>2. CASE StartSlot
  <2>1. /\ steady /\ up /\ pc = "idle" /\ pc' = "idle" /\ schedulers' = igniter
        /\ UNCHANGED <<now, up, indicators, ran>> /\ ~ticked'
      BY <1>2 DEF StartSlot, AtLoop, slot
  <2> QED
      BY <2>1, DueWhenLoaded
<1>3. CASE StopSlot
  <2>1. /\ up /\ pc = "idle" /\ pc' = "idle" /\ schedulers' = igniter
        /\ UNCHANGED <<now, up>> /\ ~ticked'
      BY <1>3 DEF StopSlot, AtLoop, slot
  <2>2. CASE indicators' = {}
      BY <1>0, <2>1, <2>2
  <2>3. CASE indicators' # {}
    <3>1. steady
        BY <1>3, <2>3 DEF StopSlot, Steady
    <3>2. ~running
        BY <1>3, <2>3, <3>1, CleanLeavesNone DEF StopSlot, IInv, DueInv
    <3>3. indicators' = indicators /\ ran' = ran
        BY <1>3, <3>2 DEF StopSlot, Clean
    <3> QED
        BY <2>1, <3>1, <3>3, DueWhenLoaded
  <2> QED
      BY <2>2, <2>3
<1>4. CASE CronSitterSlot
  <2>1. /\ steady /\ up /\ pc = "idle" /\ schedulers' = igniter
        /\ UNCHANGED <<now, up, indicators, ran>> /\ ~ticked'
      BY <1>4 DEF CronSitterSlot, AtLoop
  <2>2. CASE ~running
    <3>1. pc' = "idle"
        BY <1>4, <2>1, <2>2 DEF CronSitterSlot, slot
    <3> QED
        BY <2>1, <3>1, DueWhenLoaded
  <2>3. CASE running
    <3>1. pc' = "entry" /\ at' = 1
        BY <1>4, <2>3 DEF CronSitterSlot
    <3>2. \A j \in DOMAIN schedulers' : ~(j < 1)
        BY CronAssumption, <2>1 DEF IInv, TypeOK
    <3>3. CASE indicators = {}
        BY <2>1, <3>1, <3>2, <3>3 DEF DuePart, Fresh, Covered, Visited
    <3>4. CASE indicators # {}
      <4>1. schedulers' = schedulers
          BY <2>1, <3>4 DEF IInv, DueInv, LeftInv
      <4>2. Fresh /\ Covered
          BY <1>b, <2>1, <4>1 DEF IInv, DueInv, DuePart
      <4>3. Fresh'
          BY <2>1, <4>2 DEF Fresh
      <4>4. Covered'
          BY <2>1, <4>1, <4>2 DEF Covered, Swept
      <4>5. Visited'
          BY <3>1, <3>2 DEF Visited
      <4> QED
          BY <3>1, <4>3, <4>4, <4>5 DEF DuePart
    <3> QED
        BY <3>3, <3>4
  <2> QED
      BY <2>2, <2>3
<1>5. CASE LastEntry
  <2>1. steady /\ Good(schedulers)
      BY <1>5, <1>b DEF LastEntry
  <2> QED
      BY <1>5, <2>1, DueLastEntry
<1>6. CASE AlreadyInvoked
  <2>1. steady /\ Good(schedulers)
      BY <1>6, <1>b DEF AlreadyInvoked
  <2> QED
      BY <1>6, <2>1, DueAlreadyInvoked
<1>7. CASE Invoke
  <2>1. steady /\ Good(schedulers)
      BY <1>7, <1>b DEF Invoke
  <2> QED
      BY <1>7, <2>1, DueInvoke
<1>8. CASE Started
  <2>1. /\ steady /\ pc = "spawned" /\ pc' = "entry" /\ at' = at + 1
        /\ UNCHANGED <<now, up, schedulers, ran, began>>
        /\ indicators' = IF IsContinuous(Entry) THEN indicators \ {Entry} ELSE indicators
      BY <1>8 DEF Started, clock
  <2>2. Good(schedulers)
      BY <1>b, <2>1
  <2>3. Entry \in ran /\ at \in DOMAIN schedulers
      BY <2>1 DEF IInv, TypeOK, DueInv, PassInv
  <2>4. CronMatch(Entry, now)
      BY <2>3 DEF IInv, RanInv
  <2>5. Entry \in indicators' => ~IsContinuous(Entry)
      BY <2>1
  <2>6. indicators' \in {indicators, indicators \ {Entry}}
      BY <2>1
  <2> QED
      BY <2>1, <2>2, <2>3, <2>4, <2>5, <2>6, DueNextEntry
<1>9. CASE NotDue
  <2>1. /\ steady /\ pc = "entry" /\ pc' = "entry" /\ at' = at + 1
        /\ UNCHANGED <<now, up, schedulers, ran, began>>
        /\ at \in DOMAIN schedulers /\ ~CronMatch(Entry, now)
        /\ indicators' = indicators \ {Entry}
      BY <1>9 DEF NotDue, AtEntry, clock
  <2>2. Good(schedulers)
      BY <1>b, <2>1
  <2>3. Entry \notin indicators'
      BY <2>1
  <2> QED
      BY <2>1, <2>2, <2>3, DueNextEntry
<1>10. CASE MinutePasses
  <2>1. Good(schedulers)
      BY <1>10, <1>b DEF MinutePasses
  <2> QED
      BY <1>10, <2>1, DueMinutePasses
<1>11. CASE \E s \in Schedules : EditIgniter(s)
    BY <1>11, <1>a DEF EditIgniter, clock
<1>12. CASE PanelReset
    BY <1>12, <1>a DEF PanelReset
<1>13. CASE Killed
  <2>1. /\ steady /\ ~up' /\ pc' = "idle" /\ ~began'
        /\ UNCHANGED <<now, schedulers, indicators, ran, ticked>>
      BY <1>13 DEF Killed
  <2>2. DuePart
      BY <1>b, <2>1 DEF IInv, DueInv
  <2>3. Fresh'
      BY <2>1, <2>2 DEF DuePart, Fresh
  <2>4. ticked' => AllSwept'
      BY <2>1, <2>2 DEF IInv, DueInv, PassInv, DuePart, AllSwept, Swept
  <2> QED
      BY <2>1, <2>3, <2>4 DEF DuePart
<1>14. CASE \E autostart \in BOOLEAN : Boot(autostart)
  <2>1. pc' = "idle" /\ ~ticked'
      BY <1>14 DEF IInv, TypeOK, Boot, slot
  <2>2. indicators' = {}
      BY <1>14, BootLeavesNone DEF IInv, DueInv
  <2> QED
      BY <1>0, <2>1, <2>2
<1> QED
    BY <1>1, <1>2, <1>3, <1>4, <1>5, <1>6, <1>7, <1>8, <1>9, <1>10, <1>11,
       <1>12, <1>13, <1>14 DEF Next, SlotStep

(* After a whole pass within a minute every entry due in it was invoked,   *)
(* for igniters without entries that are due in two minutes on end or are  *)
(* listed twice, and while no indicator is left over from a minute without *)
(* a pass.                                                                 *)
THEOREM DueCorrect == Spec => []DueEntriesInvoked
<1>1. Init => IInv
  <2> SUFFICES ASSUME Init PROVE IInv
      OBVIOUS
  <2>1. now \in FirstMinute..LastMinute /\ at \in Nat
      BY CronAssumption DEF Init
  <2>2. TypeOK
      BY <2>1 DEF Init, TypeOK
  <2>3. RanInv /\ PassInv /\ LeftInv
      BY DEF Init, RanInv, PassInv, LeftInv
  <2>4. DuePart
      BY DEF Init, DuePart, Fresh, Covered
  <2> QED
      BY <2>2, <2>3, <2>4 DEF IInv, DueInv
<1>2. IInv /\ [Next]_vars => IInv'
    BY TypeInductive, RanInductive, PassInductive, LeftInductive, DueInductive
       DEF IInv, DueInv
<1>3. IInv => DueEntriesInvoked
  <2> SUFFICES ASSUME IInv, AtLoop, ticked, steady, Good(schedulers),
                      NEW e \in DueOf(schedulers, now)
               PROVE  e \in ran
      BY DEF DueEntriesInvoked, Good
  <2>1. AllSwept
      BY DEF IInv, DueInv, DuePart, AtLoop
  <2> QED
      BY <2>1 DEF AllSwept, Swept, DueOf, EntriesOf
<1> QED
    BY <1>1, <1>2, <1>3, PTL DEF Spec

-----------------------------------------------------------------------------
(* What a field of each format passes for.                                 *)
Passes(field) == {value \in Values : Check(field, value)}

LEMMA ModeTold ==
    ASSUME NEW field, field.pieces # <<Star>>, Len(field.pieces) # 1
    PROVE  /\ Contains(field, "comma") => Mode(field) = "SEQUENCE"
           /\ Contains(field, "dash") /\ ~Contains(field, "comma") => Mode(field) = "RANGE"
           /\ Contains(field, "slash") /\ ~Contains(field, "dash") /\ ~Contains(field, "comma")
                 => Mode(field) = "PERIODIC"
  BY DEF Mode

LEMMA WildcardMeaning ==
    ASSUME NEW field, field.seps = <<>>, field.pieces = <<Star>>
    PROVE  Passes(field) = Documented(field) \cap Values
  <1>1. \A sep : ~Contains(field, sep)
    BY DEF Contains
  <1>2. Mode(field) = "WILDCARD"
    BY <1>1 DEF Mode
  <1>3. DOMAIN field.pieces = {1} /\ field.pieces[1] = Star
    OBVIOUS
  <1>4. Documented(field) = Values
    BY <1>3 DEF Documented
  <1>5. \A value : Check(field, value)
    BY <1>2 DEF Check
  <1> QED
    BY <1>4, <1>5 DEF Passes

LEMMA NumberMeaning ==
    ASSUME NEW field, NEW x \in Nat, field.seps = <<>>, field.pieces = <<x>>
    PROVE  Passes(field) = Documented(field) \cap Values
  <1>1. \A sep : ~Contains(field, sep)
    BY DEF Contains
  <1>2. x # Star /\ <<x>> # <<Star>> /\ Len(field.pieces) = 1
    BY DEF Star
  <1>3. Mode(field) = "NORMAL"
    BY <1>1, <1>2 DEF Mode
  <1>4. {field.pieces[i] : i \in DOMAIN field.pieces} = {x}
    OBVIOUS
  <1>5. Documented(field) = {x}
    BY <1>2, <1>4 DEF Documented
  <1>6. \A value : Check(field, value) <=> value = x
    BY <1>2, <1>3 DEF Check, IntOf
  <1> QED
    BY <1>5, <1>6 DEF Passes

LEMMA Multiples ==
    ASSUME NEW x \in Nat, x > 0, NEW value \in Values
    PROVE  value % x = 0 <=> \E k \in Values : value = k * x
  <1>1. ASSUME value % x = 0 PROVE \E k \in Values : value = k * x
    <2>1. value \div x \in Int /\ value = (x * (value \div x)) + (value % x)
      BY DEF Values
    <2>2. value \div x >= 0 /\ value \div x <= value
      BY <2>1 DEF Values
    <2> QED
      BY <1>1, <2>1, <2>2 DEF Values
  <1>2. ASSUME NEW k \in Values, value = k * x PROVE value % x = 0
    BY <1>2 DEF Values
  <1> QED
    BY <1>1, <1>2

LEMMA PeriodicMeaning ==
    ASSUME NEW field, NEW x \in Nat, x > 0, field.seps = <<"slash">>, field.pieces = <<Star, x>>
    PROVE  Passes(field) = Documented(field) \cap Values
  <1>0. DOMAIN field.seps = {1} /\ field.seps[1] = "slash"
    OBVIOUS
  <1>1. Contains(field, "slash") /\ ~Contains(field, "dash") /\ ~Contains(field, "comma")
    BY <1>0 DEF Contains
  <1>2. Mode(field) = "PERIODIC"
    <2>1. Len(field.pieces) = 2
      OBVIOUS
    <2>2. field.pieces # <<Star>>
      BY <2>1
    <2> QED
      BY <1>1, <2>1, <2>2, ModeTold
  <1>3. field.pieces[2] = x /\ x # Star /\ field.seps # <<>>
    BY DEF Star
  <1>4. Documented(field) = {k * x : k \in Values}
    BY <1>3 DEF Documented
  <1>5. \A value : Check(field, value) <=> value % x = 0
    BY <1>2, <1>3 DEF Check, IntOf
  <1>6. \A value \in Values : Check(field, value) <=> value \in Documented(field)
    BY <1>4, <1>5, Multiples
  <1> QED
    BY <1>6 DEF Passes

LEMMA RangeMeaning ==
    ASSUME NEW field, NEW x \in Nat, NEW y \in Nat, x < y,
           field.seps = <<"dash">>, field.pieces = <<x, y>>
    PROVE  Passes(field) = Documented(field) \cap Values
  <1>0. DOMAIN field.seps = {1} /\ field.seps[1] = "dash"
    OBVIOUS
  <1>1. /\ Contains(field, "dash") /\ ~Contains(field, "comma") /\ ~Contains(field, "slash")
    BY <1>0 DEF Contains
  <1>2. Mode(field) = "RANGE"
    <2>1. Len(field.pieces) = 2
      OBVIOUS
    <2>2. field.pieces # <<Star>>
      BY <2>1
    <2> QED
      BY <1>1, <2>1, <2>2, ModeTold
  <1>3. /\ Len(field.pieces) = 2 /\ field.pieces[1] = x /\ field.pieces[2] = y
        /\ x # Star /\ y # Star /\ field.seps[1] = "dash" /\ 2..2 = {2}
    BY DEF Star
  <1>4. Documented(field) = x..y
    BY <1>3 DEF Documented
  <1>5. Second(field, "dash") = 2
    BY <1>3 DEF Second
  <1>6. Part(field, 1, "dash") = x /\ Part(field, 2, "dash") = y
    BY <1>3 DEF Part, IntOf
  <1>7. \A value : Check(field, value) <=> value \in x..y
    BY <1>2, <1>5, <1>6 DEF Check, InRange
  <1> QED
    BY <1>4, <1>7 DEF Passes

LEMMA SequenceMeaning ==
    ASSUME NEW field, NEW n \in Nat, n > 1, n = Len(field.pieces),
           DOMAIN field.pieces = 1..n, \A i \in 1..n : field.pieces[i] # Star,
           DOMAIN field.seps = 1..(n - 1), \A i \in 1..(n - 1) : field.seps[i] = "comma"
    PROVE  Passes(field) = Documented(field) \cap Values
  <1>1. 1 \in DOMAIN field.seps /\ field.seps[1] = "comma"
    OBVIOUS
  <1>2. Contains(field, "comma")
    BY <1>1 DEF Contains
  <1>3. Mode(field) = "SEQUENCE"
    <2>1. field.pieces # <<Star>> /\ Len(field.pieces) # 1
      OBVIOUS
    <2> QED
      BY <1>2, <2>1, ModeTold
  <1>4. field.seps # <<>>
    BY <1>1
  <1>5. field.seps # <<"slash">> /\ field.seps # <<"dash">>
    BY <1>1
  <1>6. Documented(field) = {field.pieces[i] : i \in DOMAIN field.pieces}
    BY <1>4, <1>5 DEF Documented
  <1>7. ASSUME NEW i \in 1..n PROVE Part(field, i, "comma") = field.pieces[i]
    <2>1. (i > 1 => i - 1 \in 1..(n - 1)) /\ (i < n => i \in 1..(n - 1))
      OBVIOUS
    <2>2. (i > 1 => field.seps[i - 1] = "comma") /\ (i < n => field.seps[i] = "comma")
      BY <2>1
    <2> QED
      BY <2>2 DEF Part, IntOf
  <1>8. ASSUME NEW value
        PROVE  Check(field, value) <=> \E i \in DOMAIN field.pieces : value = field.pieces[i]
    <2>1. Check(field, value) <=> \E i \in DOMAIN field.pieces : value = Part(field, i, "comma")
      BY <1>3 DEF Check
    <2> QED
      BY <1>7, <2>1
  <1> QED
    BY <1>6, <1>8 DEF Passes

(* A field in one of the formats of README.md:143-152 passes for exactly   *)
(* the values said there, for every number and every length of a list      *)
(* (cron_entry.cc:66-128).                                                 *)
THEOREM FieldMeaning ==
    ASSUME NEW field, Supported(field)
    PROVE  {value \in Values : Check(field, value)} = Documented(field) \cap Values
  <1>1. field.pieces \in Seq(Nat \cup {Star})
    BY DEF Supported
  <1>2. CASE field.seps = <<>> /\ Len(field.pieces) = 1
    <2>1. field.pieces = <<field.pieces[1]>> /\ field.pieces[1] \in Nat \cup {Star}
      BY <1>1, <1>2
    <2> QED
      BY <1>2, <2>1, WildcardMeaning, NumberMeaning DEF Passes
  <1>3. CASE /\ field.seps = <<"slash">> /\ Len(field.pieces) = 2
             /\ field.pieces[1] = Star /\ field.pieces[2] > 0
    <2>1. field.pieces[2] \in Nat \cup {Star} /\ field.pieces = <<field.pieces[1], field.pieces[2]>>
      BY <1>1, <1>3
    <2>2. field.pieces[2] \in Nat /\ field.pieces = <<Star, field.pieces[2]>>
      BY <1>3, <2>1 DEF Star
    <2> QED
      BY <1>3, <2>2, PeriodicMeaning DEF Passes
  <1>4. CASE /\ field.seps = <<"dash">> /\ Len(field.pieces) = 2
             /\ 0 <= field.pieces[1] /\ field.pieces[1] < field.pieces[2]
    <2>1. /\ field.pieces[1] \in Nat \cup {Star} /\ field.pieces[2] \in Nat \cup {Star}
          /\ field.pieces = <<field.pieces[1], field.pieces[2]>>
      BY <1>1, <1>4
    <2>2. field.pieces[1] \in Nat /\ field.pieces[2] \in Nat
      BY <1>4, <2>1 DEF Star
    <2> QED
      BY <1>4, <2>1, <2>2, RangeMeaning DEF Passes
  <1>5. CASE /\ Len(field.pieces) > 1 /\ \A i \in DOMAIN field.pieces : field.pieces[i] # Star
             /\ field.seps = [i \in 1..(Len(field.pieces) - 1) |-> "comma"]
    <2>1. /\ Len(field.pieces) \in Nat /\ DOMAIN field.pieces = 1..Len(field.pieces)
          /\ DOMAIN field.seps = 1..(Len(field.pieces) - 1)
          /\ \A i \in 1..(Len(field.pieces) - 1) : field.seps[i] = "comma"
      BY <1>1, <1>5
    <2> QED
      BY <1>5, <2>1, SequenceMeaning DEF Passes
  <1> QED
    BY <1>2, <1>3, <1>4, <1>5 DEF Supported

(* Whatever entries the igniters hold, the fields that cronSitterSlot      *)
(* looks at mean what README.md:143-152 says of their formats              *)
(* (cron_entry.cc:66-128).                                                 *)
THEOREM FieldsCorrect == Spec => []FieldsAsDocumented
  <1>1. FieldsAsDocumented
    BY FieldMeaning DEF FieldsAsDocumented
  <1> QED
    BY <1>1, PTL
=============================================================================
