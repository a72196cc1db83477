------------------------------ MODULE CronSitter ------------------------------
(***************************************************************************)
(* The scheduler of one service: cronSitterSlot of SvdService, called by a *)
(* timer about once a minute while the service runs, and the indicator     *)
(* files it keeps so that an entry is not invoked twice. The slot goes     *)
(* through the entries one by one and asks the time anew at each, so the   *)
(* clock, the igniter's editor and the death of svdss interleave with it.  *)
(* The timer may be late or come twice in a minute, since other slots of   *)
(* the same thread wait for hooks.                                         *)
(***************************************************************************)
EXTENDS Crontab

CONSTANTS
    Schedules,    \* what "schedulers" of the igniter may hold: sequences of entries
    FirstMinute,  \* the minute at which a behaviour begins
    LastMinute    \* bound on the clock

ASSUME CronAssumption ==
    /\ FirstMinute \in Nat /\ LastMinute \in Nat /\ FirstMinute <= LastMinute
    /\ \A s \in Schedules : Len(s) \in Nat /\ DOMAIN s = 1..Len(s)

EntriesOf(s) == {s[i] : i \in DOMAIN s}

Entries == UNION {EntriesOf(s) : s \in Schedules}

VARIABLES
    now,         \* the clock, in minutes
    up,          \* svdss is alive
    running,     \* the service's .running file exists
    cronSitter,  \* the timer is active
    pc, at,      \* where cronSitterSlot is: at which entry
    igniter,     \* schedulers of the igniter file
    schedulers,  \* schedulers of the loaded configuration
    indicators,  \* entries with a .cronWorking-<sha> file
    ran, again,  \* history: entries invoked once, and more than once, in this
                 \* minute since their indicators were last cleaned
    began,       \* history: the pass under way began in this minute
    ticked,      \* history: a pass with these schedulers began and ended in this minute
    steady       \* history: no indicator is older than the last minute's pass

clock == <<now, up, running, cronSitter>>
slot == <<pc, at>>
history == <<ran, again, began, ticked, steady>>
vars == <<clock, slot, igniter, schedulers, indicators, history>>

TypeOK ==
    /\ now \in FirstMinute..LastMinute
    /\ up \in BOOLEAN /\ running \in BOOLEAN /\ cronSitter \in BOOLEAN
    /\ pc \in {"idle", "entry", "spawned"} /\ (~up => pc = "idle")
    /\ igniter \in Schedules /\ schedulers \in Schedules
    /\ at \in Nat
    /\ pc # "idle" => at \in 1..(Len(schedulers) + 1)
    /\ pc = "spawned" => at \in DOMAIN schedulers
    /\ indicators \subseteq Entries
    /\ ran \subseteq Entries /\ again \subseteq ran
    /\ began \in BOOLEAN /\ ticked \in BOOLEAN /\ steady \in BOOLEAN

Init ==
    /\ now = FirstMinute
    /\ up = TRUE /\ running = FALSE /\ cronSitter = FALSE
    /\ pc = "idle" /\ at = 0
    /\ igniter \in Schedules /\ schedulers = igniter
    /\ indicators = {}
    /\ ran = {} /\ again = {}
    /\ began = FALSE /\ ticked = FALSE /\ steady = TRUE

AtLoop == up /\ pc = "idle"

(* Between passes nothing is remembered of before once no indicator is left. *)
Steady(still) ==
    steady' = ((steady /\ still) \/ (pc = "idle" /\ indicators' = {}))

-----------------------------------------------------------------------------
(* The slots. *)

Clean(entries) ==
    /\ indicators' = indicators \ entries
    /\ ran' = ran \ entries
    /\ again' = again \ entries

(* startSlot, with the schedulers it finds then. That of a service which   *)
(* runs already only sees to the timers, with or without schedulers.       *)
StartSlot ==
    /\ AtLoop
    /\ schedulers' = igniter
    /\ running' = TRUE
    /\ cronSitter' = (cronSitter \/ running \/ igniter # <<>>)
    /\ ticked' = FALSE
    /\ UNCHANGED <<now, up, slot, igniter, indicators, ran, again, began, steady>>

(* stopSlot with its hook: the indicators of the entries it loaded go.     *)
StopSlot ==
    /\ AtLoop
    /\ schedulers' = igniter
    /\ cronSitter' = FALSE
    /\ running' = FALSE
    /\ Clean(IF running THEN EntriesOf(igniter) ELSE {})
    /\ ticked' = FALSE
    /\ Steady(TRUE)
    /\ UNCHANGED <<now, up, slot, igniter, began>>

CronSitterSlotFromZero == \* Mutated: counts the entries from 0
    /\ AtLoop /\ cronSitter /\ running
    /\ schedulers' = igniter
    /\ ticked' = FALSE
    /\ pc' = "entry" /\ at' = 0
    /\ began' = TRUE
    /\ UNCHANGED <<clock, igniter, indicators, ran, again, steady>>

CronSitterSlot ==
    /\ AtLoop /\ cronSitter
    /\ schedulers' = igniter
    /\ ticked' = FALSE
    /\ \/ /\ ~running
          /\ cronSitter' = FALSE
          /\ UNCHANGED <<slot, began>>
       \/ /\ running
          /\ pc' = "entry" /\ at' = 1
          /\ began' = TRUE
          /\ UNCHANGED cronSitter
    /\ UNCHANGED <<now, up, running, igniter, indicators, ran, again, steady>>

Entry == schedulers[at]

AtEntry == up /\ pc = "entry" /\ at \in DOMAIN schedulers

EndOfPass ==
    /\ pc' = "idle" /\ at' = 0
    /\ ticked' = (ticked \/ began)
    /\ began' = FALSE

(* All entries seen. *)
LastEntry ==
    /\ up /\ pc = "entry" /\ at \notin DOMAIN schedulers
    /\ EndOfPass
    /\ UNCHANGED <<clock, igniter, schedulers, indicators, ran, again, steady>>

(* An entry that has its indicator was invoked already: the slot returns.  *)
AlreadyInvoked ==
    /\ AtEntry /\ CronMatch(Entry, now) /\ Entry \in indicators
    /\ EndOfPass
    /\ UNCHANGED <<clock, igniter, schedulers, indicators, ran, again, steady>>

InvokeUnmarked == \* Mutated: does not leave an indicator
    /\ AtEntry /\ CronMatch(Entry, now) /\ Entry \notin indicators
    /\ ran' = ran \cup {Entry}
    /\ again' = again \cup (ran \cap {Entry})
    /\ pc' = "spawned"
    /\ UNCHANGED <<clock, at, igniter, schedulers, indicators, began, ticked, steady>>

Invoke ==
    /\ AtEntry /\ CronMatch(Entry, now) /\ Entry \notin indicators
    /\ indicators' = indicators \cup {Entry}
    /\ ran' = ran \cup {Entry}
    /\ again' = again \cup (ran \cap {Entry})
    /\ pc' = "spawned"
    /\ UNCHANGED <<clock, at, igniter, schedulers, began, ticked, steady>>

(* The job's shell has started; the slot does not wait for its end.        *)
Started ==
    /\ up /\ pc = "spawned"
    /\ indicators' = IF IsContinuous(Entry) THEN indicators \ {Entry} ELSE indicators
    /\ pc' = "entry" /\ at' = at + 1
    /\ UNCHANGED <<clock, igniter, schedulers, ran, again, began, ticked,
                   steady>>

NotDueKeeps == \* Mutated: leaves the indicator of an entry that is not due
    /\ AtEntry /\ ~CronMatch(Entry, now)
    /\ at' = at + 1
    /\ UNCHANGED <<clock, pc, igniter, schedulers, indicators, history>>

NotDue ==
    /\ AtEntry /\ ~CronMatch(Entry, now)
    /\ indicators' = indicators \ {Entry}
    /\ at' = at + 1
    /\ UNCHANGED <<clock, pc, igniter, schedulers, ran, again, began, ticked,
                   steady>>

-----------------------------------------------------------------------------
(* Everything else. *)

MinutePasses ==
    /\ now < LastMinute
    /\ now' = now + 1
    /\ ran' = {} /\ again' = {}
    /\ began' = FALSE /\ ticked' = FALSE
    /\ UNCHANGED <<up, running, cronSitter, slot, igniter, schedulers, indicators>>
    /\ Steady(indicators = {} \/ (ticked /\ pc = "idle"))

EditIgniter(s) ==
    /\ igniter' = s
    /\ s # igniter
    /\ UNCHANGED <<clock, slot, schedulers, indicators, ran, again, began, ticked>>
    /\ steady' = (steady /\ pc = "idle" /\ indicators = {})

(* svdpanel resets the service: .running goes, the indicators stay.        *)
PanelReset ==
    /\ running
    /\ running' = FALSE
    /\ UNCHANGED <<now, up, cronSitter, slot, igniter, schedulers, indicators,
                   ran, again, began, ticked>>
    /\ steady' = (steady /\ pc = "idle" /\ indicators = {})

Killed ==
    /\ up
    /\ up' = FALSE
    /\ cronSitter' = FALSE
    /\ pc' = "idle" /\ at' = 0
    /\ began' = FALSE
    /\ UNCHANGED <<now, running, igniter, schedulers, indicators, ran, again,
                   ticked, steady>>

(* A new svdss starts a service that is to start by itself, then cleans up *)
(* after one it finds running and resumes it.                              *)
Boot(autostart) ==
    LET resumed == running \/ autostart
    IN  /\ ~up
        /\ up' = TRUE
        /\ running' = resumed
        /\ schedulers' = igniter
        /\ cronSitter' = resumed
        /\ Clean(IF resumed THEN EntriesOf(igniter) ELSE {})
        /\ ticked' = FALSE
        /\ Steady(resumed)
        /\ UNCHANGED <<now, slot, igniter, began>>

SlotStep ==
    \/ LastEntry \/ AlreadyInvoked \/ Invoke \/ Started \/ NotDue

Next ==
    \/ SlotStep
    \/ StartSlot \/ StopSlot \/ CronSitterSlot
    \/ MinutePasses
    \/ \E s \in Schedules : EditIgniter(s)
    \/ PanelReset \/ Killed
    \/ \E autostart \in BOOLEAN : Boot(autostart)

Spec == Init /\ [][Next]_vars

-----------------------------------------------------------------------------
(* Properties. *)

(* However often the timer comes in a minute, and whatever is edited,      *)
(* reset or restarted meanwhile, an entry is invoked once in that minute,  *)
(* unless its indicator was cleaned or it runs continuously                *)
(* (service.cc:811-816).                                                   *)
OncePerMinute == \A e \in again : IsContinuous(e)

(* Entries that are due in two minutes that follow each other and do not   *)
(* run continuously.                                                       *)
Dense(e) ==
    /\ ~IsContinuous(e)
    /\ \E t \in FirstMinute..(LastMinute - 1) : CronMatch(e, t) /\ CronMatch(e, t + 1)

Distinct(s) == \A i, j \in DOMAIN s : s[i] = s[j] => i = j

DueOf(s, t) == {e \in EntriesOf(s) : CronMatch(e, t)}

(* After a whole pass within a minute every entry that is due in it was    *)
(* invoked, whatever the order of the entries and however svdss was        *)
(* restarted before, as long as no entry is due in two minutes on end, no  *)
(* entry is listed twice, and no older indicator is left over from a       *)
(* minute without a pass (service.cc:800-838).                             *)
DueEntriesInvoked ==
    /\ AtLoop /\ ticked /\ steady
    /\ Distinct(schedulers)
    /\ \A e \in EntriesOf(schedulers) : ~Dense(e)
    => DueOf(schedulers, now) \subseteq ran

(* A field that cronSitterSlot looks at, in one of the formats of          *)
(* README.md:143-152, passes for exactly the values said there             *)
(* (cron_entry.cc:66-128).                                                 *)
FieldsAsDocumented ==
    AtEntry => \A i \in DOMAIN Entry.fields : Supported(Entry.fields[i]) =>
        {value \in Values : Check(Entry.fields[i], value)}
            = Documented(Entry.fields[i]) \cap Values

(* As a scheduler that is compliant with cron would (README.md:125), every *)
(* entry is invoked in each minute that its fields pass for, provided the  *)
(* timer comes in time.                                                    *)
DueEntriesInvokedAlways ==
    AtLoop /\ ticked /\ steady /\ Distinct(schedulers) => DueOf(schedulers, now) \subseteq ran
=============================================================================
