# A verification development for TheSS

TheSS ("The Server Supervisor") runs software services of a Unix user. This directory
holds TLA+ models of its core logic, the TLC configurations that check them, and
theorems about them that TLAPS checks. Source locations are relative to the root of
the repository: `service.cc` is `src/service_spawner/service.cc` and so on.

## 1. The system

`svdss`, one process for each user, supervises *services*. A service has an *igniter*, a
JSON file with the shell commands of its *hooks* (install, configure, validate, start,
afterStart, stop, afterStop, reload), and a directory full of small files. Those files are
the whole interface: users, `svdpanel`, the API and the deployer *touch trigger files*
(`.start`, `.stop`, ...), `svdss` removes them and leaves *state files* (`.running`,
`.configuring`, ...) that outlive it. Everything in `svdss` that decides something runs in
one Qt event loop: a slot that runs a hook blocks the loop until the hook ends or 30 s pass.

| Component | State it keeps | Operations | Talks to |
|---|---|---|---|
| `SvdService` (`service.cc`) | state files, two timers, cached configuration | one slot for each hook, `restartSlot`, `reConfigureSlot`, `babySitterSlot`, `cronSitterSlot`, `finishedSlot` | runs hooks, loads the igniter, ends processes by `deathWatch` |
| `SvdServiceWatcher` (`service_watcher.cc`) | trigger files | boot, autostart and resume; `dirChangedSlot` obeys one trigger at a time | signals to `SvdService` |
| `SvdServiceConfig` (`service_config.cc`) | the igniter, and defaults | load, fall back to defaults, substitute constants; `releaseName` = hash of the igniter and port | touches `.stop` when the igniter is gone |
| `SvdProcess`, `expect` (`process.cc`, `utils.cc`) | log files of hooks | spawn, wait at most 30 s, search the log for the expected text | hooks' shells |
| Death watch (`death_watch.cc`) | none | CONT, INT, TERM, KILL until the process is gone | processes |
| `SvdUserWatcher` (`user_watcher.cc`) | list of watchers, `~/.shutdown*` | collects services, obeys shutdown triggers | makes and drops watchers |
| `svdss` main (`service_spawner.cc`, `utils.cc`) | pid file, signal handler | start once, die on SIGTERM | - |
| Scheduler (`cron_entry.cc`, `service.cc`) | `.cronWorking-<sha>` indicators | match an entry against the time, invoke due entries | spawns jobs without waiting |
| Deployer (`deployer.cc`, `deploy.cc`, `bin/svdply`) | `.releases`, `.deploying`, igniter, proxy entry | push, clone, prune, write the igniter, restart, retire old releases | triggers of `svdss`, processes, git |
| Ports, directories (`utils-core.cc`) | port files | find a free port | sockets |
| JSON lookups (`json_api.cc`) | - | value of a service, else of the default igniter | - |
| Notifications (`notifications.cc`) | bounded history | append, drop the oldest | API |
| API, panels, usage collector, dispel, shell | nothing that decides | show, touch triggers, sample | files |

What is hard here, and what the properties are about:

* **Slots call slots.** `restartSlot` runs stop, afterStop, then the start chain; each has
  early returns that look at files an earlier, interrupted or concurrent slot left.
* **The loop is not alone.** While a hook runs, processes die, users touch several
  triggers, igniters are edited or removed, the disk fills, the deployer works on the same
  directory. Hooks may outlive the wait and act later, on state that has moved on.
* **`svdss` dies anywhere** and its successor knows only the files.
* **Timers against clocks.** A cron timer of about a minute meets minutes of the clock:
  passes come late, twice in a minute, or are left out.
* **Names by content.** A release is named by its igniter's hash; two deployments may or
  may not share a directory, a pid file and a port.
* **Deployments** are long sequences of steps that can be interrupted between any two, beside
  a babysitter that would restart what the deployer takes down.

For each component, what makes it correct:

* *Services*: a slot never leaves its indicator behind; start only after validation passed; never two processes of
  one service; `.running` is true at the loop; a running service is watched; a dead
  one is launched again; a stop is never lost; hooks run in the promised order.
* *Dependencies*: they run as long as a dependant does, and no longer; every running service has an
  object that watches it; a graceful exit leaves nothing behind.
* *svdss and its user watcher*: one supervisor for each user; every service directory and
  trigger is heard of; a shutdown is obeyed; `svdss` works again after any death.
* *Configs and ports*: all programs name the same release; no load destroys a good igniter; a valid
  config stays in use; nobody waits for ever.
* *Scheduler*: each entry at most once a minute; no due entry left out; fields mean
  what the documentation says.
* *Deployer*: the pushed code comes into force; the directory in use is never pruned; no
  process of an old release stays; the new release comes up; one deployment at a time.
* *Not modelled*: see section 6.

## 2. Modules

| Module | Content |
|---|---|
| `ServiceLifecycle` | one service: slots, trigger dispatch, hooks, boots and deaths of `svdss`, the outside world; properties |
| `HookPlan` | abstract: the order of hooks a service promises; `ServiceLifecycle` implements it |
| `Dependencies` | services that need each other under one `svdss`: starts, stops, adoption, reboots |
| `Spawner` | the `svdss` processes of one user: lock, list of services, watches, shutdowns |
| `ServiceConfig` | three programs that load the igniter and the port file of one service, file operation by file operation |
| `Crontab` | fields and entries of the scheduler as pure operators (`SvdCrontab`) |
| `CronSitter` | `cronSitterSlot` entry by entry, beside clock, editor, panel and crash |
| `Deployer` | one web application under deployment, beside an abstract `svdss` |
| `MC...` | instances of these for TLC: constants, a symmetry |
| `..._proofs` | theorems and proofs about `ServiceLifecycle`, `HookPlan` (the refinement), `Dependencies`, `Spawner`, `ServiceConfig`, `CronSitter`, `Deployer` |
| `DependenciesTree_proofs` | continues `Dependencies_proofs` with what is promised about the graph of dependencies |

How they fit together: `Spawner` says which `svdss` lives and what it hears of, with a service reduced to its
mark and its processes; `Dependencies` takes one `svdss` and says which slots of which service it calls,
with the hooks of a slot reduced to their outcome; `ServiceLifecycle` takes one service and says what
each slot does, hook by hook; `ServiceConfig` opens up what "load the configuration" is, which each of these takes in one
step; `CronSitter` opens up one slot; `Deployer` sees the service through its triggers and files.
What one module leaves out, another has, and each names the other in its header.

### ServiceLifecycle

`pc` is where the one thread of `svdss` is: `"idle"` is the event loop, a name ending in
`Slot` (and `launch`) the entry of a slot, a hook's name the wait for it. Every slot that
runs a hook is two actions: entry (`StopSlot`) and what follows the wait (`StopDone`), with
`Waited` giving the ways in which `waitForFinished` returns. `goal` is why the chain runs, so that
the nested calls (`emit installSlot()` inside `startSlot`) return to the right place.
`late` holds hooks that outlived the wait: the shell is killed when the loop deletes its
`SvdProcess`, unless `svdss` died first ("orphan"). `HookEffect` is what a hook may do to
the service: a start writes a pid file, a stop ends that process, a failed one does nothing.
`LoadServiceConfig` is what every slot does first; it may touch `.stop`.

Abstractions: an igniter is a release name (`Releases`), `Broken` or `Missing`; expected
texts are the hooks in `Expecting`; the default babysitter checks the pid file, the port
and an http address; custom babysitter commands, UDP and socket checks, and all
notifications are left out; `alwaysOn` is true. The `...WithoutDeps` triggers reach
the same slots; dependencies are in `Dependencies`. `Boot` with an igniter that does not
parse is left out. `svdss` boots with a service directory as `Init` or any earlier life left it.

### HookPlan

The promise behind `ServiceLifecycle`, in README.md:31-67's terms: an operation (`op`) is at one hook of its chain (`stage`),
which is next or runs (`runs`). `FollowUp` is the chain: install, configure, validate, start, afterStart;
stop, afterStop; configure and then a restart. A hook is left out because it was done (`installed`, `configured`), because there is none
(`validates`) or because nothing runs; a start ends without launch because the last validation `failed`. Those facts change
with their hooks only (`End`, `Effect`). `PlanFollowed` in `ServiceLifecycle` maps `pc` and `goal` to it (`StageOf`,
`OperationOf`). Kills, edits and panel resets end an operation anywhere or change the facts from outside: the plan is not
kept then, and says nothing about them.

### Dependencies

`heap` is the `SvdService` objects, oldest first: one for each watcher, one for each time a service
launched or adopted a dependency (`new SvdService` in `startSlot`, `babySitterSlot`). `sits` is the object's babysitter timer,
`deps` its `dependencyServices`. The thread's call stack is `tasks`: a slot that emits other slots
puts theirs in front, so `StartDep` walks down the tree and `Launch` comes after it. `Stop` works through
the list of the object and not through the igniter's list, which is why what was adopted, shared or left from an earlier
start matters: `Under` says that a stop takes something away from a running dependant, `Forgets` that it comes from an object
which lacks a running dependency that another object of the service lists (lists only grow, and each object has its own). Adoption follows the order of the igniter (`Adoptions`). `Names` is the order in which
`svdss` makes watchers at boot, each with its autostart and resume before the next.

A hook may miss what it expects. A missed configuration leaves the service unconfigured; a missed start hook, with or without a
process come of it, starts no timer, but the service is marked all the same (`Launch`, service.cc:746-768), and `Busy`
keeps the babysitter from whoever is not configured.

A death of `svdss` may come between tasks, or amid the next one. `HalfStarted`, `HalfLaunched`, `HalfStopped` and
`HalfAfterStopped` say what that leaves: hooks done for some services and not for others, a process that is launched or ended,
the mark, and the indicator of the hook that was running, which goes to `leftovers`; `Unmarked` is the death between a start hook and
the mark. What a leftover does is what the slots do when they find it: the babysitter returns (`Busy`), a configuration is
skipped, an old validation stands, an afterStop returns, and a stop removes them.

Left out: what goes on between entry and exit of a slot while `svdss` lives (in `ServiceLifecycle`), `reConfigure`, `afterStart` and the
other single-hook triggers, the indicators of deployments and reloads, several `svdss` (in `Spawner`), and the http checks.

### Spawner

`pc[p]` follows one `svdss` through `main` and `SvdUserWatcher::init`: it `reads` the pid file, `writes` its own,
`collects` services, `registers` its watches, `loops`, and `stops` services in a graceful shutdown. `jobs[p]` is what the thread does
before that: for each new service a watcher, an autostart or resume, and the slots. `known`, `watched` and `heard` are
apart because the code keeps them apart: the list of names, the watchers made, and the directories
`QFileSystemWatcher` still delivers (a removed one is dropped, and so is not heard of when it comes back).
`news` and `noticed` are deliveries that wait for the loop. A service is `marked`, and its
processes are `named` by its pid file or `stray`. Processes come back under the same id once it is out of the pid file; `PidReused` gives the number
of a dead `svdss` to some other program.

### ServiceConfig

`svdss`, `svdpanel` and `svddeployer` run the constructor of `SvdServiceConfig` beside each other: read the igniter,
move an unreadable one away (`MoveAway`: renamed, or removed when the other name is taken), make the directory of
port files, pick a port, open (which empties) and write its file. `svdss` does that three times for one slot: to test, to use, to
cache. `svddeployer` makes ports first, then opens and fills the igniter, then loads. `target` is the file that a
descriptor opened under the igniter's name leads to after a rename. A release is the pair of text and port that its hash is made of.

### Crontab, CronSitter

A field is its pieces and separators (`"comma"`, `"dash"`, `"slash"`), as `SvdCrontab`'s splits see them; `Supported` names the
formats that the documentation has; `Mode` and `Check`
follow the constructor and `check`, overriding tests and the conversion of text to 0 included.
The slot asks for the time anew at every entry, so `MinutePasses` comes between any two entries;
`Invoke` and `Started` are apart so that `svdss` may die between them, as are all entries of
a pass. Time is minutes into a January that starts on a Monday; only well-formed fields occur.
`ran`, `again`, `began`, `ticked` and `steady` are history. `steady` says that each
indicator present is due to the last pass of this or the previous minute: it is lost when a
minute passes without a whole pass while an indicator exists, when an edit or reset meets
indicators, and found again when none is left between two passes.

### Deployer

`job[d].pc` walks through `main` and `createEnvironmentFiles` in their order; a step
is cut where another actor could see the difference. `dirs` is `.releases` in the order of
`QDir::Time`, newest first, each with the code it holds. `IgniterOf` maps code to the
release of the igniter written for it: it is not injective, since the igniter's text depends on the kind and the
dependencies of the application only. A `service.pid` is `"none"`, or names a `"dead"` or a `"live"` process;
live processes that no file names are `stray` (counted once for each release).
`svdss` is reduced to what meets a deployment: whether it has heard of the application
(`watch`), the triggers the deployer touches, the
babysitter's test, loading the igniter, a launch that may fail if a process
of another release still holds the port, and its own death and restart. Left out: texts of igniters and proxy entries,
datastores, port pools, what is asked of dependencies (but not that a missing dependency
ends the deployment: `Interrupted`), and
reuse of process ids. `Kinds` are the events after which a promise ends: an interruption, two deployers
at a time, a failed clone, a launch of the old release already `late` on its way, and a process `lost` from its pid file.

## 3. Runs

| Run | Question | Bounds | Result |
|---|---|---|---|
| `lifecycle` | do files and validation tell the truth, is there one process, under everything that can happen? | 2 releases, 2 pids, 12 triggers, all 10 kinds of events, any 3 | holds, 663k states |
| `lifecycle_watch` | is nothing revived after a stop, a running service always watched, and the order of hooks kept? | 1 release, 8 triggers, 6 kinds, any 5 | holds, 1.3M states |
| `lifecycle_live` | does a dead service come back, is a stop honoured, does a removed igniter stop its service? | 1 release, autostart, 4 triggers, 4 kinds, any 3; `FairSpec` | holds, 166k states |
| `sigterm_blinds` | does a new `svdss` resume the watch? | one kill | **violated** |
| `dependencies` | do dependencies run with their dependants and end with them, and is each service watched, through reboots? | 4 services, one shared dependency, which has one of its own; stops and restarts, 6 kinds, any 3; `FairSpec` | holds, 469k states |
| `spawner` | one `svdss`, one process of a service, nothing unheard, shutdowns obeyed? | 2 processes, 2 services, all 12 kinds, any 3; `FairSpec` | holds, 242k states |
| `service_config` | do all programs name the same release, and does the igniter survive their loads? | 3 programs, one good and one bad igniter, 2 ports, any 2 saves, deployments and deaths; `FairSpec` | holds, 395k states |
| `cron` | once a minute, nothing due left out, documented fields? | 11:57 to 12:00; 4 igniters with all five formats | holds, 163k states |
| `cron_dense` | is each due entry invoked in each minute? | 11:57 to 12:03; one igniter | **violated** |
| `deploy` | is the pushed code in force, the directory kept, the old ended, the new up? | 1 deployer, 4 releases (one static), 5 pushes, 2 deployments, first or after three; any one event; `FairSpec` | holds, 1.1M states |
| `redeploy` | is a push that does not change the igniter deployed? | 2 pushes, 2 deployments, no event | **violated** |
| `deploy_lock` | does a second deployer keep off? | 2 deployers | **violated** |

Why the bounds are enough to be of interest: three outside events in `lifecycle` are, for
example, a start, an edit and a kill in the middle of the hook; two pids suffice to see two
processes; two releases to see a configuration that changes under a slot. In `dependencies`, four services
give both a shared dependency and a second level; the three events are, for example, two starts that share the
dependency and a death of the latter, or a start, a kill and a stop after the tree was rebuilt. `web` starts
by itself, so reboots and dead processes come without a request. The requests are stops and restarts: a restart of a stopped
service starts it. The bound on events is also the one on hooks that miss what they expect. Runs of other instances gave no error either, on a chain
of three services: six starts, stops and restarts (515k states), seven starts and stops (186k), five deaths of processes and of
`svdss` (775k), four events with failing hooks, kills and graceful shutdowns (2.5M, safety only). A chain and six
requests are also where section 4's dependency is left behind. In `spawner`, two processes are what the lock is about, and a third
event after two launches still damages the file. Larger instances of `service_config`
were run once, without an error: two good igniters (2.2M states), three events (1.8M). In `cron`, noon gives a change of
the hour, entries with a gap and a range, and the four minutes let an indicator be set, be
cleaned, survive a crash and be reused. Three kept releases at the start of `deploy`
make the first deployment prune, and the second prune again with a different order. Runs switch deadlock checking off where the bounds on events stop the world; `cron` and
`service_config` never stop.

Promises name the events that end them. Each name was taken away in turn and the run repeated: almost every one is
needed, TLC then finds the promise violated, mostly within the run's own instance. In another instance: `alone` of
`DependenciesRun` (with the request startWithoutDeps), `overlap` of
`DeployedAsPushed` and `OldReleasesRetired` (two deployers), and `interrupt` of `OldReleasesRetired` (three deployments, of which
one meets a failed clone and an interruption). No violation was seen without `swap` of `TriggersNoticed` (the touch then
counts as `early`), `cut` of `StableSinceBarrier` and `overlap` of `ServedDirectoryKept` (an instance too large to
exhaust); these are kept because the proofs use them, and the promises may hold without.

Every property of a passing run also has a mutated definition, marked `Mutated` in the modules, that
makes TLC violate it: a slip such as a forgotten babysitter, a pruning that lists in
reverse, or an early return that leaves an indicator.

### Fairness

* `ServiceLifecycle`: `WF(SlotStep)` - inside a slot the thread does not stall; `WF(HookEnds)` - a
  hook ends (`Waited` may also give up, but not beyond the bound); `WF(Boot)` - an `svdss` that is down is started again. `SF(DirChangedSlot)` and
  `SF(BabySitterSlot)` - both are enabled again and again, not continuously, because other
  sources make the loop busy in between. Qt's loop delivers a pending file event and an expired
  timer among the others, and trigger files are looked at on every change of the directory.
  No fairness is assumed of users, of `CronSitterSlot`, of http answers or of late hooks.
* `Dependencies`: `WF` of the thread's tasks and of `Boot`; `WF` of the shutdown files, but only while none came
  before `svdss` listened; `SF(BabySitters)` of the timers as a whole - that it suffices shows that no object's timer
  keeps the one that matters from its turn for ever. Triggers are served without any fairness: no property needs it.
* `Spawner`: `WF(Launch)` - the system's own start of `svdss` when none lives; `WF` of the threads' steps; `SF(HomeChanged)`, as the loop
  is busy again and again.
* `ServiceConfig`: `WF` of each program's loading and of the deployer's writing. Nobody is assumed to save, deploy or die.
* `Deployer`: `WF` of the steps of each deployer (it ends or is interrupted) and of
  `svdss`' reaction as a whole; nobody is assumed to push, deploy or touch anything.

## 4. What the violated runs show

1. **`sigterm_blinds`** - SIGTERM while a hook runs leaves its indicator file. The next `svdss`
   starts the timers, but `babySitterSlot` returns at the indicator for ever: the service is
   marked running and nobody watches it (README: it "will just resume watch on live services").
2. **`cron_dense`** - the slot cleans an entry's indicator only in a minute in which it
   is *not* due, and returns at the first entry that has one. `* 12 * * *` runs once, not sixty
   times, and keeps the entries behind it from running.
3. **`redeploy`** - a push that leads to an igniter deployed before finds its release
   directory in place: `git clone` refuses it, `git pull` runs outside of it, and the old
   code stays in force while the deployer reports success.
4. **`deploy_lock`** - the deployer looks for a pid in `.deploying`, writes its own to
   `.deploying.pid`, and so never finds another deployer.

Five more limits of the code are built into the models and need no run. An object's list of dependencies is never cleared,
and a stop goes through it in order (service.cc:938-950): with `t` needing `s` and `s` needing `d`, the requests start `d`,
start `t`, stop `t`, stop `d`, start `t`, stop `t` leave `d` running though nobody asked for it. The last stop reaches `s` by the object of
the first start of `t`, which does not list `d` (it ran then); the object of the second start lists it, but finds `s` stopped (`forget`). `waitForFinished` returns after 30 s and nobody
looks at its result, so a longer hook runs beside the next one ("ordered, synchronous execution" in README.md holds for hooks that
end in time; `Waited`). And hooks append to one log, all of which `expect` searches (utils.cc:210): an
old success confirms a new failure (README.md:72 promises more; `seen` of `ServiceLifecycle` outlives the hook).
A configure or start hook that misses what it expects does not stop the start (service.cc:603-616, 746-768): the service is marked
running, but in the first case it has no `.configured`, so that the babysitter returns at once (258-272), and in the
second nobody starts its timers. Its process may die unnoticed, in the second case until the next `svdss` resumes the service, and
in both until somebody starts it anew (`RunningIsWatched` excludes expectations of these hooks, `RunningIsSat`, `DeadRelaunched` and `TreeRebuilt` what is `missed` or
`Busy`). And a start hook may have launched a process when `svdss` is killed, before `.running` is written (743-768): a stop, and so a graceful
shutdown, leaves that process alone, since nothing marks its service (888-893), and the next start launches another
(`stray` of `GracefulExitStopsAll`; `OneInstance` and `OneProcess` exclude the same kill).

## 5. What is proved

For every value of the constants (with the named assumptions `ConstantsAssumption`,
`CronAssumption`, `DependenciesAssumption`, `SpawnerAssumption`, `ConfigAssumption`, `DeployerAssumption`), that is for any number of services, processes,
releases and events, any dependencies, and any igniters:

*`ServiceLifecycle`*

* `TypeCorrect`: `Spec => []TypeOK`.
* `IndicatorsCorrect`: `[]IndicatorsHonest`. Inductive is `IndicatorInv`: the property, written
  out for each file, and that a dead `svdss` waits for no hook, so that `Boot` finds no indicator
  to be misled by. It holds until a kill; `HappenedGrows` carries the condition.
* `ValidationCorrect`: `[]LaunchIsValidated`. `ValidationInv` says that from the end of the
  validate hook to the start hook either the validation passed or `.validationFailure` is
  still there to be seen; it needs `IndicatorInv`, since a left `.validating` would skip the hook.
* `InstancesCorrect`: `[](OneInstance /\ LiveIsMarked /\ GracefulExitStops)`; `LiveMarkedCorrect` and
  `GracefulExitCorrect` name the other two. `InstanceInv`
  says that whatever lives is named by the pid file of the loaded release, which is the one in
  force, is marked running or was launched just now, and is dead from the end of the stop hook to the next
  launch; that no hook of an earlier slot is still at work; and that a start chain is
  under way only while the service is not marked running.
* `WantedCorrect`: `[]LaunchIsWanted`. `WantedInv`: a start chain, a restart or a reconfiguration is under way, and
  `.running` is there outside of a stop, only while the last obeyed request asked for it. It
  needs `IndicatorInv`: an early return of afterStop at its own indicator would leave `.running` behind.
* `WatchedCorrect`: `[]RunningIsWatched`. `WatchInv`: a running service keeps its configuration except while it is configured
  anew, and its babysitter except while it is being stopped or `svdss` has just started.

*`HookPlan`* - the refinement

* `PlanCorrect`: `Peaceful => (Spec => PlanFollowed)`, where `Peaceful` says that kill, edit and reset are not among
  the disturbances. Initial states map to initial states; each action is a step of the
  plan or a stutter, one lemma for each group. Needed as invariants: `IndicatorsHonest` (a skipped hook would be a step
  the plan does not have) and `ThreadInv` - the goal of a chain fits the slot the thread is in, so that the nested
  calls return where `FollowUp` goes.

*`Dependencies`*

* `DependenciesTypeCorrect`: `[]TypeOK`. Inductive together with `WatchersInv`: every service has its watcher's object or
  the task that makes it is pending, without which `Watcher(s)` has no value in the heap.
  With them goes `ClearInv`: when an afterStop is due, its service has no `.afterStopping` left, which the stop removed, so that
  it does unmark the service. Deaths amid slots make these the steps to look at.
* `RunningSatCorrect`: `[]RunningIsSat`. `SatInv`: while no start hook missed what it expects and no disk was full, a running service
  either has an object that sits or there is a task -
  its watcher, a resume, a start of one of its objects, an afterStop - that sees to it before the thread is back at its loop.
* `GracefulExitAllCorrect`: `[]GracefulExitStopsAll`. `ExitInv`: what lives is marked running, unless a death came between a
  start hook and the mark (`Marked`); ahead of an afterStop or exit
  there are only stops; ahead of an exit there is a stop for every running service; the service of an afterStop does not live.

*`Dependencies`*, the graph (`DependenciesTree_proofs`)

* `DependenciesRunCorrect`: `[]DependenciesRun`; `NoneLeftCorrect`: `[]NoneLeftBehind`; `LaunchedLastCorrect`: `[]LaunchedLast`, that
  before a start hook runs all that the service requires is marked running. The graph may have cycles and shared
  dependencies, and the tasks are a stack of any depth. The invariant `GraphInv` adds to the types:
  * `OrderInv`, on the tasks themselves. `Ordered`: nothing comes behind an exit, only stops before a stop's end,
    only starts before a launch. `Expected`: a dependency about to be started is one of a service that launches behind it.
    `Provided`: what a launch requires is running, or some task before it brings it up.
  * `ListsInv`: an object lists only what its service requires.
  * `TreeInv`, on what the tasks will have achieved. `Aim` is what they bring up, `Up` what is running and not about to lose
    its mark. A set *covers* the tasks when it holds `Aim` and the dependencies of what in it is not up; a service is `Sure` if each
    cover or `Up` has it, `Due` if each cover does. This is the closure under "requires", as a least set and so
    without recursion: cycles need no case of their own. `SureInv`: what is up has only dependencies that are sure.
    `DueInv`: what is stopped amid a restart is due to come back. `KeptInv`: a service that nobody asked for is listed by an
    object of one that is sure, or is about to be stopped.
  At the loop nothing is aimed at, the empty set is a cover, and what is sure is running. Each action is treated by how it
  changes covers: a start replaces its task by the dependencies that the cover held already (`Grows`), a stop removes from
  `Up` what, without `under` or `forget`, nothing else requires or lists.
  TLC finds `GraphInv` and `LaunchedLast` true in the instance of the run `dependencies`, too.

*`Spawner`*

* `SpawnerTypeCorrect`: `[]TypeOK`.
* `SupervisorCorrect`: `[]OneSupervisor`. `LockKept`: until one of the two gaps, whoever is past its test holds the lock or is
  about to, and the pid file names a worker until that worker gives it up to exit.
* `ProcessCorrect`: `[]OneProcess`, from `LockKept` and `JobsInOrder` (what a thread still has to do with a service comes in the order
  watcher, autostart, slot) with `ServicesKept` (a named process belongs to a marked service, or its only supervisor is about
  to mark it; nobody starts what it is about to mark).
* `HeardCorrect`, `NoticedCorrect`: `[]ServicesHeard`, `[]TriggersNoticed`, by `ListKept`: what is known has its directory heard,
  its watcher pending, or a change of `~/SoftwareData` that the loop has still to look at.

*`ServiceConfig`*

* `ServiceConfigTypeCorrect`: `[]TypeOK`, with `JobInv` (what a program has in its hands at each point of its load).
* `ReleaseNamesCorrect`: `[]ReleaseNamesAgree`, which is `PortsAgree`, by `PortInv` (who has opened, emptied or read the port
  file), and `StableSinceBarrier`, by `BarrierInv` (what svddeployer relies on from its barrier on).
* `IgniterKeptCorrect`, `ConfigKeptCorrect`: `[]IgniterKept`, `[]ValidConfigKept`, by `IgniterInv` and `TestInv` (what was
  tested is what is read next).

*`CronSitter`*

* `CronTypeCorrect`: `[]TypeOK`; this includes that a pass stays within its entries.
* `OnceCorrect`: `[]OncePerMinute`. `RanInv`: what was invoked in this minute matches it and
  still has its indicator, unless it is continuous.
* `DueCorrect`: `[]DueEntriesInvoked`. `DueInv` has three parts. `PassInv`: the place of the pass. `LeftInv`
  (while steady): indicators belong to the loaded entries. `DuePart` (while steady, for
  distinct entries none of which is due in two minutes on end): an entry with an
  indicator that is due was invoked in this minute; whoever returns at such an entry leaves behind it only
  entries already swept (`Covered`); all entries before the current one are swept. The
  property follows when the pass ends. The proof treats `CronMatch` as an unknown predicate, so it holds
  for any formats.
* `FieldMeaning`: `Supported(field)` implies that `Check` passes the field for exactly the values that its documentation
  (README.md:143-152) names, for all numbers and lists of any length; one lemma for each format. `FieldsCorrect`:
  `Spec => []FieldsAsDocumented` follows. It says nothing of fields in other formats.

*`Deployer`*

* `DeployerTypeCorrect`, `ServedCorrect`, `PushedCorrect`, `RetiredCorrect`: the type invariant and the three safety properties, for any
  number of deployers, kept releases and deployments and any `IgniterOf`. The
  invariants `RetireInv` and `DirsInv` follow the deployment: what is in `build-in-progress`, which release is at the head of `dirs`
  when pruning counts, and which releases may have a live process at each stage.

Each theorem rests on one lemma for each group of actions, with one step for each action.

Every safety property and action property of the passing runs is stated by one of these theorems. Only model-checked:

* liveness (`DeadServiceRelaunched`, `StopHonoured`, `IgniterRemovedStops`, `DeadRelaunched`, `TreeRebuilt`,
  `WorksAgain`, `ShutdownObeyed`, `PanelGoesOn`, `DeployedComesUp`): the prover treats neither liveness under fairness nor `ENABLED`.

Induction over data and `RECURSIVE` operators are out of its reach as well; no module declares one.

## 6. Not modelled, and why

The models cover most of what decides anything in `service_spawner`, `deployer` and the scheduler, the
service files of `core`, and little else. Of the C and C++ in the repository, more than four fifths are vendored libraries (zeromq, quazip, hiredis,
yajl, qslog), about 48,000 lines, which the programs use as they come; they are not this project's subject, and
the share of lines covered stays small for that reason.

* *Panel* (`gui.cc`, `scroll_list.cc`, `panel_service.cc`): what it does to services (triggers, F12) and how it loads configs is modelled, its
  lists and dialogs are not. Reading showed what a model of them would be about: a selection is an index and moves to
  another service when one above it is removed; `display` never clips `first` (scroll_list.cc:10-28); F6 renames
  `currentItem()` as it is after the dialog (gui.cc:529); Enter and F12 use an item that may not be there
  (gui.cc:439-451, :599); a confirmation is for a state read before the dialog (gui.cc:374-395).
* *Datastores and ports of a deployment*: `deploy.cc:774` and `:835` look for the pid of a dependency under the release name of the
  application; service_config.cc:270 tests a path that lacks its "/", so that further ports are made anew at each
  load; service_config.cc:528 replaces `SERVICE_PORT` before `SERVICE_PORT1`. Texts of igniters and proxies have no state.
* *JSON lookups*, *death watch escalation*, *history of notifications*, *free ports*: small sequential
  algorithms; death watch and the port file appear with what their callers get from them.
* *HTTP API*: reads state and touches triggers; its touches are events of the models.
* *Usage collector, shell, web panel, logger*: input and output without decisions. *Dispel* is unfinished: received
  messages are only logged.
* In the modules: section 2 names what each leaves out.

## 7. Plan

Order is by importance to a user of TheSS.

1. *Done*: `ServiceLifecycle`, `HookPlan`, `Dependencies`, `Spawner`, `ServiceConfig`, `CronSitter` with `Crontab`, `Deployer`, with
   their runs and proofs.
2. *Done*: proofs of the properties of the graph of dependencies and of the meaning of fields. Left for the proofs: facts on
   the way to liveness (each object that sits can relaunch a dead service; a stop leaves no start behind it), and
   what the lists of a service hold between a reboot and `TreeRebuilt`.
3. The datastores of a deployment, with the pid files looked up under the wrong release.
4. The lists of the panel: selection, removal, dialogs, as one module.
5. Pure algorithms against reference definitions: death watch escalation, the history of
   notifications at its limit, substitution of igniter constants (prefixes of each other),
   fallback of JSON values, choice of free ports.
