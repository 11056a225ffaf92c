# TLA+ models of the world core (`src/src/game/World.cpp`)

This directory holds TLA+ models of the orchestration core of the server in
`src/src/game/World.cpp`, the TLC configurations that check them, and
`PROJECT.json`. `PROJECT.json` lists the components, runs, mutants, the
source lines each definition models, the findings and the hazards.

## 1. The system and its parts

`World` is a singleton driven by one thread, the world thread, which calls
`World::Update(diff)` once per server frame. Other threads reach it only through
two thread-safe handoff queues:

* `addSessQueue`: the network thread pushes newly authenticated sessions
  (`World::AddSession`, line 176).
* `cliCmdQueue`: the console and remote-access threads push commands
  (`QueueCliCommand`).

`World::Update` then works through these steps, in this order (lines 1641-1852):

1. Advance every `IntervalTimer`, clamping a negative one to 0 (1644-1650).
2. `_UpdateGameTime` advances the clock and drives the shutdown countdown (1653).
3. The periodic tasks: auctions, mail, the AH bot (1659-1680).
4. `UpdateSessions` (1683):
   * drain `addSessQueue` through `AddSession_`;
   * update every session;
   * remove the dead ones through `RemoveQueuedSession`, then erase them.
5. More periodic tasks: uptime, deleting old characters, the DB result queue,
   corpses, game events, auto-broadcast (1690-1742).
6. The maintenance-day restart check (1750-1764).
7. The battleground window state machine (1766-1803).
8. `ProcessCliCommands` (1805). CLI commands may call `KickPlayer`,
   `SetPlayerLimit`, `KickAllLess`, `ShutdownServ`, `ShutdownCancel`, `BanAccount`.

| part | state in the code | operations |
|---|---|---|
| Session directory | `m_sessions` (account → session), `m_QueuedSessions` (FIFO list), `addSessQueue`, session flags `inQueue` and `PlayerLoading` | `AddSession`, `AddSession_`, `RemoveSession`, `UpdateSessions`, `KickAll`, `KickAllLess`, `FindSession` |
| Admission controller | `m_playerLimit`, `m_maxActiveSessionCount`, `m_maxQueuedSessionCount` | `AddSession_` (admit or queue), `AddQueuedSession`, `RemoveQueuedSession` (dequeue and promote one, re-announce positions), `GetQueuedSessionPos`, `SetPlayerLimit`, `UpdateMaxSessionCounters` |
| Shutdown controller | `m_stopEvent`, `m_ShutdownTimer`, `m_ShutdownMask`, `m_ExitCode`, `m_gameTime` | `ShutdownServ`, `ShutdownCancel`, `_UpdateGameTime`, `ShutdownMsg` |
| Tick scheduler | `m_timers[WUPDATE_COUNT]`, `mail_timer`, `m_MaintenanceTimeChecker`, `m_NextMaintenanceDate`, `battleground_kaiguan` with its window times | `World::Update`, `InitServerMaintenanceCheck`, `ServerMaintenanceStart`, `SetHuoLia`/`SetHuoLib` |
| Configuration | `m_configUint32Values`, `m_configInt32Values` and related arrays | `LoadConfigSettings`, `setConfig*` clamps |
| Bans | `account_banned`, `ip_banned` rows | `BanAccount` (rows, then `FindSession` and `KickPlayer`), `RemoveBanAccount` |
| Everything else | database rows, packets, text | broadcasts, realm character counts, boss and guild records |

The parts interact in these ways:

* The shutdown controller reads the session count: an idle shutdown waits for
  `GetActiveAndQueuedSessionCount() == 0`.
* CLI commands and the maintenance check drive the shutdown controller and the
  admission controller.
* `World::Update` orders all of the above within one frame.

## 2. Modules

### `WorldSessions`: session directory and admission controller

**State.**

| variable | models |
|---|---|
| `smap` | `m_sessions`, as account → session id or `NoSession` |
| `queue` | `m_QueuedSessions`, as a sequence |
| `inQueue` | the `SetInQueue` flags |
| `addSessQueue` | the handoff queue |
| `closed` | a session kicked or whose socket has closed, so `Update` returns false |
| `loading` | `PlayerLoading()` |
| `authMsg` | the last `SMSG_AUTH_RESPONSE` each client received: `AuthOk`, or a queue position, 0 meaning promoted |
| `limit` | `m_playerLimit` |
| `maxActive`, `maxQueued` | the high-water marks |
| `born` | the set of session ids that have been handed over; a session id is used once |
| `banned` | the accounts with an active ban row |
| `stopping` | `CleanupsBeforeStop` has begun |

**Phase and cursor.** `phase` and `cursor` model the world thread's position
inside `UpdateSessions` and `ProcessCliCommands`:

* `"drain"`: `AddSession_` for each queued handoff, then `DrainDone`;
* `"update"`: `UpdateSession` visits account slots in order, as the map
  iterator does, and ends with `UpdateDone`;
* `"cli"`: the session commands run (kick, `KickAllLess`, `SetPlayerLimit`,
  `BanAccount`, `RemoveBanAccount`), then `CliDone`; or the world loop sees
  the stop event and `KickAll` begins `CleanupsBeforeStop`;
* `"halted"`: after the last `UpdateSessions` of a stop, the world thread
  has returned (`Halted`).

The network thread (`AddSession`) and clients (`ClientDisconnect`) act between
any two of these steps.

**Actions.** Each action models one whole handler:

* `AddSession_` includes the `RemoveSession` kick, the `RemoveQueuedSession`
  of the replaced session, the decrease rule, the queue test, the
  acknowledgement and `UpdateMaxSessionCounters`.
* `RemoveQueuedSession` is an operator that returns the new queue, whether it
  found the session, and the announcements it sends. It resets the in-queue
  flag of the removed session only when it found it in the queue, as the code
  does.
* `BanAccount(accts)` takes the accounts the ban's `SELECT` returned (a
  constant set `BanResults`; an empty result changes nothing). It marks them
  banned and kicks the session `FindSession` finds for each, unless its
  player is the ban's author (`BanAuthor`). `FindSession` searches
  `m_sessions` only. The authentication that refuses a banned account is in
  `WorldSocket`, outside this repository, and is modelled as the guard of
  `AddSession`.
* `KickAll` clears the queue without resetting the in-queue flags, kicks
  every listed session and starts the drain and update pass of
  `UpdateSessions(1)`; `UpdateDone` then goes to `"halted"`. The stop event
  belongs to the shutdown controller, so `KickAll` and `Halted` are not
  steps of `WorldSessions`' own `Next`: `WorldCore` takes them when
  `m_stopEvent` is set.

**Abstractions.** These parts are abstracted away:

* the per-session `WorldSession::Update`, reduced to "alive or not" and
  "loading or not";
* the realmlist population write, a database upsert.

### `AdmissionQueue`: what admission promises, and the refinement

`AdmissionQueue` is the abstract admission controller of spec §4.1: a set
`active`, a FIFO `waiting` and a capacity `Cap` (0 = unlimited). `Admit` puts
an arrival into `active` when it is privileged or there is room, and at the
back of `waiting` otherwise. `Leave` removes a session and promotes the head
of the queue when there is then room. `Reconnect` is a `Leave` of the old
session and an `Admit` of the new one in one step.

`WorldSessions` defines `AQ == INSTANCE AdmissionQueue WITH ...` with this
refinement mapping:

| abstract | `WorldSessions` |
|---|---|
| `active` | `Active`, the listed sessions not in `queue` |
| `waiting` | `queue` |
| `Privileged` | sessions of accounts above `SEC_PLAYER` |
| `Cap` | `GetPlayerAmountLimit` of the start-up limit |

`AdmissionQueueRefined == AQ!Spec` is checked as a `PROPERTY` in the
fixed-limit run. A deletion in the update pass is a `Leave`. A drain of a new
account is an `Admit`, and a drain that replaces an account's session is a
`Reconnect`. Kicks, bans, disconnects and the hand-off are stuttering steps.

The refinement holds only while the limit is fixed. `SetPlayerLimit` does not
promote anyone (the `sessions_fifo` finding), and `KickAll` turns queued
sessions into counted "active" ones. The core run therefore checks the
invariants instead.

### `WorldShutdown`: shutdown controller

**State.**

| variable | models |
|---|---|
| `stopEvent` | `m_stopEvent` |
| `shutdownTimer` | `m_ShutdownTimer` |
| `shutdownMask` | `m_ShutdownMask`, as a subset of `{"idle","restart"}` |
| `exitCode` | `m_ExitCode` |
| `sessionCount` | the value `GetActiveAndQueuedSessionCount()` returns; an input, changed by `SessionsChange` |
| `msg` | the last broadcast: kind, mask and the timer it showed |

**History variables.** These exist only so that properties can be stated:

* `requests` counts operator requests, bounded by `MaxRequests`;
* `requestDelay` is the delay of the last request;
* `realSince` counts real seconds since that request, capped at `RealCap`.

**Actions.**

* `ShutdownServ(time, options, code)` and `ShutdownCancel` are the calls
  themselves. `OperatorShutdown` is a CLI request: it counts the request and
  calls `ShutdownServ`. The maintenance check calls `ShutdownServ` directly.
* `UpdateGameTime(d)` is `_UpdateGameTime`. The wall clock advances by `d`
  seconds, and `elapsed` is `d % ClockModulus`, the uint32 cast, scaled down
  from 2^32 to 2^16 because TLC integers are 32-bit signed.
* `ShutdownMsgDue` is the five-way modulo test of `ShutdownMsg`.

### `WorldMaintenance`: weekly maintenance restart, composed with the shutdown controller

This module instantiates `WorldShutdown` (`SD == INSTANCE WorldShutdown`, with
the same variable names). It adds the following state:

| variable | models |
|---|---|
| `today` | `GetDateToday()` |
| `nextMaintDate` | `m_NextMaintenanceDate` |
| `storedDate` | the `NextMaintenanceDate` row of `saved_variables`, which survives a restart |
| `checker` | `m_MaintenanceTimeChecker` (ms) |
| `diff` | the diff of the update in progress |
| `phase` | `"time"` → `"sessions"` → `"maint"` → `"cli"` → back to `"time"`, or `"exited"` |

It also has three history variables: `startDay`, `restarts` and `cancels`.

* `Init` and `Restart` run `StartProcess`, which stands for `World::World` and
  `SetInitialWorldSettings`. `StartProcess` calls
  `InitServerMaintenanceCheck`, which calls `ServerMaintenanceStart`.
* `MaintenanceCheck` is the block at 1750-1764. It counts `checker` down by
  `diff` and calls `ShutdownServ(30, restart, 2)` when it runs out, then
  re-arms it with 600 000 ms.
* `CliCommand` is an operator's shutdown or cancel.
* `Restart` is the service manager starting the process again after exit
  code 2.
* `DayRollover` moves the date.
* `GetDateLastMaintenanceDay`, the service manager and the date are not in
  this file, so they are modelled from the spec.

### `WorldBattleground`: battleground windows

**State.**

| variable | models |
|---|---|
| `now` | game time, capped at `Horizon` |
| `kaiguan` | `battleground_kaiguan` |
| `bgTime` | the four in-memory times |
| `rows` | `characters_battleground` rows 1 and 3, or `NoRow` |

**Actions.**

* `Update` runs the four consecutive tests of 1766-1802 on the new time
  (`WindowStep` ×3, then `CycleEnd`). One update may take several steps.
* `SetHuoLib` writes the rows and the memory.
* `SetHuoLia` writes the rows only.
* `Restart` reads the times back with `GetBattleGroundTime`.

### `WorldTimers`: the interval timers and periodic tasks of `World::Update`

**State.**

| variable | models |
|---|---|
| `period`, `current` | the `IntervalTimer` interval and counter of each task |
| `tod` | the local time of day |
| `mailTimer` | `mail_timer` |
| `abOn` | `AutoBroadcast.On`, as last read |
| `nextid` | the static `nextid` of `SendBroadcast` |
| `sent` | the text the last update broadcast, or 0 |
| `mailReturned` | whether the last update called `ReturnOrDeleteOldMails` |

**Actions.**

* `Update` is one whole timer part of `World::Update`:
  * the clamp loop (`Advance`);
  * every task whose timer passed resets it;
  * the events task takes the next-event delay as its period;
  * the auctions task counts `mail_timer` and returns mail past
    `mail_timer_expires`;
  * the auto-broadcast runs only with `AutoBroadcast.On = 1`.
    `SendBroadcastRows` and `BroadcastSent` model the row choice, the
    `GetUInt8` truncation of `next` and `abcenter`.
* `ReloadConfig` is a config reload. `AutoBroadcast.On` changes, and the
  uptime timer takes the new interval and is reset (815-820).

**`IntervalTimer`.** `IntervalTimer` lives in `Timer.h`, outside this
repository, so it follows spec §3: a counter decreased by the elapsed time,
which fires at zero or below and is reset to the period. Whether a fresh timer
starts at 0 or at its period is the constant `InitArmed`.

### `WorldConfig`: configuration loading

One `LoadConfigSettings` call is one step (`Load`): the `Init` step at
start-up, over the values the constructor zeroed (103-115), and the
`Reload` step for `.reload config`. `ReloadFailed` is the early return when
the file cannot be read again (341-346). The state is:

* `config`: ten `m_configUint32Values` entries whose bounds are other
  entries, read in the code's order by `LoadSettings` (750-805): characters
  per realm and per account; max, start and GM start level; max and start
  honor; maintenance day; then `LoadOverspeedPings` (839-844, 0 or at least
  2) and `LoadCharDelete` (1045, bounded by the max level in force);
* `rates`: the `Rate.*` float family (386-640), read by `SetConfigPos`
  (`setConfigPos`: a negative value falls back to the default) or by the
  unchecked float `setConfig`. The model keeps three rates, among them
  `Rate.Creature.Aggro`, which the visibility block reads;
* `visibility`: the grey distances and the map and in-flight visibility
  distances with their clamps (`GreyDistance`, `MapDistance`,
  `LoadVisibility`, 980-1041);
* `forceLoadMapIds`: `m_configForceLoadMapIds` (689-698). A non-empty
  `LoadAllGridsOnMaps` replaces it by the parsed id set; an empty one leaves
  it as it was. `gridsEntry` is a history variable that records the entry
  last read, so that a property can compare the two.

The helpers are `SetConfigU32` (`setConfig`), `SetConfigMin`,
`SetConfigMinMax`, `ConfigNoReload`, `GetFloatDefault` and `SetConfigPos`.
A file is three parts: a record of raw uint32 values, a function of raw
float values, and the set of map ids. An entry may be missing (`NoEntry`).
Floats are whole numbers in the model: distances are in yards, and rates are
1 or a small integer. `MAX_VISIBILITY_DISTANCE` and the default distances are
defined in a header that is not in `src/`. They are constants, given the
upstream MaNGOS values (333, 90, 120, 180).

### `WorldCore`: the world loop, composing sessions and shutdown

`WorldCore` extends `WorldSessions` and instantiates `WorldShutdown` as
`SD`, with the controller's `sessionCount` mapped to
`ActiveAndQueuedCount` (the size of `m_sessions`). One `World::Update` is:

| action | code |
|---|---|
| `GameTimeStep` | `_UpdateGameTime` at the top of `Update` (1653), before the drain; `ticked` records that it ran |
| `SessionsStep` | the `WorldSessions` steps: drain (only after `GameTimeStep`), update pass, client and network-thread steps, kicks and limit changes |
| `CliShutdownCommand` | `ProcessCliCommands` (1804) running an operator's `ShutdownServ` or `ShutdownCancel` |
| `LoopTest` | the world loop's test of `m_stopEvent` after `Update`: the next `Update`, or `CleanupsBeforeStop` (`KickAll`, 142-144) |
| `CoreHalted` | the world thread has returned |

Clients and the network thread still act between any two steps. The
timers, maintenance and battleground steps of `Update` are left to their
own modules: they do not touch sessions or the shutdown state except
through `ShutdownServ`, which `WorldMaintenance` composes separately.

## 3. Runs

| run | cfg | expect | what it shows |
|---|---|---|---|
| sessions_fixed | `MCWorldSessions.cfg` | pass | Limit 1, 4 sessions on 3 accounts (one a moderator; s4 reconnects account 1), and an IP ban of accounts 2 and 3 issued by the player of account 3. Every reachable interleaving of handoff, drain, update, disconnect, kick, ban, unban and reconnect keeps `QueueOnlyWhenFull`, `PeaksCoverCurrent` and `AuthStateReported` (two players can wait behind the moderator), and is a behaviour of `AdmissionQueue` (`AdmissionQueueRefined`). About 272 k states, 1 min. |
| core | `MCWorldCore.cfg` | pass | `WorldCore` with two players under limit 1, which the operator may lift (0) or turn into a security level (-5), kicks below level 1, and one shutdown command (delay 0 or 1 s, plain or idle-mode, exit code 2) that may be cancelled. Checks `QueueConsistent`, `AdmissionRespectsLimit` and `ShutdownReachesExit`. About 38 k states, 15 s. |
| core_idle_stop | `MCWorldCoreIdle.cfg` | violation | `IdleStopKicksNobody`: s1 is handed off, an idle-mode shutdown due now is accepted with `m_sessions` empty, the next `_UpdateGameTime` sets `m_stopEvent`, the drain of the same `Update` admits s1, and `KickAll` kicks it. |
| sessions_ban | `MCWorldSessionsBan.cfg` | violation | `BannedKicked`: s2 is handed off, then the ban of accounts 2 and 3 runs in the CLI step and finds nothing in `m_sessions`. The next drain admits s2 for banned account 2. |
| sessions_fifo | `MCWorldSessionsFifo.cfg` | violation | `NoQueueJumping`: after `SetPlayerLimit(0)`, a newcomer is admitted while a queued player still waits. |
| shutdown | `MCWorldShutdown.cfg` | pass | Delays {0, 3, 320 s}; masks {}, {restart}, {idle}; a 1 s clock. The stop is final with its exit code, nothing stops before its delay, and an uncancelled countdown ends in the stop. About 2.6 M states. |
| shutdown_clock_back | `MCWorldShutdownClockBack.cfg` | violation | `ShutdownNotEarly`: a clock step of -1 s wraps `elapsed`, and the world stops at once. |
| maintenance | `MCWorldMaintenance.cfg` | pass | The stored-date choices (a past date, a future date and no row) on days 10-11, with maintenance on day 11, one restart and up to two operator cancels. A restart never starts with its maintenance already due (`NoRestartLoop`), and on maintenance day the world exits however operators cancel (`MaintenanceRestarts`). About 393 k states, 30 s. |
| battleground | `MCWorldBattleground.cfg` | pass | Missing rows, rows at (1,1,1) or today's schedule; rescheduling by `SetHuoLib`/`SetHuoLia` and a restart. An open window always closes (`WindowsClose`). |
| timers | `MCWorldTimers.cfg` | pass | 20-minute and 1-hour updates, config reloads toggling auto-broadcast and the uptime interval. Counters stay within one diff below zero (`TypeOK`), and broadcasts continue once auto-broadcast stays on (`AutoBroadcastContinues`). About 78 k states, 1 min. |
| timers_mail | `MCWorldTimersMail.cfg` | violation | `MailReturnInWindow`: a world started at 04:59 with 1-minute updates first returns mail at 05:00 the next day. |
| config | `MCWorldConfig.cfg` | pass | Every combination of missing, negative and out-of-range entries, a negative rate, and a map list that is set or emptied, at start-up and on every reload: `ConfigConsistent`. About 1.2 M transitions, 384 states, under 1 min. |

### Properties

**`WorldSessions`**

* `QueueConsistent`: the queue has no duplicates, and holds only listed
  sessions that carry the in-queue flag. A listed session off the queue keeps
  the flag only if it has been kicked, which is the stale flag `KickAll`
  leaves.
* `AuthStateReported`: every queued client's last message is its true 1-based
  position, and every open active client has been admitted.
* `AdmissionRespectsLimit`: no step makes a plain player active beyond a
  positive limit.
* `QueueOnlyWhenFull`: nobody waits while a slot is free.
* `PeaksCoverCurrent`: the high-water marks are at least the current counts.
  It holds under a fixed limit. After the limit is raised, a promotion by
  `RemoveQueuedSession` (which does not call `UpdateMaxSessionCounters`)
  can exceed `m_maxActiveSessionCount`; no run keeps that case (hazard 318).
* `NoQueueJumping`: a newly listed player is admitted directly only when the
  queue is empty.
* `BannedKicked`: no account with an active ban (other than the author's)
  keeps a listed session with an open socket. This is the comment "Disconnect
  all affected players" in `BanAccount`.
* `AdmissionQueueRefined`: `AQ!Spec`, the refinement above.

**`WorldCore`**

* `ShutdownReachesExit`: a counting non-idle shutdown that no further
  command can replace ends in the world thread's return unless it is
  cancelled. This ties the countdown, the loop test, `KickAll` and the last
  `UpdateSessions` together.
* `IdleStopKicksNobody`: when the stop of an idle-mode shutdown kicks,
  `m_sessions` is empty (spec §4.3). It fails; see the core_idle_stop run.

**`WorldShutdown`**

* `StopIsFinal`: once `stopEvent` is set, it stays set and the exit code does
  not change.
* `ShutdownNotEarly`: the stop comes no earlier than the requested delay in
  real seconds.
* `ShutdownCompletes`: under weak fairness of the tick, a counting
  non-idle shutdown ends in the stop unless it is cancelled.

**`WorldMaintenance`**

* `NoRestartLoop`: the maintenance date of a running process is after its
  start day.
* `MaintenanceRestarts`: on or after the maintenance date, the world
  eventually exits.

**`WorldBattleground`**

* `WindowsClose`: `kaiguan` leaves 1 and 3.

**`WorldTimers`**

* `AutoBroadcastContinues`: `<>[](abOn = 1) => []<>(sent # 0)`.
* `MailReturnInWindow`: mail is returned only between 4 and 5 am.

**`WorldConfig`**

* `ConfigConsistent`: the dependent entries respect each other's bounds.
* `VisibilityWithinMax` and `ForceLoadFollowsFile` are checked by two
  further configs, `MCWorldConfigVisibility.cfg` and
  `MCWorldConfigGrids.cfg`. These are not in the run list, and TLC finds
  both violated:
  * **Visibility.** With `Rate.Creature.Aggro = 8` in the file, the start-up
    load raises Continents, Instances and BG to the aggro radius 360. The
    `else if` at 1004 then never applies the upper clamp, so each distance
    plus the grey unit distance is 361 > 333. With `Visibility.Distance.Grey.Unit
    = 300`, the upper clamp instead lowers Continents from 90 to 33, below the
    aggro radius 45. Both contradict the block's own log lines.
  * **Force-loaded grids.** The file lists map 1, so start-up sets
    `m_configForceLoadMapIds = {1}`. The operator empties
    `LoadAllGridsOnMaps` and reloads: the entry is empty, line 690 skips the
    block, and map 1 stays force-loaded. The old set is also never freed when
    a non-empty entry replaces it (line 692).

### Bounds

**Sessions.**

* Four session ids over three accounts allow a reconnect (s4 replaces s1),
  and a queue of two behind the moderator. A fifth session (s5, a reconnect
  of account 2) raises the fixed run to 1 M states and more than 3 minutes
  with the refinement, and adds no new case.
* One ban of two accounts covers the kick and the author exemption.
* A limit of 1 puts a queue behind one active player.
* A moderator account exercises the privileged bypass.
* Longer queues repeat the same cases.

**Core.**

* Two players under limit 1 give an active player and a queued one, a
  promotion, and a kicked queued session with a stale in-queue flag. The
  moderator and reconnects are covered by sessions_fixed; adding them here
  multiplies the state space by ten.
* Delay 1 s expires at the next tick, so the countdown, the idle poll at
  `m_ShutdownTimer = 1` and the stop all happen. Delay 0 covers the
  immediate path.
* `MaxRequests = 1` makes `ShutdownReachesExit` apply once the one command
  has been issued.

**Shutdown.**

* `realSince` is capped at the largest delay plus one, which is enough
  for `ShutdownNotEarly` (it compares it with the delay) and keeps it
  from growing while an idle shutdown polls.
* The 320 s delay crosses the 300 s (5-minute) announcement and the 15 s
  ones below it, so `ShutdownMsg` sends time messages. With 1 s ticks every
  milestone is met, so nothing is claimed about announcements: a tick longer
  than a second skips them (hazard at 2090), and that case is not modelled.
* The 3 s delay covers the short path.
* A delay of 0 covers the immediate and idle-poll paths.
* `MaxRequests = 2` allows a request after a cancel, and a request while
  counting.
* `MaxSessions = 1` is enough for the idle test.

**Maintenance.**

* Updates of 10 s and a 1000 ms initial checker fire the request on the first
  maintenance-day update. The 600 s re-arm takes 60 updates.
* Two cancels let operators defeat the request twice before the re-check.
* Days 10-11 cover the day before maintenance and the maintenance day.
* Stored dates 4 and 11 are a past maintenance date and the coming one.

**Battleground.**

* Bases 0 and 10, two offset tables, and steps of 1 and 3 s cover hitting a
  time exactly, jumping past one, and jumping past two in one update.

**Timers.**

* The pass run projects out `tod` and `mailTimer` with `VIEW TimersView`.
  Nothing else in the module reads them, so states that differ only in them
  have the same successors for the other variables, and the properties do
  not mention them. Without the view, the 1440 × 1441 cycle of the clock and
  the mail counter makes the graph 35 k updates deep.
* `AutoBroadcastContinues` depends on a well-formed table. With
  `ABTable <- MCABDangling` (a `next` of 300, truncated to 44, a missing
  row), it fails, because `SendBroadcast` returns at 2337 without moving
  `nextid`. That run is not kept, for want of a run slot.
* The mail run likewise projects out everything except `tod`, `mailTimer`,
  `mailReturned` and the auctions counter (`MailView`). Nothing else writes
  them.

**Config.**

* Each entry has one to three raw values: missing, in range, and out of range
  or negative. Each value is one the properties or mutants need: a start
  level above a max level of 40, a CharDelete level of 59, a negative max
  honor, an overspeed limit of 1, a negative `Rate.Health`, and the map
  lists {} and {1}. This gives 3072 files at start-up and on each reload.
* The visibility entries stay missing in the pass run, where nothing is
  claimed of them. `MCWorldConfigVisibility.cfg` varies them instead, with
  the uint32 entries missing. Nothing in the visibility block reads a uint32
  entry.

**Mutants.** Each property of a passing run has a mutant in `PROJECT.json`: a
plausible bug in the definition it names. The mutant is defined just before
that definition, and TLC finds the property violated with the mutant in place.

## 4. Fairness

* **Shutdown.** `WF_vars(~stopEvent /\ Tick)`. The world thread calls
  `Update` in an endless loop (`WorldRunnable`) until `m_stopEvent`, so a
  tick is always eventually taken. Operator actions are not fair: an operator
  may never act.
* **Maintenance.** `WF_vars(WorldStep)`, which covers the steps of one
  `World::Update`, for the same reason. `WF_vars(Restart)` stands for the
  service manager that restarts on exit code 2, an assumption about the
  deployment. CLI commands and day changes are not fair.
* **Battleground and timers.** `WF_vars(Update)` only. Rescheduling, restarts
  and config reloads need not happen.
* **Sessions.** `WF_vars(WorldThread)`, covering the drain and update steps
  of the world thread, for the same reason. Clients, the network thread and
  operators are not fair. Nothing is claimed about promotion, which needs a
  client to leave.
* **Core.** `WF_coreVars(WorldLoop)`: `GameTimeStep`, the drain and update
  steps and `LoopTest`, the steps the world thread takes without waiting
  for anyone. `ShutdownReachesExit` needs nothing more.

## 5. Not modelled, and why

* **`SetInitialWorldSettings`, the bulk of the `LoadConfigSettings` list,
  text broadcasts, database helpers.**
  * Static content loading is I/O with no interleaving or state machine.
  * The other config entries (bool, int32, anticheat and the remaining
    uint32 values, DataDir, vmap/mmap switches) are each read once and
    bounded by nothing else, through the helpers `WorldConfig` already
    models. The `sMapMgr` calls of a reload lie outside this file.
  * `SetPlayerLimit` at line 373 is modelled in `WorldSessions`.
  * The database helpers (boss and guild records, `GetTaqWuZhi`,
    `UpdateRealmCharCount`) are single queries or inserts, and their effect
    lies in the SQL servers. Two of their hazards are listed in
    `PROJECT.json`:
    * `SetBossId` writes through `CharacterDatabase` asynchronously, while
      `WorldBossId` reads through `LoginDatabase`;
    * `ChaXunTeam_IdBossFd` leaks its result.
* **Bans.** The SQL text and escaping are left out, and so is the
  difference between IP, account and character bans, beyond the set of
  accounts a ban hits.
* **A session handed off during the stop.** The final drain can admit it
  after `KickAll`, and it then stays open until `~World` deletes it. This is
  reachable in the core run. No property is stated, because the code says
  nothing about it.
* **The tasks' external effects** (auction, corpse, map, battleground and
  event managers). These lie outside this file. `WorldTimers` keeps only when
  each task fires and the state this file holds.
* **`WorldSession::Update` internals, packets, and the socket thread's use of
  a deleted session (the NOTE at line 186).** These lie outside this file.
* **Floating-point population.** It is not used by control flow.
