# A verification development of the Resident

This directory holds a TLA+ model of the Resident (`src/backend/src/resident`), the TLC
configurations that check it on small instances and the TLAPS proofs of the properties that
matter most. The model is written from the code; the ADRs in `src/docs` and the comments of the
code supply the claims the code is compared with.

## 1. The system

The Resident is one Python process. A FastAPI application (`main.py`) and a background scheduler
share **one asyncio event loop**; endpoints written as plain `def` run in FastAPI's **worker
threads** beside it (answering a permission ask is one of them). Everything durable is in **one
append-only SQLite event store**, and every component derives what it knows from it by bounded
scans, so there are three sources of difficulty: stretches of coroutines between two awaits that
interleave, several writers on the store, and a process that may die between any two appends.
Inside a wake, a sleep or an opening of the world's window there is no await, so these do not
interleave with each other or with a chat; worker threads, the clock, failing appends and crashes
come between any two of their appends. A second program, the agent `py-claw`, is started for each
deed and talks to the runner through its pipes.

| component | state it keeps | operations that change it | what makes it correct |
|---|---|---|---|
| `agency/service.py` | the lock, the ask observer; else only the store | `intake`, `recover_open_deeds`, `answer_permission_ask` | a deed starts at most once and ends exactly once; it is remembered once; a repeated submission is answered from the store; recovery closes what a crash left open |
| `agency/runner.py` | `_live_asks`, `_answer_queue`, one child process, its reader task | `run`, `_host_loop`, `_answer_can_use_tool`, `submit_permission_answer` | an ask is allowed only by its own owner's answer; every ask is settled once; no child outlives its run; while its reader lives the child is not blocked on its stdout |
| `agency/policy.py` | none (grants are read at start-up) | `evaluate` | declaration is not authorization |
| `event_store.py` | the `events` table | `append` | append-only; seq is a total order; readers see a window of it |
| `main.py` | the mounted components | lifespan, endpoints | recovery runs before the first request and never blocks start-up |
| `circadian.py` | the state of the rhythm (in memory, reconstructed from the log) | `beat`, `assess`, `begin_/end_consolidation` | in-memory state and log agree; sleep is left only by an external stimulus or the morning; a message wakes promptly; neither sleep nor waking is for good |
| `scheduler.py` | the loop task, the poke, `_in_flight`, `_stopping` | `start`, `stop`, `tick`, `request_wake` | one beat at a time, no loop without an owner, no poke lost, a stop ends |
| `mind_loop.py`, `mental_state.py` | nothing durable outside the store; threads are a fold over the log | `wake_once` | a thread goes through its life; what nobody touches is put to rest |
| `sleep.py` | none | `sleep_once` | a cycle may stop anywhere; what two appends make is left half made at most once per interruption |
| `reentry.py`, `continuity.py` | none | `promote`, `run`, `on_user_return` | a thought is promoted once and only when reflected on later; an absence is true, recorded, and tells of nothing twice |
| `world.py` | observations, impressions and questions in the store | `maybe_open` | the day's rails; an impression is spent on a thought; a question that died is not met again |
| `private_projects.py` | projects in the store | `check_genesis` | a question that was met often enough becomes a project, once |
| `self_revival.py`, `self_dynamics.py`, `route_policy.py`, `world_source.py`, `world_corpus.py`, `web_fetch.py` | none | scores, draws and fetches | choices and I/O |
| `memory*.py`, `semantic.py`, `vector_cache.py`, `providers.py` | caches | recall | numeric, outside the scope |
| `monitor.py`, `telemetry.py`, `profiles.py`, `*_sim.py`, `origin.py`, `meta_prefixes.py`, `models.py` | none | reports, configuration, drivers | read-only |
| `py-claw/` (`cli/main.py`, `cli/structured_io.py`, `query/engine.py`) | the requests it has sent, the characters it has read | one turn with its tool calls and asks | a tool runs only on an allow; an ask never blocks the turn |
| `frontend/`, `backend/scripts/` | - | - | a view and scripts |

How they interact: the scheduler calls the orchestrator's `beat`; a beat calls `wake_once` or
`sleep_once`, and hands an intent a wake proposed to `AgencyService.intake` as a background task;
`POST /api/agency/intent` calls the same `intake`; `intake` calls `PyClawRunner.run` under the
lock; the runner calls back into the store through its ask observer; the WebUI lists live asks and
posts answers into the runner's queue; at start-up the lifespan calls `recover_open_deeds`. After its
wake a beat promotes thoughts (`ReentryEngine.promote`) and may open the world's window; a wake that
stored a thought checks for the genesis of a project; a chat ends with `ContinuityEngine.on_user_return`.

The behaviours that are hard to test are listed, each at its line, under `hazards` in
`PROJECT.json`, with the properties that would catch it, or the reason why none does.

## 2. Modules

| module | models | state |
|---|---|---|
| `Agency` | `agency/service.py` with the gate of `policy.py`, the store as it uses it, the lifespan's recovery | `log`, the process's `mode`, one program counter per task, the lock (`holder`, `queue`), the recovery's progress `rec`, the clock |
| `DeedLifecycle` | the abstract specification: what the agency promises about one deed | `life`, each proposed deed's status and whether it is remembered |
| `MCAgency` | the instance of `Agency` for TLC (its symmetry) | - |
| `PermissionChannel` | `agency/runner.py`'s host loop, reader, asks and answers; the owner's POST threads; py-claw's permission channel and turn | `host`, `child`, its `outbox`, `pipe`, `stdin` and `buffer`, the `reader` and its `outq`, `ask`, `live`, `answers` and the `getter` on them, `owner`, the event `trail` |
| `Scheduler` | `scheduler.py`'s `CircadianScheduler`, the scheduler endpoints and the chat's poke | each loop task's place `lp` and pending cancellation, `task`, `stopping`, `poke`, `inFlight`, who waits in `stop` |
| `Rhythm` | the abstract specification of the circadian states: what ADR-0007 promises, with no evidence, clock or log | `rhythm`, the one state |
| `InnerLife` | the abstract specification of the mind's material: the life of threads and of impressions, with no engine, log or process | `life`, `impressions` |
| `Circadian` | `circadian.py`: the state machine and the orchestrator's beat | `state`, the last recorded change, the ages of the events the decision reads, the hour, the beat's `phase` |
| `Mind` | `mind_loop.py`, `mental_state.py`, `sleep.py` and `world.py`'s openings: who writes threads, impressions and thoughts | each thread's `life` and how far back its last event lies, the day's tallies as they are and as the counters see them, `impressions`, the engine at work (`phase`, `job`) |
| `Returning` | `reentry.py`, `continuity.py`'s absence, as the beat and the chat call them | the number of `thoughts`, the `pool` of events since the last message, the `sources` of candidates, `messages`, `absences` |
| `Questions` | the life of the world's questions: `world.py`, `continuity.py`'s facts, `private_projects.py` | `impressions`, `questions`, `meetings`, `projects`, `messages`, `absences`, the step of the loop |
| `PermissionChannelProofs`, `SchedulerProofs`, `CircadianProofs`, `MindProofs`, `ReturningProofs`, `QuestionsProofs` | - | the theorems about them |
| `ExtremaTheorems` | - | facts about `Min` and `Max` of finite sets of integers |
| `AgencyProofs` | - | the theorems about `Agency`, and that it implements `DeedLifecycle` (the mapping, `RefinesLifecycle`, is in `Agency`) |

**Agency.** An event's id is its position in `log`; a deed is named by its `intent.proposed`
event, and every other event names what caused it. One action is one stretch of `intake` between
two appends or awaits: `Propose`, then `Reject` (policy) or `Admit`/`Acquire` (the lock, first come
first served as in asyncio), `Start`, `RunReturns`, `Record`, `Anchor`; `Deduplicate` answers a
repeated submission. Code without an await is not interleaved with other tasks: `LoopFree` is the
guard of every step that begins after an await. Appends by worker threads (`OtherAppend`), a
raising append (`AppendFails`), the clock and `Crash` may come in between. `Restart` is the
lifespan: the grants may have changed, the recovery takes **one** snapshot and works through it
with `RecoverClose`, `RecoverAnchor`, `RecoverTurn`, `RecoverBackfill`, `RecoverDone`; a raising
append ends it (`RecoverFails`) and the application comes up anyway. Lookups are bounded like the
code's: `Scan(n)` is the newest `DeedScan` events of a log of length `n`, `RecentIntents` the newest
`IntentScan` intents. Identity of texts is data: an `ident` is a normalised (text, capability)
pair, and an intent whose capability is not granted is rejected.

**PermissionChannel.** The host loop reads lines from the queue that the reader task fills from the
child's bounded pipe. An ask is registered and recorded (`HostAsks`), then settled exactly once: by
an answer of the owner (`NextAnswer`, which discards stale answers), by its own timeout
(`AskExpires`), or by the wall clock of the run (`WallClock`). A POST is three steps of a worker
thread: the service's membership test, the runner's own test, the put. `answers` outlives an ask
and a run, as the code's queue does. It is an `asyncio.Queue`, which is not made for threads, so its
`get` is not one step: the loop finds the queue empty, then registers its getter (`HostLooks`), and
`Deliver` wakes the getter only if it is registered by then. (That the loop's own selector wakes up is
seen to by the return of the POST, which the thread pool hands back to the loop.)
The reader task dies on a line over the `StreamReader`'s 64 KiB, which a tool call with a large input
or a long message may be (kind "long"): it puts the sentinel of an end of stream although the child is
alive, and reads no more (`ReaderStops`). The host then closes the child's stdin, and a child that waits
reads what is left and is denied at the end (`ChildHearsEnd`). The child is py-claw: for each tool call that needs the host it
flushes its queue of requests (`ChildAsks`), which it never clears, so the earlier asks go out again
and the host asks the owner again; then it waits, reading its stdin `Chunk` places at a time
(`ChildFills`) and swallowing the responses to other requests (`ChildHears`). A response is as many
places as it is long and only its last place says which it is; this is all the channel does with
characters. The messages of a turn come out at its end, because the engine's list of them is filled
before the first is written. Timers may fire at any moment, the child may die at any moment, and
each append of the observer may raise.

**Scheduler.** One action is what runs between two awaits of the loop, `tick`, `start`, `stop`. Loop
tasks are names used again once the task is done and nobody waits for it, so no counter bounds a
run: starts, stops, messages and timeouts may come for ever. The model runs ready callbacks in any
order (asyncio takes them first come, first served), which only adds behaviours. What a cancellation
does to a wait whose inner future is done is a choice of two: Python 3.11 returns from `wait_for`
and loses it, 3.12 raises it, and `pyproject.toml` admits both. The chat endpoint has no await, so
storing the message and asking for the poke are one step; the poke itself is a later callback.

**Circadian.** Time is a clock of `Day` ticks and an age for each kind of event the decision reads,
capped at the largest age it tells apart. Thresholds and windows are constants; `Decide` keeps the
code's order of tests and its arithmetic, with the bias and the resistance of threads as exact
fractions (`SilentFor`). Wake density and the number of active threads are the mind's, and a beat
may find any. A beat is `Assess`, then nothing, a `Wake`, or `begin_consolidation`, `Sleep`,
`end_consolidation`; each may raise, which ends the beat, and the process may die between any two.
Messages, the agency's experiences, other meaningful events and manual wakes come in between. Beats
run once a minute, far more often than any threshold, so the clock waits for a beat per tick while
the process is up.

**Mind.** Threads are kept as `MentalState` folds them from the log: `created`, `activated` (which a
revisit also means), `dormant`. Of the log itself a sleep reads which threads have their last event
outside the newest `Recent` events, so `since` counts the events after a thread's last one, and the
counters of the day read the oldest `Window` events of a type, so `counted` stops growing when
`stored` has outgrown it, while `today` goes on. An engine's `phase` is what it appends next; an
append that raises or a crash (`AppendFails`, `Crash`) ends it between any two. What a draw, a
similarity or the model's reply decides is a choice. The clock may turn the day between two steps.

**Returning.** A thought is a number in the order of the log; an event of the pool is the set of
thoughts it genuinely reflects on. Promotion reads the oldest `Window` thoughts, the newest `Window`
candidates and the oldest `PoolWindow` events stamped strictly after the last message, as the code
does. `Considers` takes its picks, `Promotes` stores them one by one and looks again each time.
`POST /api/reentry` runs in a worker thread, so it may store events at any moment. A stretch of
bookkeeping between two modelled events is one event of the pool, and thoughts are private, the
visibility they have unless the model chooses another.

**Questions.** One opening is `Opens` (what is observed, and the thought if one forms), `Meets` for each
open question of the topic, then perhaps `AsksOfTension` or `AsksOfGap`; the clock may move between
the steps, while the list of open questions was taken at the first. Dormancy is derived at any stamp
from the whole log, never stored. `Returns` compares two derivations, at the stamps of two messages,
and stores a first part of the facts of each class, since those of others take up places, the search of
the gap stops after 2000 events, and an interruption may end it. Both features are switched on; draws and the day's cap are choices.

## 3. What TLC checks

`CHECK_DEADLOCK FALSE` appears in every configuration because every model has bounds (deeds, posts,
crashes, faults, clock) after which it rightly stops.

| run | question | bounds |
|---|---|---|
| `agency_crash` | Can crashes at any point, also within recoveries, and one failing append give a deed a second start, terminal or anchor? Does every step refine `DeedLifecycle`, does every proposed deed end and is every executed one remembered? | `FairSpec`, 2 tasks, 2 idents, 2 deeds, 3 crashes, 1 fault |
| `agency_scan` | With a scan of 4 events, an intent scan of 2 and a window that passes: do executions stay serial, has `in_flight` a live task behind it; do lookups tell the truth, is an intent repeated or a key put on a second deed only beyond the limits; does a recovery close everything its scan covers? | 3 tasks, 1 ident, 1 key, 3 deeds, 1 other event, a window of 1 tick, clock to 2, 1 crash, 1 fault |
| `permission_channel` | Does the child act only on the owner's own allow, are asks and answers paired, does a run leave neither a child nor a listed ask behind; is the pipe drained while the reader lives, and does the right answer get through unless its put fell into the gap before the getter's registration? | 2 asks, 2 owners, 2 runs, 2 posts, 1 fault, a pipe of 1 line, chunks of 2 places, responses of 1 or 2 |
| `scheduler` | Do overlapping starts, stops and pokes keep beats apart, leave no loop without an owner, lose no poke, and does a stop that no start overlaps return? | 3 loop tasks alive at once, 2 stops at once, no bound on their number |
| `circadian` | Do memory and log agree, does a message wake promptly, does every night end, and does a mind left alone sleep? | a day of 6 ticks, thresholds scaled to 1 to 4 ticks, up to 3 threads, 1 fault, 1 crash |
| `mind` | Do the day's rails hold while the counters see the whole log, does an interruption leave at most one half-done pair, is a thread nobody touches put to rest? | `FairSpec`, 1 self thread, 1 topic, a day of 2 ticks, rails of 1, counters that list 2, a recent window of 3, 1 impression, 1 interruption |
| `returning` | Is a thought promoted once, does what is due surface, is an absence true and recorded? | `FairSpec`, 3 thoughts, windows of 2, a pool of 4, one promotion a beat, 4 messages of which the search lists 2, clock to 3, 1 interruption |
| `questions` | Is the owner told of each meeting and each death once, and is a question told dead never met again? | 1 topic, 2 questions, 2 meetings, 3 messages of which the search lists 2, 2 facts a return, clock to 4, 1 interruption |
| `agency_key_retry`, `circadian_stable`, `permission_wait`, `questions_genesis` | the four disagreements at the head of section 5 | - |

Why the bounds suffice: two tasks are the least that contend and three the least that queue
behind a waiter; three crashes let a process die in intake, in the recovery from that, and in the
recovery from that one; the scan of 4 is smaller than one deed's four events plus anything else, so
every way of cutting a deed in two occurs; two asks and two runs are the least for a stale answer
from an earlier ask and from an earlier run; a pipe of one line is full whenever it is not empty; a
chunk of two places is shorter than two responses and longer than one, so a read ends within a
response, at its end, and waits for more than there is.
Windows of two over logs of three and four events are cut on either side of the event that matters;
a promotion of one a beat makes each due thought wait for the others; a rail of one is reached by the
first opening; four messages give two absences with a message between or beyond what the search lists.
Three loops and two stops are what it takes for an old loop, the one that replaced it and that one's
replacement to be alive together. The day of 6 ticks has a night of half its length, a morning, a
silence long enough for each state and an extra thread that delays sleep by a tick, and the cadence
of no state is so short that it would hide a lost prompt wake.
For every safety property of section 4 the proofs remove the bounds altogether.

**Fairness.** `Agency!FairSpec` assumes that the event loop runs a ready task (asyncio does), that
a run returns (`asyncio.wait_for` with the wall-clock budget ends it, save in the case of section 5
where the kill that follows does not return; then `EveryDeedEnds` waits for the restart), that the recovery proceeds
(a synchronous loop) and that a dead process is started again. Clients, other writers, the clock,
failing appends and crashes are not fair. `PermissionChannel!FairSpec` is fair only to the event
loop (the reader and the host loop): no timer has to fire, no owner has to answer, and the child
owes nothing. It does not assume that a put wakes the host loop, only that a loop which is not asleep on
its getter goes on; nor that `proc.wait()` after a kill returns while a dead reader has left the pipe
full (`Reapable`). `HeedfulSpec`, for `permission_wait` only, adds that a child which can write or read
does so; it has no fairness for the host's wall clock, because the question is whether the child's
wait ends by itself.

`Scheduler!FairSpec` is fair to the event loop only. `Circadian!FairSpec` assumes that beats
run, that a dead process is restarted and that time passes; `Tick` gets strong fairness because it
waits for the beat in progress, which may be so at any moment one looks. `Mind!FairSpec` assumes that
an engine which has begun goes on (there is no await in it) and that a dead process is restarted;
that sleeps come again and again is the premise of `IdleThreadsRest`, not an assumption.
`Returning!FairSpec` assumes that beats come, that the loop goes on with what it has begun and that a
dead process is restarted; the owner need not speak.

Each property has a mutant: a plausible bug in a modelled definition (kept beside it, marked
`Mutant`) under which the same run finds the property violated.

## 4. What is proved

`AgencyProofs` proves for all values of the constants (any number of tasks, intents, keys, crashes,
faults, any scan bound), from `AgencyAssumption` alone:

- `TypeCorrect`: `Spec => []TypeOK`
- `InvariantHolds`: `Spec => []IInv`
- `OneTerminalAlways`: `Spec => []OneTerminal`
- `OneStartAlways`: `Spec => []OneStart`
- `StoreAppendOnly`: `Spec => AppendOnly`, which is left to the proof and has no run of its own
- `OneAnchorAlways`: `Spec => []OneAnchor`
- `ScanAlwaysHonest`: `Spec => []ScanHonest`
- `RecoveryClosesAlways`: `Spec => RecoveryCloses`
- `SerialAlways`, `InFlightAlwaysLive`: `Spec => []SerialDeeds`, `Spec => []InFlightIsLive`
- `KeyAlwaysOnce`, `NeverRepeated`: `Spec => []KeyRecordedOnce`, `Spec => []NoRepeatedDeed`
- `ImplementsLifecycle`: `Spec => AnyLife!Spec`, where `AnyLife` is `DeedLifecycle` with all natural
  numbers as deeds
- `LogBounded`: `Spec => [](Len(log) <= MaxEvents)`, with `MaxEvents == 4 * MaxDeeds + MaxNoise`
- `RefinesLifecycleAlways`: `Spec => RefinesLifecycle`, the run's own property, whose deeds are `1 .. MaxEvents`

`OneTerminal` is not inductive: nothing in it says that the task about to record an outcome is the
only one that may, or that the recovery's snapshot, taken when the log was shorter, still tells the
truth about the deed it is about to close. The strengthening `IInv` adds

- `LinksBack`, `SingleStart`, `StartFirst`: the shape of the causal links. A terminal cites an
  intent or that intent's start, so `DeedOf` is well defined and never changes;
- `TasksOwn`: a task between its intent and its terminal owns a deed that has not ended (and, before
  its start, not started), no two own the same one, and nobody owns any while the process is not up;
- `WaitersQueued`: who is handed the lock had been waiting for it;
- `RecoveryBehind`: since its snapshot the recovery has ended only deeds at or before its cursor,
  so a deed after the cursor that the snapshot shows open *is* open.

That `TerminalIn = 0` over a **bounded** scan implies that the deed has no terminal at all (lemma
`OpenUnended`) is the argument of the comment at `_DEED_SCAN_LIMIT`: everything that could end a
deed lies after it, and the scan is closed upwards. The store's part is proved once for each kind of
append (`PutNeutral`, `PutIntent`, `PutStart`, `PutEnd`) and used by every action. The existence of
the least and greatest element of a finite set, on which `First` and `Last` rest, is proved in
`ExtremaTheorems` from the well-foundedness of the strict subset ordering.

The other properties have strengthenings of their own on top of `IInv`:

- `AnchorInv`, for `OneAnchor`: every anchor cites an outcome before it; a task that is about to remember
  an outcome is the only one to do so and nobody has done it yet (`TermsOwn`); and since its snapshot
  the recovery has anchored only outcomes of its own and those of the snapshot behind its cursor
  (`AnchorsBehind`), so that neither of its passes repeats what intake or the other pass did.
- `ClosedBehind`, for `RecoveryCloses`: what lies behind the cursor has ended, in the second pass also
  been remembered; at the end of each pass the cursor has passed the whole scan.
- `LockInv` and `LiveInv`, for `SerialDeeds` and `InFlightIsLive`: a run is in progress only under the
  lock, only one task at a time is between two awaits, and while nothing has failed every open deed in view
  has a task that works on it.
- `Stamps`, for the dedup: intents are stamped in the order of the log, so a look-up that misses an
  earlier intent misses it by the window or by the scan. An intent that lets a submission through has
  been rejected (`LetThrough`), and the look-up and the append are one step.
- `RunsStarted`, for the refinement: a task that runs has started its deed. Each append is then the one
  action of `DeedLifecycle` that its type names, for the one deed it belongs to; all other steps stutter.
- `CountInv`, for `LogBounded`: the bounds on deeds and on other writers' events hold of the log. Each deed
  has one start and one terminal, each terminal one anchor (`OneFromEach`: a map that takes no value twice
  keeps cardinalities down), so crashes and recoveries repeated for ever add at most three events to a
  deed. That makes the range `1 .. MaxEvents` in `EveryDeedEnds` and `RefinesLifecycle` a complete one.

`PermissionChannelProofs` proves `TypeOK`, `AllowIsOwners`, `AsksPairUp` and `RunLeavesNothing` for any
number of asks, owners, runs and answers, any pipe and chunk and all lengths of responses. The types need
that a line of kind "ask" names one (`Lines`). `AllowIsOwners` speaks of what the child has acted on;
`AllowInv` says the same of every "allow" on its way there, in the stdin pipe or in the child's buffer,
and that every answer in the queue was accepted from an owner, because an answer is believed only when it
names the ask being waited on. What was accepted or recorded stays so (`Keeps`, proved once for every
step), so what is `Warranted` once is for ever. `AsksPairUp` follows from the stronger `InPairs`: an
answer is recorded directly after its asking, whatever other events of the same ask there are.
`AnswerNotLost` is what safety contributes to `AnswerReaches`: while the loop waits on an ask, an
answer to it keeps its place in the queue or moves forward, and leaves it only to settle the ask.
`AnswerReaches` itself leaves out the loop that sleeps on a queue with an answer in it (`Overslept`).

`AllowIsOwners` would be empty if no allow were ever heard, and finding 3 of section 5 is just that. It
is proved for every run: if each response is shorter than what the child reads at a time (`Short`),
then nothing is ever told (`NoAllowHeard`) and a child that has asked stops waiting only by exiting,
as long as the host has not closed its stdin (`WaitsUntilKilled`). The invariant `Unheard` says that until
then the child's one request, the host's question, the response and a dead reader's sentinel are together
at most one thing on its way, so the stdin pipe never holds a second response to fill the read, and is
empty when the host closes it. `FailClosed` and the run allow responses of any length,
so there the allows are heard and the property says something.

`SchedulerProofs` proves `TypeOK`, `OneBeat` and `LoopOwned` for any number of loop tasks and
concurrent stops; each is inductive given the types, since no step starts a beat without finding the
flag down, and `stop` hands the task it clears to the caller that waits for it. Two theorems are the
safety halves of its liveness properties, from the invariant `LoopInv`: until a start overlaps a stop
the scheduler's task is alive, alone and not told to stop (`Undisturbed`), so a `stop` never waits for a
loop that sleeps (`StopNeverSleeps`), and a poke that asks for a beat keeps it on its way until the
message is seen (`PokeKept`). What is left to fairness is only that ready steps are taken.

`CircadianProofs` proves `TypeOK`, `StateRecorded` and `PromptWake` for all thresholds, windows, faults and
crashes. `StateRecorded` needs `PhaseFits`: a consolidation begins only asleep and stays in its
sub-state until it is ended, so that the two places which assign the state before they record it
move between the two asleep states only. The cap of the ages uses `GreatestExists`.
`PromptWake` (`MessagesWake`) assumes that a user counts as active for more than a tick
(`active_user_s` is half an hour) and rests on `MessagePending`: a message that no wake has seen came in
this tick, or the beat that will wake for it is still to run.

On these rests the refinement of `Rhythm`, twice: `LivesTheRhythm` reads the machine's memory as the
rhythm, `LogsARhythm` the last recorded change. Both hold through failing appends, crashes and
reconstructions, because memory and record part only between the two asleep states, between which
`Rhythm` drifts freely (`StateSteps` lists what a step may do to the two). `RecordChains` says where the
record may have a gap. `OnlyAStimulusWakes` and `SleepsOnlyInSilence` are ADR-0007's two principles as
action properties: sleep ends by the user, the outside or the morning alone, and it begins only with the
user gone for seven tenths of `sleep_after`, because the biases add up to three tenths at most
(`BiasBounded`). `NothingVetoesSleep` is the safety half of `Rests`: past `Long` every decision of an
engaged mind outside the morning is sleep.

`MindProofs` proves `TypeOK`, `DailyCaps` and `OneLeftoverEach`. `DailyCaps` follows from `RailsInv`:
until the log outgrows the window what the counters see *is* what happened today, and a thought that
an opening is about to store has its place under the rail since the check. `OneLeftoverEach` compares
a cardinality with the interruptions; `LeftoverInv` adds which half is the one at work (`Begun`), so that
an interruption turns it into a leftover and the second append takes it away again.

`ImplementsInnerLife` is the refinement of `InnerLife`, with the identity as mapping: the engines, other
writers, failing appends, crashes and restarts only ever create, activate, rest, form, spend and think.
The engines decide on what they read earlier, so the invariant `EngineReady` says that what was read still
holds at the append: what a sleep puts to rest is active and idle, what is returned to is alive, what is
spent is unspent. `RestsOnlyIdle` is the part of it about sleep. `WorldThreadsCapped` states the cap
on the world's threads, counted as if the count's 500 `thread.created` events were all there are, which
`self_max` and `max_world_threads` see to. `StrandedForGood` shows the other side of `OneLeftoverEach`: a self thread
left half made is never completed, revived or put to rest, since the names are drawn anew and dormancy
looks at active threads only; a world thread of the same kind comes back with the topic.

`ReturningProofs` proves `TypeOK`, `PromotedOnce`, `AbsenceTrue` and `AbsencesRecorded`. `PromotedOnce`
is not inductive, because the code looks through the newest `Window` candidates only. The
strengthening says that every candidate's source is one of the oldest `Window` thoughts; being
different they are at most `Window` (a pigeonhole argument), so the look-up sees them all. That the two
bounds are the same number is what the code's safety rests on. `AbsencesRecorded` counts the
unrecorded returns against the interruptions. The same invariant gives `OnlyTheOldestSurface`: the
look-up is exact, and when the `Window` oldest thoughts have surfaced promotion is over for good
(the code's limit of 500). `SurfacesOnlyTheDue` joins the choice to the append: other writers come in
between, but a pick stays due (`PicksDue`), so a candidate is stored only for a thought with a reflection
since the owner's last message. `DueUntilHeard` is the safety half of `Surfaces`: only surfacing or
the owner's next message ends being due. `PromotionGoesOn` and `BeatPicksSome` show that what comes between
does not block: `Precedes` is an order with a first pick, and something due means something picked.

`QuestionsProofs` proves `TypeOK`, `ToldOnce` and `ToldStaysDead`, together: `TellingInv` is
`TypeOK`, `InOrder` (stamps and message counts grow along the log), `Told` (a question told dead was
dormant at that message's stamp, and has not been met since) and `ToldOnce`. The argument that a dead
question stays dead needs that dormancy, once true of the log at a stamp, is true at every later one
unless there is a meeting, and that an opening that begins later finds it dormant. `NoProjectEver`
is finding 4 of section 5 for every history: if more than one source is required, there is never a
project. `GenesisInv` says that a question's evidence is of one source (`OneSource`), and the
cardinality of what is counted follows.

Every invariant, action property and refinement that a passing run checks is thus proved. Checked by
TLC only is liveness under fairness (`EveryDeedEnds`, `PipeDrains`, `AnswerReaches`, `MessageSeen`,
`StopsUnlessRestarted`, `NightEnds`, `Rests`, `IdleThreadsRest`, `Surfaces`): it needs ENABLED, which is
beyond the prover. Of five of them the safety half is proved (`AnswerNotLost`, `PokeKept`,
`StopNeverSleeps`, `NothingVetoesSleep`, `DueUntilHeard`); these have no run of their own.

## 5. Where the code and its documentation disagree

Checked, each by a run that finds the documented property violated:

1. `agency_key_retry`: a keyed submission that natural dedup answers is answered without its key
   being recorded; a later retry with the key, after the window, executes a second deed.
2. `circadian_stable`: an experience of the agency at night wakes the mind again and again until it is
   an hour old, because waking reads external events and falling asleep only the user's silence.
3. `permission_wait`: py-claw waits for a response with `read(65536)` on a pipe, which returns only
   with that many characters or at the end of the stream. The response to an ask is shorter, so the
   child waits on although it has been answered, its deadline is never looked at, and the run ends by
   the host's wall clock. `NoAllowHeard` and `WaitsUntilKilled` prove it for every run.
4. `questions_genesis`: the sources of a question's chain are collected from its evidence only, and the
   world's questions have evidence of one source; no project can come of them, whatever meets them
   (`NoProjectEver` proves it for every history).

Met while modelling and described here only:

- `runner.py:522-524`: an ask is registered before the observer's append and outside the `try`; when
  that append raises, the ask stays listed although no loop waits for it. `RunLeavesNothing` holds of
  the listed asks only while no append fails.
- `runner.py:622-624`: `permission_timed_out` is declared and never set; a run that fails after an ask
  expired is recorded with reason `error`, against the comment there and ADR-0024.
- `scheduler.py:190`: a `start` during a `stop` clears `_stopping`; under Python 3.11, where `wait_for` may
  swallow a cancellation, the old loop lives on beside the new one and the `stop` never returns.
  `StopsUnlessRestarted` leaves that case out.
- `runner.py:625-632` says that the pipe is drained "at ALL times", and the docstring at 649-651 that the
  reader "only emits `b""` when the process has actually closed stdout (exited)". The child's streams are
  made without `limit=` (417-426), so `readline` raises `ValueError` on a line over 64 KiB and the reader
  task dies. A `can_use_tool` request carries the whole input of the tool, and asks are sent again together
  (`cli/main.py:351-364`), so such a line may come while the host waits for an owner. The sentinel then
  reaches the host loop with the child alive, the result of the turn is lost, and until the ask is settled
  nobody drains the pipe. `PipeDrains` is stated up to that case (`ReaderStops` models it).
- `runner.py:177-187`, `447-449` and `727-731` count on `proc.wait()` to return after a kill. Under Python
  3.11 it returns only when the child's pipes have been read to their end, which does not happen while
  unread data keep a pipe's transport paused: a full stdout behind a dead reader, or much stderr, which
  nobody reads before 733-739. `run()` then does not return, not even at the wall clock, and the deed
  stays open until a restart recovers it. `EveryDeedEnds` assumes that runs return; in
  `PermissionChannel` the host is not fair in that case (`Reapable`).
- `runner.py:206` and `225-226` and `service.py:261` say that the route handler answers an ask from the
  same event loop. It is a plain `def` (`main.py:688`), which FastAPI runs in a worker thread, and
  `asyncio.Queue` is not made for threads: a put between the queue's empty test and the registration of
  the getter in `get()` wakes nobody, and the answer waits for another put or for the ask's timer.
  `AnswerReaches` is stated up to that case (`Overslept`).
- `cli/main.py:351-364`: the flush of an ask writes all earlier requests again, so the owner is asked
  again what was settled. `AsksPairUp` and `AllowIsOwners` hold all the same.
- `circadian.py:463`: `begin_consolidation` assigns the state before it is recorded, so after an append
  that raised the next record starts from a state no record led to; `StateRecorded` shows how far that
  can go.
- `world.py:323` compares seconds with `reobservation_days`, which ADR-0014:27 gives in days.
- `continuity.py:243` lists the oldest 200 messages. After 200 every message is compared with the
  200th, so every one is an absence, and the same dormant question is told again; ADR-0012:24 defines
  the absence by the previous message. `AbsenceTrue` and `ToldOnce` are stated up to that length.
- `continuity.py:263` and `:287` remember an entity under different names, so one question can be told both
  as met and as dormant in one absence.
- `reentry.py:217-225`: thoughts beyond the oldest 500, and reflections beyond the oldest 500 events
  since the last message, are never seen; `OnlyTheOldestSurface` proves the first.
- `sleep.py:299-315`: a crash between the two appends leaves a self thread created and never activated;
  it counts towards `self_max` and nothing ever takes it up again (`StrandedForGood`).
- `reentry.py:87-106`: `thread.revisited` and `wake.route_selected` are listed as reflections, but
  nothing stores either with the `related_to` that is required of them.
- `memory.py:177`: `recent(n)` drops system events after taking the newest n, so a night's bookkeeping
  shortens what a sleep sees; `Mind` models it so.
- `world.py:744`: before it activates a thread, a bridge folds the oldest 3000 events only; beyond them it
  sees a thread as it was and may activate one that is active. `Mind`'s `Bridges` takes only
  threads that are dormant.
- `world.py:822`: the cap on world thoughts lists the oldest 500 thoughts of any origin, so it stops
  counting when there are more.

## 6. What is not modelled, and the plan

Not modelled for good: embeddings, recall scores, route weights, providers and web fetches (numeric
data and I/O), the reports, the simulations, the frontend, the scripts. Of the runner: creation of the
sandbox, the child's environment, the rule files, the forensics stream,
its stderr and the back-pressure of its stdin (`drain` after a long response). Of the agency: the wording of
events. Of the mind: the prompt and the reply, thread names the model invents, `thread.closed` and the
question events that nothing appends, artifacts, which have no caller. py-claw is a general coding
agent of some hundred thousand lines beside the resident's fourteen; only its permission channel takes part in
a protocol of the resident's, and only that is modelled, which is why the share of all lines covered
stays small.

Left for later, in this order:

1. `EventStore`: appends of several threads, time stamps taken before the insert, readers with a
   `created_at` cursor and with a `seq` cursor, and the prompt wake's comparison of time stamps.
2. A module that composes `Scheduler` and `Circadian` (a message, its poke, the beat, the wake), and one
   that composes `Mind` and `Returning` on one log.
3. Proofs about the compositions (2): that a message's poke leads to a beat that wakes, as one
   invariant over both modules.
4. An abstract specification of asks (asked, settled once, heard or not), and `PermissionChannel` shown to
   implement it.
