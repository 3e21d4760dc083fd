# Tidkod in TLA+

Tidkod distributes timecode: one *leader* owns a timeline (a position that moves
at a rate, and scheduled changes of it), any number of *followers* evaluate the
same timeline against a clock they synchronise by probes. The modules here model
the parts of the workspace that decide what is played when, and the transport and
the clients that carry it. TLC checks them on small instances; TLAPS proves, for
every value of the constants, the safety of the leader, of the follower core, of
the two together (as an implementation of `Replica`, and what the follower plays
beside what the leader plays), of the probes and of what the clock estimator
makes of them, of frame pacing, positions and labels, of the readers, the worker,
the QUIC endpoint, the WebTransport session and its streams, and the browser's
page.

    tlc -workers 2 -config LeaderSafety.cfg MCJob.tla
    tlapm LeaderProofs.tla
    tlapm FollowerProofs.tla
    tlapm ClientProofs.tla

`PROJECT.json` lists every run, every theorem, the source lines behind every
definition, the hazards the properties are aimed at and the disagreements found.

## 1. Inventory of the system

| Component (source) | State it keeps | Operations | What is hard | What makes it correct |
|---|---|---|---|---|
| Timeline, snapshots (`protocol/src/timeline.rs`, `lib.rs`) | anchor, discontinuity, up to 4 scheduled changes, revision, session | evaluate, latch, encode, decode and validate | ordering of schedule against anchor, saturation | every published snapshot is accepted; numbers name one trajectory |
| Source tracker (`tracking.rs`) | last sample, speed candidate, jump count | `sample`, `health` | confirmation over several samples | continuity, sound numbering |
| Leader (`native/src/network.rs`, `LeaderJob`) | timeline, encoded bytes, deadlines, peers | commands, promotion, health, publication, echo of probes | late controls and samples against promotion, coalescing, lost wakeups | valid, fresh and timely publication |
| Follower core (`timeline.rs`, `FollowerCore`) | the view readers copy, confirmation counters, expected session | `connected`, `state`, `measurement`, `tick`, `disconnected` | calls in any order; measurements, snapshots and time interleave | no step in the output but for confirmed errors and changes; no roll-back |
| Follower (`network.rs`, `FollowerJob`) | peer, retry and frame deadlines, back-off, probes | pass, commands, drop | timeouts against late answers, stalls, back-off | reconnects, paces its attempts, shows the true status |
| Clock estimator (`clock.rs`) | samples, quarantine, mapping | `observe` | outliers, path changes, steps of the leader's clock | what it claims contains the truth; a spike moves nothing, a real change is taken up |
| Clock probes (`probes.rs`) | ring of 128 requests, publication times | `request`, `publication_finished`, `reply` | loss, duplication, reordering, wrap | one sound exchange per request |
| Worker, engine, controls (`worker.rs`, `api.rs`) | jobs, channels, stop flags, wake flag | create, command, stop, shutdown; passes | threads against the poll loop, budgets, shutdown races | no lost wakeup, every call answered |
| Readers (`api.rs`) | up to 64 triple buffers of views | add, publish, drop | readers dropped while slots are visited, views written one by one | a call that returned is visible to every reader; room is not refused |
| QUIC endpoint (`transport/quic.rs`) | connections, output queue, budgets, parked wakers | `step`, reads, writes, closing | a full queue, a blocked socket, wakers replaced and taken meanwhile | no connection starves, nobody sleeps on work |
| Runtime, timers (`transport/runtime.rs`) | timer registry, woken tasks | `step`, `advance` | wakers that reschedule timers being collected | no timer is lost |
| WebTransport (`transport/web.rs`) | handshake, HTTP/3 streams held, session, capsule parser | handshake, accept, open, close, driver | streams before sessions, headers and capsules in pieces, closes that meet | streams reach their session; every end is reached, and is the one that was meant |
| TLS policy (`transport/tls.rs`) | none | pin comparison, certificates | - | - |
| Discovery (`discovery.rs`) | resolved services | poll, advertise, shutdown | external daemon | - |
| Timecode (`timecode.rs`) | none | labels, positions, advance | minute boundaries, negative positions, rounding | agrees with counting, and with exact motion |
| Boundaries, presentation (`boundary.rs`, `output.rs`, `clients/wasm`) | copied views; the intervals of the last frames | next frame or change; when a frame is shown | monotonicity under correction, dropped frames | the first crossing, within its uncertainty |
| Browser follower (`clients/wasm`, `web/src/transport.ts`, `main.ts`) | the shared core, the page's buttons, one attempt | clicks, attempts, four concurrent loops | aborted attempts, clicks that wait for earlier ones | nothing stale reaches the core; the last click wins |
| Native bindings (`clients/bindings`) | handles | conversions | - | - |

How they meet. An application thread sends a command over a bounded channel and
notifies the engine's one worker thread, which runs every job (leader or
follower) in passes. A leader's pass handles commands, promotes due changes,
publishes a snapshot as a one-frame group of the `state` track and echoes probe
datagrams. A follower's pass handles commands, opens or steps its connection,
feeds matched replies to the estimator and the core, then the newest snapshot to
the core, then ticks the core and publishes its view to the readers. Readers
evaluate the view at any instant without the worker. Network peers share
nothing but these messages; either side may vanish.

## 2. Modules

| Module | Models | State and actions |
|---|---|---|
| `Timeline` | the value: anchors, schedules, `latch`, promotion, `validate_snapshot`, `change_timeline` | operators only |
| `Tracker` | `Tracker::sample`, `health` | operators on a record `[last, cand, count, jumps, sign]` |
| `Leader` | `LeaderJob` | `tl` is `timeline`, `bytes` the snapshot last encoded, `publish` the local of `progress`; `ChangeCmd`, `SessionIdCmd`, `SampleCmd` are one command each, `FinishPass` the rest of a pass, `Tick` time, guarded by `Deadline` |
| `Readers` | `Readers` and the calls of `Control` | `inputs` are the slots, `live` the readers not dropped, `shown` what each buffer holds; a pass takes commands, visits the slots one at a time (`Sweep`, `Write`), then answers (`Acknowledge`) |
| `FollowerCore` | `View::evaluate`, `FollowerCore` | one record (view, counters, last event); every method an operator from record to record |
| `Follower` | any caller of `FollowerCore` | one action per method, and `Elapse`: readers keep evaluating while time passes |
| `Link` | the connection of a `FollowerJob` | `job` (peer, status, retry, back-off, deadlines) and `inbox` (what woke the worker); `Pass`, `PassOpens`, `PassFails`, `Drop`, and the events of network and application |
| `Session` | one leader, restarted under new sessions, one follower, the network | `L == INSTANCE Leader` and `FollowerCore` composed; `flight` is the state track, `link` the session the follower is connected to |
| `Replica` | the promise of a pair: only published snapshots are held, and only later ones replace them | abstract; `Session` implements it with `held` and `eras` computed from its variables |
| `Probes` | `Probes` and the leader's echo over a lossy, duplicating, reordering track | `outstanding`, `publication` as in the code; the network is every reply the leader could have made |
| `Clock` | `ClockEstimator` | `samples`, `quarantine`, `mapping`; one exchange per step (`Observe`), which is refused, kept, quarantined or the last of a run that replaces the history; `LeaderSteps` moves the leader's clock |
| `Measurement` | `Probes` feeding `Clock` | `ReplyObserved` is one step of both; or exchanges over `Paths` for ever |
| `Worker` | `worker::run`, `Signal`, `Engine`, `Control` | a program counter per calling thread and one of the worker; every access to a flag, a channel or the waker is one step |
| `Endpoint` | `Endpoint::step`, `Shared`, streams, the timers and tasks of `runtime.rs`, and the worker's decision to sleep | `worker.pc` walks through a pass: receive, serve each connection, send, run timers, run tasks, sleep; `conn[c]` is quinn's part and `Shared`; `app[c]` the three tasks of a connection |
| `WebStream` | `SendStream`, `RecvStream` of a session | `stream.owed` is what is left of the header; one action per call, the peer grants credit, stops or acknowledges |
| `Capsules` | `Capsules::demux`, `take` | operators on the bytes not consumed yet; `SaysClose` is the reference reading of all bytes |
| `WebSession` | `Request::handshake` to the end of the connection | `phase` is the handshake's await, `uni` and `bi` the state of each stream, `pending` the streams adopted and not yet classified, in their order, `web` the session and its driver; the peer sends what its `plan` says, in any order, and may stop. `SortPoll` is one poll of the loop that waits for the control stream, in turns (`Adopt`, `Look`, `EndRound`) that spend the `BUDGET` of the connection as `Shared::enter` does |
| `Timecode` | `FrameFormat`, `Rate`, `Position::advance` | operators; the behaviour walks beside a counter, or along elapsed time |
| `Presentation` | `View::next_boundary`, `PresentationClock`, `render` | `due` is the wake-up asked for, `recent` the frame intervals; an application that sleeps, or one that renders |
| `Browser` | `main.ts`, `transport.ts` | an action is what JavaScript runs between two awaits; `follows` are the calls of `follow`, `loops` the loops of attempts, aborted ones included |
| `TimelineProofs` | - | lemmas on whole quotients, of the operators of `Timeline`, and on how snapshots of a session relate (`Succeeds`, `Covers`); all of the modules below but the last two use them |
| `CoreProofs` | - | lemmas of the operators of `FollowerCore`, which the proofs of `Follower`, `Session` and `Presentation` use |
| `LeaderProofs` | - | the theorems of `Leader` and of its `Readers` |
| `FollowerProofs`, `SessionProofs` | - | those of `Follower` and `Session` |
| `ClientProofs` | - | those of `Probes`, `Clock` and `Measurement`, of `Presentation` and of `Timecode` |
| `EndpointProofs` | - | those of `Endpoint` and of `WebStream` |
| `TaskProofs` | - | those of `Worker`, of `WebSession` and of `Browser` |
| `MCLeader`, `MCFollower`, `MCSession`, `MCWorker`, `MCWeb`, `MCPresentation` | - | instances for TLC |
| `MCJob`, `MCClients`, `MCOutput`, `MCEndpoint` | - | one instance for parts that belong together: a behaviour starts as one of them, with the others at rest, so each is explored with nothing lost and without their product |

Each module defines, next to the operators, a few *variants* (marked so): the
same operator with a slip a programmer could make. They are used by no
specification; substituting one shows that a property notices.

How the models meet. What one module takes as an input another one produces:
`Session` composes `Leader` with `FollowerCore` and takes the mapping as an input;
`Measurement` composes `Probes` with `Clock` and produces it, and `BoundsAreHonest`
is what makes "wrong by no more than the uncertainty says" a fair input.
`Presentation` reads the views `FollowerCore` defines. `Readers` is the last step
of a pass of `Leader` or of the follower, `Worker` runs the passes, `Endpoint` is
what a pass does with the network, `WebSession` and `WebStream` run inside it.
`Link` and `Browser` are the two clients' connections.

Abstractions. Positions, rates and offsets are integers and a tick is the unit
of every clock; saturation is modelled where it can be reached (`Timecode`, with
a small range) and left out elsewhere. Clocks of a session run at one rate, so
the true offset is constant for a leader's life unless a step says otherwise. In
`Session` that offset is wrong by an error of the path and the uncertainty says
so; it stays as measured until the next measurement. `Aligned` does not ask
whether the evidence is consistent (`timeline.rs:405`), so what is shown as
aligned there is shown here. `env` holds the path and what is left of the
budgets of controls, exchanges, breaks, losses and restarts: bounds, chosen
initially from `ENVIRONMENTS`. `Clock` doubles offsets so that the halves of the
NTP formulas are whole; with both clocks at one rate the regression's drift is 0
and the fit is the mean of the selected offsets; growth of uncertainty with age
is kept, its rate is one unit per `HOLDOVER`. `Presentation` takes the rounding
of `evaluate` from `FollowerCore` and leaves out the drift part of the offset
and the growth of uncertainty until the boundary. In `Endpoint` quinn-proto is
what the endpoint sees of it: packets owed, events, windows, a draining timer,
which is assumed to outlast the reading of events already reported (`Expire`);
only woken tasks are polled, and a read that uses up what was read ahead wakes
nobody, so the model has fewer chances than the code to make good a lost
wake-up; loss and retransmission happen below it, and the segments of a GRO
datagram are datagrams. In `WebSession` a header comes in as many parts as the
code takes reads for it, three for a stream of a session and one for any other,
and each read in the sorting of the handshake costs one operation; a capsule is
written in bytes of a tiny alphabet. The budget is modelled where it decides
something, in the poll that may refuse the peer; elsewhere it only delays the
rest of a poll to the next pass, and is left out (`ReadSettings`, `AcceptUni`,
`AcceptBi`). What credit the peer has is bounded from above: it may open one
stream more than `STREAM_CAP` for each that was dropped or handed over.
`CapsuleAgrees` says nothing of a refusal once more bytes than `MESSAGE_LIMIT`
have come in all: what is buffered of them, which is what is limited, depends on
their chunks. `Browser` keeps no durations: a delay or a silence ends at any
time. A triple buffer in `Readers` is what was written to it last; the five
seconds `shutdown` waits at most are left out.

## 3. Runs

| Run | Question | Bounds, and why they reach it |
|---|---|---|
| `leader` | are published snapshots valid and fresh, numbers unique, and is all of it in time; do readers see what calls promised? | a tracked source: 4 commands over 4 ticks, play and an atomic jump at once, late or scheduled, capacity 2; samples at rest, jumping, and a few marked or hinted; a heartbeat of 3, coalescing of 1, timeout of 2: every deadline is the earliest one somewhere, a jump and a new speed can be confirmed, and the schedule fills, is promoted in part and is cancelled. Two threads with two calls each and two slots: a third reader has to wait for one, both threads wait at once, and one may shut the job down under the other. The two recording parts are symmetric: no operator tells them apart |
| `leader_tracked_names` | does a number name one trajectory once samples arrive? (no) | as above, with one control |
| `follower_calls` | any order of calls: continuous slews, no reversal by correction, jumps only when confirmed, no roll-back | 6 calls, 6 ticks, 2 confirmations, a leader that schedules, follows a source, applies, cancels and reformats, a second leader, exact and wrong measurements, outliers |
| `session_safety` | do leader and follower play the same at every instant; can `aligned` be believed; is a newer snapshot ever refused; does the pair implement `Replica`? | seven environments (`SafetyEnvironments`), each a path and a budget of faults: two controls (a group that stays in flight is as good as lost); a path that lags and then does not; a break and a loss; measurements wrong either way; a clock one tick ahead; a leader restarted while the connection breaks, or whose successor is measured. The follower's clock begins a tick behind or ahead of the leader's, and a restart puts it further ahead. The two sessions are symmetric: no operator tells them apart |
| `session_converges` | does the follower end with the last revision of the last leader? | one restart, one break, one loss, one control or one sample, a tracked source; two scheduled changes and a marked sample, which the first observation below needs, are more than the budget |
| `session_applied` | the documented latching rule (no) | one scheduled change |
| `measurement_and_output` | is each exchange sound, the mapping honest, hard to move and not stuck; are labels, positions, boundaries and display times right? | 3 probes over a ring of 2 slots, exchanges up to and past the age limit; then endless exchanges over a symmetric, an asymmetric and a slow path and a clock that steps by 10 and back, a run of 3, a quarantine of 4 and a history of 4, so that runs are broken, evicted and believed. Labels of 29.97 and 59.94 drop-frame and of 23.976 over 20000 frames either side of a tenth minute and of midnight; motion forward, backward, reduced and paused over a range it leaves. Views at four rates under corrections either way with no, one and two changes ahead |
| `clients` | does the worker sleep on a call, is each answered; does the native client end stalls and reconnect; does the browser's page do what was clicked last, and its core hear one attempt only? | four threads: a job created, commanded past the budget of 1 and the capacity of 2, stopped alone or by the engine; two jobs created while the first is stopped and the engine ends; an engine shut down by two threads. 3 faults of any kind, a timeout longer than the age that counts as stable, as by default; 3 clicks: an attempt, one that aborts it, one that comes while that one still waits; one trouble |
| `web_life` | is every stream sorted and delivered, every handshake settled, every abandoned connection closed, every capsule read as written? | the plans of `MCWeb`: control streams first, last and absent, streams of this and of another session, stalled mid-header, at the cap of 3 and past it, under a budget of 3 operations, which one stream and its header nearly spend; bad settings and requests; a close capsule whole, split over frames, behind others, empty and too long |
| `web_refused` | is a peer refused only for want of a control stream? (no) | four streams, the first of which is dropped and makes room for one past the cap of 3; the reads of those ahead of the control stream spend the operations that are left |
| `endpoint` | is anybody forgotten? does a stream end as it was meant? | a queue of one datagram, a kernel that takes one, budgets of 1 and 2, so every limit is met by two writers; a reader in both orders of its tasks, a task dropped, a timer set again by the task it wakes, and a connection that waits for the other's place. A header of 2 units under 4 of credit: it goes out whole, in parts, or never |
| `link_backoff` | does failure back off? (no) | as `clients` |

`CHECK_DEADLOCK FALSE` is set in all of them: commands, time, plans and faults are
bounded, and what has stopped (an engine, a follower, a connection) stays so.
That nobody waits for ever is said by the liveness properties instead.

A type invariant is stated where it carries a proof: `Leader!TypeOK`, and
`TypeOK` (`PageTypeOK`, `ReadersTypeOK`, `StreamTypeOK`) of the proof modules. It holds for every
value of the constants and no run repeats it.

Fairness. `Session`: passes that are due are run and time passes (the worker
polls with the job's deadline); a follower that is not connected retries and a
connection whose leader is gone is closed (the idle timeout); QUIC retransmits,
so a group in flight is delivered unless it is reset, broken off or superseded,
and those are bounded. `Worker`: threads that can run do; nothing is assumed of
sockets or deadlines, so an answer never depends on traffic. `Link`: the worker
runs when woken or due, and handshakes that are not lost complete; the rest of a
stalled frame need never come. `Clock`: exchanges keep coming, which the probe
interval gives. `Browser`: promises that can be continued are, and a connection
attempt succeeds or fails; nothing makes a leader send. `WebSession`: the worker
polls the futures and the driver, and time passes; nothing is assumed of the
peer, which may stop anywhere. `Endpoint`: the worker runs; the kernel
sends what it took (strongly fair, as it may be refilled at once), a peer that
has something to send does, and draining connections expire. `WebStream`: a
caller polls the stream it finished, and credit that may be granted is: the
peer's way to refuse it is to stop or to be lost, and the property allows both.

### Disagreements with the documentation

Each is a run that violates what `docs/protocol.md`, or in the last a comment of the
code, says.

1. `leader_tracked_names`: after a jump found in the samples, the number of a
   pending, already published change is reused (`tracking.rs:93`; line 42).
2. `session_applied`: a measurement processed before the tick that latches a due
   change takes readers back across it (`timeline.rs:578`; line 58).
3. `link_backoff`: the age of the attempt, not of the connection, resets the
   back-off, so attempts that run into the timeout never back off
   (`network.rs:661`; line 94).
4. `web_refused`: a peer whose control stream is there with its header may be
   refused for having sent none (`web.rs:228`; the comment at line 226, "Only now,
   with everything adopted classified", and the one at line 183). Accepting goes
   before reading, and each stream accepted and each header read is one of the
   connection's 8 operations of a pass (`quic.rs:49`): the poll that adopts the
   65th stream has 7 left at most, and a control stream behind as many other
   complete headers reads as pending. The peer needs credit for a 65th stream,
   which a stream of an unknown type gives back when it is dropped.
   `HandshakeSettles` promises a session to peers that open no more than the
   handshake takes.

### Observations

Read or met while modelling, without a run of their own.

* A follower may refuse the snapshots of the leader it is connected to: it plays
  the second of two scheduled changes, which its leader's marked sample cancels
  and replaces under the first one's number (disagreement 1), and takes that for
  a regress (`timeline.rs:499`) until the leader's numbers catch up. TLC finds
  `LeaderNeverRefused` violated so for a tracked timeline with two controls and a
  sample; the property and its theorem are stated for a generated one.
* A measurement processed after a scheduled change took effect and before the
  tick that latches it still counts errors from before the change
  (`timeline.rs:588`; `docs/protocol.md:82` has a discontinuity reset them).
  `HardResyncConfirmed` is stated so as to allow it.
* A second snapshot before the first exchange is latched through a mapping that
  nothing has sampled, so a change may be seen early by a follower whose clock is
  ahead, and is not taken back (`timeline.rs:497`; `docs/protocol.md:58`). Every
  engine has an epoch of its own (line 44), so whose clock is ahead is chance,
  and a leader that restarts falls behind its followers. The instance has such
  followers; `hasty` records the case and `InStep` is stated so as to allow it,
  until the leader comes to the change.
* A handshake parks early streams up to `HANDSHAKE_STREAMS`, and hands all that
  were critical on: more than `HELD_STREAMS` may be held (the comment at
  `web.rs:59` describes the running session only).
* `SendStream::finish` called twice with credit arriving in between leaves
  `finishing` set, and `poll_closed` then reports an error for a stream that
  ended cleanly (`web.rs:923`-`955`). The model does
  the same; `EndsAsMeant` says only when "closed" may be reported.
* `Request::reject` has no caller in the workspace; the model lets a server refuse
  all the same.

## 4. Proofs

Each theorem below holds for every value of the constants that satisfies the
named assumptions of the modules it is about: no number of threads, streams,
readers, restarts or ticks is fixed. A theorem about states rests on an inductive
invariant that has one lemma per action, and that TLC checked first, on the run of
its module, where TLC can evaluate it (`ReadInv` speaks of all sequences of bytes).

### Leader (`LeaderProofs`)

* `LeaderTypeOK` - type correctness.
* `LeaderPublishedValid` - every snapshot a leader encodes passes the validation
  of its receivers.
* `LeaderNamesUnique` - while only controls have moved its anchor (always, for a
  generated source), a leader never gives one number to two trajectories.
* `LeaderPublishedFresh` - between passes the last snapshot is the timeline,
  unless the leader knows that it owes a publication.
* `LeaderNoLostWakeup` - the clock never leaves an instant at which a pass would
  have published: `deadline` covers every condition `progress` tests.

The argument. `PublishedValid` is not inductive: what is encoded depends on a
timeline that commands leave in states no receiver would accept, since a sample
or a late control can move the active anchor up to or beyond a change that is
due. The strengthening is `OrderInv`: the schedule itself ascends in time and
number, every number in it exceeds the active one, and *no anchor is in the
future*. After the promotion loop no scheduled change is due, so the last fact
puts the anchor strictly before the schedule (`PromotedShape`): that is what the
validation asks. `NamesUnique` needs `NamesInv`: every published segment is
still in the timeline or has a lower number than all of it, hence a fresh number
(above the active and every reserved one, `FreshDiscAbove`) was never published.
`NoLostWakeup` needs `HealthInv`, which ties the health last published to the
source deadline and the tracker's last sample: without it a leader could hold a
health that an assessment would change while no deadline is set. Before the
deadline no change is due (`NothingToPromote`), the health is what would be
assessed, and both intervals are still open (`NothingDueYet`).

### Follower core (`FollowerProofs`)

Action properties, of any caller that calls the methods in any order:

* `FollowerSlewIsContinuous` - a routine correction leaves the reading of that
  instant where it was.
* `FollowerSnapshotNeverRollsBack` - a newer snapshot never takes readers back
  across a change they have seen applied.
* `FollowerHardResyncConfirmed` - a locked follower jumps to the measured time
  only after `CONFIRMATIONS` measurements in a row, of one connection and one
  direction, found it off by more than `THRESHOLD`.

`FollowerInductive` carries them. `SlewIsContinuous` needs only the type of the
core. The other two do not follow from it: `SyncInv` says that whatever was
measured can be evaluated, and `CountInv` ties the counters the code keeps
(`large`, `sign`) to the errors that were in fact measured, which the model
keeps as `streak`. Its part `Backed` says that the core never counts more large
errors than came in a row, nor against their direction; the rest of it, that
there is nothing to count before the lock or after a resynchronisation. Without
the direction the step that flips it could start at a count of another one.

* `FollowerNeverBackwards` - while no call intervenes and no change comes into
  effect, output moves in the direction of playback and a paused output stands
  still, however large the correction being worked off.

Its hypothesis `Rated` says how fine a unit of position is: an output that moves
at all moves by two units or more in a tick. In the code a unit is a subframe, so
any two instants at which something is rendered are that far apart. At one unit a
tick whole quotients could use the motion up, and the output would stand for a
tick or step back. `SlewedStep` is the arithmetic: what a slew works off in a tick is less than the
motion of that tick. `RateInv` carries the hypothesis along: no call makes a
segment, it only selects among those a snapshot brought.

### Leader and follower together (`SessionProofs`)

* `SessionReplicates` - `Session` implements `Replica`, with `held` and `eras` as
  the refinement mapping: the initial states map to initial ones, and every step
  to `Restart`, `Publish`, `Hold`, or a stutter.

Whatever the timeline contains, the leader's changes leave its session alone and
only raise its revision (`SameName` and the lemmas on `LatchAll` and the
promotions), so for this theorem no type of the leader's data is needed. `FlightInv`: what
travels was published by the leader the follower is connected to. `HeldInv`:
what is held was published, and by a leader no younger than that one. The last
conjunct is what makes a hand-over safe: a follower cannot be connected to a
predecessor of the leader it has heard of.

Three more are about what the two of them play, while only controls move the
anchor of the timeline (`KIND = "Generated"`):

* `SessionLeaderNeverRefused` - a follower refuses no newer revision of the
  session it holds, however far ahead of its leader it has run.
* `SessionAlignedIsHonest` - output shown as aligned is within the advertised
  error of the leader's, when the estimator's bound is right and both play the
  same change.
* `SessionInStep` - once it has heard of every change and knows the offset, a
  follower plays what its leader plays, at every instant, restarts and clocks of
  any epoch included.

Here the contents of two timelines are compared that were promoted at different
instants by different clocks. `Succeeds(u, a)` says that `u` is what became of
`a` at the leader: every segment of `a` is still in `u` or has a lower number than
all of `u`, and all that is new in `u` has a higher number than all of `a`.
It holds of any two snapshots of a session, in whatever order they arrive
(`LeaderKeeps`, `FlightKeeps`). The follower, however, does not hold `a` but `a` with
leading changes applied, perhaps before the leader applied them (`Applied`), and of
that only the weaker `Covers` is true, which applying more leaves alone: a segment
of `u` that is not held may also have a lower number than what plays. So the inductive
`AccountInv` says that every snapshot on its way, and the last one published,
`Accounts` for what is held. A newer snapshot therefore never falls back behind
the discontinuity that plays, which is the one ground for refusing it
(`AccountedNotRefused`), and one number names one trajectory on both sides, which
is what `AlignedIsHonest` needs. `InStep` needs `PunctualInv` besides: no
snapshot on its way has an active segment that the leader's clock has not reached,
nor has what is held by a follower that was left behind and was not hasty.

`KIND = "Generated"` is not for the proof's sake: a tracked source renumbers
(disagreement 1) and its routine samples move an anchor without a new number, so
neither relation holds for one. Nothing is assumed of the two clocks but that they
run at one rate: each has its own epoch, and a leader that restarts begins at
`START` while its follower's clock runs on. What that costs is in `InStep` itself.
The mapping is reset when a session is adopted, and until the first exchange
snapshots are advanced by the follower's own clock (see the observations). A follower
that latched a change so is in step again when the leader comes to it; and where
no error of the path is positive, `PunctualInv` shows that this is the only way to
get ahead (`TimelyRevised`, `TickPunctual`). `hasty` is set by such a snapshot and
forgotten with the session.

### From probes to what is shown (`ClientProofs`)

* `ProbesExchangesSound` - an exchange is made of the timestamps of its own
  request, whatever is lost, repeated or reordered, however often the ring was
  wrapped. `SlotInv` is the point: an occupied slot holds a request
  with its residue, as it was sent, and beside it the time its publication took
  *unless it is still being published*, the instant at which a wrapped slot
  still holds the older request's; `MatchedInv` says that no reply is matched then.
* `ClockBoundsAreHonest` - offset, uncertainty and interval of a mapping hold of
  the leader's clock, if that is one clock for all samples the mapping is made of.
  `HonestInv`: a sample kept or quarantined is wrong by half of its delay at most.
  The fit takes a mean over a fold; `FittedHonest` and the lemmas on `OffsetSum` give
  it the bounds of its samples.
* `MeasurementBoundsAreHonest` - the same behind the probes: what a matched reply
  stands for is a sample the estimator may trust.
* `ClockSpikesNeverMove` - outliers replace the history only as a run that agrees.
  `SpikesInv` says that the quarantine is the tail of all outliers since the last
  accepted sample (`spikes`), each like the first, and each later than the one
  before by the pace of the exchanges. The pace is the hypothesis `Paced`: a run
  has lasted `SPAN` before it would be longer than the quarantine. Probes
  come at that pace; if they came faster, first samples would be evicted and a
  run could not be told by its first.
* `PresentationTargetWithinAFrame` - a frame is rendered for now, or for one
  measured interval after the time of its callback, for every size of the ring.
  `Holding` unrolls the ring: slot `k % RING` has the interval counted `k`, so what
  `sorted` takes its median of are the recent intervals and nothing older.
* `PresentationBoundaryIsFirst` - until the boundary an application sleeps for, no
  whole frame is crossed and no change takes effect, whatever is rendered
  meanwhile; at it exactly one frame is crossed, or the change is the one named.
* `PresentationUncertaintyCovers` - if the clock is wrong by no more than it claims,
  the boundary comes within the uncertainty it is given.
* `TimecodeAdvanceExact` - a position advances by the exact motion, cut towards its
  anchor by less than a subframe, and stays at a limit it would pass, for every
  rate and frame rate.
* `TimecodeLabelsCount` - for every frame rate, drop-frame or not, the label of a
  frame is the one that a deck counts to, leads back to the frame, and is none of
  those that are dropped. `LabelOfItsFrame` shows that a day has one label per frame,
  `FollowingCounts` that counting a label on counts its frame on, and `CounterInv`
  ties the deck to the frame at midnight and on negative positions too.

The two theorems on boundaries are about a search by halving over the whole range
of the clock. `FirstOfThem` says that it finds the first instant of any set that,
once entered, is not left (`Lasting`): choosing the first of each range solves the
equation of the recursion, so the search is defined, and a shortest range on which
it went wrong would have a shorter one. That the sets searched are such is
`LeaderTimeRuns` for a change, and for a frame `SteadyMotion`: while one segment
plays the reading moves on at every tick, under a correction too. `ChangeAhead`
and `CrossingAhead` say what is found, `NextIsForetold` puts them together. The
inductive `BoundaryInv` is then about all instants to come: `due` and `current`
foretell each of them (`Foretold`). So time may pass; what has to be shown of
rendering is that ticking the core changes no later reading (`TickedReading`),
though it applies changes that are due. For the uncertainty, `OffsetMoved` makes
the view of a clock that is off by `e`, `ApartReading` says how far apart the two
read while one segment plays, and `SlackCovers` that the motion in the claimed
uncertainty makes that good when a slew takes a tenth of it, rounded up, away.

Their hypotheses: `ReadableViews`, that schedules ascend as `validate_snapshot` asks,
that a measured core has left `Uninitialized`, and that an output that moves does so by
two units a tick or more and by half a frame at most. Nanosecond ticks and subframes
of 2^-32 leave room on both sides: at the nominal speed of 24 frames a second a tick is
103 units. `ClockBegun` and `SurelyBegun` say that the leader's clock is not before its
zero, where `leader_time` saturates and the reading stands; a leader counts from
its start, so only the first moments of one are excluded. The run covers
views whose clock has not begun as well.

### Readers (in `LeaderProofs`) and worker (in `TaskProofs`)

* `ReadersAnswerIsShown` - what a call that returned asked for is in the buffer
  of every reader. `ViewInv`: the slots a pass is done with show the job's view,
  and nothing newer was promised.
* `ReadersSlotsServeTheLiving` - no more slots than the limit, a reader keeps its
  own, and none is refused while there was room ever since it was asked for.
  `RoomInv` has to speak of the slots still to be visited: a reader dropped
  behind the sweep keeps its slot until the next one, and the thread whose
  `room` it made must not be the one that is refused.
* `WorkerNeverAsleep` - the worker never sleeps while a call that waits could be
  answered, for any number of callers and jobs and any capacities. `ChannelInv`
  and `CallInv` say where the request of a caller is by the time it notifies,
  `PassInv` that once a pass is beyond something, whoever has notified since
  made the flag true or is in what the pass knows it left, and `SleepInv` that
  whoever is not answered in a sleeping worker has yet to notify it.
  `CreatorInv` rules out what would break them: a command for a job that the
  worker has not heard of.

### QUIC endpoint and the streams over it (`EndpointProofs`)

* `EndpointNothingStranded` - a worker that sleeps with nothing to wake it leaves
  no datagram unread, no packet owed that the socket would take, no timer due and
  no task parked on what it could do, for any connections, budgets, windows and
  queues and any order of the tasks. The assumptions: finitely many connections,
  and peers that send what `Sent` names.
* `StreamEndsAsMeant` - nothing precedes the header of a stream, "closed" is said
  only of what the peer has whole, and a stream that its application finished is
  cut off only for one of the reasons the property names. `FinishInv` ties what
  the application asked to what the stream still has to do.

`NothingStranded` only speaks of a sleeping worker, so its invariant has to say
of every place of a pass what will still happen. `SocketInv` and `PassInv` do for
the worker: a datagram keeps it up or is followed by an edge, what the output
queue still holds is what the socket refused, and from the tasks on a task that
is woken has notified the worker. `ConnInv` does for each connection: what it
owes, another pass or room in the socket gets going (`Owes`), and a parked task
could do nothing, or waits for the pass that renews its budget, or for the
reader of what `poll_closed` read ahead, which is queued (`Parks`). `QueueInv`
and `HelloInv` (a task is queued once, a connection accepted once) keep a waker
from being spent on a task whose turn is over. `Life` bounds when a connection
may drain: only after it closed, and with the reason already read.

### WebTransport and the browser (in `TaskProofs`)

* `WebStreamsSorted` - a stream of the session is never dropped while it could
  say so, and none of another session is handed over. `UniInv` and `BiInv` tie
  the place of each stream to how much of its header has arrived.
* `WebAbandonedIsClosed` - a handshake that ends without a session leaves a
  closed connection behind, wherever it ended. `GuardInv`: from the request on,
  the guard stands for the connection.
* `WebCapsuleAgrees` - the driver takes the CONNECT stream for closed by the peer,
  or for invalid, only when the bytes it was sent say so: for any bytes in any
  chunks, and however capsules and frames overlap. `ReadInv`: the bytes read so
  far are whole frames followed by what is buffered of them, and the DATA of
  those frames is whole capsules, none of which closes, followed by what is
  buffered of the capsules (`Parsed`).

`Demux` and the reference `Contents` walk from one message to the next, and a
message ends behind its beginning. `Recursion` and `Agreement` say that an
equation of that shape has a solution and only one, so both walks compute what
their equations say (`DataSolved`, `EndsSolved`), and compute the same for a
suffix as from its place in the whole (`DataInSuffix`, `EndsInSuffix`). Hence
whole frames in front leave the contents of the rest alone (`SplitsBoth`), whole
capsules in front do not change whether the rest closes (`SkipsBoth`), and what
was said stays said when more bytes come (`SaysMore`).
* `BrowserMessagesBelong` - a message reaches the core of the page only through
  the one attempt that connected it and was not aborted. `HandlersInv` (only the
  newest handler goes on after its await, and it awaits the newest call of
  `follow`) gives `OneFollowsInv` (no two follow loops are at work), which gives
  `CoreInv` (the core is connected by the attempt that is up).

### Model-checked only

Temporal properties (`Converges`, `CallsReturn`, `StallEnds`, `Reconnects`,
`PathsReacquire`, `LastClickWins`, `HandshakeSettles`, `StreamsArrive`,
`CloseEnds`, `EveryoneServed`, `FinishedArrives`): liveness under fairness is out
of the prover's reach.

Every invariant that a run checks has its theorem.

## 5. Not modelled, and the plan

Partly modelled, and what is missing:

* Timeline: the protobuf encoding, fixed-point widths, validity of names.
* Leader: more than one peer, accepting connections, advertising.
* Engine: events, timing counters, the discovery daemons it owns.
* Clock estimator: the drift, a floating-point regression over the selected
  samples, and what it adds to offset and uncertainty.
* QUIC endpoint: outgoing connections, datagrams, the accepting of streams; loss
  recovery and congestion control belong to quinn-proto.
* WebTransport: datagrams, and the mapping of error codes (arithmetic without
  state, except that a session's stream is never cut off with a raw code, which
  `EndsAsMeant` says).
* Presentation: `ClockBridge` and `sample_time` of `output.rs`, arithmetic on two
  floating-point clocks.

Not modelled: TLS and certificates (no state of their own); discovery (a map that
an external daemon fills, one entry per event); the native bindings (handles and
conversions), packaging and examples. The QUIC and MoQ libraries, the kernel and
browsers appear only as what they may deliver, delay, reorder, refuse or drop.

Open: what `docs/protocol.md` and the comments should say of the four disagreements
and of the refused leader of a tracked timeline; the properties above follow the
code.
