# A TLA+ model of the I_was_a_car control program

The repository holds the program of a model car (`captureOpenCV.c`, about 3900
lines of C), a threading library it links (`nvthread.c`), the library that talks
to the car's control board (`car_lib.h`), and desktop tools for tuning. The car
follows a yellow lane with a camera, climbs hills, looks for a parking space,
stops at stop lines, and then passes a rotary or a traffic light course.

This directory models the control of that program, checks it with TLC on small
instances, and proves the properties that matter most with TLAPS.

## Inventory

| Component | State it keeps | Operations | Talks to |
|---|---|---|---|
| main | options, semaphores, the thread handles | set-up, kick-off, wait, stop the car, join, tear-down | both threads, by semaphores, `pthread_create` and the global `speed` |
| CaptureThread | frame counter, release list, global `capSurf` | fetch, signal, render, dump, return, flush | NvMedia; ControlThread by `mutex`, `cond`, `capSurf` |
| ControlThread | `flag`, `stop_check`, `stop_line_detected`, `color`, `angle`, `speed` | one iteration per third frame | everything below |
| Find_Center, hill_sequence | full locks and their memory, hill counters | steer, choose the speed, back off a hill | the encoder of the board |
| check_parking | stage, three detect flags, previous distance, encoder | one step of the search per frame | filteredIR, the encoder |
| Missions (detectStop, detect_signal, rotary, Traffic_Light, AfterTraffic, endMission) | statics and globals for the stage of each | one frame each; some wait for frames or for the encoder | steering, the encoder |
| DistanceThread, filteredIR | a window of 15 readings per sensor, a warm-up flag | rewrite the window for ever; average it | i2c sensors; no lock |
| Three-lane course (find_center_in_3way, Threeway_hardcoding) | stages `threeway_flag`, `flag_tw`, `flag_YL`, the way round `destiny` | find the obstacle, back off, drive leg by leg | steering, the encoder; reached from no path at this commit |
| car_lib.h | global `buf`, `read_buf`, file descriptors | some 30 reads and writes | the control board over a serial line |
| nvthread.c | mutexes, condition variables, counters | threads, events, semaphores, queues | used by main (threads and semaphores) |
| Parking manoeuvres | globals | fixed sequences of encoder waits, not reachable at this commit | |
| simulators, yuvTrackbar, scripts | – | tuning on stored images | nothing of the car |

What is hard here: four threads share globals with one mutex, which covers only
`capSurf`; the condition variable has no predicate; ControlThread is never
joined; the loop of the missions is spread over statics and globals that are
reset in some places only; three features share one encoder; several loops wait
for the car to move and look at nothing else; every device call may fail. What
makes each part correct is written down as the hazards of `PROJECT.json`, each
at its line, with the properties that watch it or the reason why none does.

## Modules

| Module | Models | How |
|---|---|---|
| `FramePipeline` | main, CaptureThread, the top of ControlThread's loop | one action per call or critical section; `main`, `cap`, `ctl` are the program counters; the command line and the faults of an execution are chosen in Init (`options`) |
| `MissionControl` | ControlThread's dispatch and all missions | a frame is one action up to its two serial writes at the end, steering with it, speed in a step of its own (`EndOfFrame`, `WriteSpeed`), so that new steering under the old speed is a state; the loops inside rotary, AfterTraffic, find_center_in_3way and hill_sequence have steps of their own (`at`), the last one for each of its callers (`HillReturns`) |
| `LaneKeeping`, `Parking`, `ThreeWay` | Find_Center with hill_sequence; check_parking; the three-lane course | operators that one frame of MissionControl conjoins, in the order of the code |
| `CarState` | speed, steering and encoder, global and in the board | the encoder is a signed mark: how many of the compared counts it has passed, forward or backward |
| `InfraredWindow` | DistanceThread and filteredIR | one action per slot of each thread |
| `RangeSensor` | what check_parking expects of filteredIR | abstract |
| `UartLink` | car_lib.h, the board and the line | bytes of frames and replies; codes and sizes as in the code, numbers of the C types |
| `NvSemaphore` / `Semaphore` | nvthread.c 664-828 | a step is a critical section / an abstract semaphore |
| `NvEvent` / `Event` | nvthread.c 419-634 | a step is a critical section / an abstract event, automatic or manual |
| `NvQueue` / `BoundedQueue` | nvthread.c 858-948 | over two abstract semaphores / an abstract queue |
| `MC...` | constants for TLC | |
| `...Proofs` | theorems | |

The modules fit together as the code does. The semaphores of `FramePipeline` and
`NvQueue` are the abstract one, which `NvSemaphore` implements. The action
`CtlCommand` of `FramePipeline` stands for a whole iteration of
`MissionControl`, which may also never come back. `Measure` in `Parking` may
assume that a sensor that has warmed up is never 0 again, which is what
`RangeSensor` says and `InfraredWindow` implements. Names are those of the
source; `PROJECT.json` maps each definition to its lines.

What images show is free: a frame may show a white line, red pixels, a signal
and so on in any combination that the conditions of the code allow. The
thresholds the code compares with (frame counts, encoder steps) are constants
or marks, so that both sides of each comparison occur.

## Runs

| Run | Bounds | Shows |
|---|---|---|
| `Frames` | 3 surfaces; a display for 7 frames, a display of 6 frames by time with device faults and SIGINT, a dump of 5 frames by time with every fault and spurious wake-ups | the frame under conversion is held and current, frames come in order, no NULL is converted, no shown surface is in the pool, none is returned twice, the pool suffices, all surfaces return, at most one late command, the program ends |
| `FrameDump` (violation) | 3 surfaces, a dump of 4 frames, no faults | a dumped surface is back in the pool while it is converted |
| `Mission` | rotary and traffic light, red in any frame, hills, one lane angle, three end angles | stop line, judgement, mission and end follow each other; red stops the car; the end is final; an angle out of range is written only in the frame that stops the car, before its speed 0; the waits for the encoder, on hills too, end |
| `MissionLane` | lane, hills, distances 0, 100, 250, red | speeds, counters and stages of lane, hill and parking never mix; red is not taken for a hill |
| `MissionParks` (violation) | lane and walls | a recognised space never starts the parking |
| `Course` | the three-lane course, red in any frame, hills | a leg counts its own distance, no command to reverse outlives the frame of hill_sequence or the course, the course and its waits end |
| `Infrared` | window of 3, distances 1 and 3 | the rewritten window is a sensor; it warms up |
| `Uart` | 4 registers, 2 frames in flight, whole replies | numbers arrive and come back; reads return |
| `UartSplit` (violation) | the same, replies in pieces | a read may return a number that was never sent |
| `Semaphore` | 3 takers, at most 2 tokens (the count never wraps, by assumption) | no lost wake-up, tokens are taken, a semaphore |
| `Event` | 3 waiters, events of both kinds | an automatic event loses no wake-up, a set is passed on, an event |
| `Queue` | 3 threads, 2 items, 2 slots | slots are accounted for, a bounded queue |

Why the bounds are enough: ControlThread is signalled every third frame, so six
or seven frames let it miss a signal, convert two frames and be late; three
surfaces are what `VIP_BUFFER_SIZE` gives the program. By time, the loop may end
before any frame, and `last` bounds the number of frames. Counters of frames
saturate one past the threshold they are compared with (`low_speed_limit` and
`second_limit` stand for 10 and 30; `PassBound` and `LateBound` bound `pass` and
`late`). The encoder has one mark for each count the missions of a run compare
it with (`LaneMarks`, `MissionMarks`, `CourseMarks`; backward `HillMarks`,
`CourseBackMarks`), so each comparison has both outcomes and the order of the
counts is kept. `Mission` and `Course` set the limits of the hill counters to 0,
so that one slow frame suffices to back off from any of the places that call
Find_Center; `MissionLane` counts. A window of three slots lets DistanceThread
overtake filteredIR between two slots.
Two frames in flight are a write followed by a request. Three waiters are one
that is woken, one that sleeps on, and one that comes in between.

`CHECK_DEADLOCK FALSE` is set where the program ends (`Frame...`) or stands for
ever (`Mission...`, `Course`: parked, crashed, a course or a mission that is over).

## Fairness

- `FramePipeline`: weak fairness of main, CaptureThread and the part of
  ControlThread that takes and releases the mutex (the kernel runs every
  thread). Nothing is assumed of the mission logic: it may loop for ever, and
  the program must still end.
- `MissionControl`: a loop that polls the encoder sees it and goes on, and a
  frame is brought to its end, as nothing blocks the thread there (weak fairness
  of `WaitDone` and `WriteSpeed`). A car that was told to drive moves: strong
  fairness of `CarRolls`, because the model lets the car pass no mark between the
  two serial writes that end a frame of the main loop, so that this moment
  interrupts it again and again. That is an assumption (the writes are a few
  bytes apart, the marks thousands of steps), made to keep the states few. For
  the course also: while frames come, ControlThread handles those of the legs
  (weak fairness of `FrameLegs`).
- `InfraredWindow`: DistanceThread runs, and ControlThread calls again.
- `UartLink`: the board takes frames, the line delivers, a read that can return does.
- `NvSemaphore`, `NvEvent`: a thread that can take the mutex does. Timeouts and
  spurious wake-ups are never assumed to happen.

## Proofs

`FramePipelineProofs`. `TypeCorrect` needs `LoopInv`: inside the loop the frame
counter is below the limit, and past GetFrame `capSurf` is a surface.
`NullIsNeverRead` adds `MutexInv` (who owns the mutex; CaptureThread may keep it
for good) and `NullInv`: a NULL `capSurf` with a waiter that is due lies behind
a mutex that is never released. `CurrentFrameIsHeld` adds `HeldInv`: while
frames stream, the current surface is held and not on the release list.
`OneLateCommand` adds `LateInv`: main stops the car only after CaptureThread has
ended, and then a command can only come from a frame ControlThread already has.
`ConvertsInOrder` adds `OrderInv`: a waiter is due for a frame newer than the
last one converted, and a new frame has a number that no conversion has reached.
The properties themselves except spurious wake-ups where `cond` lacks a
predicate, and dumps and failing renders for `CurrentFrameIsHeld`; the theorems
hold for any pool, any options and any other faults.

`FramePoolProofs`. `ListInv` relates `held`, `kept` and the release list at each
point of the loop, whatever fails: `ShownIsHeld` and `DumpReturnsOnce` follow.
With working devices `PoolInv` counts what the program holds between two frames,
at most the one surface the mixer shows, hence `TwoSurfacesSuffice` (which
assumes that there are two different surfaces); `FlushInv` carries the account
through the flush to `AllReturned`, with the same assumption.

`MissionControlProofs`. The invariants of the first theorems are inductive
together with four facts (`IInv`): after red the speed about to be written is 0
(`RedStopping`), since a frame ends in two steps; the car stands between stopping
at a line and judging (`StandsAtLine`); a loop belongs to its mission
(`InMission`), without which hill_sequence could return into another one; and
only the legs leave a negative speed (`Backing`, with `ReverseTakenBack`), so
that the frame that hill_sequence interrupts takes its command back.
`JudgesStanding` is a step of that invariant. `ParkInv`
(stages, warm-up) gives `SearchInOrder` and `WarmBeforeSearch`; `RedInv`
(`HILLDISABLE` tells what the frame before has shown) gives `StandsForRed`.
`SteerInv` keeps the global angle and the servo in range until endMission
finishes; `FinishedStands` says that this frame stops the car. It needs
`ThreeWays = FALSE`, since an obstacle in the centre steers out of range.
`LegInv` ties the sign of the counter to the direction in which each leg drives
and gives `LegsCount`; it needs the sides of all legs (`LegSides`) and that no
leg of one half runs in the other; while hill_sequence interrupts the last leg
out, the counter is its own (`hill_course`). `TypeCorrect` is proved group by group
(`DriveTypes`, `StageTypes`, and those of lane, parking and course): what ends a
frame (`FrameEnds`) writes only speeds of the list, `IInv` says where hill_sequence returns to,
`ParkInv` bounds the stage of
the search and `LegInv` the stages of the legs, of which `TypeOK` alone would
allow one step too many. All for any marks, limits, angles, distances and sets of
missions.

`NvSemaphoreProofs`. `NoLostWakeup` is inductive with the types: an increment
that stays silent finds the count at its maximum, where nobody sleeps.
`Refinement` maps every step to a step or a stutter of `Semaphore`.

`NvEventProofs`. `OneAwake` is inductive with the types: a set wakes a
sleeper, and on an automatic event the thread that takes the signal also resets
it, so that nothing is left for those who sleep on. `Refinement` maps steps to
those of `Event`.

`NvQueueProofs`. `NoSlotLost`: tokens of both semaphores, items and calls
in progress add up to the size, for any finite set of threads; `TypeCorrect`
follows from it, since the counts are what keeps the item count in range.
`Refinement` adds `RingInv` (the slot written last holds the newest item, a
thread about to put has an item): since the items fit into the ring, their slots
and the free one behind them differ (`SlotsApart`), so a write appends
(`PutAppends`) and a read takes the first (`GetTakes`).

`InfraredWindowProofs`. `Refinement`: the slots DistanceThread has passed hold a
distance; a sum is only begun when all do; a sum of j distances lies between j
times the bounds; hence so does its rounded average (`AverageInRange`).

`UartLinkProofs`. The codes of the board differ, `0x90` to `0xB1` (`CodesDiffer`),
so that a frame is taken by one register only and as what it was sent for
(`TakesWrite`, `TakesRead`, over the shapes of the frames). `DecodedBytes` is the
round trip of a number: for one, two and four bytes, of either sign, `Decoded`
gives back what `Bytes` took apart. The checksum needs no such lemma: both
ends compute the same function of the same bytes, whatever it is.
`CommandsReachBoard` follows from `AllSettled`: what the program last wrote to a
register is in the board with no write of it under way, or in the last frame under
way that writes it. `RepliesMatch` follows from `OneReply`: while a read waits,
either its request is the last frame to the board and nothing comes back
(`Requested`), or the board has answered and its reply is still to be delivered
(`Answered`) or lies whole in the device (`Delivered`); otherwise nothing is on
its way back. It assumes `SplitReplies = FALSE`: the run `UartSplit` shows that
it is false otherwise. Both hold for any choice of registers, of those that move
by themselves, and of numbers of their C types (`ValueAssumption`).

Assumptions are the named `ASSUME`s of the modules: `maxCount + 1 < Modulus`
(a maximum of 2^32 - 1 would wrap), a sensor that never measures 0, finite sets
of threads where they are counted, numbers that fit the C type they are written as.

Only model-checked: all liveness, which the prover does not do, as it does no
induction over data. Every invariant and every action property that a passing
run checks is also a theorem.

## What the work found

- `check_parking` never returns from the call that recognises a space (run
  `MissionParks`), so the manoeuvres behind it are unreachable.
- The serial device returns from a read at the first byte, although the comment
  speaks of blocking until the reply is complete (run `UartSplit`).
- `stop_line_detected` is never reset: from the second stop line on, the car
  judges what comes next while it drives. `FirstJudgedWhileStopped` states what
  is left of the rule.
- `color` becomes 1 again in the frame that judges a rotary.
- `-vt` without a number captures 300 frames, not 10 seconds.
- In dump mode a surface is returned before it is processed (run `FrameDump`).
- AfterTraffic waits for the encoder of a car that red has stopped: for ever.
  `WaitEnds` is about a car that was told to drive.
- rotary keeps camera positions in the global steering angle; leaving it, 1800
  can reach the steering servo of a moving car.
- endMission bounds its angle to 1000..2000, but not in the frame in which it
  finishes: the unbounded angle reaches the servo while the car drives on under
  the last speed, until speed 0 is written next.
- An obstacle in the centre makes `destiny` 4 and the angle 1500 - 4 * 430.
- white_line_process returns 2 only behind a `break`: the course is never reached.
- In the course, red during a leg leaves the speed 0 for good (`CourseEnds`
  excepts it), and the stop at the yellow line is overridden in the same frame.
- NvEventSet wakes one sleeper of a manual event, although it stays set for all.
- Two string literals of the course (captureOpenCV.c 2120, 2122) are not closed,
  so the file does not compile at this commit; the models take them as meant.

## Not modelled

Pixels: the colour thresholds, the scanning for lane slopes, the resize tables;
what they find is an input of the models. The parking manoeuvres, which no path
reaches: fixed sequences of waits for the encoder, without a decision.
NvMutex, thread priorities, creation failures and destruction in nvthread.c.
LineThread, whose creation is commented out. The simulators and tools. NvMedia and POSIX
appear as the calls the code makes; the board's side of the serial line is
external. The three-lane course is modelled although no path reaches it: the
constant `ThreeWays` stands for a white_line_process that finds it.

## Plan

Done first, because everything else depends on it: the pipeline, then the
missions with their lane and parking parts, then the primitives and the links to
the sensors and the board; then the dump mode of the pipeline, the three-lane
course, the events, and the proofs about missions and pool. Left, in this order:

1. `UartLink` with a second caller: main's last commands share `buf` with
   ControlThread; together with the value of the global `speed` in `FramePipeline`.
2. Proofs: the lemmas of `UartLinkProofs` on frames carried over to two callers.
3. The parking manoeuvres, from the code as it would run if it were reached.
