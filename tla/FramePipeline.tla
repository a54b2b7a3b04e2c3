--------------------------- MODULE FramePipeline ---------------------------
(***************************************************************************)
(* How a video frame travels from the capture device to the steering code  *)
(* of captureOpenCV.c: main() starts CaptureThread and ControlThread,      *)
(* CaptureThread fetches surfaces from NvMedia, shows them through the     *)
(* mixer (or dumps them to a file) and hands them back to the capture      *)
(* pool, and ControlThread converts the surface in the global capSurf      *)
(* each time the condition variable `cond' is signalled.  One step of a    *)
(* thread is one call (or one critical section) of its code.               *)
(***************************************************************************)
EXTENDS Naturals, FiniteSets

CONSTANTS
    Surfaces,         \* the surfaces of the capture pool (VIP_BUFFER_SIZE / 2)
    NoSurface,        \* NULL
    Options           \* command lines, each with what may go wrong meanwhile

AllFaults == {"setup", "sigint", "getframe", "render", "dump", "return",
              "surflock", "spurious"}

ASSUME NoSurfaceAssumption == NoSurface \notin Surfaces

\* -vf, a file to dump to; -vt, seconds, and -vn, frames to capture, 0 if not
\* given; and faults outside the program.
ASSUME OptionAssumption ==
    Options \subseteq [fileDumpEnabled : BOOLEAN, captureTime : Nat, captureCount : Nat,
                       faults : SUBSET AllFaults]

LateBound == 2    \* bound of the history counter `late'

VARIABLES
    options,             \* what this process was started with
    main, cap, ctl,      \* where each thread is
    stop,                \* the global stop flag
    i,                   \* CaptureThread's frame counter
    mutex,               \* the thread that owns the global mutex
    capSurf,             \* the global surface pointer
    woken,               \* ControlThread's pthread_cond_wait is due to return
    semStart, semDone,   \* the counts of the two semaphores (at most 1)
    held,                \* surfaces fetched and not yet returned to the pool
    kept,                \* surfaces the mixer still shows
    releaseList,         \* what the last render call released
    frame,               \* frame[s]: number of the frame captured in s
    reading,             \* the surface Frame2Ipl has locked
    lastRead,            \* newest frame number ControlThread converted, plus 1
    late                 \* ControlThread's commands since main's last write of
                         \* the speed, counted up to LateBound

capVars  == <<i, capSurf, held, kept, releaseList, frame>>
ctlVars  == <<reading, lastRead, late>>
semVars  == <<semStart, semDone>>
vars == <<options, main, cap, ctl, stop, mutex, woken, capVars, ctlVars, semVars>>

\* ParseOptions turns the display on exactly when no dump file is given, lets
\* the count win over the time, and captures 300 frames if neither is given.
displayEnabled == ~options.fileDumpEnabled
timeNotCount == options.captureTime # 0 /\ options.captureCount = 0

\* ctx->last. By time it counts seconds; here it also bounds their frames.
last == IF timeNotCount THEN options.captureTime
        ELSE IF options.captureCount # 0 THEN options.captureCount ELSE 300

MayFail(fault) == fault \in options.faults

Running == main # "exited"     \* the process, and with it every thread, is alive

Init ==
    /\ options \in Options
    /\ main = "setup" /\ cap = "none" /\ ctl = "none"
    /\ stop = FALSE /\ i = 0 /\ mutex = "free" /\ capSurf = NoSurface
    /\ woken = FALSE /\ semStart = 0 /\ semDone = 0
    /\ held = {} /\ kept = {} /\ releaseList = {}
    /\ frame = [s \in Surfaces |-> 0]
    /\ reading = NoSurface /\ lastRead = 0
    /\ late = 0

----------------------------------------------------------------------------
(* main *)

\* Mutant: the error path joins a thread that was never created.
MainSetupFails_Joins ==
    /\ main = "setup" /\ MayFail("setup")
    /\ main' = "join"
    /\ UNCHANGED <<cap, ctl, stop, mutex, woken, capVars, ctlVars, semVars>>

\* Opening a device, the mixer or a file fails: goto fail, no thread exists.
MainSetupFails ==
    /\ main = "setup" /\ MayFail("setup")
    /\ main' = "teardown"
    /\ UNCHANGED <<cap, ctl, stop, mutex, woken, capVars, ctlVars, semVars>>

\* NvThreadCreate(CaptureThread); main then waits for the thread's pid.
MainCreateCapture ==
    /\ main = "setup"
    /\ main' = "kickoff" /\ cap' = "born"
    /\ UNCHANGED <<ctl, stop, mutex, woken, capVars, ctlVars, semVars>>

\* NvThreadCreate returns once the pid is set; then NvMediaVideoCaptureStart
\* and NvSemaphoreIncrement(vipStartSem).
MainKickoff ==
    /\ main = "kickoff" /\ cap # "born"
    /\ main' = "control" /\ semStart' = 1
    /\ UNCHANGED <<cap, ctl, stop, mutex, woken, capVars, ctlVars, semDone>>

\* pthread_create(ControlThread): it may come after the first signal.
MainCreateControl ==
    /\ main = "control"
    /\ main' = "wait" /\ ctl' = "lock"
    /\ UNCHANGED <<cap, stop, mutex, woken, capVars, ctlVars, semVars>>

\* NvSemaphoreDecrement(vipDoneSem, NV_TIMEOUT_INFINITE).
MainWaitDone ==
    /\ main = "wait" /\ semDone > 0
    /\ main' = "stopcar" /\ semDone' = semDone - 1
    /\ UNCHANGED <<cap, ctl, stop, mutex, woken, capVars, ctlVars, semStart>>

\* speed = 0; DesireSpeed_Write(speed): main's last word to the motor. Behind it
\* the lights are put out and the steering and camera servos set to 1500.
MainStopCar ==
    /\ main = "stopcar"
    /\ main' = "join"
    /\ UNCHANGED <<cap, ctl, stop, mutex, woken, capVars, ctlVars, semVars>>

\* NvThreadDestroy(vipThread) joins CaptureThread; nobody joins ControlThread.
MainJoin ==
    /\ main = "join" /\ cap = "exited"
    /\ main' = "teardown"
    /\ UNCHANGED <<cap, ctl, stop, mutex, woken, capVars, ctlVars, semVars>>

\* Semaphores, mixer and capture are destroyed and main returns.
MainTeardown ==
    /\ main = "teardown"
    /\ main' = "exited"
    /\ UNCHANGED <<cap, ctl, stop, mutex, woken, capVars, ctlVars, semVars>>

\* SIGINT: SignalHandler only sets the flag.
SignalHandler ==
    /\ MayFail("sigint") /\ Running /\ ~stop
    /\ stop' = TRUE
    /\ UNCHANGED <<main, cap, ctl, mutex, woken, capVars, ctlVars, semVars>>

----------------------------------------------------------------------------
(* CaptureThread *)

\* The new thread sets its pid under the mutex of its NvThread and signals the
\* creator, which waits in a loop until the pid is not 0.
ThreadFunc ==
    /\ cap = "born"
    /\ cap' = "start"
    /\ UNCHANGED <<main, ctl, stop, mutex, woken, capVars, ctlVars, semVars>>

\* NvSemaphoreDecrement(ctx->semStart).
CapStart ==
    /\ cap = "start" /\ semStart > 0
    /\ semStart' = semStart - 1 /\ cap' = "test"
    /\ UNCHANGED <<main, ctl, stop, mutex, woken, capVars, ctlVars, semDone>>

\* Mutant: <= for < in the loop condition.
CapTest_OneMore ==
    /\ cap = "test"
    /\ \/ ~stop /\ i <= last /\ cap' = "lock"
       \/ (stop \/ i > last \/ timeNotCount) /\ cap' = "flush"
    /\ UNCHANGED <<main, ctl, stop, mutex, woken, capVars, ctlVars, semVars>>

\* The loop condition: by time it may end anywhere, by count at `last'.
CapTest ==
    /\ cap = "test"
    /\ \/ ~stop /\ i < last /\ cap' = "lock"
       \/ (stop \/ i >= last \/ timeNotCount) /\ cap' = "flush"
    /\ UNCHANGED <<main, ctl, stop, mutex, woken, capVars, ctlVars, semVars>>

CapLock ==
    /\ cap = "lock" /\ mutex = "free"
    /\ mutex' = "cap" /\ cap' = "get"
    /\ UNCHANGED <<main, ctl, stop, woken, capVars, ctlVars, semVars>>

\* NvMediaVideoCaptureGetFrame: NULL when the pool is empty or on a timeout.
CapGetFrame ==
    /\ cap = "get"
    /\ \E s \in Surfaces \ held :
          /\ capSurf' = s
          /\ held' = held \cup {s}
          /\ frame' = [frame EXCEPT ![s] = i]
    /\ cap' = "signal"
    /\ UNCHANGED <<main, ctl, stop, mutex, woken, i, kept, releaseList,
                   ctlVars, semVars>>

\* Mutant: the failing path unlocks the mutex before it leaves the loop.
CapGetFrameFails_Unlocks ==
    /\ cap = "get" /\ (MayFail("getframe") \/ Surfaces \subseteq held)
    /\ capSurf' = NoSurface /\ stop' = TRUE /\ cap' = "flush" /\ mutex' = "free"
    /\ UNCHANGED <<main, ctl, woken, i, held, kept, releaseList, frame,
                   ctlVars, semVars>>

\* The loop is left by `break' with the mutex still locked.
CapGetFrameFails ==
    /\ cap = "get" /\ (MayFail("getframe") \/ Surfaces \subseteq held)
    /\ capSurf' = NoSurface /\ stop' = TRUE /\ cap' = "flush"
    /\ UNCHANGED <<main, ctl, mutex, woken, i, held, kept, releaseList, frame,
                   ctlVars, semVars>>

\* Mutant: a signal with a memory, as a semaphore would have.
CapSignal_Remembered ==
    /\ cap = "signal"
    /\ woken' = (woken \/ i % 3 = 0)
    /\ mutex' = "free" /\ cap' = "top"
    /\ UNCHANGED <<main, ctl, stop, capVars, ctlVars, semVars>>

\* Every third frame wakes ControlThread, if it waits; then the unlock.
CapSignal ==
    /\ cap = "signal"
    /\ woken' = (woken \/ (i % 3 = 0 /\ ctl = "wait"))
    /\ mutex' = "free" /\ cap' = "top"
    /\ UNCHANGED <<main, ctl, stop, capVars, ctlVars, semVars>>

\* A failing render may leave the list of an earlier call in place.
RenderFails ==
    MayFail("render") /\ releaseList' \in {releaseList, {}} /\ UNCHANGED kept

\* The first field: the mixer takes the new surface and keeps the old one.
CapRenderTop ==
    /\ cap = "top" /\ cap' = "bottom"
    /\ \/ kept' = kept \cup {capSurf} /\ releaseList' = {} /\ UNCHANGED stop
       \/ RenderFails /\ stop' = TRUE
    /\ UNCHANGED <<main, ctl, mutex, woken, i, capSurf, held, frame,
                   ctlVars, semVars>>

\* The second field: every older surface is released.
CapRenderBottom ==
    /\ cap = "bottom" /\ cap' = IF options.fileDumpEnabled THEN "dump" ELSE "return"
    /\ \/ kept' = {capSurf} /\ releaseList' = kept \ {capSurf} /\ UNCHANGED stop
       \/ RenderFails /\ stop' = TRUE
    /\ UNCHANGED <<main, ctl, mutex, woken, i, capSurf, held, frame,
                   ctlVars, semVars>>

\* Mutant: the dumped surface is added to the list instead of replacing it.
CapDump_Appends ==
    /\ cap = "dump" /\ cap' = "return"
    /\ releaseList' = IF displayEnabled THEN releaseList ELSE releaseList \cup {capSurf}
    /\ UNCHANGED <<main, ctl, stop, mutex, woken, i, capSurf, held, kept, frame,
                   ctlVars, semVars>>

\* DumpFrame, and without a display releaseList[0] = capSurf: the entry the
\* mixer wrote (never more than one here) is overwritten.
CapDump ==
    /\ cap = "dump" /\ cap' = "return"
    /\ releaseList' = IF displayEnabled THEN releaseList ELSE {capSurf}
    /\ \/ UNCHANGED stop
       \/ MayFail("dump") /\ stop' = TRUE
    /\ UNCHANGED <<main, ctl, mutex, woken, i, capSurf, held, kept, frame,
                   ctlVars, semVars>>

\* Mutant: the list is not walked.
CapReturn_Nothing ==
    /\ cap = "return" /\ cap' = "test"
    /\ i' = i + 1
    /\ UNCHANGED <<main, ctl, stop, mutex, woken, capSurf, held, kept, releaseList,
                   frame, ctlVars, semVars>>

\* Mutant: the surface just shown is returned with the released ones.
CapReturn_Shown ==
    /\ cap = "return" /\ cap' = "test"
    /\ held' = held \ (releaseList \cup {capSurf})
    /\ i' = i + 1
    /\ UNCHANGED <<main, ctl, stop, mutex, woken, capSurf, kept, releaseList,
                   frame, ctlVars, semVars>>

\* Every released surface goes back to the pool; the first error ends both
\* this loop and the outer one.
CapReturn ==
    /\ cap = "return" /\ cap' = "test"
    /\ \E returned \in SUBSET releaseList :
          /\ held' = held \ returned
          /\ \/ returned = releaseList /\ UNCHANGED stop
             \/ MayFail("return") /\ returned # releaseList /\ stop' = TRUE
    /\ i' = i + 1
    /\ UNCHANGED <<main, ctl, mutex, woken, capSurf, kept, releaseList, frame,
                   ctlVars, semVars>>

\* Mutant: the mixer is emptied, but what it releases is not returned.
CapFlush_Keeps ==
    /\ cap = "flush" /\ cap' = "done"
    /\ IF displayEnabled /\ capSurf # NoSurface
          THEN kept' = {} /\ releaseList' = kept
          ELSE UNCHANGED <<kept, releaseList>>
    /\ UNCHANGED <<main, ctl, stop, mutex, woken, i, capSurf, held, frame,
                   ctlVars, semVars>>

\* "Release any left-over frames": a render without a primary video empties
\* the mixer, and what it releases is returned; errors are not looked at.
CapFlush ==
    /\ cap = "flush" /\ cap' = "done"
    /\ IF displayEnabled /\ capSurf # NoSurface
          THEN /\ \/ kept' = {} /\ releaseList' = kept
                  \/ RenderFails
               /\ \E returned \in SUBSET releaseList' :
                     /\ held' = held \ returned
                     /\ returned = releaseList' \/ MayFail("return")
          ELSE UNCHANGED <<held, kept, releaseList>>
    /\ UNCHANGED <<main, ctl, stop, mutex, woken, i, capSurf, frame,
                   ctlVars, semVars>>

\* NvSemaphoreIncrement(ctx->semDone).
CapDone ==
    /\ cap = "done" /\ cap' = "exited"
    /\ semDone' = 1
    /\ UNCHANGED <<main, ctl, stop, mutex, woken, capVars, ctlVars, semStart>>

----------------------------------------------------------------------------
(* ControlThread: the top of its loop and the commands that end it *)

\* pthread_mutex_lock, then pthread_cond_wait releases the mutex at once.
CtlWait ==
    /\ ctl = "lock" /\ mutex = "free"
    /\ ctl' = "wait"
    /\ UNCHANGED <<main, cap, stop, mutex, woken, capVars, ctlVars, semVars>>

\* POSIX lets pthread_cond_wait return without a signal.
CtlSpurious ==
    /\ MayFail("spurious") /\ ctl = "wait" /\ ~woken
    /\ woken' = TRUE
    /\ UNCHANGED <<main, cap, ctl, stop, mutex, capVars, ctlVars, semVars>>

\* Mutant: the mutex is released before Frame2Ipl reads the surface, as
\* find_center_in_3way does.
CtlWake_Unlocked ==
    /\ ctl = "wait" /\ woken /\ mutex = "free"
    /\ woken' = FALSE /\ ctl' = "convert"
    /\ reading' = capSurf
    /\ lastRead' = IF capSurf = NoSurface THEN lastRead ELSE frame[capSurf] + 1
    /\ UNCHANGED <<main, cap, stop, mutex, capVars, late, semVars>>

\* Mutant: the same signal is seen again by the next wait.
CtlWake_Twice ==
    /\ ctl = "wait" /\ woken /\ mutex = "free"
    /\ mutex' = "ctl" /\ ctl' = "convert"
    /\ reading' = capSurf
    /\ lastRead' = IF capSurf = NoSurface THEN lastRead ELSE frame[capSurf] + 1
    /\ UNCHANGED <<main, cap, stop, woken, capVars, late, semVars>>

\* The wait returns with the mutex; no predicate is tested. Frame2Ipl locks
\* the surface capSurf names at that moment.
CtlWake ==
    /\ ctl = "wait" /\ woken /\ mutex = "free"
    /\ woken' = FALSE /\ mutex' = "ctl" /\ ctl' = "convert"
    /\ reading' = capSurf
    /\ lastRead' = IF capSurf = NoSurface THEN lastRead ELSE frame[capSurf] + 1
    /\ UNCHANGED <<main, cap, stop, capVars, late, semVars>>

\* NvMediaVideoSurfaceLock fails: Frame2Ipl returns 0, which nobody looks at,
\* and the images of the previous frame are used again.
CtlWakeLockFails ==
    /\ MayFail("surflock")
    /\ ctl = "wait" /\ woken /\ mutex = "free"
    /\ woken' = FALSE /\ ctl' = "decide"
    /\ UNCHANGED <<main, cap, stop, mutex, capVars, ctlVars, semVars>>

\* The surface is unlocked, then the mutex.
CtlUnlock ==
    /\ ctl = "convert"
    /\ reading' = NoSurface /\ mutex' = "free" /\ ctl' = "decide"
    /\ UNCHANGED <<main, cap, stop, woken, capVars, lastRead, late, semVars>>

\* The mission logic decides (it may also never come back) and the commands
\* of the frame are written at its end.
CtlCommand ==
    /\ ctl = "decide"
    /\ late' = IF main \in {"join", "teardown"} /\ late < LateBound
                  THEN late + 1 ELSE late
    /\ ctl' = "lock"
    /\ UNCHANGED <<main, cap, stop, mutex, woken, capVars, reading, lastRead, semVars>>

----------------------------------------------------------------------------
Main == \/ MainSetupFails \/ MainCreateCapture \/ MainKickoff \/ MainCreateControl
        \/ MainWaitDone \/ MainStopCar \/ MainJoin \/ MainTeardown

CaptureThread == \/ ThreadFunc \/ CapStart \/ CapTest \/ CapLock \/ CapGetFrame
                 \/ CapGetFrameFails
                 \/ CapSignal \/ CapRenderTop \/ CapRenderBottom \/ CapDump
                 \/ CapReturn \/ CapFlush \/ CapDone

\* The part of ControlThread that holds or waits for the mutex.
ControlAcquire == CtlWait \/ CtlWake \/ CtlWakeLockFails \/ CtlUnlock
ControlThread == ControlAcquire \/ CtlCommand

Kept(step) == step /\ UNCHANGED options

Next == \/ Kept(Main)
        \/ Kept(SignalHandler)
        \/ Running /\ Kept(CaptureThread)
        \/ Running /\ Kept(ControlThread)
        \/ Running /\ Kept(CtlSpurious)

\* The kernel schedules every thread and a mutex that stays free is taken;
\* nothing is assumed of the mission logic, which may loop for ever.
Fairness == /\ WF_vars(Kept(Main))
            /\ WF_vars(Running /\ Kept(CaptureThread))
            /\ WF_vars(Running /\ Kept(ControlAcquire))

Spec == Init /\ [][Next]_vars
FairSpec == Spec /\ Fairness

----------------------------------------------------------------------------
(* Properties *)

\* Every variable has its type.
TypeOK ==
    /\ options \in Options
    /\ main \in {"setup", "kickoff", "control", "wait", "stopcar", "join",
                 "teardown", "exited"}
    /\ cap \in {"none", "born", "start", "test", "lock", "get", "signal", "top", "bottom",
                "dump", "return", "flush", "done", "exited"}
    /\ ctl \in {"none", "lock", "wait", "convert", "decide"}
    /\ stop \in BOOLEAN /\ woken \in BOOLEAN
    /\ i \in 0..last
    /\ mutex \in {"free", "cap", "ctl"}
    /\ capSurf \in Surfaces \cup {NoSurface} /\ reading \in Surfaces \cup {NoSurface}
    /\ semStart \in 0..1 /\ semDone \in 0..1
    /\ held \subseteq Surfaces /\ kept \subseteq Surfaces /\ releaseList \subseteq Surfaces
    /\ frame \in [Surfaces -> 0..last]
    /\ lastRead \in 0..(last + 1)
    /\ late \in 0..LateBound

Streaming == cap \notin {"none", "flush", "done", "exited"}

\* What pthread_cond_wait and the mixer must not do for the properties below.
OnlySignalsWake == ~MayFail("spurious")
RendersWork == displayEnabled /\ ~MayFail("render")

\* With a display, while frames stream, the surface Frame2Ipl reads is the
\* current one and has not been given back to the capture pool under it: the
\* mutex keeps capSurf still and the mixer keeps the surface out of the pool.
ReadsHeldSurface ==
    OnlySignalsWake /\ RendersWork /\ ctl = "convert" /\ Streaming
       => reading = capSurf /\ reading \in held

\* nvmedia.h: "a surface should be passed back ... after it has been processed".
\* In dump mode, where no mixer keeps it, the surface is passed back at once.
ProcessedThenReturned == ctl = "convert" /\ Streaming => reading \in held

\* Frame2Ipl never locks NULL: CaptureThread keeps the mutex for good when
\* GetFrame fails, and no signal comes before the first frame.
NeverReadsNull == OnlySignalsWake /\ ctl = "convert" => reading # NoSurface

\* Without spurious wake-ups ControlThread converts frames in the order they
\* were captured and none twice, although cond carries no predicate.
FramesInOrder ==
    [][OnlySignalsWake /\ ctl' = "convert" /\ ctl # "convert" => lastRead' > lastRead]_vars

\* In dump mode every entry of the release list is a surface the program holds
\* when CaptureThread walks the list: none is returned to the pool twice,
\* although the dump overwrites what the mixer listed.
ReturnsOnlyHeld == ~displayEnabled /\ cap = "return" => releaseList \subseteq held

\* In display mode the mixer never shows a surface that is back in the pool,
\* where the capture engine would write into it, even when renders or returns
\* fail and the release list is stale.
MixerShowsOnlyHeld == displayEnabled => kept \subseteq held

\* With the three surfaces VIP_BUFFER_SIZE = 6 pays for, GetFrame always finds
\* a free one, although the mixer sits on the frame it shows.
PoolNeverEmpty ==
    RendersWork /\ ~MayFail("return") /\ cap = "get" => \E s \in Surfaces : s \notin held

\* The comment over the end of CaptureThread, "Release any left-over frames":
\* with a display and working devices the pool has every surface back when the
\* thread ends.
NoLeftOverFrames ==
    displayEnabled /\ options.faults = {} /\ cap = "exited" => held = {}

\* After main's final DesireSpeed_Write(0) at most one more set of commands of
\* ControlThread, which nobody joins, reaches the car: cond has no memory and
\* nobody signals it any more.
AtMostOneLateCommand == OnlySignalsWake => late <= 1

\* The program ends, whatever ControlThread is doing and whatever failed.
\* (Endless wake-ups without a signal could keep the mutex from CaptureThread.)
Terminates == OnlySignalsWake => <>(main = "exited")
============================================================================
