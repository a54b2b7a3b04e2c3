------------------------ MODULE FramePipelineProofs ------------------------
(* Proofs about FramePipeline for every pool, frame count, mode and set of   *)
(* faults.                                                                   *)
EXTENDS FramePipeline, TLAPS

USE DEF vars, capVars, ctlVars, semVars, Kept

----------------------------------------------------------------------------
(* Types.  CaptureThread counts a frame only in the iterations its loop     *)
(* test admitted, so the counter stays below `last' inside the loop, and    *)
(* past GetFrame capSurf is a surface.                                      *)
InLoop == cap \in {"lock", "get", "signal", "top", "bottom", "dump", "return"}
HasFrame == cap \in {"signal", "top", "bottom", "dump", "return"}
LoopInv == (InLoop => i < last) /\ (HasFrame => capSurf \in Surfaces)

(* The limit that ParseOptions sets is a number of frames or seconds.       *)
LEMMA LastIsNat == options \in Options => last \in Nat
BY OptionAssumption DEF last

(* ... and stays, as all of the options do. *)
LEMMA OptionsStay == [Next]_vars => options' = options /\ last' = last
BY DEF Next, last, timeNotCount

(* The types hold at the start.                                             *)
LEMMA TypeInit == Init => TypeOK
<1> SUFFICES ASSUME Init PROVE TypeOK
  OBVIOUS
<1>1. frame \in [Surfaces -> 0..last]
  BY LastIsNat DEF Init
<1>2. stop \in BOOLEAN /\ woken \in BOOLEAN
  BY DEF Init
<1>3. i \in 0..last /\ lastRead \in 0..(last + 1) /\ late \in 0..LateBound
  BY LastIsNat DEF Init, LateBound
<1> QED BY <1>1, <1>2, <1>3 DEF Init, TypeOK

(* No step of a thread leaves the types. *)
LEMMA TypeStep == TypeOK /\ LoopInv /\ [Next]_vars => TypeOK'
<1> SUFFICES ASSUME TypeOK, LoopInv, [Next]_vars PROVE TypeOK'
  OBVIOUS
<1>0. options' = options /\ last' = last /\ last \in Nat
  BY OptionsStay, LastIsNat DEF TypeOK
<1> USE <1>0 DEF TypeOK
<1>1. CASE Kept(Main)
  BY <1>1 DEF Main, MainSetupFails, MainCreateCapture, MainKickoff,
     MainCreateControl, MainWaitDone, MainStopCar, MainJoin, MainTeardown
<1>2. CASE Kept(SignalHandler)
  BY <1>2 DEF SignalHandler
<1>3. CASE Kept(CaptureThread)
  <2>1. CASE CapStart
    BY <2>1 DEF CapStart
  <2>2. CASE CapTest
    BY <2>2 DEF CapTest
  <2>3. CASE CapLock
    BY <2>3 DEF CapLock
  <2>4. CASE CapGetFrame
    <3>1. frame' \in [Surfaces -> 0..last]
      BY <2>4 DEF CapGetFrame
    <3> QED BY <3>1, <2>4 DEF CapGetFrame
  <2>5. CASE CapGetFrameFails
    BY <2>5 DEF CapGetFrameFails
  <2>6. CASE CapSignal
    BY <2>6 DEF CapSignal
  <2>7. CASE CapRenderTop
    <3>1. stop' \in BOOLEAN /\ kept' \subseteq Surfaces /\ releaseList' \subseteq Surfaces
      BY <2>7 DEF CapRenderTop, RenderFails, LoopInv, HasFrame
    <3> QED BY <3>1, <2>7 DEF CapRenderTop
  <2>8. CASE CapRenderBottom
    <3>1. stop' \in BOOLEAN /\ kept' \subseteq Surfaces /\ releaseList' \subseteq Surfaces
      BY <2>8 DEF CapRenderBottom, RenderFails, LoopInv, HasFrame
    <3> QED BY <3>1, <2>8 DEF CapRenderBottom
  <2>9. CASE CapDump
    <3>1. stop' \in BOOLEAN /\ releaseList' \subseteq Surfaces
      BY <2>9 DEF CapDump, LoopInv, HasFrame
    <3> QED BY <3>1, <2>9 DEF CapDump
  <2>10. CASE CapReturn
    <3>1. i' \in 0..last
      BY <2>10, LastIsNat DEF CapReturn, LoopInv, InLoop
    <3>2. stop' \in BOOLEAN /\ held' \subseteq Surfaces
      BY <2>10 DEF CapReturn
    <3> QED BY <3>1, <3>2, <2>10 DEF CapReturn
  <2>11. CASE CapFlush
    <3>1. /\ held' \subseteq Surfaces
          /\ kept' \subseteq Surfaces
          /\ releaseList' \subseteq Surfaces
      BY <2>11 DEF CapFlush, RenderFails
    <3> QED BY <2>11, <3>1 DEF CapFlush
  <2>12. CASE CapDone
    BY <2>12 DEF CapDone
  <2>13. CASE ThreadFunc
    BY <2>13 DEF ThreadFunc
  <2> QED BY <1>3, <2>1, <2>2, <2>3, <2>4, <2>5, <2>6, <2>7, <2>8, <2>9,
         <2>10, <2>11, <2>12, <2>13 DEF CaptureThread
<1>4. CASE Kept(ControlThread)
  <2>1. CASE CtlWait
    BY <2>1 DEF CtlWait
  <2>2. CASE CtlWake
    <3>1. lastRead' \in 0..(last + 1)
      BY <2>2, LastIsNat DEF CtlWake
    <3> QED BY <3>1, <2>2 DEF CtlWake
  <2>3. CASE CtlWakeLockFails
    BY <2>3 DEF CtlWakeLockFails
  <2>4. CASE CtlUnlock
    BY <2>4 DEF CtlUnlock
  <2>5. CASE CtlCommand
    <3>1. late' \in 0..LateBound
      BY <2>5 DEF CtlCommand, LateBound
    <3> QED BY <3>1, <2>5 DEF CtlCommand
  <2> QED BY <1>4, <2>1, <2>2, <2>3, <2>4, <2>5 DEF ControlThread,
         ControlAcquire
<1>5. CASE Kept(CtlSpurious)
  BY <1>5 DEF CtlSpurious
<1>6. CASE UNCHANGED vars
  BY <1>6
<1> QED BY <1>1, <1>2, <1>3, <1>4, <1>5, <1>6 DEF Next

(* The loop test guards the counter, GetFrame the surface. *)
LEMMA LoopStep == TypeOK /\ LoopInv /\ [Next]_vars => LoopInv'
<1> SUFFICES ASSUME TypeOK, LoopInv, [Next]_vars PROVE LoopInv'
  OBVIOUS
<1>0. last' = last /\ last \in Nat
  BY OptionsStay, LastIsNat DEF TypeOK
<1> USE <1>0 DEF LoopInv, InLoop, HasFrame
<1>1. CASE Kept(Main)
  BY <1>1 DEF Main, MainSetupFails, MainCreateCapture, MainKickoff,
     MainCreateControl, MainWaitDone, MainStopCar, MainJoin, MainTeardown
<1>2. CASE Kept(SignalHandler)
  BY <1>2 DEF SignalHandler
<1>3. CASE Kept(CaptureThread)
  <2>1. CASE CapStart
    BY <2>1 DEF CapStart
  <2>2. CASE CapTest
    BY <2>2, LastIsNat DEF CapTest, TypeOK
  <2>3. CASE CapLock
    BY <2>3 DEF CapLock
  <2>4. CASE CapGetFrame
    BY <2>4 DEF CapGetFrame
  <2>5. CASE CapGetFrameFails
    BY <2>5 DEF CapGetFrameFails
  <2>6. CASE CapSignal
    BY <2>6 DEF CapSignal
  <2>7. CASE CapRenderTop
    BY <2>7 DEF CapRenderTop, RenderFails
  <2>8. CASE CapRenderBottom
    BY <2>8 DEF CapRenderBottom, RenderFails
  <2>9. CASE CapDump
    BY <2>9 DEF CapDump
  <2>10. CASE CapReturn
    BY <2>10 DEF CapReturn
  <2>11. CASE CapFlush
    BY <2>11 DEF CapFlush
  <2>12. CASE CapDone
    BY <2>12 DEF CapDone
  <2>13. CASE ThreadFunc
    BY <2>13 DEF ThreadFunc
  <2> QED BY <1>3, <2>1, <2>2, <2>3, <2>4, <2>5, <2>6, <2>7, <2>8, <2>9,
         <2>10, <2>11, <2>12, <2>13 DEF CaptureThread
<1>4. CASE Kept(ControlThread)
  <2>1. CASE CtlWait
    BY <2>1 DEF CtlWait
  <2>2. CASE CtlWake
    BY <2>2 DEF CtlWake
  <2>3. CASE CtlWakeLockFails
    BY <2>3 DEF CtlWakeLockFails
  <2>4. CASE CtlUnlock
    BY <2>4 DEF CtlUnlock
  <2>5. CASE CtlCommand
    BY <2>5 DEF CtlCommand
  <2> QED BY <1>4, <2>1, <2>2, <2>3, <2>4, <2>5 DEF ControlThread,
         ControlAcquire
<1>5. CASE Kept(CtlSpurious)
  BY <1>5 DEF CtlSpurious
<1>6. CASE UNCHANGED vars
  BY <1>6
<1> QED BY <1>1, <1>2, <1>3, <1>4, <1>5, <1>6 DEF Next

(* TypeOK needs LoopInv to be inductive. *)
LEMMA TypeInvariant == Spec => [](TypeOK /\ LoopInv)
<1>1. Init => TypeOK /\ LoopInv
  BY TypeInit DEF Init, LoopInv, InLoop, HasFrame
<1>2. TypeOK /\ LoopInv /\ [Next]_vars => (TypeOK /\ LoopInv)'
  BY TypeStep, LoopStep
<1> QED BY <1>1, <1>2, PTL DEF Spec

(* Every variable of the three threads keeps its type for any pool, count,  *)
(* mode and set of faults; CaptureThread's counter never passes `last'.     *)
THEOREM TypeCorrect == Spec => []TypeOK
<1> QED BY TypeInvariant, PTL

----------------------------------------------------------------------------
(* Who owns the mutex.  CaptureThread may keep it for good after a failed   *)
(* GetFrame, which is why the second conjunct is no equivalence.            *)
MutexInv == /\ mutex = "ctl" <=> ctl = "convert"
            /\ cap \in {"get", "signal"} => mutex = "cap"
            /\ main \in {"setup", "kickoff", "control"} => ctl = "none"

(* No step of any thread breaks the ownership of the mutex.                 *)
LEMMA MutexStep == MutexInv /\ [Next]_vars => MutexInv'
<1> SUFFICES ASSUME MutexInv, [Next]_vars PROVE MutexInv'
  OBVIOUS
<1> USE DEF MutexInv
<1>1. CASE Kept(Main)
  BY <1>1 DEF Main, MainSetupFails, MainCreateCapture, MainKickoff,
     MainCreateControl, MainWaitDone, MainStopCar, MainJoin, MainTeardown
<1>2. CASE Kept(SignalHandler)
  BY <1>2 DEF SignalHandler
<1>3. CASE Kept(CaptureThread)
  <2>1. CASE CapStart
    BY <2>1 DEF CapStart
  <2>2. CASE CapTest
    BY <2>2 DEF CapTest
  <2>3. CASE CapLock
    BY <2>3 DEF CapLock
  <2>4. CASE CapGetFrame
    BY <2>4 DEF CapGetFrame
  <2>5. CASE CapGetFrameFails
    BY <2>5 DEF CapGetFrameFails
  <2>6. CASE CapSignal
    BY <2>6 DEF CapSignal
  <2>7. CASE CapRenderTop
    BY <2>7 DEF CapRenderTop, RenderFails
  <2>8. CASE CapRenderBottom
    BY <2>8 DEF CapRenderBottom, RenderFails
  <2>9. CASE CapDump
    BY <2>9 DEF CapDump
  <2>10. CASE CapReturn
    BY <2>10 DEF CapReturn
  <2>11. CASE CapFlush
    BY <2>11 DEF CapFlush
  <2>12. CASE CapDone
    BY <2>12 DEF CapDone
  <2>13. CASE ThreadFunc
    BY <2>13 DEF ThreadFunc
  <2> QED BY <1>3, <2>1, <2>2, <2>3, <2>4, <2>5, <2>6, <2>7, <2>8, <2>9,
         <2>10, <2>11, <2>12, <2>13 DEF CaptureThread
<1>4. CASE Kept(ControlThread)
  <2>1. CASE CtlWait
    BY <2>1 DEF CtlWait
  <2>2. CASE CtlWake
    BY <2>2 DEF CtlWake
  <2>3. CASE CtlWakeLockFails
    BY <2>3 DEF CtlWakeLockFails
  <2>4. CASE CtlUnlock
    BY <2>4 DEF CtlUnlock
  <2>5. CASE CtlCommand
    BY <2>5 DEF CtlCommand
  <2> QED BY <1>4, <2>1, <2>2, <2>3, <2>4, <2>5 DEF ControlThread,
         ControlAcquire
<1>5. CASE Kept(CtlSpurious)
  BY <1>5 DEF CtlSpurious
<1>6. CASE UNCHANGED vars
  BY <1>6
<1> QED BY <1>1, <1>2, <1>3, <1>4, <1>5, <1>6 DEF Next

(* A waiter is due only after a frame, and a NULL capSurf of a failed       *)
(* GetFrame is shut behind the mutex for ever.                              *)
NullInv == /\ woken => ctl = "wait"
           /\ capSurf = NoSurface /\ woken =>
                 mutex = "cap" /\ cap \in {"flush", "done", "exited"}
           /\ ctl = "convert" => reading # NoSurface

(* No step brings NULL before a waiter, spurious wake-ups aside.            *)
LEMMA NullStep ==
    OnlySignalsWake /\ TypeOK /\ LoopInv /\ MutexInv /\ NullInv /\ [Next]_vars => NullInv'
<1> SUFFICES ASSUME OnlySignalsWake, TypeOK, LoopInv, MutexInv, NullInv, [Next]_vars
             PROVE  NullInv'
  OBVIOUS
<1> USE NoSurfaceAssumption DEF NullInv, MutexInv, OnlySignalsWake
<1>1. CASE Kept(Main)
  BY <1>1 DEF Main, MainSetupFails, MainCreateCapture, MainKickoff,
     MainCreateControl, MainWaitDone, MainStopCar, MainJoin, MainTeardown
<1>2. CASE Kept(SignalHandler)
  BY <1>2 DEF SignalHandler
<1>3. CASE Kept(CaptureThread)
  <2>1. CASE CapStart
    BY <2>1 DEF CapStart
  <2>2. CASE CapTest
    BY <2>2 DEF CapTest
  <2>3. CASE CapLock
    BY <2>3 DEF CapLock
  <2>4. CASE CapGetFrame
    BY <2>4 DEF CapGetFrame
  <2>5. CASE CapGetFrameFails
    BY <2>5 DEF CapGetFrameFails
  <2>6. CASE CapSignal
    BY <2>6 DEF CapSignal, LoopInv, HasFrame
  <2>7. CASE CapRenderTop
    BY <2>7 DEF CapRenderTop, RenderFails
  <2>8. CASE CapRenderBottom
    BY <2>8 DEF CapRenderBottom, RenderFails
  <2>9. CASE CapDump
    BY <2>9 DEF CapDump
  <2>10. CASE CapReturn
    BY <2>10 DEF CapReturn
  <2>11. CASE CapFlush
    BY <2>11 DEF CapFlush
  <2>12. CASE CapDone
    BY <2>12 DEF CapDone
  <2>13. CASE ThreadFunc
    BY <2>13 DEF ThreadFunc
  <2> QED BY <1>3, <2>1, <2>2, <2>3, <2>4, <2>5, <2>6, <2>7, <2>8, <2>9,
         <2>10, <2>11, <2>12, <2>13 DEF CaptureThread
<1>4. CASE Kept(ControlThread)
  <2>1. CASE CtlWait
    BY <2>1 DEF CtlWait
  <2>2. CASE CtlWake
    BY <2>2 DEF CtlWake
  <2>3. CASE CtlWakeLockFails
    BY <2>3 DEF CtlWakeLockFails
  <2>4. CASE CtlUnlock
    BY <2>4 DEF CtlUnlock
  <2>5. CASE CtlCommand
    BY <2>5 DEF CtlCommand
  <2> QED BY <1>4, <2>1, <2>2, <2>3, <2>4, <2>5 DEF ControlThread,
         ControlAcquire
<1>5. CASE Kept(CtlSpurious)
  BY <1>5 DEF CtlSpurious
<1>6. CASE UNCHANGED vars
  BY <1>6
<1> QED BY <1>1, <1>2, <1>3, <1>4, <1>5, <1>6 DEF Next

(* What holds whatever may fail, and NullInv where only signals wake.       *)
SafeInv == TypeOK /\ LoopInv /\ MutexInv /\ (OnlySignalsWake => NullInv)

(* The invariant that the theorems below share.                             *)
LEMMA SafeInvariant == Spec => []SafeInv
<1>1. Init => SafeInv
  BY TypeInit DEF Init, SafeInv, LoopInv, InLoop, HasFrame, MutexInv, NullInv
<1>2. SafeInv /\ [Next]_vars => SafeInv'
  <2> SUFFICES ASSUME SafeInv, [Next]_vars PROVE SafeInv'
    OBVIOUS
  <2>1. OnlySignalsWake' = OnlySignalsWake
    BY OptionsStay DEF OnlySignalsWake, MayFail
  <2> QED BY <2>1, TypeStep, LoopStep, MutexStep, NullStep DEF SafeInv
<1> QED BY <1>1, <1>2, PTL DEF Spec

(* Whatever else fails, Frame2Ipl never locks NULL unless a wait returns    *)
(* without a signal.                                                        *)
THEOREM NullIsNeverRead == Spec => []NeverReadsNull
<1>1. SafeInv => NeverReadsNull
  BY DEF SafeInv, NullInv, NeverReadsNull
<1> QED BY SafeInvariant, <1>1, PTL

----------------------------------------------------------------------------
(* The surface under conversion.  With a display and no failing render the  *)
(* current surface leaves the program's hands only after the loop.          *)
HeldInv == /\ ctl = "convert" => reading = capSurf
           /\ Streaming /\ capSurf # NoSurface => capSurf \in held
           /\ cap # "dump"
           /\ main = "setup" => cap = "none"
           /\ cap = "none" => capSurf = NoSurface
           /\ cap = "return" => capSurf \notin releaseList

(* No step takes the current surface out of the program's hands.            *)
LEMMA HeldStep ==
    RendersWork /\ MutexInv /\ HeldInv /\ [Next]_vars => HeldInv'
<1> SUFFICES ASSUME RendersWork, MutexInv, HeldInv, [Next]_vars PROVE HeldInv'
  OBVIOUS
<1> USE DEF HeldInv, MutexInv, Streaming, RendersWork, displayEnabled
<1>1. CASE Kept(Main)
  BY <1>1 DEF Main, MainSetupFails, MainCreateCapture, MainKickoff,
     MainCreateControl, MainWaitDone, MainStopCar, MainJoin, MainTeardown
<1>2. CASE Kept(SignalHandler)
  BY <1>2 DEF SignalHandler
<1>3. CASE Kept(CaptureThread)
  <2>1. CASE CapStart
    BY <2>1 DEF CapStart
  <2>2. CASE CapTest
    BY <2>2 DEF CapTest
  <2>3. CASE CapLock
    BY <2>3 DEF CapLock
  <2>4. CASE CapGetFrame
    BY <2>4 DEF CapGetFrame
  <2>5. CASE CapGetFrameFails
    BY <2>5 DEF CapGetFrameFails
  <2>6. CASE CapSignal
    BY <2>6 DEF CapSignal
  <2>7. CASE CapRenderTop
    BY <2>7 DEF CapRenderTop, RenderFails
  <2>8. CASE CapRenderBottom
    BY <2>8 DEF CapRenderBottom, RenderFails
  <2>9. CASE CapDump
    BY <2>9 DEF CapDump
  <2>10. CASE CapReturn
    BY <2>10 DEF CapReturn
  <2>11. CASE CapFlush
    BY <2>11 DEF CapFlush
  <2>12. CASE CapDone
    BY <2>12 DEF CapDone
  <2>13. CASE ThreadFunc
    BY <2>13 DEF ThreadFunc
  <2> QED BY <1>3, <2>1, <2>2, <2>3, <2>4, <2>5, <2>6, <2>7, <2>8, <2>9,
         <2>10, <2>11, <2>12, <2>13 DEF CaptureThread
<1>4. CASE Kept(ControlThread)
  <2>1. CASE CtlWait
    BY <2>1 DEF CtlWait
  <2>2. CASE CtlWake
    BY <2>2 DEF CtlWake
  <2>3. CASE CtlWakeLockFails
    BY <2>3 DEF CtlWakeLockFails
  <2>4. CASE CtlUnlock
    BY <2>4 DEF CtlUnlock
  <2>5. CASE CtlCommand
    BY <2>5 DEF CtlCommand
  <2> QED BY <1>4, <2>1, <2>2, <2>3, <2>4, <2>5 DEF ControlThread,
         ControlAcquire
<1>5. CASE Kept(CtlSpurious)
  BY <1>5 DEF CtlSpurious
<1>6. CASE UNCHANGED vars
  BY <1>6
<1> QED BY <1>1, <1>2, <1>3, <1>4, <1>5, <1>6 DEF Next

(* The frame that ControlThread converts stays out of the capture pool.     *)
THEOREM CurrentFrameIsHeld == Spec => []ReadsHeldSurface
<1> DEFINE I == RendersWork => HeldInv
<1>1. Init => I
  BY DEF Init, HeldInv, Streaming
<1>2. SafeInv /\ I /\ [Next]_vars => I'
  <2> SUFFICES ASSUME SafeInv, I, [Next]_vars PROVE I'
    OBVIOUS
  <2>1. RendersWork' = RendersWork
    BY OptionsStay DEF RendersWork, displayEnabled, MayFail
  <2> QED BY <2>1, HeldStep DEF SafeInv
<1>3. SafeInv /\ I => ReadsHeldSurface
  BY DEF SafeInv, NullInv, HeldInv, ReadsHeldSurface
<1> QED BY <1>1, <1>2, <1>3, SafeInvariant, PTL DEF Spec

----------------------------------------------------------------------------
(* Shutdown.  main stops the car only after CaptureThread has ended, and    *)
(* then a command can come only from the frame ControlThread already has.   *)
Pending == woken \/ ctl \in {"convert", "decide"}
LateInv == /\ semDone > 0 => cap = "exited"
           /\ main \in {"stopcar", "join"} => cap = "exited"
           /\ main \in {"teardown", "exited"} => cap \in {"none", "exited"}
           /\ late > 0 => late = 1 /\ ~Pending /\ main \in {"join", "teardown", "exited"}
           /\ main = "setup" => cap = "none"
           /\ main \in {"kickoff", "control"} => cap # "none"
           /\ cap = "none" => ctl = "none"

(* No step adds a command after the late one.                               *)
LEMMA LateStep ==
    /\ OnlySignalsWake /\ TypeOK /\ MutexInv /\ NullInv /\ LateInv
    /\ [Next]_vars
    => LateInv'
<1> SUFFICES ASSUME OnlySignalsWake, TypeOK, MutexInv, NullInv, LateInv, [Next]_vars
             PROVE  LateInv'
  OBVIOUS
<1> USE DEF LateInv, Pending, OnlySignalsWake
<1>1. CASE Kept(Main)
  <2>1. CASE MainSetupFails
    BY <2>1 DEF MainSetupFails
  <2>2. CASE MainCreateCapture
    BY <2>2 DEF MainCreateCapture
  <2>3. CASE MainKickoff
    BY <2>3 DEF MainKickoff
  <2>4. CASE MainCreateControl
    BY <2>4 DEF MainCreateControl, MutexInv, NullInv
  <2>5. CASE MainWaitDone
    BY <2>5 DEF MainWaitDone, TypeOK
  <2>6. CASE MainStopCar
    BY <2>6 DEF MainStopCar
  <2>7. CASE MainJoin
    BY <2>7 DEF MainJoin
  <2>8. CASE MainTeardown
    BY <2>8 DEF MainTeardown
  <2> QED BY <1>1, <2>1, <2>2, <2>3, <2>4, <2>5, <2>6, <2>7, <2>8 DEF Main
<1>2. CASE Kept(SignalHandler)
  BY <1>2 DEF SignalHandler
<1>3. CASE Kept(CaptureThread)
  <2>1. CASE CapStart
    BY <2>1 DEF CapStart
  <2>2. CASE CapTest
    BY <2>2 DEF CapTest
  <2>3. CASE CapLock
    BY <2>3 DEF CapLock
  <2>4. CASE CapGetFrame
    BY <2>4 DEF CapGetFrame
  <2>5. CASE CapGetFrameFails
    BY <2>5 DEF CapGetFrameFails
  <2>6. CASE CapSignal
    BY <2>6 DEF CapSignal, TypeOK
  <2>7. CASE CapRenderTop
    BY <2>7 DEF CapRenderTop, RenderFails
  <2>8. CASE CapRenderBottom
    BY <2>8 DEF CapRenderBottom, RenderFails
  <2>9. CASE CapDump
    BY <2>9 DEF CapDump
  <2>10. CASE CapReturn
    BY <2>10 DEF CapReturn
  <2>11. CASE CapFlush
    BY <2>11 DEF CapFlush
  <2>12. CASE CapDone
    BY <2>12 DEF CapDone, TypeOK
  <2>13. CASE ThreadFunc
    BY <2>13 DEF ThreadFunc
  <2> QED BY <1>3, <2>1, <2>2, <2>3, <2>4, <2>5, <2>6, <2>7, <2>8, <2>9,
         <2>10, <2>11, <2>12, <2>13 DEF CaptureThread
<1>4. CASE Kept(ControlThread)
  <2>1. CASE CtlWait
    BY <2>1 DEF CtlWait
  <2>2. CASE CtlWake
    BY <2>2 DEF CtlWake, TypeOK
  <2>3. CASE CtlWakeLockFails
    BY <2>3 DEF CtlWakeLockFails, TypeOK
  <2>4. CASE CtlUnlock
    BY <2>4 DEF CtlUnlock
  <2>5. CASE CtlCommand
    BY <2>5 DEF CtlCommand, LateBound, NullInv, TypeOK
  <2> QED BY <1>4, <2>1, <2>2, <2>3, <2>4, <2>5 DEF ControlThread,
         ControlAcquire
<1>5. CASE Kept(CtlSpurious)
  BY <1>5 DEF CtlSpurious
<1>6. CASE UNCHANGED vars
  BY <1>6
<1> QED BY <1>1, <1>2, <1>3, <1>4, <1>5, <1>6 DEF Next

(* At most one set of commands reaches the car after main's last one.       *)
THEOREM OneLateCommand == Spec => []AtMostOneLateCommand
<1> DEFINE I == OnlySignalsWake => LateInv
<1>1. Init => I
  BY DEF Init, LateInv, Pending
<1>2. SafeInv /\ I /\ [Next]_vars => I'
  <2> SUFFICES ASSUME SafeInv, I, [Next]_vars PROVE I'
    OBVIOUS
  <2>1. OnlySignalsWake' = OnlySignalsWake
    BY OptionsStay DEF OnlySignalsWake, MayFail
  <2> QED BY <2>1, LateStep DEF SafeInv
<1>3. SafeInv /\ I => AtMostOneLateCommand
  BY DEF SafeInv, TypeOK, LateInv, AtMostOneLateCommand, LateBound
<1> QED BY <1>1, <1>2, <1>3, SafeInvariant, PTL DEF Spec

----------------------------------------------------------------------------
(* The order of frames.  A waiter is signalled for a frame newer than the   *)
(* last one converted, and later frames only make capSurf newer; a new      *)
(* frame has a number that no conversion has reached.                       *)
Upcoming == {"none", "born", "start", "test", "lock", "get"}
OrderInv == /\ main = "setup" => cap = "none"
            /\ lastRead <= i + 1
            /\ cap \in Upcoming \cup {"signal"} => lastRead <= i
            /\ cap = "signal" => frame[capSurf] = i
            /\ capSurf \in Surfaces =>
                  /\ frame[capSurf] <= i
                  /\ cap \in Upcoming => frame[capSurf] < i
                  /\ woken => lastRead <= frame[capSurf]

(* No step lets a waiter be due for a frame that was converted already.     *)
LEMMA OrderStep ==
    ASSUME OnlySignalsWake, SafeInv, OrderInv, [Next]_vars
    PROVE  /\ OrderInv'
           /\ ctl' = "convert" /\ ctl # "convert" => lastRead' > lastRead
<1>0. TypeOK /\ MutexInv /\ NullInv /\ LoopInv /\ last \in Nat
  BY LastIsNat DEF SafeInv, TypeOK
<1>1. i \in Nat /\ lastRead \in Nat /\ \A s \in Surfaces : frame[s] \in Nat
  BY <1>0 DEF TypeOK
<1> USE <1>0, <1>1, NoSurfaceAssumption DEF OrderInv, Upcoming, MutexInv
<1>2. CASE Kept(Main)
  BY <1>2 DEF Main, MainSetupFails, MainCreateCapture, MainKickoff,
     MainCreateControl, MainWaitDone, MainStopCar, MainJoin, MainTeardown
<1>3. CASE Kept(SignalHandler)
  BY <1>3 DEF SignalHandler
<1>4. CASE Kept(CaptureThread)
  <2>1. CASE CapGetFrame
    BY <2>1 DEF CapGetFrame, TypeOK
  <2>2. CASE CapSignal
    BY <2>2 DEF CapSignal, LoopInv, HasFrame
  <2>3. CASE CapReturn
    BY <2>3 DEF CapReturn
  <2>4. CASE CapGetFrameFails \/ CapTest \/ CapLock \/ CapStart \/ ThreadFunc \/ CapDone
    BY <2>4 DEF CapGetFrameFails, CapTest, CapLock, CapStart, ThreadFunc, CapDone
  <2>5. CASE CapRenderTop \/ CapRenderBottom \/ CapDump \/ CapFlush
    BY <2>5 DEF CapRenderTop, CapRenderBottom, CapDump, CapFlush
  <2> QED BY <1>4, <2>1, <2>2, <2>3, <2>4, <2>5 DEF CaptureThread
<1>5. CASE Kept(ControlThread)
  <2>1. CASE CtlWake
    <3>1. capSurf \in Surfaces
      BY <2>1 DEF CtlWake, NullInv, TypeOK
    <3> QED BY <2>1, <3>1 DEF CtlWake
  <2>2. CASE CtlWait \/ CtlWakeLockFails \/ CtlUnlock \/ CtlCommand
    BY <2>2 DEF CtlWait, CtlWakeLockFails, CtlUnlock, CtlCommand
  <2> QED BY <1>5, <2>1, <2>2 DEF ControlThread, ControlAcquire
<1>6. CASE Kept(CtlSpurious)
  BY <1>6 DEF CtlSpurious, OnlySignalsWake
<1>7. CASE UNCHANGED vars
  BY <1>7
<1> QED BY <1>2, <1>3, <1>4, <1>5, <1>6, <1>7 DEF Next

(* ControlThread converts frames in the order of their capture, none twice, *)
(* although cond has no predicate and any number of signals may be missed.  *)
THEOREM ConvertsInOrder == Spec => FramesInOrder
<1> DEFINE I == OnlySignalsWake => OrderInv
<1>1. Init => I
  BY NoSurfaceAssumption DEF Init, OrderInv
<1>2. SafeInv /\ I /\ [Next]_vars => I'
  <2> SUFFICES ASSUME SafeInv, I, [Next]_vars PROVE I'
    OBVIOUS
  <2>1. OnlySignalsWake' = OnlySignalsWake
    BY OptionsStay DEF OnlySignalsWake, MayFail
  <2> QED BY <2>1, OrderStep
<1>3. SafeInv /\ I /\ [Next]_vars
        => [OnlySignalsWake /\ ctl' = "convert" /\ ctl # "convert" => lastRead' > lastRead]_vars
  BY OrderStep
<1> QED BY <1>1, <1>2, <1>3, SafeInvariant, PTL DEF Spec, FramesInOrder
=============================================================================
