--------------------------- MODULE FramePoolProofs ---------------------------
(***************************************************************************)
(* Where the surfaces of the capture pool are, for every pool, mode and    *)
(* frame count: what the mixer shows is never in the pool, no surface is   *)
(* returned twice in dump mode, and with working devices the pool is never *)
(* exhausted and complete again at the end.                                *)
(***************************************************************************)
EXTENDS FramePipelineProofs

USE DEF vars, capVars, ctlVars, semVars, Kept

\* Only CaptureThread moves surfaces; main creates it once.
StartInv == main = "setup" => cap = "none"

\* Every other step leaves the surfaces where they are.
LEMMA OthersLeaveSurfaces ==
  ASSUME StartInv, [Next]_vars
  PROVE  \/ CaptureThread /\ main' = main
         \/ /\ UNCHANGED <<options, capVars>>
            /\ \/ cap' = cap /\ (main' = "setup" => main = "setup")
               \/ cap = "none" /\ cap' = "born" /\ main' # "setup"
  <1>1. CASE Kept(Main)
    BY <1>1 DEF StartInv, Main, MainSetupFails, MainCreateCapture, MainKickoff,
       MainCreateControl, MainWaitDone, MainStopCar, MainJoin, MainTeardown
  <1>2. CASE Kept(SignalHandler)
    BY <1>2 DEF SignalHandler
  <1>3. CASE Kept(CaptureThread)
    BY <1>3 DEF CaptureThread, ThreadFunc, CapStart, CapTest, CapLock, CapGetFrame,
       CapGetFrameFails, CapSignal, CapRenderTop, CapRenderBottom, CapDump, CapReturn,
       CapFlush, CapDone
  <1>4. CASE Kept(ControlThread)
    BY <1>4 DEF ControlThread, ControlAcquire, CtlWait, CtlWake, CtlWakeLockFails,
       CtlUnlock, CtlCommand
  <1>5. CASE Kept(CtlSpurious)
    BY <1>5 DEF CtlSpurious
  <1>6. CASE UNCHANGED vars
    BY <1>6
  <1> QED BY <1>1, <1>2, <1>3, <1>4, <1>5, <1>6 DEF Next

----------------------------------------------------------------------------
\* Whatever fails: a surface that is fetched stays with the program until the
\* list is walked, the list of a display never names a surface the mixer
\* shows, and the list of a dump names the dumped surface only.
ListInv ==
    /\ StartInv
    /\ HasFrame /\ cap # "return" => capSurf \in held
    /\ displayEnabled => kept \subseteq held /\ kept \cap releaseList = {} /\ cap # "dump"
    /\ ~displayEnabled /\ cap = "return" => releaseList = {capSurf} /\ capSurf \in held

\* Every step keeps the lists in order.
LEMMA ListStep == TypeOK /\ ListInv /\ [Next]_vars => ListInv'
  <1> SUFFICES ASSUME TypeOK, ListInv, [Next]_vars PROVE ListInv'
    OBVIOUS
  <1> USE DEF ListInv, StartInv, HasFrame, displayEnabled
  <1>0. options' = options
    BY OptionsStay
  <1>1. CASE CaptureThread /\ main' = main
    <2>1. CASE ThreadFunc \/ CapStart \/ CapTest \/ CapLock \/ CapSignal \/ CapDone
      BY <1>0, <1>1, <2>1 DEF ThreadFunc, CapStart, CapTest, CapLock, CapSignal, CapDone
    <2>2. CASE CapGetFrame
      BY <1>0, <1>1, <2>2 DEF CapGetFrame, StartInv
    <2>3. CASE CapGetFrameFails
      BY <1>0, <1>1, <2>3 DEF CapGetFrameFails
    <2>4. CASE CapRenderTop
      BY <1>0, <1>1, <2>4 DEF CapRenderTop, RenderFails
    <2>5. CASE CapRenderBottom
      BY <1>0, <1>1, <2>5 DEF CapRenderBottom, RenderFails, TypeOK
    <2>6. CASE CapDump
      BY <1>0, <1>1, <2>6 DEF CapDump
    <2>7. CASE CapReturn
      BY <1>0, <1>1, <2>7 DEF CapReturn
    <2>8. CASE CapFlush
      BY <1>0, <1>1, <2>8 DEF CapFlush, RenderFails
    <2> QED
      BY <1>1, <2>1, <2>2, <2>3, <2>4, <2>5, <2>6, <2>7, <2>8 DEF CaptureThread
  <1>2. CASE /\ UNCHANGED <<options, capVars>>
             /\ \/ cap' = cap /\ (main' = "setup" => main = "setup")
                \/ cap = "none" /\ cap' = "born" /\ main' # "setup"
    BY <1>2
  <1> QED BY <1>1, <1>2, OthersLeaveSurfaces

\* The lists are in order throughout.
LEMMA ListInvariant == Spec => []ListInv
  <1>1. Init => ListInv
    BY DEF Init, ListInv, StartInv, HasFrame
  <1>2. TypeOK /\ ListInv /\ [Next]_vars => ListInv'
    BY ListStep
  <1> QED BY <1>1, <1>2, TypeCorrect, PTL DEF Spec

\* With a display, the mixer never shows a surface that is back in the pool,
\* whatever fails and however stale the release list is.
THEOREM ShownIsHeld == Spec => []MixerShowsOnlyHeld
  <1>1. ListInv => MixerShowsOnlyHeld
    BY DEF ListInv, MixerShowsOnlyHeld
  <1> QED BY <1>1, ListInvariant, PTL

\* In dump mode CaptureThread never returns a surface twice.
THEOREM DumpReturnsOnce == Spec => []ReturnsOnlyHeld
  <1>1. ListInv => ReturnsOnlyHeld
    BY DEF ListInv, ReturnsOnlyHeld
  <1> QED BY <1>1, ListInvariant, PTL

----------------------------------------------------------------------------
\* With a display, renders and returns that work: between two frames the
\* program holds what the mixer shows, which is one surface at most.
AtMostOneShown == \A a, b \in kept : a = b
PoolInv ==
    /\ StartInv
    /\ cap \in {"none", "born", "start"} => held = {} /\ kept = {}
    /\ cap \in {"test", "lock", "get", "flush"} => held = kept /\ AtMostOneShown
    /\ cap \in {"signal", "top"} => held = kept \cup {capSurf}
    /\ cap = "bottom" => held = kept /\ capSurf \in kept
    /\ cap = "return" => kept = {capSurf} /\ held = kept \cup releaseList
                         /\ capSurf \notin releaseList
    /\ cap # "dump"
DevicesWork == RendersWork /\ ~MayFail("return")

\* Every step of a pipeline with working devices keeps the account.
LEMMA PoolStep == DevicesWork /\ PoolInv /\ [Next]_vars => PoolInv'
  <1> SUFFICES ASSUME DevicesWork, PoolInv, [Next]_vars PROVE PoolInv'
    OBVIOUS
  <1> USE DEF PoolInv, StartInv, AtMostOneShown, DevicesWork, RendersWork
  <1>1. CASE CaptureThread /\ main' = main
    <2>1. CASE ThreadFunc \/ CapStart \/ CapTest \/ CapLock \/ CapSignal \/ CapDone
      BY <1>1, <2>1 DEF ThreadFunc, CapStart, CapTest, CapLock, CapSignal, CapDone
    <2>2. CASE CapGetFrame
      BY <1>1, <2>2 DEF CapGetFrame
    <2>3. CASE CapGetFrameFails
      BY <1>1, <2>3 DEF CapGetFrameFails
    <2>4. CASE CapRenderTop
      BY <1>1, <2>4 DEF CapRenderTop, RenderFails
    <2>5. CASE CapRenderBottom
      BY <1>1, <2>5 DEF CapRenderBottom, RenderFails, displayEnabled
    <2>6. CASE CapDump
      BY <1>1, <2>6 DEF CapDump
    <2>7. CASE CapReturn
      BY <1>1, <2>7 DEF CapReturn
    <2>8. CASE CapFlush
      BY <1>1, <2>8 DEF CapFlush, RenderFails
    <2> QED
      BY <1>1, <2>1, <2>2, <2>3, <2>4, <2>5, <2>6, <2>7, <2>8 DEF CaptureThread
  <1>2. CASE /\ UNCHANGED <<options, capVars>>
             /\ \/ cap' = cap /\ (main' = "setup" => main = "setup")
                \/ cap = "none" /\ cap' = "born" /\ main' # "setup"
    BY <1>2
  <1> QED BY <1>1, <1>2, OthersLeaveSurfaces

\* The account holds throughout while the devices work.
LEMMA PoolInvariant == Spec => [](DevicesWork => PoolInv)
  <1>1. Init => PoolInv
    BY DEF Init, PoolInv, StartInv, AtMostOneShown
  <1>2. (DevicesWork => PoolInv) /\ [Next]_vars => (DevicesWork => PoolInv)'
    <2>1. [Next]_vars => DevicesWork' = DevicesWork
      BY OptionsStay DEF DevicesWork, RendersWork, displayEnabled, MayFail
    <2> QED BY <2>1, PoolStep
  <1> QED BY <1>1, <1>2, PTL DEF Spec

\* Two surfaces are enough for GetFrame to find one, for every number of
\* frames: the third of VIP_BUFFER_SIZE is in reserve.
THEOREM TwoSurfacesSuffice ==
  ASSUME \E a, b \in Surfaces : a # b
  PROVE  Spec => []PoolNeverEmpty
  <1>1. (DevicesWork => PoolInv) => PoolNeverEmpty
    BY DEF DevicesWork, PoolInv, AtMostOneShown, PoolNeverEmpty
  <1> QED BY <1>1, PoolInvariant, PTL

----------------------------------------------------------------------------
\* Without faults capSurf is NULL before the first frame only, so that the
\* flush is not skipped while the mixer holds a surface.
FlushInv ==
    /\ capSurf = NoSurface /\ Streaming => held = {}
    /\ cap = "flush" /\ capSurf = NoSurface => held = {}
    /\ cap \in {"done", "exited"} => held = {}
    /\ HasFrame => capSurf # NoSurface

\* The pool has every surface back when CaptureThread ends.
THEOREM AllReturned ==
  ASSUME \E a, b \in Surfaces : a # b
  PROVE  Spec => []NoLeftOverFrames
  <1> DEFINE Faultless == displayEnabled /\ options.faults = {}
             I == Faultless => FlushInv
  <1>1. Init => I
    BY DEF Init, FlushInv, Streaming, HasFrame
  <1>2. (DevicesWork => PoolInv) /\ I /\ [Next]_vars => I'
    <2> SUFFICES ASSUME DevicesWork => PoolInv, I, [Next]_vars, Faultless'
                 PROVE  FlushInv'
      OBVIOUS
    <2>1. Faultless
      BY OptionsStay DEF displayEnabled
    <2>2. PoolInv /\ FlushInv /\ ~MayFail("getframe") /\ ~MayFail("return")
          /\ ~MayFail("render") /\ ~MayFail("dump")
      BY <2>1 DEF DevicesWork, RendersWork, MayFail
    <2> USE <2>2 DEF PoolInv, StartInv, FlushInv, Streaming, HasFrame
    <2>3. CASE CaptureThread /\ main' = main
      <3>1. CASE ThreadFunc \/ CapStart \/ CapTest \/ CapLock \/ CapSignal \/ CapDone
        BY <3>1 DEF ThreadFunc, CapStart, CapTest, CapLock, CapSignal, CapDone
      <3>2. CASE CapGetFrame
        BY <3>2, NoSurfaceAssumption DEF CapGetFrame
      <3>3. ~CapGetFrameFails
        BY DEF CapGetFrameFails, AtMostOneShown
      <3>4. CASE CapRenderTop \/ CapRenderBottom
        BY <3>4 DEF CapRenderTop, CapRenderBottom, RenderFails
      <3>5. CASE CapDump
        BY <3>5 DEF CapDump
      <3>6. CASE CapReturn
        BY <3>6 DEF CapReturn
      <3>7. CASE CapFlush
        BY <3>7, <2>1 DEF CapFlush, RenderFails
      <3> QED BY <2>3, <3>1, <3>2, <3>3, <3>4, <3>5, <3>6, <3>7 DEF CaptureThread
    <2>4. CASE /\ UNCHANGED <<options, capVars>>
               /\ \/ cap' = cap /\ (main' = "setup" => main = "setup")
                  \/ cap = "none" /\ cap' = "born" /\ main' # "setup"
      BY <2>4
    <2> QED BY <2>3, <2>4, OthersLeaveSurfaces
  <1>3. I => NoLeftOverFrames
    BY DEF FlushInv, NoLeftOverFrames
  <1> QED BY <1>1, <1>2, <1>3, PoolInvariant, PTL DEF Spec
=============================================================================
