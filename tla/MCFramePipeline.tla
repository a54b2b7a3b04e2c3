-------------------------- MODULE MCFramePipeline --------------------------
(* Instances of FramePipeline for TLC: three surfaces, as VIP_BUFFER_SIZE   *)
(* (six buffers, two per surface) gives the program; a display for seven    *)
(* frames without faults, a display with faults, and a dump with faults,    *)
(* the last two ended by time.                                              *)
EXTENDS FramePipeline
CONSTANTS s1, s2, s3, none

MCSurfaces == {s1, s2, s3}
Started(dump, time, count, faults) ==
    [fileDumpEnabled |-> dump, captureTime |-> time, captureCount |-> count,
     faults |-> faults]
DeviceFaults == {"setup", "sigint", "getframe", "render", "dump", "return", "surflock",
                 "spurious"}
DisplayFaults == {"setup", "sigint", "getframe", "render", "return", "surflock"}
MCOptions == {Started(FALSE, 0, 7, {}), Started(FALSE, 6, 0, DisplayFaults),
              Started(TRUE, 5, 0, DeviceFaults)}
Dumping == {Started(TRUE, 0, 4, {})}
============================================================================
