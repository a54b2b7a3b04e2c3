----------------------------- MODULE MCUartLink -----------------------------
(* The serial line for TLC: registers of one, two and four bytes, numbers   *)
(* of both signs and of more than two bytes.                                *)
EXTENDS UartLink
MCWritten == {"DesireSpeed", "EncoderCounter", "DesireEncoderCount"}
MCRead == {"DesireSpeed", "EncoderCounter", "LineSensor"}
MCMoving == {"EncoderCounter", "LineSensor"}
MCValues == [DesireSpeed |-> {-150, 500}, EncoderCounter |-> {-1, 70000},
             DesireEncoderCount |-> {-8500}, LineSensor |-> {255}]
=============================================================================
