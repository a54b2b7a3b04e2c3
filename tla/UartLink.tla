------------------------------ MODULE UartLink ------------------------------
(***************************************************************************)
(* car_lib.h: how a thread talks to the car's control board over a serial  *)
(* line.  A command is a frame of bytes in the global buf; a read sends a  *)
(* request and then takes the reply from the line into the global          *)
(* read_buf.  One thread calls, as ControlThread does from the moment it   *)
(* is created until main's last commands.                                  *)
(***************************************************************************)
EXTENDS Integers, SequencesExt

CONSTANTS
    Written, Read,    \* the registers that are written and read
    Values,           \* Values[r]: numbers written to r or measured by it
    Moving,           \* registers that the car changes by itself
    SplitReplies,     \* a reply may come in pieces
    MaxFrames         \* bound: frames on the way to the board

\* The registers of the board: the code that starts a frame and the size of
\* the number in bytes.
LightRegisters == [CarLight |-> [code |-> 160, size |-> 1],
                   Winker   |-> [code |-> 161, size |-> 1],
                   Alarm    |-> [code |-> 162, size |-> 1]]
SpeedRegisters == [SpeedControlOnOff    |-> [code |-> 144, size |-> 1],
                   DesireSpeed          |-> [code |-> 145, size |-> 2],
                   SpeedPIDProportional |-> [code |-> 146, size |-> 1],
                   SpeedPIDIntegral     |-> [code |-> 147, size |-> 1],
                   SpeedPIDDifferential |-> [code |-> 148, size |-> 1]]
PositionRegisters == [PositionControlOnOff    |-> [code |-> 150, size |-> 1],
                      DesireEncoderCount      |-> [code |-> 151, size |-> 4],
                      PositionProportionPoint |-> [code |-> 152, size |-> 1],
                      EncoderCounter          |-> [code |-> 176, size |-> 4]]
ServoRegisters == [SteeringServoControl |-> [code |-> 163, size |-> 2],
                   CameraXServoControl  |-> [code |-> 165, size |-> 2],
                   CameraYServoControl  |-> [code |-> 167, size |-> 2]]
LineSensor == [LineSensor |-> [code |-> 177, size |-> 1]]

\* f @@ g, with the operator unfolded for the proofs.
Merge(f, g) ==
    [r \in DOMAIN f \cup DOMAIN g |-> IF r \in DOMAIN f THEN f[r] ELSE g[r]]

Board == Merge(LightRegisters, Merge(SpeedRegisters,
               Merge(PositionRegisters, Merge(ServoRegisters, LineSensor))))

Registers == Written \cup Read
NoCall == "none"
Byte == 256

\* What a shift to the left by 0, 8, 16 and 24 bits multiplies with.
Shift == <<1, Byte, Byte * Byte, Byte * Byte * Byte>>

\* What the C type of a number of n bytes holds: unsigned char (or char, of
\* which only small numbers are used) or, in two's complement, signed short and
\* signed int.
Numbers(n) ==
    IF n = 1 THEN 0 .. Byte - 1
             ELSE (-128) * Shift[n] .. 127 * Shift[n] + (Shift[n] - 1)

ASSUME RegisterAssumption == Registers \subseteq DOMAIN Board /\ Moving \subseteq Read
ASSUME ValueAssumption ==
    \A r \in Written \cup Moving : Values[r] \subseteq Numbers(Board[r].size)
ASSUME BoundAssumption == SplitReplies \in BOOLEAN /\ MaxFrames \in Nat \ {0}

VARIABLES
    register,    \* the numbers in the board
    asked,       \* the last number the program wrote, of every register
    frames,      \* frames on the way to the board
    reply,       \* bytes the board has sent and the line has not delivered
    line,        \* bytes that wait in the serial device of the program
    read_buf,
    call,        \* the register whose reply is waited for, or NoCall
    value,       \* what the last read returned
    answer       \* what the board meant by its last reply

hostVars == <<asked, read_buf, call, value>>
boardVars == <<register, answer>>
vars == <<hostVars, boardVars, frames, reply, line>>

----------------------------------------------------------------------------
(* Frames *)

Checksum(bytes) == FoldLeft(+, 0, bytes) % Byte

Sealed(bytes) == Append(bytes, Checksum(bytes))

\* Mutant: the shifts stop at the second byte.
Bytes_Short(v, n) == [k \in 1..n |-> IF k > 2 THEN 0 ELSE (v \div Shift[k]) % Byte]

\* The bytes of a number, the lowest first: shifts and masks of a number in
\* two's complement.
Bytes(v, n) == [k \in 1..n |-> (v \div Shift[k]) % Byte]

\* code, length + 2, 1 for a write, the number, the checksum
WriteFrame(r, v) ==
    Sealed(<<Board[r].code, Board[r].size + 2, 1>> \o Bytes(v, Board[r].size))

\* Mutant: the checksum of a write.
ReadFrame_Mixed(r) == <<Board[r].code, 2, 2, (Board[r].code + 3) % Byte>>

\* code, 2, 2 for a read, the checksum
ReadFrame(r) == Sealed(<<Board[r].code, 2, 2>>)

\* code, length, the number, the checksum
Reply(r, v) == Sealed(<<Board[r].code, Board[r].size + 1>> \o Bytes(v, Board[r].size))

\* The number in a reply. A number of one byte has no sign; of the others the
\* top byte carries it, as (signed int)(read_buf[5] << 24) does.
Decoded(bytes, n) ==
    LET top == bytes[n + 2]
        high == IF n > 1 /\ top >= Byte \div 2 THEN top - Byte ELSE top
    IN  CASE n = 1 -> high
          [] n = 2 -> Shift[2] * high + bytes[3]
          [] n = 4 -> Shift[4] * high + Shift[3] * bytes[5] + Shift[2] * bytes[4]
                      + bytes[3]

Init ==
    /\ register = [r \in Registers |-> 0] /\ asked = register
    /\ frames = <<>> /\ reply = <<>> /\ line = <<>>
    /\ read_buf = [k \in 1..8 |-> 0]
    /\ call = NoCall /\ value = 0 /\ answer = 0

----------------------------------------------------------------------------
(* The program *)

\* DesireSpeed_Write and the other writes: the frame is sent, nobody answers.
Write(r, v) ==
    /\ call = NoCall /\ Len(frames) < MaxFrames
    /\ frames' = Append(frames, WriteFrame(r, v))
    /\ asked' = [asked EXCEPT ![r] = v]
    /\ UNCHANGED <<boardVars, reply, line, read_buf, call, value>>

\* The first half of EncoderCounter_Read and the other reads.
Request(r) ==
    /\ call = NoCall /\ Len(frames) < MaxFrames
    /\ frames' = Append(frames, ReadFrame(r))
    /\ call' = r
    /\ UNCHANGED <<boardVars, reply, line, asked, read_buf, value>>

\* Mutant: the read asks for one byte less than the reply has.
Answer_Short ==
    /\ call # NoCall /\ line # <<>>
    /\ LET n == Board[call].size
           k == IF Len(line) < n + 2 THEN Len(line) ELSE n + 2
       IN  /\ read_buf' = SubSeq(line, 1, k) \o SubSeq(read_buf, k + 1, 8)
           /\ line' = SubSeq(line, k + 1, Len(line))
           /\ value' = Decoded(read_buf', n)
    /\ call' = NoCall
    /\ UNCHANGED <<boardVars, frames, reply, asked>>

\* The second half: read() returns as soon as one byte is there (VMIN is 1)
\* with as many as it was asked for and the line holds. Its result is not
\* looked at: what it did not fill of read_buf is of an earlier reply.
Answer ==
    /\ call # NoCall /\ line # <<>>
    /\ LET n == Board[call].size
           k == IF Len(line) < n + 3 THEN Len(line) ELSE n + 3
       IN  /\ read_buf' = SubSeq(line, 1, k) \o SubSeq(read_buf, k + 1, 8)
           /\ line' = SubSeq(line, k + 1, Len(line))
           /\ value' = Decoded(read_buf', n)
    /\ call' = NoCall
    /\ UNCHANGED <<boardVars, frames, reply, asked>>

----------------------------------------------------------------------------
(* The board and the line *)

\* A frame with a wrong length or checksum is ignored.
Accepts(frame, r) ==
    /\ frame[1] = Board[r].code
    /\ Len(frame) = frame[2] + 2
    /\ frame[Len(frame)] = Checksum(Front(frame))

BoardTakes ==
    /\ frames # <<>> /\ reply = <<>>
    /\ frames' = Tail(frames)
    /\ LET frame == Head(frames)
           target == {r \in Registers : Accepts(frame, r)}
       IN  \/ /\ frame[3] = 1
              /\ register' = [r \in Registers |->
                    IF r \in target THEN Decoded(Tail(frame), Board[r].size)
                                    ELSE register[r]]
              /\ UNCHANGED <<reply, answer>>
           \/ /\ frame[3] = 2
              /\ IF target = {} THEN UNCHANGED <<reply, answer>>
                 ELSE \E r \in target : /\ reply' = Reply(r, register[r])
                                        /\ answer' = register[r]
              /\ UNCHANGED register
    /\ UNCHANGED <<line, hostVars>>

Deliver ==
    /\ reply # <<>>
    /\ \E k \in IF SplitReplies THEN 1..Len(reply) ELSE {Len(reply)} :
          /\ line' = line \o SubSeq(reply, 1, k)
          /\ reply' = SubSeq(reply, k + 1, Len(reply))
    /\ UNCHANGED <<boardVars, frames, hostVars>>

\* The car rolls.
Moves(r) ==
    /\ \E v \in Values[r] : register' = [register EXCEPT ![r] = v]
    /\ UNCHANGED <<hostVars, answer, frames, reply, line>>

Next ==
    \/ \E r \in Written : \E v \in Values[r] : Write(r, v)
    \/ \E r \in Read : Request(r)
    \/ Answer
    \/ BoardTakes
    \/ Deliver
    \/ \E r \in Moving : Moves(r)

\* The board answers and the line delivers.
Spec == Init /\ [][Next]_vars
FairSpec == Spec /\ WF_vars(BoardTakes) /\ WF_vars(Deliver) /\ WF_vars(Answer)

----------------------------------------------------------------------------
(* Properties *)

\* A read returns the number that the board put in the reply to this read:
\* sign and size survive the line, and no byte of one reply is left over to
\* be taken for the next.
ReadsOwnReply == call = NoCall => value = answer

\* Once the line to the board is empty, every register that the car does not
\* change itself holds the last number written to it.
CommandsArrive ==
    frames = <<>> => \A r \in Written \ Moving : register[r] = asked[r]

\* A read comes back: no request is sent that the board would ignore.
ReadsReturn == call # NoCall ~> call = NoCall
=============================================================================
