--------------------------- MODULE UartLinkProofs ---------------------------
(***************************************************************************)
(* Proofs about the serial link: whatever the registers and the numbers,   *)
(* a read returns what the board answered to it as long as replies come in *)
(* one piece, and the commands arrive in the order of the calls.           *)
(***************************************************************************)
EXTENDS UartLink, SequenceTheorems, TLAPS

----------------------------------------------------------------------------
(* The invariants *)

\* What stands in a byte of a frame. That the checksum of a sequence is itself
\* a byte plays no role: both ends compute the same.
Bytelike == Int \cup {Checksum(bytes) : bytes \in Seq(Int)}

\* The frames the program builds.
WriteFrames == UNION {{WriteFrame(r, v) : v \in Values[r]} : r \in Written}
ReadFrames == {ReadFrame(r) : r \in Read}

Frames == WriteFrames \cup ReadFrames

\* The frame f writes register r.
Sets(f, r) == f[1] = Board[r].code /\ f[3] = 1

\* Every register, as the board and as the program know it, holds a number of
\* its type; only frames the program builds are on their way.
LinkTypeOK ==
    /\ register \in [Registers -> Int] /\ asked \in [Registers -> Int]
    /\ \A r \in Registers : register[r] \in Numbers(Board[r].size)
    /\ frames \in Seq(Frames)
    /\ reply \in Seq(Bytelike) /\ line \in Seq(Bytelike)
    /\ read_buf \in Seq(Bytelike) /\ Len(read_buf) = 8
    /\ call \in Read \cup {NoCall}

\* Nothing on the way writes r from frame i on.
Untouched(r, i) == \A j \in i .. Len(frames) : ~Sets(frames[j], r)

\* The last number asked for r is in the board (0), or in frame i.
Holds(r, i) ==
    IF i = 0 THEN register[r] = asked[r]
             ELSE asked[r] \in Values[r] /\ frames[i] = WriteFrame(r, asked[r])

\* The last command to r is in the board, or on its way as the last frame that
\* writes r.
Settled(r) == \E i \in 0 .. Len(frames) : Holds(r, i) /\ Untouched(r, i + 1)

AllSettled == \A r \in Written \ Moving : Settled(r)

\* Of a read that is waited for there is one thing on the way: the request,
\* behind the writes before it, the reply in the board, or the reply in the
\* program's device.
Requested ==
    /\ frames # <<>> /\ frames[Len(frames)] = ReadFrame(call)
    /\ \A i \in 1 .. Len(frames) - 1 : frames[i] \in WriteFrames
    /\ reply = <<>> /\ line = <<>>
Answered == frames = <<>> /\ reply = Reply(call, answer) /\ line = <<>>
Delivered == frames = <<>> /\ reply = <<>> /\ line = Reply(call, answer)

OneReply ==
    IF call = NoCall
    THEN /\ \A i \in 1 .. Len(frames) : frames[i] \in WriteFrames
         /\ reply = <<>> /\ line = <<>> /\ value = answer
    ELSE \/ Requested
         \/ (Answered \/ Delivered) /\ answer \in Numbers(Board[call].size)

----------------------------------------------------------------------------
(* The registers of the board *)

\* The light registers: their codes, their size, no code twice.
LEMMA LightTable ==
  ASSUME NEW r \in DOMAIN LightRegisters
  PROVE  /\ LightRegisters[r].size = 1
         /\ LightRegisters[r].code \in {160, 161, 162}
         /\ \A s \in DOMAIN LightRegisters :
               LightRegisters[s].code = LightRegisters[r].code => s = r
  BY DEF LightRegisters

\* The speed registers.
LEMMA SpeedTable ==
  ASSUME NEW r \in DOMAIN SpeedRegisters
  PROVE  /\ SpeedRegisters[r].size \in {1, 2}
         /\ SpeedRegisters[r].code \in 144 .. 148
         /\ \A s \in DOMAIN SpeedRegisters :
               SpeedRegisters[s].code = SpeedRegisters[r].code => s = r
  BY DEF SpeedRegisters

\* The position registers.
LEMMA PositionTable ==
  ASSUME NEW r \in DOMAIN PositionRegisters
  PROVE  /\ PositionRegisters[r].size \in {1, 4}
         /\ PositionRegisters[r].code \in {150, 151, 152, 176}
         /\ \A s \in DOMAIN PositionRegisters :
               PositionRegisters[s].code = PositionRegisters[r].code => s = r
  BY DEF PositionRegisters

\* The servo registers.
LEMMA ServoTable ==
  ASSUME NEW r \in DOMAIN ServoRegisters
  PROVE  /\ ServoRegisters[r].size = 2
         /\ ServoRegisters[r].code \in {163, 165, 167}
         /\ \A s \in DOMAIN ServoRegisters :
               ServoRegisters[s].code = ServoRegisters[r].code => s = r
  BY DEF ServoRegisters

\* The line sensor.
LEMMA LineTable ==
  ASSUME NEW r \in DOMAIN LineSensor
  PROVE  /\ LineSensor[r].size = 1 /\ LineSensor[r].code = 177
         /\ r = "LineSensor"
  BY DEF LineSensor

\* Every register of the board is in one of the tables.
LEMMA BoardTables ==
  ASSUME NEW r \in DOMAIN Board
  PROVE  \/ r \in DOMAIN LightRegisters /\ Board[r] = LightRegisters[r]
         \/ r \in DOMAIN SpeedRegisters /\ Board[r] = SpeedRegisters[r]
         \/ r \in DOMAIN PositionRegisters /\ Board[r] = PositionRegisters[r]
         \/ r \in DOMAIN ServoRegisters /\ Board[r] = ServoRegisters[r]
         \/ r \in DOMAIN LineSensor /\ Board[r] = LineSensor[r]
  BY DEF Board, Merge

\* A number of the board has one, two or four bytes, and every code and size
\* is a byte.
LEMMA BoardSizes ==
  ASSUME NEW r \in DOMAIN Board
  PROVE  Board[r].size \in {1, 2, 4} /\ Board[r].code \in 144 .. 177
  BY BoardTables, LightTable, SpeedTable, PositionTable, ServoTable, LineTable

\* A code names one register: what is sent to one is not taken by another.
LEMMA CodesDiffer ==
  ASSUME NEW r \in DOMAIN Board, NEW s \in DOMAIN Board, Board[r].code = Board[s].code
  PROVE  r = s
  <1>1. CASE r \in DOMAIN LightRegisters /\ Board[r] = LightRegisters[r]
    BY <1>1, BoardTables, LightTable, SpeedTable, PositionTable, ServoTable, LineTable
  <1>2. CASE r \in DOMAIN SpeedRegisters /\ Board[r] = SpeedRegisters[r]
    BY <1>2, BoardTables, LightTable, SpeedTable, PositionTable, ServoTable, LineTable
  <1>3. CASE r \in DOMAIN PositionRegisters /\ Board[r] = PositionRegisters[r]
    BY <1>3, BoardTables, LightTable, SpeedTable, PositionTable, ServoTable, LineTable
  <1>4. CASE r \in DOMAIN ServoRegisters /\ Board[r] = ServoRegisters[r]
    BY <1>4, BoardTables, LightTable, SpeedTable, PositionTable, ServoTable, LineTable
  <1>5. CASE r \in DOMAIN LineSensor /\ Board[r] = LineSensor[r]
    BY <1>5, BoardTables, LightTable, SpeedTable, PositionTable, ServoTable, LineTable
  <1> QED BY <1>1, <1>2, <1>3, <1>4, <1>5, BoardTables

\* NoCall is the name of no register.
LEMMA NoCallIsNoRegister == NoCall \notin Registers
  <1>1. /\ "none" \notin DOMAIN LightRegisters /\ "none" \notin DOMAIN SpeedRegisters
        /\ "none" \notin DOMAIN PositionRegisters /\ "none" \notin DOMAIN ServoRegisters
        /\ "none" \notin DOMAIN LineSensor
    BY DEF LightRegisters, SpeedRegisters, PositionRegisters, ServoRegisters, LineSensor
  <1> QED BY <1>1, BoardTables, RegisterAssumption DEF NoCall

----------------------------------------------------------------------------
(* Numbers and bytes *)

\* What the shifts multiply with.
LEMMA Shifts ==
  /\ Shift[1] = 1 /\ Shift[2] = 256 /\ Shift[3] = 256 * 256 /\ Shift[4] = 256 * 256 * 256
  /\ \A k \in 1 .. 4 : Shift[k] \in Int /\ Shift[k] > 0
  <1>1. Shift[1] = 1 /\ Shift[2] = 256 /\ Shift[3] = 256 * 256 /\ Shift[4] = 256 * 256 * 256
    BY DEF Shift, Byte
  <1>2. \A k \in 1 .. 4 : Shift[k] \in {1, 256, 256 * 256, 256 * 256 * 256}
    BY DEF Shift, Byte
  <1> QED BY <1>1, <1>2

\* The bounds of the numbers of more than one byte.
LEMMA SignedNumbers ==
  ASSUME NEW n \in {2, 4}
  PROVE  /\ \A v \in Numbers(n) : /\ v \in Int
                                  /\ (-128) * Shift[n] <= v
                                  /\ v <= 127 * Shift[n] + (Shift[n] - 1)
         /\ 0 \in Numbers(n)
  <1>1. Shift[n] \in Int /\ Shift[n] > 0
    BY Shifts
  <1>2. (-128) * Shift[n] \in Int /\ 127 * Shift[n] + (Shift[n] - 1) \in Int
    BY <1>1
  <1>3. Numbers(n) = (-128) * Shift[n] .. 127 * Shift[n] + (Shift[n] - 1)
    BY DEF Numbers
  <1>4. (-128) * Shift[n] <= 0 /\ 0 <= 127 * Shift[n] + (Shift[n] - 1)
    BY <1>1
  <1> QED BY <1>2, <1>3, <1>4

\* All numbers are integers, and 0 is one of each type.
LEMMA NumbersAreIntegers ==
  ASSUME NEW n \in {1, 2, 4}
  PROVE  Numbers(n) \subseteq Int /\ 0 \in Numbers(n)
  <1>1. CASE n = 1
    BY <1>1 DEF Numbers, Byte
  <1>2. CASE n \in {2, 4}
    BY <1>2, SignedNumbers
  <1> QED BY <1>1, <1>2

\* What the shifts and masks of the writes make is an integer for every number.
LEMMA BytesShape ==
  ASSUME NEW n \in {1, 2, 4}, NEW v \in Int
  PROVE  /\ Bytes(v, n) \in Seq(Int) /\ Len(Bytes(v, n)) = n
         /\ \A k \in 1 .. n : Bytes(v, n)[k] = (v \div Shift[k]) % Byte
  <1>1. ASSUME NEW k \in 1 .. n
        PROVE  (v \div Shift[k]) % Byte \in Int
    <2>1. Shift[k] \in {1, 256, 256 * 256, 256 * 256 * 256}
      BY Shifts
    <2> QED BY <2>1 DEF Byte
  <1> QED BY <1>1 DEF Bytes

\* The lowest byte and the rest of a number, negative or not.
LEMMA LowByte ==
  ASSUME NEW v \in Int
  PROVE  /\ v = 256 * (v \div 256) + (v % 256)
         /\ v % 256 \in 0 .. 255 /\ v \div 256 \in Int
  OBVIOUS

\* The top byte carries the sign.
LEMMA SignedByte ==
  ASSUME NEW q \in -128 .. 127
  PROVE  q = IF q % 256 >= 128 THEN (q % 256) - 256 ELSE q % 256
  <1>1. q % 256 = IF q < 0 THEN q + 256 ELSE q
    OBVIOUS
  <1> QED BY <1>1

\* A number of two bytes, in two's complement.
LEMMA TwoBytes ==
  ASSUME NEW v \in Numbers(2)
  PROVE  /\ v \div 256 \in -128 .. 127
         /\ v = 256 * (v \div 256) + (v % 256)
  <1>1. v \in Int /\ (-128) * 256 <= v /\ v <= 127 * 256 + (256 - 1)
    BY Shifts, SignedNumbers
  <1> QED BY <1>1, LowByte

\* A number of four bytes, in two's complement.
LEMMA FourBytes ==
  ASSUME NEW v \in Numbers(4)
  PROVE  /\ v \div (256 * 256 * 256) \in -128 .. 127
         /\ v = 256 * 256 * 256 * (v \div (256 * 256 * 256))
                + 256 * 256 * ((v \div (256 * 256)) % 256)
                + 256 * ((v \div 256) % 256) + (v % 256)
  <1> DEFINE q1 == v \div 256
             q2 == q1 \div 256
             q3 == q2 \div 256
  <1>1. /\ v \in Int /\ (-128) * (256 * 256 * 256) <= v
        /\ v <= 127 * (256 * 256 * 256) + (256 * 256 * 256 - 1)
    BY Shifts, SignedNumbers
  <1>2. v \div (256 * 256) = q2
    BY <1>1
  <1>3. v \div (256 * 256 * 256) = (v \div (256 * 256)) \div 256
    BY <1>1
  <1>4. q1 \in Int /\ q2 \in Int /\ q3 \in Int
    BY <1>1, LowByte
  <1>5. v = 256 * q1 + (v % 256) /\ v % 256 \in 0 .. 255
    BY <1>1, LowByte
  <1>6. q1 = 256 * q2 + (q1 % 256) /\ q1 % 256 \in 0 .. 255
    BY <1>4, LowByte
  <1>7. q2 = 256 * q3 + (q2 % 256) /\ q2 % 256 \in 0 .. 255
    BY <1>4, LowByte
  <1> HIDE DEF q1, q2, q3
  <1>8. q3 \in -128 .. 127
    BY <1>1, <1>4, <1>5, <1>6, <1>7
  <1>9. v = 256 * 256 * 256 * q3 + 256 * 256 * (q2 % 256) + 256 * (q1 % 256) + (v % 256)
    BY <1>4, <1>5, <1>6, <1>7
  <1> QED BY <1>2, <1>3, <1>8, <1>9 DEF q1, q3

\* What a read makes of a reply is the number whose bytes are in it, for every
\* number of the type: the shifts of the read undo those of the write, sign
\* included.
LEMMA DecodedBytes ==
  ASSUME NEW n \in {1, 2, 4}, NEW v \in Numbers(n), NEW bytes,
         \A k \in 1 .. n : bytes[k + 2] = (v \div Shift[k]) % Byte
  PROVE  Decoded(bytes, n) = v
  <1>0. v \in Int
    BY NumbersAreIntegers
  <1>1. CASE n = 1
    <2>1. v \in 0 .. 255
      BY <1>1 DEF Numbers, Byte
    <2>2. bytes[1 + 2] = (v \div Shift[1]) % Byte
      BY <1>1
    <2>3. bytes[3] = v
      BY <2>1, <2>2, Shifts DEF Byte
    <2>4. Decoded(bytes, n) = bytes[3]
      BY <1>1 DEF Decoded
    <2> QED BY <2>3, <2>4
  <1>2. CASE n = 2
    <2> DEFINE q == v \div 256
    <2>1. bytes[1 + 2] = (v \div Shift[1]) % Byte /\ bytes[2 + 2] = (v \div Shift[2]) % Byte
      BY <1>2
    <2>2. bytes[3] = v % 256 /\ bytes[4] = q % 256
      BY <1>0, <2>1, Shifts DEF Byte
    <2>3. q \in -128 .. 127 /\ v = 256 * q + (v % 256)
      BY <1>2, TwoBytes
    <2>4. q = IF bytes[4] >= 128 THEN bytes[4] - 256 ELSE bytes[4]
      BY <2>2, <2>3, SignedByte
    <2>5. 256 \div 2 = 128
      OBVIOUS
    <2>6. Decoded(bytes, n) = Shift[2] * q + bytes[3]
      BY <1>2, <2>4, <2>5 DEF Decoded, Byte
    <2> QED BY <2>2, <2>3, <2>6, Shifts
  <1>3. CASE n = 4
    <2> DEFINE q == v \div (256 * 256 * 256)
    <2>1. /\ bytes[1 + 2] = (v \div Shift[1]) % Byte /\ bytes[2 + 2] = (v \div Shift[2]) % Byte
          /\ bytes[3 + 2] = (v \div Shift[3]) % Byte /\ bytes[4 + 2] = (v \div Shift[4]) % Byte
      BY <1>3
    <2>2. /\ bytes[3] = v % 256 /\ bytes[4] = (v \div 256) % 256
          /\ bytes[5] = (v \div (256 * 256)) % 256 /\ bytes[6] = q % 256
      BY <1>0, <2>1, Shifts DEF Byte
    <2>3. /\ q \in -128 .. 127
          /\ v = 256 * 256 * 256 * q + 256 * 256 * ((v \div (256 * 256)) % 256)
                 + 256 * ((v \div 256) % 256) + (v % 256)
      BY <1>3, FourBytes
    <2>4. q = IF bytes[6] >= 128 THEN bytes[6] - 256 ELSE bytes[6]
      BY <2>2, <2>3, SignedByte
    <2>5. 256 \div 2 = 128
      OBVIOUS
    <2>6. Decoded(bytes, n) = Shift[4] * q + Shift[3] * bytes[5] + Shift[2] * bytes[4] + bytes[3]
      BY <1>3, <2>4, <2>5 DEF Decoded, Byte
    <2> QED BY <2>2, <2>3, <2>6, Shifts
  <1> QED BY <1>1, <1>2, <1>3

----------------------------------------------------------------------------
(* Frames *)

\* Only the empty sequence has no element.
LEMMA EmptyLength ==
  ASSUME NEW S, NEW q \in Seq(S)
  PROVE  Len(q) \in Nat /\ (q = <<>> <=> Len(q) = 0)
  BY EmptySeq, LenProperties

\* The checksum goes behind the bytes it is of.
LEMMA SealedShape ==
  ASSUME NEW bytes \in Seq(Int)
  PROVE  /\ Sealed(bytes) \in Seq(Bytelike) /\ Len(Sealed(bytes)) = Len(bytes) + 1
         /\ \A k \in 1 .. Len(bytes) : Sealed(bytes)[k] = bytes[k]
         /\ Sealed(bytes)[Len(bytes) + 1] = Checksum(Front(Sealed(bytes)))
  <1>1. bytes \in Seq(Bytelike) /\ Checksum(bytes) \in Bytelike
    BY SeqMonotonic, Int \subseteq Bytelike DEF Bytelike
  <1>2. /\ Sealed(bytes) \in Seq(Bytelike) /\ Len(Sealed(bytes)) = Len(bytes) + 1
        /\ \A k \in 1 .. Len(bytes) : Sealed(bytes)[k] = bytes[k]
        /\ Sealed(bytes)[Len(bytes) + 1] = Checksum(bytes)
    BY <1>1, AppendProperties DEF Sealed
  <1>3. Front(Sealed(bytes)) = SubSeq(Sealed(bytes), 1, Len(bytes))
    BY <1>2 DEF Front
  <1>4. SubSeq(Sealed(bytes), 1, Len(bytes)) = bytes
    BY <1>1, <1>2, SubSeqProperties, SeqEqual
  <1> QED BY <1>2, <1>3, <1>4

\* Bytes behind a header and a checksum behind both.
LEMMA HeaderShape ==
  ASSUME NEW header \in Seq(Int), NEW bytes \in Seq(Int),
         NEW f, f = Sealed(header \o bytes)
  PROVE  /\ f \in Seq(Bytelike) /\ Len(f) = Len(header) + Len(bytes) + 1
         /\ \A k \in 1 .. Len(header) : f[k] = header[k]
         /\ \A k \in 1 .. Len(bytes) : f[Len(header) + k] = bytes[k]
         /\ f[Len(f)] = Checksum(Front(f))
  <1>1. Len(header) \in Nat /\ Len(bytes) \in Nat
    BY LenProperties
  <1>2. PICK all \in Seq(Int) : all = header \o bytes
    BY ConcatProperties
  <1>3. Len(all) = Len(header) + Len(bytes)
    BY <1>2, ConcatProperties
  <1>4. \A k \in 1 .. Len(header) : all[k] = header[k]
    BY <1>1, <1>2, ConcatProperties
  <1>5. ASSUME NEW k \in 1 .. Len(bytes)
        PROVE  all[Len(header) + k] = bytes[k]
    <2>1. /\ Len(header) + k \in 1 .. Len(header) + Len(bytes)
          /\ ~(Len(header) + k <= Len(header)) /\ (Len(header) + k) - Len(header) = k
      BY <1>1
    <2> QED BY <1>2, <2>1, ConcatProperties
  <1>6. /\ f \in Seq(Bytelike) /\ Len(f) = Len(all) + 1
        /\ \A k \in 1 .. Len(all) : f[k] = all[k]
        /\ f[Len(all) + 1] = Checksum(Front(f))
    BY <1>2, SealedShape
  <1>7. \A k \in 1 .. Len(header) : f[k] = header[k]
    BY <1>1, <1>3, <1>4, <1>6
  <1>8. \A k \in 1 .. Len(bytes) : f[Len(header) + k] = bytes[k]
    BY <1>1, <1>3, <1>5, <1>6
  <1> QED BY <1>3, <1>6, <1>7, <1>8

\* A command: the register, the length, a one, the number.
LEMMA WriteFrameShape ==
  ASSUME NEW r \in Registers, NEW v \in Int,
         NEW f, f = WriteFrame(r, v), NEW n, n = Board[r].size
  PROVE  /\ f \in Seq(Bytelike) /\ Len(f) = n + 4
         /\ f[1] = Board[r].code /\ f[2] = n + 2 /\ f[3] = 1
         /\ \A k \in 1 .. n : f[3 + k] = (v \div Shift[k]) % Byte
         /\ f[Len(f)] = Checksum(Front(f))
  <1>1. n \in {1, 2, 4} /\ Board[r].code \in Int
    BY BoardSizes, RegisterAssumption
  <1>2. <<Board[r].code, n + 2, 1>> \in Seq(Int)
    BY <1>1
  <1>3. PICK header \in Seq(Int) : header = <<Board[r].code, n + 2, 1>>
    BY <1>2
  <1>4. Len(header) = 3 /\ header[1] = Board[r].code /\ header[2] = n + 2 /\ header[3] = 1
    BY <1>3
  <1>5. PICK bytes \in Seq(Int) : bytes = Bytes(v, n)
    BY <1>1, BytesShape
  <1>6. Len(bytes) = n /\ \A k \in 1 .. n : bytes[k] = (v \div Shift[k]) % Byte
    BY <1>1, <1>5, BytesShape
  <1>7. f = Sealed(header \o bytes)
    BY <1>3, <1>5 DEF WriteFrame
  <1>8. /\ f \in Seq(Bytelike) /\ Len(f) = Len(header) + Len(bytes) + 1
        /\ \A k \in 1 .. Len(header) : f[k] = header[k]
        /\ \A k \in 1 .. Len(bytes) : f[Len(header) + k] = bytes[k]
        /\ f[Len(f)] = Checksum(Front(f))
    <2>1. /\ f \in Seq(Bytelike) /\ Len(f) = Len(header) + Len(bytes) + 1
          /\ f[Len(f)] = Checksum(Front(f))
      BY <1>7, HeaderShape
    <2>2. ASSUME NEW k \in 1 .. Len(header) PROVE f[k] = header[k]
      BY <1>7, HeaderShape, SMTT(30)
    <2>3. ASSUME NEW k \in 1 .. Len(bytes) PROVE f[Len(header) + k] = bytes[k]
      BY <1>7, HeaderShape, SMTT(30)
    <2> QED BY <2>1, <2>2, <2>3
  <1>9. Len(f) = n + 4
    BY <1>1, <1>4, <1>6, <1>8
  <1>10. f[1] = header[1] /\ f[2] = header[2] /\ f[3] = header[3]
    BY <1>4, <1>8
  <1>11. \A k \in 1 .. n : f[3 + k] = bytes[k]
    BY <1>4, <1>6, <1>8
  <1> QED BY <1>4, <1>6, <1>8, <1>9, <1>10, <1>11

\* A reply: the register, the length, the number.
LEMMA ReplyShape ==
  ASSUME NEW r \in Registers, NEW v \in Int,
         NEW f, f = Reply(r, v), NEW n, n = Board[r].size
  PROVE  /\ f \in Seq(Bytelike) /\ Len(f) = n + 3
         /\ \A k \in 1 .. n : f[2 + k] = (v \div Shift[k]) % Byte
  <1>1. n \in {1, 2, 4} /\ Board[r].code \in Int
    BY BoardSizes, RegisterAssumption
  <1>2. <<Board[r].code, n + 1>> \in Seq(Int)
    BY <1>1
  <1>3. PICK header \in Seq(Int) : header = <<Board[r].code, n + 1>>
    BY <1>2
  <1>4. Len(header) = 2
    BY <1>3
  <1>5. PICK bytes \in Seq(Int) : bytes = Bytes(v, n)
    BY <1>1, BytesShape
  <1>6. Len(bytes) = n /\ \A k \in 1 .. n : bytes[k] = (v \div Shift[k]) % Byte
    BY <1>1, <1>5, BytesShape
  <1>7. f = Sealed(header \o bytes)
    BY <1>3, <1>5 DEF Reply
  <1>8. /\ f \in Seq(Bytelike) /\ Len(f) = Len(header) + Len(bytes) + 1
        /\ \A k \in 1 .. Len(bytes) : f[Len(header) + k] = bytes[k]
    BY <1>7, HeaderShape
  <1>9. Len(f) = n + 3
    BY <1>1, <1>4, <1>6, <1>8
  <1>10. \A k \in 1 .. n : f[2 + k] = bytes[k]
    BY <1>4, <1>6, <1>8
  <1> QED BY <1>6, <1>8, <1>9, <1>10

\* A request: the register, the length, a two.
LEMMA ReadFrameShape ==
  ASSUME NEW r \in Registers, NEW f, f = ReadFrame(r)
  PROVE  /\ f \in Seq(Bytelike) /\ Len(f) = 4
         /\ f[1] = Board[r].code /\ f[2] = 2 /\ f[3] = 2
         /\ f[Len(f)] = Checksum(Front(f))
  <1>1. Board[r].code \in Int
    BY BoardSizes, RegisterAssumption
  <1>2. <<Board[r].code, 2, 2>> \in Seq(Int)
    BY <1>1
  <1>3. PICK header \in Seq(Int) : header = <<Board[r].code, 2, 2>>
    BY <1>2
  <1>4. Len(header) = 3 /\ header[1] = Board[r].code /\ header[2] = 2 /\ header[3] = 2
    BY <1>3
  <1>5. f = Sealed(header)
    BY <1>3 DEF ReadFrame
  <1>6. /\ f \in Seq(Bytelike) /\ Len(f) = Len(header) + 1
        /\ \A k \in 1 .. Len(header) : f[k] = header[k]
        /\ f[Len(header) + 1] = Checksum(Front(f))
    BY <1>5, SealedShape
  <1> QED BY <1>4, <1>6

\* The board takes a well-formed frame for the register of its code and for no
\* other.
LEMMA TakenByOne ==
  ASSUME NEW f, NEW r \in Registers, f[1] = Board[r].code, Len(f) = f[2] + 2,
         f[Len(f)] = Checksum(Front(f))
  PROVE  {s \in Registers : Accepts(f, s)} = {r}
  <1>1. ASSUME NEW s \in Registers
        PROVE  Accepts(f, s) <=> s = r
    BY CodesDiffer, RegisterAssumption DEF Accepts
  <1> QED BY <1>1

\* A number that is written or measured is of its register's type.
LEMMA ValuesHaveType ==
  ASSUME NEW r \in Written \cup Moving, NEW v \in Values[r]
  PROVE  r \in Registers /\ v \in Numbers(Board[r].size) /\ v \in Int
  <1>1. r \in Registers /\ v \in Numbers(Board[r].size)
    BY RegisterAssumption, ValueAssumption DEF Registers
  <1>2. Board[r].size \in {1, 2, 4}
    BY <1>1, BoardSizes, RegisterAssumption
  <1> QED BY <1>1, <1>2, NumbersAreIntegers

\* A command writes its own register and no other; a request writes none.
LEMMA WhatFramesSet ==
  /\ \A r \in Written : \A v \in Values[r], s \in Registers :
        Sets(WriteFrame(r, v), s) <=> s = r
  /\ \A r \in Read, s \in Registers : ~Sets(ReadFrame(r), s)
  <1>1. ASSUME NEW r \in Written, NEW v \in Values[r], NEW s \in Registers
        PROVE  Sets(WriteFrame(r, v), s) <=> s = r
    <2>1. r \in Registers /\ v \in Int
      BY ValuesHaveType
    <2>2. WriteFrame(r, v)[1] = Board[r].code /\ WriteFrame(r, v)[3] = 1
      BY <2>1, WriteFrameShape
    <2> QED BY <2>1, <2>2, CodesDiffer, RegisterAssumption DEF Sets
  <1>2. ASSUME NEW r \in Read, NEW s \in Registers
        PROVE  ~Sets(ReadFrame(r), s)
    <2>1. ReadFrame(r)[3] = 2
      BY ReadFrameShape DEF Registers
    <2> QED BY <2>1 DEF Sets
  <1> QED BY <1>1, <1>2

\* No command is a request.
LEMMA WritesAreNotReads == WriteFrames \cap ReadFrames = {}
  <1>1. ASSUME NEW f \in WriteFrames
        PROVE  f[3] = 1
    <2>1. PICK r \in Written : \E v \in Values[r] : f = WriteFrame(r, v)
      BY DEF WriteFrames
    <2>2. PICK v \in Values[r] : f = WriteFrame(r, v)
      BY <2>1
    <2> QED BY <2>2, ValuesHaveType, WriteFrameShape
  <1>2. ASSUME NEW f \in ReadFrames
        PROVE  f[3] = 2
    <2>1. PICK r \in Read : f = ReadFrame(r)
      BY DEF ReadFrames
    <2> QED BY <2>1, ReadFrameShape DEF Registers
  <1> QED BY <1>1, <1>2

----------------------------------------------------------------------------
(* What the board does with a frame *)

\* The number of a command goes into its register and into no other.
LEMMA TakesWrite ==
  ASSUME BoardTakes, NEW r \in Written, NEW v \in Values[r],
         Head(frames) = WriteFrame(r, v)
  PROVE  /\ register' = [s \in Registers |-> IF s = r THEN v ELSE register[s]]
         /\ UNCHANGED <<reply, answer>>
  <1> DEFINE n == Board[r].size
  <1>1. r \in Registers /\ v \in Numbers(n) /\ v \in Int /\ n \in {1, 2, 4}
    BY ValuesHaveType, BoardSizes, RegisterAssumption
  <1>2. PICK f : f = WriteFrame(r, v)
    OBVIOUS
  <1>3. /\ f \in Seq(Bytelike) /\ Len(f) = n + 4
        /\ f[1] = Board[r].code /\ f[2] = n + 2 /\ f[3] = 1
        /\ \A k \in 1 .. n : f[3 + k] = (v \div Shift[k]) % Byte
        /\ f[Len(f)] = Checksum(Front(f))
    BY <1>1, <1>2, WriteFrameShape
  <1>4. {s \in Registers : Accepts(f, s)} = {r}
    <2>1. Len(f) = f[2] + 2
      BY <1>1, <1>3
    <2> QED BY <1>1, <1>3, <2>1, TakenByOne
  <1>5. Decoded(Tail(f), n) = v
    <2>1. \A k \in 1 .. n : Tail(f)[k + 2] = (v \div Shift[k]) % Byte
      <3> SUFFICES ASSUME NEW k \in 1 .. n
                   PROVE  Tail(f)[k + 2] = (v \div Shift[k]) % Byte
        OBVIOUS
      <3>1. f # <<>> /\ Len(Tail(f)) = n + 3
        <4>1. f # <<>>
          BY <1>1, <1>3, EmptyLength
        <4>2. Len(Tail(f)) = Len(f) - 1
          BY <1>3, <4>1, HeadTailProperties
        <4> QED BY <1>1, <1>3, <4>1, <4>2
      <3>2. k + 2 \in 1 .. Len(Tail(f)) /\ (k + 2) + 1 = 3 + k
        BY <1>1, <3>1
      <3>3. Tail(f)[k + 2] = f[3 + k]
        BY <1>3, <3>1, <3>2, HeadTailProperties
      <3> QED BY <1>3, <3>3
    <2> QED BY <1>1, <2>1, DecodedBytes
  <1>6. /\ register' = [s \in Registers |->
              IF s \in {r} THEN Decoded(Tail(f), Board[s].size) ELSE register[s]]
        /\ UNCHANGED <<reply, answer>>
    BY <1>2, <1>3, <1>4 DEF BoardTakes
  <1> QED BY <1>5, <1>6

\* A request is answered with the number in its register.
LEMMA TakesRead ==
  ASSUME BoardTakes, NEW r \in Read, Head(frames) = ReadFrame(r)
  PROVE  /\ reply' = Reply(r, register[r]) /\ answer' = register[r]
         /\ UNCHANGED register
  <1>1. r \in Registers
    BY DEF Registers
  <1>2. PICK f : f = ReadFrame(r)
    OBVIOUS
  <1>3. /\ f \in Seq(Bytelike) /\ Len(f) = 4
        /\ f[1] = Board[r].code /\ f[2] = 2 /\ f[3] = 2
        /\ f[Len(f)] = Checksum(Front(f))
    BY <1>1, <1>2, ReadFrameShape
  <1>4. Len(f) = f[2] + 2
    BY <1>3
  <1>5. {s \in Registers : Accepts(f, s)} = {r}
    BY <1>1, <1>3, <1>4, TakenByOne
  <1>6. UNCHANGED register
    BY <1>2, <1>3 DEF BoardTakes
  <1>7. \E s \in {r} : reply' = Reply(s, register[s]) /\ answer' = register[s]
    BY <1>2, <1>3, <1>5 DEF BoardTakes
  <1> QED BY <1>6, <1>7

----------------------------------------------------------------------------
(* The types *)

\* The frames of the writes and reads are frames the board is sent.
LEMMA FramesOfCalls ==
  /\ \A r \in Written : \A v \in Values[r] : WriteFrame(r, v) \in WriteFrames
  /\ \A r \in Read : ReadFrame(r) \in ReadFrames
  BY DEF WriteFrames, ReadFrames

\* Every step of the board is one of these two.
LEMMA BoardStep ==
  ASSUME LinkTypeOK, BoardTakes
  PROVE  \/ \E r \in Written : \E v \in Values[r] :
               /\ Head(frames) = WriteFrame(r, v)
               /\ register' = [s \in Registers |-> IF s = r THEN v ELSE register[s]]
               /\ UNCHANGED <<reply, answer>>
         \/ \E r \in Read :
               /\ Head(frames) = ReadFrame(r)
               /\ reply' = Reply(r, register[r]) /\ answer' = register[r]
               /\ UNCHANGED register
  <1>1. Head(frames) \in Frames
    BY HeadTailProperties DEF LinkTypeOK, BoardTakes
  <1>2. CASE Head(frames) \in WriteFrames
    <2>1. PICK r \in Written : \E v \in Values[r] : Head(frames) = WriteFrame(r, v)
      BY <1>2 DEF WriteFrames
    <2>2. PICK v \in Values[r] : Head(frames) = WriteFrame(r, v)
      BY <2>1
    <2>3. /\ register' = [s \in Registers |-> IF s = r THEN v ELSE register[s]]
          /\ UNCHANGED <<reply, answer>>
      BY <2>2, TakesWrite
    <2> QED BY <2>2, <2>3
  <1>3. CASE Head(frames) \in ReadFrames
    <2>1. PICK r \in Read : Head(frames) = ReadFrame(r)
      BY <1>3 DEF ReadFrames
    <2>2. /\ reply' = Reply(r, register[r]) /\ answer' = register[r]
          /\ UNCHANGED register
      BY <2>1, TakesRead
    <2> QED BY <2>1, <2>2
  <1> QED BY <1>1, <1>2, <1>3 DEF Frames

\* CarControlInit leaves the types as they should be.
LEMMA InitTypeOK == Init => LinkTypeOK
  <1> SUFFICES ASSUME Init PROVE LinkTypeOK
    OBVIOUS
  <1>1. \A r \in Registers : 0 \in Numbers(Board[r].size)
    BY BoardSizes, NumbersAreIntegers, RegisterAssumption
  <1>2. <<>> \in Seq(Frames) /\ <<>> \in Seq(Bytelike)
    BY EmptySeq
  <1>3. read_buf \in Seq(Bytelike) /\ Len(read_buf) = 8
    <2>1. 0 \in Bytelike
      BY DEF Bytelike
    <2> QED BY <2>1 DEF Init
  <1> QED BY <1>1, <1>2, <1>3 DEF Init, LinkTypeOK

\* A write of one number of the register's type.
LEMMA WriteTypeOK ==
  ASSUME LinkTypeOK, NEW r \in Written, NEW v \in Values[r], Write(r, v)
  PROVE  LinkTypeOK'
  <1>1. frames' \in Seq(Frames)
    BY FramesOfCalls, AppendProperties DEF LinkTypeOK, Write, Frames
  <1>2. asked' \in [Registers -> Int]
    BY ValuesHaveType DEF LinkTypeOK, Write
  <1> QED BY <1>1, <1>2 DEF LinkTypeOK, Write, boardVars

\* A request.
LEMMA RequestTypeOK ==
  ASSUME LinkTypeOK, NEW r \in Read, Request(r)
  PROVE  LinkTypeOK'
  <1>1. frames' \in Seq(Frames)
    BY FramesOfCalls, AppendProperties DEF LinkTypeOK, Request, Frames
  <1> QED BY <1>1 DEF LinkTypeOK, Request, boardVars

\* What a read takes fits into read_buf, however much the line holds.
LEMMA AnswerLength ==
  ASSUME NEW n \in {1, 2, 4}, NEW len \in Nat, len > 0,
         NEW k, k = IF len < n + 3 THEN len ELSE n + 3
  PROVE  k \in 1 .. 7 /\ k <= len
  OBVIOUS

\* The register whose reply is read, and the line.
LEMMA AnswerCall ==
  ASSUME LinkTypeOK, Answer
  PROVE  /\ call \in Registers /\ Board[call].size \in {1, 2, 4}
         /\ Len(line) \in Nat /\ Len(line) > 0
  <1>1. call \in Read /\ line # <<>> /\ line \in Seq(Bytelike)
    <2>1. call # NoCall /\ line # <<>>
      BY Zenon DEF Answer
    <2> QED BY <2>1 DEF LinkTypeOK
  <1>2. call \in Registers /\ call \in DOMAIN Board
    BY <1>1, RegisterAssumption DEF Registers
  <1>3. Board[call].size \in {1, 2, 4}
    BY <1>2, BoardSizes
  <1>4. Len(line) \in Nat /\ Len(line) > 0
    BY <1>1, EmptyLength
  <1> QED BY <1>2, <1>3, <1>4

\* A read of the line: the front of read_buf is new, the rest stays.
LEMMA AnswerTypeOK ==
  ASSUME LinkTypeOK, Answer
  PROVE  LinkTypeOK'
  <1>1. Board[call].size \in {1, 2, 4}
    BY AnswerCall
  <1>2. Len(line) \in Nat /\ Len(line) > 0
    BY AnswerCall
  <1>3. PICK k : k = IF Len(line) < Board[call].size + 3 THEN Len(line)
                     ELSE Board[call].size + 3
    OBVIOUS
  <1>4. k \in 1 .. 7 /\ k <= Len(line)
    BY <1>1, <1>2, <1>3, AnswerLength
  <1>5. /\ read_buf' = SubSeq(line, 1, k) \o SubSeq(read_buf, k + 1, 8)
        /\ line' = SubSeq(line, k + 1, Len(line)) /\ call' = NoCall
        /\ UNCHANGED <<register, answer, frames, reply, asked>>
    BY <1>3 DEF Answer, boardVars
  <1>6. SubSeq(line, 1, k) \in Seq(Bytelike) /\ Len(SubSeq(line, 1, k)) = k
    <2>1. \A i \in 1 .. k : line[i] \in Bytelike
      BY <1>2, <1>4, ElementOfSeq DEF LinkTypeOK
    <2> QED BY <1>4, <2>1, SubSeqProperties
  <1>7. SubSeq(read_buf, k + 1, 8) \in Seq(Bytelike) /\ Len(SubSeq(read_buf, k + 1, 8)) = 8 - k
    <2>1. \A i \in 1 .. 8 : read_buf[i] \in Bytelike
      BY ElementOfSeq DEF LinkTypeOK
    <2>2. \A i \in k + 1 .. 8 : read_buf[i] \in Bytelike
      BY <1>4, <2>1
    <2>3. k + 1 \in Int /\ k + 1 <= 8 /\ 8 - (k + 1) + 1 = 8 - k
      BY <1>4
    <2> QED BY <2>2, <2>3, SubSeqProperties
  <1>8. line' \in Seq(Bytelike)
    <2>1. \A i \in k + 1 .. Len(line) : line[i] \in Bytelike
      BY <1>2, <1>4, ElementOfSeq DEF LinkTypeOK
    <2> QED BY <1>2, <1>4, <1>5, <2>1, SubSeqProperties
  <1>9. read_buf' \in Seq(Bytelike) /\ Len(read_buf') = 8
    BY <1>4, <1>5, <1>6, <1>7, ConcatProperties
  <1> QED BY <1>5, <1>8, <1>9 DEF LinkTypeOK

\* A frame taken by the board.
LEMMA BoardTypeOK ==
  ASSUME LinkTypeOK, BoardTakes
  PROVE  LinkTypeOK'
  <1>1. frames' \in Seq(Frames) /\ UNCHANGED <<line, asked, read_buf, call>>
    BY HeadTailProperties DEF LinkTypeOK, BoardTakes, hostVars
  <1>2. CASE \E r \in Written : \E v \in Values[r] :
               /\ Head(frames) = WriteFrame(r, v)
               /\ register' = [s \in Registers |-> IF s = r THEN v ELSE register[s]]
               /\ UNCHANGED <<reply, answer>>
    <2>1. PICK r \in Written : \E v \in Values[r] :
               /\ register' = [s \in Registers |-> IF s = r THEN v ELSE register[s]]
               /\ UNCHANGED <<reply, answer>>
      BY <1>2
    <2>2. PICK v \in Values[r] :
               /\ register' = [s \in Registers |-> IF s = r THEN v ELSE register[s]]
               /\ UNCHANGED <<reply, answer>>
      BY <2>1
    <2>3. /\ register' \in [Registers -> Int]
          /\ \A s \in Registers : register'[s] \in Numbers(Board[s].size)
      BY <2>2, ValuesHaveType DEF LinkTypeOK
    <2> QED BY <1>1, <2>2, <2>3 DEF LinkTypeOK
  <1>3. CASE \E r \in Read :
               /\ Head(frames) = ReadFrame(r)
               /\ reply' = Reply(r, register[r]) /\ answer' = register[r]
               /\ UNCHANGED register
    <2>1. PICK r \in Read : reply' = Reply(r, register[r]) /\ UNCHANGED register
      BY <1>3
    <2>2. reply' \in Seq(Bytelike)
      BY <2>1, ReplyShape DEF LinkTypeOK, Registers
    <2> QED BY <1>1, <2>1, <2>2 DEF LinkTypeOK
  <1> QED BY <1>2, <1>3, BoardStep

\* A reply or a piece of one.
LEMMA DeliverTypeOK ==
  ASSUME LinkTypeOK, Deliver
  PROVE  LinkTypeOK'
  <1>1. PICK k \in 1 .. Len(reply) :
             /\ line' = line \o SubSeq(reply, 1, k)
             /\ reply' = SubSeq(reply, k + 1, Len(reply))
    <2>1. Len(reply) \in 1 .. Len(reply)
      BY EmptyLength DEF LinkTypeOK, Deliver
    <2> QED BY <2>1 DEF Deliver
  <1>2. Len(reply) \in Nat
    BY LenProperties DEF LinkTypeOK
  <1>3. SubSeq(reply, 1, k) \in Seq(Bytelike) /\ reply' \in Seq(Bytelike)
    BY <1>1, <1>2, SubSeqProperties, ElementOfSeq DEF LinkTypeOK
  <1>4. line' \in Seq(Bytelike)
    BY <1>1, <1>3, ConcatProperties DEF LinkTypeOK
  <1> QED BY <1>3, <1>4 DEF LinkTypeOK, Deliver, boardVars, hostVars

\* The car rolls.
LEMMA MovesTypeOK ==
  ASSUME LinkTypeOK, NEW r \in Moving, Moves(r)
  PROVE  LinkTypeOK'
  <1>1. PICK v \in Values[r] : register' = [register EXCEPT ![r] = v]
    BY DEF Moves
  <1>2. /\ register' \in [Registers -> Int]
        /\ \A s \in Registers : register'[s] \in Numbers(Board[s].size)
    BY <1>1, ValuesHaveType DEF LinkTypeOK
  <1> QED BY <1>2 DEF LinkTypeOK, Moves, hostVars

\* Every step keeps the types.
LEMMA StepTypeOK == LinkTypeOK /\ [Next]_vars => LinkTypeOK'
  <1> SUFFICES ASSUME LinkTypeOK, [Next]_vars PROVE LinkTypeOK'
    OBVIOUS
  <1>1. ASSUME UNCHANGED vars PROVE LinkTypeOK'
    BY <1>1 DEF LinkTypeOK, vars, hostVars, boardVars
  <1> QED BY <1>1, WriteTypeOK, RequestTypeOK, AnswerTypeOK, BoardTypeOK, DeliverTypeOK,
             MovesTypeOK DEF Next

----------------------------------------------------------------------------
(* Commands arrive *)

\* A frame that does not write r goes behind the others, and r and the number
\* asked for it stay: it is as settled as before.
LEMMA AppendSettles ==
  ASSUME NEW r, Settled(r), frames \in Seq(Frames), NEW f \in Frames,
         frames' = Append(frames, f), ~Sets(f, r),
         asked'[r] = asked[r], register'[r] = register[r]
  PROVE  Settled(r)'
  <1>1. Len(frames) \in Nat
    BY LenProperties
  <1>2. /\ Len(frames') = Len(frames) + 1 /\ frames'[Len(frames) + 1] = f
        /\ \A i \in 1 .. Len(frames) : frames'[i] = frames[i]
    BY AppendProperties
  <1>3. PICK i \in 0 .. Len(frames) : Holds(r, i) /\ Untouched(r, i + 1)
    BY DEF Settled
  <1>4. Holds(r, i)'
    BY <1>1, <1>2, <1>3 DEF Holds
  <1>5. ASSUME NEW j \in i + 1 .. Len(frames) + 1
        PROVE  ~Sets(frames'[j], r)
    <2>1. CASE j = Len(frames) + 1
      BY <1>2, <2>1
    <2>2. CASE j # Len(frames) + 1
      BY <1>1, <1>2, <1>3, <2>2 DEF Untouched
    <2> QED BY <2>1, <2>2
  <1>6. Untouched(r, i + 1)'
    BY <1>2, <1>5 DEF Untouched, Sets
  <1>7. i \in 0 .. Len(frames')
    BY <1>1, <1>2
  <1> QED BY <1>4, <1>6, <1>7 DEF Settled

\* A write to r is the last frame that writes it.
LEMMA WriteSettles ==
  ASSUME LinkTypeOK, NEW s \in Written, NEW v \in Values[s], Write(s, v),
         NEW r \in Written \ Moving, Settled(r)
  PROVE  Settled(r)'
  <1>1. r \in Registers /\ s \in Registers /\ Len(frames) \in Nat
    BY LenProperties DEF LinkTypeOK, Registers
  <1>2. /\ WriteFrame(s, v) \in Frames /\ frames' = Append(frames, WriteFrame(s, v))
        /\ asked' = [asked EXCEPT ![s] = v] /\ UNCHANGED register
    BY FramesOfCalls DEF Write, boardVars, Frames
  <1>3. CASE r = s
    <2>1. asked'[r] = v
      BY <1>1, <1>2, <1>3 DEF LinkTypeOK
    <2>2. Len(frames') = Len(frames) + 1 /\ frames'[Len(frames) + 1] = WriteFrame(s, v)
      BY <1>2, AppendProperties DEF LinkTypeOK
    <2>3. PICK i \in Nat : i = Len(frames) + 1
      BY <1>1
    <2>4. i # 0 /\ asked'[r] \in Values[r] /\ frames'[i] = WriteFrame(r, asked'[r])
      BY <1>1, <1>3, <2>1, <2>2, <2>3
    <2>5. Holds(r, i)'
      BY <2>4 DEF Holds
    <2>6. Untouched(r, i + 1)'
      BY <1>1, <2>2, <2>3 DEF Untouched
    <2>7. i \in 0 .. Len(frames')
      BY <1>1, <2>2, <2>3
    <2> QED BY <2>5, <2>6, <2>7 DEF Settled
  <1>4. CASE r # s
    <2>1. asked'[r] = asked[r] /\ register'[r] = register[r]
      BY <1>1, <1>2, <1>4 DEF LinkTypeOK
    <2>2. ~Sets(WriteFrame(s, v), r)
      BY <1>1, <1>4, WhatFramesSet
    <2> QED BY <1>2, <2>1, <2>2, AppendSettles DEF LinkTypeOK
  <1> QED BY <1>3, <1>4

\* A request is not a frame that writes.
LEMMA RequestSettles ==
  ASSUME LinkTypeOK, NEW s \in Read, Request(s), NEW r \in Written \ Moving, Settled(r)
  PROVE  Settled(r)'
  <1>1. /\ ReadFrame(s) \in Frames /\ frames' = Append(frames, ReadFrame(s))
        /\ UNCHANGED <<asked, register>>
    BY FramesOfCalls DEF Request, boardVars, Frames
  <1>2. ~Sets(ReadFrame(s), r)
    BY WhatFramesSet DEF Registers
  <1> QED BY <1>1, <1>2, AppendSettles DEF LinkTypeOK

\* What the first frame does to r when the board takes it.
LEMMA HeadSets ==
  ASSUME LinkTypeOK, BoardTakes, NEW r \in Registers
  PROVE  /\ ~Sets(frames[1], r) => register'[r] = register[r]
         /\ \A v \in Values[r] :
               r \in Written /\ frames[1] = WriteFrame(r, v) => register'[r] = v
  <1>1. Head(frames) = frames[1]
    BY DEF BoardTakes
  <1>2. ASSUME NEW s \in Written, NEW v \in Values[s], Head(frames) = WriteFrame(s, v),
               register' = [t \in Registers |-> IF t = s THEN v ELSE register[t]]
        PROVE  ~Sets(frames[1], r) => register'[r] = register[r]
    BY <1>1, <1>2, WhatFramesSet
  <1>3. ~Sets(frames[1], r) => register'[r] = register[r]
    BY <1>2, BoardStep
  <1>4. ASSUME NEW v \in Values[r], r \in Written, frames[1] = WriteFrame(r, v)
        PROVE  register'[r] = v
    BY <1>1, <1>4, TakesWrite
  <1> QED BY <1>3, <1>4

\* The frame the board takes is the one before all others: the last command to
\* r moves up, or reaches the register.
LEMMA BoardSettles ==
  ASSUME LinkTypeOK, BoardTakes, NEW r \in Written \ Moving, Settled(r)
  PROVE  Settled(r)'
  <1>1. r \in Registers /\ Len(frames) \in Nat /\ frames # <<>>
    BY LenProperties DEF LinkTypeOK, Registers, BoardTakes
  <1>2. /\ Len(frames') = Len(frames) - 1
        /\ \A i \in 1 .. Len(frames) - 1 : frames'[i] = frames[i + 1]
    BY <1>1, HeadTailProperties DEF LinkTypeOK, BoardTakes
  <1>3. asked' = asked /\ Len(frames) > 0
    BY <1>1, EmptyLength DEF BoardTakes, hostVars, LinkTypeOK
  <1>4. PICK i \in 0 .. Len(frames) : Holds(r, i) /\ Untouched(r, i + 1)
    BY DEF Settled
  <1>5. ASSUME NEW k \in 0 .. Len(frames) - 1, k >= i - 1
        PROVE  Untouched(r, k + 1)'
    <2>1. ASSUME NEW j \in k + 1 .. Len(frames) - 1
          PROVE  ~Sets(frames'[j], r)
      <3>1. j + 1 \in i + 1 .. Len(frames) /\ j \in 1 .. Len(frames) - 1
        BY <1>1, <1>5
      <3> QED BY <1>2, <1>4, <3>1 DEF Untouched
    <2> QED BY <1>2, <2>1 DEF Untouched, Sets
  <1>6. CASE i = 0
    <2>1. ~Sets(frames[1], r)
      BY <1>1, <1>3, <1>4, <1>6 DEF Untouched
    <2>2. Holds(r, 0)'
      BY <1>1, <1>3, <1>4, <1>6, <2>1, HeadSets DEF Holds
    <2>3. 0 \in 0 .. Len(frames') /\ Untouched(r, 0 + 1)'
      BY <1>1, <1>2, <1>3, <1>5, <1>6
    <2> QED BY <2>2, <2>3 DEF Settled
  <1>7. CASE i = 1
    <2>1. Holds(r, 0)'
      BY <1>1, <1>3, <1>4, <1>7, HeadSets DEF Holds
    <2>2. 0 \in 0 .. Len(frames') /\ Untouched(r, 0 + 1)'
      BY <1>1, <1>2, <1>3, <1>5, <1>7
    <2> QED BY <2>1, <2>2 DEF Settled
  <1>8. CASE i > 1
    <2>1. i - 1 \in 1 .. Len(frames) - 1 /\ (i - 1) + 1 = i
      BY <1>1, <1>8
    <2>2. Holds(r, i - 1)'
      BY <1>2, <1>3, <1>4, <1>8, <2>1 DEF Holds
    <2>3. Untouched(r, (i - 1) + 1)'
      BY <1>5, <2>1
    <2>4. i - 1 \in 0 .. Len(frames')
      BY <1>1, <1>2, <2>1
    <2> QED BY <2>2, <2>3, <2>4 DEF Settled
  <1> QED BY <1>6, <1>7, <1>8

\* A step that leaves the frames, r and the number asked for it alone.
LEMMA KeepsSettled ==
  ASSUME NEW r, Settled(r), UNCHANGED <<frames, asked>>, register'[r] = register[r]
  PROVE  Settled(r)'
  BY DEF Settled, Untouched, Holds

\* Every step keeps the commands in the board or on their way.
LEMMA StepSettled == LinkTypeOK /\ AllSettled /\ [Next]_vars => AllSettled'
  <1> SUFFICES ASSUME LinkTypeOK, AllSettled, [Next]_vars, NEW r \in Written \ Moving
               PROVE  Settled(r)'
    BY DEF AllSettled
  <1>1. Settled(r) /\ r \in Registers
    <2>1. Settled(r)
      BY DEF AllSettled
    <2> QED BY <2>1 DEF Registers
  <1>2. ASSUME UNCHANGED vars \/ Answer \/ Deliver PROVE Settled(r)'
    <2>1. UNCHANGED <<frames, asked, register>>
      <3>1. CASE UNCHANGED vars
        BY <3>1 DEF vars, hostVars, boardVars
      <3>2. CASE Answer
        BY <3>2, Zenon DEF boardVars, Answer
      <3>3. CASE Deliver
        BY <3>3, Zenon DEF hostVars, boardVars, Deliver
      <3> QED BY <1>2, <3>1, <3>2, <3>3
    <2> QED BY <1>1, <2>1, KeepsSettled
  <1>3. ASSUME NEW s \in Moving, Moves(s) PROVE Settled(r)'
    <2>1. register'[r] = register[r] /\ UNCHANGED <<frames, asked>>
      BY <1>1, <1>3 DEF Moves, hostVars, LinkTypeOK
    <2> QED BY <1>1, <2>1, KeepsSettled
  <1> QED BY <1>1, <1>2, <1>3, WriteSettles, RequestSettles, BoardSettles DEF Next

\* At the start every register holds what the program takes for the last
\* number written.
LEMMA InitSettled == Init => AllSettled
  BY DEF Init, AllSettled, Settled, Untouched, Holds

\* CommandsArrive for every choice of registers and numbers, whether replies
\* come in pieces or not: when the line to the board is empty, every register
\* that only the program writes holds the last number written to it.
THEOREM CommandsReachBoard == Spec => []CommandsArrive
  <1>1. Init => LinkTypeOK /\ AllSettled
    BY InitTypeOK, InitSettled
  <1>2. LinkTypeOK /\ AllSettled /\ [Next]_vars => (LinkTypeOK /\ AllSettled)'
    BY StepTypeOK, StepSettled
  <1>3. AllSettled => CommandsArrive
    BY DEF AllSettled, Settled, Holds, CommandsArrive
  <1> QED BY <1>1, <1>2, <1>3, PTL DEF Spec

----------------------------------------------------------------------------
(* A read returns its own reply *)

\* The whole reply, taken at once, gives the number that the board put in it
\* and leaves nothing on the line.
LEMMA WholeReply ==
  ASSUME LinkTypeOK, Answer, line = Reply(call, answer),
         answer \in Numbers(Board[call].size)
  PROVE  value' = answer /\ line' = <<>>
  <1>1. call \in Registers /\ Board[call].size \in {1, 2, 4}
    BY AnswerCall
  <1>2. PICK n \in {1, 2, 4} : n = Board[call].size
    BY <1>1
  <1>3. answer \in Numbers(n) /\ answer \in Int
    BY <1>2, NumbersAreIntegers
  <1>4. /\ line \in Seq(Bytelike) /\ Len(line) = n + 3
        /\ \A k \in 1 .. n : line[2 + k] = (answer \div Shift[k]) % Byte
    <2>1. /\ line \in Seq(Bytelike) /\ Len(line) = Board[call].size + 3
          /\ \A k \in 1 .. Board[call].size : line[2 + k] = (answer \div Shift[k]) % Byte
      BY <1>1, <1>3, ReplyShape
    <2> QED BY <1>2, <2>1
  <1>5. PICK k \in 4 .. 7 : k = n + 3
    OBVIOUS
  <1>6. /\ read_buf' = SubSeq(line, 1, k) \o SubSeq(read_buf, k + 1, 8)
        /\ line' = SubSeq(line, k + 1, Len(line))
        /\ value' = Decoded(read_buf', n)
    <2>1. ~(Len(line) < n + 3)
      BY <1>4
    <2> QED BY <1>2, <1>5, <2>1 DEF Answer
  <1>7. line' = <<>>
    BY <1>4, <1>5, <1>6, SubSeqEmpty
  <1>8. SubSeq(line, 1, k) = line
    BY <1>4, <1>5, SubSeqFull
  <1>9. SubSeq(read_buf, k + 1, 8) \in Seq(Bytelike)
    <2>1. \A i \in 1 .. 8 : read_buf[i] \in Bytelike
      BY ElementOfSeq DEF LinkTypeOK
    <2>2. \A i \in k + 1 .. 8 : read_buf[i] \in Bytelike
      BY <1>5, <2>1
    <2> QED BY <2>2, SubSeqProperties
  <1>10. ASSUME NEW i \in 1 .. n
         PROVE  read_buf'[i + 2] = (answer \div Shift[i]) % Byte
    <2>1. i + 2 \in 1 .. Len(line) /\ i + 2 = 2 + i
      BY <1>4
    <2>2. read_buf'[i + 2] = line[i + 2]
      BY <1>4, <1>6, <1>8, <1>9, <2>1, ConcatProperties
    <2> QED BY <1>4, <2>1, <2>2
  <1>11. Decoded(read_buf', n) = answer
    BY <1>3, <1>10, DecodedBytes
  <1> QED BY <1>6, <1>7, <1>11

\* Nothing on the way at the start.
LEMMA InitOneReply == Init => OneReply
  BY DEF Init, OneReply, NoCall

\* A write, while no read waits.
LEMMA WriteOneReply ==
  ASSUME LinkTypeOK, OneReply, NEW r \in Written, NEW v \in Values[r], Write(r, v)
  PROVE  OneReply'
  <1>1. WriteFrame(r, v) \in WriteFrames /\ WriteFrame(r, v) \in Frames /\ Len(frames) \in Nat
    BY FramesOfCalls, LenProperties DEF Frames, LinkTypeOK
  <1>2. /\ Len(frames') = Len(frames) + 1 /\ frames'[Len(frames) + 1] = WriteFrame(r, v)
        /\ \A i \in 1 .. Len(frames) : frames'[i] = frames[i]
    BY <1>1, AppendProperties DEF LinkTypeOK, Write
  <1>3. /\ call = NoCall /\ UNCHANGED <<call, reply, line, value, answer>>
        /\ \A i \in 1 .. Len(frames) : frames[i] \in WriteFrames
        /\ reply = <<>> /\ line = <<>> /\ value = answer
    BY DEF OneReply, Write, boardVars
  <1>4. ASSUME NEW i \in 1 .. Len(frames) + 1
        PROVE  frames'[i] \in WriteFrames
    <2>1. CASE i = Len(frames) + 1
      BY <1>1, <1>2, <2>1
    <2>2. CASE i \in 1 .. Len(frames)
      BY <1>2, <1>3, <2>2
    <2> QED BY <1>1, <2>1, <2>2
  <1>5. \A i \in 1 .. Len(frames') : frames'[i] \in WriteFrames
    BY <1>2, <1>4
  <1> QED BY <1>3, <1>5 DEF OneReply, WriteFrames

\* The request of a read goes behind the writes before it.
LEMMA RequestOneReply ==
  ASSUME LinkTypeOK, OneReply, NEW r \in Read, Request(r)
  PROVE  OneReply'
  <1>1. ReadFrame(r) \in Frames /\ Len(frames) \in Nat
    BY FramesOfCalls, LenProperties DEF Frames, LinkTypeOK
  <1>2. /\ Len(frames') = Len(frames) + 1 /\ frames'[Len(frames) + 1] = ReadFrame(r)
        /\ frames' # <<>>
        /\ \A i \in 1 .. Len(frames) : frames'[i] = frames[i]
    <2>1. frames' = Append(frames, ReadFrame(r)) /\ frames \in Seq(Frames)
      BY DEF LinkTypeOK, Request
    <2>2. frames' # <<>>
      BY <1>1, <2>1, AppendProperties
    <2>3. Len(frames') = Len(frames) + 1 /\ frames'[Len(frames) + 1] = ReadFrame(r)
      BY <1>1, <2>1, AppendProperties
    <2>4. \A i \in 1 .. Len(frames) : frames'[i] = frames[i]
      BY <1>1, <2>1, AppendProperties
    <2> QED BY <2>2, <2>3, <2>4
  <1>3. /\ call' = r /\ UNCHANGED <<reply, line>>
        /\ \A i \in 1 .. Len(frames) : frames[i] \in WriteFrames
        /\ reply = <<>> /\ line = <<>>
    BY DEF OneReply, Request
  <1>4. call' # NoCall
    BY <1>3, NoCallIsNoRegister DEF Registers
  <1>5. Len(frames') - 1 = Len(frames)
    BY <1>1, <1>2
  <1>6. \A i \in 1 .. Len(frames') - 1 : frames'[i] \in WriteFrames
    BY <1>2, <1>3, <1>5
  <1>7. Requested'
    BY <1>2, <1>3, <1>6 DEF Requested, WriteFrames
  <1> QED BY <1>4, <1>7 DEF OneReply

\* The board takes a write, or the request once it is the first frame.
LEMMA BoardOneReply ==
  ASSUME LinkTypeOK, OneReply, BoardTakes
  PROVE  OneReply'
  <1>1. /\ Len(frames) \in Nat /\ Len(frames) > 0 /\ frames # <<>>
        /\ UNCHANGED <<line, call, value>>
    BY EmptyLength DEF LinkTypeOK, BoardTakes, hostVars
  <1>2. /\ Len(frames') = Len(frames) - 1 /\ Head(frames) = frames[1]
        /\ frames' \in Seq(Frames)
        /\ \A i \in 1 .. Len(frames) - 1 : frames'[i] = frames[i + 1]
    BY <1>1, HeadTailProperties DEF LinkTypeOK, BoardTakes
  <1>3. /\ Head(frames) \in WriteFrames => UNCHANGED <<reply, answer>>
        /\ \A r \in Read : Head(frames) = ReadFrame(r) =>
              reply' = Reply(r, register[r]) /\ answer' = register[r]
    <2>1. ASSUME Head(frames) \in WriteFrames PROVE UNCHANGED <<reply, answer>>
      <3>1. PICK r \in Written : \E v \in Values[r] : Head(frames) = WriteFrame(r, v)
        BY <2>1 DEF WriteFrames
      <3>2. PICK v \in Values[r] : Head(frames) = WriteFrame(r, v)
        BY <3>1
      <3> QED BY <3>2, TakesWrite
    <2> QED BY <2>1, TakesRead
  <1>4. CASE call = NoCall
    <2>1. /\ \A i \in 1 .. Len(frames) : frames[i] \in WriteFrames
          /\ reply = <<>> /\ line = <<>> /\ value = answer
      BY <1>4 DEF OneReply
    <2>2. Head(frames) \in WriteFrames
      BY <1>1, <1>2, <2>1
    <2>3. \A i \in 1 .. Len(frames') : frames'[i] \in WriteFrames
      BY <1>1, <1>2, <2>1
    <2> QED BY <1>1, <1>3, <1>4, <2>1, <2>2, <2>3 DEF OneReply, WriteFrames
  <1>5. CASE call # NoCall
    <2>1. Requested /\ call \in Read /\ call' # NoCall
      BY <1>1, <1>5 DEF OneReply, Answered, Delivered, LinkTypeOK
    <2>2. CASE Len(frames) = 1
      <3>1. reply' = Reply(call, register[call]) /\ answer' = register[call]
        BY <1>2, <1>3, <2>1, <2>2 DEF Requested
      <3>2. answer' \in Numbers(Board[call].size)
        BY <2>1, <3>1 DEF LinkTypeOK, Registers
      <3>3. frames' = <<>>
        BY <1>2, <2>2, EmptyLength
      <3>4. Answered'
        BY <1>1, <2>1, <3>1, <3>3 DEF Answered, Requested
      <3> QED BY <1>1, <2>1, <3>2, <3>4 DEF OneReply
    <2>3. CASE Len(frames) > 1
      <3>1. 1 \in 1 .. Len(frames) - 1 /\ Len(frames) - 1 \in 1 .. Len(frames) - 1
        BY <1>1, <2>3
      <3>2. Head(frames) \in WriteFrames
        BY <1>2, <2>1, <3>1 DEF Requested
      <3>3. reply' = <<>> /\ line' = <<>>
        BY <1>1, <1>3, <2>1, <3>2 DEF Requested
      <3>4. frames'[Len(frames')] = ReadFrame(call')
        BY <1>1, <1>2, <2>1, <3>1 DEF Requested
      <3>5. \A i \in 1 .. Len(frames') - 1 : frames'[i] \in WriteFrames
        <4>1. ASSUME NEW i \in 1 .. Len(frames') - 1 PROVE frames'[i] \in WriteFrames
          <5>1. i \in 1 .. Len(frames) - 1 /\ i + 1 \in 1 .. Len(frames) - 1
            BY <1>1, <1>2
          <5> QED BY <1>2, <2>1, <5>1 DEF Requested
        <4> QED BY <4>1
      <3>6. frames' # <<>>
        BY <1>2, <2>3, EmptyLength
      <3>7. Requested'
        BY <3>3, <3>4, <3>5, <3>6 DEF Requested, WriteFrames
      <3> QED BY <2>1, <3>7 DEF OneReply
    <2> QED BY <1>1, <2>2, <2>3
  <1> QED BY <1>4, <1>5

\* A reply that comes in one piece.
LEMMA DeliverOneReply ==
  ASSUME LinkTypeOK, OneReply, Deliver, SplitReplies = FALSE
  PROVE  OneReply'
  <1>1. /\ line' = line \o SubSeq(reply, 1, Len(reply))
        /\ reply' = SubSeq(reply, Len(reply) + 1, Len(reply))
        /\ reply # <<>> /\ UNCHANGED <<frames, call, answer>>
    BY DEF Deliver, boardVars, hostVars
  <1>2. Answered /\ call # NoCall /\ answer \in Numbers(Board[call].size)
    <2>1. ~Requested /\ ~Delivered /\ call # NoCall
      BY <1>1 DEF OneReply, Requested, Delivered
    <2> QED BY <2>1 DEF OneReply
  <1>3. Len(reply) \in Nat /\ reply \in Seq(Bytelike)
    BY LenProperties DEF LinkTypeOK
  <1>4. SubSeq(reply, 1, Len(reply)) = reply
    BY <1>3, SubSeqFull
  <1>5. line' = reply
    BY <1>1, <1>2, <1>3, <1>4, ConcatEmptySeq DEF Answered
  <1>6. reply' = <<>>
    BY <1>1, <1>3, SubSeqEmpty
  <1>7. Delivered'
    BY <1>1, <1>2, <1>5, <1>6 DEF Answered, Delivered
  <1> QED BY <1>1, <1>2, <1>7 DEF OneReply

\* The read takes the reply; nothing is left.
LEMMA AnswerOneReply ==
  ASSUME LinkTypeOK, OneReply, Answer
  PROVE  OneReply'
  <1>1. /\ call # NoCall /\ line # <<>> /\ call' = NoCall
        /\ UNCHANGED <<frames, reply, answer>>
    BY DEF Answer, boardVars
  <1>2. Delivered /\ answer \in Numbers(Board[call].size)
    BY <1>1 DEF OneReply, Requested, Answered
  <1>3. value' = answer /\ line' = <<>>
    BY <1>2, WholeReply DEF Delivered
  <1>4. frames' = <<>> /\ reply' = <<>>
    BY <1>1, <1>2 DEF Delivered
  <1>5. \A i \in 1 .. Len(frames') : frames'[i] \in WriteFrames
    BY <1>4, EmptySeq
  <1>6. value' = answer'
    BY <1>1, <1>3
  <1> QED BY <1>1, <1>3, <1>4, <1>5, <1>6 DEF OneReply, WriteFrames

\* A step that touches nothing on the way.
LEMMA KeepsOneReply ==
  ASSUME OneReply, UNCHANGED <<frames, reply, line, call, value, answer>>
  PROVE  OneReply'
  BY DEF OneReply, Requested, Answered, Delivered, WriteFrames

\* Every step keeps one reply on its way.
LEMMA StepOneReply ==
  ASSUME SplitReplies = FALSE
  PROVE  LinkTypeOK /\ OneReply /\ [Next]_vars => OneReply'
  <1> SUFFICES ASSUME LinkTypeOK, OneReply, [Next]_vars PROVE OneReply'
    OBVIOUS
  <1>1. ASSUME UNCHANGED vars PROVE OneReply'
    BY <1>1, KeepsOneReply DEF vars, hostVars, boardVars
  <1>2. ASSUME NEW r \in Moving, Moves(r) PROVE OneReply'
    BY <1>2, KeepsOneReply DEF Moves, hostVars
  <1> QED BY <1>1, <1>2, WriteOneReply, RequestOneReply, AnswerOneReply, BoardOneReply,
             DeliverOneReply DEF Next

\* ReadsOwnReply for every choice of registers and numbers, while a reply comes
\* in one piece: what a read returns is the number the board put in the reply
\* to this very request. The run UartSplit shows that the hypothesis is needed.
THEOREM RepliesMatch ==
  ASSUME SplitReplies = FALSE
  PROVE  Spec => []ReadsOwnReply
  <1>1. Init => LinkTypeOK /\ OneReply
    BY InitTypeOK, InitOneReply
  <1>2. LinkTypeOK /\ OneReply /\ [Next]_vars => (LinkTypeOK /\ OneReply)'
    BY StepTypeOK, StepOneReply
  <1>3. OneReply => ReadsOwnReply
    BY DEF OneReply, ReadsOwnReply
  <1> QED BY <1>1, <1>2, <1>3, PTL DEF Spec
=============================================================================
