------------------------- MODULE ConsoleInputProofs -------------------------
(* Proofs about ConsoleInput, for frames of any length, messages in any    *)
(* number of fragments and any number of frames on their way.              *)
EXTENDS ConsoleInput, SequenceTheorems, TLAPS

-----------------------------------------------------------------------------
(* The length coding *)

Octets == 0..255

LEMMA DivMod ==
  \A m \in Nat : m \div 256 \in Nat /\ m % 256 \in Octets
                /\ (m \div 256) * 256 + (m % 256) = m
<1> SUFFICES ASSUME NEW m \in Nat
             PROVE  /\ m \div 256 \in Nat /\ m % 256 \in Octets
                    /\ (m \div 256) * 256 + (m % 256) = m
  OBVIOUS
<1>1. m \div 256 \in Nat
  OBVIOUS
<1>2. m % 256 \in Octets
  BY DEF Octets
<1>3. (m \div 256) * 256 + (m % 256) = m
  OBVIOUS
<1> QED
  BY <1>1, <1>2, <1>3

(* Eight octets to the base of 256 give back a number below 2^64.          *)
LEMMA Digits ==
  ASSUME NEW n \in Nat, Fits(n)
  PROVE  /\ PutUint64(n) \in [1..8 -> Octets]
         /\ ((((((PutUint64(n)[1] * 256 + PutUint64(n)[2]) * 256 + PutUint64(n)[3]) * 256
                + PutUint64(n)[4]) * 256 + PutUint64(n)[5]) * 256 + PutUint64(n)[6]) * 256
                + PutUint64(n)[7]) * 256 + PutUint64(n)[8] = n
<1> DEFINE n1 == n \div 256   n2 == n1 \div 256  n3 == n2 \div 256  n4 == n3 \div 256
           n5 == n4 \div 256  n6 == n5 \div 256  n7 == n6 \div 256
<1>1. \A m \in Nat : m \div 256 \in Nat /\ m % 256 \in Octets
                     /\ (m \div 256) * 256 + (m % 256) = m
  BY DivMod
<1>2. /\ n1 \in Nat /\ n2 \in Nat /\ n3 \in Nat /\ n4 \in Nat /\ n5 \in Nat /\ n6 \in Nat
      /\ n7 \in Nat
  BY <1>1
<1>3. n7 < 256
  BY DEF Fits
<1>4. PutUint64(n) = <<n7 % 256, n6 % 256, n5 % 256, n4 % 256, n3 % 256, n2 % 256,
                       n1 % 256, n % 256>>
  BY DEF PutUint64
<1>5. n1 * 256 + (n % 256) = n /\ n2 * 256 + (n1 % 256) = n1 /\ n3 * 256 + (n2 % 256) = n2
      /\ n4 * 256 + (n3 % 256) = n3 /\ n5 * 256 + (n4 % 256) = n4 /\ n6 * 256 + (n5 % 256) = n5
      /\ n7 * 256 + (n6 % 256) = n6 /\ n7 % 256 = n7
  BY <1>1, <1>2, <1>3
<1>6. /\ n7 % 256 \in Octets /\ n6 % 256 \in Octets /\ n5 % 256 \in Octets
      /\ n4 % 256 \in Octets /\ n3 % 256 \in Octets /\ n2 % 256 \in Octets
      /\ n1 % 256 \in Octets /\ n % 256 \in Octets
  BY <1>1, <1>2
<1> HIDE DEF n1, n2, n3, n4, n5, n6, n7
<1> DEFINE o == PutUint64(n)
<1>7. /\ o[1] = n7 % 256 /\ o[2] = n6 % 256 /\ o[3] = n5 % 256 /\ o[4] = n4 % 256
      /\ o[5] = n3 % 256 /\ o[6] = n2 % 256 /\ o[7] = n1 % 256 /\ o[8] = n % 256
  BY <1>4
<1>8. o \in [1..8 -> Octets]
  BY <1>4, <1>6
<1> HIDE DEF o
<1>9. /\ o[1] = n7 /\ n7 * 256 + o[2] = n6 /\ n6 * 256 + o[3] = n5 /\ n5 * 256 + o[4] = n4
      /\ n4 * 256 + o[5] = n3 /\ n3 * 256 + o[6] = n2 /\ n2 * 256 + o[7] = n1
      /\ n1 * 256 + o[8] = n
  BY <1>2, <1>5, <1>6, <1>7
<1>10. ((((((o[1] * 256 + o[2]) * 256 + o[3]) * 256 + o[4]) * 256 + o[5]) * 256 + o[6])
          * 256 + o[7]) * 256 + o[8] = n
  BY <1>9
<1> QED
  BY <1>8, <1>10 DEF o

LEMMA Digits16 ==
  ASSUME NEW n \in Nat, n < 65536
  PROVE  /\ PutUint16(n) \in [1..2 -> Octets]
         /\ PutUint16(n)[1] * 256 + PutUint16(n)[2] = n
<1>0. n \div 256 < 256
  OBVIOUS
<1>2. n \div 256 \in Nat /\ (n \div 256) % 256 = n \div 256
  BY <1>0
<1>1. (n \div 256) % 256 \in Octets /\ n % 256 \in Octets
      /\ ((n \div 256) % 256) * 256 + (n % 256) = n
  BY <1>2, DivMod
<1> QED
  BY <1>1 DEF PutUint16

(* What stands in a header after its first two octets.                     *)
After(h, a, b, o, k, S) ==
  /\ Len(h) = k + 2 /\ h[1] = a /\ h[2] = b
  /\ \A i \in 1..k : h[i + 2] = o[i]
  /\ a \in S /\ b \in S => h \in Seq(S)

LEMMA Extended ==
  \A a, b, S, o, h : \A k \in Nat :
    o \in [1..k -> S] /\ h = <<a, b>> \o o => After(h, a, b, o, k, S)
<1> SUFFICES ASSUME NEW a, NEW b, NEW S, NEW o, NEW h, NEW k \in Nat,
                    o \in [1..k -> S], h = <<a, b>> \o o
             PROVE  After(h, a, b, o, k, S)
  OBVIOUS
<1> DEFINE T == S \cup {a, b}
<1>1. /\ <<a, b>> \in Seq(T) /\ Len(<<a, b>>) = 2
      /\ <<a, b>>[1] = a /\ <<a, b>>[2] = b
  OBVIOUS
<1>2. o \in Seq(T) /\ Len(o) = k
  OBVIOUS
<1> DEFINE p == <<a, b>>
<1> HIDE DEF p
<1>3. /\ p \o o \in Seq(T) /\ Len(p \o o) = 2 + k
      /\ \A i \in 1..(2 + k) : (p \o o)[i] = IF i <= 2 THEN p[i] ELSE o[i - 2]
  BY <1>1, <1>2, ConcatProperties DEF p
<1>4. (p \o o)[1] = a /\ (p \o o)[2] = b
  BY <1>1, <1>3 DEF p
<1>5. \A i \in 1..k : (p \o o)[i + 2] = o[i]
  <2> SUFFICES ASSUME NEW i \in 1..k PROVE (p \o o)[i + 2] = o[i]
    OBVIOUS
  <2>1. i + 2 \in 1..(2 + k) /\ ~(i + 2 <= 2) /\ i + 2 - 2 = i
    OBVIOUS
  <2> QED
    BY <1>3, <2>1
<1>6. a \in S /\ b \in S => T = S
  OBVIOUS
<1> QED
  BY <1>3, <1>4, <1>5, <1>6 DEF p, After

(* The octets of a header of the server, by which of the three forms.      *)
Coded(h, opcode, n) ==
  /\ h \in Seq(Octets) /\ Len(h) >= 2 /\ h[1] = 128 + opcode
  /\ h[2] \in 0..127
  /\ h[2] = 126 => Len(h) = 4 /\ Uint16(h) = n
  /\ h[2] = 127 => Len(h) = 10 /\ Uint64(h) = n
  /\ h[2] \notin {126, 127} => h[2] = n

LEMMA WrittenOctets ==
  \A opcode \in 0..15, n \in Nat : \A h :
    Fits(n) /\ h = WriteHeader(opcode, n) => Coded(h, opcode, n)
<1> SUFFICES ASSUME NEW opcode \in 0..15, NEW n \in Nat, NEW h,
                    Fits(n), h = WriteHeader(opcode, n)
             PROVE  Coded(h, opcode, n)
  OBVIOUS
<1>0. 128 + opcode \in Octets /\ 126 \in Octets /\ 127 \in Octets
  BY DEF Octets
<1>1. CASE n < 126
  <2>1. h = <<128 + opcode, n>>
    BY <1>1 DEF WriteHeader
  <2>2. n \in Octets
    BY <1>1 DEF Octets
  <2>3. h \in Seq(Octets) /\ Len(h) = 2 /\ h[1] = 128 + opcode /\ h[2] = n
    BY <1>0, <2>1, <2>2
  <2> QED
    BY <1>1, <2>3 DEF Coded
<1>2. CASE ~(n < 126) /\ n < 65536
  <2>0. PICK o : o = PutUint16(n)
    OBVIOUS
  <2>1. h = <<128 + opcode, 126>> \o o
    BY <1>2, <2>0 DEF WriteHeader
  <2>2. o \in [1..2 -> Octets] /\ o[1] * 256 + o[2] = n
    BY <1>2, <2>0, Digits16
  <2>6. After(h, 128 + opcode, 126, o, 2, Octets)
    <3>1. 2 \in Nat
      OBVIOUS
    <3> QED
      BY <2>1, <2>2, <3>1, Extended, Zenon
  <2>3. /\ Len(h) = 4 /\ h[1] = 128 + opcode /\ h[2] = 126 /\ h \in Seq(Octets)
        /\ \A i \in 1..2 : h[i + 2] = o[i]
    BY <1>0, <2>6 DEF After
  <2>4. h[3] = o[1] /\ h[4] = o[2]
    BY <2>3
  <2>5. Uint16(h) = n
    BY <2>2, <2>4 DEF Uint16
  <2> QED
    BY <2>3, <2>5 DEF Coded
<1>3. CASE ~(n < 126) /\ ~(n < 65536)
  <2>0. PICK o : o = PutUint64(n)
    OBVIOUS
  <2>1. h = <<128 + opcode, 127>> \o o
    BY <1>3, <2>0 DEF WriteHeader
  <2>2. /\ o \in [1..8 -> Octets]
        /\ ((((((o[1] * 256 + o[2]) * 256 + o[3]) * 256 + o[4]) * 256 + o[5]) * 256 + o[6])
              * 256 + o[7]) * 256 + o[8] = n
    BY <2>0, Digits
  <2>6. After(h, 128 + opcode, 127, o, 8, Octets)
    <3>1. 8 \in Nat
      OBVIOUS
    <3> QED
      BY <2>1, <2>2, <3>1, Extended, Zenon
  <2>3. /\ Len(h) = 10 /\ h[1] = 128 + opcode /\ h[2] = 127 /\ h \in Seq(Octets)
        /\ \A i \in 1..8 : h[i + 2] = o[i]
    BY <1>0, <2>6 DEF After
  <2>4. /\ h[3] = o[1] /\ h[4] = o[2] /\ h[5] = o[3] /\ h[6] = o[4] /\ h[7] = o[5]
        /\ h[8] = o[6] /\ h[9] = o[7] /\ h[10] = o[8]
    BY <2>3
  <2>5. Uint64(h) = n
    BY <2>2, <2>4 DEF Uint64
  <2> QED
    BY <2>3, <2>5 DEF Coded
<1> QED
  BY <1>1, <1>2, <1>3

(* The bits FIN and MASK stand above what a header says besides.           *)
LEMMA Bits ==
  /\ \A x \in 0..15 : (128 + x) % 16 = x /\ x % 16 = x
  /\ \A x \in 0..127 : (x + 128) % 128 = x /\ x % 128 = x
OBVIOUS

(* What writeFrame says of a frame is what the browser reads.              *)
THEOREM ServerHeader ==
  ASSUME NEW opcode \in 0..15, NEW n \in Nat, Fits(n)
  PROVE  /\ WriteHeader(opcode, n) \in Seq(Octets)
         /\ ReadHeader(WriteHeader(opcode, n)) =
              [fin |-> TRUE, opcode |-> opcode, length |-> n]
<1>0. PICK h : h = WriteHeader(opcode, n)
  OBVIOUS
<1>1. /\ h \in Seq(Octets) /\ Len(h) >= 2 /\ h[1] = 128 + opcode /\ h[2] \in 0..127
      /\ h[2] = 126 => Uint16(h) = n
      /\ h[2] = 127 => Uint64(h) = n
      /\ h[2] \notin {126, 127} => h[2] = n
  <2>1. Coded(h, opcode, n)
    BY <1>0, WrittenOctets, Zenon
  <2> QED
    BY <2>1 DEF Coded
<1>2. (h[1] >= 128) = TRUE /\ h[1] % 16 = opcode /\ h[2] % 128 = h[2]
  <2>1. h[1] >= 128
    BY <1>1
  <2> QED
    BY <1>1, <2>1, Bits
<1>3. ReadHeader(h) = [fin |-> TRUE, opcode |-> opcode, length |-> n]
  BY <1>1, <1>2 DEF ReadHeader
<1> QED
  BY <1>0, <1>1, <1>3

(* What the browser says of a frame is what readFrame reads, for a         *)
(* fragment and for the end of a message, at every length.                 *)
THEOREM BrowserHeader ==
  ASSUME NEW fin \in BOOLEAN, NEW opcode \in 0..15, NEW n \in Nat, Fits(n)
  PROVE  /\ ClientHeader(fin, opcode, n) \in Seq(Octets)
         /\ ReadHeader(ClientHeader(fin, opcode, n)).fin = fin
         /\ ReadHeader(ClientHeader(fin, opcode, n)).opcode = opcode
         /\ ReadHeader(ClientHeader(fin, opcode, n)).length = n
<1>0. PICK h, c : h = WriteHeader(opcode, n) /\ c = ClientHeader(fin, opcode, n)
  OBVIOUS
<1>1. /\ h \in Seq(Octets) /\ Len(h) >= 2 /\ h[1] = 128 + opcode /\ h[2] \in 0..127
      /\ h[2] = 126 => Len(h) = 4 /\ Uint16(h) = n
      /\ h[2] = 127 => Len(h) = 10 /\ Uint64(h) = n
      /\ h[2] \notin {126, 127} => h[2] = n
  <2>1. Coded(h, opcode, n)
    BY <1>0, WrittenOctets, Zenon
  <2> QED
    BY <2>1 DEF Coded
<1>10. h[1] = 128 + opcode /\ h[2] \in 0..127
  BY <1>1
<1>13. \A i \in 0..127 : i + 128 \in Octets
  BY DEF Octets
<1>11. h[2] = 126 => Len(h) = 4
  BY <1>1
<1>12. h[2] = 127 => Len(h) = 10
  BY <1>1
<1>2. c = [h EXCEPT ![1] = IF fin THEN @ ELSE @ - 128, ![2] = @ + 128]
  BY <1>0 DEF ClientHeader
<1>3. DOMAIN h = 1..Len(h) /\ Len(h) \in Nat /\ 1 \in 1..Len(h) /\ 2 \in 1..Len(h)
  BY <1>1
<1>4. /\ c[1] = IF fin THEN h[1] ELSE h[1] - 128
      /\ c[2] = h[2] + 128
      /\ \A i \in 3..Len(h) : c[i] = h[i]
  BY <1>2, <1>3
<1>5. c \in Seq(Octets)
  <2>1. c[1] \in Octets /\ c[2] \in Octets
    <3>1. c[1] = 128 + opcode \/ c[1] = opcode
      BY <1>4, <1>10
    <3>2. c[2] \in Octets
      BY <1>4, <1>10, <1>13
    <3> QED
      BY <3>1, <3>2 DEF Octets
  <2>2. \A i \in 1..Len(h) : c[i] \in Octets
    <3> SUFFICES ASSUME NEW i \in 1..Len(h) PROVE c[i] \in Octets
      OBVIOUS
    <3>1. i = 1 \/ i = 2 \/ i \in 3..Len(h)
      BY <1>3
    <3>2. h[i] \in Octets
      BY <1>1
    <3> QED
      BY <1>4, <2>1, <3>1, <3>2
  <2>3. c \in [1..Len(h) -> Octets]
    BY <1>2, <1>3, <2>2
  <2> QED
    BY <1>3, <2>3
<1>6. /\ (c[1] >= 128) = fin /\ c[1] % 16 = opcode /\ c[2] % 128 = h[2]
  <2>1. (c[1] >= 128) <=> fin
    BY <1>4, <1>10
  <2>2. c[1] % 16 = opcode /\ c[2] % 128 = h[2]
    <3>1. c[1] = 128 + opcode \/ c[1] = opcode
      BY <1>4, <1>10
    <3>2. c[1] % 16 = opcode
      BY <3>1, Bits
    <3>3. c[2] = h[2] + 128
      BY <1>4
    <3>4. c[2] % 128 = h[2]
      BY <1>10, <3>3, Bits
    <3> QED
      BY <3>2, <3>4
  <2>3. (c[1] >= 128) = fin
    BY <2>1
  <2> QED
    BY <2>2, <2>3
<1>7. /\ h[2] = 126 => Uint16(c) = n
      /\ h[2] = 127 => Uint64(c) = n
  <2>1. h[2] = 126 => Uint16(c) = Uint16(h)
    <3> SUFFICES ASSUME h[2] = 126 PROVE Uint16(c) = Uint16(h)
      OBVIOUS
    <3>1. c[3] = h[3] /\ c[4] = h[4]
      <4>1. \A i \in 3..4 : i \in 3..Len(h)
        BY <1>11
      <4>2. \A i \in 3..4 : c[i] = h[i]
        BY <1>4, <4>1
      <4> QED
        BY <4>2
    <3> QED
      BY <3>1 DEF Uint16
  <2>2. h[2] = 127 => Uint64(c) = Uint64(h)
    <3> SUFFICES ASSUME h[2] = 127 PROVE Uint64(c) = Uint64(h)
      OBVIOUS
    <3>1. /\ c[3] = h[3] /\ c[4] = h[4] /\ c[5] = h[5] /\ c[6] = h[6]
          /\ c[7] = h[7] /\ c[8] = h[8] /\ c[9] = h[9] /\ c[10] = h[10]
      <4>1. \A i \in 3..10 : i \in 3..Len(h)
        BY <1>12
      <4>2. \A i \in 3..10 : c[i] = h[i]
        BY <1>4, <4>1
      <4> QED
        BY <4>2
    <3> QED
      BY <3>1 DEF Uint64
  <2> QED
    BY <1>1, <2>1, <2>2
<1> DEFINE len == IF h[2] = 126 THEN Uint16(c) ELSE IF h[2] = 127 THEN Uint64(c) ELSE h[2]
<1>8. ReadHeader(c) = [fin |-> c[1] >= 128, opcode |-> c[1] % 16, length |-> len]
  BY <1>6 DEF ReadHeader
<1>9. len = n
  BY <1>1, <1>7
<1> HIDE DEF len
<1> QED
  BY <1>5, <1>6, <1>8, <1>9, <1>0

-----------------------------------------------------------------------------
(* Frames on their way *)

Opcodes == {opContinuation, opText, opClose, opPing, opPong}
Fitting == {n \in Nat : Fits(n)}

Data(f) == ReadHeader(f.header).opcode \in {opText, opContinuation}
Fin(f) == ReadHeader(f.header).fin

(* A frame is read as it was written.                                      *)
Sound(f) ==
  /\ f.length \in Fitting /\ ReadHeader(f.header).length = f.length
  /\ ReadHeader(f.header).opcode \in Opcodes /\ Fin(f) \in BOOLEAN

Framed == \A i \in 1..Len(wire) : Sound(wire[i])
Told == ReadHeader(reply.header).length = reply.length

Shaped == TypeOK /\ Framed /\ Told

LEMMA LengthFacts ==
  /\ \A n \in Lens : n \in Fitting
  /\ 0 \in Fitting /\ 9 \in Fitting
  /\ Opcodes \subseteq 0..15 /\ opText \in Opcodes /\ opContinuation \in Opcodes
  /\ opPing \in Opcodes /\ opPong \in Opcodes /\ opClose \in Opcodes
<1>1. 0 \in Fitting /\ 9 \in Fitting
  BY DEF Fitting, Fits
<1>2. \A n \in Lens : n \in Fitting
  BY InputAssumption DEF Fitting
<1> QED
  BY <1>1, <1>2 DEF Opcodes, opText, opContinuation, opPing, opPong, opClose

LEMMA WrittenFacts ==
  ASSUME NEW opcode \in Opcodes, NEW n \in Fitting, reply' = Written(opcode, n)
  PROVE  reply' \in [header : Seq(0..255), length : Nat] /\ Told'
<1>1. PICK h : h = WriteHeader(opcode, n)
  OBVIOUS
<1>2. reply' = [header |-> h, length |-> n]
  BY <1>1 DEF Written
<1>3. opcode \in 0..15 /\ n \in Nat /\ Fits(n)
  BY LengthFacts DEF Fitting
<1>4. h \in Seq(Octets) /\ ReadHeader(h) = [fin |-> TRUE, opcode |-> opcode, length |-> n]
  BY <1>1, <1>3, ServerHeader, Zenon
<1>5. ReadHeader(h).length = n
  BY <1>4
<1>6. reply'.header = h /\ reply'.length = n
  BY <1>2
<1>7. reply' \in [header : Seq(0..255), length : Nat]
  BY <1>2, <1>3, <1>4 DEF Octets
<1> QED
  BY <1>5, <1>6, <1>7 DEF Told

LEMMA SendFacts ==
  ASSUME wire \in Seq(Frame), Framed, NEW fin \in BOOLEAN, NEW opcode \in Opcodes,
         NEW n \in Fitting, NEW data \in Seq(Nat), Send(fin, opcode, n, data)
  PROVE  /\ wire' \in Seq(Frame) /\ Framed'
         /\ Len(wire') = Len(wire) + 1 /\ Len(wire') <= Window
         /\ \A i \in 1..Len(wire) : wire'[i] = wire[i]
         /\ wire'[Len(wire) + 1].data = data
         /\ Fin(wire'[Len(wire) + 1]) = fin
         /\ Data(wire'[Len(wire) + 1]) <=> opcode \in {opText, opContinuation}
<1>1. PICK h : h = ClientHeader(fin, opcode, n)
  OBVIOUS
<1>2. PICK f : f = [header |-> h, length |-> n, data |-> data]
  OBVIOUS
<1>3. Len(wire) < Window /\ wire' = Append(wire, f)
  BY <1>1, <1>2 DEF Send
<1>4. opcode \in 0..15 /\ n \in Nat /\ Fits(n)
  BY LengthFacts DEF Fitting
<1>5. /\ h \in Seq(Octets) /\ ReadHeader(h).fin = fin /\ ReadHeader(h).opcode = opcode
      /\ ReadHeader(h).length = n
  <2>1. /\ ClientHeader(fin, opcode, n) \in Seq(Octets)
        /\ ReadHeader(ClientHeader(fin, opcode, n)).fin = fin
        /\ ReadHeader(ClientHeader(fin, opcode, n)).opcode = opcode
        /\ ReadHeader(ClientHeader(fin, opcode, n)).length = n
    BY <1>4, BrowserHeader, Zenon
  <2> QED
    BY <1>1, <2>1, Zenon
<1>6. f.header = h /\ f.length = n /\ f.data = data
  BY <1>2
<1>7. f \in Frame
  BY <1>2, <1>4, <1>5 DEF Frame, Octets
<1>8. Fin(f) = fin /\ (Data(f) <=> opcode \in {opText, opContinuation})
  BY <1>5, <1>6, Zenon DEF Fin, Data
<1>9. Sound(f)
  BY <1>5, <1>6, <1>8, Zenon DEF Sound
<1>10. /\ wire' \in Seq(Frame) /\ Len(wire') = Len(wire) + 1
       /\ wire'[Len(wire) + 1] = f
       /\ \A i \in 1..Len(wire) : wire'[i] = wire[i]
  BY <1>3, <1>7
<1>11. Framed'
  <2> SUFFICES ASSUME NEW i \in 1..Len(wire') PROVE Sound(wire'[i])
    BY Zenon DEF Framed, Sound, Fin
  <2>1. i \in 1..Len(wire) \/ i = Len(wire) + 1
    BY <1>10
  <2>2. CASE i \in 1..Len(wire)
    BY <1>10, <2>2 DEF Framed
  <2> QED
    BY <1>9, <1>10, <2>1, <2>2
<1>12. Len(wire') <= Window
  BY <1>3, <1>10, InputAssumption
<1> QED
  BY <1>6, <1>8, <1>10, <1>11, <1>12

LEMMA ReceiveFacts ==
  ASSUME wire \in Seq(Frame), Len(wire) <= Window, Framed, NEW ops, Receive(ops)
  PROVE  /\ pc = "read" /\ wire' \in Seq(Frame) /\ Framed'
         /\ Len(wire) = Len(wire') + 1 /\ Len(wire') <= Window
         /\ \A i \in 1..Len(wire') : wire'[i] = wire[i + 1]
         /\ Head(wire) = wire[1] /\ wire[1] \in Frame /\ wire[1].data \in Seq(Nat)
         /\ Sound(wire[1]) /\ Header.length \in Fitting
         /\ ReadHeader(wire[1].header).opcode \in ops /\ Header.fin = Fin(wire[1])
<1>1. wire # <<>> /\ wire' = Tail(wire)
  BY DEF Receive
<1>2. /\ wire' \in Seq(Frame) /\ Len(wire) = Len(wire') + 1
      /\ \A i \in 1..Len(wire') : wire'[i] = wire[i + 1]
      /\ Head(wire) = wire[1] /\ 1 \in 1..Len(wire) /\ wire[1] \in Frame
  BY <1>1
<1>3. Len(wire') <= Window
  BY <1>2, InputAssumption
<1>4. Sound(wire[1])
  BY <1>2 DEF Framed
<1>5. Framed'
  <2> SUFFICES ASSUME NEW i \in 1..Len(wire') PROVE Sound(wire'[i])
    BY Zenon DEF Framed, Sound, Fin
  <2>1. i + 1 \in 1..Len(wire)
    BY <1>2
  <2> QED
    BY <1>2, <2>1 DEF Framed
<1>6. Header.length \in Fitting /\ Header.fin = Fin(wire[1])
  BY <1>2, <1>4, Zenon DEF Header, Sound, Fin
<1>7. ReadHeader(wire[1].header).opcode \in ops /\ pc = "read"
  BY <1>2, Zenon DEF Header, Receive
<1>8. wire[1].data \in Seq(Nat)
  BY <1>2 DEF Frame
<1> QED
  BY <1>2, <1>3, <1>4, <1>5, <1>6, <1>7, <1>8

(* What the read loop does leaves the browser's side alone.                *)
LEMMA ShapedSession ==
  ASSUME Shaped, UNCHANGED <<browser, now>>,
         wire' \in Seq(Frame) /\ Len(wire') <= Window, Framed',
         pc' \in {"read", "message", "tail", "docker", "end"},
         msg' \in Seq(Seq(Nat)), handled' \in Seq(Seq(Seq(Nat))), pongs' \in Nat,
         reply' \in [header : Seq(0..255), length : Nat], Told',
         authed' \in {<<>>} \cup [1..1 -> 1..MaxTime], done' \in Seq(Messages)
  PROVE  Shaped'
<1>1. /\ sent' = sent /\ parts' = parts /\ open' = open /\ pings' = pings /\ now' = now
  BY DEF browser
<1>2. TypeOK'
  BY <1>1, Zenon DEF Shaped, TypeOK
<1> QED
  BY <1>2 DEF Shaped

(* What the browser does leaves the session alone.                         *)
LEMMA ShapedBrowser ==
  ASSUME Shaped, UNCHANGED <<pc, session>>,
         wire' \in Seq(Frame) /\ Len(wire') <= Window, Framed',
         sent' \in Seq(Messages), Len(sent') <= MaxMessages,
         parts' \in Seq(1..MaxParts), Len(parts') = Len(sent'),
         open' \in BOOLEAN, open' => sent' # <<>>, pings' \in 0..MaxPings,
         now' \in 1..MaxTime
  PROVE  Shaped'
<1>1. /\ pc' = pc /\ msg' = msg /\ handled' = handled /\ pongs' = pongs /\ reply' = reply
      /\ authed' = authed /\ done' = done
  BY DEF session
<1>2. TypeOK'
  BY <1>1, Zenon DEF Shaped, TypeOK
<1>3. Told'
  BY <1>1, Zenon DEF Shaped, Told
<1> QED
  BY <1>2, <1>3 DEF Shaped

LEMMA MessageType ==
  ASSUME TypeOK
  PROVE  Effective(Message) => Message \in Messages
<1>1. PICK m : m = Last(handled)
  OBVIOUS
<1>2. PICK is : is = {i \in DOMAIN sent : m = Whole(i) /\ (open => i # Len(sent))}
  OBVIOUS
<1>3. Message = IF is = {} THEN [event |-> "junk"] ELSE sent[CHOOSE i \in is : TRUE]
  BY <1>1, <1>2 DEF Message, Unmarshalled
<1>4. CASE is = {}
  <2>1. Message.event = "junk"
    BY <1>3, <1>4
  <2> QED
    BY <2>1 DEF Effective
<1>5. CASE is # {}
  <2>1. PICK k : k = (CHOOSE i \in is : TRUE)
    OBVIOUS
  <2>2. k \in is
    BY <1>5, <2>1
  <2>3. k \in 1..Len(sent) /\ sent \in Seq(Messages)
    BY <1>2, <2>2 DEF TypeOK
  <2>4. Message = sent[k]
    BY <1>3, <1>5, <2>1
  <2> QED
    BY <2>3, <2>4
<1> QED
  BY <1>4, <1>5

LEMMA ShapedInit == Init => Shaped
<1> SUFFICES ASSUME Init PROVE Shaped
  OBVIOUS
<1>1. /\ sent = <<>> /\ parts = <<>> /\ open = FALSE /\ pings = 0 /\ wire = <<>> /\ now = 1
      /\ pc = "read" /\ msg = <<>> /\ handled = <<>> /\ pongs = 0 /\ reply = Written(opText, 0)
      /\ authed = <<>> /\ done = <<>>
  BY DEF Init
<1>2. /\ <<>> \in Seq(Messages) /\ <<>> \in Seq(1..MaxParts) /\ <<>> \in Seq(Frame)
      /\ <<>> \in Seq(Seq(Nat)) /\ <<>> \in Seq(Seq(Seq(Nat))) /\ Len(<<>>) = 0
  BY EmptySeq
<1>3. reply \in [header : Seq(0..255), length : Nat] /\ Told
  <2>1. WriteHeader(opText, 0) \in Seq(Octets)
        /\ ReadHeader(WriteHeader(opText, 0)) = [fin |-> TRUE, opcode |-> opText, length |-> 0]
    <3>1. opText \in 0..15 /\ 0 \in Nat /\ Fits(0)
      BY LengthFacts DEF Fitting
    <3> QED
      BY <3>1, ServerHeader, Zenon
  <2>2. PICK h : h = WriteHeader(opText, 0)
    OBVIOUS
  <2>3. reply = [header |-> h, length |-> 0]
    BY <1>1, <2>2 DEF Written
  <2>4. ReadHeader(h).length = 0
    BY <2>1, <2>2
  <2>5. reply.header = h /\ reply.length = 0
    BY <2>3
  <2>6. reply \in [header : Seq(0..255), length : Nat]
    BY <2>1, <2>2, <2>3 DEF Octets
  <2> QED
    BY <2>4, <2>5, <2>6 DEF Told
<1>4. Framed
  BY <1>1, <1>2 DEF Framed
<1>5. TypeOK
  <2>1. /\ Len(sent) <= MaxMessages /\ Len(parts) = Len(sent) /\ Len(wire) <= Window
        /\ pings \in 0..MaxPings /\ now \in 1..MaxTime /\ pongs \in Nat
    BY <1>1, <1>2, InputAssumption
  <2>2. open \in BOOLEAN /\ (open => sent # <<>>)
    BY <1>1
  <2> QED
    BY <1>1, <1>2, <1>3, <2>1, <2>2 DEF TypeOK
<1> QED
  BY <1>3, <1>4, <1>5 DEF Shaped

LEMMA ShapedStep == Shaped /\ [Next]_vars => Shaped'
<1> SUFFICES ASSUME Shaped, [Next]_vars PROVE Shaped'
  OBVIOUS
<1>1. /\ sent \in Seq(Messages) /\ Len(sent) <= MaxMessages
      /\ parts \in Seq(1..MaxParts) /\ Len(parts) = Len(sent)
      /\ pings \in 0..MaxPings /\ now \in 1..MaxTime
      /\ wire \in Seq(Frame) /\ Len(wire) <= Window /\ Framed
      /\ pc \in {"read", "message", "tail", "docker", "end"}
      /\ msg \in Seq(Seq(Nat)) /\ handled \in Seq(Seq(Seq(Nat))) /\ pongs \in Nat
      /\ reply \in [header : Seq(0..255), length : Nat] /\ Told
      /\ authed \in {<<>>} \cup [1..1 -> 1..MaxTime] /\ done \in Seq(Messages)
  BY DEF Shaped, TypeOK
<1>2. open \in BOOLEAN /\ (open => sent # <<>>)
  BY Zenon DEF Shaped, TypeOK
<1>3. /\ MaxMessages \in Nat /\ MaxPings \in Nat /\ MaxTime \in Nat /\ MaxParts \in Nat
      /\ 1 \in 1..MaxParts
  BY InputAssumption
<1>4. <<>> \in Seq(Nat) /\ TRUE \in BOOLEAN
  OBVIOUS
<1>10. ASSUME NEW fin \in BOOLEAN, NEW n \in Lens, NEW m \in Messages, Begin(m, fin, n)
       PROVE  Shaped'
  <2>1. UNCHANGED <<pc, session>> /\ pings' = pings /\ now' = now /\ open' = ~fin
        /\ Send(fin, opText, n, <<Len(sent) + 1, 1>>)
    BY <1>10 DEF Begin
  <2>2. /\ sent' \in Seq(Messages) /\ Len(sent') <= MaxMessages
        /\ parts' \in Seq(1..MaxParts) /\ Len(parts') = Len(sent')
        /\ sent' # <<>> /\ <<Len(sent) + 1, 1>> \in Seq(Nat)
    <3>1. /\ Len(sent) < MaxMessages /\ sent' = Append(sent, m)
          /\ parts' = Append(parts, 1)
      BY <1>10 DEF Begin
    <3>2. /\ sent' \in Seq(Messages) /\ Len(sent') = Len(sent) + 1
          /\ parts' \in Seq(1..MaxParts) /\ Len(parts') = Len(parts) + 1
      BY <1>1, <1>3, <3>1
    <3>3. <<Len(sent) + 1, 1>> \in Seq(Nat)
      BY <1>1
    <3>4. sent' # <<>>
      <4>1. Len(sent) \in Nat /\ Len(<<>>) = 0
        BY <1>1, EmptySeq
      <4>2. Len(sent') # 0
        BY <3>2, <4>1
      <4> QED
        BY <4>1, <4>2, Zenon
    <3>5. Len(sent) \in Nat /\ Len(parts) = Len(sent) /\ Len(sent') <= MaxMessages
      BY <1>1, <1>3, <3>1, <3>2
    <3> QED
      BY <3>2, <3>3, <3>4, <3>5
  <2>3. wire' \in Seq(Frame) /\ Len(wire') <= Window /\ Framed'
    BY <1>1, <2>1, <2>2, SendFacts, LengthFacts
  <2>4. open' \in BOOLEAN
    BY <2>1
  <2> QED
    BY <1>1, <2>1, <2>2, <2>3, <2>4, ShapedBrowser
<1>11. ASSUME NEW fin \in BOOLEAN, NEW n \in Lens, Continue(fin, n) PROVE Shaped'
  <2>1. /\ UNCHANGED <<pc, session>> /\ sent' = sent /\ pings' = pings /\ now' = now
        /\ open /\ open' = ~fin /\ parts[Len(sent)] < MaxParts
        /\ parts' = [parts EXCEPT ![Len(sent)] = @ + 1]
        /\ Send(fin, opContinuation, n, <<Len(sent), parts[Len(sent)] + 1>>)
    BY <1>11 DEF Continue
  <2>2. sent # <<>>
    BY <1>2, <2>1
  <2>3. Len(sent) \in 1..Len(parts) /\ parts[Len(sent)] + 1 \in 1..MaxParts
    BY <1>1, <1>3, <2>1, <2>2
  <2>4. parts' \in Seq(1..MaxParts) /\ Len(parts') = Len(sent')
    BY <1>1, <2>1, <2>3, ExceptSeq
  <2>5. <<Len(sent), parts[Len(sent)] + 1>> \in Seq(Nat)
    BY <2>3
  <2>6. wire' \in Seq(Frame) /\ Len(wire') <= Window /\ Framed'
    BY <1>1, <2>1, <2>5, SendFacts, LengthFacts
  <2>7. open' \in BOOLEAN
    BY <2>1
  <2> QED
    BY <1>1, <2>1, <2>2, <2>4, <2>6, <2>7, ShapedBrowser
<1>12. ASSUME NEW n \in Lens, Ping(n) PROVE Shaped'
  <2>1. /\ UNCHANGED <<pc, session>> /\ sent' = sent /\ parts' = parts /\ open' = open
        /\ now' = now /\ pings < MaxPings /\ pings' = pings + 1 /\ Send(TRUE, opPing, n, <<>>)
    BY <1>12 DEF Ping
  <2>2. wire' \in Seq(Frame) /\ Len(wire') <= Window /\ Framed'
    BY <1>1, <1>4, <2>1, SendFacts, LengthFacts
  <2>3. pings' \in 0..MaxPings
    BY <1>1, <1>3, <2>1
  <2>4. open' \in BOOLEAN /\ (open' => sent' # <<>>)
    BY <1>2, <2>1, Zenon
  <2> QED
    BY <1>1, <2>1, <2>2, <2>3, <2>4, ShapedBrowser
<1>13. ASSUME NEW opcode \in {opPong, opClose}, Control(opcode) PROVE Shaped'
  <2>1. /\ UNCHANGED <<pc, session>> /\ sent' = sent /\ parts' = parts /\ open' = open
        /\ now' = now /\ pings' = pings /\ Send(TRUE, opcode, 0, <<>>)
    BY <1>13 DEF Control, browser
  <2>2. wire' \in Seq(Frame) /\ Len(wire') <= Window /\ Framed'
    BY <1>1, <1>4, <2>1, SendFacts, LengthFacts
  <2>4. open' \in BOOLEAN /\ (open' => sent' # <<>>)
    BY <1>2, <2>1, Zenon
  <2> QED
    BY <1>1, <2>1, <2>2, <2>4, ShapedBrowser
<1>14. CASE Tick
  <2>1. /\ UNCHANGED <<pc, session>> /\ sent' = sent /\ parts' = parts /\ open' = open
        /\ now' \in 1..MaxTime /\ pings' = pings /\ wire' = wire
    BY <1>1, <1>3, <1>14 DEF Tick, browser
  <2>2. Framed'
    BY <1>1, <2>1, Zenon DEF Framed, Sound, Fin
  <2>4. open' \in BOOLEAN /\ (open' => sent' # <<>>)
    BY <1>2, <2>1, Zenon
  <2> QED
    BY <1>1, <2>1, <2>2, <2>4, ShapedBrowser
<1>20. ASSUME NEW ops, Receive(ops), UNCHANGED <<browser, now>>,
              pc' \in {"read", "message", "tail", "docker", "end"},
              msg' \in Seq(Seq(Nat)), handled' \in Seq(Seq(Seq(Nat))), pongs' \in Nat,
              reply' \in [header : Seq(0..255), length : Nat], Told',
              UNCHANGED <<authed, done>>
       PROVE  Shaped'
  <2>1. wire' \in Seq(Frame) /\ Len(wire') <= Window /\ Framed'
    BY <1>1, <1>20, ReceiveFacts
  <2> QED
    BY <1>1, <1>20, <2>1, ShapedSession
<1>21. reply' = reply => reply' \in [header : Seq(0..255), length : Nat] /\ Told'
  BY <1>1 DEF Told
<1>22. CASE FrameTooLarge \/ ReadError
  <2>1. /\ UNCHANGED <<browser, now>> /\ wire' = wire /\ pc' = "end" /\ msg' = msg
        /\ handled' = handled /\ pongs' = pongs /\ reply' = reply /\ authed' = authed
        /\ done' = done
    BY <1>22 DEF FrameTooLarge, ReadError, session
  <2>2. Framed'
    BY <1>1, <2>1, Zenon DEF Framed, Sound, Fin
  <2> QED
    BY <1>1, <1>21, <2>1, <2>2, ShapedSession
<1>23. CASE ReadPing
  <2>1. /\ Receive({opPing}) /\ UNCHANGED <<browser, now>> /\ pc' = pc /\ msg' = msg
        /\ handled' = handled /\ pongs' = pongs + 1 /\ authed' = authed /\ done' = done
        /\ reply' = Written(opPong, Header.length)
    BY <1>23 DEF ReadPing
  <2>2. Header.length \in Fitting
    BY <1>1, <2>1, ReceiveFacts
  <2>3. reply' \in [header : Seq(0..255), length : Nat] /\ Told'
    BY <2>1, <2>2, LengthFacts, WrittenFacts
  <2> QED
    BY <1>1, <1>20, <2>1, <2>3
<1>24. CASE ReadPong
  <2>1. /\ Receive({opPong}) /\ UNCHANGED <<browser, now>> /\ pc' = pc /\ msg' = msg
        /\ handled' = handled /\ pongs' = pongs /\ authed' = authed /\ done' = done
        /\ reply' = reply
    BY <1>24 DEF ReadPong, session
  <2> QED
    BY <1>1, <1>20, <1>21, <2>1
<1>25. CASE ReadClose
  <2>1. /\ Receive({opClose}) /\ UNCHANGED <<browser, now>> /\ pc' = "end" /\ msg' = msg
        /\ handled' = handled /\ pongs' = pongs /\ authed' = authed /\ done' = done
        /\ reply' = Written(opClose, 0)
    BY <1>25 DEF ReadClose
  <2>3. reply' \in [header : Seq(0..255), length : Nat] /\ Told'
    BY <2>1, LengthFacts, WrittenFacts
  <2> QED
    BY <1>1, <1>20, <2>1, <2>3
<1>26. CASE ReadData
  <2>1. /\ Receive({opText, opContinuation}) /\ UNCHANGED <<browser, now>> /\ pongs' = pongs
        /\ authed' = authed /\ done' = done /\ reply' = reply
    BY <1>26 DEF ReadData
  <2>2. Head(wire) = wire[1] /\ wire[1].data \in Seq(Nat)
    BY <1>1, <2>1, ReceiveFacts
  <2>3. Append(msg, Head(wire).data) \in Seq(Seq(Nat))
    BY <1>1, <2>2
  <2>4. /\ msg' \in Seq(Seq(Nat)) /\ handled' \in Seq(Seq(Seq(Nat)))
        /\ pc' \in {"read", "message", "tail", "docker", "end"}
    <3>1. CASE Header.fin
      <4>1. /\ handled' = Append(handled, Append(msg, Head(wire).data))
            /\ msg' = <<>> /\ pc' = "message"
        BY <1>26, <3>1 DEF ReadData
      <4> QED
        BY <1>1, <2>3, <4>1
    <3>2. CASE ~Header.fin
      <4>1. msg' = Append(msg, Head(wire).data) /\ handled' = handled /\ pc' = pc
        BY <1>26, <3>2 DEF ReadData
      <4> QED
        BY <1>1, <2>3, <4>1
    <3> QED
      BY <3>1, <3>2
  <2> QED
    BY <1>1, <1>20, <1>21, <2>1, <2>4
<1>30. ASSUME UNCHANGED <<browser, wire, now, msg, handled, pongs>>,
              pc' \in {"read", "message", "tail", "docker", "end"},
              reply' \in [header : Seq(0..255), length : Nat], Told',
              authed' \in {<<>>} \cup [1..1 -> 1..MaxTime], done' \in Seq(Messages)
       PROVE  Shaped'
  <2>1. wire' = wire /\ msg' = msg /\ handled' = handled /\ pongs' = pongs
    BY <1>30
  <2>2. Framed'
    BY <1>1, <2>1, Zenon DEF Framed, Sound, Fin
  <2> QED
    BY <1>1, <1>30, <2>1, <2>2, ShapedSession
<1>31. reply' = Written(opText, 9) => reply' \in [header : Seq(0..255), length : Nat] /\ Told'
  BY LengthFacts, WrittenFacts
<1>32. CASE Authenticate
  <2>1. authed' \in {<<>>} \cup [1..1 -> 1..MaxTime]
    BY <1>1, <1>32 DEF Authenticate
  <2> QED
    BY <1>1, <1>30, <1>31, <1>32, <2>1 DEF Authenticate
<1>33. CASE RefuseAuth
  BY <1>1, <1>30, <1>31, <1>33 DEF RefuseAuth
<1>34. CASE SendTail
  <2>1. /\ UNCHANGED <<browser, wire, now, msg, handled, pongs>> /\ pc' = "read"
        /\ authed' = authed /\ done' = done
        /\ (\E n \in Lens : reply' = Written(opText, n)) \/ reply' = reply
    BY <1>34 DEF SendTail
  <2>2. reply' \in [header : Seq(0..255), length : Nat] /\ Told'
    BY <1>21, <2>1, LengthFacts, WrittenFacts
  <2> QED
    BY <1>1, <1>30, <2>1, <2>2
<1>35. CASE Act
  <2>1. done' \in Seq(Messages)
    BY <1>1, <1>35, MessageType DEF Act, Shaped
  <2> QED
    BY <1>1, <1>21, <1>30, <1>35, <2>1 DEF Act
<1>36. CASE PassOver
  BY <1>1, <1>21, <1>30, <1>36 DEF PassOver, session
<1>37. CASE DockerEnds
  <2>1. reply' = reply \/ reply' = Written(opText, 9)
    BY <1>37 DEF DockerEnds
  <2> QED
    BY <1>1, <1>21, <1>30, <1>31, <1>37, <2>1 DEF DockerEnds
<1>38. CASE UNCHANGED vars
  BY <1>1, <1>21, <1>30, <1>38 DEF vars, session
<1> QED
  BY <1>10, <1>11, <1>12, <1>13, <1>14, <1>22, <1>23, <1>24, <1>25, <1>26, <1>32, <1>33,
     <1>34, <1>35, <1>36, <1>37, <1>38 DEF Next, Reads, Obeys, Handles

THEOREM ShapedHolds == Spec => []Shaped
BY ShapedInit, ShapedStep, PTL DEF Spec

(* Every variable keeps its type.                                          *)
THEOREM TypeCorrect == Spec => []TypeOK
<1>1. Shaped => TypeOK
  BY DEF Shaped
<1> QED
  BY <1>1, ShapedHolds, PTL

(* Whatever the lengths, what the browser writes is read as long as it is, *)
(* and what the session answers too: the two never fall out of step.       *)
THEOREM InStepHolds == Spec => []InStep
<1>1. Shaped => InStep
  <2> SUFFICES ASSUME Shaped PROVE InStep
    OBVIOUS
  <2>1. wire \in Seq(Frame)
    BY DEF Shaped, TypeOK
  <2>2. DOMAIN wire = 1..Len(wire)
    BY <2>1
  <2>3. \A i \in DOMAIN wire : ReadHeader(wire[i].header).length = wire[i].length
    BY <2>2, Zenon DEF Shaped, Framed, Sound
  <2> QED
    BY <2>3, Zenon DEF Shaped, Told, InStep
<1> QED
  BY <1>1, ShapedHolds, PTL

-----------------------------------------------------------------------------
(* The order of the fragments *)

(* Fragment p is the last of message m, and the browser knows it.          *)
Ends(m, p) == m \in 1..Len(sent) /\ parts[m] = p /\ (open => m # Len(sent))

(* The fragment the browser would send next.                               *)
NextMessage == IF open THEN Len(sent) ELSE Len(sent) + 1
NextFragment == IF open THEN parts[Len(sent)] + 1 ELSE 1

(* Where fragment p of message m is next, f leaves fragment p2 of m2 next. *)
Follows(m, p, m2, p2, f) ==
  /\ ~Data(f) => m2 = m /\ p2 = p
  /\ Data(f) => f.data = <<m, p>>
  /\ Data(f) /\ ~Fin(f) => m2 = m /\ p2 = p + 1
  /\ Data(f) /\ Fin(f) => m2 = m + 1 /\ p2 = 1 /\ Ends(m, p)

(* m[i] and p[i] name the fragment that is next when frame i is read: from *)
(* what the session has read, over the frames on their way, to what the    *)
(* browser sends next.                                                     *)
Track(m, p) ==
  /\ m \in [1..(Len(wire) + 1) -> Nat] /\ p \in [1..(Len(wire) + 1) -> Nat]
  /\ m[1] = Len(handled) + 1 /\ p[1] = Len(msg) + 1
  /\ m[Len(wire) + 1] = NextMessage /\ p[Len(wire) + 1] = NextFragment
  /\ \A i \in 1..Len(wire) : Follows(m[i], p[i], m[i + 1], p[i + 1], wire[i])

Tracked == \E m, p : Track(m, p)

Building == \A k \in 1..Len(msg) : msg[k] = <<Len(handled) + 1, k>>

Phase ==
  /\ pc = "read" /\ authed = <<>> => handled = <<>>
  /\ pc = "message" => handled # <<>>
  /\ pc = "message" /\ authed = <<>> => Len(handled) = 1
  /\ pc \in {"tail", "docker"} => authed # <<>>

IInv == Shaped /\ Tracked /\ Building /\ InOrder /\ Phase /\ AuthFirst

Sends(a, b, x, y, f) ==
  /\ wire \in Seq(Frame) /\ wire' \in Seq(Frame) /\ Len(wire') = Len(wire) + 1
  /\ \A i \in 1..Len(wire) : wire'[i] = wire[i]
  /\ handled' = handled /\ msg' = msg
  /\ \A i, j : Ends(i, j) => Ends(i, j)'
  /\ x \in Nat /\ y \in Nat
  /\ a = NextMessage /\ b = NextFragment /\ x = NextMessage' /\ y = NextFragment'
  /\ f = wire'[Len(wire) + 1]
  /\ Follows(a, b, x, y, f)'

(* One more frame, that follows what the browser has sent.                 *)
LEMMA TrackSend ==
  ASSUME Tracked,
         NEW CONSTANT a, NEW CONSTANT b, NEW CONSTANT x, NEW CONSTANT y, NEW CONSTANT f,
         Sends(a, b, x, y, f)
  PROVE  Tracked'
<1>0. /\ wire \in Seq(Frame) /\ wire' \in Seq(Frame) /\ Len(wire') = Len(wire) + 1
      /\ \A i \in 1..Len(wire) : wire'[i] = wire[i]
      /\ handled' = handled /\ msg' = msg
      /\ \A i, j : Ends(i, j) => Ends(i, j)'
      /\ x \in Nat /\ y \in Nat
      /\ a = NextMessage /\ b = NextFragment /\ x = NextMessage' /\ y = NextFragment'
      /\ f = wire'[Len(wire) + 1]
      /\ Follows(a, b, x, y, f)'
  BY Zenon DEF Sends
<1>1. PICK m, p : Track(m, p)
  BY DEF Tracked
<1>2. PICK L : L = Len(wire)
  OBVIOUS
<1>3. L \in Nat
  BY <1>0, <1>2
<1>4. PICK m2, p2 : /\ m2 = [i \in 1..(L + 2) |-> IF i <= L + 1 THEN m[i] ELSE x]
                    /\ p2 = [i \in 1..(L + 2) |-> IF i <= L + 1 THEN p[i] ELSE y]
  OBVIOUS
<1>5. /\ m \in [1..(L + 1) -> Nat] /\ p \in [1..(L + 1) -> Nat]
      /\ m[1] = Len(handled) + 1 /\ p[1] = Len(msg) + 1 /\ m[L + 1] = a /\ p[L + 1] = b
  BY <1>0, <1>1, <1>2 DEF Track
<1>6. \A i \in 1..L : Follows(m[i], p[i], m[i + 1], p[i + 1], wire[i])
  BY <1>0, <1>1, <1>2 DEF Track
<1>7. m2 \in [1..(L + 2) -> Nat] /\ p2 \in [1..(L + 2) -> Nat]
  BY <1>0, <1>3, <1>4, <1>5
<1>8. /\ \A i \in 1..(L + 1) : m2[i] = m[i] /\ p2[i] = p[i]
      /\ m2[L + 2] = x /\ p2[L + 2] = y
  BY <1>0, <1>3, <1>4
<1>9. m2[1] = Len(handled') + 1 /\ p2[1] = Len(msg') + 1
  BY <1>0, <1>3, <1>5, <1>8
<1>10. Len(wire') + 1 = L + 2
  BY <1>0, <1>2, <1>3
<1>11. ASSUME NEW i \in 1..(L + 1)
       PROVE  Follows(m2[i], p2[i], m2[i + 1], p2[i + 1], wire[i])'
  <2>1. CASE i \in 1..L
    <3>1. PICK g : g = wire[i] /\ g = wire'[i]
      BY <1>0, <1>2, <2>1
    <3>2. i \in 1..(L + 1) /\ i + 1 \in 1..(L + 1)
      BY <1>0, <1>3, <2>1
    <3>3. Follows(m2[i], p2[i], m2[i + 1], p2[i + 1], g)
      BY <1>0, <1>6, <1>8, <2>1, <3>1, <3>2
    <3>4. Follows(m2[i], p2[i], m2[i + 1], p2[i + 1], g)'
      BY <1>0, <3>3, Zenon DEF Follows, Data, Fin
    <3> QED
      BY <1>0, <3>1, <3>4, Zenon DEF Follows, Data, Fin
  <2>2. CASE i = L + 1
    <3>1. m2[i] = a /\ p2[i] = b /\ m2[i + 1] = x /\ p2[i + 1] = y /\ wire'[i] = f
      <4>1. i + 1 = L + 2
        BY <1>0, <1>3, <2>2
      <4> QED
        BY <1>0, <1>2, <1>5, <1>8, <2>2, <4>1
    <3> QED
      BY <1>0, <3>1, Zenon DEF Follows, Data, Fin
  <2> QED
    BY <1>0, <1>3, <2>1, <2>2
<1>12. Track(m2, p2)'
  <2>1. m2[L + 2] = NextMessage' /\ p2[L + 2] = NextFragment' /\ L + 1 = Len(wire')
    BY <1>0, <1>2, <1>3, <1>8
  <2>2. \A i \in 1..Len(wire') : Follows(m2[i], p2[i], m2[i + 1], p2[i + 1], wire[i])'
    BY <1>0, <1>11, <2>1, Zenon
  <2> QED
    BY <1>0, <1>7, <1>9, <1>10, <2>1, <2>2, Zenon DEF Track
<1> QED
  BY <1>12, Zenon DEF Tracked

(* What a frame that is read does to the message being put together.       *)
Takes(f) ==
  \/ ~Data(f) /\ handled' = handled /\ msg' = msg
  \/ Data(f) /\ ~Fin(f) /\ handled' = handled /\ msg' = Append(msg, f.data)
  \/ Data(f) /\ Fin(f) /\ handled' = Append(handled, Append(msg, f.data)) /\ msg' = <<>>

LEMMA TrackReceive ==
  ASSUME Tracked, Building, InOrder, TypeOK, UNCHANGED browser,
         wire' \in Seq(Frame), Len(wire) = Len(wire') + 1,
         \A i \in 1..Len(wire') : wire'[i] = wire[i + 1],
         NEW CONSTANT f, f = wire[1], f.data \in Seq(Nat), Fin(f) \in BOOLEAN, Takes(f)
  PROVE  Tracked' /\ Building' /\ InOrder'
<1>0. /\ sent' = sent /\ parts' = parts /\ open' = open
      /\ handled \in Seq(Seq(Seq(Nat))) /\ msg \in Seq(Seq(Nat)) /\ wire \in Seq(Frame)
      /\ sent \in Seq(Messages) /\ parts \in Seq(1..MaxParts)
  BY DEF browser, TypeOK
<1>1. PICK m, p : Track(m, p)
  BY DEF Tracked
<1>2. PICK L : L = Len(wire')
  OBVIOUS
<1>3. L \in Nat /\ Len(wire) = L + 1
  BY <1>2
<1>4. PICK m2, p2 : /\ m2 = [i \in 1..(L + 1) |-> m[i + 1]]
                    /\ p2 = [i \in 1..(L + 1) |-> p[i + 1]]
  OBVIOUS
<1>5. /\ m \in [1..(L + 2) -> Nat] /\ p \in [1..(L + 2) -> Nat]
      /\ m[1] = Len(handled) + 1 /\ p[1] = Len(msg) + 1
      /\ m[L + 2] = NextMessage /\ p[L + 2] = NextFragment
  <2>1. Len(wire) + 1 = L + 2
    BY <1>3
  <2> QED
    BY <1>1, <2>1 DEF Track
<1>6. \A i \in 1..(L + 1) : Follows(m[i], p[i], m[i + 1], p[i + 1], wire[i])
  BY <1>1, <1>3 DEF Track
<1>7. m2 \in [1..(L + 1) -> Nat] /\ p2 \in [1..(L + 1) -> Nat]
  <2>1. \A i \in 1..(L + 1) : i + 1 \in 1..(L + 2)
    BY <1>3
  <2>2. \A i \in 1..(L + 1) : m[i + 1] \in Nat /\ p[i + 1] \in Nat
    BY <1>5, <2>1
  <2> QED
    BY <1>4, <2>2
<1>8. /\ \A i \in 1..(L + 1) : m2[i] = m[i + 1] /\ p2[i] = p[i + 1]
      /\ m2[L + 1] = m[L + 2] /\ p2[L + 1] = p[L + 2] /\ m2[1] = m[2] /\ p2[1] = p[2]
  BY <1>3, <1>4
<1>9. PICK a, b : a = Len(handled) + 1 /\ b = Len(msg) + 1
  OBVIOUS
<1>10. Follows(a, b, m2[1], p2[1], f)
  <2>1. 1 \in 1..(L + 1) /\ 1 + 1 = 2
    BY <1>3
  <2>2. Follows(m[1], p[1], m[2], p[2], wire[1])
    BY <1>6, <2>1
  <2> QED
    BY <1>5, <1>8, <1>9, <2>2
<1>11. NextMessage' = NextMessage /\ NextFragment' = NextFragment
       /\ \A i, j : Ends(i, j)' <=> Ends(i, j)
  BY <1>0, Zenon DEF NextMessage, NextFragment, Ends
<1>12. \A i \in 1..Len(wire') : Follows(m2[i], p2[i], m2[i + 1], p2[i + 1], wire[i])'
  <2> SUFFICES ASSUME NEW i \in 1..L
               PROVE  Follows(m2[i], p2[i], m2[i + 1], p2[i + 1], wire[i])'
    BY <1>2, Zenon
  <2>1. PICK g : g = wire'[i] /\ g = wire[i + 1]
    BY <1>2
  <2>2. i \in 1..(L + 1) /\ i + 1 \in 1..(L + 1)
    BY <1>3
  <2>3. Follows(m2[i], p2[i], m2[i + 1], p2[i + 1], g)
    BY <1>6, <1>8, <2>1, <2>2
  <2>4. Follows(m2[i], p2[i], m2[i + 1], p2[i + 1], g)'
    BY <1>11, <2>3, Zenon DEF Follows, Data, Fin
  <2> QED
    BY <2>1, <2>4, Zenon DEF Follows, Data, Fin
<1>13. m2[1] = Len(handled') + 1 /\ p2[1] = Len(msg') + 1 => Track(m2, p2)'
  <2>1. m2[Len(wire') + 1] = NextMessage' /\ p2[Len(wire') + 1] = NextFragment'
    BY <1>2, <1>5, <1>8, <1>11
  <2> QED
    BY <1>2, <1>7, <1>12, <2>1, Zenon DEF Track
<1>14. DOMAIN handled = 1..Len(handled) /\ DOMAIN sent = 1..Len(sent)
  BY <1>0
<1>15. (\A i : Whole(i)' = Whole(i)) /\ DOMAIN sent' = 1..Len(sent')
  BY <1>0, <1>14 DEF Whole
<1>16. handled' = handled => InOrder'
  BY <1>0, <1>15, Zenon DEF InOrder
<1>20. CASE ~Data(f) /\ handled' = handled /\ msg' = msg
  <2>1. m2[1] = Len(handled') + 1 /\ p2[1] = Len(msg') + 1
    BY <1>9, <1>10, <1>20 DEF Follows
  <2>2. Building'
    BY <1>20, Zenon DEF Building
  <2> QED
    BY <1>13, <1>16, <1>20, <2>1, <2>2, Zenon DEF Tracked
<1>21. CASE Data(f) /\ ~Fin(f) /\ handled' = handled /\ msg' = Append(msg, f.data)
  <2>1. m2[1] = a /\ p2[1] = b + 1 /\ f.data = <<a, b>>
    BY <1>10, <1>21 DEF Follows
  <2>2. /\ Len(msg') = Len(msg) + 1 /\ msg'[Len(msg) + 1] = f.data
        /\ \A k \in 1..Len(msg) : msg'[k] = msg[k]
    BY <1>0, <1>21
  <2>3. m2[1] = Len(handled') + 1 /\ p2[1] = Len(msg') + 1
    BY <1>9, <1>21, <2>1, <2>2
  <2>4. Building'
    <3> SUFFICES ASSUME NEW k \in 1..Len(msg') PROVE msg'[k] = <<Len(handled') + 1, k>>
      BY Zenon DEF Building
    <3>1. k \in 1..Len(msg) \/ k = Len(msg) + 1
      BY <1>0, <2>2
    <3>2. CASE k \in 1..Len(msg)
      BY <1>21, <2>2, <3>2 DEF Building
    <3>3. CASE k = Len(msg) + 1
      BY <1>9, <1>21, <2>1, <2>2, <3>3
    <3> QED
      BY <3>1, <3>2, <3>3
  <2> QED
    BY <1>13, <1>16, <1>21, <2>3, <2>4, Zenon DEF Tracked
<1>22. CASE /\ Data(f) /\ Fin(f)
            /\ handled' = Append(handled, Append(msg, f.data)) /\ msg' = <<>>
  <2>1. m2[1] = a + 1 /\ p2[1] = 1 /\ f.data = <<a, b>> /\ Ends(a, b)
    BY <1>10, <1>22 DEF Follows
  <2>2. PICK w : w = Append(msg, f.data)
    OBVIOUS
  <2>3. /\ w \in Seq(Seq(Nat)) /\ Len(w) = b /\ w[b] = f.data
        /\ \A k \in 1..Len(msg) : w[k] = msg[k]
    BY <1>0, <1>9, <2>2
  <2>4. /\ handled' \in Seq(Seq(Seq(Nat))) /\ Len(handled') = a /\ handled'[a] = w
        /\ \A i \in 1..Len(handled) : handled'[i] = handled[i]
    BY <1>0, <1>9, <1>22, <2>2, <2>3
  <2>5. Len(msg') = 0
    BY <1>22, EmptySeq
  <2>6. m2[1] = Len(handled') + 1 /\ p2[1] = Len(msg') + 1
    BY <2>1, <2>4, <2>5
  <2>7. Building'
    BY <2>5 DEF Building
  <2>8. w = Whole(a)
    <3>1. w = [k \in 1..b |-> w[k]]
      BY <2>3
    <3>2. \A k \in 1..b : w[k] = <<a, k>>
      <4> SUFFICES ASSUME NEW k \in 1..b PROVE w[k] = <<a, k>>
        OBVIOUS
      <4>1. k \in 1..Len(msg) \/ k = b
        BY <1>0, <1>9
      <4>2. CASE k \in 1..Len(msg)
        BY <1>9, <2>3, <4>2 DEF Building
      <4>3. CASE k = b
        BY <2>1, <2>3, <4>3
      <4> QED
        BY <4>1, <4>2, <4>3
    <3>3. parts[a] = b
      BY <2>1 DEF Ends
    <3> QED
      BY <3>1, <3>2, <3>3 DEF Whole
  <2>9. InOrder'
    <3>1. DOMAIN handled' = 1..a /\ a \in Nat
      BY <2>4
    <3> SUFFICES ASSUME NEW i \in 1..a
                 PROVE  i \in DOMAIN sent' /\ handled'[i] = Whole(i)' /\ (open' => i # Len(sent'))
      BY <3>1, Zenon DEF InOrder
    <3>2. i \in 1..Len(handled) \/ i = a
      BY <1>0, <1>9
    <3>3. CASE i \in 1..Len(handled)
      BY <1>0, <1>14, <1>15, <2>4, <3>3, Zenon DEF InOrder
    <3>4. CASE i = a
      BY <1>0, <1>14, <1>15, <2>1, <2>4, <2>8, <3>4, Zenon DEF Ends
    <3> QED
      BY <3>2, <3>3, <3>4
  <2> QED
    BY <1>13, <2>6, <2>7, <2>9, Zenon DEF Tracked
<1> QED
  BY <1>20, <1>21, <1>22, Zenon DEF Takes

-----------------------------------------------------------------------------
(* What the session holds of the first message *)

(* The message at hand is the browser's, whole.                            *)
LEMMA MessageFacts ==
  ASSUME TypeOK, InOrder, handled # <<>>
  PROVE  Len(handled) \in 1..Len(sent) /\ Message = sent[Len(handled)]
<1>1. /\ handled \in Seq(Seq(Seq(Nat))) /\ sent \in Seq(Messages)
      /\ parts \in Seq(1..MaxParts) /\ Len(parts) = Len(sent)
  BY DEF TypeOK
<1>2. PICK n : n = Len(handled)
  OBVIOUS
<1>3. n \in Nat \ {0} /\ n \in DOMAIN handled /\ Last(handled) = handled[n]
  BY <1>1, <1>2 DEF Last
<1>4. n \in DOMAIN sent /\ handled[n] = Whole(n) /\ (open => n # Len(sent))
  BY <1>3, Zenon DEF InOrder
<1>5. PICK is : is = {i \in DOMAIN sent : Last(handled) = Whole(i) /\ (open => i # Len(sent))}
  OBVIOUS
<1>6. n \in is
  BY <1>3, <1>4, <1>5
<1>7. ASSUME NEW i \in is PROVE i = n
  <2>1. i \in DOMAIN sent /\ Whole(i) = Whole(n)
    BY <1>3, <1>4, <1>5
  <2>2. i \in 1..Len(parts) /\ n \in 1..Len(parts)
    BY <1>1, <1>4, <2>1
  <2>3. 1 \in 1..parts[i] /\ 1 \in 1..parts[n]
    <3>1. parts[i] \in 1..MaxParts /\ parts[n] \in 1..MaxParts
      BY <1>1, <2>2, ElementOfSeq, Zenon
    <3> QED
      BY <3>1, InputAssumption
  <2>4. Whole(i)[1] = <<i, 1>> /\ Whole(n)[1] = <<n, 1>>
    BY <2>3 DEF Whole
  <2>5. <<i, 1>> = <<n, 1>>
    BY <2>1, <2>4
  <2> QED
    BY <2>5
<1>8. PICK k : k = (CHOOSE i \in is : TRUE)
  OBVIOUS
<1>9. k = n
  BY <1>6, <1>7, <1>8
<1>10. Message = IF is = {} THEN [event |-> "junk"] ELSE sent[CHOOSE i \in is : TRUE]
  BY <1>5 DEF Message, Unmarshalled
<1>11. Message = sent[n]
  BY <1>6, <1>8, <1>9, <1>10
<1> QED
  BY <1>1, <1>2, <1>4, <1>11

(* What is known of the first message stays.                               *)
LEMMA AuthKept ==
  ASSUME AuthFirst, authed' = authed, authed # <<>> => handled' # <<>>,
         authed # <<>> => sent'[1] = sent[1], authed = <<>> => done' = done
  PROVE  AuthFirst'
<1>1. CASE authed = <<>>
  BY <1>1, Zenon DEF AuthFirst
<1>2. CASE authed # <<>>
  <2>1. /\ sent[1].event = "auth"
        /\ sent[1].token.signed /\ sent[1].token.server = Uuid
        /\ sent[1].token.exp = 0 \/ authed[1] <= sent[1].token.exp
    BY <1>2, Zenon DEF AuthFirst
  <2>2. sent'[1] = sent[1] /\ handled' # <<>> /\ authed' # <<>>
    BY <1>2, Zenon
  <2> QED
    BY <2>1, <2>2, Zenon DEF AuthFirst
<1> QED
  BY <1>1, <1>2, Zenon

-----------------------------------------------------------------------------
(* The inductive invariant is one *)

LEMMA InvInit == Init => IInv
<1> SUFFICES ASSUME Init PROVE IInv
  OBVIOUS
<1>1. /\ sent = <<>> /\ parts = <<>> /\ open = FALSE /\ wire = <<>>
      /\ pc = "read" /\ msg = <<>> /\ handled = <<>> /\ authed = <<>> /\ done = <<>>
  BY DEF Init
<1>2. Len(<<>>) = 0 /\ DOMAIN <<>> = {}
  BY EmptySeq
<1>3. Tracked
  <2>1. PICK m : m = [i \in 1..1 |-> 1]
    OBVIOUS
  <2>2. m \in [1..(Len(wire) + 1) -> Nat] /\ m[Len(wire) + 1] = 1 /\ m[1] = 1
        /\ Len(handled) + 1 = 1 /\ Len(msg) + 1 = 1 /\ 1..Len(wire) = {}
    BY <1>1, <1>2, <2>1
  <2>3. NextMessage = 1 /\ NextFragment = 1
    BY <1>1, <1>2 DEF NextMessage, NextFragment
  <2>4. Track(m, m)
    BY <2>2, <2>3, Zenon DEF Track
  <2> QED
    BY <2>4 DEF Tracked
<1>4. Building
  BY <1>1, <1>2 DEF Building
<1>5. InOrder
  BY <1>1, <1>2, Zenon DEF InOrder
<1>6. Phase
  BY <1>1 DEF Phase
<1>7. AuthFirst
  BY <1>1, Zenon DEF AuthFirst
<1> QED
  BY <1>3, <1>4, <1>5, <1>6, <1>7, ShapedInit DEF IInv

(* A step that sends and reads nothing.                                    *)
LEMMA OrderKept ==
  ASSUME Tracked, Building, InOrder,
         sent' = sent, parts' = parts, open' = open, wire' = wire,
         handled' = handled, msg' = msg
  PROVE  Tracked' /\ Building' /\ InOrder'
<1>1. /\ sent' = sent /\ parts' = parts /\ open' = open /\ wire' = wire
      /\ handled' = handled /\ msg' = msg
  OBVIOUS
<1>2. PICK m, p : Track(m, p)
  BY DEF Tracked
<1>3. NextMessage' = NextMessage /\ NextFragment' = NextFragment
      /\ \A i, j : Ends(i, j)' <=> Ends(i, j)
  <2>1. NextMessage' = NextMessage
    BY DEF NextMessage
  <2>2. NextFragment' = NextFragment
    BY DEF NextFragment
  <2>3. \A i, j : Ends(i, j)' <=> Ends(i, j)
    BY DEF Ends
  <2> QED
    BY <2>1, <2>2, <2>3
<1>5. ASSUME NEW i \in 1..Len(wire')
      PROVE  Follows(m[i], p[i], m[i + 1], p[i + 1], wire[i])'
  <2>1. PICK g : g = wire[i] /\ g = wire'[i]
    BY <1>1
  <2>2. Follows(m[i], p[i], m[i + 1], p[i + 1], g)
    BY <1>1, <1>2, <2>1, Zenon DEF Track
  <2>3. Follows(m[i], p[i], m[i + 1], p[i + 1], g)'
    BY <1>3, <2>2, Zenon DEF Follows, Data, Fin
  <2> QED
    BY <2>1, <2>3, Zenon DEF Follows, Data, Fin
<1>6. Track(m, p)'
  <2>1. /\ m \in [1..(Len(wire') + 1) -> Nat] /\ p \in [1..(Len(wire') + 1) -> Nat]
        /\ m[1] = Len(handled') + 1 /\ p[1] = Len(msg') + 1
        /\ m[Len(wire') + 1] = NextMessage' /\ p[Len(wire') + 1] = NextFragment'
    BY <1>1, <1>2, <1>3, Zenon DEF Track
  <2> QED
    BY <1>5, <2>1, Zenon DEF Track
<1>7. \A i : Whole(i)' = Whole(i)
  BY <1>1 DEF Whole
<1>4. Building' /\ InOrder'
  <2>1. Building'
    BY <1>1, Zenon DEF Building
  <2>2. InOrder'
    BY <1>7 DEF InOrder
  <2> QED
    BY <2>1, <2>2
<1> QED
  BY <1>4, <1>6, Zenon DEF Tracked

(* The browser's steps: each has the frame it sends follow what it sent.   *)
LEMMA OrderBrowser ==
  ASSUME IInv, Shaped', [Next]_vars,
         NEW fin \in BOOLEAN, NEW n \in Lens,
         (\E m \in Messages : Begin(m, fin, n)) \/ Continue(fin, n)
  PROVE  Tracked' /\ Building' /\ InOrder'
         /\ (handled # <<>> => sent'[1] = sent[1])
<1>1. /\ sent \in Seq(Messages) /\ parts \in Seq(1..MaxParts) /\ Len(parts) = Len(sent)
      /\ wire \in Seq(Frame) /\ Framed /\ handled \in Seq(Seq(Seq(Nat)))
      /\ wire' \in Seq(Frame)
  BY DEF IInv, Shaped, TypeOK
<1>2. open \in BOOLEAN /\ (open => sent # <<>>)
  BY Zenon DEF IInv, Shaped, TypeOK
<1>3. Tracked /\ Building /\ InOrder
  BY DEF IInv
<1>4. opText \in {opText, opContinuation} /\ opContinuation \in {opText, opContinuation}
      /\ n \in Fitting
  BY LengthFacts
<1>5. DOMAIN sent = 1..Len(sent) /\ DOMAIN handled = 1..Len(handled)
  BY <1>1
<1>6. handled # <<>> => 1 \in 1..Len(sent)
  <2> SUFFICES ASSUME handled # <<>> PROVE 1 \in 1..Len(sent)
    OBVIOUS
  <2>1. 1 \in DOMAIN handled
    BY <1>1
  <2> QED
    BY <1>3, <1>5, <2>1, Zenon DEF InOrder
<1>10. CASE \E m \in Messages : Begin(m, fin, n)
  <2>1. PICK m \in Messages : Begin(m, fin, n)
    BY <1>10
  <2>2. /\ ~open /\ sent' = Append(sent, m) /\ parts' = Append(parts, 1) /\ open' = ~fin
        /\ Send(fin, opText, n, <<Len(sent) + 1, 1>>) /\ handled' = handled /\ msg' = msg
    BY <2>1 DEF Begin, session
  <2>3. /\ Len(sent') = Len(sent) + 1 /\ Len(parts') = Len(sent) + 1 /\ Len(sent) \in Nat
        /\ parts'[Len(sent) + 1] = 1
        /\ \A i \in 1..Len(sent) : sent'[i] = sent[i] /\ parts'[i] = parts[i]
    BY <1>1, <2>2
  <2>4. PICK a, f : a = Len(sent) + 1 /\ f = wire'[Len(wire) + 1]
    OBVIOUS
  <2>5. /\ Len(wire') = Len(wire) + 1 /\ (\A i \in 1..Len(wire) : wire'[i] = wire[i])
        /\ f.data = <<a, 1>> /\ Fin(f) = fin /\ Data(f)
    <3>1. <<Len(sent) + 1, 1>> \in Seq(Nat)
      BY <2>3
    <3> QED
      BY <1>1, <1>4, <2>2, <2>4, <3>1, SendFacts, LengthFacts
  <2>6. \A i, j : Ends(i, j) => Ends(i, j)'
    <3> SUFFICES ASSUME NEW i, NEW j, Ends(i, j)
                 PROVE  i \in 1..Len(sent') /\ parts'[i] = j /\ i # Len(sent')
      BY Zenon DEF Ends
    <3>1. i \in 1..Len(sent) /\ parts[i] = j
      BY DEF Ends
    <3> QED
      BY <2>3, <3>1
  <2>7. NextMessage = a /\ NextFragment = 1
    BY <2>2, <2>4 DEF NextMessage, NextFragment
  <2>8. /\ fin => NextMessage' = a + 1 /\ NextFragment' = 1
        /\ ~fin => NextMessage' = a /\ NextFragment' = 1 + 1
    BY <2>2, <2>3, <2>4 DEF NextMessage, NextFragment
  <2>9. a \in Nat /\ a + 1 \in Nat /\ 1 + 1 \in Nat /\ 1 \in Nat
    BY <2>3, <2>4
  <2>10. ASSUME fin PROVE Tracked'
    <3>1. Ends(a, 1)'
      <4>1. a \in 1..Len(sent') /\ parts'[a] = 1
        BY <2>3, <2>4
      <4> QED
        BY <2>2, <2>10, <4>1, Zenon DEF Ends
    <3>2. Follows(a, 1, a + 1, 1, f)'
      BY <2>5, <2>10, <3>1, Zenon DEF Follows, Data, Fin
    <3>3. NextMessage' = a + 1 /\ NextFragment' = 1
      BY <2>8, <2>10
    <3>4. Sends(a, 1, a + 1, 1, f)
      BY <1>1, <2>2, <2>4, <2>5, <2>6, <2>7, <2>9, <3>2, <3>3, Zenon DEF Sends
    <3> QED
      BY <1>3, <3>4, TrackSend, Zenon
  <2>11. ASSUME ~fin PROVE Tracked'
    <3>1. Follows(a, 1, a, 1 + 1, f)'
      BY <2>5, <2>11, Zenon DEF Follows, Data, Fin
    <3>3. NextMessage' = a /\ NextFragment' = 1 + 1
      BY <2>8, <2>11
    <3>4. Sends(a, 1, a, 1 + 1, f)
      BY <1>1, <2>2, <2>4, <2>5, <2>6, <2>7, <2>9, <3>1, <3>3, Zenon DEF Sends
    <3> QED
      BY <1>3, <3>4, TrackSend, Zenon
  <2>12. Building'
    BY <1>3, <2>2, Zenon DEF Building
  <2>13. InOrder'
    <3> SUFFICES ASSUME NEW i \in 1..Len(handled)
                 PROVE  /\ i \in DOMAIN sent' /\ handled[i] = Whole(i)'
                        /\ open' => i # Len(sent')
      BY <1>5, <2>2, Zenon DEF InOrder
    <3>1. i \in 1..Len(sent) /\ handled[i] = Whole(i)
      BY <1>3, <1>5, Zenon DEF InOrder
    <3>2. Whole(i)' = Whole(i) /\ DOMAIN sent' = 1..Len(sent')
      BY <1>1, <2>2, <2>3, <3>1 DEF Whole
    <3> QED
      BY <2>3, <3>1, <3>2
  <2> QED
    BY <1>6, <2>3, <2>10, <2>11, <2>12, <2>13
<1>11. CASE Continue(fin, n)
  <2>1. /\ open /\ sent' = sent /\ open' = ~fin /\ handled' = handled /\ msg' = msg
        /\ parts' = [parts EXCEPT ![Len(sent)] = @ + 1]
        /\ Send(fin, opContinuation, n, <<Len(sent), parts[Len(sent)] + 1>>)
    BY <1>11 DEF Continue, session
  <2>2. PICK a, b, f : a = Len(sent) /\ b = parts[a] + 1 /\ f = wire'[Len(wire) + 1]
    OBVIOUS
  <2>3. sent # <<>>
    BY <1>2, <2>1
  <2>4. a \in 1..Len(parts) /\ a \in Nat /\ b \in Nat
    <3>1. a \in 1..Len(parts) /\ a \in Nat
      BY <1>1, <2>2, <2>3
    <3>2. parts[a] \in 1..MaxParts
      BY <1>1, <3>1, ElementOfSeq, Zenon
    <3> QED
      BY <2>2, <3>1, <3>2
  <2>5. /\ parts'[a] = b
        /\ \A i \in 1..Len(sent) : i # a => parts'[i] = parts[i]
    BY <1>1, <2>1, <2>2, <2>4
  <2>6. /\ Len(wire') = Len(wire) + 1 /\ (\A i \in 1..Len(wire) : wire'[i] = wire[i])
        /\ f.data = <<a, b>> /\ Fin(f) = fin /\ Data(f)
    <3>1. <<a, b>> \in Seq(Nat) /\ Send(fin, opContinuation, n, <<a, b>>)
      BY <2>1, <2>2, <2>4
    <3> QED
      BY <1>1, <1>4, <2>2, <3>1, SendFacts, LengthFacts
  <2>7. \A i, j : Ends(i, j) => Ends(i, j)'
    <3> SUFFICES ASSUME NEW i, NEW j, Ends(i, j)
                 PROVE  i \in 1..Len(sent') /\ parts'[i] = j /\ i # Len(sent')
      BY Zenon DEF Ends
    <3>1. i \in 1..Len(sent) /\ parts[i] = j /\ i # Len(sent)
      BY <2>1, Zenon DEF Ends
    <3> QED
      BY <2>1, <2>2, <2>5, <3>1
  <2>8. NextMessage = a /\ NextFragment = b
    BY <2>1, <2>2 DEF NextMessage, NextFragment
  <2>9. /\ fin => NextMessage' = a + 1 /\ NextFragment' = 1
        /\ ~fin => NextMessage' = a /\ NextFragment' = b + 1
    BY <2>1, <2>2, <2>5 DEF NextMessage, NextFragment
  <2>10. a + 1 \in Nat /\ b + 1 \in Nat /\ 1 \in Nat
    BY <2>4
  <2>11. ASSUME fin PROVE Tracked'
    <3>1. Ends(a, b)'
      <4>1. a \in 1..Len(sent') /\ parts'[a] = b
        BY <1>1, <2>1, <2>4, <2>5
      <4> QED
        BY <2>1, <2>11, <4>1, Zenon DEF Ends
    <3>2. Follows(a, b, a + 1, 1, f)'
      BY <2>6, <2>11, <3>1, Zenon DEF Follows, Data, Fin
    <3>3. NextMessage' = a + 1 /\ NextFragment' = 1
      BY <2>9, <2>11
    <3>4. Sends(a, b, a + 1, 1, f)
      BY <1>1, <2>1, <2>2, <2>6, <2>7, <2>8, <2>10, <3>2, <3>3, Zenon DEF Sends
    <3> QED
      BY <1>3, <3>4, TrackSend, Zenon
  <2>12. ASSUME ~fin PROVE Tracked'
    <3>1. Follows(a, b, a, b + 1, f)'
      BY <2>6, <2>12, Zenon DEF Follows, Data, Fin
    <3>3. NextMessage' = a /\ NextFragment' = b + 1
      BY <2>9, <2>12
    <3>4. Sends(a, b, a, b + 1, f)
      BY <1>1, <2>1, <2>2, <2>4, <2>6, <2>7, <2>8, <2>10, <3>1, <3>3, Zenon DEF Sends
    <3> QED
      BY <1>3, <3>4, TrackSend, Zenon
  <2>13. Building'
    BY <1>3, <2>1, Zenon DEF Building
  <2>14. InOrder'
    <3> SUFFICES ASSUME NEW i \in 1..Len(handled)
                 PROVE  /\ i \in DOMAIN sent' /\ handled[i] = Whole(i)'
                        /\ open' => i # Len(sent')
      BY <1>5, <2>1, Zenon DEF InOrder
    <3>1. i \in 1..Len(sent) /\ handled[i] = Whole(i) /\ i # Len(sent)
      BY <1>3, <1>5, <2>1, Zenon DEF InOrder
    <3>2. Whole(i)' = Whole(i)
      BY <2>1, <2>2, <2>5, <3>1 DEF Whole
    <3> QED
      BY <1>5, <2>1, <3>1, <3>2
  <2> QED
    BY <2>1, <2>11, <2>12, <2>13, <2>14
<1> QED
  BY <1>10, <1>11

(* A control frame leaves what is next as it was.                          *)
LEMMA OrderControl ==
  ASSUME IInv, sent' = sent, parts' = parts, open' = open, handled' = handled, msg' = msg,
         NEW n \in Fitting, NEW opcode \in {opPing, opPong, opClose},
         Send(TRUE, opcode, n, <<>>)
  PROVE  Tracked' /\ Building' /\ InOrder'
<1>1. /\ wire \in Seq(Frame) /\ Framed /\ <<>> \in Seq(Nat) /\ opcode \in Opcodes
      /\ opcode \notin {opText, opContinuation}
  <2>1. wire \in Seq(Frame) /\ Framed
    BY DEF IInv, Shaped, TypeOK
  <2> QED
    BY <2>1 DEF Opcodes, opText, opContinuation, opPing, opPong, opClose
<1>2. PICK f : f = wire'[Len(wire) + 1]
  OBVIOUS
<1>3. /\ wire' \in Seq(Frame) /\ Len(wire') = Len(wire) + 1
      /\ (\A i \in 1..Len(wire) : wire'[i] = wire[i]) /\ ~Data(f)
  BY <1>1, <1>2, SendFacts
<1>4. PICK a, b : a = NextMessage /\ b = NextFragment
  OBVIOUS
<1>5. a = NextMessage' /\ b = NextFragment'
  <2>1. NextMessage' = NextMessage
    BY DEF NextMessage
  <2>2. NextFragment' = NextFragment
    BY DEF NextFragment
  <2> QED
    BY <1>4, <2>1, <2>2
<1>6. a \in Nat /\ b \in Nat
  <2>1. PICK m, p : Track(m, p)
    BY DEF IInv, Tracked
  <2>2. Len(wire) + 1 \in 1..(Len(wire) + 1)
    BY <1>1
  <2> QED
    BY <1>4, <2>1, <2>2 DEF Track
<1>7. \A i, j : Ends(i, j) => Ends(i, j)'
  BY DEF Ends
<1>8. Follows(a, b, a, b, f)'
  BY <1>3, Zenon DEF Follows, Data, Fin
<1>9. Sends(a, b, a, b, f)
  BY <1>1, <1>2, <1>3, <1>4, <1>5, <1>6, <1>7, <1>8, Zenon DEF Sends
<1>10. Tracked'
  BY <1>9, TrackSend, Zenon DEF IInv
<1>11. \A i : Whole(i)' = Whole(i)
  BY DEF Whole
<1>12. Building'
  BY Zenon DEF IInv, Building
<1>13. InOrder'
  BY <1>11 DEF IInv, InOrder
<1> QED
  BY <1>10, <1>12, <1>13

LEMMA InvStep == IInv /\ [Next]_vars => IInv'
<1> SUFFICES ASSUME IInv, [Next]_vars PROVE IInv'
  OBVIOUS
<1>0. Shaped /\ Tracked /\ Building /\ InOrder /\ Phase /\ AuthFirst /\ Shaped' /\ TypeOK
  <2>1. Shaped
    BY DEF IInv
  <2> QED
    BY <2>1, ShapedStep DEF IInv, Shaped
<1>1. /\ wire \in Seq(Frame) /\ Len(wire) <= Window /\ Framed
      /\ handled \in Seq(Seq(Seq(Nat)))
  BY <1>0 DEF Shaped, TypeOK
<1>2. /\ pc = "read" /\ authed = <<>> => handled = <<>>
      /\ pc = "message" => handled # <<>>
      /\ pc = "message" /\ authed = <<>> => Len(handled) = 1
      /\ pc \in {"tail", "docker"} => authed # <<>>
      /\ authed # <<>> => handled # <<>>
  BY <1>0, Zenon DEF Phase, AuthFirst
<1> DEFINE Order == Tracked' /\ Building' /\ InOrder'
<1>3. ASSUME Order, UNCHANGED <<pc, handled, authed, done>>,
             handled # <<>> => sent'[1] = sent[1]
      PROVE  IInv'
  <2>1. Phase'
    BY <1>0, <1>3 DEF Phase
  <2>2. AuthFirst'
    BY <1>0, <1>2, <1>3, AuthKept
  <2> QED
    BY <1>0, <1>3, <2>1, <2>2 DEF IInv
<1>4. ASSUME UNCHANGED <<browser, wire, msg, handled>>, Phase', AuthFirst' PROVE IInv'
  <2>1. /\ sent' = sent /\ parts' = parts /\ open' = open /\ wire' = wire
        /\ handled' = handled /\ msg' = msg
    BY <1>4 DEF browser
  <2>2. Order
    BY <1>0, <2>1, OrderKept
  <2> QED
    BY <1>0, <1>4, <2>2 DEF IInv
<1>10. ASSUME NEW fin \in BOOLEAN, NEW n \in Lens,
              (\E m \in Messages : Begin(m, fin, n)) \/ Continue(fin, n)
       PROVE  IInv'
  <2>1. Order /\ (handled # <<>> => sent'[1] = sent[1])
    BY <1>0, <1>10, OrderBrowser
  <2>2. UNCHANGED <<pc, handled, authed, done>>
    BY <1>10 DEF Begin, Continue, session
  <2> QED
    BY <1>3, <2>1, <2>2
<1>11. ASSUME NEW n \in Lens, Ping(n) PROVE IInv'
  <2>1. /\ sent' = sent /\ parts' = parts /\ open' = open /\ handled' = handled /\ msg' = msg
        /\ Send(TRUE, opPing, n, <<>>) /\ pc' = pc /\ authed' = authed /\ done' = done
    BY <1>11 DEF Ping, session
  <2>2. Order
    BY <2>1, OrderControl, LengthFacts
  <2> QED
    BY <1>3, <2>1, <2>2
<1>12. ASSUME NEW opcode \in {opPong, opClose}, Control(opcode) PROVE IInv'
  <2>1. /\ sent' = sent /\ parts' = parts /\ open' = open /\ handled' = handled /\ msg' = msg
        /\ Send(TRUE, opcode, 0, <<>>) /\ pc' = pc /\ authed' = authed /\ done' = done
    BY <1>12 DEF Control, browser, session
  <2>2. Order
    BY <2>1, OrderControl, LengthFacts
  <2> QED
    BY <1>3, <2>1, <2>2
<1>13. CASE Tick \/ UNCHANGED vars
  <2>1. /\ sent' = sent /\ parts' = parts /\ open' = open /\ handled' = handled /\ msg' = msg
        /\ wire' = wire /\ pc' = pc /\ authed' = authed /\ done' = done
    BY <1>13 DEF Tick, vars, browser, session
  <2>2. Order
    BY <1>0, <2>1, OrderKept
  <2> QED
    BY <1>3, <2>1, <2>2
<1>14. CASE FrameTooLarge \/ ReadError
  <2>1. /\ UNCHANGED <<browser, wire, msg, handled>> /\ handled' = handled /\ sent' = sent
        /\ pc' = "end" /\ authed' = authed /\ done' = done
    BY <1>14 DEF FrameTooLarge, ReadError, browser, session
  <2>2. Phase'
    BY <2>1 DEF Phase
  <2>3. AuthFirst'
    BY <1>0, <1>2, <2>1, AuthKept
  <2> QED
    BY <1>4, <2>1, <2>2, <2>3
<1>15. ASSUME NEW ops, Receive(ops), UNCHANGED <<browser, authed, done>>,
              Takes(Head(wire)), Phase'
       PROVE  IInv'
  <2>1. PICK f : f = wire[1]
    OBVIOUS
  <2>2. /\ wire' \in Seq(Frame) /\ Len(wire) = Len(wire') + 1
        /\ \A i \in 1..Len(wire') : wire'[i] = wire[i + 1]
        /\ Head(wire) = f /\ f.data \in Seq(Nat)
        /\ Sound(wire[1])
    BY <1>1, <1>15, <2>1, ReceiveFacts
  <2>3. Fin(f) \in BOOLEAN
    BY <2>1, <2>2 DEF Sound
  <2>4. Takes(f)
    BY <1>15, <2>2, Zenon DEF Takes
  <2>5. Order
    BY <1>0, <1>15, <2>1, <2>2, <2>3, <2>4, TrackReceive
  <2>6. handled # <<>> => handled' # <<>>
    <3>1. handled' = handled \/ handled' = Append(handled, Append(msg, f.data))
      BY <2>4 DEF Takes
    <3>2. Len(handled) + 1 # 0 /\ Len(Append(handled, Append(msg, f.data))) = Len(handled) + 1
      BY <1>0, <1>1, <2>2 DEF TypeOK
    <3> QED
      BY <3>1, <3>2, EmptySeq
  <2>7. AuthFirst'
    BY <1>0, <1>2, <1>15, <2>6, AuthKept DEF browser
  <2> QED
    BY <1>0, <1>15, <2>5, <2>7 DEF IInv
<1>16. ASSUME NEW ops, Receive(ops), ops \cap {opText, opContinuation} = {}
       PROVE  ~Data(Head(wire))
  BY <1>1, <1>16, ReceiveFacts DEF Data
<1>17. CASE ReadPing \/ ReadPong
  <2>1. PICK ops \in {{opPing}, {opPong}} : Receive(ops)
    BY <1>17 DEF ReadPing, ReadPong
  <2>2. /\ UNCHANGED <<browser, authed, done>> /\ pc' = pc /\ handled' = handled /\ msg' = msg
        /\ authed' = authed
    BY <1>17 DEF ReadPing, ReadPong, session
  <2>3. ops \cap {opText, opContinuation} = {}
    BY <2>1 DEF opText, opContinuation, opPing, opPong
  <2>4. Takes(Head(wire))
    BY <1>16, <2>1, <2>2, <2>3 DEF Takes
  <2>5. Phase'
    BY <1>0, <2>2 DEF Phase
  <2> QED
    BY <1>15, <2>1, <2>2, <2>4, <2>5
<1>18. CASE ReadClose
  <2>1. /\ Receive({opClose}) /\ UNCHANGED <<browser, authed, done>> /\ pc' = "end"
        /\ handled' = handled /\ msg' = msg
    BY <1>18 DEF ReadClose
  <2>2. {opClose} \cap {opText, opContinuation} = {}
    BY DEF opText, opContinuation, opClose
  <2>3. Takes(Head(wire))
    BY <1>16, <2>1, <2>2 DEF Takes
  <2>4. Phase'
    BY <2>1 DEF Phase
  <2> QED
    BY <1>15, <2>1, <2>3, <2>4
<1>19. CASE ReadData
  <2>1. /\ Receive({opText, opContinuation}) /\ UNCHANGED <<browser, authed, done>>
        /\ pc = "read" /\ authed' = authed
    BY <1>19 DEF ReadData, Receive
  <2>2. /\ Data(Head(wire)) /\ (Header.fin <=> Fin(Head(wire)))
        /\ Head(wire).data \in Seq(Nat)
    BY <1>1, <2>1, ReceiveFacts DEF Data
  <2>3. CASE Header.fin
    <3>1. /\ handled' = Append(handled, Append(msg, Head(wire).data))
          /\ msg' = <<>> /\ pc' = "message"
      BY <1>19, <2>3 DEF ReadData
    <3>2. Takes(Head(wire))
      BY <2>2, <2>3, <3>1 DEF Takes
    <3>3. Len(handled') = Len(handled) + 1
      <4>1. Append(msg, Head(wire).data) \in Seq(Seq(Nat))
        BY <1>0, <2>2 DEF TypeOK
      <4> QED
        BY <1>1, <3>1, <4>1
    <3>4. handled' # <<>> /\ (authed' = <<>> => Len(handled') = 1)
      <4>1. Len(handled) \in Nat /\ Len(<<>>) = 0
        BY <1>1, EmptySeq
      <4>2. authed' = <<>> => Len(handled) = 0
        BY <1>2, <2>1, <4>1
      <4> QED
        BY <3>3, <4>1, <4>2
    <3>5. Phase'
      BY <3>1, <3>4 DEF Phase
    <3> QED
      BY <1>15, <2>1, <3>2, <3>5
  <2>4. CASE ~Header.fin
    <3>1. msg' = Append(msg, Head(wire).data) /\ handled' = handled /\ pc' = pc
      BY <1>19, <2>4 DEF ReadData
    <3>2. Takes(Head(wire))
      BY <2>2, <2>4, <3>1 DEF Takes
    <3>3. Phase'
      BY <1>0, <2>1, <3>1 DEF Phase
    <3> QED
      BY <1>15, <2>1, <3>2, <3>3
  <2> QED
    BY <2>3, <2>4
<1>20. CASE Authenticate
  <2>1. /\ pc = "message" /\ authed = <<>> /\ Accepted(Message) /\ authed' = <<now>>
        /\ pc' = "tail" /\ UNCHANGED <<browser, wire, msg, handled>> /\ sent' = sent
        /\ handled' = handled
    BY <1>20 DEF Authenticate, browser
  <2>2. Len(handled) = 1 /\ handled # <<>>
    BY <1>2, <2>1
  <2>3. Message = sent[1]
    BY <1>0, <2>2, MessageFacts
  <2>4. /\ sent[1].event = "auth" /\ sent[1].token.signed /\ sent[1].token.server = Uuid
        /\ (sent[1].token.exp # 0 => now <= sent[1].token.exp)
    BY <2>1, <2>3, Zenon DEF Accepted, Verified
  <2>5. authed' # <<>> /\ authed'[1] = now
    BY <2>1
  <2>6. AuthFirst'
    BY <2>1, <2>2, <2>4, <2>5, Zenon DEF AuthFirst
  <2>7. Phase'
    BY <2>1, <2>5 DEF Phase
  <2> QED
    BY <1>4, <2>1, <2>6, <2>7
<1>21. ASSUME UNCHANGED <<browser, wire, msg, handled, authed>>,
              authed = <<>> => done' = done, Phase'
       PROVE  IInv'
  <2>1. AuthFirst'
    BY <1>0, <1>2, <1>21, AuthKept DEF browser
  <2> QED
    BY <1>4, <1>21, <2>1
<1>22. CASE RefuseAuth
  <2>1. UNCHANGED <<browser, wire, msg, handled, authed>> /\ done' = done /\ pc' = "end"
    BY <1>22 DEF RefuseAuth
  <2> QED
    BY <1>21, <2>1 DEF Phase
<1>23. CASE SendTail \/ DockerEnds
  <2>1. /\ UNCHANGED <<browser, wire, msg, handled, authed>> /\ done' = done
        /\ pc' = "read" /\ authed # <<>>
    BY <1>2, <1>23 DEF SendTail, DockerEnds
  <2> QED
    BY <1>21, <2>1 DEF Phase
<1>24. CASE Act
  <2>1. /\ UNCHANGED <<browser, wire, msg, handled, authed>> /\ pc' = "docker"
        /\ authed # <<>>
    BY <1>24 DEF Act
  <2> QED
    BY <1>21, <2>1 DEF Phase
<1>25. CASE PassOver
  <2>1. /\ UNCHANGED <<browser, wire, msg, handled, authed>> /\ done' = done
        /\ pc' = "read" /\ authed # <<>>
    BY <1>25 DEF PassOver, session
  <2> QED
    BY <1>21, <2>1 DEF Phase
<1> QED
  BY <1>10, <1>11, <1>12, <1>13, <1>14, <1>17, <1>18, <1>19, <1>20, <1>22, <1>23, <1>24,
     <1>25 DEF Next, Reads, Obeys, Handles

THEOREM Invariant == Spec => []IInv
BY InvInit, InvStep, PTL DEF Spec

(* However a message is cut and whatever lies between its fragments, the   *)
(* read loop has each message once, whole and in the browser's order.      *)
THEOREM InOrderHolds == Spec => []InOrder
<1>1. IInv => InOrder
  BY DEF IInv
<1> QED
  BY <1>1, Invariant, PTL

(* Docker is told nothing for a browser whose first message was not a      *)
(* token of this node, for this server, not expired when it was read.      *)
THEOREM AuthFirstHolds == Spec => []AuthFirst
<1>1. IInv => AuthFirst
  BY DEF IInv
<1> QED
  BY <1>1, Invariant, PTL

-----------------------------------------------------------------------------
(* What docker was told *)

(* The messages after the first that have been dealt with, and one for     *)
(* each thing that was done, in order.                                     *)
Dealt == IF pc = "message" THEN Len(handled) - 1 ELSE Len(handled)

Obeyed(at, n) ==
  /\ at \in [1..Len(done) -> 2..n]
  /\ \A k \in 1..Len(done) : Effective(sent[at[k]]) /\ done[k] = sent[at[k]]
  /\ \A j, k \in 1..Len(done) : j < k => at[j] < at[k]
  /\ \A i \in 2..n : Effective(sent[i]) => \E k \in 1..Len(done) : at[k] = i

Obeying ==
  authed # <<>> => (pc = "message" => Len(handled) > 1) /\ \E at : Obeyed(at, Dealt)

(* The browser's next messages come after.                                 *)
LEMMA ObeyedKept ==
  ASSUME NEW n \in Nat, NEW at, Obeyed(at, n), done' = done, \A i \in 1..n : sent'[i] = sent[i]
  PROVE  Obeyed(at, n)'
<1>1. \A k \in 1..Len(done) : at[k] \in 1..n
  BY DEF Obeyed
<1>2. \A i \in 2..n : sent'[i] = sent[i]
  OBVIOUS
<1> QED
  BY <1>1, <1>2 DEF Obeyed, Effective

(* A message that asks for nothing.                                        *)
LEMMA ObeyedPast ==
  ASSUME NEW n \in Nat, NEW at, Obeyed(at, n), ~Effective(sent[n + 1])
  PROVE  Obeyed(at, n + 1)
<1>1. \A i \in 2..(n + 1) : i \in 2..n \/ i = n + 1
  OBVIOUS
<1>2. 2..n \subseteq 2..(n + 1)
  OBVIOUS
<1>3. at \in [1..Len(done) -> 2..(n + 1)]
  BY <1>2 DEF Obeyed
<1> QED
  BY <1>1, <1>3 DEF Obeyed

(* A message that is done.                                                 *)
LEMMA ObeyedMore ==
  ASSUME NEW n \in Nat \ {0}, NEW at, Obeyed(at, n), Effective(sent[n + 1]),
         done \in Seq(Messages), sent[n + 1] \in Messages,
         done' = Append(done, sent[n + 1]), sent' = sent
  PROVE  \E new : Obeyed(new, n + 1)'
<1>1. PICK L \in Nat : L = Len(done)
  OBVIOUS
<1>2. /\ Len(done') = L + 1 /\ done'[L + 1] = sent[n + 1]
      /\ \A k \in 1..L : done'[k] = done[k]
  BY <1>1
<1>3. PICK new : new = [k \in 1..(L + 1) |-> IF k = L + 1 THEN n + 1 ELSE at[k]]
  OBVIOUS
<1>4. /\ at \in [1..L -> 2..n]
      /\ \A k \in 1..L : Effective(sent[at[k]]) /\ done[k] = sent[at[k]]
      /\ \A j, k \in 1..L : j < k => at[j] < at[k]
      /\ \A i \in 2..n : Effective(sent[i]) => \E k \in 1..L : at[k] = i
  BY <1>1 DEF Obeyed
<1>5. \A k \in 1..(L + 1) : k \in 1..L \/ k = L + 1
  OBVIOUS
<1>6. /\ new[L + 1] = n + 1
      /\ \A k \in 1..L : new[k] = at[k] /\ at[k] \in 2..n
  <2>1. \A k \in 1..L : k \in 1..(L + 1) /\ k # L + 1
    OBVIOUS
  <2>2. L + 1 \in 1..(L + 1)
    OBVIOUS
  <2> QED
    BY <1>3, <1>4, <2>1, <2>2
<1>7. new \in [1..(L + 1) -> 2..(n + 1)]
  <2>1. n + 1 \in 2..(n + 1) /\ 2..n \subseteq 2..(n + 1)
    OBVIOUS
  <2>2. \A k \in 1..(L + 1) : new[k] \in 2..(n + 1)
    BY <1>5, <1>6, <2>1
  <2> QED
    BY <1>3, <2>2
<1>8. \A k \in 1..(L + 1) : Effective(sent[new[k]]) /\ done'[k] = sent[new[k]]
  BY <1>2, <1>4, <1>5, <1>6
<1>9. \A j, k \in 1..(L + 1) : j < k => new[j] < new[k]
  <2> SUFFICES ASSUME NEW j \in 1..(L + 1), NEW k \in 1..(L + 1), j < k PROVE new[j] < new[k]
    OBVIOUS
  <2>1. j \in 1..L
    OBVIOUS
  <2>2. CASE k = L + 1
    BY <1>6, <2>1, <2>2
  <2>3. CASE k # L + 1
    BY <1>4, <1>5, <1>6, <2>1, <2>3
  <2> QED
    BY <2>2, <2>3
<1>10. \A i \in 2..(n + 1) : Effective(sent[i]) => \E k \in 1..(L + 1) : new[k] = i
  <2> SUFFICES ASSUME NEW i \in 2..(n + 1), Effective(sent[i])
               PROVE  \E k \in 1..(L + 1) : new[k] = i
    OBVIOUS
  <2>1. CASE i = n + 1
    <3>1. L + 1 \in 1..(L + 1)
      OBVIOUS
    <3> QED
      BY <1>6, <2>1, <3>1
  <2>2. CASE i # n + 1
    <3>1. i \in 2..n
      BY <2>2
    <3>2. PICK k \in 1..L : at[k] = i
      BY <1>4, <3>1
    <3>3. k \in 1..(L + 1)
      OBVIOUS
    <3> QED
      BY <1>6, <3>2, <3>3
  <2> QED
    BY <2>1, <2>2
<1>11. Obeyed(new, n + 1)'
  BY <1>2, <1>7, <1>8, <1>9, <1>10 DEF Obeyed, Effective
<1> QED
  BY <1>11

LEMMA ObeyingStep ==
  ASSUME IInv, Obeying, [Next]_vars
  PROVE  Obeying'
<1>1. /\ handled \in Seq(Seq(Seq(Nat))) /\ done \in Seq(Messages) /\ sent \in Seq(Messages)
      /\ wire \in Seq(Frame) /\ msg \in Seq(Seq(Nat)) /\ TypeOK /\ InOrder
  BY DEF IInv, Shaped, TypeOK
<1>2. /\ pc = "message" => handled # <<>>
      /\ pc = "message" /\ authed = <<>> => Len(handled) = 1
      /\ authed # <<>> => handled # <<>>
      /\ authed = <<>> => done = <<>>
  BY Zenon DEF IInv, Phase, AuthFirst
<1>3. Len(handled) \in Nat /\ Len(handled) <= Len(sent) /\ (handled # <<>> => Len(handled) > 0)
  <2>1. CASE handled = <<>>
    BY <1>1, <2>1, EmptySeq
  <2>2. CASE handled # <<>>
    BY <1>1, <2>2, MessageFacts
  <2> QED
    BY <2>1, <2>2
<1>4. ASSUME done' = done, authed' = authed, Dealt' = Dealt,
             \A i \in 1..Len(handled) : sent'[i] = sent[i],
             authed # <<>> /\ pc' = "message" => Len(handled') > 1
      PROVE  Obeying'
  <2> SUFFICES ASSUME authed # <<>> PROVE \E at : Obeyed(at, Dealt)'
    BY <1>4 DEF Obeying
  <2>1. PICK n : n = Dealt
    OBVIOUS
  <2>2. PICK at : Obeyed(at, n)
    BY <2>1 DEF Obeying
  <2>3. n \in Nat /\ n <= Len(handled)
    BY <1>2, <1>3, <2>1 DEF Dealt
  <2>4. \A i \in 1..n : sent'[i] = sent[i]
    BY <1>3, <1>4, <2>3
  <2>5. Obeyed(at, n)'
    BY <1>4, <2>2, <2>3, <2>4, ObeyedKept
  <2> QED
    BY <1>4, <2>1, <2>5
<1>5. ASSUME done' = done, authed' = authed, pc' = pc, handled' = handled, sent' = sent
      PROVE  Obeying'
  BY <1>4, <1>5 DEF Dealt, Obeying
<1>6. ASSUME done' = done, authed' = authed, handled' = handled, sent' = sent,
             pc # "message", pc' # "message"
      PROVE  Obeying'
  BY <1>4, <1>6 DEF Dealt
<1>7. ASSUME NEW m \in Messages, NEW fin \in BOOLEAN, NEW n \in Lens, Begin(m, fin, n)
      PROVE  Obeying'
  <2>1. /\ sent' = Append(sent, m) /\ done' = done /\ authed' = authed /\ pc' = pc
        /\ handled' = handled
    BY <1>7 DEF Begin, session
  <2>2. \A i \in 1..Len(handled) : sent'[i] = sent[i]
    BY <1>1, <1>3, <2>1
  <2> QED
    BY <1>4, <2>1, <2>2 DEF Dealt, Obeying
<1>8. ASSUME NEW fin \in BOOLEAN, NEW n \in Lens, Continue(fin, n) PROVE Obeying'
  BY <1>5, <1>8 DEF Continue, session
<1>9. ASSUME NEW n \in Lens, Ping(n) PROVE Obeying'
  BY <1>5, <1>9 DEF Ping, session
<1>10. ASSUME NEW opcode \in {opPong, opClose}, Control(opcode) PROVE Obeying'
  BY <1>5, <1>10 DEF Control, browser, session
<1>11. CASE Tick \/ UNCHANGED vars
  BY <1>5, <1>11 DEF Tick, vars, browser, session
<1>12. CASE ReadPing \/ ReadPong
  BY <1>5, <1>12 DEF ReadPing, ReadPong, browser, session
<1>13. CASE ReadClose \/ FrameTooLarge \/ ReadError
  BY <1>6, <1>13 DEF ReadClose, FrameTooLarge, ReadError, Receive, browser, session
<1>14. CASE SendTail \/ DockerEnds
  BY <1>6, <1>14 DEF SendTail, DockerEnds, browser
<1>15. CASE ReadData
  <2>1. pc = "read" /\ sent' = sent /\ done' = done /\ authed' = authed
    BY <1>15 DEF ReadData, Receive, browser
  <2>2. CASE Header.fin
    <3>1. handled' = Append(handled, Append(msg, Head(wire).data)) /\ pc' = "message"
      BY <1>15, <2>2 DEF ReadData
    <3>2. Len(handled') = Len(handled) + 1
      <4>1. Head(wire).data \in Seq(Nat)
        <5>1. Len(wire) <= Window /\ Framed /\ Receive({opText, opContinuation})
          BY <1>15 DEF ReadData, IInv, Shaped, TypeOK
        <5> QED
          BY <1>1, <5>1, ReceiveFacts
      <4>2. Append(msg, Head(wire).data) \in Seq(Seq(Nat))
        BY <1>1, <4>1
      <4> QED
        BY <1>1, <3>1, <4>2
    <3>3. Dealt' = Dealt
      BY <1>3, <2>1, <3>1, <3>2 DEF Dealt
    <3> QED
      BY <1>2, <1>3, <1>4, <2>1, <3>2, <3>3
  <2>3. CASE ~Header.fin
    BY <1>5, <1>15, <2>1, <2>3 DEF ReadData
  <2> QED
    BY <2>2, <2>3
<1>16. CASE RefuseAuth
  BY <1>16 DEF RefuseAuth, Obeying
<1>17. CASE Authenticate
  <2>1. /\ pc = "message" /\ authed = <<>> /\ pc' = "tail" /\ handled' = handled /\ done' = done
    BY <1>17 DEF Authenticate
  <2>2. Dealt' = 1 /\ Len(done') = 0
    BY <1>2, <2>1, EmptySeq DEF Dealt
  <2>3. PICK at : at = [k \in 1..0 |-> 2]
    OBVIOUS
  <2>4. at \in [1..0 -> 2..1] /\ 1..0 = {} /\ 2..1 = {}
    BY <2>3
  <2>5. Obeyed(at, 1)'
    BY <2>2, <2>4 DEF Obeyed
  <2> QED
    BY <2>1, <2>2, <2>5 DEF Obeying
<1>18. ASSUME pc = "message", authed # <<>>, pc' # "message", handled' = handled, sent' = sent,
              \/ ~Effective(Message) /\ done' = done
              \/ Effective(Message) /\ done' = Append(done, Message)
       PROVE  Obeying'
  <2>1. PICK n : n = Dealt
    OBVIOUS
  <2>2. n \in Nat \ {0} /\ n + 1 = Len(handled) /\ n = Len(handled) - 1
    BY <1>3, <1>18, <2>1 DEF Dealt, Obeying
  <2>3. n + 1 = Dealt'
    BY <1>18, <2>2 DEF Dealt
  <2>4. Message = sent[n + 1] /\ sent[n + 1] \in Messages
    BY <1>1, <1>2, <1>18, <2>2, MessageFacts
  <2>5. PICK at : Obeyed(at, n)
    BY <1>18, <2>1 DEF Obeying
  <2>6. \E new : Obeyed(new, n + 1)'
    <3>1. CASE Effective(Message)
      BY <1>1, <1>18, <2>2, <2>4, <2>5, <3>1, ObeyedMore
    <3>2. CASE ~Effective(Message)
      <4>1. Obeyed(at, n + 1) /\ done' = done /\ n + 1 \in Nat
        BY <1>18, <2>2, <2>4, <2>5, <3>2, ObeyedPast
      <4>2. Obeyed(at, n + 1)'
        BY <1>18, <4>1, ObeyedKept
      <4> QED
        BY <4>2
    <3> QED
      BY <3>1, <3>2
  <2>7. PICK new : Obeyed(new, n + 1)'
    BY <2>6
  <2> QED
    BY <1>18, <2>3, <2>7 DEF Obeying
<1>19. CASE Act
  BY <1>18, <1>19 DEF Act, browser
<1>20. CASE PassOver
  BY <1>18, <1>20 DEF PassOver, browser, session
<1> QED
  BY <1>7, <1>8, <1>9, <1>10, <1>11, <1>12, <1>13, <1>14, <1>15, <1>16, <1>17, <1>19, <1>20
     DEF Next, Reads, Obeys, Handles

(* What docker was told to do is what the messages after the first say,    *)
(* each once, in their order, and none of it before it was complete        *)
(* (router/ws.go:88-112).                                                  *)
THEOREM ActsAsToldHolds == Spec => []ActsAsTold
<1>1. Init => Obeying
  BY DEF Init, Obeying
<1>2. IInv /\ Obeying /\ [Next]_vars => Obeying'
  BY ObeyingStep
<1>3. IInv /\ Obeying => ActsAsTold
  <2> SUFFICES ASSUME IInv, Obeying, authed # <<>> PROVE ActsAsTold
    BY DEF ActsAsTold
  <2>1. PICK told : told = {i \in 2..Dealt : Effective(sent[i])}
    OBVIOUS
  <2>2. PICK at : Obeyed(at, Dealt)
    BY DEF Obeying
  <2>3. done \in Seq(Messages) /\ DOMAIN done = 1..Len(done)
    BY DEF IInv, Shaped, TypeOK
  <2>4. at \in Surjection(DOMAIN done, told)
    BY <2>1, <2>2, <2>3 DEF Obeyed, Surjection
  <2>5. /\ \A j, k \in DOMAIN done : j < k => at[j] < at[k]
        /\ \A k \in DOMAIN done : done[k] = sent[at[k]]
    BY <2>2, <2>3 DEF Obeyed
  <2> QED
    BY <2>1, <2>4, <2>5 DEF ActsAsTold, Dealt
<1> QED
  BY Invariant, <1>1, <1>2, <1>3, PTL DEF Spec
=============================================================================
