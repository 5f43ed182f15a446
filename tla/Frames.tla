------------------------------- MODULE Frames -------------------------------
(***************************************************************************)
(* The header of a WebSocket frame, in octets: what writeFrame puts in     *)
(* front of a payload and what readFrame gets out of it.                   *)
(***************************************************************************)
EXTENDS Naturals, Sequences

maxFrameSize == 4194304

(* A length is less than 2^64: it is an int, and a uint64 in a header.      *)
Fits(n) == ((n \div 16777216) \div 16777216) \div 65536 = 0

(* binary.BigEndian.PutUint16 and PutUint64.                               *)
PutUint16(n) == <<(n \div 256) % 256, n % 256>>

PutUint64(n) ==
  LET n1 == n \div 256   n2 == n1 \div 256  n3 == n2 \div 256  n4 == n3 \div 256
      n5 == n4 \div 256  n6 == n5 \div 256  n7 == n6 \div 256
  IN <<n7 % 256, n6 % 256, n5 % 256, n4 % 256, n3 % 256, n2 % 256, n1 % 256, n % 256>>

(* binary.BigEndian.Uint16 and Uint64 of the octets of h that follow its   *)
(* first two.                                                              *)
Uint16(h) == h[3] * 256 + h[4]

Uint64(h) ==
  ((((((h[3] * 256 + h[4]) * 256 + h[5]) * 256 + h[6]) * 256 + h[7]) * 256 + h[8])
      * 256 + h[9]) * 256 + h[10]

(* Mutant: 1<<16 is taken for a length of two octets.                      *)
WriteHeaderWide(opcode, n) ==
  IF n < 126 THEN <<128 + opcode, n>>
  ELSE IF n <= 65536 THEN <<128 + opcode, 126>> \o PutUint16(n)
  ELSE <<128 + opcode, 127>> \o PutUint64(n)

(* The header writeFrame writes: FIN is set, there is no mask.             *)
WriteHeader(opcode, n) ==
  IF n < 126 THEN <<128 + opcode, n>>
  ELSE IF n < 65536 THEN <<128 + opcode, 126>> \o PutUint16(n)
  ELSE <<128 + opcode, 127>> \o PutUint64(n)

(* What readFrame takes a header for.                                      *)
ReadHeader(h) ==
  LET length == h[2] % 128
  IN [fin |-> h[1] >= 128, opcode |-> h[1] % 16,
      length |-> IF length = 126 THEN Uint16(h)
                 ELSE IF length = 127 THEN Uint64(h) ELSE length]

(* The header a browser writes in front of a masked frame.                 *)
ClientHeader(fin, opcode, n) ==
  LET h == WriteHeader(opcode, n)
  IN [h EXCEPT ![1] = IF fin THEN @ ELSE @ - 128, ![2] = @ + 128]
=============================================================================
