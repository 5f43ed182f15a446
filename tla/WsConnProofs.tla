---------------------------- MODULE WsConnProofs ----------------------------
(* Proofs about WsConn for any number of streaming goroutines and frames. *)
EXTENDS WsConn, TLAPS

-----------------------------------------------------------------------------
(* The inductive invariant: TypeOK, FramesWhole, and what the mutex gives. *)

(* The goroutine inside the critical section of writeFrame holds wmu.      *)
HolderWrites ==
  \A g \in Goroutines : wpc[g] \in {"header", "payload"} <=> wmu = g

(* One that has its payload left to write finds its header last.           *)
HeaderLast ==
  \A g \in Goroutines :
    wpc[g] = "payload" =>
      Len(wire) > 0 /\ wire[Len(wire)] = Part(g, "header")

IInv == TypeOK /\ HolderWrites /\ HeaderLast /\ FramesWhole

-----------------------------------------------------------------------------
(* Every step keeps the types. *)
LEMMA TypeStep ==
  ASSUME TypeOK, [Next]_vars
  PROVE  TypeOK'
<1> USE ConnAssumption DEF TypeOK, conn, Goroutines, Opcodes
<1>1. ASSUME NEW g \in Goroutines, Lock(g) PROVE TypeOK'
  BY <1>1 DEF Lock, Goto
<1>2. ASSUME NEW g \in Goroutines, PutHeader(g) PROVE TypeOK'
  <2>1. Part(g, "header") \in Parts
    BY DEF Part, Parts
  <2>2. wire' \in Seq(Parts)
    <3>1. wire \in Seq(Parts)
      OBVIOUS
    <3>2. wire' = wire \/ wire' = Append(wire, Part(g, "header"))
      BY <1>2 DEF PutHeader
    <3> HIDE DEF TypeOK, Goroutines, Opcodes
    <3> QED
      BY <2>1, <3>1, <3>2
  <2> QED
    BY <1>2, <2>2 DEF PutHeader, Goto
<1>3. ASSUME NEW g \in Goroutines, PutPayload(g) PROVE TypeOK'
  <2>1. Part(g, "payload") \in Parts
    BY DEF Part, Parts
  <2>2. wire' \in Seq(Parts)
    <3>1. wire \in Seq(Parts)
      OBVIOUS
    <3>2. wire' = wire \/ wire' = Append(wire, Part(g, "payload"))
      BY <1>3 DEF PutPayload
    <3> HIDE DEF TypeOK, Goroutines, Opcodes
    <3> QED
      BY <2>1, <3>1, <3>2
  <2> QED
    BY <1>3, <2>2 DEF PutPayload, Goto
<1>4. ASSUME NEW s \in Streams, StreamSend(s) PROVE TypeOK'
  BY <1>4 DEF StreamSend, CallWrite
<1>5. ASSUME NEW s \in Streams, StreamEnd(s) PROVE TypeOK'
  BY <1>5 DEF StreamEnd
<1>6. CASE ClientFrame
  BY <1>6 DEF ClientFrame, CallWrite, Reading
<1>7. CASE ClientClose
  BY <1>7 DEF ClientClose, CallWrite, Reading
<1>8. CASE ReadError
  BY <1>8 DEF ReadError, Reading
<1>9. CASE Leaving
  BY <1>9 DEF Leaving, Cancel, CloseFrame, CloseConn, CallWrite
<1>10. CASE ClientReads
  BY <1>10 DEF ClientReads
<1>11. CASE ConnectionFails
  BY <1>11 DEF ConnectionFails
<1>12. CASE UNCHANGED vars
  BY <1>12 DEF vars
<1> QED
  BY <1>1, <1>2, <1>3, <1>4, <1>5, <1>6, <1>7, <1>8, <1>9, <1>10, <1>11, <1>12
     DEF Next, WriteStep

(* A step outside writeFrame leaves what is on the wire, who holds the     *)
(* mutex, and every frame that is being written.                           *)
Outside ==
  /\ UNCHANGED <<wire, wmu>>
  /\ broken => broken'
  /\ \A g \in Goroutines :
       /\ wpc[g] = "out" => wpc'[g] \in {"out", "lock"}
       /\ wpc[g] # "out" => wpc'[g] = wpc[g] /\ op'[g] = op[g]

LEMMA OutsideStep ==
  ASSUME TypeOK, [Next]_vars
  PROVE  Outside \/ \E g \in Goroutines : WriteStep(g)
<1> USE ConnAssumption DEF TypeOK, conn, Goroutines, Outside
<1>1. ASSUME NEW s \in Streams, StreamSend(s) PROVE Outside
  BY <1>1 DEF StreamSend, CallWrite
<1>2. ASSUME NEW s \in Streams, StreamEnd(s) PROVE Outside
  BY <1>2 DEF StreamEnd
<1>3. CASE ClientFrame
  BY <1>3 DEF ClientFrame, CallWrite, Reading
<1>4. CASE ClientClose
  BY <1>4 DEF ClientClose, CallWrite, Reading
<1>5. CASE ReadError
  BY <1>5 DEF ReadError, Reading
<1>6. CASE Leaving
  BY <1>6 DEF Leaving, Cancel, CloseFrame, CloseConn, CallWrite
<1>7. CASE ClientReads
  BY <1>7 DEF ClientReads
<1>8. CASE ConnectionFails
  BY <1>8 DEF ConnectionFails
<1>9. CASE UNCHANGED vars
  BY <1>9 DEF vars
<1> QED
  BY <1>1, <1>2, <1>3, <1>4, <1>5, <1>6, <1>7, <1>8, <1>9 DEF Next

-----------------------------------------------------------------------------
(* The mutex admits one goroutine at a time. *)
LEMMA HolderStep ==
  ASSUME TypeOK, HolderWrites, [Next]_vars
  PROVE  HolderWrites'
<1> USE ConnAssumption DEF TypeOK, HolderWrites, Goroutines, Goto
<1>1. CASE Outside
  BY <1>1 DEF Outside
<1>2. ASSUME NEW g \in Goroutines, Lock(g) PROVE HolderWrites'
  BY <1>2 DEF Lock
<1>3. ASSUME NEW g \in Goroutines, PutHeader(g) PROVE HolderWrites'
  BY <1>3 DEF PutHeader
<1>4. ASSUME NEW g \in Goroutines, PutPayload(g) PROVE HolderWrites'
  BY <1>4 DEF PutPayload
<1> QED
  BY <1>1, <1>2, <1>3, <1>4, OutsideStep DEF WriteStep

(* So the frame under way is always the last one on the wire. *)
LEMMA WireStep ==
  ASSUME TypeOK, HolderWrites, HeaderLast, FramesWhole, [Next]_vars
  PROVE  HeaderLast' /\ FramesWhole'
<1>0. /\ wire \in Seq(Parts)
      /\ \A i \in 1..Len(wire) : wire[i] \in Parts /\ wire[i].by \in Goroutines
      /\ \A g \in Goroutines, p \in {"header", "payload"} :
           Part(g, p) \in Parts /\ Part(g, p).by = g /\ Part(g, p).part = p
  <2>1. wire \in Seq(Parts)
    BY DEF TypeOK
  <2>2. \A i \in 1..Len(wire) : wire[i] \in Parts
    BY <2>1
  <2>3. \A i \in 1..Len(wire) : wire[i].by \in Goroutines
    BY <2>2 DEF Parts
  <2>4. \A g \in Goroutines : op[g] \in Opcodes
    BY DEF TypeOK
  <2>5. \A g \in Goroutines, p \in {"header", "payload"} :
          Part(g, p) \in Parts /\ Part(g, p).by = g /\ Part(g, p).part = p
    BY <2>4 DEF Part, Parts
  <2> QED
    BY <2>1, <2>2, <2>3, <2>5
<1>1. CASE Outside
  <2>1. \A g \in Goroutines :
           /\ wpc'[g] = "payload" <=> wpc[g] = "payload"
           /\ wpc[g] = "payload" => op'[g] = op[g]
    BY <1>1 DEF Outside, TypeOK
  <2>2. HeaderLast'
    BY <1>1, <2>1 DEF Outside, HeaderLast, Part
  <2>3. FramesWhole'
    BY <1>0, <1>1, <2>1 DEF Outside, FramesWhole, TypeOK
  <2> QED
    BY <2>2, <2>3
<1>2. ASSUME NEW g \in Goroutines, Lock(g) PROVE HeaderLast' /\ FramesWhole'
  <2>1. /\ wire' = wire /\ broken' = broken /\ op' = op
        /\ \A h \in Goroutines : wpc'[h] = "payload" <=> wpc[h] = "payload"
    BY <1>2 DEF Lock, Goto, TypeOK
  <2>2. HeaderLast'
    BY <2>1 DEF HeaderLast, Part
  <2>3. FramesWhole'
    BY <1>0, <2>1 DEF FramesWhole
  <2> QED
    BY <2>2, <2>3
<1>3. ASSUME NEW g \in Goroutines, PutHeader(g) PROVE HeaderLast' /\ FramesWhole'
  <2>1. wmu = g /\ wpc[g] = "header"
    BY <1>3 DEF PutHeader, HolderWrites
  <2>2. \A h \in Goroutines : wpc[h] # "payload"
    BY <2>1 DEF HolderWrites
  <2>3. CASE broken
    <3>1. wire' = wire /\ broken' /\ op' = op
          /\ \A h \in Goroutines : wpc'[h] # "payload"
      BY <1>3, <2>2, <2>3 DEF PutHeader, Goto, TypeOK
    <3> QED
      BY <1>0, <2>3, <3>1 DEF HeaderLast, FramesWhole
  <2>4. CASE ~broken
    <3>1. /\ wire' = Append(wire, Part(g, "header")) /\ op' = op
          /\ \A h \in Goroutines : wpc'[h] = "payload" <=> h = g
      BY <1>3, <2>2, <2>4 DEF PutHeader, Goto, TypeOK
    <3>2. /\ Len(wire') = Len(wire) + 1
          /\ wire'[Len(wire')] = Part(g, "header")
          /\ \A i \in 1..Len(wire) : wire'[i] = wire[i]
      BY <1>0, <3>1
    <3>3. \A i \in 1..Len(wire) : wire[i].part = "header" => i < Len(wire)
      BY <1>0, <2>2, <2>4 DEF FramesWhole
    <3>4. HeaderLast'
      BY <1>0, <3>1, <3>2 DEF HeaderLast, Part
    <3>5. FramesWhole'
      BY <1>0, <3>1, <3>2, <3>3 DEF FramesWhole
    <3> QED
      BY <3>4, <3>5
  <2> QED
    BY <2>3, <2>4
<1>4. ASSUME NEW g \in Goroutines, PutPayload(g) PROVE HeaderLast' /\ FramesWhole'
  <2>1. wpc[g] = "payload" /\ wmu = g
    BY <1>4 DEF PutPayload, HolderWrites
  <2>2. Len(wire) > 0 /\ wire[Len(wire)] = Part(g, "header")
    BY <2>1 DEF HeaderLast
  <2>3. /\ op' = op /\ broken' = broken
        /\ \A h \in Goroutines : wpc'[h] # "payload"
    BY <1>4, <2>1 DEF PutPayload, Goto, TypeOK, HolderWrites
  <2>4. HeaderLast'
    BY <2>3 DEF HeaderLast
  <2>5. CASE broken /\ wire' = wire
    <3>1. broken'
      BY <2>3, <2>5
    <3>2. \A i \in 1..Len(wire) :
            wire[i].part = "payload" =>
              /\ i > 1 /\ wire[i - 1].part = "header"
              /\ SameFrame(wire[i - 1], wire[i])
      BY DEF FramesWhole
    <3>3. \A i \in 1..Len(wire) :
            wire[i].part = "header" /\ i # Len(wire) =>
              /\ i < Len(wire) /\ wire[i + 1].part = "payload"
              /\ SameFrame(wire[i], wire[i + 1])
      BY DEF FramesWhole
    <3> QED
      BY <2>4, <2>5, <3>1, <3>2, <3>3 DEF FramesWhole, SameFrame
  <2>6. CASE wire' = Append(wire, Part(g, "payload"))
    <3>1. /\ Len(wire') = Len(wire) + 1
          /\ wire'[Len(wire')] = Part(g, "payload")
          /\ \A i \in 1..Len(wire) : wire'[i] = wire[i]
      BY <1>0, <2>6
    <3>2. SameFrame(Part(g, "header"), Part(g, "payload"))
      BY DEF Part, SameFrame
    <3>3. ASSUME NEW i \in 1..Len(wire'), wire'[i].part = "payload"
          PROVE  /\ i > 1 /\ wire'[i - 1].part = "header"
                 /\ SameFrame(wire'[i - 1], wire'[i])
      <4>1. CASE i = Len(wire) + 1
        BY <1>0, <2>2, <3>1, <3>2, <4>1
      <4>2. CASE i \in 1..Len(wire)
        BY <1>0, <3>1, <3>3, <4>2 DEF FramesWhole
      <4> QED
        BY <1>0, <3>1, <4>1, <4>2
    <3>4. ASSUME NEW i \in 1..Len(wire'), wire'[i].part = "header"
          PROVE  /\ i < Len(wire') /\ wire'[i + 1].part = "payload"
                 /\ SameFrame(wire'[i], wire'[i + 1])
      <4>1. i # Len(wire) + 1
        BY <1>0, <3>1, <3>4
      <4>2. CASE i = Len(wire)
        BY <1>0, <2>2, <3>1, <3>2, <4>2
      <4>3. CASE i \in 1..(Len(wire) - 1)
        BY <1>0, <3>1, <3>4, <4>3 DEF FramesWhole
      <4> QED
        BY <1>0, <3>1, <4>1, <4>2, <4>3
    <3> QED
      BY <2>4, <3>3, <3>4 DEF FramesWhole, SameFrame
  <2> QED
    BY <1>4, <2>4, <2>5, <2>6 DEF PutPayload
<1> QED
  BY <1>1, <1>2, <1>3, <1>4, OutsideStep DEF WriteStep

-----------------------------------------------------------------------------
(* The invariant behind the theorems below. *)
THEOREM Invariance == Spec => []IInv
<1>1. Init => IInv
  <2> SUFFICES ASSUME Init PROVE IInv
    OBVIOUS
  <2>1. wire \in Seq(Parts)
    BY DEF Init
  <2>2. TypeOK
    <3>1. sends \in [Streams -> 0..MaxSends] /\ frames \in 0..MaxFrames
      BY ConnAssumption DEF Init
    <3>2. unread \in 0..Room
      BY ConnAssumption DEF Init
    <3> QED
      BY <2>1, <3>1, <3>2 DEF Init, TypeOK, Goroutines, Opcodes
  <2>3. HolderWrites /\ HeaderLast
    BY ConnAssumption DEF Init, HolderWrites, HeaderLast, Goroutines
  <2>4. FramesWhole
    BY DEF Init, FramesWhole
  <2> QED
    BY <2>2, <2>3, <2>4 DEF IInv
<1>2. IInv /\ [Next]_vars => IInv'
  BY TypeStep, HolderStep, WireStep DEF IInv
<1> QED
  BY <1>1, <1>2, PTL DEF Spec

(* The variables of a connection keep their types (ws.go:40-53). *)
THEOREM TypeCorrect == Spec => []TypeOK
<1>1. IInv => TypeOK
  BY DEF IInv
<1> QED
  BY <1>1, Invariance, PTL

(* Frames written by any number of goroutines stay whole on the wire, on a *)
(* connection that may fail between header and payload (ws/ws.go:168-197). *)
THEOREM FramesWholeHolds == Spec => []FramesWhole
<1>1. IInv => FramesWhole
  BY DEF IInv
<1> QED
  BY <1>1, Invariance, PTL
=============================================================================
