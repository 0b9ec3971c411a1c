---------------------------- MODULE StreamProofs ----------------------------
(***************************************************************************)
(* The copy of one direction loses and repeats no byte, for every length   *)
(* of the stream, of the buffer and of a chunk.                            *)
(***************************************************************************)
EXTENDS Stream, TLAPS

(* Where the bytes are, and what the end of the stream means: the source   *)
(* closes after its last byte, the loop sees the end when it has read them *)
(* all, tops its buffer up only when there is room, and is done only with  *)
(* an empty buffer.                                                        *)
InFlight == SrcLen = unsent + avail + (cap - pos) + written
EndSeen  == (closed => unsent = 0) /\ (eof => closed /\ avail = 0)
Room     == pc = "topup" => MayFill
Finished == pc = "done" => eof /\ pos = cap

Inv == TypeOK /\ InFlight /\ EndSeen /\ Room /\ Finished

(* What a permit is asked for is at most a chunk, and at least a byte if   *)
(* there is one to move; no call moves more than it was given.             *)
LEMMA PermitSizes ==
    ASSUME NEW fut \in 0..Chunk, NEW len \in Nat, NEW lim \in BOOLEAN
    PROVE  /\ Price(fut, len) \in 0..Chunk
           /\ Most(lim, len) \in 0..len
  BY SizesAssumption DEF Price, Ask, Most

(* The three outcomes of a poll_read of the free part of the buffer.       *)
LEMMA ReadKeeps ==
    ASSUME Inv, MayFill, ReadUnpaid \/ ReadBlocked \/ \E n \in 0..BufSize : ReadReady(n),
           UNCHANGED <<rlim, wlim, ready, wfut>>, pc' \in {"parked", "write"}
    PROVE  Inv'
  <1> USE DEF Inv, TypeOK, InFlight, EndSeen, Room, Finished, srcVars, bufVars
  <1>1. Price(rfut, BufSize - cap) \in 0..Chunk
    BY SizesAssumption, PermitSizes, BufSize - cap \in Nat
  <1>2. CASE ReadUnpaid
    BY <1>1, <1>2 DEF ReadUnpaid
  <1>3. CASE ReadBlocked
    BY <1>3, SizesAssumption DEF ReadBlocked
  <1>4. ASSUME NEW n \in 0..BufSize, ReadReady(n)
        PROVE  Inv'
    <2>1. n \in 0..(BufSize - cap) /\ n <= avail
      BY <1>4, SizesAssumption, PermitSizes, BufSize - cap \in Nat DEF ReadReady
    <2>2. eof' \in BOOLEAN
      BY <1>4 DEF ReadReady
    <2>3. permit' \in Nat
      BY <1>1, <1>4, SizesAssumption DEF ReadReady
    <2>4. QED
      BY <1>4, <2>1, <2>2, <2>3, SizesAssumption DEF ReadReady
  <1> QED
    BY <1>2, <1>3, <1>4

(* A stream of which nothing was sent yet.                                 *)
LEMMA InitInv == Init => Inv
  <1> SUFFICES ASSUME Init PROVE Inv
    OBVIOUS
  <1>0. closed \in BOOLEAN /\ eof \in BOOLEAN /\ ready \in BOOLEAN
    BY DEF Init
  <1>1. TypeOK
    <2>1. 0 \in 0..SrcLen /\ SrcLen \in 0..SrcLen /\ 0 \in 0..Chunk /\ 0 \in 0..BufSize
      BY SizesAssumption
    <2> QED
      BY <1>0, <2>1 DEF Init, TypeOK
  <1>2. InFlight /\ EndSeen /\ Room /\ Finished
    BY SizesAssumption DEF Init, InFlight, EndSeen, Room, Finished
  <1> QED
    BY <1>1, <1>2 DEF Inv

(* Every step keeps the invariant.                                         *)
LEMMA NextInv == Inv /\ [Next]_vars => Inv'
  <1> SUFFICES ASSUME Inv, [Next]_vars PROVE Inv'
    OBVIOUS
  <1> USE DEF Inv, TypeOK, InFlight, EndSeen, Room, Finished, srcVars, bufVars
  <1>1. ASSUME NEW n \in 1..SrcLen, Arrive(n)
        PROVE  Inv'
    BY <1>1, SizesAssumption DEF Arrive, MayFill
  <1>2. CASE CloseSource
    BY <1>2 DEF CloseSource, MayFill
  <1>3. CASE Wake
    BY <1>3 DEF Wake, Goto
  <1>4. CASE Fill
    <2>1. CASE MayFill /\ \E n \in 0..BufSize : ReadReady(n) /\ Goto("write")
      BY <1>4, <2>1, ReadKeeps DEF Fill, Goto
    <2>2. CASE /\ MayFill /\ (ReadUnpaid \/ ReadBlocked)
               /\ Goto(IF pos = cap THEN "parked" ELSE "write")
      BY <1>4, <2>2, ReadKeeps DEF Fill, Goto
    <2>3. CASE /\ ~MayFill /\ Goto("write")
               /\ UNCHANGED <<srcVars, bufVars, rfut, permit, moved>>
      BY <1>4, <2>3 DEF Fill, Goto
    <2> QED
      BY <1>4, <2>1, <2>2, <2>3 DEF Fill
  <1>5. CASE Write
    <2>1. ASSUME NEW n \in 1..BufSize, WriteReady(n), Goto("write")
          PROVE  Inv'
      <3>1. n \in 1..(cap - pos)
        BY <1>5, <2>1, SizesAssumption, PermitSizes, cap - pos \in Nat
        DEF Write, WriteReady
      <3>2. ready' \in BOOLEAN
        BY <2>1 DEF WriteReady
      <3> QED
        BY <1>5, <2>1, <3>1, <3>2, SizesAssumption DEF Write, WriteReady, Goto
    <2>2. CASE /\ WriteUnpaid \/ WriteBlocked
               /\ Goto(IF MayFill THEN "topup" ELSE "parked")
      <3>1. wfut' \in 0..Chunk
        BY <2>2, SizesAssumption, PermitSizes, cap - pos \in Nat
        DEF WriteUnpaid, WriteBlocked
      <3> QED
        BY <1>5, <2>2, <3>1 DEF Write, WriteUnpaid, WriteBlocked, Goto, MayFill
    <2> QED
      BY <1>5, <2>1, <2>2 DEF Write
  <1>6. CASE TopUp
    BY <1>6, ReadKeeps DEF TopUp, Goto
  <1>7. CASE Emptied
    BY <1>7, SizesAssumption DEF Emptied, Goto
  <1>8. CASE Fail
    BY <1>8 DEF Fail, Goto
  <1>9. CASE UNCHANGED vars
    BY <1>9 DEF vars, MayFill
  <1>10. CASE SinkDrains
    <2>1. ready' \in BOOLEAN
      BY <1>10 DEF SinkDrains
    <2> QED BY <1>10, <2>1 DEF SinkDrains, MayFill
  <1> QED
    BY <1>1, <1>2, <1>3, <1>4, <1>5, <1>6, <1>7, <1>8, <1>9, <1>10 DEF Next

(* The inductive invariant holds throughout.                               *)
LEMMA InvAlways == Spec => []Inv
  BY InitInv, NextInv, PTL DEF Spec

(* The buffer's indices stay in order and in the buffer, and no permit is  *)
(* asked for more than a chunk, whatever poll_read and poll_write answer.  *)
THEOREM StreamTypeCorrect == Spec => []TypeOK
  <1>1. Inv => TypeOK
    BY DEF Inv
  <1> QED
    BY <1>1, InvAlways, PTL

(* No byte is lost or written twice, and a copy that is done has written   *)
(* everything that the source sent (bandwidth.rs:98-104 and :175-177).     *)
THEOREM NoByteLost == Spec => []Conserved
  <1>1. Inv => Conserved
    BY SizesAssumption DEF Inv, TypeOK, InFlight, EndSeen, Finished, Conserved
  <1> QED
    BY <1>1, InvAlways, PTL
=============================================================================
