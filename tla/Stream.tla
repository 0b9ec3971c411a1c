------------------------------- MODULE Stream -------------------------------
(***************************************************************************)
(* One direction of a proxied connection: RateLimitedStream's poll_read    *)
(* and poll_write (traffic/bandwidth.rs), polled by the copy loop of       *)
(* tokio's copy_bidirectional (external).  The loop reads into a buffer,   *)
(* writes the buffer out, and while a write is pending tops the buffer up. *)
(*                                                                         *)
(* The token bucket is represented by what it may answer: a request is     *)
(* granted now, later or never (module Limiter says when).                 *)
(***************************************************************************)
EXTENDS Naturals

CONSTANTS
    SrcLen,   \* bytes the source sends before it closes
    BufSize,  \* the copy loop's buffer
    Chunk     \* chunk_size, the most that one permit is asked for

ASSUME SizesAssumption ==
    SrcLen \in Nat /\ BufSize \in Nat \ {0} /\ Chunk \in Nat \ {0}

VARIABLES
    rlim, wlim,  \* has the reader, the writer a limiter?
    unsent,      \* bytes the source has yet to send
    avail,       \* bytes received and not read
    closed,      \* the source has closed
    pos, cap,    \* the buffer's unwritten part
    eof,         \* the loop has read the end of the stream
    written,     \* bytes the sink has accepted
    ready,       \* the sink's socket takes bytes
    rfut, wfut,  \* the amount a pending permit future waits for, 0 if none
    permit,      \* the amount paid for the last read
    moved,       \* the bytes it returned
    pc           \* where the copy loop is

srcVars == <<unsent, avail, closed>>
bufVars == <<pos, cap, eof, written>>
vars == <<rlim, wlim, srcVars, bufVars, ready, rfut, wfut, permit, moved, pc>>

TypeOK ==
    /\ rlim \in BOOLEAN /\ wlim \in BOOLEAN /\ closed \in BOOLEAN
    /\ eof \in BOOLEAN /\ ready \in BOOLEAN
    /\ unsent \in 0..SrcLen /\ avail \in 0..SrcLen /\ written \in 0..SrcLen
    /\ cap \in 0..BufSize /\ pos \in 0..cap
    /\ rfut \in 0..Chunk /\ wfut \in 0..Chunk
    /\ permit \in Nat /\ moved \in Nat
    /\ pc \in {"parked", "fill", "write", "topup", "done", "failed"}

Init ==
    /\ rlim \in BOOLEAN /\ wlim \in BOOLEAN
    /\ unsent = SrcLen /\ avail = 0 /\ closed = FALSE
    /\ pos = 0 /\ cap = 0 /\ eof = FALSE /\ written = 0
    /\ ready \in BOOLEAN /\ rfut = 0 /\ wfut = 0
    /\ permit = 0 /\ moved = 0
    /\ pc = "parked"

(* The source sends, and closes when it has sent everything.               *)
Arrive(n) ==
    /\ n <= unsent
    /\ unsent' = unsent - n
    /\ avail' = avail + n
    /\ UNCHANGED <<rlim, wlim, closed, bufVars, ready, rfut, wfut, permit,
                   moved, pc>>

CloseSource ==
    /\ unsent = 0 /\ ~closed
    /\ closed' = TRUE
    /\ UNCHANGED <<rlim, wlim, unsent, avail, bufVars, ready, rfut, wfut,
                   permit, moved, pc>>

(* The sink's peer has read: its socket takes bytes again.                 *)
SinkDrains ==
    /\ ~ready
    /\ ready' = TRUE
    /\ UNCHANGED <<rlim, wlim, srcVars, bufVars, rfut, wfut, permit, moved, pc>>

-----------------------------------------------------------------------------
(* What a permit is asked for, and what is paid once it is granted: the    *)
(* amount of the pending future if there is one, else today's amount.      *)
Ask(len)       == IF len <= Chunk THEN len ELSE Chunk
Price(fut, len) == IF fut # 0 THEN fut ELSE Ask(len)

(* The most that one call moves: without a limiter there is no chunking.   *)
Most(lim, len) == IF lim THEN Ask(len) ELSE len

(* poll_read of the buffer's free part.                                    *)

(* Pending for want of tokens: check_n failed and the future it made, or   *)
(* the one from an earlier poll, is not ready.                             *)
ReadUnpaid ==
    /\ rlim
    /\ rfut' = Price(rfut, BufSize - cap)
    /\ UNCHANGED <<srcVars, bufVars, permit, moved>>

(* Pending for want of data, after paying; the next poll pays again.       *)
ReadBlocked ==
    /\ avail = 0 /\ ~closed
    /\ rfut' = 0
    /\ UNCHANGED <<srcVars, bufVars, permit, moved>>

(* Mutants: the end of the stream is reported as Pending; the bytes read   *)
(* are not added to the buffer; more is read than the buffer has room for.*)
ReadReadyNoEof(n) ==
    /\ n \in 1..Most(rlim, BufSize - cap) /\ n <= avail
    /\ permit' = IF rlim THEN Price(rfut, BufSize - cap) ELSE n
    /\ moved' = n
    /\ rfut' = 0
    /\ avail' = avail - n
    /\ cap' = cap + n
    /\ UNCHANGED <<unsent, closed, pos, written, eof>>

ReadReadyNotAdvanced(n) ==
    /\ n \in 0..Most(rlim, BufSize - cap) /\ n <= avail
    /\ n = 0 => avail = 0 /\ closed
    /\ permit' = IF rlim THEN Price(rfut, BufSize - cap) ELSE n
    /\ moved' = n
    /\ rfut' = 0
    /\ avail' = avail - n
    /\ eof' = (n = 0)
    /\ UNCHANGED <<unsent, closed, pos, cap, written>>

ReadReadyOverfull(n) ==
    /\ n \in 0..Chunk /\ n <= avail
    /\ n = 0 => avail = 0 /\ closed
    /\ permit' = IF rlim THEN Price(rfut, BufSize - cap) ELSE n
    /\ moved' = n
    /\ rfut' = 0
    /\ avail' = avail - n
    /\ cap' = cap + n
    /\ eof' = (n = 0)
    /\ UNCHANGED <<unsent, closed, pos, written>>

(* Paid and read: n bytes, none at the end of the stream.                  *)
ReadReady(n) ==
    /\ n \in 0..Most(rlim, BufSize - cap) /\ n <= avail
    /\ n = 0 => avail = 0 /\ closed
    /\ permit' = IF rlim THEN Price(rfut, BufSize - cap) ELSE n
    /\ moved' = n
    /\ rfut' = 0
    /\ avail' = avail - n
    /\ cap' = cap + n
    /\ eof' = (n = 0)
    /\ UNCHANGED <<unsent, closed, pos, written>>

(* poll_write of the buffer's unwritten part.                              *)
WriteUnpaid ==
    /\ wlim
    /\ wfut' = Price(wfut, cap - pos)
    /\ UNCHANGED <<srcVars, bufVars, ready>>

(* The sink takes no more, after the permit was paid.                      *)
WriteBlocked ==
    /\ ~ready
    /\ wfut' = 0
    /\ UNCHANGED <<srcVars, bufVars, ready>>

(* Paid and written: n bytes, after which the socket may be full.          *)
WriteReady(n) ==
    /\ ready
    /\ n \in 1..Most(wlim, cap - pos)
    /\ ready' \in BOOLEAN
    /\ wfut' = 0
    /\ pos' = pos + n
    /\ written' = written + n
    /\ UNCHANGED <<srcVars, cap, eof>>

-----------------------------------------------------------------------------
(* The copy loop (external).                                               *)

Goto(l) == pc' = l /\ UNCHANGED <<rlim, wlim>>

(* Any waker, of either direction, polls the loop again.                   *)
Wake ==
    /\ pc = "parked"
    /\ Goto("fill")
    /\ UNCHANGED <<srcVars, bufVars, ready, rfut, wfut, permit, moved>>

MayFill == cap < BufSize /\ ~eof

(* A pending read stops the poll only when there is nothing to write.      *)
Fill ==
    /\ pc = "fill"
    /\ \/ /\ MayFill
          /\ \E n \in 0..BufSize : ReadReady(n)
          /\ Goto("write")
       \/ /\ MayFill
          /\ ReadUnpaid \/ ReadBlocked
          /\ Goto(IF pos = cap THEN "parked" ELSE "write")
       \/ /\ ~MayFill
          /\ Goto("write")
          /\ UNCHANGED <<srcVars, bufVars, rfut, permit, moved>>
    /\ UNCHANGED <<ready, wfut>>

Write ==
    /\ pc = "write" /\ pos < cap
    /\ \/ \E n \in 1..BufSize : WriteReady(n) /\ Goto("write")
       \/ /\ WriteUnpaid \/ WriteBlocked
          /\ Goto(IF MayFill THEN "topup" ELSE "parked")
    /\ UNCHANGED <<rfut, permit, moved>>

(* A pending write: read some more, then return Pending in any case.       *)
TopUp ==
    /\ pc = "topup"
    /\ ReadUnpaid \/ ReadBlocked \/ \E n \in 0..BufSize : ReadReady(n)
    /\ Goto("parked")
    /\ UNCHANGED <<ready, wfut>>

(* Everything is written: start over with an empty buffer, or finish.      *)
Emptied ==
    /\ pc = "write" /\ pos = cap
    /\ pos' = 0 /\ cap' = 0
    /\ Goto(IF eof THEN "done" ELSE "fill")
    /\ UNCHANGED <<srcVars, eof, written, ready, rfut, wfut, permit, moved>>

(* Either side's socket fails: the error ends the copy.                    *)
Fail ==
    /\ pc \in {"fill", "write", "topup"}
    /\ Goto("failed")
    /\ UNCHANGED <<srcVars, bufVars, ready, rfut, wfut, permit, moved>>

Next ==
    \/ \E n \in 1..SrcLen : Arrive(n)
    \/ CloseSource \/ SinkDrains
    \/ Wake \/ Fill \/ Write \/ TopUp \/ Emptied \/ Fail

Spec == Init /\ [][Next]_vars

(* A parked task is polled again: whatever made a poll pending (a permit   *)
(* future, a socket) has the task's waker.  The sink's peer reads on.      *)
(* Nobody has to send or to close, and nothing is assumed of the bucket.   *)
FairSpec ==
    /\ Spec
    /\ WF_vars(Wake \/ Fill \/ Write \/ TopUp \/ Emptied)
    /\ WF_vars(SinkDrains)

-----------------------------------------------------------------------------
(* Properties.                                                             *)

(* No byte is lost or written twice, whatever was pending in between: what *)
(* was not written is in flight or in the buffer, and the copy is done     *)
(* only when all was written (bandwidth.rs:98-104 and :175-177).           *)
Conserved ==
    /\ SrcLen = unsent + avail + (cap - pos) + written
    /\ pc = "done" => written = SrcLen

Ended == pc \in {"done", "failed"}

(* The bucket grants what a pending permit future of this stream asks for. *)
(* It may not: other streams of the same bucket can overtake it for ever.  *)
Granted ==
    /\ rfut # 0 ~> rfut = 0 \/ Ended
    /\ wfut # 0 ~> wfut = 0 \/ Ended

(* The bucket is all that can hold up the copy of a closed stream: it ends *)
(* if every permit it waits for is granted, also when a permit that a      *)
(* blocked socket wasted is paid again (bandwidth.rs:107-116 and :179),    *)
(* when permits were asked for with a buffer that has changed since, and   *)
(* when reads and writes wait for each other's permits in turn.            *)
CopyEnds == Granted => (closed ~> Ended)

(* What the comment at bandwidth.rs:92-94 takes for granted: the bytes a   *)
(* poll_read returns are covered by the permit that was paid for them.     *)
PaidInFull == moved <= permit
=============================================================================
