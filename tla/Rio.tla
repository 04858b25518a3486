-------------------------------- MODULE Rio --------------------------------
(***************************************************************************)
(* The buffered reader of the Rio package (csapp.c of proxylab, of tshlab  *)
(* and of tiny): one rio_t, and a caller that may call rio_readnb and      *)
(* rio_readlineb in any order.  read() returns what has arrived so far, at *)
(* least one byte, or is interrupted, fails, or finds the end.             *)
(*                                                                         *)
(* A byte is its place in the stream, 1 .. Length, and newlines are the    *)
(* places that hold one.  An action is the code from one read() to the     *)
(* next, or one copy out of the buffer.  The terminator that rio_readlineb *)
(* writes after a line is left out.                                        *)
(***************************************************************************)
EXTENDS Integers, Sequences

CONSTANTS RIO_BUFSIZE, Length, Counts, Failed

ASSUME RioAssumption ==
    /\ RIO_BUFSIZE \in Nat \ {0}
    /\ Length \in Nat
    /\ Counts \subseteq Nat
    /\ Failed \notin Seq(Nat)

VARIABLES
    newlines,
    fetched,                        \* how much read() has returned so far
    rio_buf, rio_bufptr, rio_cnt,   \* the rio_t
    op, n,                          \* the call in progress, and its count
    usrbuf,                         \* what it has copied to its caller
    reply                           \* what the last call returned

stream == <<newlines, fetched>>
rio_t == <<rio_buf, rio_bufptr, rio_cnt>>
vars == <<newlines, fetched, rio_buf, rio_bufptr, rio_cnt, op, n, usrbuf, reply>>

(* rio_readinitb; the buffer's content is whatever was there, here 0.      *)
Init ==
    /\ newlines \in SUBSET (1 .. Length)
    /\ fetched = 0
    /\ rio_buf = [j \in 1 .. RIO_BUFSIZE |-> 0]
    /\ rio_bufptr = 1
    /\ rio_cnt = 0
    /\ op = "none"
    /\ n = 0
    /\ usrbuf = <<>>
    /\ reply = <<>>

-----------------------------------------------------------------------------
Call(function, count) ==
    /\ op = "none"
    /\ function = "rio_readlineb" => count >= 1
    /\ op' = function
    /\ n' = count
    /\ usrbuf' = <<>>
    /\ UNCHANGED <<stream, rio_t, reply>>

LineEnded == usrbuf # <<>> /\ usrbuf[Len(usrbuf)] \in newlines

(* Mutant of Left: no room is kept for the terminator of a line.           *)
Left_NoRoom ==
    IF op = "rio_readnb" THEN n - Len(usrbuf)
    ELSE IF op = "rio_readlineb" /\ Len(usrbuf) < n /\ ~LineEnded THEN 1 ELSE 0

(* How much the call asks rio_read for: all that is left, or the next byte.*)
Left ==
    IF op = "rio_readnb" THEN n - Len(usrbuf)
    ELSE IF op = "rio_readlineb" /\ Len(usrbuf) < n - 1 /\ ~LineEnded THEN 1 ELSE 0

Return(value) ==
    /\ op' = "none"
    /\ reply' = value
    /\ UNCHANGED <<n, usrbuf>>

(* Mutant of Done: the call returns with the first bytes, like read().     *)
Done_Short ==
    /\ op # "none" /\ (Left = 0 \/ (usrbuf # <<>> /\ rio_cnt <= 0))
    /\ Return(usrbuf)
    /\ UNCHANGED <<stream, rio_t>>

Done ==
    /\ op # "none" /\ Left = 0
    /\ Return(usrbuf)
    /\ UNCHANGED <<stream, rio_t>>

(* The call needs bytes, and the buffer has none: the loop of rio_read.    *)
Empty == Left > 0 /\ rio_cnt <= 0

(* Mutant of Refill: the pointer is not set back.                          *)
Refill_KeepsPointer(count) ==
    /\ Empty
    /\ count <= RIO_BUFSIZE /\ fetched + count <= Length
    /\ fetched' = fetched + count
    /\ rio_buf' = [j \in 1 .. RIO_BUFSIZE |-> IF j <= count THEN fetched + j ELSE rio_buf[j]]
    /\ rio_cnt' = count
    /\ UNCHANGED <<newlines, rio_bufptr, op, n, usrbuf, reply>>

Refill(count) ==
    /\ Empty
    /\ count <= RIO_BUFSIZE /\ fetched + count <= Length
    /\ fetched' = fetched + count
    /\ rio_buf' = [j \in 1 .. RIO_BUFSIZE |-> IF j <= count THEN fetched + j ELSE rio_buf[j]]
    /\ rio_bufptr' = 1
    /\ rio_cnt' = count
    /\ UNCHANGED <<newlines, op, n, usrbuf, reply>>

(* Mutant of Interrupted: read()'s -1 is added to the count.               *)
Interrupted_Adds ==
    /\ Empty
    /\ rio_cnt' = rio_cnt - 1
    /\ UNCHANGED <<stream, rio_buf, rio_bufptr, op, n, usrbuf, reply>>

Interrupted ==
    /\ Empty
    /\ rio_cnt' = -1
    /\ UNCHANGED <<stream, rio_buf, rio_bufptr, op, n, usrbuf, reply>>

EndOfFile ==
    /\ Empty /\ fetched = Length
    /\ rio_cnt' = 0
    /\ Return(usrbuf)
    /\ UNCHANGED <<stream, rio_buf, rio_bufptr>>

ReadFails ==
    /\ Empty
    /\ rio_cnt' = -1
    /\ Return(Failed)
    /\ UNCHANGED <<stream, rio_buf, rio_bufptr>>

(* The rest of rio_read: the smaller of what is asked and what is there.   *)
Copied == IF rio_cnt < Left THEN rio_cnt ELSE Left

Copy ==
    /\ Left > 0 /\ rio_cnt > 0
    /\ usrbuf' = usrbuf \o [j \in 1 .. Copied |-> rio_buf[rio_bufptr + j - 1]]
    /\ rio_bufptr' = rio_bufptr + Copied
    /\ rio_cnt' = rio_cnt - Copied
    /\ UNCHANGED <<stream, rio_buf, op, n, reply>>

Next ==
    \/ \E function \in {"rio_readnb", "rio_readlineb"}, count \in Counts : Call(function, count)
    \/ Done
    \/ \E count \in 1 .. RIO_BUFSIZE : Refill(count)
    \/ Interrupted
    \/ EndOfFile
    \/ ReadFails
    \/ Copy

Spec == Init /\ [][Next]_vars

-----------------------------------------------------------------------------
TypeOK ==
    /\ newlines \in SUBSET (1 .. Length)
    /\ fetched \in 0 .. Length
    /\ rio_buf \in [1 .. RIO_BUFSIZE -> 0 .. Length]
    /\ rio_bufptr \in 1 .. RIO_BUFSIZE + 1
    /\ rio_cnt \in -1 .. RIO_BUFSIZE
    /\ op \in {"none", "rio_readnb", "rio_readlineb"}
    /\ n \in Nat
    /\ usrbuf \in Seq(1 .. Length)
    /\ reply \in Seq(1 .. Length) \cup {Failed}

(* What is in the buffer and not yet copied is the end of what was fetched,*)
(* whatever stale bytes stand around it (csapp.c:481-508).                 *)
Unread == IF rio_cnt > 0 THEN rio_cnt ELSE 0

BufferHoldsNext ==
    /\ rio_bufptr + Unread <= RIO_BUFSIZE + 1
    /\ Unread <= fetched
    /\ \A j \in 1 .. Unread : rio_buf[rio_bufptr + j - 1] = fetched - Unread + j

(* A call in progress has the bytes just before those in the buffer, no    *)
(* more than it asked for, and no newline but at the end of a line.        *)
CallInOrder ==
    op # "none" =>
        /\ n \in Counts
        /\ Len(usrbuf) <= fetched - Unread
        /\ \A j \in DOMAIN usrbuf : usrbuf[j] = fetched - Unread - Len(usrbuf) + j
        /\ op = "rio_readnb" => Len(usrbuf) <= n
        /\ op = "rio_readlineb" =>
              /\ n >= 1 /\ Len(usrbuf) <= n - 1
              /\ \A j \in DOMAIN usrbuf : usrbuf[j] \in newlines => j = Len(usrbuf)

(* Each byte reaches the callers once and in order, however the packets,   *)
(* the interrupts and the two kinds of calls fall (csapp.c:522-566).       *)
Stream == INSTANCE ByteStream WITH
    position <- fetched - Unread - IF op = "none" THEN 0 ELSE Len(usrbuf)

ImplementsByteStream == Stream!Spec
=============================================================================
